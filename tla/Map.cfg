\* Three live keys in four slots (the code keeps the table at most half full, so
\* chains are shorter there); up to three keys share a home.  Two values per
\* key, so that a write to the wrong entry shows.
CONSTANTS
  Cap = 4
  LiveMax = 3
  Twins = 3
  Key <- MCKey
  Val = {l1, l2}
  Home <- MCHome
  TagOf <- MCTagOf
  RemovesWrap = 4
SPECIFICATION FairSpec
INVARIANTS
  TypeOK
  LookupFindsStored
  ProbesEnd
  HeldSlotValid
PROPERTIES
  ImplementsDictionary
  ShiftEnds
