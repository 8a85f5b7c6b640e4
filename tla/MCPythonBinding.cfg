SPECIFICATION Spec
CONSTANTS
  t1 = t1
  t2 = t2
  m1 = m1
  o1 = o1
  r1 = r1
  h1 = h1
  h2 = h2
  h3 = h3
  v1 = v1
  v2 = v2
  l1 = l1
  l2 = l2
  Threads <- MCThreads
  Interruptible <- MCInterruptible
  Models <- MCModels
  OptionsObjects <- MCOptionsObjects
  Results <- MCResults
  Handles <- MCHandles
  Values <- MCValues
  Libraries <- MCLibraries
  Default = v1
  Mismatched = Mismatched
  None = None
SYMMETRY MCSymmetry
CONSTRAINT Bounded
INVARIANTS
  TypeOK
  FieldsNameLiveObjects
  NothingLost
  MirrorMatches
  LibraryReady
