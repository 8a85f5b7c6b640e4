SPECIFICATION Spec
CONSTANTS
  t1 = t1
  t2 = t2
  m1 = m1
  m2 = m2
  o1 = o1
  r1 = r1
  h1 = h1
  h2 = h2
  h3 = h3
  v1 = v1
  v2 = v2
  Threads <- MCThreads
  Models <- MCModels
  OptionsObjects <- MCOptionsObjects
  Results <- MCResults
  Handles <- MCHandles
  Versions <- MCVersions
  Version = v1
  Null = Null
  Foreign = Foreign
  Unbound = Unbound
  NoThread = NoThread
  NoObject = NoObject
SYMMETRY MCSymmetry
INVARIANTS
  TypeOK
  FieldsNameLiveObjects
  ReleasedOnce
  ClosedMeansIllegalState
  LibraryChecked
