SPECIFICATION FairSpec
CONSTANTS
  t1 = t1
  t2 = t2
  c1 = c1
  c2 = c2
  l1 = l1
  f1 = f1
  f2 = f2
  Null = Null
  Nodes <- MCNodes
  Names <- MCNames
  Metadata <- MCMetadata
INVARIANTS VisitsReachable FieldsByIndex TypedefNamesClass
PROPERTY Terminates
