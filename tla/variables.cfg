SPECIFICATION Spec
CONSTANTS
  Spaces = {own, c1}
  Own = own
  ExtIds <- MCExtIds
  NodeIds <- MCNodeIds
  Input <- MCInput
  NameOf <- MCNameOf
  NoName = "noname"
  None = None
  NoArr = NoArr
  Kinds <- MCKinds
  MaxArrays = 2
CHECK_DEADLOCK FALSE
INVARIANTS TypeOK LookupsAgree OwnedOnce ArraysSound NoLeak
PROPERTY CloneFaithful
