SPECIFICATION Spec
CONSTANTS
  Spaces = {own, c1}
  Own = own
  ExtIds <- MCExtIds
  NodeIds <- MCNodeIds
  Input <- MCInput
  NameOf <- MCNameOf
  NoName = "noname"
  None = None
  NoArr = NoArr
  Kinds <- MCWhile
  MaxArrays = 2
INVARIANT LookupsAgree
