\* Two tabs over one localStorage, two listeners in one of them, nested calls.
SPECIFICATION Spec
CONSTANTS
  Tabs = {a, b}
  Fields = {"count"}
  Values = {0, 1}
  Initial <- InitialCount
  Null = Null
  Undefined = Undefined
  NoItem = NoItem
  Closed = Closed
  a = a
  b = b
  l1 = l1
  l2 = l2
  Listeners <- ListenersOfTab
  MaxDepth = 2
INVARIANTS
  TypeOK
  QuietMeansTold
  ItemIsLatest
PROPERTIES
  OpenRestoresLatest
