\* A signal, a store, one input, two effects and a listener.
SPECIFICATION Spec
CONSTANTS
  Signals = {signal}
  Stores = {store}
  store = store
  Values = {v1, v2}
  Effects = {e1, e2}
  Plain = {l1}
  Bindings = {b1}
  Inputs = {b1}
  StoreOf <- StoreOfAll
  Missing = Missing
  Held = Held
  Blank = Blank
  NoEffect = NoEffect
  MaxMounts = 1
  MaxDepth = 4
SYMMETRY Symmetry
INVARIANTS
  TypeOK
  SubscribedInItsRuns
  QuietMeansShown
