\* Two pages of one browser, with calls that overtake one another in one.
SPECIFICATION FairSpec
CONSTANTS
  Tabs = {a, b}
  Sessions = {s1}
  Nobody = Nobody
  NoItem = NoItem
  Closed = Closed
  NoAnswer = NoAnswer
  a = a
  b = b
  MaxCalls <- CallsOfTab
INVARIANTS
  TypeOK
  SettledIsSession
PROPERTIES
  ReadyAtLast
