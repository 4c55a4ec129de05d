\* Two threads that are scheduled, no DELETE fails: rowids, log-out, the requests
\* in flight, and the answer to each.
SPECIFICATION FairSpec
CONSTANTS
  Emails = {e1}
  Passwords = {p1}
  Salts = {s1}
  Tokens = {t1, t2, t3}
  Rowids = {1, 2, 3}
  SessionTtl = 1
  MaxTime = 0
  Workers = {w1, w2}
  Routes = {"signup", "login", "logout"}
  Browsers = {b1}
  NoEmail = NoEmail
  ShortPassword = ShortPassword
  Forms <- FewForms
  NoToken = NoToken
  Failing = {"SELECT", "INSERT"}
INVARIANTS
  NoOrphanSession
  LogoutIsFinal
PROPERTIES
  AllAnswered
