\* Two threads sign up and log in at once.
SPECIFICATION Spec
CONSTANTS
  Emails = {e1, e2}
  Passwords = {p1}
  Salts = {s1}
  Tokens = {t1, t2}
  Rowids = {1, 2}
  SessionTtl = 1
  MaxTime = 1
  Workers = {w1, w2}
  Routes = {"signup", "login", "page", "private", "logout"}
  Browsers = {b1}
  NoEmail = NoEmail
  ShortPassword = ShortPassword
  Forms <- AllForms
  NoToken = NoToken
  Failing = {}
SYMMETRY Symmetry
INVARIANTS
  SignupOpensOwnSession
