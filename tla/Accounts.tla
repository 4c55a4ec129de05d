------------------------------- MODULE Accounts -------------------------------
(***************************************************************************)
(* What lux::UserStore promises to lux::Auth, with no tables, no threads   *)
(* and no clock: an account is opened once and stays; a session token is   *)
(* opened once, for an account that exists; it stands for that account     *)
(* until it ends, and when it has ended it never comes back.               *)
(***************************************************************************)
CONSTANTS Emails, Tokens

VARIABLES
  registered,  \* e-mails that have an account
  opened,      \* tokens ever handed out
  live         \* what a token stands for, while it is accepted

accountVars == <<registered, opened, live>>

Init ==
  /\ registered = {}
  /\ opened = {}
  /\ live = {}

Register(email) ==
  /\ email \notin registered
  /\ registered' = registered \cup {email}
  /\ UNCHANGED <<opened, live>>

Open(token, email) ==
  /\ token \notin opened
  /\ email \in registered
  /\ opened' = opened \cup {token}
  /\ live' = live \cup {[token |-> token, email |-> email]}
  /\ UNCHANGED registered

(* Sessions end by logout, or several at once as time passes. *)
End(gone) ==
  /\ live' = live \ gone
  /\ UNCHANGED <<registered, opened>>

Next ==
  \/ \E email \in Emails : Register(email)
  \/ \E token \in Tokens, email \in Emails : Open(token, email)
  \/ \E gone \in SUBSET live : End(gone)

Spec == Init /\ [][Next]_accountVars
=============================================================================
