----------------------------- MODULE MCAuthServer -----------------------------
(* Small instances of AuthServer for TLC. *)
EXTENDS AuthServer, TLC

Symmetry == Permutations(Workers) \cup Permutations(Browsers)
            \cup Permutations(Emails) \cup Permutations(Tokens)

(* Every form there is, *)
AllForms == (Emails \cup {NoEmail}) \X (Passwords \cup {ShortPassword})

(* and one of each kind that the handlers tell apart: a form that is filled *)
(* in, for every account, and one that is not.                             *)
FewForms == (Emails \X Passwords) \cup {<<NoEmail, ShortPassword>>}
=============================================================================
