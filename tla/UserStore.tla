------------------------------ MODULE UserStore ------------------------------
(***************************************************************************)
(* src/luxweb_core/user_store.cpp: the two SQLite tables behind lux::Auth, *)
(* and the one connection all the threads of the server share.             *)
(*                                                                         *)
(* SQLite in its serialized mode executes one statement at a time on a     *)
(* connection, so each sqlite3_step of the source is one action here.      *)
(* sqlite3_last_insert_rowid is a call of its own, and reads state of the  *)
(* connection, not of the statement: LastInsertRowid is separate too.      *)
(* A row of a table is a record; names, created_at and the prepared        *)
(* statements are left out.                                                *)
(***************************************************************************)
EXTENDS Integers, FiniteSets

CONSTANTS
  Emails,        \* the non-empty e-mail addresses people sign up with
  Passwords,     \* the passwords of 8 characters or more
  Salts,         \* what RAND_bytes can return as a salt
  Tokens,        \* what random_token can return: bounds the sessions ever opened
  Rowids,        \* bound on the implicit rowid of the sessions table
  SessionTtl,    \* AuthOptions::session_ttl_seconds, in ticks of the clock
  MaxTime        \* bound on the clock

ASSUME RowidsAssumption == Rowids \subseteq Nat \ {0}
ASSUME TimeAssumption == SessionTtl \in Nat \ {0} /\ MaxTime \in Nat

VARIABLES
  users,            \* rows of table users
  userSeq,          \* sqlite_sequence of users.id (AUTOINCREMENT)
  sessions,         \* rows of table sessions
  lastInsertRowid,  \* sqlite3_last_insert_rowid of the shared connection
  now,              \* std::chrono::system_clock
  issued            \* history: every row ever inserted into sessions

storeVars == <<users, userSeq, sessions, lastInsertRowid, now, issued>>

-----------------------------------------------------------------------------
(* crypto.cpp. PBKDF2 is taken as injective in the password and the salt.  *)

Pbkdf2(password, salt) == <<password, salt>>

Mutant_SwappedArguments(password, salt) ==
  [salt |-> salt, key |-> Pbkdf2(salt, password)]

PasswordHash(password, salt) == [salt |-> salt, key |-> Pbkdf2(password, salt)]

VerifyPassword(password, hash) == Pbkdf2(password, hash.salt) = hash.key

-----------------------------------------------------------------------------
(* The SELECTs: the set of rows a statement returns. *)

Mutant_NoWhere(email) == users

FindUserByEmail(email) == {u \in users : u.email = email}

Mutant_LiveAtExpiry(token) ==
  {u \in users : \E s \in sessions : /\ s.token = token
                                     /\ s.user_id = u.id
                                     /\ s.expires_at >= now}

UserForSession(token) ==
  {u \in users : \E s \in sessions : /\ s.token = token
                                     /\ s.user_id = u.id
                                     /\ s.expires_at > now}

(* SQLite gives a row of a table without AUTOINCREMENT the rowid that      *)
(* follows the largest one in use.                                         *)
NextRowid(r) ==
  /\ \A s \in sessions : s.rowid < r
  /\ r = 1 \/ \E s \in sessions : s.rowid + 1 = r

Mutant_RepeatedToken(token) == TRUE

FreshToken(token) == \A i \in issued : i.token # token

Mutant_NoForeignKey(id) == TRUE

UserExists(id) == \E u \in users : u.id = id

-----------------------------------------------------------------------------
(* migrate() on an empty database. *)
StoreInit ==
  /\ users = {}
  /\ userSeq = 0
  /\ sessions = {}
  /\ lastInsertRowid = 0
  /\ now = 0
  /\ issued = {}

(* The INSERT of create_user; users.email is UNIQUE. *)
InsertUser(email, hash) ==
  /\ FindUserByEmail(email) = {}
  /\ users' = users \cup {[id |-> userSeq + 1, email |-> email, password_hash |-> hash]}
  /\ userSeq' = userSeq + 1
  /\ lastInsertRowid' = userSeq + 1
  /\ UNCHANGED <<sessions, now, issued>>

(* The INSERT of create_session; PRAGMA foreign_keys is ON, so the row is  *)
(* refused when sessions.user_id names no user.                            *)
InsertSession(token, user_id) ==
  /\ FreshToken(token)
  /\ UserExists(user_id)
  /\ \E r \in Rowids :
       LET row == [rowid |-> r, token |-> token, user_id |-> user_id,
                   expires_at |-> now + SessionTtl]
       IN  /\ NextRowid(r)
           /\ sessions' = sessions \cup {row}
           /\ issued' = issued \cup {row}
           /\ lastInsertRowid' = r
  /\ UNCHANGED <<users, userSeq, now>>

Mutant_DeleteNotStepped(token) == UNCHANGED storeVars

DeleteSession(token) ==
  /\ sessions' = {s \in sessions : s.token # token}
  /\ UNCHANGED <<users, userSeq, lastInsertRowid, now, issued>>

PruneSessions ==
  /\ sessions' = {s \in sessions : ~(s.expires_at <= now)}
  /\ UNCHANGED <<users, userSeq, lastInsertRowid, now, issued>>

(* The process restarts: open() makes a new connection to the same file.   *)
Reopen ==
  /\ lastInsertRowid' = 0
  /\ UNCHANGED <<users, userSeq, sessions, now, issued>>

Tick ==
  /\ now < MaxTime
  /\ now' = now + 1
  /\ UNCHANGED <<users, userSeq, sessions, lastInsertRowid, issued>>

-----------------------------------------------------------------------------
Hashes == [salt : Salts, key : Passwords \X Salts]

UserRows == [id : Nat \ {0}, email : Emails, password_hash : Hashes]

SessionRows ==
  [rowid : Rowids, token : Tokens, user_id : Nat \ {0}, expires_at : Nat]

StoreTypeOK ==
  /\ users \subseteq UserRows
  /\ userSeq \in Nat
  /\ sessions \subseteq SessionRows
  /\ lastInsertRowid \in Nat
  /\ now \in Nat
  /\ issued \subseteq SessionRows
=============================================================================
