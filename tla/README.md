# luxweb in TLA+

Specifications of [luxweb](../src/README.md), a small C++ web framework: models of its stateful
parts, TLC configurations that check them on small instances, and proofs for every instance.

Source paths below are relative to `src/`; `core/` stands for `src/luxweb_core/` and `cli` for
`src/luxweb_cli/main.cpp`.

## 1. The system

| Component | State it keeps | Operations | Talks to |
|---|---|---|---|
| `UserStore` (`core/user_store.cpp`) | tables `users` and `sessions` in SQLite; one connection for all threads, with its last rowid | `create_user`, `find_user_by_email`, `create_session`, `user_for_session`, `delete_session`, `prune_sessions`, `open` | called by `Auth` |
| `Auth` (`core/auth.cpp`) | none of its own | middleware `sessions()`, `require_user`, `signup`, `login`, `logout` | `UserStore`, crypto, the request's `Context`; sets the cookie |
| `App` dispatch and `Context` (`core/app.cpp`, `core/context.cpp`) | routes and middleware, fixed once it runs; a `ContextState` for each request | `dispatch` on any thread of the HTTP server, exception to 500 | handlers |
| Crypto (`core/crypto.cpp`) | none | `password_hash`, `verify_password`, `random_token` | `Auth`, `UserStore` |
| `ReloadHub` (`core/dev_reload.cpp`) | atomic `version_`, a mutex, a condition variable | `notify`, `wait_event` | route `/lux/reload`, which keeps a server thread |
| CLI (`cli`) | files: `luxweb.toml`, `.luxweb/embedded_assets.cpp`, CMake caches, executables | `new`, `build`, `dev`, `serve` | CMake, the built application |
| Browser: `lux.store` (`core/style.cpp`) | a state and a listener set for each store; an item in `localStorage` | `get`, `set`, `patch`, `subscribe` | effects, other tabs through `localStorage` |
| Browser: `signal`, `effect` | value, listeners, `activeEffect` | `get`, `set`, `subscribe`, `run` | stores, bindings |
| Browser: `mount`, bindings | effects and listeners on elements | `mount`, `bindModel`, `evaluate` | stores, effects |
| Pages and templates (`core/app.cpp`, `core/template_engine.cpp`) | route table, template sources | `pages`, `embedded_pages`, `render` | file system, embedded assets |
| HTTP parsing (`core/http.cpp`) | none | `parse_pairs`, `url_decode` | requests |
| Starter example (`examples/starter`) | a persisted store `user` | `refresh` | `/api/me`, `lux.store` |
| Theme and CSS, static files | none that changes | text and file output | |

### What is hard here, and what makes each part correct

* **Threads over one connection.** The HTTP server runs handlers on several threads; all share one
  SQLite connection. Each statement is atomic, a sequence of two is not, and
  `sqlite3_last_insert_rowid` belongs to the connection. Correct means: sessions name existing
  users, the session that is handed out is that of the person who signed in, and a request runs as
  the owner of its cookie, even when a log-out or a pruning runs between its steps.
* **Failing statements and a process that dies.** Sign-up is two statements with no transaction,
  `delete_session` and the SELECTs look at no result, and `login` leaves an exception to
  `dispatch`. Correct means: every request is answered, and what a browser holds stays backed by a
  row.
* **Sleeping and waking.** `notify` changes the counter without the mutex. Correct means: an event
  is news for the page that gets it, and a thread that sleeps when `notify_all` runs wakes.
* **Commands that share files.** `build`, `dev` and `serve` share `build/` and its CMake cache, and
  each may stop half-way. Correct means: after a build that succeeded the executable is there and
  holds the assets, and `dev` runs what it has just built.
* **Callbacks that call back.** A store's listeners may set, subscribe, unsubscribe and throw, in
  calls of one another; tabs share one item. Correct means: when everything has returned, every
  listener has seen the state, and the item is the latest state or nothing.
* **Effects inside effects.** Which effect a read subscribes is a global, `activeEffect`, that runs
  set and restore while they nest, are called by a `set` and throw. Correct means: an effect is told
  of what its own function has read, and an element shows the state of its store.

* **One site, found twice.** `pages` derives routes and template names from the directories it walks
  and the search paths added so far; the code generator derives them again for the binary, where a
  layout is looked for among candidates. Correct means: each page is shown at its route whatever else
  is created, deleted or mounted, and the binary answers as the directories do.
* **Texts that one program writes and another reads.** Forms, cookies, string literals, shell words
  and `luxweb.toml` each have their own special bytes. Correct means: what is read is what was
  written.
* **Answers that are late.** `refresh` of the starter may run several times at once, in several pages
  over one persisted item. Correct means: a page that has heard everything shows the user the
  browser's cookie is of.

The hazards, each at its line with the properties that would catch it, are in `PROJECT.json`.

## 2. Modules

| Module | Models | Built on |
|---|---|---|
| `UserStore` | SQLite tables and statements of `core/user_store.cpp`, crypto | |
| `AuthServer` | `Auth`, dispatch, worker threads, cookie jars, crashes, the clock | EXTENDS `UserStore` |
| `Accounts` | the abstract promise: accounts and tokens, no tables | instantiated by `AuthServer` |
| `AuthServerProofs` | theorems about `AuthServer` | EXTENDS `AuthServer` |
| `MCAuthServer` | symmetry sets for TLC | EXTENDS `AuthServer` |
| `ReloadHub` | `core/dev_reload.cpp`, `/lux/reload` | |
| `CliBuild` | the commands of the CLI | |
| `DevProofs` | theorems about `CliBuild` and `ReloadHub` | EXTENDS both |
| `Site`, `MCSite`, `SiteProofs` | pages, templates and public files, from the file system and from the binary; small projects; its theorems | |
| `Codec`, `CodecProofs` | forms, queries and cookies of `core/http.cpp`; literals, shell words and `luxweb.toml` of the CLI; its theorems | |
| `UserHydration`, `MCUserHydration`, `UserHydrationProofs` | `lux-user.js` of the starter, the item its pages share, the sessions of the server; its instance; its theorems | |
| `LuxStore`, `MCLuxStore`, `LuxStoreProofs` | `lux.store`, persistence, tabs; its instance; its theorems | |
| `LuxEffects`, `MCLuxEffects`, `LuxEffectsProofs` | `signal`, `effect`, the reads that subscribe, `mount` and its bindings, in one page; its instance; its theorems | |
| `SequenceLemmas` | facts about numbers and sequences that the proofs cite | EXTENDED by `LuxStoreProofs`, `LuxEffectsProofs`, `UserHydrationProofs`, `SiteProofs`, `CodecProofs` |

### UserStore and AuthServer

`users` and `sessions` are sets of records, one for each row; `userSeq` is SQLite's AUTOINCREMENT
counter of `users.id`, while a session's implicit rowid follows the largest one in use. Each
`sqlite3_step` is one action, since SQLite in serialized mode runs one statement at a time; reading
`sqlite3_last_insert_rowid` is a step of its own (`SignupUserId`). `issued` and `ended` are history:
the rows ever inserted, and the tokens a log-out was asked for.

A worker thread is a program counter and the locals of `dispatch`:

| `pc[w]` | next action | code |
|---|---|---|
| `idle` | `Accept` | the HTTP server hands over a request, `to_request` |
| `sessions` | `Sessions` | `Auth::sessions`, one SELECT |
| `handler` | `Page`, `Private`, `SignupRejected`, `SignupCreateUser`, `LoginVerify`, `Logout` | the handlers up to their statement |
| `last_insert_rowid` | `SignupUserId` | end of `create_user` |
| `create_session` | `CreateSession` | the INSERT, or what its exception becomes (`SessionRefused`) |
| `respond` | `Respond` | the response leaves, and may be lost |

`Failing` is the kinds of statements that may fail for no other reason; `RAND_bytes` comes before an
INSERT each time, and fails with it. `Crash` loses every request and the
connection, and keeps tables and cookies. `Prune` is the call an application may make; nothing in
the framework makes it. `PasswordHash` and `VerifyPassword` are what `core/crypto.cpp` computes,
with PBKDF2 as an injective function; a token is one that was not issued before (32 random bytes).

`Accounts` says what this amounts to: registered e-mails, opened tokens, and what each live token
stands for. `AuthServer!Live` is the join of unexpired rows with users.

### ReloadHub

`Lock`, `Test`, `Sleep` and the return to `lock` are the loop inside `cv_.wait(lock, predicate)`.
`FetchAdd` and `NotifyAll` are the two statements of `notify`, neither under the mutex. The event's
version is a second read of the counter (`ReadVersion`). Spurious wake-ups are allowed at any time.
`HubInit`, `HubNext` and the others carry the hub's name so that `DevProofs` can extend both modules.

### CliBuild

One command runs at a time, in steps (`ReadConfig`, `Generate`, `Configure`, `Compile`, `Launch`)
between which the developer may edit. The templates and assets are one number, the edits made to
them; an executable holds such a number or reads the files. CMake, the compiler and the application
return the status they like (0, exit code 1, a signal), and `Finish` gives the shell the low byte
of what `main` returns; an exception of `std::stoi` at the port in `luxweb.toml` aborts the command.
`began` and `built` are history.

### Site

A path is a sequence of names and a name the sequence of its parts between dots, so that the
extension and the directories of a path are what the code takes them for. `todo` is what `main` has
still to do: the calls of `add_template_path` and `pages`, in the orders of `Mains`. `routes` are the
handlers `pages` has registered, each with the template name it keeps; `Render` is what such a
handler does at each request, over the files there are by then. `Build` is the generated file:
routes by `EmbeddedHandlers`, layouts by `Candidates`, assets by `Literal`. The template language is
external: a page is shown as the files it is made of, itself and the layout it extends (`Layout` says
how it writes that). Files are created, written and deleted at any time, up to `MaxEdits`. The last
definitions of the module (`OneDot`, `Spread`, `OneRoot`, `RootedLayouts`, `PlainPublic`) are what a
project is like; `MCSite` asserts of its projects the four that do not speak of public files.

### Codec

The state is what somebody has typed, bytes in the names and values of some fields. The functions
of the code (`UrlDecode`, `ParsePairs`, `CxxStringLiteral`, `ShellQuote`, `AppName`, `TomlName`,
`ConfigName`) are compared with those who read or write the other side: a browser that encodes a form
or a cookie header, a C++ compiler, a POSIX shell. Those are external, and modelled as far as these
texts need them. `ReadHex` is what a stream does with two characters: it skips blanks, takes a
sign, and is content with one digit. `EscapesAreRead` draws the line between that and the escapes of the
standard (`PercentDecode`): the two agree exactly on the texts without a percent sign before a loose
number (`HasLoose`), such as `%4g` or `%-1`. There is no type invariant, because typing can only add
bytes; that they stay texts is `FieldsAreTexts` in the proofs.

Readers are loops over a text, of two kinds. `Reads` steps from a state to the next with each element
(a splitter with the parts so far, the shell with its word, `read_config` with the name); `Scan` says
what is written at each position and how far it is to the next (`url_decode`, the compiler). Writers
put one piece after the other (`FlattenSeq`).

### UserHydration

A session stands for its user, since all a page shows is whose session the server said the cookie
to be of; log-in and log-out, several steps each in `AuthServer`, are one step here. `calls[t]` are
the calls of `refresh()` in flight, in the order they were made, each with the cookie it was sent
with and the answer it has got. Answers reach the page in any order, or not at all (`Fail`), which is
also what a listener that throws amounts to; the first call of a page has a `catch`. The item
is what `set` persists, and any write of it may be refused, which removes it. `storage` says whether
the browser has a `localStorage` at all: the runtime looks before it uses one (`core/style.cpp:108`,
`129`), the script does not, so that without one `set` of a signed-out state throws before it sets the
store (`lux-user.js:13`), the `catch` of the first call does the same (`:45`), and a page where nobody
is signed in is never ready. `fresh` is history:
since the last call of the page neither cookie nor sessions have changed, nothing else was set, and
answers have come in the order of the calls.

### LuxStore

`stack[t]` is the queues of listeners that running calls of `publish()` have still to call, the
innermost first; what a listener does is the next steps of the tab. A queue is a copy of the
listener set at the time of `publish()`, as `Array.from` makes it. `Throw` ends any number of the
running calls. `Assign` is `Object.assign`, `Restore` is `readPersisted` with its special cases
(no item, unparsable `undefined`, `null`), and a refused write removes the item. `told`, `thrown`
and `latest` are history.

### LuxEffects

What a script or a function given to `effect` and `subscribe` does is unknown, so it may make any
call of the library, throw or return. `stack` is the JavaScript stack, the innermost call first:

| frame | call | when it returns |
|---|---|---|
| `set` | `set()` of a signal, or `publish()`: `queue` is the rest of the copied listeners | |
| `run` | `run` of an effect | `activeEffect` is `previous` again, also after an exception (`Restored`) |
| `call` | a listener | |
| `first` | `signal.subscribe`, which calls the listener before it adds it | the listener is added |

The effects that `mount` makes are known: each evaluates its expression and writes to its element,
with no call of anything unknown, so a run of one is a single step, `Show`. An expression names one
store, which `mount` may find or not; a store that appears later is never bound. An input is a text
input, whose value goes into the store as it is. `Type` is the user, between two scripts.
`reads`, `early` and `missed` are history: what has been read in the runs of which effect, the stores
that were there at the first `mount`, and the elements an exception has kept from an update. A run is
all that happens until it returns: when a `set` or a `subscribe` in it calls a listener and that one
reads, `get` adds the effect (`core/style.cpp:70`), which is told from then on of what its own function
never reads. The code does so and `reads` counts such a read for the effect; that no read is taken for
one of another effect is what `SubscribedInItsRuns` claims, and not who made it.

`LuxStore` and `LuxEffects` overlap in `set` and `subscribe` of a store: the first has persistence,
tabs and what listeners are told, the second has effects, elements and no persistence.

## 3. What is checked

Passing runs:

| Run | Instance | Shows |
|---|---|---|
| `AuthServerFaults` | 2 threads, 2 accounts, 1 browser, 2 tokens, any statement fails, crashes, 1 tick | `TypeOK`; `CookieIsBacked`; `IdentityIsOwner`; `LoginOpensOwnSession`; `ImplementsAccounts`, the refinement |
| `AuthServerThreads` | 2 threads that are scheduled, 1 account, 3 tokens, any SELECT or INSERT fails | `NoOrphanSession`; `LogoutIsFinal`; `AllAnswered` |
| `ReloadHub` | 3 threads, 2 notifications, pages that saw version 0 or 1 | `HubTypeOK`; `EventIsNews`; `AsleepIsWoken`; `AsleepOrAnswered` |
| `CliBuild` | 2 build directories, ports 18080 and 65536, 2 edits | `TypeOK`; `BuildIsCurrent`; `DevRunsItsOwnBuild` |
| `Site` | 5 templates, 2 directories of pages, 1 style sheet, 4 ways to wire them, 2 edits | `TypeOK`; `PageIsItself`; `BundleServesTheApp` |
| `Codec` | 3 bytes out of 15, over 2 fields | `EscapesAreRead`; `FormIsReadBack`; `SessionIsReadBack`; `LiteralIsItsBytes`; `QuotedIsOneWord`; `NameIsReadBack` |
| `UserHydration` | 2 pages, 2 calls in flight in one of them and 1 in the other, 1 session, with a `localStorage` and without | `TypeOK`; `SettledIsSession`; `ReadyAtLast` |
| `LuxStore` | 2 tabs, 2 listeners in one of them, 1 field, nesting of 2 | `TypeOK`; `QuietMeansTold`; `ItemIsLatest`; `OpenRestoresLatest` |
| `LuxEffects` | a signal, a store, 1 input, 2 effects, 1 listener, 1 mount, 4 calls deep | `TypeOK`; `SubscribedInItsRuns`; `QuietMeansShown` |

Each property is broken by a mutant of the definition it depends on (`Mutant_...`, beside the
definition; listed in `PROJECT.json`).

Runs that end in a violation, each a disagreement between the code and what the repository says:

| Run | Property | What happens |
|---|---|---|
| `SignupRace` | `SignupOpensOwnSession` | another thread's INSERT comes between that of `create_user` and its `sqlite3_last_insert_rowid`: sign-up opens a session of another account (`core/user_store.cpp:105`) |
| `CliExitCode` | `ExitZeroMeansBuilt` | `main` returns the raw status of `std::system`: an exit code of 1 is 256, and its low byte 0 (`cli:426`) |
| `SiteBinary` | `BundleServesTheApp` | a public file goes through a `const char*` into the binary, and is cut at its first zero byte, as every PNG has one (`cli:234`) |

Some properties pass only inside a boundary that a constant or an instance draws. What lies beyond
it is not in doubt, only not worth a run each:

* `LogoutIsFinal` needs a DELETE that works (`Failing` without it): `delete_session` looks at no result
  (`core/user_store.cpp:174`), and log-out answers as if a DELETE that failed had worked.
* When an INSERT may fail, a sign-up whose `create_session` fails after its `create_user` tells
  the new user that the e-mail is already registered (`core/auth.cpp:45`).
* `BuildIsCurrent` needs `WriteFaults = FALSE`: `write_file` tells nobody (`cli:76`), and a build
  succeeds with an older generated file, or with none.
* `PageIsItself` needs a search path over all directories of pages, as in each of the four wirings.
  With two calls of `pages` and none, `admin/index.html` and `pages/index.html` are both the template
  `index`, and the path added first wins for both.
* `BundleServesTheApp` needs layouts written as a climb to `templates/`, the way `luxweb new` writes
  them (an include from the page's own directory is found in the file system only), names with one
  dot (`release.2.html` is a page of the binary and a 500 from the file system), and no `.webp`,
  whose type only the binary knows.
* `ReadyAtLast` needs a `localStorage`, without which the script throws (`lux-user.js:13`, `45`).
* `SettledIsSession` needs answers in the order of the calls: nothing in `refresh` drops an answer
  that another has overtaken.

### Bounds, and why they are enough

* Two threads are what every race in `AuthServer` needs: each property is about one request and
  what others do to the tables meanwhile, and a third thread does nothing to a table that the second
  could not have done. `Tokens` bounds the sessions ever opened, through `TokenLeft` in `Accept`;
  two let a browser lose one session and open another. Three tokens in `AuthServerThreads` let the
  rowid of a session grow past the id of the only user, which is where an orphan could come from.
  `Forms` are all forms, except in `AuthServerFaults`, where one empty form stands for those that are
  refused: a statement that fails takes the same branches as a wrong password.
  `AuthServerThreads` has the same forms, and no clock, because none of its properties reads one.
  `MaxTime` 1 with `SessionTtl` 1 reaches the very tick at which a session expires, is pruned and is
  refused. The theorems of section 4 need none of these bounds.
* Three threads in `ReloadHub` let one sleep, one test and one answer during one `notify()`, and let
  `notify_one` be told from `notify_all`; two notifications let the second fall between the test and
  the second read.
* 65536 is the first port that does not fit 16 bits, where `Port` gives 0. Two build directories
  separate the shared `build` from a private one. Two edits put one before and one inside a build.
* In `Site` the layout, two pages at one level, an `index` one level deeper and an `index` in another
  directory of pages are one of each kind that routes and template names tell apart. Two edits
  delete a page and create another with its name in the other directory, and put an edit on both
  sides of a start and of a build.
* In `Codec` three bytes are a percent sign with its two digits, or an escape with the digit after
  it; two fields are two with one name, or two cookies around the session's. The fifteen bytes are a
  letter and a digit that are hexadecimal and, each of them, what some reader or writer treats in
  its own way, and one above 127.
* In `UserHydration` two calls in one page overtake one another, and the second page is who changes
  the item and the cookie meanwhile. One session that is opened, ended, expires and is opened again
  tells a user from nobody; the answer of an older session reads like that of nobody.
* In `LuxStore` a depth of 2 is a listener inside a listener, two listeners are one that has been
  called and one that has not, and the second tab needs none, since tabs meet only in the item.
* In `LuxEffects` four calls are an effect run by a `set` that an effect has made inside a `set`: two
  runs that nest with a publication between them, and one more call around or inside. Two effects
  are the one that runs and the one it would be mistaken for; one element is enough, since elements
  do not call one another. Effects, and values, are interchangeable, hence the symmetry.

### Fairness

* `AuthServer`: weak fairness of `Serve(w)`. A thread that has a request is scheduled by the system
  until it has answered, and SQLite's own lock makes it wait for statements, which end. Nobody has
  to send a request, and neither the clock nor a crash is made to happen.
* `ReloadHub`: weak fairness of each thread's steps and of `NotifyAll`, strong fairness of `Lock`: a
  thread that keeps asking for a mutex that is free again and again gets it. Nobody has to call
  `notify()`, to open a page, or to wake a thread spuriously.
* `UserHydration`: weak fairness of the server's answer to the oldest call of a page, and of its
  arrival or failure: a browser settles every fetch in the end, be it with an error. Nobody has to
  open a page, call `refresh` or log in, and pages may be closed.

The other runs check no liveness.

Deadlock is checked in every run but `Codec`, where typing ends at `MaxBytes`; developers, browsers
and scripts always have a next step.

## 4. What is proved

All for every value of the constants, under the assumptions named in the modules (`Rowids` are
positive, times are naturals and `SessionTtl` is not 0, the sentinels are no e-mail, password or
token).

| Theorem | Statement |
|---|---|
| `TypeCorrect` | `Spec => []TypeOK` |
| `AuthServerProofs!Invariance` | `Spec => []IInv`, the inductive invariant |
| `NoOrphans` | `Spec => []NoOrphanSession` |
| `CookiesAreBacked` | `Spec => []CookieIsBacked` |
| `IdentityIsSound` | `Spec => []IdentityIsOwner` |
| `LogoutIsSound` | `Spec => []LogoutIsFinal`, assuming `"DELETE" \notin Failing` |
| `LoginIsSound` | `Spec => []LoginOpensOwnSession` |
| `Refinement` | `Spec => ImplementsAccounts` |
| `ReloadTypeCorrect` | `HubSpec => []HubTypeOK` |
| `EventsAreNews` | `HubSpec => []EventIsNews` |
| `CliTypeCorrect` | `CliBuild!Spec => []TypeOK` |
| `BuildsAreCurrent` | `CliBuild!Spec => []BuildIsCurrent`, assuming `~WriteFaults` |
| `DevIsSound` | `CliBuild!Spec => []DevRunsItsOwnBuild` |
| `HydrationTypeCorrect` | `UserHydration!Spec => []TypeOK` |
| `SettledIsSound` | `UserHydration!Spec => []SettledIsSession` |
| `ItemsAreLatest` | `LuxStore!Spec => []ItemIsLatest` |
| `RestoresAreLatest` | `LuxStore!Spec => OpenRestoresLatest` |
| `StoreTypeCorrect` | `LuxStore!Spec => []TypeOK` |
| `QuietIsTold` | `LuxStore!Spec => []QuietMeansTold` |
| `EffectsInductive` | `LuxEffects!Spec => []IInv`, the inductive invariant |
| `EffectsTypeCorrect` | `LuxEffects!Spec => []TypeOK` |
| `SubscribersSound` | `LuxEffects!Spec => []SubscribedInItsRuns` |
| `QuietIsShown` | `LuxEffects!Spec => []QuietMeansShown` |
| `SiteTypeCorrect` | `Site!Spec => []TypeOK`, assuming `Spread` of every `main` |
| `PagesAreThemselves` | `Site!Spec => []PageIsItself`, assuming `OneDot`, and `OneRoot` of every `main` |
| `BundleIsTheApp` | `Site!Spec => []BundleServesTheApp`, assuming `OneDot`, `RootedLayouts`, `PlainPublic` |
| `EscapesRead` | `Codec!Spec => []EscapesAreRead` |
| `FormsAreRead` | `Codec!Spec => []FormIsReadBack` |
| `SessionsAreRead` | `Codec!Spec => []SessionIsReadBack` |
| `LiteralsAreBytes` | `Codec!Spec => []LiteralIsItsBytes` |
| `OneWord` | `Codec!Spec => []QuotedIsOneWord` |
| `NamesAreRead` | `Codec!Spec => []NameIsReadBack` |

The argument. `StepsOnStore` reduces the steps of the server to what they do to the tables
(`StoreStep`), so facts about tables are proved once for each statement: ids and tokens are keys, a
row was issued for a user that exists, a row that is gone has expired or was logged out
(`StoreInductive`). None of the properties is inductive alone. `CookieIsBacked` speaks of jars, and
needs to know where a cookie has been before: in a response and in requests, never before its row
was issued (`CookiesIssued`). `IdentityIsOwner` needs that a request was accepted no later than now,
and that an idle thread has no user. `LogoutIsFinal` needs that an ended token has no row: the
DELETE removed it, and no INSERT repeats a token. `LoginOpensOwnSession` needs what the thread
found before `create_session` (`LoginFound`), which stays true because no statement changes or
removes a user. For `Refinement`, `UsersKeyed` makes the join in `Live` functional, so one INSERT
adds at most one pair, and a new user id is in no session row.

`EventIsNews` needs that a thread past its test has a counter above what its page has seen, which
lasts because the counter never goes down; the same invariant has the mutex with the one thread that
has taken it and neither sleeps nor has returned (`OneHolder`). In `CliBuild`, `Control` says which
steps which command is in and that a running command has no outcome yet, and `Assets` what its steps
have left so far: the generated file is no older than the command, the cache it compiles under is
its own, the executable `dev` is about to launch is of this configuration. `BuildIsCurrent` speaks
of the time after a command, when nothing is left of these, so the proof goes through the one step
in which they meet, a compilation that succeeds. `Ports` is any set of integers that has 18080, the
port `luxweb new` writes.

In `UserHydration` the invariant is one of each page (`Page`), with the cookie and the sessions as its
surroundings, so a step of a page needs a proof about that page only (`PageStep`). A page that is not
ready has its first call in flight, and that call makes it ready however it ends; while nothing has come
in between, the last call carries the cookie of the browser and the user it stands for, and the answers
of earlier calls do not matter (`CallEnds`). In `LuxStore` the item is what was published last, or
nothing, since a refused write removes it (`PublishStep`); a page that opens restores that item and
nothing else, so `OpenRestoresLatest` follows from the invariant at the step that opens it (`Step`).
Neither proof bounds how deep calls nest. The sentinels are distinct from one another and from states.
`QuietMeansTold` speaks of the time when no call runs; before that, a listener that was not told is
still in the queue of some `set` on the stack (`Tab`). A write queues every listener, a call moves one
from a queue to those told (`CallTold`), a listener that leaves is one of whom nothing is claimed any
more (it stays in the queues and is called all the same), one that subscribes is told at once, and
only an exception drops a queue, with what is in it.

In `LuxEffects`, `SubscribedInItsRuns` needs to know that `activeEffect` is the innermost run when a
variable is read (`ActiveIsInnermost`). That is not inductive: when a run ends, the invariant has to
say what it puts back. `Nested` says it of every run on the stack: what it holds is the effect of the
next one out. `PushStack`, `PopStack` and `DropStack` keep it for a call, a return and an exception that
ends several calls at once. `QuietMeansShown` is about a quiet page, and its invariant (`Told`) about
any: an element is live and shows the value, or has missed it, or its run waits in the queue of a
running `set` (`Pending`). No value is written with an element's run neither done nor queued
(`PublishTold`), and the run that a `set` goes on to shows what the store holds by then, not what it
held when the `set` began (`ShowStep`). The runs of elements are assumed distinct from the functions of
scripts, and the elements finitely many: `mount` subscribes them one by one.

In `Site`, `PageIsItself` depends on `add_template_path` only ever appending: the first search path
stays the first (`FirstStays`), `Render` tries it first, and a page under it has kept the name that
leads back to it from there (`Served`). So it is found whatever the other directories hold, and under
`OneDot` cutting `.html` off and adding it again gives back the file. `Spread` and `OneRoot` hold of
the mains of the repository (the starter and what `luxweb new` writes): one template path, and pages
under it. Without `OneRoot` two directories can give one template name to two pages
(`core/app.cpp:173`); without `OneDot` the name of `release.2.html` is not the page's
(`core/template_engine.cpp:72`). `BundleIsTheApp` is about the functions that generate the binary,
because the bundle is always `BundleOf` the files there were at the last build (`Built`): routes agree
(`BundledRoute`), a layout that climbs to `templates/` is the same file by way of the file system and
of the candidates (`Climbed`, `BundledPage`), a public file is the same bytes and type
(`BundledFile`). `SiteBinary` shows what happens without `PlainPublic`. A template path under another,
which `Spread` excludes, is added by no code here; `TypeOK` is stated of search paths that do not
cover one another, as the check of `pages` before it adds one leaves them.

In `Codec` the state is any sequence of fields with any bytes (`FieldsAreTexts`), so the theorems are
about texts of every length, and the work is in the functions. That a recursive function over
positions exists is shown by hand: `Iterated` builds it from its values up to `n`, and `Reads` and
`Scan` are what one such function says (`ReadsMeans`, `ScanMeans`). Every step of a reader is a
transition function, never an operator, because the provers cannot instantiate an operator. From that
come a few laws: a text after another is read from where the first has led to (`ReadsOn`), a piece in
front of a text is read first and what is behind it as if it stood alone (`ScanFirst`), pieces are
written one after the other (`FlattenNext`, `EncodedFirst`). Induction over a text is a least
counterexample again (`SequencesByLast`, `SequencesByFirst`).

The six properties then need what each writer leaves out. `EscapesAreRead` walks the two readers
from the back: at a position outside of every escape both write the same piece and go on to such a
position, or the scan reads a loose number and they begin with different bytes (`SameScan`,
`DecodesBeside`). A loose number is below 16 or above 240, so it is never the percent sign
(`LooseIsRead`). What `UrlCode` writes is read as one byte (`DecodeFirst`) and holds neither a
separator nor a blank, so splitting finds the fields again (`SplitJoined`), trimming takes nothing
(`TrimWhole`), and the first equals sign is the one between name and value (`EqualsFirst`). For
cookies, which are not encoded, only the semicolon has to be absent; the blank after it is trimmed
(`PairBlank`), and a pair more, at whatever place, changes nothing but its own name
(`LastOfOneMore`). A literal's octal escape has three digits, so no digit after it is taken in
(`OctalFirst`). The shell is in its plain state, with the text so far as its word, after each byte
that was quoted (`QuotedWord`). A name has no quote, newline or equals sign left (`AppNameType`),
hence its line is one line (`NameLineIs`) and the empty one after it changes nothing
(`NameAfterIs`).

TLC alone checks the liveness properties (`AllAnswered`, `AsleepIsWoken`, `AsleepOrAnswered`,
`ReadyAtLast`), which the prover does not reach. Every other property of a passing run is a theorem.
TLC also checks that the transition functions of `Codec` are what the browser, the compiler and the
shell do on the texts it types; a proof says nothing about an external program that is modelled wrongly.

## 5. What is not modelled, and the plan

Left out for good: the theme and the generated CSS (text, no decisions), `html_escape` and the
prefixes of `static_files` (no state; what is sent is in `Site`), names and creation times of users,
the text of pages, the other files `luxweb new` writes, the command line of the starter.

Known hazards no property covers: two tabs overwrite each other's whole state (each has a copy in
`LuxStore` too, and nothing promises more); `wait_event` occupies a server thread for each open
page, and with as many pages as threads nothing else is served; the reload script never sends
`?last=`, so that a page that loads after the first notification is told to reload at once; nothing
calls `prune_sessions`; a second `mount` gives each binding one more effect, and none is removed; a
runtime that is loaded between `DOMContentLoaded` and the end of loading mounts nothing; the CLI
casts the port of `luxweb.toml` to 16 bits before anybody checks it (`Port` in `CliBuild`); page names
with two dots (section 3). `about.html` and `about/index.html` have one route, and which of the two
handlers answers is up to the HTTP library.

`UserHydration` and `AuthServer` are not composed: a request of a page is a request of `AuthServer`
whose interleavings its own runs explore, and the product of both has more states than a run can
visit. What `UserHydration` takes from it is `IdentityIsOwner`: `/api/me` names the user of the
session the cookie is of.

Next, in this order:

1. `LuxEffects`, extended: several mounts and the one listener for each event of an element
   (`data-lux-on`), actions, expressions that read two stores.
2. `CliBuild`, extended: the options of `build`, and directories that `luxweb new` finds files in.
