------------------------------- MODULE CliBuild -------------------------------
(***************************************************************************)
(* src/luxweb_cli/main.cpp: luxweb new, build, dev and serve, run one      *)
(* after the other in a project directory, while the developer edits it.   *)
(* CMake, make and the application are external: each returns the status   *)
(* it wants, and the commands do with it what the source does.             *)
(*                                                                         *)
(* The templates and public assets are one value, the number of edits made *)
(* to them: an executable holds such a number, or reads the files.         *)
(***************************************************************************)
EXTENDS Integers

CONSTANTS
  Dirs,         \* build directories; "build" is the default one
  Targets,      \* "name" stands for config.name, the default one
  Ports,        \* what luxweb.toml may have as its port
  NoToml,       \* there is no luxweb.toml
  NoNumber,     \* its port is not a number, or none that an int holds
  MaxEdits,     \* bound on the edits of templates and public assets
  WriteFaults   \* may write_file fail?  it does not tell

ASSUME CliAssumption ==
  /\ "build" \in Dirs /\ "name" \in Targets
  /\ Ports \subseteq Int /\ 18080 \in Ports
  /\ {NoToml, NoNumber} \cap Ports = {} /\ NoToml # NoNumber
  /\ MaxEdits \in Nat /\ WriteFaults \in BOOLEAN

VARIABLES
  source,     \* edits made to templates/ and public/
  toml,       \* the port in luxweb.toml, or NoToml, or NoNumber
  hook,       \* CMakeLists.txt has the embedded build hook
  generated,  \* .luxweb/embedded_assets.cpp: the edit it holds, or NoFile
  cache,      \* the CMakeCache.txt of each build directory
  exe,        \* the executables
  cli,        \* the command that runs
  outcome     \* history: how the last command ended

vars == <<source, toml, hook, generated, cache, exe, cli, outcome>>

NoFile == -1        \* no generated file, or nothing embedded
NotBuilt == [built |-> FALSE, type |-> "none", assets |-> NoFile]
NoCache == [type |-> "none", embed |-> FALSE]

(* The status words std::system gives: 0, an exit code of 1, SIGINT.       *)
Statuses == {0, 256, 2}

(* began and built are history: the edits when the command started, and    *)
(* whether it has built its target.                                        *)
Idle == [cmd |-> "none", step |-> "idle", dir |-> "build", target |-> "name",
         type |-> "none", embed |-> FALSE, asked |-> 0, began |-> 0, built |-> FALSE]

NoOutcome == [cli |-> Idle, status |-> 0, exit |-> 0, ran |-> NotBuilt]

Init ==
  /\ source = 0
  /\ toml \in Ports \cup {NoNumber}
  /\ hook \in BOOLEAN
  /\ generated = NoFile
  /\ cache = [d \in Dirs |-> NoCache]
  /\ exe = [p \in Dirs \X Targets |-> NotBuilt]
  /\ cli = Idle
  /\ outcome = NoOutcome

-----------------------------------------------------------------------------
(* main returns the status of the command; the system keeps its low byte.  *)
Finish(status, ran) ==
  /\ cli' = Idle
  /\ outcome' = [cli |-> cli, status |-> status, exit |-> status % 256, ran |-> ran]

End(status) == Finish(status, NotBuilt)

Goto(label) == cli' = [cli EXCEPT !.step = label] /\ UNCHANGED outcome

(* static_cast<std::uint16_t> in read_config. *)
Port(n) == n % 65536

(* parse_port of the application throws out of this range. *)
ValidPort(n) == 1 <= n /\ n <= 65535

-----------------------------------------------------------------------------
(* A command starts, with options that parse_build_options accepts.        *)
Start(cmd, dir, target, type) ==
  /\ cli = Idle
  /\ cmd # "build" => dir = "build" /\ target = "name" /\ type = "Debug"
  /\ cli' = [cmd |-> cmd, step |-> "read_config", dir |-> dir, target |-> target,
             type |-> type, embed |-> cmd = "build", asked |-> 0,
             began |-> source, built |-> FALSE]
  /\ outcome' = NoOutcome
  /\ UNCHANGED <<source, toml, hook, generated, cache, exe>>

Mutant_TomlUnchecked ==
  /\ cli.step = "read_config"
  /\ cli' = [cli EXCEPT !.asked = toml,
               !.step = CASE cli.cmd = "serve" -> "launch"
                          [] cli.cmd = "dev" -> "configure"
                          [] cli.cmd = "build" -> "generate"]
  /\ UNCHANGED <<source, toml, hook, generated, cache, exe, outcome>>

(* std::stoi throws at a port that is no number, nobody catches, and the   *)
(* command aborts: 134 is what a shell makes of that.                      *)
ReadConfig ==
  /\ cli.step = "read_config"
  /\ \/ toml = NoToml /\ End(2)
     \/ toml = NoNumber /\ End(134)
     \/ /\ toml \in Ports
        /\ cli' = [cli EXCEPT !.asked = toml,
                     !.step = CASE cli.cmd = "serve" -> "launch"
                                [] cli.cmd = "dev" -> "configure"
                                [] cli.cmd = "build" -> "generate"]
        /\ UNCHANGED outcome
  /\ UNCHANGED <<source, toml, hook, generated, cache, exe>>

(* What generate_embedded_assets may leave in the generated file: all      *)
(* templates and public files as they are, or, when write_file cannot      *)
(* write and does not say so, what was there.                              *)
Written == {source} \cup {g \in {generated} : WriteFaults}

(* build_project: generate_embedded_assets, *)
Generate ==
  /\ cli.step = "generate"
  /\ \/ ~hook /\ End(2) /\ UNCHANGED generated
     \/ hook /\ generated' \in Written /\ Goto("configure")
  /\ UNCHANGED <<source, toml, hook, cache, exe>>

(* then cmake -S . -B dir, which may fail before or after it has written   *)
(* the cache, *)
Mutant_StickyEmbed ==
  /\ cli.step = "configure"
  /\ \E status \in Statuses :
       /\ cache' = [cache EXCEPT ![cli.dir] =
                      [type |-> cli.type, embed |-> cli.embed \/ cache[cli.dir].embed]]
       /\ IF status # 0 THEN End(status) ELSE Goto("compile")
  /\ UNCHANGED <<source, toml, hook, generated, exe>>

Mutant_ConfigureUnchecked ==
  /\ cli.step = "configure"
  /\ \/ cache' = [cache EXCEPT ![cli.dir] = [type |-> cli.type, embed |-> cli.embed]]
     \/ UNCHANGED cache
  /\ Goto("compile")
  /\ UNCHANGED <<source, toml, hook, generated, exe>>

Configure ==
  /\ cli.step = "configure"
  /\ \E status \in Statuses :
       /\ \/ cache' = [cache EXCEPT ![cli.dir] = [type |-> cli.type, embed |-> cli.embed]]
          \/ status # 0 /\ UNCHANGED cache
       /\ \/ status # 0 /\ End(status)
          \/ status = 0 /\ Goto("compile")
  /\ UNCHANGED <<source, toml, hook, generated, exe>>

(* The executable CMakeLists.txt describes under a configuration: with the *)
(* hook it holds the generated file, if there is one.                      *)
Linked(configuration) ==
  [built |-> TRUE, type |-> configuration.type,
   assets |-> IF hook /\ configuration.embed THEN generated ELSE NoFile]

(* and cmake --build dir --target; a failure leaves the executable that    *)
(* was there, or none.                                                     *)
Compile ==
  /\ cli.step = "compile"
  /\ \/ /\ exe' = [exe EXCEPT ![<<cli.dir, cli.target>>] = Linked(cache[cli.dir])]
        /\ IF cli.cmd = "dev"
           THEN cli' = [cli EXCEPT !.step = "launch", !.built = TRUE] /\ UNCHANGED outcome
           ELSE /\ cli' = Idle
                /\ outcome' = [NoOutcome EXCEPT !.cli = [cli EXCEPT !.built = TRUE]]
     \/ /\ exe' = exe \/ exe' = [exe EXCEPT ![<<cli.dir, cli.target>>] = NotBuilt]
        /\ \E status \in Statuses \ {0} : End(status)
  /\ UNCHANGED <<source, toml, hook, generated, cache>>

(* dev and serve: run_command of build/<name> with the port.  127 is the   *)
(* shell that finds no such file, 134 the application that aborts.         *)
Launch ==
  /\ cli.step = "launch"
  /\ LET app == exe[<<"build", "name">>]
         port == Port(cli.asked)
     IN  \/ ~app.built /\ End(127 * 256)
         \/ app.built /\ ~ValidPort(port) /\ End(134 * 256)
         \/ /\ app.built /\ ValidPort(port)
            /\ \E status \in Statuses : Finish(status, app)
  /\ UNCHANGED <<source, toml, hook, generated, cache, exe>>

-----------------------------------------------------------------------------
(* The developer edits templates and assets, at any time; *)
Edit ==
  /\ source < MaxEdits
  /\ source' = source + 1
  /\ UNCHANGED <<toml, hook, generated, cache, exe, cli, outcome>>

(* edits or removes luxweb.toml; *)
EditToml ==
  /\ cli = Idle
  /\ toml' \in (Ports \cup {NoToml, NoNumber}) \ {toml}
  /\ UNCHANGED <<source, hook, generated, cache, exe, cli, outcome>>

(* runs luxweb new on the directory, which overwrites what it finds.       *)
New ==
  /\ cli = Idle /\ source < MaxEdits
  /\ toml' = 18080
  /\ hook' = TRUE
  /\ source' = source + 1
  /\ UNCHANGED <<generated, cache, exe, cli, outcome>>

Next ==
  \/ \E cmd \in {"build", "dev", "serve"}, dir \in Dirs, target \in Targets,
        type \in {"Debug", "Release"} : Start(cmd, dir, target, type)
  \/ ReadConfig \/ Generate \/ Configure \/ Compile \/ Launch
  \/ Edit \/ EditToml \/ New

Spec == Init /\ [][Next]_vars

-----------------------------------------------------------------------------
Executables ==
  [built : BOOLEAN, type : {"none", "Debug", "Release"}, assets : {NoFile} \cup 0 .. MaxEdits]

Commands ==
  [cmd : {"none", "build", "dev", "serve"},
   step : {"idle", "read_config", "generate", "configure", "compile", "launch"},
   dir : Dirs, target : Targets, type : {"none", "Debug", "Release"}, embed : BOOLEAN,
   asked : Ports \cup {0}, began : 0 .. MaxEdits, built : BOOLEAN]

TypeOK ==
  /\ source \in 0 .. MaxEdits
  /\ toml \in Ports \cup {NoToml, NoNumber}
  /\ hook \in BOOLEAN
  /\ generated \in {NoFile} \cup 0 .. MaxEdits
  /\ cache \in [Dirs -> [type : {"none", "Debug", "Release"}, embed : BOOLEAN]]
  /\ exe \in [Dirs \X Targets -> Executables]
  /\ cli \in Commands
  /\ outcome.cli \in Commands
  /\ outcome.status \in Nat /\ outcome.exit \in 0 .. 255
  /\ outcome.ran \in Executables

(* FRAMEWORK.md:135: the executable is written to the build directory, and *)
(* compiles templates and public assets in.  After a build whose commands  *)
(* all returned 0 it is there, of the type asked for, with the assets as   *)
(* they were when the command started or later, whatever earlier commands  *)
(* left in the cache and in .luxweb.                                       *)
BuildIsCurrent ==
  cli = Idle /\ outcome.cli.cmd = "build" /\ outcome.status = 0 =>
    LET app == exe[<<outcome.cli.dir, outcome.cli.target>>]
    IN  /\ app.built /\ app.type = outcome.cli.type
        /\ app.assets >= outcome.cli.began

(* FRAMEWORK.md:124: what dev runs was built by that very dev, in Debug    *)
(* mode, and serves the files of the project, although build shares its    *)
(* directory and its cache.                                                *)
DevRunsItsOwnBuild ==
  outcome.cli.cmd = "dev" /\ outcome.ran.built =>
    /\ outcome.cli.built
    /\ outcome.ran = [built |-> TRUE, type |-> "Debug", assets |-> NoFile]

(* FRAMEWORK.md:135 again, for who only sees the exit code: build exits    *)
(* with 0 only when it has written the executable.                         *)
ExitZeroMeansBuilt ==
  outcome.cli.cmd = "build" /\ outcome.exit = 0 => outcome.cli.built
=============================================================================
