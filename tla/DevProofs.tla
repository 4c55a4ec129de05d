------------------------------- MODULE DevProofs -------------------------------
(***************************************************************************)
(* Theorems about what a developer works with: CliBuild, for any build     *)
(* directories, targets and ports, and ReloadHub, for any number of        *)
(* threads and notifications.                                              *)
(***************************************************************************)
EXTENDS CliBuild, ReloadHub, TLAPS

-----------------------------------------------------------------------------
(* The commands of the CLI.                                                *)

(* Where a command is in its steps, and what the steps before have left: a *)
(* build that configures has just generated its assets, the cache it       *)
(* compiles under is its own, and the executable dev launches is what this *)
(* configuration describes.  Nobody but the command changes any of it, and *)
(* the outcome of the last command is kept until the next one starts.      *)
Control ==
  /\ cli.step = "idle" => cli = Idle
  /\ cli.step # "idle" =>
       /\ cli.cmd \in {"build", "dev", "serve"}
       /\ cli.cmd = "build" <=> cli.embed
       /\ cli.cmd # "build" => cli.dir = "build" /\ cli.target = "name" /\ cli.type = "Debug"
       /\ outcome = NoOutcome
  /\ cli.step = "generate" => cli.cmd = "build"
  /\ cli.step \in {"configure", "compile"} => cli.cmd \in {"build", "dev"}
  /\ cli.step = "launch" => cli.cmd \in {"dev", "serve"}

Assets ==
  /\ cli.began <= source
  /\ cli.step \in {"configure", "compile"} /\ cli.cmd = "build" /\ ~WriteFaults =>
       hook /\ generated >= cli.began
  /\ cli.step = "compile" => cache[cli.dir] = [type |-> cli.type, embed |-> cli.embed]
  /\ cli.step = "launch" /\ cli.cmd = "dev" =>
       /\ cli.built
       /\ exe[<<"build", "name">>] = [built |-> TRUE, type |-> "Debug", assets |-> NoFile]

IInv ==
  /\ TypeOK /\ Control /\ Assets
  /\ ~WriteFaults => BuildIsCurrent
  /\ DevRunsItsOwnBuild

(* Every step of the CLI keeps the types, and the low byte of a status is  *)
(* an exit code.                                                           *)
LEMMA FinishTyped ==
  ASSUME TypeOK, NEW status \in Nat, NEW ran \in Executables, Finish(status, ran)
  PROVE  /\ cli' \in Commands /\ outcome'.cli \in Commands
         /\ outcome'.status \in Nat /\ outcome'.exit \in 0 .. 255
         /\ outcome'.ran \in Executables
<1>1. Idle \in Commands
  BY CliAssumption DEF Idle, Commands
<1>2. status % 256 \in 0 .. 255
  OBVIOUS
<1> QED BY <1>1, <1>2 DEF Finish, TypeOK

(* There is an executable for "no executable".                             *)
LEMMA NotBuiltTyped == NotBuilt \in Executables
  BY DEF NotBuilt, Executables, NoFile

(* The same for a command that has launched nothing.                       *)
LEMMA EndTyped ==
  ASSUME TypeOK, NEW status \in Nat, End(status)
  PROVE  /\ cli' \in Commands /\ outcome'.cli \in Commands
         /\ outcome'.status \in Nat /\ outcome'.exit \in 0 .. 255
         /\ outcome'.ran \in Executables
  BY FinishTyped, NotBuiltTyped DEF End

(* No command is a command, and no outcome an outcome.                     *)
LEMMA IdleTyped == Idle \in Commands /\ NoOutcome.cli = Idle /\ NoOutcome.status = 0
                    /\ NoOutcome.exit = 0 /\ NoOutcome.ran = NotBuilt
  BY CliAssumption DEF Idle, Commands, NoOutcome

(* The steps of a command; each update of its record is a command again.   *)
Steps == {"idle", "read_config", "generate", "configure", "compile", "launch"}

LEMMA BuiltTyped == \A c \in Commands : [c EXCEPT !.built = TRUE] \in Commands
  BY DEF Commands

LEMMA LaunchTyped ==
  \A c \in Commands, l \in Steps : [c EXCEPT !.step = l, !.built = TRUE] \in Commands
  BY DEF Commands, Steps

LEMMA AskedTyped ==
  \A c \in Commands, l \in Steps, p \in Ports : [c EXCEPT !.asked = p, !.step = l] \in Commands
  BY DEF Commands, Steps

(* Every step keeps the types; ReadConfig needs to know which commands run.*)
LEMMA TypeStep == ASSUME TypeOK, Control, [Next]_vars PROVE TypeOK'
<1>0. cli \in Commands
  BY DEF TypeOK
<1>1. ASSUME NEW cmd \in {"build", "dev", "serve"}, NEW dir \in Dirs,
             NEW target \in Targets, NEW type \in {"Debug", "Release"},
             Start(cmd, dir, target, type)
      PROVE  TypeOK'
  <2>1. cli' \in Commands
    BY <1>1 DEF Start, TypeOK, Commands
  <2> QED BY <1>1, <2>1, IdleTyped, NotBuiltTyped DEF Start, TypeOK
<1>2. CASE ReadConfig
  <2>1. CASE End(2) \/ End(134)
    BY <1>2, <2>1, EndTyped DEF ReadConfig, TypeOK
  <2>2. CASE ~(End(2) \/ End(134))
    <3>1. cli.cmd \in {"build", "dev", "serve"} /\ toml \in Ports
      BY <1>2, <2>2 DEF ReadConfig, Control, TypeOK
    <3>3. ASSUME NEW label \in Steps, cli' = [cli EXCEPT !.asked = toml, !.step = label]
          PROVE  cli' \in Commands
      <4>1. [cli EXCEPT !.asked = toml, !.step = label] \in Commands
        BY <1>0, <3>1, AskedTyped, Zenon
      <4> QED BY <3>3, <4>1, Zenon
    <3>4. ASSUME cli.cmd = "serve" PROVE cli' \in Commands
      <4>1. cli' = [cli EXCEPT !.asked = toml, !.step = "launch"]
        BY <1>2, <2>2, <3>4 DEF ReadConfig
      <4> QED BY <3>3, <4>1 DEF Steps
    <3>5. ASSUME cli.cmd = "dev" PROVE cli' \in Commands
      <4>1. cli' = [cli EXCEPT !.asked = toml, !.step = "configure"]
        BY <1>2, <2>2, <3>5 DEF ReadConfig
      <4> QED BY <3>3, <4>1 DEF Steps
    <3>6. ASSUME cli.cmd = "build" PROVE cli' \in Commands
      <4>1. cli' = [cli EXCEPT !.asked = toml, !.step = "generate"]
        BY <1>2, <2>2, <3>6 DEF ReadConfig
      <4> QED BY <3>3, <4>1 DEF Steps
    <3>7. cli' \in Commands
      BY <3>1, <3>4, <3>5, <3>6
    <3> QED BY <1>2, <2>2, <3>7 DEF ReadConfig, TypeOK
  <2> QED BY <2>1, <2>2
<1>3. CASE Generate
  <2>1. CASE ~hook
    BY <1>3, <2>1, EndTyped DEF Generate, TypeOK
  <2>2. CASE hook
    <3>1. cli' \in Commands
      BY <1>3, <2>2 DEF Generate, Goto, TypeOK, Commands
    <3> QED BY <1>3, <2>2, <3>1 DEF Generate, Goto, Written, TypeOK
  <2> QED BY <2>1, <2>2
<1>4. CASE Configure
  <2>1. cache' \in [Dirs -> [type : {"none", "Debug", "Release"}, embed : BOOLEAN]]
    BY <1>4 DEF Configure, TypeOK, Commands
  <2>2. ASSUME Goto("compile") PROVE TypeOK'
    <3>1. cli' \in Commands
      BY <1>0, <2>2 DEF Goto, Commands
    <3> QED BY <1>4, <2>1, <2>2, <3>1 DEF Configure, Goto, TypeOK
  <2>3. ASSUME NEW status \in Statuses, End(status) PROVE TypeOK'
    BY <1>4, <2>1, <2>3, EndTyped DEF Configure, Statuses, TypeOK
  <2> QED BY <1>4, <2>2, <2>3 DEF Configure
<1>5. CASE Compile
  <2>1. cli.dir \in Dirs /\ cli.target \in Targets /\ <<cli.dir, cli.target>> \in Dirs \X Targets
    BY DEF TypeOK, Commands
  <2>2. Linked(cache[cli.dir]) \in Executables
    BY <2>1 DEF Linked, TypeOK, Executables
  <2>3. exe' \in [Dirs \X Targets -> Executables]
    <3>1. exe \in [Dirs \X Targets -> Executables]
      BY DEF TypeOK
    <3>2. \/ exe' = exe
          \/ exe' = [exe EXCEPT ![<<cli.dir, cli.target>>] = Linked(cache[cli.dir])]
          \/ exe' = [exe EXCEPT ![<<cli.dir, cli.target>>] = NotBuilt]
      BY <1>5 DEF Compile
    <3> QED BY <2>1, <2>2, <3>1, <3>2, NotBuiltTyped
  <2>4. ASSUME NEW status \in Statuses, End(status) PROVE TypeOK'
    BY <1>5, <2>3, <2>4, EndTyped DEF Compile, Statuses, TypeOK
  <2>5. CASE cli' = [cli EXCEPT !.step = "launch", !.built = TRUE] /\ UNCHANGED outcome
    <3>1. cli' \in Commands
      <4>1. "launch" \in Steps
        BY DEF Steps
      <4>2. [cli EXCEPT !.step = "launch", !.built = TRUE] \in Commands
        BY <1>0, <4>1, LaunchTyped, Zenon
      <4> QED BY <2>5, <4>2, Zenon
    <3> QED BY <1>5, <2>3, <2>5, <3>1 DEF Compile, TypeOK
  <2>6. CASE cli' = Idle /\ outcome' = [NoOutcome EXCEPT !.cli = [cli EXCEPT !.built = TRUE]]
    <3>1. outcome'.cli = [cli EXCEPT !.built = TRUE]
      BY <2>6 DEF NoOutcome
    <3>2. outcome'.cli \in Commands
      <4>1. [cli EXCEPT !.built = TRUE] \in Commands
        BY <1>0, BuiltTyped, Zenon
      <4> QED BY <3>1, <4>1, Zenon
    <3>3. outcome'.status = 0 /\ outcome'.exit = 0 /\ outcome'.ran = NotBuilt
      BY <2>6 DEF NoOutcome
    <3> QED BY <1>5, <2>3, <2>6, <3>2, <3>3, IdleTyped, NotBuiltTyped DEF Compile, TypeOK
  <2> QED BY <1>5, <2>4, <2>5, <2>6 DEF Compile
<1>6. CASE Launch
  <2>1. exe[<<"build", "name">>] \in Executables
    BY CliAssumption DEF TypeOK
  <2>2. ASSUME NEW status \in Statuses, Finish(status, exe[<<"build", "name">>]) PROVE TypeOK'
    BY <1>6, <2>1, <2>2, FinishTyped DEF Launch, Statuses, TypeOK
  <2>3. CASE End(127 * 256) \/ End(134 * 256)
    BY <1>6, <2>3, EndTyped DEF Launch, TypeOK
  <2> QED BY <1>6, <2>2, <2>3 DEF Launch
<1>7. CASE Edit \/ EditToml \/ New
  <2>1. source' \in 0 .. MaxEdits
    BY <1>7, CliAssumption DEF Edit, EditToml, New, TypeOK
  <2>2. toml' \in Ports \cup {NoToml, NoNumber}
    BY <1>7, CliAssumption DEF Edit, EditToml, New, TypeOK
  <2>3. hook' \in BOOLEAN
    <3>1. CASE Edit \/ EditToml
      BY <3>1 DEF Edit, EditToml, TypeOK
    <3>2. CASE New
      BY <3>2 DEF New
    <3> QED BY <1>7, <3>1, <3>2
  <2>4. UNCHANGED <<generated, cache, exe, cli, outcome>>
    BY <1>7 DEF Edit, EditToml, New
  <2> QED BY <2>1, <2>2, <2>3, <2>4 DEF TypeOK
<1>8. CASE UNCHANGED vars
  BY <1>8 DEF vars, TypeOK
<1> QED BY <1>1, <1>2, <1>3, <1>4, <1>5, <1>6, <1>7, <1>8 DEF Next

-----------------------------------------------------------------------------
(* What a command is asked to do, it is asked until it ends.               *)
SameCommand(c, d) ==
  /\ d.cmd = c.cmd /\ d.dir = c.dir /\ d.target = c.target /\ d.type = c.type
  /\ d.embed = c.embed /\ d.began = c.began

(* Each update of a command leaves what it was asked to do.                *)
LEMMA StepKeeps ==
  \A c \in Commands, l \in Steps :
    SameCommand(c, [c EXCEPT !.step = l]) /\ [c EXCEPT !.step = l].step = l
  BY DEF Commands, SameCommand

LEMMA AskedKeeps ==
  \A c \in Commands, l \in Steps, p \in Ports :
    /\ SameCommand(c, [c EXCEPT !.asked = p, !.step = l])
    /\ [c EXCEPT !.asked = p, !.step = l].step = l
  BY DEF Commands, SameCommand

LEMMA LaunchKeeps ==
  \A c \in Commands, l \in Steps :
    /\ SameCommand(c, [c EXCEPT !.step = l, !.built = TRUE])
    /\ [c EXCEPT !.step = l, !.built = TRUE].step = l
    /\ [c EXCEPT !.step = l, !.built = TRUE].built = TRUE
  BY DEF Commands, SameCommand

LEMMA BuiltKeeps == \A c \in Commands : SameCommand(c, [c EXCEPT !.built = TRUE])
  BY DEF Commands, SameCommand

(* What is left to prove of a step.                                        *)
Kept == Control' /\ Assets' /\ (~WriteFaults => BuildIsCurrent') /\ DevRunsItsOwnBuild'

(* The two properties are about the outcome of a command that has ended.   *)
LEMMA NoOutcomeKept ==
  ASSUME outcome' = NoOutcome PROVE BuildIsCurrent' /\ DevRunsItsOwnBuild'
<1>1. outcome'.cli.cmd = "none"
  BY DEF NoOutcome, Idle
<1> QED BY <1>1 DEF BuildIsCurrent, DevRunsItsOwnBuild

(* No command, no promise; nobody has a step to take.                      *)
LEMMA IdleKept == ASSUME cli' = Idle, source' \in Nat PROVE Control' /\ Assets'
<1>1. cli'.step = "idle" /\ cli'.began = 0
  BY DEF Idle
<1> QED BY <1>1 DEF Control, Assets

(* A command ends well if it is no build that claims success, and no dev   *)
(* that ran something else than what it built.                             *)
LEMMA FinishKept ==
  ASSUME IInv, NEW status \in Nat, NEW ran, Finish(status, ran), UNCHANGED source,
         cli.cmd = "build" => status # 0,
         cli.cmd = "dev" /\ ran.built =>
           cli.built /\ ran = [built |-> TRUE, type |-> "Debug", assets |-> NoFile]
  PROVE  Kept
<1>1. cli' = Idle /\ source' \in Nat
  BY CliAssumption DEF Finish, IInv, TypeOK
<1>2. outcome'.cli = cli /\ outcome'.status = status /\ outcome'.ran = ran
  BY DEF Finish
<1>3. BuildIsCurrent'
  BY <1>2 DEF BuildIsCurrent
<1>4. DevRunsItsOwnBuild'
  BY <1>2 DEF DevRunsItsOwnBuild
<1> QED BY <1>1, <1>3, <1>4, IdleKept DEF Kept

(* A step that fails ends the command, with a status that promises nothing.*)
LEMMA EndKept ==
  ASSUME IInv, NEW status \in Nat, End(status), UNCHANGED source, status # 0
  PROVE  Kept
<1>1. NotBuilt.built = FALSE
  BY DEF NotBuilt
<1> QED BY <1>1, FinishKept DEF End

(* A command that goes on stays the command it is, and has no outcome.     *)
LEMMA OnwardKept ==
  ASSUME IInv, cli.step # "idle", NEW l \in Steps \ {"idle"},
         SameCommand(cli, cli'), cli'.step = l, UNCHANGED <<source, outcome>>,
         l = "generate" => cli.cmd = "build",
         l \in {"configure", "compile"} => cli.cmd \in {"build", "dev"},
         l = "launch" => cli.cmd \in {"dev", "serve"},
         Assets'
  PROVE  Kept
<1>1. outcome' = NoOutcome
  BY DEF IInv, Control
<1>2. Control'
  BY <1>1 DEF IInv, Control, SameCommand
<1> QED BY <1>1, <1>2, NoOutcomeKept DEF Kept

(* Every step keeps the invariant, one step of the proof for each action.  *)
LEMMA StepKept == ASSUME IInv, [Next]_vars PROVE Kept
<1>0. cli \in Commands
  BY DEF IInv, TypeOK
<1>1. ASSUME NEW cmd \in {"build", "dev", "serve"}, NEW dir \in Dirs,
             NEW target \in Targets, NEW type \in {"Debug", "Release"},
             Start(cmd, dir, target, type)
      PROVE  Kept
  <2>1. /\ cli'.step = "read_config" /\ cli'.cmd = cmd /\ cli'.began = source
        /\ cli'.dir = dir /\ cli'.target = target /\ cli'.type = type
        /\ cli'.embed = (cmd = "build")
        /\ cmd # "build" => dir = "build" /\ target = "name" /\ type = "Debug"
        /\ UNCHANGED source /\ outcome' = NoOutcome
    BY <1>1 DEF Start
  <2>2. Control'
    BY <2>1 DEF Control
  <2>3. source \in Nat
    BY CliAssumption DEF IInv, TypeOK
  <2>4. Assets'
    BY <2>1, <2>3 DEF Assets
  <2> QED BY <2>1, <2>2, <2>4, NoOutcomeKept DEF Kept
<1>2. CASE ReadConfig
  <2>1. CASE End(2) \/ End(134)
    BY <1>2, <2>1, EndKept DEF ReadConfig
  <2>2. CASE ~(End(2) \/ End(134))
    <3>1. cli.step = "read_config" /\ cli.cmd \in {"build", "dev", "serve"} /\ toml \in Ports
      BY <1>2, <2>2 DEF ReadConfig, IInv, Control, TypeOK
    <3>2. UNCHANGED <<source, hook, generated, cache, exe, outcome>>
      BY <1>2, <2>2 DEF ReadConfig
    <3>3. ASSUME NEW label \in Steps, cli' = [cli EXCEPT !.asked = toml, !.step = label]
          PROVE  SameCommand(cli, cli') /\ cli'.step = label
      <4>1. toml \in Ports
        BY <3>1
      <4>2. /\ SameCommand(cli, [cli EXCEPT !.asked = toml, !.step = label])
            /\ [cli EXCEPT !.asked = toml, !.step = label].step = label
        BY <1>0, <4>1, AskedKeeps, Zenon
      <4> QED BY <3>3, <4>2, Zenon
    <3>4. ASSUME cli.cmd = "serve" PROVE Kept
      <4>1. cli' = [cli EXCEPT !.asked = toml, !.step = "launch"]
        BY <1>2, <2>2, <3>4 DEF ReadConfig
      <4>2. SameCommand(cli, cli') /\ cli'.step = "launch"
        BY <3>3, <4>1 DEF Steps
      <4>3. Assets'
        BY <3>1, <3>2, <3>4, <4>2 DEF IInv, Assets, SameCommand
      <4> QED BY <3>1, <3>2, <3>4, <4>2, <4>3, OnwardKept DEF Steps
    <3>5. ASSUME cli.cmd = "dev" PROVE Kept
      <4>1. cli' = [cli EXCEPT !.asked = toml, !.step = "configure"]
        BY <1>2, <2>2, <3>5 DEF ReadConfig
      <4>2. SameCommand(cli, cli') /\ cli'.step = "configure"
        BY <3>3, <4>1 DEF Steps
      <4>3. Assets'
        BY <3>1, <3>2, <3>5, <4>2 DEF IInv, Assets, SameCommand
      <4> QED BY <3>1, <3>2, <3>5, <4>2, <4>3, OnwardKept DEF Steps
    <3>6. ASSUME cli.cmd = "build" PROVE Kept
      <4>1. cli' = [cli EXCEPT !.asked = toml, !.step = "generate"]
        BY <1>2, <2>2, <3>6 DEF ReadConfig
      <4>2. SameCommand(cli, cli') /\ cli'.step = "generate"
        BY <3>3, <4>1 DEF Steps
      <4>3. Assets'
        BY <3>1, <3>2, <3>6, <4>2 DEF IInv, Assets, SameCommand
      <4> QED BY <3>1, <3>2, <3>6, <4>2, <4>3, OnwardKept DEF Steps
    <3> QED BY <3>1, <3>4, <3>5, <3>6
  <2> QED BY <2>1, <2>2
<1>3. CASE Generate
  <2>1. CASE ~hook
    BY <1>3, <2>1, EndKept DEF Generate
  <2>2. ASSUME hook PROVE Kept
    <3>1. cli' = [cli EXCEPT !.step = "configure"] /\ generated' \in Written
          /\ UNCHANGED <<source, hook, cache, exe, outcome>> /\ cli.step = "generate"
      BY <1>3, <2>2 DEF Generate, Goto
    <3>2. SameCommand(cli, cli') /\ cli'.step = "configure"
      <4>1. "configure" \in Steps
        BY DEF Steps
      <4> QED BY <1>0, <3>1, <4>1, StepKeeps, Zenon
    <3>3. cli.cmd = "build" /\ cli.began <= source
      BY <3>1 DEF IInv, Control, Assets
    <3>4. ~WriteFaults => generated' = source
      BY <3>1 DEF Written
    <3>5. Assets'
      BY <2>2, <3>1, <3>2, <3>3, <3>4 DEF Assets, SameCommand
    <3> QED BY <3>1, <3>2, <3>3, <3>5, OnwardKept DEF Steps
  <2> QED BY <2>1, <2>2
<1>4. CASE Configure
  <2>1. ASSUME Goto("compile") PROVE Kept
    <3>1. cli' = [cli EXCEPT !.step = "compile"] /\ cli.step = "configure"
          /\ UNCHANGED <<source, hook, generated, exe, outcome>>
      BY <1>4, <2>1 DEF Configure, Goto
    <3>2. SameCommand(cli, cli') /\ cli'.step = "compile"
      <4>1. "compile" \in Steps
        BY DEF Steps
      <4> QED BY <1>0, <3>1, <4>1, StepKeeps, Zenon
    <3>3. cli.cmd \in {"build", "dev"}
      BY <3>1 DEF IInv, Control
    <3>4. cache' = [cache EXCEPT ![cli.dir] = [type |-> cli.type, embed |-> cli.embed]]
      BY <1>4, <2>1, <3>1, <3>2 DEF Configure, End, Finish, Idle
    <3>5. cache'[cli'.dir] = [type |-> cli'.type, embed |-> cli'.embed]
      BY <1>0, <3>2, <3>4 DEF IInv, TypeOK, SameCommand, Commands
    <3>6. Assets'
      BY <3>1, <3>2, <3>3, <3>5 DEF IInv, Assets, SameCommand
    <3> QED BY <3>1, <3>2, <3>3, <3>6, OnwardKept DEF Steps
  <2>2. ASSUME NEW status \in Statuses \ {0}, End(status) PROVE Kept
    BY <1>4, <2>2, EndKept DEF Configure, Statuses
  <2> QED BY <1>4, <2>1, <2>2 DEF Configure
<1>5. CASE Compile
  <2>0. cli.step = "compile" /\ UNCHANGED <<source, hook, generated, cache>>
        /\ cli.cmd \in {"build", "dev"}
        /\ cache[cli.dir] = [type |-> cli.type, embed |-> cli.embed]
        /\ outcome = NoOutcome
    BY <1>5 DEF Compile, IInv, Control, Assets
  <2>1. ASSUME NEW status \in Statuses \ {0}, End(status) PROVE Kept
    BY <2>0, <2>1, EndKept DEF Statuses
  <2>2. ASSUME exe' = [exe EXCEPT ![<<cli.dir, cli.target>>] = Linked(cache[cli.dir])],
               cli.cmd = "dev", cli' = [cli EXCEPT !.step = "launch", !.built = TRUE],
               UNCHANGED outcome
        PROVE  Kept
    <3>1. SameCommand(cli, cli') /\ cli'.step = "launch" /\ cli'.built = TRUE
      <4>1. "launch" \in Steps
        BY DEF Steps
      <4> QED BY <1>0, <2>2, <4>1, LaunchKeeps, Zenon
    <3>2. cli.dir = "build" /\ cli.target = "name" /\ cli.type = "Debug" /\ cli.embed = FALSE
      BY <1>0, <2>0, <2>2 DEF IInv, Control, Commands
    <3>3. exe'[<<"build", "name">>] = Linked(cache[cli.dir])
      BY <2>2, <3>2, CliAssumption DEF IInv, TypeOK
    <3>4. Linked(cache[cli.dir]) = [built |-> TRUE, type |-> "Debug", assets |-> NoFile]
      <4>1. cache[cli.dir].type = "Debug" /\ cache[cli.dir].embed = FALSE
        BY <2>0, <3>2
      <4> QED BY <4>1 DEF Linked
    <3>5. Assets'
      BY <2>0, <2>2, <3>1, <3>3, <3>4 DEF IInv, Assets, SameCommand
    <3> QED BY <2>0, <2>2, <3>1, <3>5, OnwardKept DEF Steps
  <2>3. ASSUME exe' = [exe EXCEPT ![<<cli.dir, cli.target>>] = Linked(cache[cli.dir])],
               cli.cmd # "dev", cli' = Idle,
               outcome' = [NoOutcome EXCEPT !.cli = [cli EXCEPT !.built = TRUE]]
        PROVE  Kept
    <3>1. outcome'.cli = [cli EXCEPT !.built = TRUE]
      BY <2>3 DEF NoOutcome
    <3>2. SameCommand(cli, outcome'.cli)
      BY <1>0, <3>1, BuiltKeeps, Zenon
    <3>3. cli.cmd = "build" /\ cli.embed = TRUE
      BY <1>0, <2>0, <2>3 DEF IInv, Control, Commands
    <3>4. <<cli.dir, cli.target>> \in Dirs \X Targets
      BY <1>0 DEF Commands
    <3>5. exe'[<<cli.dir, cli.target>>] = Linked(cache[cli.dir])
      BY <2>3, <3>4 DEF IInv, TypeOK
    <3>6. ~WriteFaults => hook /\ generated >= cli.began
      BY <2>0, <3>3 DEF IInv, Assets
    <3>7. ~WriteFaults => /\ Linked(cache[cli.dir]).built
                          /\ Linked(cache[cli.dir]).type = cli.type
                          /\ Linked(cache[cli.dir]).assets >= cli.began
      BY <2>0, <3>3, <3>6 DEF Linked
    <3>8. ~WriteFaults => BuildIsCurrent'
      BY <3>2, <3>5, <3>7 DEF BuildIsCurrent, SameCommand
    <3>9. DevRunsItsOwnBuild'
      BY <3>2, <3>3 DEF DevRunsItsOwnBuild, SameCommand
    <3>10. source' \in Nat
      BY <2>0, CliAssumption DEF IInv, TypeOK
    <3> QED BY <2>3, <3>8, <3>9, <3>10, IdleKept DEF Kept
  <2> QED BY <1>5, <2>0, <2>1, <2>2, <2>3 DEF Compile
<1>6. CASE Launch
  <2>0. cli.step = "launch" /\ UNCHANGED source /\ cli.cmd # "build"
    BY <1>6 DEF Launch, IInv, Control
  <2>1. ASSUME NEW status \in Statuses, Finish(status, exe[<<"build", "name">>]) PROVE Kept
    <3>1. cli.cmd = "dev" =>
            /\ cli.built
            /\ exe[<<"build", "name">>] = [built |-> TRUE, type |-> "Debug", assets |-> NoFile]
      BY <2>0 DEF IInv, Assets
    <3> QED BY <2>0, <2>1, <3>1, FinishKept DEF Statuses
  <2>2. CASE End(127 * 256) \/ End(134 * 256)
    BY <2>0, <2>2, EndKept
  <2> QED BY <1>6, <2>1, <2>2 DEF Launch
<1>7. CASE Edit \/ EditToml \/ New
  <2>1. UNCHANGED <<generated, cache, exe, cli, outcome>>
    BY <1>7 DEF Edit, EditToml, New
  <2>2. source' >= source /\ source' \in Nat /\ source \in Nat
    BY <1>7, CliAssumption DEF Edit, EditToml, New, IInv, TypeOK
  <2>3. cli.step # "idle" => UNCHANGED hook
    BY <1>7 DEF Edit, EditToml, New, Idle
  <2>4. Control'
    BY <2>1 DEF IInv, Control
  <2>5. Assets'
    BY <1>0, <2>1, <2>2, <2>3 DEF IInv, Assets, Commands
  <2>6. (~WriteFaults => BuildIsCurrent') /\ DevRunsItsOwnBuild'
    BY <2>1 DEF IInv, BuildIsCurrent, DevRunsItsOwnBuild
  <2> QED BY <2>4, <2>5, <2>6 DEF Kept
<1>8. CASE UNCHANGED vars
  BY <1>8 DEF vars, IInv, Control, Assets, BuildIsCurrent, DevRunsItsOwnBuild, Kept
<1> QED BY <1>1, <1>2, <1>3, <1>4, <1>5, <1>6, <1>7, <1>8 DEF Next

-----------------------------------------------------------------------------
(* A project no command has worked on satisfies it.                        *)
LEMMA InitIInv == Init => IInv
<1> SUFFICES ASSUME Init PROVE IInv
  OBVIOUS
<1>1. TypeOK
  BY CliAssumption, IdleTyped, NotBuiltTyped DEF Init, TypeOK, NoCache
<1>2. Control /\ Assets
  BY DEF Init, Control, Assets, Idle
<1>3. BuildIsCurrent /\ DevRunsItsOwnBuild
  BY DEF Init, BuildIsCurrent, DevRunsItsOwnBuild, NoOutcome, Idle
<1> QED BY <1>1, <1>2, <1>3 DEF IInv

(* The inductive invariant holds of every history of commands and edits.   *)
THEOREM CliInductive == Spec => []IInv
<1>1. IInv /\ [Next]_vars => IInv'
  BY TypeStep, StepKept DEF IInv, Kept
<1> QED BY InitIInv, <1>1, PTL DEF Spec

(* Every variable of the project and of the CLI keeps its type.            *)
THEOREM CliTypeCorrect == Spec => []TypeOK
<1>1. IInv => TypeOK
  BY DEF IInv
<1> QED BY <1>1, CliInductive, PTL

(* build_project, when write_file can write: whatever directories, targets *)
(* and build types earlier commands used, and whatever of them failed, a   *)
(* luxweb build that ends with status 0 leaves an executable of the type   *)
(* asked for whose assets are no older than the command.                   *)
THEOREM BuildsAreCurrent == ASSUME ~WriteFaults PROVE Spec => []BuildIsCurrent
<1>1. IInv => BuildIsCurrent
  BY DEF IInv
<1> QED BY <1>1, CliInductive, PTL

(* dev_project: the application that luxweb dev launches is the one it has *)
(* just built, in Debug mode and without embedded assets, although luxweb  *)
(* build configures and builds in the same directory.                      *)
THEOREM DevIsSound == Spec => []DevRunsItsOwnBuild
<1>1. IInv => DevRunsItsOwnBuild
  BY DEF IInv
<1> QED BY <1>1, CliInductive, PTL

-----------------------------------------------------------------------------
(* The hub.                                                                *)

(* What the predicate of the wait has established still holds when the     *)
(* counter is read again: the counter never goes down.                     *)
PassedTheTest == \A t \in Threads : pc[t] = "event" => version > last[t]

(* The mutex is with the one thread that has taken it and neither sleeps   *)
(* nor has returned.                                                       *)
MutexIsHeld == \A t \in Threads : pc[t] \in Holding <=> mutex = t

HubInv == HubTypeOK /\ PassedTheTest /\ EventIsNews /\ MutexIsHeld

(* The initial state satisfies HubInv, and every step keeps it: whatever   *)
(* notify() does between the two reads of the counter, and whoever is      *)
(* woken for no reason.                                                    *)
THEOREM HubInvariance == HubSpec => []HubInv
<1> USE ReloadAssumption
<1>1. HubInit => HubInv
  BY DEF HubInit, HubInv, HubTypeOK, PassedTheTest, EventIsNews, MutexIsHeld, Holding
<1>2. HubInv /\ [HubNext]_hubVars => HubInv'
  <2> SUFFICES ASSUME HubInv, [HubNext]_hubVars PROVE HubInv'
    OBVIOUS
  <2> USE DEF HubInv, HubTypeOK, Holding, PassedTheTest, EventIsNews, MutexIsHeld
  <2>1. CASE FetchAdd
    <3>1. version' \in 0 .. MaxVersion /\ version' > version
      BY <2>1 DEF FetchAdd
    <3>2. \A t \in Threads : last[t] \in Nat
      <4>1. Seen \cup {0} \subseteq Nat
        OBVIOUS
      <4>2. ASSUME NEW t \in Threads PROVE last[t] \in Nat
        <5>1. last[t] \in Seen \cup {0}
          OBVIOUS
        <5> QED BY <4>1, <5>1
      <4> QED BY <4>2
    <3> QED BY <2>1, <3>1, <3>2 DEF FetchAdd
  <2>2. CASE NotifyAll
    <3>1. pc' \in [Threads -> {"idle", "lock", "asleep"} \cup Holding]
      BY <2>2 DEF NotifyAll
    <3>2. \A t \in Threads : pc'[t] \in {"event", "return"} => pc[t] = pc'[t]
      BY <2>2 DEF NotifyAll
    <3> QED BY <2>2, <3>1, <3>2 DEF NotifyAll
  <2>3. ASSUME NEW t \in Threads, NEW seen \in Seen, Listen(t, seen) PROVE HubInv'
    BY <2>3 DEF Listen, HubGoto
  <2>4. ASSUME NEW t \in Threads, Lock(t) PROVE HubInv'
    BY <2>4 DEF Lock, HubGoto
  <2>5. ASSUME NEW t \in Threads, Test(t) PROVE HubInv'
    BY <2>5 DEF Test, HubGoto
  <2>6. ASSUME NEW t \in Threads, Sleep(t) PROVE HubInv'
    BY <2>6 DEF Sleep, HubGoto
  <2>7. ASSUME NEW t \in Threads, SpuriousWakeup(t) PROVE HubInv'
    BY <2>7 DEF SpuriousWakeup, HubGoto
  <2>8. ASSUME NEW t \in Threads, ReadVersion(t) PROVE HubInv'
    BY <2>8 DEF ReadVersion, HubGoto
  <2>9. ASSUME NEW t \in Threads, Return(t) PROVE HubInv'
    BY <2>9 DEF Return, HubGoto
  <2>10. CASE UNCHANGED hubVars
    BY <2>10 DEF hubVars
  <2> QED BY <2>1, <2>2, <2>3, <2>4, <2>5, <2>6, <2>7, <2>8, <2>9, <2>10 DEF HubNext, Serve
<1> QED BY <1>1, <1>2, PTL DEF HubSpec

(* The counter, the locals of the threads and the mutex keep their types:  *)
(* a thread has read no version the counter has not reached.               *)
THEOREM ReloadTypeCorrect == HubSpec => []HubTypeOK
<1>1. HubInv => HubTypeOK
  BY DEF HubInv
<1> QED BY <1>1, HubInvariance, PTL

(* A page is told to reload only for a version it has not seen. *)
THEOREM EventsAreNews == HubSpec => []EventIsNews
<1>1. HubInv => EventIsNews
  BY DEF HubInv
<1> QED BY <1>1, HubInvariance, PTL

(* wait_event's lock: no two threads are between taking the mutex and      *)
(* giving it back, however often they sleep and are woken in between.      *)
THEOREM OneHolder ==
  HubSpec => [](\A t, u \in Threads : pc[t] \in Holding /\ pc[u] \in Holding => t = u)
<1>1. HubInv => \A t, u \in Threads : pc[t] \in Holding /\ pc[u] \in Holding => t = u
  BY DEF HubInv, MutexIsHeld
<1> QED BY <1>1, HubInvariance, PTL
=============================================================================
