---------------------------- MODULE GuestUpdate ----------------------------
(***************************************************************************)
(* builder/wb-update.ps1 in the install VM, and the builder that waits for *)
(* it.  FirstLogonCommands start the script; it installs updates, reboots  *)
(* when Windows says so and goes on from a startup task, then seals the    *)
(* disk with sysprep, at most twice.  What survives a reboot is on the     *)
(* disk: the pass file, the seal file and the task.  The script's own      *)
(* $pass and $attempt are what it has just written to those files.  A      *)
(* reset is a reboot nobody asked for (an update, a blue screen), at any   *)
(* step.                                                                   *)
(***************************************************************************)
EXTENDS Naturals

CONSTANTS
  MaxPasses,         \* $MaxPasses
  MaxRoundsPerBoot,  \* $MaxRoundsPerBoot
  MaxSealAttempts,   \* $MaxSealAttempts
  MaxResets,         \* bound on unexpected reboots
  SlowShutdown       \* TRUE: Windows may need over 180 s to power off

ASSUME GuestAssumption ==
  /\ MaxPasses \in Nat \ {0} /\ MaxRoundsPerBoot \in Nat \ {0}
  /\ MaxSealAttempts \in Nat \ {0} /\ MaxResets \in Nat
  /\ SlowShutdown \in BOOLEAN

VARIABLES
  pc,        \* next step of the script; "idle": it does not run
  pass,      \* wb-update.pass, 0: no such file
  seal,      \* wb-update.seal, 0: no such file
  task,      \* the startup task is registered
  round,     \* $round
  sealed,    \* the disk is generalized and was not booted since
  power,     \* the guest is on
  console,   \* the last wb-update: line on COM1
  builder,   \* what waitVMI made of it
  passes, runs,   \* history: boots that installed updates, sysprep runs
  resets

files == <<pass, seal, task>>
vars  == <<pc, files, round, sealed, power, console, builder, passes, runs, resets>>

Sealing == {"sealMark", "dropPass", "dropTask", "sysprep", "sleep"}
Script  == {"begin", "count", "search", "install", "register", "reboot",
            "retry", "giveUp"} \cup Sealing

\* Bound: beyond its limit a counter file is not told apart.
Counted(n, limit) == IF n > limit THEN n ELSE n + 1

-----------------------------------------------------------------------------
(* The script.                                                             *)

Step(from, to) == pc = from /\ power /\ pc' = to

\* Mutant: the seal file is not looked at.
IgnoresSealFile(n) == FALSE

SealBegun(n) == n > 0
MayUpdate(n) == n <= MaxPasses

Begin ==
  /\ Step("begin", IF SealBegun(seal) THEN "sealMark" ELSE "count")
  /\ UNCHANGED <<files, round, sealed, power, console, builder, passes, runs, resets>>

CountPass ==
  LET n == Counted(pass, MaxPasses) IN
  /\ Step("count", IF MayUpdate(n) THEN "search" ELSE "sealMark")
  /\ pass' = n /\ round' = 1 /\ console' = "progress"
  /\ passes' = passes + (IF MayUpdate(n) THEN 1 ELSE 0)
  /\ UNCHANGED <<seal, task, sealed, power, builder, runs, resets>>

\* No update found, or Windows Update fails: on to sysprep.
NoUpdates ==
  /\ Step("search", "sealMark")
  /\ UNCHANGED <<files, round, sealed, power, console, builder, passes, runs, resets>>

UpdatesFound ==
  /\ Step("search", "install")
  /\ UNCHANGED <<files, round, sealed, power, console, builder, passes, runs, resets>>

\* Installed, and Windows asks for a reboot.
NeedsReboot ==
  /\ Step("install", "register")
  /\ UNCHANGED <<files, round, sealed, power, console, builder, passes, runs, resets>>

\* Mutant: one round too many.
OneRoundMore == round <= MaxRoundsPerBoot

RoundsLeft == round < MaxRoundsPerBoot

\* Installed substantive updates without a reboot: look again.
NextRound ==
  /\ Step("install", "search") /\ RoundsLeft
  /\ round' = round + 1
  /\ UNCHANGED <<files, sealed, power, console, builder, passes, runs, resets>>

\* Definition updates only, the last round, or an error.
UpdatesDone ==
  /\ Step("install", "sealMark")
  /\ UNCHANGED <<files, round, sealed, power, console, builder, passes, runs, resets>>

\* Mutant: the task is taken to be registered already.
StillRegistered == task

Registered == TRUE

Register ==
  /\ \/ Step("register", "reboot") \/ Step("retry", "reboot")
  /\ task' = Registered
  /\ UNCHANGED <<pass, seal, round, sealed, power, console, builder, passes, runs, resets>>

\* A boot: the task runs the script, and nothing else would; a generalized
\* disk that boots goes through OOBE.
Boots ==
  /\ pc' = IF task THEN "begin" ELSE "idle"
  /\ sealed' = FALSE
  /\ UNCHANGED <<files, round, power, console, builder, passes, runs>>

Reboot == pc = "reboot" /\ power /\ Boots /\ UNCHANGED resets

-----------------------------------------------------------------------------
(* Invoke-Seal.                                                            *)

\* Mutant: the second failure is retried as well.
RetriesForever(n) == TRUE

MayRetry(n) == n < MaxSealAttempts

MarkSeal ==
  /\ Step("sealMark", "dropPass")
  /\ seal' = Counted(seal, MaxSealAttempts) /\ console' = "progress"
  /\ UNCHANGED <<pass, task, round, sealed, power, builder, passes, runs, resets>>

DropPass ==
  /\ Step("dropPass", "dropTask")
  /\ pass' = 0
  /\ UNCHANGED <<seal, task, round, sealed, power, console, builder, passes, runs, resets>>

\* Mutant: the startup task stays.
TaskKept == task

TaskLeft == FALSE

DropTask ==
  /\ Step("dropTask", "sysprep")
  /\ task' = TaskLeft
  /\ UNCHANGED <<pass, seal, round, sealed, power, console, builder, passes, runs, resets>>

Sysprep ==
  /\ Step("sysprep", "sleep")
  /\ sealed' \in BOOLEAN
  /\ runs' = runs + 1
  /\ UNCHANGED <<files, round, power, console, builder, passes, resets>>

\* A sysprep that succeeded shuts Windows down.
ShutsDown ==
  /\ sealed /\ power
  /\ power' = FALSE /\ pc' = "idle"
  /\ UNCHANGED <<files, round, sealed, console, builder, passes, runs, resets>>

\* Windows is still up 180 s after sysprep.exe exited.
SleepEnds ==
  /\ ~sealed \/ SlowShutdown
  /\ Step("sleep", IF MayRetry(seal) THEN "retry" ELSE "giveUp")
  /\ UNCHANGED <<files, round, sealed, power, console, builder, passes, runs, resets>>

GiveUp ==
  /\ Step("giveUp", "idle")
  /\ console' = "error"
  /\ UNCHANGED <<files, round, sealed, power, builder, passes, runs, resets>>

-----------------------------------------------------------------------------
(* Windows and the builder.                                                *)

Reset ==
  /\ pc \in Script /\ power /\ ~sealed /\ resets < MaxResets
  /\ resets' = resets + 1
  /\ Boots

\* Mutants of isGuestUpdateError: no line is an error, or every line.
NeverError == FALSE
AlwaysError == console # "none"

isGuestUpdateError == console = "error"

\* waitVMI while the guest runs: the last wb-update: line.
PollConsole ==
  /\ builder = "waiting" /\ power /\ isGuestUpdateError
  /\ builder' = "failed"
  /\ UNCHANGED <<pc, files, round, sealed, power, console, passes, runs, resets>>

\* ... and once it has shut down: the agent was seen long ago.
SeesExit ==
  /\ builder = "waiting" /\ ~power
  /\ builder' = "cloning"
  /\ UNCHANGED <<pc, files, round, sealed, power, console, passes, runs, resets>>

Init ==
  /\ pc = "begin" /\ pass = 0 /\ seal = 0 /\ task = FALSE /\ round = 1
  /\ sealed = FALSE /\ power = TRUE /\ console = "none" /\ builder = "waiting"
  /\ passes = 0 /\ runs = 0 /\ resets = 0

Update ==
  \/ Begin \/ CountPass \/ NoUpdates \/ UpdatesFound \/ NeedsReboot
  \/ NextRound \/ UpdatesDone \/ Register \/ Reboot

InvokeSeal ==
  \/ MarkSeal \/ DropPass \/ DropTask \/ Sysprep \/ ShutsDown \/ SleepEnds \/ GiveUp

Poll == PollConsole \/ SeesExit

Next == Update \/ InvokeSeal \/ Reset \/ Poll

Spec == Init /\ [][Next]_vars

\* The guest and the builder's polling go on; nothing has to reset.
FairSpec == Spec /\ WF_vars(Update \/ InvokeSeal) /\ WF_vars(Poll)

-----------------------------------------------------------------------------
(* Properties.                                                             *)

\* Every variable keeps its type.
TypeOK ==
  /\ pc \in Script \cup {"idle"}
  /\ pass \in 0 .. MaxPasses + 1 /\ seal \in 0 .. MaxSealAttempts + 1
  /\ task \in BOOLEAN /\ round \in 1 .. MaxRoundsPerBoot
  /\ sealed \in BOOLEAN /\ power \in BOOLEAN
  /\ console \in {"none", "progress", "error"}
  /\ builder \in {"waiting", "failed", "cloning"}
  /\ passes \in Nat /\ runs \in Nat /\ resets \in 0 .. MaxResets

\* "The startup task is removed before every sysprep run, so it never ends up
\* in the golden image" (wb-update.ps1:19).
NoTaskInImage == sealed => ~task

\* "at most MaxPasses boots" install updates (line 7), resets and the retry
\* of sysprep included: the pass file is only removed once the seal file
\* keeps the updates from starting over.
PassesBounded == passes <= MaxPasses

\* Sysprep runs at most twice in one build (line 15).
SysprepRunsBounded == runs <= MaxSealAttempts

\* The builder clones a sealed disk only, and gives up on an unsealed one only.
VerdictIsRight ==
  /\ builder = "cloning" => sealed /\ ~task
  /\ builder = "failed" => ~sealed

\* The script never stops without sealing the disk or reporting an error,
\* unless an unexpected reboot caught it without its task.
NeverStranded ==
  pc = "idle" /\ power /\ resets = 0 => console = "error"

\* The builder always gets its answer, unless Windows reboots unexpectedly: a
\* reset between the removal of the task and the shutdown leaves nobody to
\* go on.
Decided == <>(builder # "waiting" \/ resets > 0)
=============================================================================
