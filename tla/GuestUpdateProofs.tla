------------------------- MODULE GuestUpdateProofs -------------------------
(***************************************************************************)
(* Theorems about GuestUpdate, for every limit on passes, rounds, sysprep  *)
(* attempts and unexpected reboots.  Those about the sealed image assume   *)
(* that Windows powers off within the 180 s the script waits.              *)
(***************************************************************************)
EXTENDS GuestUpdate, TLAPS

\* Steps after which the script may still run sysprep.
Ahead == Script \ {"sleep", "giveUp"}

\* Sysprep runs and the seal file: the file counts a run before it starts,
\* and a run to come, now or from the startup task, is within the limit.
SealInv ==
  /\ runs <= seal /\ runs <= MaxSealAttempts
  /\ pc \in Ahead \/ task => runs < MaxSealAttempts
  /\ pc \in {"dropPass", "dropTask", "sysprep"} => runs < seal
  /\ pc \in {"sysprep", "sleep"} => ~task

\* Boots that update and the pass file: until sealing begins the file counts
\* them, and after that none follows.
PassInv ==
  /\ passes <= MaxPasses
  /\ seal = 0 => passes <= pass
  /\ pc = "count" => seal = 0

\* The script reboots only with its task registered.
TaskInv ==
  /\ pc = "reboot" => task
  /\ NeverStranded

\* The sealed image, if Windows powers off in time: a disk stays sealed only
\* while the guest shuts down or is off, and the error line is the last word
\* of a guest that stays up.
ImageInv ==
  /\ sealed => ~task /\ (pc = "sleep" \/ ~power)
  /\ ~power => sealed /\ pc = "idle"
  /\ console = "error" => pc = "idle" /\ power /\ ~sealed
  /\ builder = "cloning" => ~power
  /\ builder = "failed" => console = "error"

\* The steps of Next, for a proof by cases.
LEMMA Steps ==
  ASSUME Next
  PROVE  \/ Begin \/ CountPass \/ NoUpdates \/ UpdatesFound \/ NeedsReboot
         \/ NextRound \/ UpdatesDone \/ Register \/ Reboot
         \/ MarkSeal \/ DropPass \/ DropTask \/ Sysprep \/ ShutsDown
         \/ SleepEnds \/ GiveUp \/ Reset \/ PollConsole \/ SeesExit
BY DEF Next, Update, InvokeSeal, Poll

\* TypeOK in two halves: states and flags, then the numbers.
StatesOK ==
  /\ pc \in Script \cup {"idle"}
  /\ task \in BOOLEAN /\ sealed \in BOOLEAN /\ power \in BOOLEAN
  /\ console \in {"none", "progress", "error"}
  /\ builder \in {"waiting", "failed", "cloning"}

NumbersOK ==
  /\ pass \in Nat /\ pass <= MaxPasses + 1
  /\ seal \in Nat /\ seal <= MaxSealAttempts + 1
  /\ round \in Nat /\ 1 <= round /\ round <= MaxRoundsPerBoot
  /\ passes \in Nat /\ runs \in Nat
  /\ resets \in Nat /\ resets <= MaxResets

\* Every step keeps the states and flags in their sets.
LEMMA StatesStep ==
  ASSUME StatesOK, [Next]_vars
  PROVE  StatesOK'
<1> USE DEF StatesOK, Script, Sealing, files, Step
<1>1. CASE Begin \/ CountPass \/ NoUpdates \/ UpdatesFound \/ NeedsReboot
  BY <1>1 DEF Begin, CountPass, NoUpdates, UpdatesFound, NeedsReboot
<1>2. CASE NextRound \/ UpdatesDone \/ Register \/ MarkSeal
  BY <1>2 DEF NextRound, UpdatesDone, Register, Registered, MarkSeal
<1>3. CASE Reboot \/ Reset
  BY <1>3 DEF Reboot, Reset, Boots
<1>4. CASE DropPass \/ DropTask \/ Sysprep
  BY <1>4 DEF DropPass, DropTask, TaskLeft, Sysprep
<1>5. CASE ShutsDown \/ SleepEnds \/ GiveUp
  BY <1>5 DEF ShutsDown, SleepEnds, GiveUp
<1>6. CASE PollConsole \/ SeesExit \/ UNCHANGED vars
  BY <1>6 DEF PollConsole, SeesExit, vars
<1>7. QED  BY Steps, <1>1, <1>2, <1>3, <1>4, <1>5, <1>6

\* Every step keeps the numbers within the script's limits.
LEMMA NumbersStep ==
  ASSUME NumbersOK, [Next]_vars
  PROVE  NumbersOK'
<1> USE GuestAssumption DEF GuestAssumption, NumbersOK, files
<1>1. CASE Begin \/ NoUpdates \/ UpdatesFound \/ NeedsReboot \/ UpdatesDone
  BY <1>1 DEF Begin, NoUpdates, UpdatesFound, NeedsReboot, UpdatesDone
<1>2. CASE CountPass
  <2>1. pass' = Counted(pass, MaxPasses) /\ round' = 1 /\ UNCHANGED <<seal, runs, resets>>
    BY <1>2 DEF CountPass
  <2>2. passes' = passes \/ passes' = passes + 1
    BY <1>2 DEF CountPass
  <2>3. QED  BY <2>1, <2>2 DEF Counted
<1>3. CASE NextRound
  BY <1>3 DEF NextRound, RoundsLeft
<1>4. CASE Register \/ DropPass \/ DropTask
  BY <1>4 DEF Register, DropPass, DropTask
<1>5. CASE Reboot \/ Reset
  BY <1>5 DEF Reboot, Reset, Boots
<1>6. CASE MarkSeal
  BY <1>6 DEF MarkSeal, Counted
<1>7. CASE Sysprep \/ ShutsDown \/ SleepEnds \/ GiveUp
  BY <1>7 DEF Sysprep, ShutsDown, SleepEnds, GiveUp
<1>8. CASE PollConsole \/ SeesExit \/ UNCHANGED vars
  BY <1>8 DEF PollConsole, SeesExit, vars
<1>9. QED  BY Steps, <1>1, <1>2, <1>3, <1>4, <1>5, <1>6, <1>7, <1>8

\* The script, its files and the builder's view stay well typed; rounds and
\* counter files stay within the script's limits.
THEOREM GuestTypeCorrect == Spec => []TypeOK
<1>1. Init => StatesOK
  BY DEF Init, StatesOK, Script
<1>2. Init => NumbersOK
  BY GuestAssumption DEF Init, NumbersOK, GuestAssumption
<1>3. StatesOK /\ NumbersOK => TypeOK
  BY GuestAssumption DEF StatesOK, NumbersOK, TypeOK, GuestAssumption
<1>4. QED  BY <1>1, <1>2, <1>3, StatesStep, NumbersStep, PTL DEF Spec

-----------------------------------------------------------------------------
(* The limits on sysprep runs and update passes.                           *)

\* Every step keeps the count of sysprep runs behind the seal file.
LEMMA SealStep ==
  ASSUME NumbersOK, SealInv, [Next]_vars
  PROVE  SealInv'
<1> USE GuestAssumption DEF NumbersOK, SealInv, Ahead, Script, Sealing, files, Step
<1>1. CASE Begin \/ CountPass \/ NoUpdates \/ UpdatesFound \/ NeedsReboot \/ NextRound \/ UpdatesDone
  BY <1>1 DEF Begin, CountPass, NoUpdates, UpdatesFound, NeedsReboot, NextRound, UpdatesDone
<1>2. CASE Register \/ DropTask
  BY <1>2 DEF Register, DropTask, TaskLeft
<1>3. CASE Reboot \/ Reset
  BY <1>3 DEF Reboot, Reset, Boots
<1>4. CASE MarkSeal
  <2>1. seal' \in Nat /\ runs < seal'
    BY <1>4 DEF MarkSeal, Counted, GuestAssumption
  <2>2. pc = "sealMark" /\ pc' = "dropPass" /\ UNCHANGED <<task, runs>>
    BY <1>4 DEF MarkSeal
  <2>3. QED  BY <2>1, <2>2, SMT
<1>5. CASE DropPass
  BY <1>5 DEF DropPass
<1>6. CASE Sysprep
  <2>1. pc = "sysprep" /\ runs < seal /\ runs < MaxSealAttempts /\ ~task
    BY <1>6 DEF Sysprep
  <2>2. pc' = "sleep" /\ runs' = runs + 1 /\ UNCHANGED <<seal, task>>
    BY <1>6 DEF Sysprep
  <2>3. QED  BY <2>1, <2>2 DEF GuestAssumption
<1>7. CASE ShutsDown \/ GiveUp
  BY <1>7 DEF ShutsDown, GiveUp
<1>8. CASE SleepEnds
  BY <1>8 DEF SleepEnds, MayRetry, GuestAssumption
<1>9. CASE PollConsole \/ SeesExit \/ UNCHANGED vars
  BY <1>9 DEF PollConsole, SeesExit, vars
<1>10. QED  BY Steps, <1>1, <1>2, <1>3, <1>4, <1>5, <1>6, <1>7, <1>8, <1>9

\* Sysprep runs at most MaxSealAttempts times in one build, whenever Windows
\* reboots: Invoke-Seal counts the run before it starts and registers the
\* retry only below the limit.
THEOREM SysprepRuns == Spec => []SysprepRunsBounded
<1>1. Init => SealInv
  BY GuestAssumption DEF Init, SealInv, GuestAssumption
<1>2. SealInv => SysprepRunsBounded
  BY DEF SealInv, SysprepRunsBounded
<1>3. Init => NumbersOK
  BY GuestAssumption DEF Init, NumbersOK, GuestAssumption
<1>4. QED  BY <1>1, <1>2, <1>3, SealStep, NumbersStep, PTL DEF Spec

\* Every step keeps the count of updating boots behind the pass file.
LEMMA PassStep ==
  ASSUME NumbersOK, SealInv, PassInv, [Next]_vars
  PROVE  PassInv'
<1> USE GuestAssumption DEF NumbersOK, PassInv, files, Step
<1>1. CASE Begin \/ NoUpdates \/ UpdatesFound \/ NeedsReboot \/ NextRound \/ UpdatesDone
  BY <1>1 DEF Begin, SealBegun, NoUpdates, UpdatesFound, NeedsReboot, NextRound, UpdatesDone
<1>2. CASE CountPass
  <2>1. seal' = seal /\ passes <= MaxPasses /\ (seal' = 0 => passes <= pass)
    BY <1>2 DEF CountPass
  <2>2. pc' # "count" /\ seal = 0
    BY <1>2 DEF CountPass
  <2>3. CASE Counted(pass, MaxPasses) <= MaxPasses
    <3>1. pass' = pass + 1 /\ passes' = passes + 1 /\ pass' <= MaxPasses
      BY <1>2, <2>3 DEF CountPass, MayUpdate, Counted, GuestAssumption
    <3>2. QED  BY <2>1, <2>2, <3>1 DEF GuestAssumption
  <2>4. CASE ~(Counted(pass, MaxPasses) <= MaxPasses)
    <3>1. pass <= pass' /\ passes' = passes /\ pass' \in Nat
      BY <1>2, <2>4 DEF CountPass, MayUpdate, Counted, GuestAssumption
    <3>2. QED  BY <2>1, <2>2, <3>1 DEF GuestAssumption
  <2>5. QED  BY <2>3, <2>4
<1>3. CASE Register \/ DropTask \/ Reboot \/ Reset
  BY <1>3 DEF Register, DropTask, Reboot, Reset, Boots
<1>4. CASE MarkSeal
  <2>1. seal' # 0
    BY <1>4 DEF MarkSeal, Counted, GuestAssumption
  <2>2. pc' = "dropPass" /\ passes' = passes
    BY <1>4 DEF MarkSeal
  <2>3. QED  BY <2>1, <2>2
<1>5. CASE DropPass
  <2>1. runs < seal
    BY <1>5 DEF DropPass, SealInv
  <2>2. QED  BY <1>5, <2>1 DEF DropPass
<1>6. CASE Sysprep \/ ShutsDown \/ SleepEnds \/ GiveUp \/ PollConsole \/ SeesExit
  BY <1>6 DEF Sysprep, ShutsDown, SleepEnds, GiveUp, PollConsole, SeesExit
<1>7. CASE UNCHANGED vars
  BY <1>7 DEF vars
<1>8. QED  BY Steps, <1>1, <1>2, <1>3, <1>4, <1>5, <1>6, <1>7

\* At most MaxPasses boots install updates: the pass file is removed only
\* when the seal file keeps the script from counting again.
THEOREM UpdatePasses == Spec => []PassesBounded
<1>1. Init => SealInv /\ PassInv
  BY GuestAssumption DEF Init, SealInv, PassInv, GuestAssumption
<1>2. PassInv => PassesBounded
  BY DEF PassInv, PassesBounded
<1>3. Init => NumbersOK
  BY GuestAssumption DEF Init, NumbersOK, GuestAssumption
<1>4. QED  BY <1>1, <1>2, <1>3, SealStep, PassStep, NumbersStep, PTL DEF Spec

-----------------------------------------------------------------------------
(* No dead end, and the image.                                             *)

\* Every step keeps a script that stops without sealing explained by an error
\* line or by an unexpected reboot.
LEMMA TaskStep ==
  ASSUME NumbersOK, TaskInv, [Next]_vars
  PROVE  TaskInv'
<1> USE DEF TaskInv, NeverStranded, files, Step
<1>1. CASE Begin \/ CountPass \/ NoUpdates \/ UpdatesFound \/ NeedsReboot
  BY <1>1 DEF Begin, CountPass, NoUpdates, UpdatesFound, NeedsReboot
<1>2. CASE NextRound \/ UpdatesDone \/ Register
  BY <1>2 DEF NextRound, UpdatesDone, Register, Registered
<1>3. CASE Reboot
  BY <1>3 DEF Reboot, Boots
<1>4. CASE Reset
  <2>1. resets' # 0
    BY <1>4 DEF Reset, NumbersOK
  <2>2. pc' # "reboot"
    BY <1>4 DEF Reset, Boots
  <2>3. QED  BY <2>1, <2>2
<1>5. CASE MarkSeal \/ DropPass \/ DropTask \/ Sysprep
  BY <1>5 DEF MarkSeal, DropPass, DropTask, Sysprep
<1>6. CASE ShutsDown \/ SleepEnds \/ GiveUp
  BY <1>6 DEF ShutsDown, SleepEnds, GiveUp
<1>7. CASE PollConsole \/ SeesExit \/ UNCHANGED vars
  BY <1>7 DEF PollConsole, SeesExit, vars
<1>8. QED  BY Steps, <1>1, <1>2, <1>3, <1>4, <1>5, <1>6, <1>7

\* The script never stops without sealing the disk or writing the error line
\* the builder looks for, unless an unexpected reboot caught it without its
\* task; however slow the shutdown is.
THEOREM NoDeadEnd == Spec => []NeverStranded
<1>1. Init => TaskInv /\ NumbersOK
  BY GuestAssumption DEF Init, TaskInv, NeverStranded, NumbersOK, GuestAssumption
<1>2. TaskInv => NeverStranded
  BY DEF TaskInv
<1>3. QED  BY <1>1, <1>2, TaskStep, NumbersStep, PTL DEF Spec

\* Every step keeps a sealed disk without its task and shut down next, as
\* long as the script's 180 s are enough for the shutdown.
LEMMA ImageStep ==
  ASSUME ~SlowShutdown, SealInv, ImageInv, [Next]_vars
  PROVE  ImageInv'
<1> USE DEF ImageInv, files, Step
<1>1. CASE Begin \/ CountPass \/ NoUpdates \/ UpdatesFound \/ NeedsReboot
  BY <1>1 DEF Begin, CountPass, NoUpdates, UpdatesFound, NeedsReboot
<1>2. CASE NextRound \/ UpdatesDone \/ Register
  BY <1>2 DEF NextRound, UpdatesDone, Register
<1>3. CASE Reboot \/ Reset
  BY <1>3 DEF Reboot, Reset, Boots, Script, Sealing
<1>4. CASE MarkSeal \/ DropPass \/ DropTask
  BY <1>4 DEF MarkSeal, DropPass, DropTask, TaskLeft
<1>5. CASE Sysprep
  BY <1>5 DEF Sysprep, SealInv
<1>6. CASE ShutsDown \/ SleepEnds \/ GiveUp
  BY <1>6 DEF ShutsDown, SleepEnds, GiveUp
<1>7. CASE PollConsole \/ SeesExit \/ UNCHANGED vars
  BY <1>7 DEF PollConsole, SeesExit, isGuestUpdateError, vars
<1>8. QED  BY Steps, <1>1, <1>2, <1>3, <1>4, <1>5, <1>6, <1>7

\* The invariant of the sealed image, as a fact about the specification.
LEMMA ImageInvariant ==
  ASSUME ~SlowShutdown
  PROVE  Spec => []ImageInv
<1>1. Init => NumbersOK /\ SealInv /\ ImageInv
  BY GuestAssumption DEF Init, NumbersOK, SealInv, ImageInv, Ahead, GuestAssumption
<1>2. NumbersOK /\ SealInv /\ ImageInv /\ [Next]_vars => (NumbersOK /\ SealInv /\ ImageInv)'
  BY NumbersStep, SealStep, ImageStep
<1>3. QED  BY <1>1, <1>2, PTL DEF Spec

\* If Windows powers off within 180 s of sysprep's exit, no sealed disk has
\* the startup task on it.
THEOREM ImageIsClean ==
  ASSUME ~SlowShutdown
  PROVE  Spec => []NoTaskInImage
<1>1. ImageInv => NoTaskInImage
  BY DEF ImageInv, NoTaskInImage
<1>2. QED  BY <1>1, ImageInvariant, PTL

\* Then the builder clones a sealed disk only, and gives up on an unsealed one
\* only.
THEOREM BuilderJudgesRight ==
  ASSUME ~SlowShutdown
  PROVE  Spec => []VerdictIsRight
<1>1. ImageInv => VerdictIsRight
  BY DEF ImageInv, VerdictIsRight
<1>2. QED  BY <1>1, ImageInvariant, PTL
=============================================================================
