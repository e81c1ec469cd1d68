------------------------- MODULE BuildManagerProofs -------------------------
(***************************************************************************)
(* Theorems about BuildManager, for every value of its bounds: its type    *)
(* invariant, that one goroutine at most drives the disk, that a Cancel    *)
(* that was accepted and the replacement of the golden disk exclude each   *)
(* other, that it implements BuildLifecycle, and that it never leaves a    *)
(* status that says a build is under way without a build. Liveness stays   *)
(* with TLC.                                                               *)
(***************************************************************************)
EXTENDS BuildManager, TLAPS

-----------------------------------------------------------------------------
(* Types of the values the actions build.                                  *)

\* The initial objects and the zero timestamp are well typed.
LEMMA ConstantTypes ==
  ASSUME ManagerAssumption
  PROVE  /\ 0 \in Births /\ Builds \subseteq Births
         /\ NoRecord \in Records /\ NoVm \in Vms /\ NoVmi \in Vmis
         /\ NoIso \in Isos /\ NoDv \in Dvs
BY DEF ManagerAssumption, Births, Builds, NoRecord, Records, NoVm, Vms, NoVmi,
       Vmis, NoIso, Isos, NoDv, Dvs, Statuses

\* A status and a VM timestamp make a ConfigMap record.
LEMMA RecordTypes ==
  \A s \in Statuses, v \in Births : [st |-> s, vm |-> v] \in Records
BY DEF Records

\* Updating the phase or a flag of an ISO DataVolume gives one again.
LEMMA IsoTypes ==
  \A i \in Isos :
    /\ \A s \in {"None", "Importing", "Succeeded", "Terminating"} :
         [i EXCEPT !.st = s] \in Isos
    /\ \A t \in BOOLEAN :
         [i EXCEPT !.patched = t] \in Isos /\ [i EXCEPT !.marked = t] \in Isos
BY DEF Isos

\* Updating the phase, owner or data of a disk gives a disk again.
LEMMA DvTypes ==
  \A d \in Dvs :
    /\ \A s \in {"None", "Pending", "Succeeded", "Terminating"} :
         /\ [d EXCEPT !.st = s] \in Dvs
         /\ \A v \in Births : [d EXCEPT !.st = s, !.by = v] \in Dvs
         /\ \A x \in {"blank", "partial", "sealed"} :
              [d EXCEPT !.st = s, !.data = x] \in Dvs
    /\ \A x \in {"blank", "partial", "sealed"} : [d EXCEPT !.data = x] \in Dvs
    /\ d.data \in {"blank", "partial", "sealed"}
BY DEF Dvs

\* The VMs and instances the actions build are well typed.
LEMMA GuestTypes ==
  /\ \A v \in Vms :
       /\ v.by \in Births
       /\ \A s \in {"Halted", "Deleting"} : [v EXCEPT !.st = s] \in Vms
  /\ \A v \in Births : [st |-> "Present", by |-> v] \in Vms
  /\ \A v \in Births : [st |-> "Starting", by |-> v, agent |-> FALSE] \in Vmis
  /\ \A i \in Vmis :
       /\ [i EXCEPT !.agent = TRUE] \in Vmis
       /\ \A s \in {"Running", "Succeeded"} : [i EXCEPT !.st = s] \in Vmis
BY DEF Vms, Vmis

\* Every status and every step name an action writes is a known one.
LEMMA Labels ==
  /\ \A s \in {"None", "Pending", "Installing", "Sysprep", "Ready", "Error", "Cancelled"} :
       s \in Statuses
  /\ \A l \in {"begin", "preflight", "drain", "import", "isoWait", "release",
               "released", "patch", "job", "blank", "instWait", "vmCreate",
               "vmMade", "wait", "exited", "finDelete", "clone", "cloneWait",
               "publish", "ret"} : l \in LivePcs
BY DEF Statuses, LivePcs, BeforeExit, Finishing

\* A failed call stays within the bound on failures.
LEMMA FaultTypes == ASSUME TypeOK, ManagerAssumption, Fault PROVE faults' \in 0 .. MaxFaults
BY DEF TypeOK, Fault, ManagerAssumption

\* Moving a goroutine to a known step keeps the type of pc.
LEMMA GotoTypes ==
  ASSUME TypeOK, NEW b \in Builds, NEW l \in LivePcs \cup {"done"}, Goto(b, l)
  PROVE  pc' \in [Builds -> LivePcs \cup {"idle", "done"}]
BY DEF TypeOK, Goto

\* Manager.set with a known status keeps the types of what it writes.
LEMMA SetTypes ==
  ASSUME TypeOK, ManagerAssumption, NEW b \in Builds, NEW s \in Statuses,
         NEW l \in LivePcs, Set(b, s, l)
  PROVE  /\ status' \in Statuses
         /\ wr' \in [Builds -> Records]
         /\ pc' \in [Builds -> LivePcs \cup {"idle", "done"}]
BY ConstantTypes, RecordTypes DEF TypeOK, Set, Assign, Owed, Drops, Goto

\* Deleting the install VM keeps the type of the VM.
LEMMA DeleteGuestTypes ==
  ASSUME TypeOK, ManagerAssumption, DeleteGuest
  PROVE  vm' \in Vms /\ faults' \in 0 .. MaxFaults
BY GuestTypes, FaultTypes DEF TypeOK, DeleteGuest

\* What run does up to the install VM (preflight to ensureInstallVM) keeps types.
LEMMA PrepareTypes ==
  ASSUME TypeOK, ManagerAssumption, NEW b \in Builds, Prepare(b)
  PROVE  TypeOK'
<1> USE Labels DEF TypeOK, mem, proc, hnd, guest, disks, bounds
<1>1. CASE RunBegins(b)
  BY <1>1, SetTypes DEF MemoryOnly, RunBegins
<1>2. CASE Preflight(b)
  BY <1>2, GotoTypes, DeleteGuestTypes, ConstantTypes DEF Preflight
<1>3. CASE Drain(b)
  BY <1>3, SetTypes DEF MemoryOnly, Drain
<1>4. CASE ImportReuse(b)
  BY <1>4, GotoTypes DEF ImportReuse
<1>5. CASE ImportDelete(b)
  BY <1>5, IsoTypes DEF DeleteIso, ImportDelete
<1>6. CASE ImportCreate(b)
  BY <1>6, GotoTypes, IsoTypes, ConstantTypes DEF ImportCreate
<1>7. CASE IsoReady(b)
  BY <1>7, SetTypes DEF MemoryOnly, IsoReady
<1>8. CASE Release(b)
  BY <1>8, GotoTypes, DeleteGuestTypes DEF Release
<1>9. CASE Released(b)
  BY <1>9, SetTypes DEF MemoryOnly, Released
<1>10. CASE PatchSkip(b)
  BY <1>10, SetTypes DEF MemoryOnly, PatchSkip
<1>11. CASE PatchJob(b)
  BY <1>11, GotoTypes, FaultTypes DEF PatchJob
<1>12. CASE JobWaited(b)
  BY <1>12, SetTypes, IsoTypes, FaultTypes DEF JobWaited
<1>13. CASE BlankDelete(b)
  BY <1>13, DvTypes DEF BlankDelete
<1>14. CASE BlankCreate(b)
  BY <1>14, GotoTypes, DvTypes, ConstantTypes DEF BlankCreate
<1>15. CASE InstReady(b)
  BY <1>15, SetTypes DEF MemoryOnly, InstReady
<1>16. CASE VmCreate(b)
  BY <1>16, GotoTypes, GuestTypes, ConstantTypes DEF VmCreate
<1>17. CASE VmRecorded(b)
  BY <1>17, GotoTypes, RecordTypes, ConstantTypes DEF Assign, Owed, Drops, RecordCopy, VmRecorded
<1>18. QED  BY <1>1, <1>2, <1>3, <1>4, <1>5, <1>6, <1>7, <1>8, <1>9, <1>10, <1>11, <1>12, <1>13, <1>14, <1>15, <1>16, <1>17 DEF Prepare

\* waitVMI's verdicts keep types.
LEMMA WaitTypes ==
  ASSUME TypeOK, ManagerAssumption, NEW b \in Builds, WaitVMI(b)
  PROVE  TypeOK'
<1> USE Labels DEF TypeOK, mem, proc, hnd, guest, disks, bounds
<1>1. CASE WaitRunning(b)
  BY <1>1, SetTypes DEF AgentSeen, WaitRunning
<1>2. CASE WaitSucceeded(b)
  BY <1>2, SetTypes, GotoTypes DEF GuestExited, MemoryOnly, WaitSucceeded
<1>3. CASE WaitStopped(b)
  BY <1>3, SetTypes, GotoTypes DEF GuestExited, MemoryOnly, WaitStopped
<1>4. CASE WaitMissing(b)
  BY <1>4, SetTypes DEF MemoryOnly, WaitMissing
<1>5. QED  BY <1>1, <1>2, <1>3, <1>4 DEF WaitVMI

\* finishBuild's steps keep types.
LEMMA FinishTypes ==
  ASSUME TypeOK, ManagerAssumption, NEW b \in Builds, FinishBuild(b)
  PROVE  TypeOK'
<1> USE Labels DEF TypeOK, mem, proc, hnd, guest, disks, bounds
<1>1. CASE FinishBegins(b)
  BY <1>1, SetTypes DEF FinishBegins
<1>2. CASE FinishDeletesVm(b)
  BY <1>2, GotoTypes, DeleteGuestTypes DEF FinishDeletesVm
<1>3. CASE GoldenDelete(b)
  BY <1>3, DvTypes DEF GoldenDelete
<1>4. CASE GoldenClone(b)
  BY <1>4, GotoTypes, DvTypes, ConstantTypes DEF GoldenClone
<1>5. CASE Cloned(b)
  BY <1>5, GotoTypes DEF Cloned
<1>6. CASE Publish(b)
  BY <1>6, SetTypes DEF MemoryOnly, Reported, Publish
<1>7. QED  BY <1>1, <1>2, <1>3, <1>4, <1>5, <1>6 DEF FinishBuild

\* Every step of a goroutine keeps types.
LEMMA BuildStepTypes ==
  ASSUME TypeOK, ManagerAssumption, NEW b \in Builds, BuildStep(b)
  PROVE  TypeOK'
<1> USE Labels DEF TypeOK, mem, proc, hnd, guest, disks, bounds
<1>1. CASE Persist(b)
  BY <1>1, ConstantTypes, RecordTypes, FaultTypes DEF Marshalled, Persist
<1>2. CASE Prepare(b)
  BY <1>2, PrepareTypes DEF Prepare
<1>3. CASE WaitVMI(b)
  BY <1>3, WaitTypes DEF WaitVMI
<1>4. CASE FinishBuild(b)
  BY <1>4, FinishTypes DEF FinishBuild
<1>5. CASE StepFails(b)
  BY <1>5, SetTypes, FaultTypes DEF MemoryOnly, StepFails
<1>6. CASE Deadline(b)
  BY <1>6, SetTypes DEF MemoryOnly, Deadline
<1>7. CASE StopSeen(b)
  BY <1>7, SetTypes DEF MemoryOnly, StopSeen
<1>8. CASE Done(b)
  BY <1>8, GotoTypes, ConstantTypes DEF Done
<1>9. QED  BY <1>1, <1>2, <1>3, <1>4, <1>5, <1>6, <1>7, <1>8 DEF BuildStep

\* Every step of a Cancel handler keeps types.
LEMMA CancelStepTypes ==
  ASSUME TypeOK, ManagerAssumption, NEW c \in Handlers, CancelStep(c)
  PROVE  TypeOK'
<1> USE Labels DEF TypeOK, mem, proc, hnd, guest, disks, bounds
<1>1. CASE CancelDeletesVm(c)
  BY <1>1, DeleteGuestTypes DEF CancelDeletesVm
<1>2. CASE CancelDeletesDisk(c)
  BY <1>2, DvTypes, FaultTypes DEF CancelDeletesDisk, DiskDeleted, Deleted
<1>3. CASE CancelReadsIso(c)
  BY <1>3 DEF CancelReadsIso
<1>4. CASE CancelDeletesIso(c)
  BY <1>4, IsoTypes DEF CancelDeletesIso, Deleted
<1>5. CASE CancelSets(c)
  BY <1>5, RecordTypes DEF Assign, Owed, Drops, CancelSets
<1>6. CASE CancelPersists(c)
  BY <1>6, ConstantTypes, FaultTypes DEF CancelPersists
<1>7. QED  BY <1>1, <1>2, <1>3, <1>4, <1>5, <1>6 DEF CancelStep

\* What CDI, KubeVirt, the Job and the guest do keeps types.
LEMMA ClusterTypes ==
  ASSUME TypeOK, ManagerAssumption, ClusterProgress
  PROVE  TypeOK'
<1> USE Labels DEF TypeOK, mem, proc, hnd, guest, disks, bounds
<1>0. UNCHANGED <<mem, proc, hnd, cm, halted, crashes, faults>>
  BY DEF ClusterProgress
<1>1. CASE IsoImported
  BY <1>0, <1>1, IsoTypes DEF IsoImported
<1>2. CASE JobPatches
  BY <1>0, <1>2, IsoTypes DEF JobPatches
<1>3. CASE InstBound
  BY <1>0, <1>3, DvTypes DEF InstBound
<1>4. CASE GoldenCopied
  BY <1>0, <1>4, DvTypes DEF GoldenCopied
<1>5. CASE DvGone
  BY <1>0, <1>5, ConstantTypes DEF DvGone
<1>6. CASE VmiCreated
  BY <1>0, <1>6, GuestTypes DEF VmiCreated
<1>7. CASE VmiRuns
  BY <1>0, <1>7, GuestTypes, DvTypes DEF VmiRuns
<1>8. CASE AgentConnects
  BY <1>0, <1>8, GuestTypes DEF AgentConnects
<1>9. CASE GuestSeals
  BY <1>0, <1>9, GuestTypes, DvTypes DEF GuestSeals
<1>10. CASE VmiStops
  BY <1>0, <1>10, GuestTypes, ConstantTypes DEF VmiStops
<1>11. CASE VmiGone
  BY <1>0, <1>11, ConstantTypes DEF VmiGone
<1>12. CASE VmGone
  BY <1>0, <1>12, ConstantTypes DEF VmGone
<1>13. QED  BY <1>1, <1>2, <1>3, <1>4, <1>5, <1>6, <1>7, <1>8, <1>9, <1>10, <1>11, <1>12 DEF ClusterProgress

\* Requests, crashes, restarts and people keep types.
LEMMA OtherTypes ==
  ASSUME TypeOK, ManagerAssumption,
         \/ \E b \in Builds : Start(b)
         \/ \E c \in Handlers : CancelAccepted(c)
         \/ Crash \/ Load \/ Outside
  PROVE  TypeOK'
<1> USE Labels, ConstantTypes DEF TypeOK, mem, proc, hnd, guest, disks, bounds
<1>1. ASSUME NEW b \in Builds, Start(b) PROVE TypeOK'
  BY <1>1, GotoTypes, RecordTypes DEF Start, MarkRunning
<1>2. ASSUME NEW c \in Handlers, CancelAccepted(c) PROVE TypeOK'
  BY <1>2 DEF CancelAccepted
<1>3. CASE Crash
  <2>1. pc' \in [Builds -> LivePcs \cup {"idle", "done"}]
    BY <1>3 DEF Crash
  <2>2. hpc' \in [Handlers -> {"idle", "done"}]
    BY <1>3 DEF Crash
  <2>3. crashes' \in 0 .. MaxCrashes
    BY <1>3 DEF Crash, ManagerAssumption
  <2>4. QED  BY <1>3, <2>1, <2>2, <2>3 DEF Crash
<1>4. ASSUME NEW b \in Builds, LoadResumes(b) PROVE TypeOK'
  <2>1. cm.st \in Statuses /\ cm.vm \in Births
    BY DEF Records
  <2>2. QED  BY <1>4, <2>1, GotoTypes DEF LoadResumes, MarkRunning
<1>5. CASE LoadSettles
  <2>1. cm.st \in Statuses /\ cm.vm \in Births
    BY DEF Records
  <2>2. Abandoned(cm.st) \in Statuses
    BY <2>1 DEF Abandoned
  <2>3. [cm EXCEPT !.st = Abandoned(cm.st)] \in Records
    BY <2>2 DEF Records
  <2>4. QED  BY <1>5, <2>1, <2>2, <2>3, FaultTypes DEF LoadSettles
<1>6. CASE LoadFails
  BY <1>6, FaultTypes DEF LoadFails
<1>7. CASE PowersOffEarly /\ Outside
  BY <1>7, GuestTypes, FaultTypes DEF PowersOffEarly, Outside
<1>8. CASE Meddles /\ Outside
  BY <1>8, GuestTypes DEF Meddles, Outside, ManagerAssumption
<1>9. QED  BY <1>1, <1>2, <1>3, <1>4, <1>5, <1>6, <1>7, <1>8 DEF Load, Outside

\* Every reachable state of the Manager and its cluster is well typed: no
\* step puts a word, a record or a counter where the code cannot have it.
THEOREM TypeCorrect == Spec => []TypeOK
<1> USE ManagerAssumption
<1>1. Init => TypeOK
  <2>1. 0 \in 0 .. MaxCrashes /\ 0 \in 0 .. MaxFaults /\ 0 \in 0 .. MaxMeddles
    BY DEF ManagerAssumption
  <2> SUFFICES ASSUME Init PROVE TypeOK
    OBVIOUS
  <2>2. up \in BOOLEAN /\ status \in Statuses /\ vmAt \in Births
        /\ running \in BOOLEAN /\ cancelled \in BOOLEAN /\ finishing \in BOOLEAN
    BY ConstantTypes DEF Init, Statuses
  <2>3. pc \in [Builds -> LivePcs \cup {"idle", "done"}]
    BY Labels DEF Init
  <2>4. wr \in [Builds -> Records] /\ hwr \in [Handlers -> Records] /\ cm \in Records
    BY ConstantTypes DEF Init
  <2>5. since \in [Builds -> Births] /\ seen \in [Builds -> SUBSET {"running", "agent"}]
    BY ConstantTypes DEF Init
  <2>6. hpc \in [Handlers -> {"idle", "vm", "disk", "iso", "isoDelete", "set", "persist", "done"}]
    BY DEF Init
  <2>7. vm \in Vms /\ vmi \in Vmis /\ iso \in Isos /\ inst \in Dvs /\ golden \in Dvs
        /\ job \in {"None", "Running", "Succeeded"} /\ halted \in SUBSET Builds
    BY ConstantTypes DEF Init
  <2>8. QED  BY <2>1, <2>2, <2>3, <2>4, <2>5, <2>6, <2>7 DEF Init, TypeOK
<1>2. TypeOK /\ [Next]_vars => TypeOK'
  <2> SUFFICES ASSUME TypeOK, [Next]_vars PROVE TypeOK'
    OBVIOUS
  <2>1. CASE UNCHANGED vars
    BY <2>1 DEF TypeOK, vars, mem, proc, hnd, guest, disks, bounds
  <2>2. CASE Next
    BY <2>2, BuildStepTypes, CancelStepTypes, ClusterTypes, OtherTypes DEF Next
  <2>3. QED  BY <2>1, <2>2
<1>3. QED  BY <1>1, <1>2, PTL DEF Spec

-----------------------------------------------------------------------------
(* One driver, and Cancel against finishBuild.                             *)

\* The inductive invariant.  The flags belong to the live goroutine; a halted
\* goroutine lives only while its cancel flag is up; whoever is past
\* finishBuild's check has raised finishing, which CancelAccepted refuses.
DriverInv ==
  /\ \A a, b \in Builds : Live(a) /\ Live(b) => a = b
  /\ running <=> \E b \in Builds : Live(b)
  /\ ~up => ~running
  /\ (cancelled \/ finishing) => running
  /\ ~(cancelled /\ finishing)
  /\ \A b \in Builds : pc[b] \in Finishing => finishing
  /\ \A b \in halted : pc[b] # "idle" /\ (Live(b) => cancelled)

\* Which step names are a live goroutine's, and which are finishBuild's.
LEMMA LiveLabels ==
  /\ "idle" \notin LivePcs /\ "done" \notin LivePcs
  /\ BeforeExit \subseteq LivePcs /\ Finishing \subseteq LivePcs /\ "ret" \in LivePcs
  /\ \A l \in BeforeExit \cup {"ret"} : l \notin Finishing
BY DEF LivePcs, BeforeExit, Finishing

\* What every step of a live goroutine but FinishBegins and Done is: the flags
\* stay, and it stays on its side of finishBuild's check or returns.
EarlyMove(b) ==
  /\ Live(b)
  /\ \/ UNCHANGED pc
     \/ \E l \in BeforeExit \cup {"ret"} : Goto(b, l)
     \/ pc[b] \in Finishing /\ \E l \in Finishing : Goto(b, l)
  /\ UNCHANGED <<up, running, cancelled, finishing, halted>>

\* Such a step keeps the inductive invariant.
LEMMA EarlyMoveKeeps ==
  ASSUME TypeOK, DriverInv, NEW b \in Builds, EarlyMove(b)
  PROVE  DriverInv'
<1>1. \A x \in Builds : Live(x)' <=> Live(x)
  BY LiveLabels DEF TypeOK, EarlyMove, Goto, Live
<1>2. \A x \in Builds : pc'[x] \in Finishing => pc[x] \in Finishing
  BY LiveLabels DEF TypeOK, EarlyMove, Goto
<1>3. \A x \in Builds : pc[x] # "idle" => pc'[x] # "idle"
  BY LiveLabels DEF TypeOK, EarlyMove, Goto
<1>4. UNCHANGED <<up, running, cancelled, finishing, halted>>
  BY DEF EarlyMove
<1>5. halted \subseteq Builds
  BY DEF TypeOK
<1>6. QED  BY <1>1, <1>2, <1>3, <1>4, <1>5 DEF DriverInv

\* What run does up to the install VM is such a step.
LEMMA PrepareMoves ==
  ASSUME NEW b \in Builds, Prepare(b)
  PROVE  EarlyMove(b)
<1> USE DEF EarlyMove, Live, LivePcs, BeforeExit, Finishing, At, Set, MemoryOnly, mem
<1>1. CASE RunBegins(b) \/ Drain(b) \/ IsoReady(b) \/ Released(b) \/ PatchSkip(b) \/ InstReady(b)
  BY <1>1 DEF RunBegins, Drain, IsoReady, Released, PatchSkip, InstReady
<1>2. CASE Preflight(b) \/ ImportReuse(b) \/ ImportCreate(b) \/ Release(b)
  BY <1>2 DEF Preflight, ImportReuse, ImportCreate, Release
<1>3. CASE ImportDelete(b) \/ BlankDelete(b)
  BY <1>3 DEF ImportDelete, BlankDelete, proc
<1>4. CASE PatchJob(b) \/ JobWaited(b) \/ BlankCreate(b)
  BY <1>4 DEF PatchJob, JobWaited, BlankCreate
<1>5. CASE VmCreate(b) \/ VmRecorded(b)
  BY <1>5 DEF VmCreate, VmRecorded
<1>6. QED  BY <1>1, <1>2, <1>3, <1>4, <1>5 DEF Prepare

\* What waitVMI does is such a step.
LEMMA WaitMoves ==
  ASSUME NEW b \in Builds, WaitVMI(b)
  PROVE  EarlyMove(b)
<1> USE DEF EarlyMove, Live, LivePcs, BeforeExit, Finishing, At, Set, MemoryOnly
<1>1. CASE WaitRunning(b)
  BY <1>1 DEF WaitRunning
<1>2. CASE WaitSucceeded(b) \/ WaitStopped(b)
  BY <1>2 DEF WaitSucceeded, WaitStopped, GuestExited
<1>3. CASE WaitMissing(b)
  BY <1>3 DEF WaitMissing
<1>4. QED  BY <1>1, <1>2, <1>3 DEF WaitVMI

\* Errors, expired deadlines and seen stops are such steps.
LEMMA EndMoves ==
  ASSUME NEW b \in Builds, StepFails(b) \/ Deadline(b) \/ StopSeen(b)
  PROVE  EarlyMove(b)
<1> USE DEF EarlyMove, Live, LivePcs, BeforeExit, Finishing, Set, MemoryOnly
<1>1. CASE StepFails(b)
  BY <1>1 DEF StepFails, Fallible
<1>2. CASE Deadline(b)
  BY <1>2 DEF Deadline, Waits
<1>3. CASE StopSeen(b)
  BY <1>3 DEF StopSeen, Stops
<1>4. QED  BY <1>1, <1>2, <1>3

\* finishBuild's steps are, but for the one that passes its check.
LEMMA FinishMoves ==
  ASSUME NEW b \in Builds, FinishBuild(b)
  PROVE  EarlyMove(b) \/ FinishBegins(b)
<1> USE DEF EarlyMove, Live, LivePcs, BeforeExit, Finishing, At, Set, MemoryOnly, mem
<1>1. CASE FinishDeletesVm(b) \/ GoldenClone(b) \/ Cloned(b)
  BY <1>1 DEF FinishDeletesVm, GoldenClone, Cloned
<1>2. CASE GoldenDelete(b)
  BY <1>2 DEF GoldenDelete, proc
<1>3. CASE Publish(b)
  BY <1>3 DEF Publish
<1>4. QED  BY <1>1, <1>2, <1>3 DEF FinishBuild

\* Every step of the system keeps the inductive invariant.
LEMMA DriverStep ==
  ASSUME TypeOK, DriverInv, ManagerAssumption, Next
  PROVE  DriverInv'
<1> USE DEF mem, proc, hnd, guest, disks, bounds
<1>1. ASSUME NEW b \in Builds, EarlyMove(b) PROVE DriverInv'
  BY <1>1, EarlyMoveKeeps
<1>2. ASSUME UNCHANGED <<up, running, cancelled, finishing, pc, halted>> PROVE DriverInv'
  BY <1>2 DEF DriverInv, Live
<1>3. ASSUME NEW b \in Builds, Start(b) \/ LoadResumes(b) PROVE DriverInv'
  <2>1. ~running /\ pc[b] = "idle" /\ up' /\ running'
    BY <1>3 DEF Start, LoadResumes, MayStart, MarkRunning, Fresh, DriverInv
  <2>2. \E l \in {"begin", "wait"} : pc' = [pc EXCEPT ![b] = l]
    BY <1>3 DEF Start, LoadResumes, Goto
  <2>3. UNCHANGED <<cancelled, finishing, halted>>
    BY <1>3 DEF Start, LoadResumes
  <2>4. \A x \in Builds : ~Live(x)
    BY <2>1 DEF DriverInv
  <2>5. \A x \in Builds : Live(x)' <=> x = b
    BY <2>2, <2>4, LiveLabels DEF TypeOK, Live, BeforeExit
  <2>6. \A x \in Builds : pc'[x] \notin Finishing
    BY <2>2, <2>4, LiveLabels DEF TypeOK, Live, BeforeExit
  <2>7. b \notin halted
    BY <2>1 DEF DriverInv
  <2>8. \A x \in halted : x \in Builds /\ pc'[x] = pc[x] /\ ~Live(x)'
    BY <2>2, <2>5, <2>7 DEF TypeOK
  <2>9. QED  BY <2>1, <2>3, <2>5, <2>6, <2>8 DEF DriverInv
<1>4. ASSUME NEW b \in Builds, FinishBegins(b) PROVE DriverInv'
  <2>1. At(b, "exited") /\ ~cancelled /\ finishing' /\ Goto(b, "finDelete")
        /\ UNCHANGED <<up, running, cancelled, halted>>
    BY <1>4 DEF FinishBegins, Set
  <2>2. Live(b)
    BY <2>1 DEF At, Live, LivePcs, BeforeExit
  <2>3. \A x \in Builds : (Live(x)' <=> Live(x)) /\ (pc[x] # "idle" => pc'[x] # "idle")
    BY <2>1, <2>2 DEF TypeOK, Goto, Live, LivePcs, Finishing
  <2>4. halted \subseteq Builds /\ finishing' \in BOOLEAN
    BY <1>4 DEF TypeOK, FinishBegins
  <2>5. QED  BY <2>1, <2>2, <2>3, <2>4 DEF DriverInv
<1>5. ASSUME NEW b \in Builds, Done(b) PROVE DriverInv'
  <2>1. /\ pc[b] = "ret" /\ pc' = [pc EXCEPT ![b] = "done"]
        /\ ~running' /\ ~cancelled' /\ ~finishing' /\ UNCHANGED <<up, halted>>
    BY <1>5 DEF Done, At, Goto
  <2>2. \A x \in Builds : x # b => ~Live(x)
    BY <2>1, LiveLabels DEF DriverInv, Live
  <2>3. \A x \in Builds : ~Live(x)' /\ (pc[x] # "idle" => pc'[x] # "idle")
    BY <2>1, <2>2, LiveLabels DEF TypeOK, Live
  <2>4. \A x \in Builds : pc'[x] \notin Finishing
    BY <2>3, LiveLabels DEF Live
  <2>5. QED  BY <2>1, <2>3, <2>4 DEF DriverInv, TypeOK
<1>6. ASSUME NEW c \in Handlers, CancelAccepted(c) PROVE DriverInv'
  <2>1. /\ running /\ ~finishing /\ cancelled'
        /\ halted' = halted \cup {b \in Builds : Live(b)}
        /\ UNCHANGED <<up, running, finishing, pc>>
    BY <1>6 DEF CancelAccepted, MayCancel
  <2>2. \A x \in halted' : pc[x] # "idle"
    BY <2>1, LiveLabels DEF DriverInv, Live
  <2>3. QED  BY <2>1, <2>2 DEF DriverInv, Live
<1>7. CASE Crash
  <2>1. /\ ~up' /\ ~running' /\ ~cancelled' /\ ~finishing' /\ UNCHANGED halted
        /\ pc' = [b \in Builds |-> IF Live(b) THEN "done" ELSE pc[b]]
    BY <1>7 DEF Crash
  <2>2. \A x \in Builds : ~Live(x)' /\ (pc[x] # "idle" => pc'[x] # "idle")
    BY <2>1, LiveLabels DEF Live
  <2>3. \A x \in Builds : pc'[x] \notin Finishing
    BY <2>2, LiveLabels DEF Live
  <2>4. QED  BY <2>1, <2>2, <2>3 DEF DriverInv, TypeOK
<1>8. CASE LoadSettles \/ LoadFails
  <2>1. ~running /\ up' /\ UNCHANGED <<running, cancelled, finishing, pc, halted>>
    BY <1>8 DEF LoadSettles, LoadFails, DriverInv
  <2>2. QED  BY <2>1 DEF DriverInv, Live
<1>9. ASSUME NEW b \in Builds, BuildStep(b) PROVE DriverInv'
  <2>1. CASE Persist(b)
    BY <2>1, <1>2 DEF Persist
  <2>2. QED  BY <1>9, <2>1, <1>1, <1>4, <1>5, PrepareMoves, WaitMoves, EndMoves, FinishMoves
             DEF BuildStep
<1>10. ASSUME NEW c \in Handlers, CancelStep(c) PROVE DriverInv'
  <2>1. UNCHANGED <<up, running, cancelled, finishing, pc, halted>>
    BY <1>10 DEF CancelStep, CancelDeletesVm, CancelDeletesDisk, CancelReadsIso,
                CancelDeletesIso, CancelSets, CancelPersists
  <2>2. QED  BY <2>1, <1>2
<1>11. CASE ClusterProgress \/ Outside
  BY <1>11, <1>2 DEF ClusterProgress, Outside
<1>12. QED  BY <1>3, <1>6, <1>7, <1>8, <1>9, <1>10, <1>11 DEF Next, Load

\* The inductive invariant holds in every reachable state.
LEMMA DriverInvariant == Spec => []DriverInv
<1> USE ManagerAssumption
<1>1. Init => DriverInv
  BY LiveLabels DEF Init, DriverInv, Live, Finishing
<1>2. TypeOK /\ DriverInv /\ [Next]_vars => DriverInv'
  <2>1. ASSUME DriverInv, UNCHANGED vars PROVE DriverInv'
    BY <2>1 DEF DriverInv, Live, vars, mem, proc
  <2>2. QED  BY <2>1, DriverStep
<1>3. QED  BY <1>1, <1>2, TypeCorrect, PTL DEF Spec

\* Start's test of running and done keep builds of one disk name apart: two
\* goroutines never drive the same install VM and disks, restarts included.
THEOREM OneDriver == Spec => []SingleDriver
<1>1. DriverInv => SingleDriver
  BY DEF DriverInv, SingleDriver
<1>2. QED  BY <1>1, DriverInvariant, PTL

\* The two m.mu sections, Cancel's refusal and finishBuild's check, exclude
\* each other: a build whose Cancel was accepted never replaces the golden
\* disk, and no flag outlives its build.
THEOREM CancelFinishExclusion == Spec => []CancelExcludesFinish
<1>1. TypeOK /\ DriverInv => CancelExcludesFinish
  BY LiveLabels DEF TypeOK, DriverInv, CancelExcludesFinish, Live
<1>2. QED  BY <1>1, TypeCorrect, DriverInvariant, PTL

\* Only FinishBuild's steps replace the golden disk, and the goroutine that
\* takes one is live and not halted.
THEOREM GoldenProtected == Spec => GoldenOnlyByUncancelled
<1>1. TypeOK /\ DriverInv /\ [Next]_vars
        => (GoldenReplaced => \E b \in Builds \ halted : Live(b))
  <2> SUFFICES ASSUME TypeOK, DriverInv, [Next]_vars, GoldenReplaced
               PROVE  \E b \in Builds \ halted : Live(b)
    OBVIOUS
  <2> USE DEF mem, proc, hnd, guest, disks, bounds, vars
  <2>1. ASSUME NEW b \in Builds, GoldenDelete(b) \/ GoldenClone(b)
        PROVE  \E x \in Builds \ halted : Live(x)
    <3>1. pc[b] \in Finishing
      BY <2>1 DEF GoldenDelete, GoldenClone, At, Finishing
    <3>2. QED  BY <3>1, LiveLabels DEF DriverInv, Live
  <2>2. ASSUME NEW b \in Builds, Start(b) \/ BuildStep(b),
               ~GoldenDelete(b), ~GoldenClone(b)
        PROVE  UNCHANGED golden
    <3>1. CASE Start(b) \/ Persist(b) \/ StepFails(b) \/ Deadline(b) \/ StopSeen(b) \/ Done(b)
      BY <3>1 DEF Start, Persist, StepFails, Deadline, StopSeen, Done, MemoryOnly
    <3>2. CASE Prepare(b)
      BY <3>2 DEF Prepare, MemoryOnly, RunBegins, Preflight, Drain, ImportReuse,
                  ImportDelete, ImportCreate, IsoReady, Release, Released, PatchSkip,
                  PatchJob, JobWaited, BlankDelete, BlankCreate, InstReady, VmCreate,
                  VmRecorded
    <3>3. CASE WaitVMI(b)
      BY <3>3 DEF WaitVMI, WaitRunning, WaitSucceeded, WaitStopped, WaitMissing,
                  GuestExited, MemoryOnly
    <3>4. CASE FinishBuild(b)
      BY <3>4, <2>2 DEF FinishBuild, FinishBegins, FinishDeletesVm, Cloned, Publish, MemoryOnly
    <3>5. QED  BY <2>2, <3>1, <3>2, <3>3, <3>4 DEF BuildStep
  <2>3. ASSUME NEW c \in Handlers, CancelAccepted(c) \/ CancelStep(c)
        PROVE  UNCHANGED golden
    BY <2>3 DEF CancelAccepted, CancelStep, CancelDeletesVm, CancelDeletesDisk,
                DiskDeleted, CancelReadsIso, CancelDeletesIso, CancelSets, CancelPersists
  <2>4. CASE Crash \/ Load \/ Outside
    BY <2>4 DEF Crash, Load, LoadResumes, LoadSettles, LoadFails, Outside,
                PowersOffEarly, Meddles, GoldenReplaced
  <2>5. CASE ClusterProgress
    <3>1. CASE GoldenCopied
      <4>1. golden'.st = "Succeeded"
        BY <3>1 DEF GoldenCopied, TypeOK, Dvs
      <4>2. QED  BY <4>1 DEF GoldenReplaced
    <3>2. CASE DvGone
      <4>1. golden' = golden \/ golden' = NoDv
        BY <3>2 DEF DvGone
      <4>2. QED  BY <4>1 DEF GoldenReplaced, NoDv
    <3>3. CASE golden' = golden
      BY <3>3 DEF GoldenReplaced
    <3>4. QED
      BY <2>5, <3>1, <3>2, <3>3
         DEF ClusterProgress, IsoImported, JobPatches, InstBound, VmiCreated, VmiRuns,
             AgentConnects, GuestSeals, VmiStops, VmiGone, VmGone
  <2>6. CASE UNCHANGED vars
    BY <2>6 DEF GoldenReplaced
  <2>7. QED  BY <2>1, <2>2, <2>3, <2>4, <2>5, <2>6 DEF Next, GoldenReplaced
<1>2. QED  BY <1>1, TypeCorrect, DriverInvariant, PTL DEF Spec, GoldenOnlyByUncancelled

-----------------------------------------------------------------------------
(* The status, and the abstract life cycle.  Both rest on one more          *)
(* inductive invariant, StatusInv, on top of DriverInv.                     *)

Owing == {"vm", "disk", "iso", "isoDelete", "set"}

\* What the status says at each point of a build.  Before its last step a build
\* has no verdict; a Cancel that was accepted has told or will tell; whoever
\* returns, and whatever is left behind, has a verdict or awaits that of a Cancel.
StatusInv ==
  /\ ~up => status = "None" /\ ~CancelOwed
  /\ \A b \in Builds : Live(b) /\ pc[b] # "ret" => status \in InProgress \cup {"Cancelled"}
  /\ cancelled => CancelOwed \/ status = "Cancelled"
  /\ \A b \in Builds : pc[b] = "ret" => status \notin InProgress \/ CancelOwed
  /\ up /\ ~running => status \notin InProgress \/ CancelOwed
  /\ \A b \in Builds : pc[b] = "publish" => golden.st = "Succeeded"

-----------------------------------------------------------------------------
(* The steps of a goroutine before its return, told by their status.       *)

Middle == LivePcs \ {"ret", "publish"}
Onward(b) == UNCHANGED pc \/ \E l \in Middle : Goto(b, l)

\* No word about it, progress, or an error.
Quiet(b) == UNCHANGED status /\ Onward(b)
Tells(b) == \E s \in InProgress, l \in Middle : Assign(s) /\ Goto(b, l)
Gives(b) == Assign("Error") /\ Goto(b, "ret")

MiddleStep(b) ==
  /\ pc[b] \in LivePcs \ {"ret"}
  /\ Quiet(b) \/ Tells(b) \/ Gives(b)
  /\ UNCHANGED <<up, running, cancelled, finishing, halted, hpc, golden>>

\* Up to the install VM all steps are such steps.
LEMMA PrepareMiddle ==
  ASSUME NEW b \in Builds, Prepare(b)
  PROVE  MiddleStep(b)
<1> USE DEF MiddleStep, Quiet, Tells, Gives, Onward, Middle, LivePcs, BeforeExit, Finishing,
            At, Set, MemoryOnly, mem, hnd, disks, InProgress
<1>1. CASE RunBegins(b) \/ Drain(b) \/ IsoReady(b) \/ Released(b) \/ PatchSkip(b) \/ InstReady(b)
  BY <1>1 DEF RunBegins, Drain, IsoReady, Released, PatchSkip, InstReady
<1>2. CASE Preflight(b) \/ ImportReuse(b) \/ ImportCreate(b) \/ Release(b)
  BY <1>2 DEF Preflight, ImportReuse, ImportCreate, Release
<1>3. CASE ImportDelete(b) \/ BlankDelete(b)
  BY <1>3 DEF ImportDelete, BlankDelete, proc
<1>4. CASE PatchJob(b) \/ JobWaited(b) \/ BlankCreate(b)
  BY <1>4 DEF PatchJob, JobWaited, BlankCreate
<1>5. CASE VmCreate(b) \/ VmRecorded(b)
  BY <1>5 DEF VmCreate, VmRecorded
<1>6. QED  BY <1>1, <1>2, <1>3, <1>4, <1>5 DEF Prepare

\* So are waitVMI's.
LEMMA WaitMiddle ==
  ASSUME NEW b \in Builds, WaitVMI(b)
  PROVE  MiddleStep(b)
<1> USE DEF MiddleStep, Quiet, Tells, Gives, Onward, Middle, LivePcs, BeforeExit, Finishing,
            At, Set, MemoryOnly, mem, hnd, disks, InProgress
<1>1. CASE WaitRunning(b)
  BY <1>1 DEF WaitRunning
<1>2. CASE WaitSucceeded(b) \/ WaitStopped(b)
  BY <1>2 DEF WaitSucceeded, WaitStopped, GuestExited
<1>3. CASE WaitMissing(b)
  BY <1>3 DEF WaitMissing
<1>4. QED  BY <1>1, <1>2, <1>3 DEF WaitVMI

\* And failures, expired deadlines and seen stops, and a persist before the return.
LEMMA EndMiddle ==
  ASSUME NEW b \in Builds, StepFails(b) \/ Deadline(b) \/ StopSeen(b)
  PROVE  MiddleStep(b)
<1> USE DEF MiddleStep, Gives, LivePcs, BeforeExit, Finishing, Set, MemoryOnly, hnd, disks
<1>1. CASE StepFails(b)
  BY <1>1 DEF StepFails, Fallible
<1>2. CASE Deadline(b)
  BY <1>2 DEF Deadline, Waits
<1>3. CASE StopSeen(b)
  BY <1>3 DEF StopSeen, Stops
<1>4. QED  BY <1>1, <1>2, <1>3

\* A live goroutine means a running builder.
LEMMA LiveRuns ==
  ASSUME DriverInv, NEW b \in Builds, Live(b)
  PROVE  up /\ running /\ \A x \in Builds : x # b => ~Live(x)
BY DEF DriverInv

-----------------------------------------------------------------------------
(* One lemma per kind of step: StatusInv holds on, and the step is one of  *)
(* the life cycle.                                                         *)

Next2 == [Lifecycle!Next]_(Lifecycle!vars)
Good  == StatusInv' /\ Next2

\* Steps that touch nothing the life cycle sees.
LEMMA Unseen ==
  ASSUME StatusInv, UNCHANGED <<up, running, cancelled, finishing, pc, status>>,
         CancelOwed' <=> CancelOwed, golden'.st = golden.st
  PROVE  Good
<1>1. StatusInv'
  BY DEF StatusInv, Live
<1>2. Next2
  BY DEF Next2, Lifecycle!vars, Stage, CancelOwed
<1>3. QED  BY <1>1, <1>2 DEF Good

\* The steps before the return.
LEMMA MiddleGood ==
  ASSUME TypeOK, DriverInv, StatusInv, NEW b \in Builds, MiddleStep(b)
  PROVE  Good
<1> DEFINE Others == \A x \in Builds : x # b => ~Live(x) /\ pc'[x] = pc[x]
<1>1. /\ Live(b) /\ pc[b] # "ret" /\ up /\ running
      /\ UNCHANGED <<up, running, cancelled, finishing, hpc, golden>>
  BY LiveRuns DEF MiddleStep, Live
<1>2. Others
  BY <1>1, LiveRuns DEF TypeOK, MiddleStep, Quiet, Tells, Gives, Onward, Goto
<1>3. status \in InProgress \cup {"Cancelled"}
  BY <1>1 DEF StatusInv
<1>4. CASE Quiet(b)
  <2>1. pc'[b] # "ret" /\ (pc'[b] = "publish" => pc[b] = "publish") /\ pc'[b] \in LivePcs
    BY <1>1, <1>4 DEF TypeOK, Quiet, Onward, Middle, Goto, MiddleStep
  <2>2. StatusInv'
    BY <1>1, <1>2, <1>3, <1>4, <2>1, LiveLabels DEF StatusInv, Quiet, CancelOwed, Live
  <2>3. Next2
    BY <1>1, <1>4 DEF Next2, Lifecycle!vars, Stage, CancelOwed, Quiet
  <2>4. QED  BY <2>2, <2>3 DEF Good
<1>5. CASE Tells(b)
  <2>1. pc'[b] \in LivePcs /\ pc'[b] # "ret" /\ pc'[b] # "publish"
    BY <1>5 DEF TypeOK, Tells, Middle, Goto
  <2>2. status' \in InProgress \cup {"Cancelled"} /\ (cancelled => status' = status)
    BY <1>3, <1>5 DEF Tells, Assign, Drops, InProgress
  <2>3. StatusInv'
    BY <1>1, <1>2, <2>1, <2>2, LiveLabels DEF StatusInv, CancelOwed, Live
  <2>4. CASE cancelled
    BY <1>1, <2>2, <2>3, <2>4 DEF Good, Next2, Lifecycle!vars, Stage, CancelOwed
  <2>5. CASE ~cancelled
    <3>1. status' \in InProgress
      BY <1>5, <2>5 DEF Tells, Assign, Drops
    <3>2. Lifecycle!Report
      BY <1>1, <1>3, <2>5, <3>1
         DEF Lifecycle!Report, Lifecycle!Verdicts, Lifecycle!InProgress, InProgress, Stage, CancelOwed
    <3>3. QED  BY <2>3, <3>2 DEF Good, Next2, Lifecycle!Next
  <2>6. QED  BY <2>4, <2>5
<1>6. CASE Gives(b)
  <2>1. pc'[b] = "ret"
    BY <1>6 DEF TypeOK, Gives, Goto
  <2>2. IF cancelled THEN status' = status ELSE status' = "Error"
    BY <1>6 DEF Gives, Assign, Drops
  <2>3. StatusInv'
    BY <1>1, <1>2, <2>1, <2>2, LiveLabels DEF StatusInv, CancelOwed, Live, InProgress
  <2>4. CASE cancelled
    BY <1>1, <2>2, <2>3, <2>4 DEF Good, Next2, Lifecycle!vars, Stage, CancelOwed
  <2>5. CASE ~cancelled
    <3>1. Lifecycle!Report
      BY <1>1, <1>3, <2>2, <2>5
         DEF Lifecycle!Report, Lifecycle!Verdicts, Lifecycle!InProgress, InProgress, Stage, CancelOwed
    <3>2. QED  BY <2>3, <3>1 DEF Good, Next2, Lifecycle!Next
  <2>6. QED  BY <2>4, <2>5
<1>7. QED  BY <1>4, <1>5, <1>6 DEF MiddleStep

\* A build that begins, or is resumed, is alone, and no flag is up.
LEMMA BeginGood ==
  ASSUME TypeOK, DriverInv, StatusInv, NEW b \in Builds, Start(b) \/ LoadResumes(b)
  PROVE  Good
<1> USE DEF hnd, disks
<1>1. /\ ~running /\ ~cancelled /\ ~finishing /\ up' /\ running'
      /\ UNCHANGED <<cancelled, finishing, hpc, golden>>
  BY DEF Start, LoadResumes, MayStart, MarkRunning, DriverInv
<1>2. \A x \in Builds : ~Live(x)
  BY <1>1 DEF DriverInv
<1>3. \E l \in {"begin", "wait"} : pc' = [pc EXCEPT ![b] = l]
  BY DEF Start, LoadResumes, Goto
<1>4. \A x \in Builds : pc'[x] # "ret" /\ pc'[x] # "publish"
  BY <1>2, <1>3 DEF TypeOK, Live, LivePcs, Finishing
<1>5. status' \in InProgress
  BY DEF Start, LoadResumes, canResume, InProgress
<1>6. StatusInv'
  BY <1>1, <1>4, <1>5 DEF StatusInv
<1>7. CASE Start(b)
  <2>1. Lifecycle!Begin
    BY <1>1, <1>7 DEF Lifecycle!Begin, Stage, Start, MayStart, CancelOwed
  <2>2. QED  BY <1>6, <2>1 DEF Good, Next2, Lifecycle!Next
<1>8. CASE LoadResumes(b)
  <2>1. Lifecycle!Restart
    BY <1>1, <1>8 DEF Lifecycle!Restart, Stage, LoadResumes, canResume, CancelOwed
  <2>2. QED  BY <1>6, <2>1 DEF Good, Next2, Lifecycle!Next
<1>9. QED  BY <1>7, <1>8

\* A restart that resumes nothing settles what the record left open.
LEMMA SettleGood ==
  ASSUME TypeOK, DriverInv, StatusInv, LoadSettles \/ LoadFails
  PROVE  Good
<1> USE DEF hnd, proc, disks
<1>1. /\ ~up /\ up' /\ ~running /\ ~cancelled /\ ~finishing
      /\ UNCHANGED <<running, cancelled, finishing, hpc, golden, pc>>
  BY DEF LoadSettles, LoadFails, DriverInv
<1>2. \A x \in Builds : ~Live(x)
  BY <1>1 DEF DriverInv
<1>3. cm.st \in Statuses
  BY DEF TypeOK, Records
<1>4. status' \in {"Ready", "Error", "None", "Cancelled"}
  BY <1>1, <1>3 DEF LoadSettles, LoadFails, Abandoned, StatusInv, Statuses, InProgress
<1>5. StatusInv'
  <2>1. \A x \in Builds : ~Live(x)' /\ pc'[x] # "ret" /\ pc'[x] # "publish"
    BY <1>1, <1>2, LiveLabels DEF Live, Finishing
  <2>2. QED  BY <1>1, <1>4, <2>1 DEF StatusInv, InProgress
<1>6. Lifecycle!Restart
  BY <1>1, <1>4 DEF Lifecycle!Restart, Lifecycle!Verdicts, Stage, CancelOwed
<1>7. QED  BY <1>5, <1>6 DEF Good, Next2, Lifecycle!Next

\* A crash takes the status and every pending report of a Cancel with it.
LEMMA CrashGood ==
  ASSUME TypeOK, DriverInv, StatusInv, Crash
  PROVE  Good
<1> USE DEF Crash, disks
<1>1. ~CancelOwed'
  BY DEF CancelOwed
<1>2. \A x \in Builds : ~Live(x)' /\ pc'[x] # "ret" /\ pc'[x] # "publish"
  BY LiveLabels DEF Live, Finishing
<1>3. StatusInv'
  BY <1>1, <1>2 DEF StatusInv
<1>4. Lifecycle!Die
  BY <1>1 DEF Lifecycle!Die, Stage, CancelOwed
<1>5. QED  BY <1>3, <1>4 DEF Good, Next2, Lifecycle!Next

\* An accepted Cancel owes its report from then on.
LEMMA AcceptGood ==
  ASSUME TypeOK, DriverInv, StatusInv, NEW c \in Handlers, CancelAccepted(c)
  PROVE  Good
<1> USE DEF CancelAccepted, MayCancel, proc, disks
<1>1. CancelOwed'
  BY DEF CancelOwed, TypeOK
<1>2. StatusInv'
  BY <1>1 DEF StatusInv, Live
<1>3. Lifecycle!Cancel
  BY <1>1 DEF Lifecycle!Cancel, Stage, CancelOwed
<1>4. QED  BY <1>2, <1>3 DEF Good, Next2, Lifecycle!Next

\* The handler's set is the report; its other steps are not seen.
LEMMA HandlerGood ==
  ASSUME TypeOK, DriverInv, StatusInv, NEW c \in Handlers, CancelStep(c)
  PROVE  Good
<1> USE DEF mem, proc, disks
<1>1. CASE CancelSets(c)
  <2>1. /\ CancelOwed /\ status' = "Cancelled"
        /\ UNCHANGED <<up, running, cancelled, finishing, pc, golden>>
    BY <1>1 DEF CancelSets, CancelOwed, Assign, Drops
  <2>2. StatusInv'
    BY <2>1 DEF StatusInv, Live, InProgress
  <2>3. CancelOwed' \in BOOLEAN
    BY DEF CancelOwed
  <2>4. Lifecycle!ReportCancelled
    BY <2>1, <2>3 DEF Lifecycle!ReportCancelled, Stage, CancelOwed
  <2>5. QED  BY <2>2, <2>4 DEF Good, Next2, Lifecycle!Next
<1>2. CASE CancelDeletesVm(c) \/ CancelDeletesDisk(c) \/ CancelReadsIso(c) \/ CancelDeletesIso(c)
  <2>1. CancelOwed /\ CancelOwed'
    BY <1>2 DEF CancelOwed, TypeOK, CancelDeletesVm, CancelDeletesDisk, CancelReadsIso, CancelDeletesIso
  <2>2. UNCHANGED <<up, running, cancelled, finishing, pc, status, golden>>
    BY <1>2 DEF CancelDeletesVm, CancelDeletesDisk, DiskDeleted, CancelReadsIso, CancelDeletesIso
  <2>3. QED  BY <2>1, <2>2, Unseen
<1>3. CASE CancelPersists(c)
  <2>1. CancelOwed' <=> CancelOwed
    BY <1>3 DEF CancelOwed, TypeOK, CancelPersists
  <2>2. UNCHANGED <<up, running, cancelled, finishing, pc, status, golden>>
    BY <1>3 DEF CancelPersists
  <2>3. QED  BY <2>1, <2>2, Unseen
<1>4. QED  BY <1>1, <1>2, <1>3 DEF CancelStep

\* finishBuild: its check commits, and only then is the golden disk replaced.
LEMMA FinishGood ==
  ASSUME TypeOK, DriverInv, StatusInv, NEW b \in Builds, FinishBuild(b)
  PROVE  Good
<1> USE DEF mem, hnd, proc, disks
<1>1. /\ pc[b] \in Finishing \cup {"exited"} /\ Live(b) /\ up /\ running
      /\ \A x \in Builds : x # b => ~Live(x)
      /\ status \in InProgress \cup {"Cancelled"}
  <2>1. pc[b] \in Finishing \cup {"exited"}
    BY DEF FinishBuild, FinishBegins, FinishDeletesVm, GoldenDelete, GoldenClone, Cloned,
           Publish, At, Finishing
  <2>2. Live(b) /\ pc[b] # "ret"
    BY <2>1, LiveLabels DEF Live, LivePcs, BeforeExit, Finishing
  <2>3. QED  BY <2>1, <2>2, LiveRuns DEF StatusInv
<1>2. pc[b] \in Finishing => finishing /\ ~cancelled
  BY DEF DriverInv
<1>3. CASE FinishBegins(b)
  <2>1. /\ ~cancelled /\ finishing' /\ status' = "Pending" /\ Goto(b, "finDelete")
        /\ UNCHANGED <<up, running, cancelled, hpc, golden>>
    BY <1>3 DEF FinishBegins, Set, Assign, Drops
  <2>2. \A x \in Builds : pc'[x] # "ret" /\ pc'[x] # "publish"
    BY <1>1, <2>1, LiveLabels DEF Goto, TypeOK, Live, Finishing
  <2>3. StatusInv'
    BY <1>1, <2>1, <2>2 DEF StatusInv, CancelOwed, InProgress
  <2>4. Lifecycle!Report \/ Lifecycle!Commit
    BY <1>1, <2>1
       DEF Lifecycle!Report, Lifecycle!Commit, Lifecycle!Verdicts, Lifecycle!InProgress,
           InProgress, Stage, CancelOwed
  <2>5. QED  BY <2>3, <2>4 DEF Good, Next2, Lifecycle!Next
<1>4. CASE FinishDeletesVm(b)
  <2>1. MiddleStep(b)
    BY <1>1, <1>4 DEF FinishDeletesVm, MiddleStep, Quiet, Onward, Middle, At, LivePcs, Finishing
  <2>2. QED  BY <2>1, MiddleGood
<1>5. CASE GoldenDelete(b) \/ GoldenClone(b)
  <2>1. /\ pc[b] = "clone" /\ finishing /\ ~cancelled
        /\ UNCHANGED <<up, running, cancelled, finishing, status, hpc>>
    BY <1>2, <1>5 DEF GoldenDelete, GoldenClone, At, Finishing
  <2>2. \A x \in Builds : (Live(x)' <=> Live(x)) /\ pc'[x] # "ret" /\ pc'[x] # "publish"
    BY <1>1, <1>5, <2>1, LiveLabels
       DEF GoldenDelete, GoldenClone, Goto, TypeOK, Live, LivePcs, Finishing
  <2>3. StatusInv'
    BY <1>1, <2>1, <2>2 DEF StatusInv, CancelOwed
  <2>4. \/ golden.st \in {"Pending", "Succeeded"} /\ golden'.st = "Terminating"
        \/ golden.st = "None" /\ golden'.st = "Pending"
    BY <1>5 DEF GoldenDelete, GoldenClone, TypeOK, Dvs, NoDv
  <2>5. Lifecycle!Replace
    BY <1>1, <2>1, <2>4 DEF Lifecycle!Replace, Lifecycle!Verdicts, InProgress, Stage, CancelOwed
  <2>6. QED  BY <2>3, <2>5 DEF Good, Next2, Lifecycle!Next
<1>6. CASE Cloned(b)
  <2>1. /\ golden.st = "Succeeded" /\ Goto(b, "publish")
        /\ UNCHANGED <<up, running, cancelled, finishing, status, hpc, golden>>
    BY <1>6 DEF Cloned, CloneDone
  <2>2. \A x \in Builds : pc'[x] # "ret"
    BY <1>1, <2>1, LiveLabels DEF Goto, TypeOK, Live
  <2>3. StatusInv'
    BY <1>1, <2>1, <2>2 DEF StatusInv, CancelOwed
  <2>4. Next2
    BY <2>1 DEF Next2, Lifecycle!vars, Stage, CancelOwed
  <2>5. QED  BY <2>3, <2>4 DEF Good
<1>7. CASE Publish(b)
  <2>1. /\ pc[b] = "publish" /\ golden.st = "Succeeded" /\ finishing /\ ~cancelled
        /\ status' = "Ready" /\ Goto(b, "ret")
        /\ UNCHANGED <<up, running, cancelled, finishing, hpc, golden>>
    BY <1>2, <1>7 DEF Publish, Reported, At, Finishing, Set, Assign, Drops, MemoryOnly, StatusInv
  <2>2. \A x \in Builds : (Live(x)' => pc'[x] = "ret") /\ pc'[x] # "publish"
    BY <1>1, <2>1, LiveLabels DEF Goto, TypeOK, Live, Finishing
  <2>3. StatusInv'
    BY <1>1, <2>1, <2>2 DEF StatusInv, CancelOwed, InProgress
  <2>4. Lifecycle!Publish
    BY <1>1, <2>1 DEF Lifecycle!Publish, Lifecycle!Verdicts, InProgress, Stage, CancelOwed
  <2>5. QED  BY <2>3, <2>4 DEF Good, Next2, Lifecycle!Next
<1>8. QED  BY <1>3, <1>4, <1>5, <1>6, <1>7 DEF FinishBuild

\* done ends the build, its verdict known or awaited from a Cancel.
LEMMA DoneGood ==
  ASSUME TypeOK, DriverInv, StatusInv, NEW b \in Builds, Done(b)
  PROVE  Good
<1> USE DEF hnd, disks
<1>1. /\ pc[b] = "ret" /\ Goto(b, "done") /\ ~running' /\ ~cancelled' /\ ~finishing'
      /\ UNCHANGED <<up, status, hpc, golden>>
  BY DEF Done, At
<1>2. Live(b) /\ up /\ running /\ \A x \in Builds : x # b => ~Live(x)
  BY <1>1, LiveLabels, LiveRuns DEF Live
<1>3. \A x \in Builds : ~Live(x)' /\ pc'[x] # "ret" /\ pc'[x] # "publish"
  BY <1>1, <1>2, LiveLabels DEF Goto, TypeOK, Live, Finishing
<1>4. status \notin InProgress \/ CancelOwed
  BY <1>1 DEF StatusInv
<1>5. StatusInv'
  BY <1>1, <1>2, <1>3, <1>4 DEF StatusInv, CancelOwed
<1>6. Lifecycle!End
  BY <1>1, <1>2, <1>4
     DEF Lifecycle!End, Lifecycle!Active, Lifecycle!InProgress, InProgress, Stage, CancelOwed
<1>7. QED  BY <1>5, <1>6 DEF Good, Next2, Lifecycle!Next

\* Of the cluster's progress the copy and the end of the golden disk are seen.
LEMMA ClusterGood ==
  ASSUME TypeOK, DriverInv, StatusInv, ClusterProgress \/ Outside
  PROVE  Good
<1> USE DEF mem, proc, hnd, disks
<1>1. UNCHANGED <<up, running, cancelled, finishing, pc, status, hpc>>
  BY DEF ClusterProgress, Outside
<1>2. \/ golden' = golden
      \/ golden.st = "Pending" /\ golden'.st = "Succeeded"
      \/ golden.st = "Terminating" /\ golden'.st = "None"
  <2>1. CASE GoldenCopied
    BY <2>1 DEF GoldenCopied, TypeOK, Dvs
  <2>2. CASE DvGone
    BY <2>2 DEF DvGone, NoDv
  <2>3. QED
    BY <2>1, <2>2
       DEF ClusterProgress, Outside, IsoImported, JobPatches, InstBound, VmiCreated, VmiRuns,
           AgentConnects, GuestSeals, VmiStops, VmiGone, VmGone, PowersOffEarly, Meddles
<1>3. CASE golden' = golden
  BY <1>1, <1>3, Unseen DEF CancelOwed
<1>4. CASE golden' # golden
  <2>1. Lifecycle!Cluster
    BY <1>1, <1>2, <1>4 DEF Lifecycle!Cluster, Stage, CancelOwed
  <2>2. StatusInv'
    BY <1>1, <1>2, <1>4 DEF StatusInv, CancelOwed, Live
  <2>3. QED  BY <2>1, <2>2 DEF Good, Next2, Lifecycle!Next
<1>5. QED  BY <1>3, <1>4

-----------------------------------------------------------------------------

\* Every step of the system is good.
LEMMA EveryStepGood ==
  ASSUME TypeOK, DriverInv, StatusInv, [Next]_vars
  PROVE  Good
<1>1. CASE UNCHANGED vars
  BY <1>1, Unseen DEF vars, mem, proc, hnd, disks, CancelOwed
<1>2. ASSUME NEW b \in Builds, BuildStep(b) PROVE Good
  <2>1. CASE Persist(b)
    BY <2>1, Unseen DEF Persist, mem, hnd, disks, CancelOwed
  <2>2. QED
    BY <1>2, <2>1, PrepareMiddle, WaitMiddle, EndMiddle, MiddleGood, FinishGood, DoneGood
       DEF BuildStep
<1>3. QED
  BY <1>1, <1>2, BeginGood, SettleGood, CrashGood, AcceptGood, HandlerGood, ClusterGood
     DEF Next, Load

\* The invariant holds in every reachable state.
LEMMA StatusInvariant == Spec => []StatusInv
<1>1. Init => StatusInv
  BY LiveLabels DEF Init, StatusInv, Live, CancelOwed, InProgress, Finishing, NoDv
<1>2. TypeOK /\ DriverInv /\ StatusInv /\ [Next]_vars => StatusInv'
  BY EveryStepGood DEF Good
<1>3. QED  BY <1>1, <1>2, TypeCorrect, DriverInvariant, PTL DEF Spec

\* The goroutines, Cancel handlers, crashes, restarts and cluster of pipeline.go
\* implement the life cycle of a build: each of their steps is one of its steps
\* or leaves it alone.
THEOREM LifecycleImplemented == Spec => ImplementsLifecycle
<1>1. Init => Lifecycle!Init
  BY DEF Init, Lifecycle!Init, Stage, CancelOwed, NoDv
<1>2. TypeOK /\ DriverInv /\ StatusInv /\ [Next]_vars => [Lifecycle!Next]_(Lifecycle!vars)
  BY EveryStepGood DEF Good, Next2
<1>3. QED
  BY <1>1, <1>2, TypeCorrect, DriverInvariant, StatusInvariant, PTL
     DEF Spec, ImplementsLifecycle, Lifecycle!Spec

\* No restart, error or Cancel leaves the page polling a build nobody works on.
THEOREM NoOrphans == Spec => []NoOrphanStatus
<1>1. StatusInv => NoOrphanStatus
  BY DEF StatusInv, NoOrphanStatus, HandlersIdle, CancelOwed
<1>2. QED  BY <1>1, StatusInvariant, PTL
=============================================================================
