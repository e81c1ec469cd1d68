---------------------------- MODULE RecordProofs ----------------------------
(***************************************************************************)
(* What the builder's memory says, against what is there: what a ConfigMap *)
(* that missed records may still say, no guest of another build from the   *)
(* patch Job to the install VM, a golden disk of the recorded build behind *)
(* every Ready, and the ConfigMap behind the memory; and the install disk from its creation to its clone: the VM     *)
(* boots on a blank disk and a patched ISO, and what Ready announces was   *)
(* sealed. Some hold where the interleavings that break them are excluded  *)
(* by the bounds their theorems assume.                                    *)
(***************************************************************************)
EXTENDS BuildManagerProofs

\* The steps of one goroutine move no other, and the others are not live.
LEMMA OneMoves ==
  ASSUME TypeOK, DriverInv, NEW b \in Builds, BuildStep(b)
  PROVE  /\ \A x \in Builds : x # b => pc'[x] = pc[x]
         /\ pc' # pc => Live(b) /\ \A x \in Builds : x # b => ~Live(x)
<1>1. ASSUME EarlyMove(b) PROVE Live(b) /\ (UNCHANGED pc \/ \E l \in LivePcs : Goto(b, l))
  BY <1>1, LiveLabels DEF EarlyMove
<1>2. CASE FinishBegins(b) \/ Done(b)
  BY <1>2, LiveLabels, LiveRuns DEF FinishBegins, Done, At, Set, Goto, Live, LivePcs, BeforeExit, TypeOK
<1>3. CASE Persist(b)
  BY <1>3 DEF Persist
<1>4. CASE EarlyMove(b)
  BY <1>1, <1>4, LiveRuns DEF Goto, TypeOK
<1>5. QED
  BY <1>2, <1>3, <1>4, PrepareMoves, WaitMoves, EndMoves, FinishMoves DEF BuildStep

-----------------------------------------------------------------------------
(* Records that a goroutine told to persist, and that were lost.           *)

\* All steps of a goroutine but a persist it still owes are those of the live one.
LEMMA LiveMoves ==
  ASSUME NEW b \in Builds, BuildStep(b), ~Persist(b)
  PROVE  Live(b)
<1>1. CASE FinishBegins(b) \/ Done(b)
  BY <1>1 DEF FinishBegins, Done, At, Live, LivePcs, BeforeExit
<1>2. CASE EarlyMove(b)
  BY <1>2 DEF EarlyMove
<1>3. QED  BY <1>1, <1>2, PrepareMoves, WaitMoves, EndMoves, FinishMoves DEF BuildStep

\* The records a build has set, at least, when it comes to a step; the last of
\* them may still be owed.
Told(l) ==
  CASE l = "begin" -> 1
    [] l \in {"preflight", "drain"} -> 2
    [] l \in {"import", "isoWait"} -> 3
    [] l \in {"release", "released"} -> 4
    [] l \in {"patch", "job"} -> 5
    [] l \in {"blank", "instWait"} -> 6
    [] l \in {"vmCreate", "vmMade"} -> 7
    [] l \in {"wait", "exited"} -> 8
    [] l \in Finishing -> 9
    [] OTHER -> 0

\* Step by step.
LEMMA ToldAt ==
  /\ Told("begin") = 1 /\ Told("preflight") = 2 /\ Told("drain") = 2
  /\ Told("import") = 3 /\ Told("isoWait") = 3 /\ Told("release") = 4 /\ Told("released") = 4
  /\ Told("patch") = 5 /\ Told("job") = 5 /\ Told("blank") = 6 /\ Told("instWait") = 6
  /\ Told("vmCreate") = 7 /\ Told("vmMade") = 7 /\ Told("wait") = 8 /\ Told("exited") = 8
  /\ \A l \in Finishing : Told(l) = 9
  /\ Told("ret") = 0
BY Zenon DEF Told, Finishing

Owes(b) == IF wr[b] = NoRecord THEN 0 ELSE 1

BeforeVm == {"begin", "preflight", "drain", "import", "isoWait", "release", "released",
             "patch", "job", "blank", "instWait", "vmCreate", "vmMade"}

\* A ConfigMap that still says Ready, or that a restart could resume from, while
\* a later build goes on, has missed every record that this build has set: each
\* of these writes failed.
LostInv ==
  /\ MaxCancels = 0 => ~cancelled
  /\ \A c \in Handlers : hwr[c].st \in {"None", "Cancelled"}
  /\ \A b \in Builds :
       /\ wr[b] # NoRecord => Live(b)
       /\ wr[b].st = "Ready" => pc[b] = "ret"
       /\ canResume(wr[b].st) => pc[b] = "wait"
       /\ pc[b] = "begin" => status \in {"Pending", "Cancelled"}
  /\ cm.st = "Ready" =>
       \A b \in Builds : Live(b) /\ ~cancelled => Told(pc[b]) <= faults + Owes(b)
  /\ MaxCancels = 0 /\ canResume(cm.st) =>
       /\ up /\ ~running => 1 <= faults
       /\ \A b \in Builds : pc[b] \in BeforeVm => Told(pc[b]) + 1 <= faults + Owes(b)
       /\ \A b \in Builds : pc[b] = "ret" => 1 <= faults + Owes(b)

\* A step of a goroutine that owes nothing: it sets a record, or goes on without
\* to a step that asks for no more of them.
Writes(b) ==
  /\ wr[b] = NoRecord /\ faults' \in Nat /\ faults <= faults'
  /\ UNCHANGED <<up, running, cancelled, hwr>> /\ cm' \in {cm, NoRecord}
  /\ wr' = [wr EXCEPT ![b] = wr'[b]]
  /\ wr'[b].st = "Ready" => pc'[b] = "ret"
  /\ canResume(wr'[b].st) => pc'[b] = "wait"
  /\ Live(b)' /\ pc'[b] # "begin"
  /\ pc'[b] \in BeforeVm => pc[b] \in BeforeVm
  /\ pc'[b] = "ret" => wr'[b] # NoRecord \/ cancelled
  /\ \/ cancelled
     \/ wr'[b] # NoRecord /\ Told(pc'[b]) <= Told(pc[b]) + 1
     \/ wr' = wr /\ Told(pc'[b]) <= Told(pc[b])

\* Up to the install VM.
LEMMA PrepareWrites ==
  ASSUME TypeOK, ManagerAssumption, NEW b \in Builds, Prepare(b)
  PROVE  Writes(b)
<1> USE DEF TypeOK, ManagerAssumption, Writes, At, Set, Owed, Drops, Goto, MemoryOnly, NoRecord,
            canResume, proc, mem, hnd, bounds, Live, LivePcs, BeforeExit, Finishing, BeforeVm
<1>1. CASE RunBegins(b) \/ Drain(b) \/ IsoReady(b)
  BY <1>1, ToldAt DEF RunBegins, Drain, IsoReady
<1>2. CASE Released(b) \/ PatchSkip(b) \/ InstReady(b)
  BY <1>2, ToldAt DEF Released, PatchSkip, InstReady
<1>3. CASE Preflight(b) \/ Release(b)
  BY <1>3, ToldAt DEF Preflight, Release, DeleteGuest, Fault
<1>4. CASE ImportReuse(b) \/ ImportCreate(b) \/ ImportDelete(b)
  BY <1>4, ToldAt DEF ImportReuse, ImportCreate, ImportDelete
<1>5. CASE PatchJob(b) \/ JobWaited(b)
  BY <1>5, ToldAt DEF PatchJob, JobWaited, Fault, Annotated
<1>6. CASE BlankDelete(b) \/ BlankCreate(b)
  BY <1>6, ToldAt DEF BlankDelete, BlankCreate
<1>7. CASE VmCreate(b) \/ VmRecorded(b)
  BY <1>7, ToldAt DEF VmCreate, VmRecorded
<1>8. QED  BY <1>1, <1>2, <1>3, <1>4, <1>5, <1>6, <1>7 DEF Prepare

\* From the install VM on, and the error returns.
LEMMA LaterWrites ==
  ASSUME TypeOK, ManagerAssumption, NEW b \in Builds, BuildStep(b),
         ~Prepare(b), ~Persist(b), ~Done(b)
  PROVE  Writes(b)
<1> USE DEF TypeOK, ManagerAssumption, Writes, At, Set, Owed, Drops, Goto, MemoryOnly, NoRecord,
            canResume, proc, mem, hnd, bounds, Live, LivePcs, BeforeExit, Finishing, BeforeVm
<1>1. CASE WaitRunning(b)
  BY <1>1, ToldAt DEF WaitRunning
<1>2. CASE WaitSucceeded(b) \/ WaitStopped(b) \/ WaitMissing(b)
  BY <1>2, ToldAt DEF WaitSucceeded, WaitStopped, WaitMissing, GuestExited
<1>3. CASE FinishBegins(b) \/ FinishDeletesVm(b)
  BY <1>3, ToldAt DEF FinishBegins, FinishDeletesVm, DeleteGuest, Fault
<1>4. CASE GoldenDelete(b) \/ GoldenClone(b) \/ Cloned(b)
  BY <1>4, ToldAt DEF GoldenDelete, GoldenClone, Cloned
<1>5. CASE Publish(b)
  BY <1>5, ToldAt DEF Publish, Reported
<1>6. CASE StepFails(b)
  BY <1>6, ToldAt DEF StepFails, Fallible, Fault
<1>7. CASE Deadline(b) \/ StopSeen(b)
  BY <1>7, ToldAt DEF Deadline, Waits, StopSeen, Stops
<1>8. QED
  BY <1>1, <1>2, <1>3, <1>4, <1>5, <1>6, <1>7 DEF BuildStep, WaitVMI, FinishBuild

\* Such a step keeps the account.
LEMMA WritesKeep ==
  ASSUME TypeOK, DriverInv, LostInv, NEW b \in Builds, Writes(b), Live(b),
         \A x \in Builds : x # b => pc'[x] = pc[x] /\ ~Live(x),
         status' = status \/ pc'[b] # "begin"
  PROVE  LostInv'
<1>1. \A x \in Builds : x # b => wr'[x] = wr[x] /\ wr[x] = NoRecord /\ ~Live(x)'
  BY DEF Writes, LostInv, Live, TypeOK
<1>2. \A x \in Builds : x # b => pc'[x] \notin BeforeVm \cup {"begin", "ret"}
  BY DEF Live, LivePcs, BeforeExit, BeforeVm
<1>3. running /\ UNCHANGED <<up, running, cancelled, hwr>> /\ Live(b)' /\ pc'[b] # "begin"
  BY DEF Writes, DriverInv
<1>4. /\ wr'[b].st = "Ready" => pc'[b] = "ret"
      /\ canResume(wr'[b].st) => pc'[b] = "wait"
  BY DEF Writes
<1>5. NoRecord.st # "Ready" /\ ~canResume(NoRecord.st)
  BY DEF NoRecord, canResume
<1>6. cm' = cm \/ (cm'.st # "Ready" /\ ~canResume(cm'.st))
  BY <1>5 DEF Writes
<1>7. faults \in Nat /\ faults' \in Nat /\ faults <= faults' /\ Owes(b) = 0 /\ Owes(b)' \in {0, 1}
  BY DEF Writes, TypeOK, Owes
<1>8. wr'[b] # NoRecord => Owes(b)' = 1
  BY DEF Owes
<1>9. \A l \in LivePcs : Told(l) \in Nat
  BY ToldAt DEF LivePcs, BeforeExit
<1>10. pc[b] \in LivePcs /\ pc'[b] \in LivePcs
  BY <1>3 DEF Live
<1>11. \/ cancelled
       \/ Owes(b)' = 1 /\ Told(pc'[b]) <= Told(pc[b]) + 1
       \/ Told(pc'[b]) <= Told(pc[b])
  BY <1>8 DEF Writes
<1>12. cm'.st = "Ready" /\ ~cancelled => Told(pc'[b]) <= faults' + Owes(b)'
  BY <1>6, <1>7, <1>9, <1>10, <1>11 DEF LostInv
<1>13. MaxCancels = 0 /\ canResume(cm'.st) =>
         /\ pc'[b] \in BeforeVm => Told(pc'[b]) + 1 <= faults' + Owes(b)'
         /\ pc'[b] = "ret" => 1 <= faults' + Owes(b)'
  <2> HAVE MaxCancels = 0 /\ canResume(cm'.st)
  <2>1. ~cancelled /\ cm' = cm
    BY <1>6 DEF LostInv
  <2>2. ASSUME pc'[b] \in BeforeVm PROVE Told(pc'[b]) + 1 <= faults' + Owes(b)'
    <3>1. Told(pc[b]) + 1 <= faults + 0
      BY <1>7, <2>1, <2>2 DEF Writes, LostInv
    <3>2. QED  BY <1>7, <1>9, <1>10, <1>11, <2>1, <3>1
  <2>3. ASSUME pc'[b] = "ret" PROVE 1 <= faults' + Owes(b)'
    BY <1>7, <1>8, <2>1, <2>3 DEF Writes
  <2> QED BY <2>2, <2>3
<1>14. \A x \in Builds : wr'[x] # NoRecord => Live(x)'
  BY <1>1, <1>3
<1>15. \A x \in Builds : Live(x)' => x = b
  BY <1>1
<1> QED
  BY <1>1, <1>2, <1>3, <1>4, <1>5, <1>12, <1>13, <1>14, <1>15 DEF LostInv

\* Every step of the system keeps it.
LEMMA LostStep ==
  ASSUME ManagerAssumption, TypeOK, DriverInv, StatusInv, LostInv, [Next]_vars
  PROVE  LostInv'
<1>1. ASSUME UNCHANGED <<up, running, cancelled, hwr, wr, pc, cm>>, faults' >= faults, faults' \in Nat,
             status' \in {status, "Cancelled"}
      PROVE  LostInv'
  <2>1. \A x \in Builds : Owes(x) \in {0, 1} /\ Owes(x)' = Owes(x)
    BY <1>1 DEF Owes
  <2>2. \A l \in LivePcs : Told(l) \in Nat
    BY ToldAt DEF LivePcs, BeforeExit
  <2>3. BeforeVm \subseteq LivePcs
    BY DEF BeforeVm, LivePcs, BeforeExit
  <2> QED BY <1>1, <2>1, <2>2, <2>3 DEF LostInv, Live, TypeOK
<1>2. ASSUME NEW b \in Builds, Persist(b) PROVE LostInv'
  <2>1. Live(b) /\ running /\ up /\ \A x \in Builds : x # b => ~Live(x) /\ wr[x] = NoRecord
    BY <1>2, LiveRuns DEF Persist, LostInv
  <2>2. /\ UNCHANGED <<up, running, cancelled, hwr, pc, status>> /\ wr' = [wr EXCEPT ![b] = NoRecord]
        /\ wr'[b] = NoRecord /\ Owes(b) = 1 /\ Owes(b)' = 0
        /\ (cm' \in Marshalled(b) /\ faults' = faults) \/ (cm' = cm /\ faults' = faults + 1)
    BY <1>2 DEF Persist, Fault, mem, hnd, TypeOK, Owes
  <2>3. \A x \in Builds : Live(x)' <=> Live(x)
    BY <2>2 DEF Live
  <2>4. NoRecord.st # "Ready" /\ ~canResume(NoRecord.st)
    BY DEF NoRecord, canResume
  <2>5. \A x \in Builds : x # b => pc[x] \notin BeforeVm \cup {"ret"}
    BY <2>1 DEF Live, LivePcs, BeforeExit, BeforeVm
  <2>6. faults \in Nat /\ \A l \in LivePcs : Told(l) \in Nat
    BY ToldAt DEF LivePcs, BeforeExit, TypeOK
  <2>7. \A x \in Builds : wr'[x] = NoRecord
    BY <2>1, <2>2 DEF TypeOK
  <2>8. CASE cm' = cm /\ faults' = faults + 1
    <3>1. \A x \in Builds : Owes(x) \in {0, 1} /\ Owes(x)' = 0
      BY <2>7 DEF Owes
    <3>2. faults' + Owes(b)' = faults + Owes(b)
      BY <2>2, <2>6, <2>8
    <3>3. 1 <= faults'
      BY <2>6, <2>8
    <3> QED BY <2>1, <2>2, <2>3, <2>4, <2>5, <2>7, <2>8, <3>2, <3>3 DEF LostInv
  <2>9. CASE cm' \in Marshalled(b) /\ faults' = faults
    <3>1. cm'.st = "Ready" => pc[b] = "ret"
      BY <2>1, <2>9 DEF Marshalled, LostInv
    <3>2. canResume(cm'.st) => pc[b] = "wait"
      BY <2>1, <2>9 DEF Marshalled, LostInv, canResume
    <3>3. "wait" \notin BeforeVm \cup {"ret"}
      BY DEF BeforeVm
    <3>4. Told("ret") <= faults' + Owes(b)'
      BY <2>2, <2>6, <2>9, ToldAt
    <3> QED BY <2>1, <2>2, <2>3, <2>4, <2>5, <2>7, <3>1, <3>2, <3>3, <3>4 DEF LostInv
  <2> QED BY <2>2, <2>8, <2>9
<1>3. ASSUME NEW b \in Builds, Done(b) PROVE LostInv'
  <2>1. /\ pc[b] = "ret" /\ wr[b] = NoRecord /\ Live(b) /\ up
        /\ \A x \in Builds : x # b => ~Live(x)
    BY <1>3, LiveMoves, LiveRuns DEF Done, At, Live, LivePcs
  <2>2. /\ UNCHANGED <<up, status, wr, cm, hwr, faults>> /\ ~cancelled' /\ ~running'
        /\ pc' = [pc EXCEPT ![b] = "done"]
    BY <1>3 DEF Done, Goto, hnd, bounds
  <2>3. \A x \in Builds : ~Live(x)' /\ wr[x] = NoRecord
    BY <2>1, <2>2 DEF Live, LostInv, TypeOK, LivePcs, BeforeExit, Finishing
  <2>4. \A x \in Builds : pc'[x] \notin BeforeVm \cup {"ret", "begin"}
    BY <2>3 DEF Live, LivePcs, BeforeExit, BeforeVm
  <2>5. MaxCancels = 0 /\ canResume(cm.st) => 1 <= faults
    BY <2>1 DEF LostInv, Owes, TypeOK
  <2>6. NoRecord.st # "Ready" /\ ~canResume(NoRecord.st)
    BY DEF NoRecord, canResume
  <2> QED BY <2>2, <2>3, <2>4, <2>5, <2>6 DEF LostInv
<1>4. ASSUME NEW b \in Builds, BuildStep(b), ~Persist(b), ~Done(b) PROVE LostInv'
  <2>1. Live(b) /\ \A x \in Builds : x # b => pc'[x] = pc[x] /\ ~Live(x)
    BY <1>4, LiveMoves, LiveRuns, OneMoves
  <2>2. Writes(b)
    BY <1>4, PrepareWrites, LaterWrites
  <2> QED BY <2>1, <2>2, WritesKeep DEF Writes
<1>5. ASSUME NEW b \in Builds, Start(b) PROVE LostInv'
  <2>1. up /\ ~running /\ \A x \in Builds : ~Live(x)
    BY <1>5 DEF DriverInv, Start, MayStart
  <2>2. /\ wr' = [wr EXCEPT ![b] = [st |-> "Pending", vm |-> 0]] /\ pc' = [pc EXCEPT ![b] = "begin"]
        /\ UNCHANGED <<up, cancelled, hwr, cm, faults>> /\ status' = "Pending" /\ running'
    BY <1>5 DEF Start, MarkRunning, Goto, hnd, bounds
  <2>3. /\ wr'[b].st = "Pending" /\ wr'[b] # NoRecord /\ pc'[b] = "begin" /\ Owes(b)' = 1
        /\ Live(b)'
    BY <2>2 DEF TypeOK, NoRecord, Owes, Live, LivePcs, BeforeExit
  <2>4. \A x \in Builds : x # b =>
          /\ wr'[x] = NoRecord /\ ~Live(x)' /\ pc'[x] \notin BeforeVm \cup {"ret", "begin"}
    BY <2>1, <2>2 DEF LostInv, Live, LivePcs, BeforeExit, BeforeVm, TypeOK
  <2>5. NoRecord.st # "Ready" /\ ~canResume(NoRecord.st) /\ ~canResume("Pending")
    BY DEF NoRecord, canResume
  <2>6. faults \in Nat
    BY DEF TypeOK
  <2>7. cm.st = "Ready" => Told("begin") <= faults + 1
    BY <2>6, ToldAt
  <2>8. MaxCancels = 0 /\ canResume(cm.st) => Told("begin") + 1 <= faults + 1
    BY <2>1, <2>6, ToldAt DEF LostInv
  <2> QED BY <2>2, <2>3, <2>4, <2>5, <2>7, <2>8 DEF LostInv
<1>6. ASSUME NEW b \in Builds, LoadResumes(b) PROVE LostInv'
  <2>1. \A x \in Builds : ~Live(x)
    BY <1>6 DEF DriverInv, LoadResumes
  <2>2. /\ UNCHANGED <<cancelled, wr, hwr, cm, faults>> /\ running' /\ canResume(cm.st)
        /\ pc' = [pc EXCEPT ![b] = "wait"]
    BY <1>6 DEF LoadResumes, MarkRunning, Goto, hnd, bounds
  <2>3. \A x \in Builds :
          pc'[x] \notin BeforeVm \cup {"ret", "begin"} /\ wr[x] = NoRecord
    BY <2>1, <2>2 DEF LostInv, Live, LivePcs, BeforeExit, BeforeVm, TypeOK
  <2>4. NoRecord.st # "Ready" /\ ~canResume(NoRecord.st) /\ cm.st # "Ready"
    BY <2>2 DEF NoRecord, canResume
  <2> QED BY <2>2, <2>3, <2>4 DEF LostInv
<1>7. CASE LoadSettles \/ LoadFails
  <2>1. \A x \in Builds : ~Live(x) /\ wr[x] = NoRecord
    BY <1>7 DEF DriverInv, LoadSettles, LoadFails, LostInv
  <2>2. UNCHANGED <<cancelled, wr, hwr, pc>>
    BY <1>7 DEF LoadSettles, LoadFails, proc, hnd
  <2>3. ~canResume(cm'.st) \/ 1 <= faults'
    BY <1>7 DEF LoadSettles, LoadFails, Fault, TypeOK, Records, Abandoned, canResume, InProgress
  <2>4. \A x \in Builds :
          ~Live(x)' /\ pc'[x] \notin BeforeVm \cup {"ret", "begin"} /\ wr'[x] = NoRecord
    BY <2>1, <2>2 DEF Live, LivePcs, BeforeExit, BeforeVm
  <2>5. NoRecord.st # "Ready" /\ ~canResume(NoRecord.st)
    BY DEF NoRecord, canResume
  <2> QED BY <2>2, <2>3, <2>4, <2>5 DEF LostInv
<1>8. CASE Crash
  <2>1. /\ ~up' /\ ~cancelled' /\ \A x \in Builds : wr'[x] = NoRecord /\ ~Live(x)'
        /\ \A c \in Handlers : hwr'[c] = NoRecord
    BY <1>8, LiveLabels DEF Crash, Live
  <2>2. \A x \in Builds : pc'[x] \notin BeforeVm \cup {"ret", "begin"}
    BY <2>1 DEF Live, LivePcs, BeforeExit, BeforeVm
  <2>3. NoRecord.st = "None" /\ ~canResume(NoRecord.st)
    BY DEF NoRecord, canResume
  <2> QED BY <2>1, <2>2, <2>3 DEF LostInv
<1>9. ASSUME NEW c \in Handlers, CancelAccepted(c) PROVE LostInv'
  <2>1. MaxCancels # 0
    BY DEF Handlers
  <2>2. UNCHANGED <<status, wr, pc, cm, hwr, faults>> /\ cancelled'
    BY <1>9 DEF CancelAccepted, proc, bounds
  <2> QED BY <2>1, <2>2 DEF LostInv, Live
<1>10. ASSUME NEW c \in Handlers, CancelStep(c) PROVE LostInv'
  <2>1. CASE CancelSets(c)
    <3>1. MaxCancels # 0
      BY DEF Handlers
    <3>2. /\ UNCHANGED <<cancelled, wr, pc, cm, faults>> /\ status' = "Cancelled"
          /\ \A d \in Handlers : hwr'[d].st \in {hwr[d].st, "Cancelled"}
      BY <2>1 DEF CancelSets, Assign, Owed, Drops, proc, bounds, TypeOK
    <3>3. \A x \in Builds : Owes(x)' = Owes(x) /\ (Live(x)' <=> Live(x))
      BY <3>2 DEF Owes, Live
    <3> QED BY <3>1, <3>2, <3>3 DEF LostInv
  <2>2. CASE CancelPersists(c)
    <3>1. MaxCancels # 0
      BY DEF Handlers
    <3>2. /\ UNCHANGED <<cancelled, wr, pc, status>> /\ faults' \in {faults, faults + 1}
          /\ cm' = cm \/ cm' = hwr[c]
          /\ hwr' = [hwr EXCEPT ![c] = NoRecord]
      BY <2>2 DEF CancelPersists, Fault, mem, proc
    <3>3. \A x \in Builds : Owes(x)' = Owes(x) /\ (Live(x)' <=> Live(x)) /\ Owes(x) \in {0, 1}
      BY <3>2 DEF Owes, Live
    <3>4. hwr[c].st # "Ready" /\ NoRecord.st = "None"
      BY DEF LostInv, NoRecord
    <3>5. \A d \in Handlers : hwr'[d].st \in {"None", "Cancelled"}
      BY <3>2, <3>4 DEF LostInv, TypeOK
    <3>6. faults \in Nat /\ \A l \in LivePcs : Told(l) \in Nat
      BY ToldAt DEF LivePcs, BeforeExit, TypeOK
    <3>7. cm'.st = "Ready" =>
            \A x \in Builds : Live(x)' /\ ~cancelled => Told(pc'[x]) <= faults' + Owes(x)'
      BY <3>2, <3>3, <3>4, <3>6 DEF LostInv, Live
    <3> QED BY <3>1, <3>2, <3>3, <3>5, <3>7 DEF LostInv
  <2>3. CASE ~CancelSets(c) /\ ~CancelPersists(c)
    <3>1. /\ UNCHANGED <<up, running, cancelled, hwr, wr, pc, cm, status>>
          /\ faults' \in {faults, faults + 1}
      BY <1>10, <2>3 DEF CancelStep, CancelDeletesVm, DeleteGuest, CancelDeletesDisk, CancelReadsIso,
                         CancelDeletesIso, Fault, mem, proc, hnd, bounds
    <3> QED BY <1>1, <3>1 DEF TypeOK
  <2> QED BY <2>1, <2>2, <2>3
<1>11. CASE ClusterProgress \/ Outside
  BY <1>1, <1>11 DEF ClusterProgress, Outside, PowersOffEarly, Meddles, Fault, mem, proc, hnd, TypeOK
<1>12. CASE UNCHANGED vars
  BY <1>1, <1>12 DEF vars, mem, proc, hnd, bounds, TypeOK
<1>13. QED
  BY <1>2, <1>3, <1>4, <1>5, <1>6, <1>7, <1>8, <1>9, <1>10, <1>11, <1>12 DEF Next, Load

\* So it holds in every reachable state.
LEMMA LostInvariant == Spec => []LostInv
<1>1. Init => LostInv
  BY DEF Init, LostInv, NoRecord, canResume, Live, LivePcs, BeforeExit, Finishing
<1>2. TypeOK /\ DriverInv /\ StatusInv /\ LostInv /\ [Next]_vars => LostInv'
  BY ManagerAssumption, LostStep
<1>3. QED  BY <1>1, <1>2, TypeCorrect, DriverInvariant, StatusInvariant, PTL DEF Spec

-----------------------------------------------------------------------------
(* No guest of another build.                                              *)

Guestless == {"patch", "job", "blank", "instWait", "vmCreate"}

\* A goroutine comes to these steps from Released, which saw no guest, and its
\* steps there leave the guest alone.
LEMMA GuestlessSteps ==
  ASSUME TypeOK, DriverInv, NEW b \in Builds, BuildStep(b)
  PROVE  /\ pc'[b] \in Guestless => (pc[b] \in Guestless \/ NoGuest) /\ UNCHANGED guest
         /\ NoGuest => NoGuest' \/ pc'[b] = "vmMade"
<1> USE DEF TypeOK, Guestless, At, Set, Goto, MemoryOnly, guest, NoGuest, proc, mem
<1>1. CASE Prepare(b)
  <2>1. CASE RunBegins(b) \/ Drain(b) \/ IsoReady(b) \/ PatchSkip(b) \/ InstReady(b)
    BY <2>1 DEF RunBegins, Drain, IsoReady, PatchSkip, InstReady
  <2>2. CASE Released(b)
    BY <2>2 DEF Released, GuestReleased
  <2>3. CASE Preflight(b) \/ Release(b)
    BY <2>3 DEF Preflight, Release, DeleteGuest
  <2>4. CASE ImportReuse(b) \/ ImportCreate(b) \/ ImportDelete(b) \/ BlankDelete(b)
    BY <2>4 DEF ImportReuse, ImportCreate, ImportDelete, BlankDelete
  <2>5. CASE PatchJob(b) \/ JobWaited(b) \/ BlankCreate(b)
    BY <2>5 DEF PatchJob, JobWaited, BlankCreate
  <2>6. CASE VmCreate(b) \/ VmRecorded(b)
    BY <2>6 DEF VmCreate, VmRecorded
  <2>7. QED  BY <1>1, <2>1, <2>2, <2>3, <2>4, <2>5, <2>6 DEF Prepare
<1>2. CASE WaitVMI(b)
  BY <1>2 DEF WaitVMI, WaitRunning, WaitSucceeded, WaitStopped, WaitMissing, GuestExited
<1>3. CASE FinishBuild(b)
  BY <1>3 DEF FinishBuild, FinishBegins, FinishDeletesVm, DeleteGuest, GoldenDelete, GoldenClone,
              Cloned, Publish
<1>4. CASE StepFails(b) \/ Deadline(b) \/ StopSeen(b) \/ Done(b) \/ Persist(b)
  BY <1>4 DEF StepFails, Deadline, StopSeen, Done, Persist
<1>5. QED  BY <1>1, <1>2, <1>3, <1>4 DEF BuildStep

\* Without a VM the cluster starts no instance.
LEMMA ClusterStartsNone ==
  ASSUME NoGuest, ClusterProgress \/ Outside
  PROVE  NoGuest'
BY DEF NoGuest, guest, ClusterProgress, Outside, IsoImported, JobPatches, InstBound, GoldenCopied,
       DvGone, VmiCreated, VmiRuns, AgentConnects, GuestSeals, VmiStops, VmiGone, VmGone,
       PowersOffEarly, Meddles

\* Every step of the system keeps guests away from these steps.
LEMMA GuestStep ==
  ASSUME TypeOK, DriverInv, NoForeignGuest, [Next]_vars
  PROVE  NoForeignGuest'
<1> USE DEF NoForeignGuest
<1>1. Guestless = {"patch", "job", "blank", "instWait", "vmCreate"} /\ Guestless \subseteq LivePcs
  BY DEF Guestless, LivePcs, BeforeExit
<1>2. ASSUME UNCHANGED pc, NoGuest => NoGuest' PROVE NoForeignGuest'
  BY <1>2
<1>3. ASSUME \A x \in Builds : pc'[x] \notin Guestless PROVE NoForeignGuest'
  BY <1>1, <1>3
<1>4. ASSUME NEW b \in Builds, BuildStep(b) PROVE NoForeignGuest'
  <2>1. CASE pc' = pc
    <3>1. NoGuest /\ pc[b] = "vmMade" => \A x \in Builds : pc[x] \notin Guestless
      BY <1>1 DEF DriverInv, Live, Guestless, LivePcs, BeforeExit
    <3>2. QED  BY <1>2, <1>3, <1>4, <2>1, <3>1, GuestlessSteps
  <2>2. CASE pc' # pc
    <3>1. \A x \in Builds : x # b => pc'[x] \notin Guestless
      BY <1>1, <1>4, <2>2, OneMoves DEF Live
    <3>2. pc'[b] \in Guestless => NoGuest'
      BY <1>1, <1>4, GuestlessSteps DEF NoGuest, guest
    <3>3. QED  BY <1>1, <3>1, <3>2
  <2>3. QED  BY <2>1, <2>2
<1>5. ASSUME NEW b \in Builds, Start(b) \/ LoadResumes(b) PROVE NoForeignGuest'
  <2>1. \A x \in Builds : ~Live(x)
    BY <1>5 DEF DriverInv, Start, MayStart, LoadResumes
  <2>2. \E l \in {"begin", "wait"} : Goto(b, l)
    BY <1>5 DEF Start, LoadResumes
  <2>3. \A x \in Builds : pc'[x] \notin Guestless
    BY <1>1, <2>1, <2>2 DEF TypeOK, Goto, Live, Guestless
  <2>4. QED  BY <1>3, <2>3
<1>6. ASSUME NEW c \in Handlers, CancelAccepted(c) \/ CancelStep(c) PROVE NoForeignGuest'
  <2>1. UNCHANGED pc /\ (NoGuest => NoGuest')
    BY <1>6 DEF CancelAccepted, CancelStep, CancelDeletesVm, DeleteGuest, CancelDeletesDisk,
                CancelReadsIso, CancelDeletesIso, CancelSets, CancelPersists, NoGuest, guest, proc
  <2>2. QED  BY <1>2, <2>1
<1>7. CASE Crash
  BY <1>1, <1>3, <1>7, LiveLabels DEF Crash, Live
<1>8. CASE LoadSettles \/ LoadFails \/ UNCHANGED vars
  BY <1>2, <1>8 DEF LoadSettles, LoadFails, vars, NoGuest, guest, proc
<1>9. CASE ClusterProgress \/ Outside
  <2>1. UNCHANGED pc
    BY <1>9 DEF ClusterProgress, Outside, proc
  <2>2. QED  BY <1>2, <1>9, <2>1, ClusterStartsNone
<1>10. QED  BY <1>4, <1>5, <1>6, <1>7, <1>8, <1>9 DEF Next, Load

\* preflightCleanup and deleteInstallVM leave no guest of an earlier build to
\* read the ISO that is patched or to write the new install disk.
THEOREM NoGuestLeft == Spec => []NoForeignGuest
<1>1. Init => NoForeignGuest
  BY DEF Init, NoForeignGuest
<1>2. QED  BY <1>1, GuestStep, TypeCorrect, DriverInvariant, PTL DEF Spec

-----------------------------------------------------------------------------
(* Behind Ready: the clone of this build's install disk.                   *)

AfterVm == {"wait", "exited", "finDelete", "clone", "cloneWait", "publish"}
Cloning == {"cloneWait", "publish"}

\* A record that says Ready has its clone.
RecordCloned(r) == r.st = "Ready" => golden.st = "Succeeded" /\ golden.by = r.vm

\* From the record of the VM on the goroutine and the record name the same VM,
\* and the golden disk being cloned is named after it; and what a restart would
\* report as Ready has its clone, too.
ClonedInv ==
  /\ MaxCrashes = 0 => up
  /\ \A b \in Builds : pc[b] \in AfterVm => since[b] = vmAt
  /\ \A b \in Builds : pc[b] \in Cloning =>
       golden.by = since[b] /\ golden.st \in {"Pending", "Succeeded"}
  /\ ReadyMeansCloned
  /\ MaxCrashes # 0 => RecordCloned(cm) /\ \A b \in Builds : RecordCloned(wr[b])

\* What one goroutine's step does to these names and to the golden disk.
Names(b) ==
  /\ pc'[b] \in AfterVm => since'[b] = vmAt'
  /\ pc'[b] \in Cloning => golden'.by = since'[b] /\ golden'.st \in {"Pending", "Succeeded"}
  /\ ReadyMeansCloned'

\* Up to the install VM: the record learns the VM's time stamp.
LEMMA PrepareNames ==
  ASSUME TypeOK, StatusInv, ClonedInv, NEW b \in Builds, Live(b), Prepare(b)
  PROVE  Names(b)
<1> USE DEF TypeOK, Names, ClonedInv, ReadyMeansCloned, AfterVm, Cloning, At, Set, Assign, Goto,
            MemoryOnly, proc, mem, disks, InProgress
<1>1. pc[b] # "ret" => status # "Ready"
  BY DEF StatusInv
<1>2. CASE RunBegins(b) \/ Drain(b) \/ IsoReady(b) \/ Released(b) \/ PatchSkip(b) \/ InstReady(b)
  BY <1>1, <1>2 DEF RunBegins, Drain, IsoReady, Released, PatchSkip, InstReady
<1>3. CASE Preflight(b) \/ ImportReuse(b) \/ ImportCreate(b) \/ Release(b)
  BY <1>1, <1>3 DEF Preflight, ImportReuse, ImportCreate, Release
<1>4. CASE ImportDelete(b) \/ BlankDelete(b)
  BY <1>1, <1>4 DEF ImportDelete, BlankDelete
<1>5. CASE PatchJob(b) \/ JobWaited(b) \/ BlankCreate(b)
  BY <1>1, <1>5 DEF PatchJob, JobWaited, BlankCreate
<1>6. CASE VmCreate(b) \/ VmRecorded(b)
  BY <1>1, <1>6 DEF VmCreate, VmRecorded
<1>7. QED  BY <1>2, <1>3, <1>4, <1>5, <1>6 DEF Prepare

\* From the install VM on: only finishBuild touches the golden disk.
LEMMA LaterNames ==
  ASSUME TypeOK, StatusInv, ClonedInv, NEW b \in Builds, Live(b), BuildStep(b),
         ~Prepare(b), ~Persist(b)
  PROVE  Names(b)
<1> USE DEF TypeOK, Names, ClonedInv, ReadyMeansCloned, AfterVm, Cloning, At, Set, Assign, Goto,
            MemoryOnly, proc, mem, disks, InProgress
<1>1. pc[b] # "ret" => status # "Ready"
  BY DEF StatusInv
<1>2. CASE WaitVMI(b)
  BY <1>1, <1>2 DEF WaitVMI, WaitRunning, WaitSucceeded, WaitStopped, WaitMissing, GuestExited
<1>3. CASE FinishBegins(b) \/ FinishDeletesVm(b) \/ Cloned(b)
  BY <1>1, <1>3 DEF FinishBegins, FinishDeletesVm, Cloned, CloneDone
<1>4. CASE GoldenDelete(b) \/ GoldenClone(b)
  <2>1. status' # "Ready" /\ pc[b] = "clone"
    BY <1>1, <1>4 DEF GoldenDelete, GoldenClone
  <2>2. CASE GoldenDelete(b)
    BY <2>1, <2>2 DEF GoldenDelete
  <2>3. CASE GoldenClone(b)
    BY <2>1, <2>3 DEF GoldenClone, NoDv
  <2>4. QED  BY <1>4, <2>2, <2>3
<1>5. CASE Publish(b)
  BY <1>1, <1>5 DEF Publish, Reported, StatusInv
<1>6. CASE StepFails(b) \/ Deadline(b) \/ StopSeen(b)
  BY <1>1, <1>6 DEF StepFails, Deadline, StopSeen
<1>7. CASE Done(b)
  BY <1>7 DEF Done
<1>8. QED  BY <1>2, <1>3, <1>4, <1>5, <1>6, <1>7 DEF BuildStep, FinishBuild

\* A build that replaces the golden disk has set nine records or more: with no
\* more than eight failed calls one of them has replaced the Ready of the build
\* before in the ConfigMap.
LEMMA ReadyOverwritten ==
  ASSUME MaxFaults <= 8, ManagerAssumption, TypeOK, DriverInv, LostInv,
         NEW b \in Builds, pc[b] = "clone", wr[b] = NoRecord
  PROVE  cm.st # "Ready"
<1>1. Live(b) /\ ~cancelled /\ Told(pc[b]) = 9 /\ Owes(b) = 0
  BY ToldAt DEF DriverInv, Live, LivePcs, Finishing, Owes
<1>2. faults \in Nat /\ faults <= 8
  BY DEF TypeOK, ManagerAssumption
<1>3. QED  BY <1>1, <1>2 DEF LostInv

\* Beside the live goroutine nobody owes a record.
LEMMA OthersOweNothing ==
  ASSUME ManagerAssumption, TypeOK, LostInv, NEW b \in Builds, BuildStep(b), ~Persist(b),
         \A x \in Builds : x # b => ~Live(x)
  PROVE  \A x \in Builds : x # b => wr'[x] = NoRecord
<1>1. CASE Done(b)
  BY <1>1 DEF Done, LostInv
<1>2. CASE ~Done(b)
  BY <1>2, PrepareWrites, LaterWrites DEF Writes, LostInv, TypeOK
<1>3. QED  BY <1>1, <1>2

\* So what a step leaves for a restart to report has its clone.
LEMMA RecordNames ==
  ASSUME MaxFaults <= 8, MaxCrashes # 0, ManagerAssumption, TypeOK, DriverInv, StatusInv,
         LostInv, ClonedInv, NEW b \in Builds, Live(b), BuildStep(b), ~Persist(b)
  PROVE  RecordCloned(cm)' /\ RecordCloned(wr[b])'
<1> USE DEF RecordCloned
<1>1. NoRecord.st # "Ready"
  BY DEF NoRecord
<1>2. CASE GoldenDelete(b) \/ GoldenClone(b)
  <2>1. pc[b] = "clone" /\ wr[b] = NoRecord /\ cm' = cm /\ wr' = wr
    BY <1>2 DEF GoldenDelete, GoldenClone, At, proc
  <2>2. QED  BY <1>1, <2>1, ReadyOverwritten
<1>3. CASE Publish(b)
  <2>1. golden.st = "Succeeded" /\ golden.by = vmAt
    BY <1>3 DEF Publish, At, StatusInv, ClonedInv, AfterVm, Cloning
  <2>2. golden' = golden /\ cm' = cm /\ wr'[b] \in {NoRecord, [st |-> "Ready", vm |-> vmAt]}
    BY <1>3 DEF Publish, Set, Owed, Reported, MemoryOnly, disks, TypeOK
  <2>3. QED  BY <1>1, <2>1, <2>2 DEF ClonedInv
<1>4. CASE Done(b)
  BY <1>4 DEF Done, ClonedInv, disks
<1>5. CASE Prepare(b)
  <2>1. golden' = golden /\ cm' \in {cm, NoRecord} /\ wr'[b].st # "Ready"
    <3> USE DEF TypeOK, At, Set, Owed, Goto, MemoryOnly, proc, mem, disks
    <3>1. CASE RunBegins(b) \/ Drain(b) \/ IsoReady(b) \/ Released(b) \/ PatchSkip(b) \/ InstReady(b)
      BY <1>1, <3>1 DEF RunBegins, Drain, IsoReady, Released, PatchSkip, InstReady
    <3>2. CASE Preflight(b) \/ ImportReuse(b) \/ ImportCreate(b) \/ Release(b)
      BY <1>1, <3>2 DEF Preflight, ImportReuse, ImportCreate, Release
    <3>3. CASE ImportDelete(b) \/ BlankDelete(b)
      BY <1>1, <3>3 DEF ImportDelete, BlankDelete
    <3>4. CASE PatchJob(b) \/ JobWaited(b) \/ BlankCreate(b)
      BY <1>1, <3>4 DEF PatchJob, JobWaited, BlankCreate
    <3>5. CASE VmCreate(b) \/ VmRecorded(b)
      BY <1>1, <3>5 DEF VmCreate, VmRecorded
    <3>6. QED  BY <1>5, <3>1, <3>2, <3>3, <3>4, <3>5 DEF Prepare
  <2>2. QED  BY <1>1, <2>1 DEF ClonedInv
<1>6. ASSUME golden' = golden, cm' = cm, wr'[b].st # "Ready"
      PROVE  RecordCloned(cm)' /\ RecordCloned(wr[b])'
  BY <1>6 DEF ClonedInv
<1>7. CASE WaitVMI(b) \/ StepFails(b) \/ Deadline(b) \/ StopSeen(b)
  BY <1>1, <1>6, <1>7
     DEF WaitVMI, WaitRunning, WaitSucceeded, WaitStopped, WaitMissing, GuestExited, StepFails,
         Deadline, StopSeen, TypeOK, At, Set, Owed, MemoryOnly, disks
<1>8. CASE FinishBegins(b) \/ FinishDeletesVm(b) \/ Cloned(b)
  BY <1>1, <1>6, <1>8 DEF FinishBegins, FinishDeletesVm, Cloned, TypeOK, At, Set, Owed, disks
<1>9. QED
  BY <1>2, <1>3, <1>4, <1>5, <1>7, <1>8 DEF BuildStep, FinishBuild

\* Every step keeps the invariant: of a builder that does not crash, or of one
\* that crashes, with few enough failed calls.
LEMMA ClonedStep ==
  ASSUME MaxCrashes = 0 \/ MaxFaults <= 8, ManagerAssumption,
         TypeOK, DriverInv, StatusInv, LostInv, ClonedInv, [Next]_vars
  PROVE  ClonedInv'
<1>1. ASSUME UNCHANGED <<up, pc, since, vmAt, status, golden, cm, wr>> PROVE ClonedInv'
  BY <1>1 DEF ClonedInv, ReadyMeansCloned, RecordCloned
<1>2. ASSUME NEW b \in Builds, BuildStep(b), ~Persist(b) PROVE ClonedInv'
  <2>1. Live(b) /\ \A x \in Builds : x # b => pc'[x] = pc[x] /\ ~Live(x)
    BY <1>2, LiveMoves, LiveRuns, OneMoves
  <2>2. Names(b)
    BY <1>2, <2>1, PrepareNames, LaterNames
  <2>3. up' = up
    <3>1. CASE EarlyMove(b)
      BY <3>1 DEF EarlyMove
    <3>2. CASE FinishBegins(b) \/ Done(b)
      BY <3>2 DEF FinishBegins, Done
    <3>3. QED  BY <1>2, <3>1, <3>2, PrepareMoves, WaitMoves, EndMoves, FinishMoves DEF BuildStep
  <2>4. \A x \in Builds : x # b => pc'[x] \notin AfterVm /\ pc'[x] \notin Cloning
    BY <2>1 DEF Live, LivePcs, BeforeExit, Finishing, AfterVm, Cloning
  <2>5. ASSUME MaxCrashes # 0 PROVE RecordCloned(cm)' /\ \A x \in Builds : RecordCloned(wr[x])'
    <3>1. RecordCloned(cm)' /\ RecordCloned(wr[b])'
      BY <1>2, <2>1, <2>5, RecordNames
    <3>2. \A x \in Builds : x # b => wr'[x] = NoRecord
      BY <1>2, <2>1, OthersOweNothing
    <3>3. QED  BY <3>1, <3>2 DEF RecordCloned, NoRecord
  <2>6. QED  BY <2>2, <2>3, <2>4, <2>5 DEF Names, ClonedInv
<1>3. ASSUME NEW b \in Builds, Persist(b) PROVE ClonedInv'
  <2>1. UNCHANGED <<up, pc, since, vmAt, status, golden>>
    BY <1>3 DEF Persist, mem, proc, disks
  <2>2. cm' \in Marshalled(b) \cup {cm} /\ wr' = [wr EXCEPT ![b] = NoRecord]
    BY <1>3 DEF Persist, Fault
  <2>3. ASSUME MaxCrashes # 0 PROVE RecordCloned(cm)' /\ \A x \in Builds : RecordCloned(wr[x])'
    BY <2>1, <2>2, <2>3 DEF Marshalled, ClonedInv, RecordCloned, LostInv, NoRecord, TypeOK
  <2>4. QED  BY <2>1, <2>3 DEF ClonedInv, ReadyMeansCloned
<1>4. ASSUME NEW b \in Builds, Start(b) PROVE ClonedInv'
  <2>1. \A x \in Builds : ~Live(x)
    BY <1>4 DEF DriverInv, Start, MayStart
  <2>2. \A x \in Builds : pc'[x] \notin AfterVm /\ pc'[x] \notin Cloning
    BY <1>4, <2>1 DEF Start, TypeOK, Goto, Live, LivePcs, BeforeExit, Finishing, AfterVm, Cloning
  <2>3. ASSUME MaxCrashes # 0 PROVE RecordCloned(cm)' /\ \A x \in Builds : RecordCloned(wr[x])'
    BY <1>4, <2>3 DEF Start, ClonedInv, RecordCloned, TypeOK, disks
  <2>4. QED  BY <1>4, <2>2, <2>3 DEF Start, ClonedInv, ReadyMeansCloned
<1>5. ASSUME NEW c \in Handlers, CancelAccepted(c) \/ CancelStep(c) PROVE ClonedInv'
  <2>1. UNCHANGED <<up, pc, since, vmAt, golden, wr>> /\ status' \in {status, "Cancelled"}
    BY <1>5 DEF CancelAccepted, CancelStep, CancelDeletesVm, CancelDeletesDisk, DiskDeleted,
                CancelReadsIso, CancelDeletesIso, CancelSets, Assign, CancelPersists, mem, proc, disks
  <2>2. cm' = cm \/ cm' = hwr[c]
    BY <1>5 DEF CancelAccepted, CancelStep, CancelDeletesVm, CancelDeletesDisk,
                CancelReadsIso, CancelDeletesIso, CancelSets, CancelPersists, Fault
  <2>3. hwr[c].st # "Ready"
    BY DEF LostInv
  <2>4. QED  BY <2>1, <2>2, <2>3 DEF ClonedInv, ReadyMeansCloned, RecordCloned
<1>6. CASE Crash
  <2>1. MaxCrashes # 0
    BY <1>6 DEF Crash, TypeOK, ManagerAssumption
  <2>2. \A x \in Builds : pc'[x] \notin AfterVm /\ pc'[x] \notin Cloning
    BY <1>6, LiveLabels DEF Crash, Live, LivePcs, BeforeExit, Finishing, AfterVm, Cloning
  <2>3. status' = "None" /\ UNCHANGED <<golden, cm>> /\ \A x \in Builds : wr'[x] = NoRecord
    BY <1>6 DEF Crash, disks
  <2>4. QED  BY <2>1, <2>2, <2>3 DEF ClonedInv, ReadyMeansCloned, RecordCloned, NoRecord
<1>7. CASE Load
  <2>1. ~up /\ up' /\ MaxCrashes # 0 /\ \A x \in Builds : ~Live(x)
    BY <1>7 DEF Load, LoadResumes, LoadSettles, LoadFails, ClonedInv, DriverInv
  <2>2. \A x \in Builds : pc[x] \notin AfterVm /\ pc[x] \notin Cloning
    BY <2>1 DEF Live, LivePcs, BeforeExit, Finishing, AfterVm, Cloning
  <2>3. UNCHANGED <<golden, wr>>
    BY <1>7 DEF Load, LoadResumes, LoadSettles, LoadFails, proc, disks
  <2>4. CASE \E b \in Builds : LoadResumes(b)
    <3>1. PICK b \in Builds : LoadResumes(b)
      BY <2>4
    <3>2. /\ cm' = cm /\ canResume(cm.st) /\ status' = cm.st /\ vmAt' = cm.vm
          /\ pc' = [pc EXCEPT ![b] = "wait"] /\ since' = [since EXCEPT ![b] = cm.vm]
      BY <3>1 DEF LoadResumes, Goto
    <3>3. /\ \A x \in Builds : pc'[x] \in AfterVm => x = b
          /\ \A x \in Builds : pc'[x] \notin Cloning
          /\ since'[b] = vmAt' /\ status' # "Ready"
      BY <2>2, <3>2 DEF TypeOK, Cloning, canResume
    <3>4. QED  BY <2>1, <2>3, <3>2, <3>3 DEF ClonedInv, ReadyMeansCloned, RecordCloned
  <2>5. CASE LoadSettles
    BY <2>1, <2>2, <2>3, <2>5
       DEF LoadSettles, Abandoned, InProgress, ClonedInv, ReadyMeansCloned, RecordCloned, proc,
           TypeOK, Records
  <2>6. CASE LoadFails
    BY <2>1, <2>2, <2>3, <2>6
       DEF LoadFails, ClonedInv, ReadyMeansCloned, RecordCloned, proc, StatusInv
  <2>7. QED  BY <1>7, <2>4, <2>5, <2>6 DEF Load
<1>8. CASE ClusterProgress \/ Outside
  <2>1. UNCHANGED <<up, pc, since, vmAt, status, cm, wr>>
    BY <1>8 DEF ClusterProgress, Outside, mem, proc
  <2>2. CASE golden' = golden
    BY <1>1, <2>1, <2>2
  <2>3. CASE golden' # golden
    <3>1. \/ golden.st = "Pending" /\ golden' = [golden EXCEPT !.st = "Succeeded", !.data = inst.data]
          \/ golden.st = "Terminating"
      BY <1>8, <2>3
         DEF ClusterProgress, Outside, IsoImported, JobPatches, InstBound, GoldenCopied, DvGone,
             VmiCreated, VmiRuns, AgentConnects, GuestSeals, VmiStops, VmiGone, VmGone,
             PowersOffEarly, Meddles, disks
    <3>2. CASE golden.st = "Terminating"
      BY <2>1, <3>2 DEF ClonedInv, ReadyMeansCloned, RecordCloned
    <3>3. CASE golden.st = "Pending"
      <4>1. golden'.st = "Succeeded" /\ golden'.by = golden.by
        BY <3>1, <3>3 DEF TypeOK, Dvs
      <4>2. QED  BY <2>1, <3>3, <4>1 DEF ClonedInv, ReadyMeansCloned, RecordCloned
    <3>4. QED  BY <3>1, <3>2, <3>3
  <2>4. QED  BY <2>2, <2>3
<1>9. CASE UNCHANGED vars
  BY <1>1, <1>9 DEF vars, mem, proc, disks
<1>10. QED  BY <1>2, <1>3, <1>4, <1>5, <1>6, <1>7, <1>8, <1>9 DEF Next

\* So it holds for ever, whatever Cancels and deadlines there are.
LEMMA ClonedInvariant ==
  ASSUME MaxCrashes = 0 \/ MaxFaults <= 8
  PROVE  Spec => []ClonedInv
<1>1. Init => ClonedInv
  BY DEF Init, ClonedInv, ReadyMeansCloned, RecordCloned, NoRecord, AfterVm, Cloning
<1>2. TypeOK /\ DriverInv /\ StatusInv /\ LostInv /\ ClonedInv /\ [Next]_vars => ClonedInv'
  BY ManagerAssumption, ClonedStep
<1>3. QED
  BY <1>1, <1>2, TypeCorrect, DriverInvariant, StatusInvariant, LostInvariant, PTL DEF Spec

\* Ready is reported for a golden disk that is there and is the clone made for
\* the VM the record names, whatever Cancels and deadlines there are: with any
\* failures while the builder stays up, and with any crashes and restarts while
\* at most eight calls fail (a build sets more records than that before it
\* replaces the disk, so its ConfigMap no longer says Ready by then).
THEOREM ReadyIsCloned ==
  ASSUME MaxCrashes = 0 \/ MaxFaults <= 8
  PROVE  Spec => []ReadyMeansCloned
<1>1. ClonedInv => ReadyMeansCloned
  BY DEF ClonedInv
<1>2. QED  BY <1>1, ClonedInvariant, PTL

-----------------------------------------------------------------------------
(* The ConfigMap behind the memory.                                        *)

Memory == [st |-> status, vm |-> vmAt]

\* With no Cancel, a goroutine owes at most the record that is in memory, and
\* the ConfigMap has what is owed by nobody.
OwedInv ==
  /\ ~cancelled
  /\ \A b \in Builds : pc[b] = "preflight" => status = "Pending"
  /\ \A b \in Builds : wr[b] # NoRecord => Live(b)
  /\ up /\ faults = 0 =>
       /\ \A b \in Builds : wr[b] # NoRecord => wr[b] = Memory
       /\ (\A b \in Builds : wr[b] = NoRecord) => cm = Memory

\* A step of a live goroutine that owes nothing: it sets memory and record
\* together, or leaves both and the ConfigMap alone.
Books(b) ==
  /\ wr[b] = NoRecord /\ faults' >= faults /\ UNCHANGED <<cancelled, cm>>
  /\ \/ wr' = [wr EXCEPT ![b] = Memory'] /\ status' # "None" /\ Live(b)'
     \/ UNCHANGED <<status, vmAt, wr>>
  /\ pc'[b] = "preflight" => status' = "Pending"

\* Every step of run and resume before done is one, but for the persist and
\* preflight's removal of a record that says Error.
LEMMA StepBooks ==
  ASSUME TypeOK, OwedInv, NEW b \in Builds, BuildStep(b),
         ~Persist(b), ~Preflight(b), ~Done(b)
  PROVE  Books(b)
<1> USE DEF TypeOK, OwedInv, Books, Memory, At, Set, Assign, Owed, Drops, Goto, MemoryOnly,
            proc, mem, hnd, bounds, Live, LivePcs, BeforeExit, Finishing
<1>1. CASE RunBegins(b) \/ Drain(b) \/ IsoReady(b) \/ Released(b) \/ PatchSkip(b) \/ InstReady(b)
  BY <1>1 DEF RunBegins, Drain, IsoReady, Released, PatchSkip, InstReady
<1>2. CASE ImportReuse(b) \/ ImportCreate(b) \/ Release(b)
  BY <1>2 DEF ImportReuse, ImportCreate, Release, DeleteGuest, Fault
<1>3. CASE ImportDelete(b) \/ BlankDelete(b)
  BY <1>3 DEF ImportDelete, BlankDelete
<1>4. CASE PatchJob(b) \/ JobWaited(b) \/ BlankCreate(b)
  BY <1>4 DEF PatchJob, JobWaited, BlankCreate, Fault
<1>5. CASE VmCreate(b) \/ VmRecorded(b)
  BY <1>5 DEF VmCreate, VmRecorded, RecordCopy
<1>6. CASE WaitVMI(b)
  BY <1>6 DEF WaitVMI, WaitRunning, WaitSucceeded, WaitStopped, WaitMissing, GuestExited
<1>7. CASE FinishBuild(b)
  BY <1>7 DEF FinishBuild, FinishBegins, FinishDeletesVm, DeleteGuest, Fault, GoldenDelete,
              GoldenClone, Cloned, Publish, Reported
<1>8. CASE StepFails(b) \/ Deadline(b) \/ StopSeen(b)
  BY <1>8 DEF StepFails, Deadline, StopSeen, Fault
<1>9. QED
  BY <1>1, <1>2, <1>3, <1>4, <1>5, <1>6, <1>7, <1>8 DEF BuildStep, Prepare

\* Every step of a system without Cancels keeps the invariant.
LEMMA OwedStep ==
  ASSUME MaxCancels = 0, TypeOK, DriverInv, StatusInv, OwedInv, [Next]_vars
  PROVE  OwedInv'
<1>1. ASSUME UNCHANGED <<up, cancelled, pc, status, vmAt, wr, cm>>, faults' >= faults
      PROVE  OwedInv'
  BY <1>1 DEF OwedInv, Memory, Live, TypeOK
<1>2. ASSUME NEW b \in Builds, BuildStep(b), Live(b) PROVE OwedInv'
  <2>1. \A x \in Builds : x # b => ~Live(x) /\ pc'[x] = pc[x] /\ wr[x] = NoRecord
    BY <1>2, LiveRuns, OneMoves DEF OwedInv
  <2>2. up' = up
    <3>1. CASE EarlyMove(b)
      BY <3>1 DEF EarlyMove
    <3>2. CASE FinishBegins(b) \/ Done(b) \/ Persist(b)
      BY <3>2 DEF FinishBegins, Done, Persist, mem
    <3>3. QED  BY <1>2, <3>1, <3>2, PrepareMoves, WaitMoves, EndMoves, FinishMoves DEF BuildStep
  <2>3. CASE Persist(b)
    <3>1. /\ UNCHANGED <<up, cancelled, pc, status, vmAt>>
          /\ \A x \in Builds : wr'[x] = NoRecord
          /\ (cm' \in Marshalled(b) /\ faults' = faults) \/ faults' = faults + 1
      BY <2>1, <2>3 DEF Persist, Fault, mem, TypeOK
    <3>2. up /\ faults = 0 => \A r \in Marshalled(b) : r = Memory
      BY <2>3 DEF Persist, Marshalled, OwedInv, Memory
    <3>3. QED  BY <3>1, <3>2 DEF OwedInv, Memory, Live, TypeOK
  <2>4. CASE Preflight(b)
    <3>1. /\ UNCHANGED <<up, cancelled, status, vmAt, wr>> /\ Goto(b, "drain")
          /\ wr[b] = NoRecord /\ pc[b] = "preflight" /\ faults' >= faults
          /\ cm' = IF cm.st = "Error" THEN NoRecord ELSE cm
      BY <2>4 DEF Preflight, DeleteGuest, Fault, At, mem, TypeOK
    <3>2. up /\ faults' = 0 => cm = Memory /\ cm' = cm
      BY <2>1, <3>1 DEF OwedInv, Memory, TypeOK
    <3>3. pc'[b] # "preflight"
      BY <3>1 DEF Goto, TypeOK
    <3>4. QED  BY <2>1, <2>2, <3>1, <3>2, <3>3, LiveLabels DEF OwedInv, Memory, Live, LivePcs, BeforeExit
  <2>5. CASE Done(b)
    <3>1. /\ UNCHANGED <<up, status, vmAt, wr, cm, faults>> /\ ~cancelled' /\ wr[b] = NoRecord
          /\ Goto(b, "done")
      BY <2>5 DEF Done, At, bounds
    <3>2. pc'[b] # "preflight"
      BY <3>1 DEF Goto, TypeOK
    <3>3. QED  BY <2>1, <3>1, <3>2 DEF OwedInv, Memory, Live
  <2>6. CASE ~Persist(b) /\ ~Preflight(b) /\ ~Done(b)
    <3>1. Books(b)
      BY <1>2, <2>6, StepBooks
    <3>2. /\ \A x \in Builds : x # b => wr'[x] = NoRecord
          /\ \A x \in Builds : pc'[x] = "preflight" => status' = "Pending"
      BY <2>1, <3>1 DEF Books, OwedInv, TypeOK, Live, LivePcs, BeforeExit
    <3>3. CASE wr' = [wr EXCEPT ![b] = Memory'] /\ status' # "None" /\ Live(b)'
      <4>1. wr'[b] = Memory' /\ Memory' # NoRecord
        BY <3>3 DEF TypeOK, Memory, NoRecord
      <4>2. QED  BY <2>1, <3>1, <3>2, <3>3, <4>1 DEF Books, OwedInv
    <3>4. CASE UNCHANGED <<status, vmAt, wr>>
      BY <2>1, <2>2, <3>1, <3>2, <3>4 DEF Books, OwedInv, Memory, TypeOK
    <3>5. QED  BY <3>1, <3>3, <3>4 DEF Books
  <2>7. QED  BY <2>3, <2>4, <2>5, <2>6
<1>3. ASSUME NEW b \in Builds, BuildStep(b) PROVE OwedInv'
  <2>1. Live(b)
    BY <1>3, LiveMoves DEF Persist, OwedInv
  <2>2. QED  BY <1>2, <1>3, <2>1
<1>4. ASSUME NEW b \in Builds, Start(b) PROVE OwedInv'
  <2>1. \A x \in Builds : ~Live(x)
    BY <1>4 DEF DriverInv, Start, MayStart
  <2>2. \A x \in Builds : pc'[x] # "preflight"
    BY <1>4, <2>1 DEF Start, TypeOK, Goto, Live, LivePcs, BeforeExit
  <2>3. /\ \A x \in Builds : wr[x] = NoRecord
        /\ wr' = [wr EXCEPT ![b] = Memory'] /\ Memory' # NoRecord /\ Live(b)'
        /\ UNCHANGED cancelled
    BY <1>4, <2>1 DEF Start, OwedInv, Memory, NoRecord, TypeOK, Goto, Live, LivePcs, BeforeExit
  <2>4. QED  BY <2>2, <2>3 DEF OwedInv, TypeOK
<1>5. ASSUME NEW b \in Builds, LoadResumes(b) PROVE OwedInv'
  <2>1. \A x \in Builds : ~Live(x)
    BY <1>5 DEF DriverInv, LoadResumes
  <2>2. \A x \in Builds : pc'[x] # "preflight" /\ wr'[x] = NoRecord
    BY <1>5, <2>1 DEF LoadResumes, TypeOK, Goto, Live, LivePcs, BeforeExit, OwedInv
  <2>3. cm' = Memory' /\ UNCHANGED cancelled
    BY <1>5 DEF LoadResumes, Memory, TypeOK, Records
  <2>4. QED  BY <2>2, <2>3 DEF OwedInv
<1>6. CASE LoadSettles \/ LoadFails
  <2>1. \A x \in Builds : ~Live(x) /\ wr[x] = NoRecord
    BY <1>6 DEF DriverInv, LoadSettles, LoadFails, OwedInv
  <2>2. UNCHANGED <<pc, wr, cancelled>>
    BY <1>6 DEF LoadSettles, LoadFails, proc
  <2>3. cm' = Memory' \/ faults' # 0
    BY <1>6 DEF LoadSettles, LoadFails, Fault, Memory, TypeOK, Records
  <2>4. \A x \in Builds : pc[x] # "preflight"
    BY <2>1 DEF Live, LivePcs, BeforeExit
  <2>5. QED  BY <2>1, <2>2, <2>3, <2>4 DEF OwedInv
<1>7. CASE Crash
  BY <1>7, LiveLabels DEF Crash, OwedInv, Live, LivePcs, BeforeExit
<1>8. \A c \in Handlers : FALSE
  BY DEF Handlers
<1>9. CASE ClusterProgress \/ Outside
  BY <1>1, <1>9 DEF ClusterProgress, Outside, PowersOffEarly, Meddles, Fault, mem, proc, TypeOK
<1>10. CASE UNCHANGED vars
  BY <1>1, <1>10 DEF vars, mem, proc, bounds, TypeOK
<1>11. QED
  BY <1>3, <1>4, <1>5, <1>6, <1>7, <1>8, <1>9, <1>10 DEF Next, Load

\* Without Cancels (with one, two persists may land in the wrong order) and as
\* long as no call fails, the ConfigMap has what the memory says whenever no
\* write is under way, however often the builder dies.
THEOREM RecordKept ==
  ASSUME MaxCancels = 0
  PROVE  Spec => []RecordMatchesMemory
<1>1. Init => OwedInv
  BY DEF Init, OwedInv, Memory, NoRecord
<1>2. TypeOK /\ DriverInv /\ StatusInv /\ OwedInv /\ [Next]_vars => OwedInv'
  BY OwedStep
<1>3. OwedInv => RecordMatchesMemory
  BY DEF OwedInv, RecordMatchesMemory, Settled, Memory
<1>4. QED
  BY <1>1, <1>2, <1>3, TypeCorrect, DriverInvariant, StatusInvariant, PTL DEF Spec

-----------------------------------------------------------------------------
(* The install disk.  Cancels are excluded: a handler that outlives its     *)
(* build deletes objects of the next one.                                   *)

-----------------------------------------------------------------------------
(* What the install VM boots on.                                           *)

WithIso   == {"release", "released", "patch", "job", "blank", "instWait", "vmCreate"}
WithPatch == {"blank", "instWait", "vmCreate"}
WithBlank == {"instWait", "vmCreate"}

\* The ISO a goroutine waited for stays and is patched once its Job is done; the
\* install disk is the goroutine's own and nobody writes it.
Prepared(b) ==
  /\ pc[b] \in WithIso => iso.st = "Succeeded"
  /\ pc[b] = "job" /\ job = "Succeeded" => iso.patched
  /\ pc[b] \in WithPatch => iso.patched
  /\ pc[b] \in WithBlank =>
       inst.by = b /\ inst.data = "blank" /\ inst.st \in {"Pending", "Succeeded"}
  /\ pc[b] = "vmCreate" => inst.st = "Succeeded"

\* The annotation that lets a later build skip the Job tells the truth.
MarkTrue == iso.marked => iso.patched /\ iso.st \in {"Succeeded", "Terminating"}

CleanInv == MarkTrue /\ \A b \in Builds : Prepared(b)

\* What one goroutine's step makes of it.
LEMMA GoroutinePrepares ==
  ASSUME TypeOK, NEW b \in Builds, Prepared(b), MarkTrue, BuildStep(b)
  PROVE  Prepared(b)' /\ MarkTrue'
<1> USE DEF TypeOK, Prepared, MarkTrue, WithIso, WithPatch, WithBlank, At, Set, Goto,
            MemoryOnly, proc, mem, guest, disks
<1>1. CASE RunBegins(b) \/ Drain(b) \/ IsoReady(b) \/ Released(b) \/ PatchSkip(b) \/ InstReady(b)
  BY <1>1 DEF RunBegins, Drain, IsoReady, Released, PatchSkip, InstReady, Annotated
<1>2. CASE Preflight(b) \/ Release(b)
  BY <1>2 DEF Preflight, Release
<1>3. CASE ImportReuse(b) \/ ImportCreate(b)
  BY <1>3 DEF ImportReuse, ImportCreate, NoIso
<1>4. CASE ImportDelete(b)
  BY <1>4 DEF ImportDelete, DeleteIso, Isos
<1>5. CASE PatchJob(b)
  BY <1>5 DEF PatchJob
<1>6. CASE JobWaited(b)
  <2>1. iso.st = "Succeeded" /\ iso.patched
    BY <1>6 DEF JobWaited, JobDone
  <2>2. iso'.st = "Succeeded" /\ iso'.patched
    BY <1>6, <2>1 DEF JobWaited, Isos
  <2>3. pc'[b] = "blank"
    BY <1>6 DEF JobWaited
  <2>4. QED  BY <2>2, <2>3
<1>7. CASE BlankDelete(b) \/ BlankCreate(b)
  BY <1>7 DEF BlankDelete, BlankCreate, NoDv
<1>8. CASE VmCreate(b) \/ VmRecorded(b)
  BY <1>8 DEF VmCreate, VmRecorded
<1>9. CASE WaitVMI(b)
  BY <1>9 DEF WaitVMI, WaitRunning, WaitSucceeded, WaitStopped, WaitMissing, GuestExited
<1>10. CASE FinishBuild(b)
  BY <1>10 DEF FinishBuild, FinishBegins, FinishDeletesVm, GoldenDelete, GoldenClone, Cloned, Publish
<1>11. CASE StepFails(b) \/ Deadline(b) \/ StopSeen(b) \/ Done(b) \/ Persist(b)
  BY <1>11 DEF StepFails, Deadline, StopSeen, Done, Persist
<1>12. QED
  BY <1>1, <1>2, <1>3, <1>4, <1>5, <1>6, <1>7, <1>8, <1>9, <1>10, <1>11 DEF BuildStep, Prepare

\* The cluster takes nothing back, and without a guest nobody writes the disk.
LEMMA ClusterPrepares ==
  ASSUME TypeOK, NoForeignGuest, MarkTrue, ClusterProgress \/ Outside, UNCHANGED pc
  PROVE  MarkTrue' /\ \A b \in Builds : Prepared(b) => Prepared(b)'
<1> USE DEF TypeOK, Prepared, MarkTrue, WithIso, WithPatch, WithBlank, guest, disks
<1>1. \A b \in Builds : pc[b] \in WithBlank => vmi.st = "None"
  BY DEF NoForeignGuest, NoGuest
<1>2. CASE IsoImported \/ JobPatches
  BY <1>2 DEF IsoImported, JobPatches, Isos
<1>3. CASE InstBound \/ GoldenCopied
  BY <1>3 DEF InstBound, GoldenCopied, Dvs
<1>4. CASE DvGone
  BY <1>4 DEF DvGone, NoIso, NoDv
<1>5. CASE VmiRuns \/ GuestSeals
  BY <1>1, <1>5 DEF VmiRuns, GuestSeals, Dvs
<1>6. CASE VmiCreated \/ AgentConnects \/ VmiStops \/ VmiGone \/ VmGone
  BY <1>6 DEF VmiCreated, AgentConnects, VmiStops, VmiGone, VmGone
<1>7. CASE Outside
  BY <1>7 DEF Outside, PowersOffEarly, Meddles
<1>8. QED  BY <1>2, <1>3, <1>4, <1>5, <1>6, <1>7 DEF ClusterProgress

\* Every step of a system without Cancels keeps the invariant.
LEMMA CleanStep ==
  ASSUME MaxCancels = 0, TypeOK, DriverInv, NoForeignGuest, CleanInv, [Next]_vars
  PROVE  CleanInv'
<1> DEFINE Before == WithIso \cup WithPatch \cup WithBlank
<1>1. Before \subseteq LivePcs /\ {"begin", "wait", "idle", "done"} \cap Before = {}
  BY DEF Before, WithIso, WithPatch, WithBlank, LivePcs, BeforeExit, Finishing
<1>2. ASSUME UNCHANGED <<iso, job, inst>>, \A x \in Builds : pc'[x] = pc[x] \/ pc'[x] \notin Before
      PROVE  CleanInv'
  BY <1>2 DEF CleanInv, MarkTrue, Prepared, Before, WithIso, WithPatch, WithBlank
<1>3. ASSUME NEW b \in Builds, BuildStep(b) PROVE CleanInv'
  <2>1. Prepared(b)' /\ MarkTrue'
    BY <1>3, GoroutinePrepares DEF CleanInv
  <2>2. CASE Persist(b)
    BY <1>2, <2>2 DEF Persist, disks
  <2>3. CASE ~Persist(b)
    <3>1. \A x \in Builds : x # b => pc'[x] = pc[x] /\ ~Live(x)
      BY <1>3, <2>3, LiveMoves, LiveRuns, OneMoves
    <3>2. \A x \in Builds : x # b => pc'[x] \notin Before
      BY <1>1, <3>1 DEF Live
    <3>3. QED  BY <2>1, <3>2 DEF CleanInv, Prepared, Before, WithIso, WithPatch, WithBlank
  <2>4. QED  BY <2>2, <2>3
<1>4. ASSUME NEW b \in Builds, Start(b) \/ LoadResumes(b) PROVE CleanInv'
  <2>1. UNCHANGED <<iso, job, inst>> /\ \E l \in {"begin", "wait"} : Goto(b, l)
    BY <1>4 DEF Start, LoadResumes, disks
  <2>2. QED  BY <1>1, <1>2, <2>1 DEF Goto, TypeOK
<1>5. \A c \in Handlers : FALSE
  BY DEF Handlers
<1>6. CASE Crash
  BY <1>1, <1>2, <1>6 DEF Crash, disks
<1>7. CASE LoadSettles \/ LoadFails \/ UNCHANGED vars
  BY <1>2, <1>7 DEF LoadSettles, LoadFails, vars, proc, disks
<1>8. CASE ClusterProgress \/ Outside
  <2>1. UNCHANGED pc
    BY <1>8 DEF ClusterProgress, Outside, proc
  <2>2. QED  BY <1>8, <2>1, ClusterPrepares DEF CleanInv
<1>9. QED  BY <1>3, <1>4, <1>5, <1>6, <1>7, <1>8 DEF Next, Load

\* Where the VM is created, and by which step.
LEMMA CreatedClean ==
  ASSUME MaxCancels = 0, TypeOK, CleanInv, [Next]_vars, VmCreated
  PROVE  /\ inst.st = "Succeeded" /\ inst.data = "blank" /\ inst.by = vm'.by
         /\ iso.st = "Succeeded" /\ iso.patched
<1>1. \E b \in Builds : VmCreate(b)
  <2>1. ASSUME NEW b \in Builds, BuildStep(b) PROVE VmCreate(b)
    BY <2>1
       DEF TypeOK, Vms, VmCreated, BuildStep, Prepare, WaitVMI, FinishBuild, RunBegins, Preflight,
         Drain, ImportReuse, ImportDelete, ImportCreate, IsoReady, Release, Released, PatchSkip,
         PatchJob, JobWaited, BlankDelete, BlankCreate, InstReady, VmRecorded,
         WaitRunning, WaitSucceeded, WaitStopped, WaitMissing, GuestExited, FinishBegins,
         FinishDeletesVm, GoldenDelete, GoldenClone, Cloned, Publish, StepFails, Deadline,
         StopSeen, Done, Persist, MemoryOnly, DeleteGuest, guest
  <2>2. \A c \in Handlers : FALSE
    BY DEF Handlers
  <2>3. ~ClusterProgress /\ ~Outside
    BY DEF VmCreated, ClusterProgress, Outside, IsoImported, JobPatches, InstBound, GoldenCopied,
           DvGone, VmiCreated, VmiRuns, AgentConnects, GuestSeals, VmiStops, VmiGone, VmGone, NoVm,
           PowersOffEarly, Meddles, guest
  <2>4. ~UNCHANGED vm
    BY DEF VmCreated
  <2>5. QED
    BY <2>1, <2>2, <2>3, <2>4
       DEF Next, Load, Start, LoadResumes, LoadSettles, LoadFails, Crash, vars, guest
<1>2. PICK b \in Builds : VmCreate(b)
  BY <1>1
<1>3. pc[b] = "vmCreate" /\ vm'.by = b
  BY <1>2 DEF VmCreate, At
<1>4. QED
  BY <1>3 DEF CleanInv, Prepared, WithIso, WithPatch, WithBlank

\* Without Cancels every install VM, whatever crashes, failures and earlier
\* builds came before, is created on its own blank disk and a patched ISO.
THEOREM BootIsClean ==
  ASSUME MaxCancels = 0
  PROVE  Spec => CleanBoot
<1>1. Init => CleanInv
  BY DEF Init, CleanInv, MarkTrue, Prepared, WithIso, WithPatch, WithBlank, NoIso
<1>2. TypeOK /\ DriverInv /\ NoForeignGuest /\ CleanInv /\ [Next]_vars => CleanInv'
  BY CleanStep
<1>3. TypeOK /\ CleanInv /\ [Next]_vars =>
        [VmCreated => /\ inst.st = "Succeeded" /\ inst.data = "blank" /\ inst.by = vm'.by
                      /\ iso.st = "Succeeded" /\ iso.patched]_vars
  BY CreatedClean
<1>4. QED
  BY <1>1, <1>2, <1>3, TypeCorrect, DriverInvariant, NoGuestLeft, PTL DEF Spec, CleanBoot

-----------------------------------------------------------------------------
(* Behind Ready: a disk that sysprep sealed.                               *)

Watched  == {"vmMade", "wait"}
Sealing  == {"exited", "finDelete", "clone", "cloneWait"}
WithDisk == {"vmCreate"} \cup Watched \cup Sealing

\* The install VM is there, and if its guest ended with an agent the disk is
\* sealed; or it is on its way out or gone, and left a sealed disk.
Installs == vm.st = "Present" /\ (vmi.st = "Succeeded" /\ vmi.agent => inst.data = "sealed")
Over     == vm.st # "Present" /\ vmi.st \in {"Succeeded", "None"} /\ inst.data = "sealed"

\* What a goroutine may rely on while nobody meddles with its VM: the install
\* disk stays, an agent it saw is in this guest, a guest that ended with an
\* agent sealed the disk, and none starts on that disk again. A resumed one may
\* find its VM already deleted by the goroutine that crashed past the seal.
Reliable(b) ==
  /\ seen[b] # {} => pc[b] \in {"wait", "exited", "ret"} \cup Finishing
  /\ pc[b] \in WithDisk => inst.st = "Succeeded"
  /\ pc[b] \in Watched =>
       \/ Over
       \/ Installs /\ ("agent" \in seen[b] => vmi.agent /\ vmi.st \in {"Running", "Succeeded"})
  /\ pc[b] \in Sealing =>
       /\ inst.data = "sealed" /\ vmi.st \in {"Succeeded", "None"}
       /\ vmi.st = "None" => vm.st # "Present"
  /\ pc[b] \in Cloning /\ golden.st = "Succeeded" => golden.data = "sealed"

\* A record that says Ready has a sealed clone; a record that a restart resumes
\* from still has the VM and the install disk it speaks of.
RecordSealed(r) == r.st = "Ready" => golden.data = "sealed"
Resumable ==
  canResume(cm.st) /\ vm.st # "None" => inst.st = "Succeeded" /\ (Installs \/ Over)

RecordsSealed ==
  MaxCrashes # 0 => Resumable /\ RecordSealed(cm) /\ \A b \in Builds : RecordSealed(wr[b])

SealedInv ==
  meddles = 0 => ReadyMeansSealed /\ RecordsSealed /\ \A b \in Builds : Reliable(b)

\* What one goroutine's step makes of it.
Sealed(b) == Reliable(b)' /\ ReadyMeansSealed'

\* Up to the install VM, which finds no guest.
LEMMA PrepareSealed ==
  ASSUME TypeOK, StatusInv, NoForeignGuest, NEW b \in Builds, Reliable(b), ReadyMeansSealed,
         Live(b), Prepare(b), meddles = 0
  PROVE  Sealed(b)
<1> USE DEF TypeOK, Sealed, Reliable, ReadyMeansSealed, Watched, Sealing, WithDisk, Cloning,
            Finishing, At, Set, Assign, Goto, MemoryOnly, proc, mem, guest, disks, InProgress,
            Installs, Over
<1>1. pc[b] # "ret" => status # "Ready"
  BY DEF StatusInv
<1>2. CASE RunBegins(b) \/ Drain(b) \/ IsoReady(b) \/ Released(b) \/ PatchSkip(b) \/ InstReady(b)
  BY <1>1, <1>2 DEF RunBegins, Drain, IsoReady, Released, PatchSkip, InstReady
<1>3. CASE Preflight(b) \/ Release(b)
  BY <1>1, <1>3 DEF Preflight, Release
<1>4. CASE ImportReuse(b) \/ ImportCreate(b) \/ ImportDelete(b)
  BY <1>1, <1>4 DEF ImportReuse, ImportCreate, ImportDelete
<1>5. CASE PatchJob(b) \/ JobWaited(b)
  BY <1>1, <1>5 DEF PatchJob, JobWaited
<1>6. CASE BlankDelete(b) \/ BlankCreate(b)
  BY <1>1, <1>6 DEF BlankDelete, BlankCreate
<1>7. CASE VmCreate(b)
  BY <1>1, <1>7 DEF VmCreate, NoForeignGuest, NoGuest
<1>8. CASE VmRecorded(b)
  BY <1>1, <1>8 DEF VmRecorded
<1>9. QED  BY <1>2, <1>3, <1>4, <1>5, <1>6, <1>7, <1>8 DEF Prepare

\* From the install VM on: only a guest whose agent was seen is accepted.
LEMMA LaterSealed ==
  ASSUME TypeOK, StatusInv, NEW b \in Builds, Reliable(b), ReadyMeansSealed,
         Live(b), BuildStep(b), ~Prepare(b), ~Persist(b), meddles = 0
  PROVE  Sealed(b)
<1> USE DEF TypeOK, Sealed, Reliable, ReadyMeansSealed, Watched, Sealing, WithDisk, Cloning,
            Finishing, At, Set, Assign, Goto, MemoryOnly, proc, mem, guest, disks, InProgress,
            Installs, Over
<1>1. pc[b] # "ret" => status # "Ready"
  BY DEF StatusInv
<1>2. CASE WaitRunning(b)
  BY <1>1, <1>2 DEF WaitRunning, AgentSeen
<1>3. CASE WaitSucceeded(b)
  BY <1>1, <1>3 DEF WaitSucceeded, GuestExited, ExitAccepted, AgentSeen
<1>4. CASE WaitStopped(b)
  <2>1. pc[b] = "wait" /\ Over /\ inst.st = "Succeeded" /\ vmi.st = "None"
    BY <1>4 DEF WaitStopped
  <2>2. /\ UNCHANGED <<vm, vmi, inst, golden, seen>>
        /\ pc' \in {[pc EXCEPT ![b] = "exited"], [pc EXCEPT ![b] = "ret"]}
    BY <1>4 DEF WaitStopped, GuestExited
  <2>3. status' # "Ready"
    BY <1>1, <1>4 DEF WaitStopped, GuestExited
  <2>4. QED  BY <2>1, <2>2, <2>3
<1>5. CASE WaitMissing(b)
  BY <1>1, <1>5 DEF WaitMissing
<1>6. CASE FinishBegins(b) \/ Cloned(b)
  BY <1>1, <1>6 DEF FinishBegins, Cloned
<1>7. CASE FinishDeletesVm(b)
  <2>1. /\ pc[b] = "finDelete" /\ inst.st = "Succeeded" /\ inst.data = "sealed"
        /\ vmi.st \in {"Succeeded", "None"}
    BY <1>7 DEF FinishDeletesVm
  <2>2. vmi.st = "None" => vm'.st # "Present"
    BY <1>7 DEF FinishDeletesVm, DeleteGuest, Vms
  <2>3. UNCHANGED <<status, vmi, inst, golden, seen>> /\ pc' = [pc EXCEPT ![b] = "clone"]
    BY <1>7 DEF FinishDeletesVm
  <2>4. QED  BY <1>1, <2>1, <2>2, <2>3
<1>8. CASE GoldenDelete(b) \/ GoldenClone(b)
  BY <1>1, <1>8 DEF GoldenDelete, GoldenClone, NoDv
<1>9. CASE Publish(b)
  BY <1>1, <1>9 DEF Publish, Reported, StatusInv
<1>10. CASE StepFails(b) \/ Deadline(b) \/ StopSeen(b)
  BY <1>1, <1>10 DEF StepFails, Deadline, StopSeen
<1>11. CASE Done(b)
  BY <1>11 DEF Done
<1>12. QED
  BY <1>2, <1>3, <1>4, <1>5, <1>6, <1>7, <1>8, <1>9, <1>10, <1>11 DEF BuildStep, WaitVMI, FinishBuild

\* The cluster lets a goroutine rely on it.
LEMMA ClusterReliable ==
  ASSUME TypeOK, StatusInv, NEW b \in Builds, Reliable(b),
         ClusterProgress \/ PowersOffEarly, UNCHANGED <<pc, seen>>
  PROVE  Reliable(b)'
<1> USE DEF TypeOK, Reliable, Watched, Sealing, WithDisk, Cloning, Installs, Over, guest, disks
<1>1. CASE IsoImported \/ JobPatches
  BY <1>1 DEF IsoImported, JobPatches
<1>2. CASE InstBound \/ GoldenCopied
  BY <1>2 DEF InstBound, GoldenCopied, Dvs, StatusInv
<1>3. CASE DvGone
  BY <1>3 DEF DvGone, NoDv
<1>4. CASE VmiCreated
  BY <1>4 DEF VmiCreated
<1>5. CASE VmiRuns
  BY <1>5 DEF VmiRuns, Vmis, Dvs
<1>6. CASE AgentConnects
  BY <1>6 DEF AgentConnects, Vmis
<1>7. CASE GuestSeals
  BY <1>7 DEF GuestSeals, Vmis, Dvs
<1>8. CASE VmiStops \/ VmiGone \/ VmGone
  BY <1>8 DEF VmiStops, VmiGone, VmGone, NoVm, NoVmi, Vmis
<1>9. CASE PowersOffEarly
  BY <1>9 DEF PowersOffEarly, Vmis
<1>10. QED
  BY <1>1, <1>2, <1>3, <1>4, <1>5, <1>6, <1>7, <1>8, <1>9 DEF ClusterProgress

\* Without Cancels a build that still prepares its VM has set three records or
\* more by the time it touches what an earlier one left: with no more than two
\* failed calls the ConfigMap no longer tells a restart to resume that one.
LEMMA ResumeOverwritten ==
  ASSUME MaxFaults <= 2, MaxCancels = 0, ManagerAssumption, TypeOK, LostInv,
         NEW b \in Builds, pc[b] \in BeforeVm \ {"begin"}, wr[b] = NoRecord
  PROVE  ~canResume(cm.st)
<1>1. faults \in Nat /\ faults <= 2 /\ Owes(b) = 0
  BY DEF TypeOK, ManagerAssumption, Owes
<1>2. Told(pc[b]) \in Nat /\ Told(pc[b]) >= 2
  BY ToldAt DEF BeforeVm
<1>3. QED  BY <1>1, <1>2 DEF LostInv

\* So what a step leaves for a restart has its sealed disk.
LEMMA GoroutineRecords ==
  ASSUME MaxFaults <= 2, MaxCancels = 0, MaxCrashes # 0, ManagerAssumption, TypeOK, DriverInv,
         StatusInv, LostInv, ClonedInv, RecordsSealed,
         NEW b \in Builds, Reliable(b), Live(b), BuildStep(b), ~Persist(b)
  PROVE  Resumable' /\ RecordSealed(cm)' /\ RecordSealed(wr[b])'
<1> USE DEF RecordSealed, RecordsSealed
<1>1. NoRecord.st # "Ready" /\ ~canResume(NoRecord.st)
  BY DEF NoRecord, canResume
<1>2. ASSUME cm' \in {cm, NoRecord}, UNCHANGED <<vm, vmi, inst, golden>>,
             wr'[b] = wr[b] \/ wr'[b].st # "Ready"
      PROVE  Resumable' /\ RecordSealed(cm)' /\ RecordSealed(wr[b])'
  BY <1>1, <1>2 DEF Resumable, Installs, Over
<1>3. CASE Publish(b)
  <2>1. golden.st = "Succeeded" => golden.data = "sealed"
    BY <1>3 DEF Publish, At, Reliable, Cloning
  <2>2. golden.st = "Succeeded" /\ UNCHANGED <<vm, vmi, inst, golden, cm>>
    BY <1>3 DEF Publish, At, StatusInv, MemoryOnly, guest, disks
  <2>3. QED  BY <2>1, <2>2 DEF Resumable, Installs, Over
<1>4. CASE Prepare(b)
  <2>1. /\ pc[b] \in BeforeVm /\ wr[b] = NoRecord /\ golden' = golden
        /\ cm' \in {cm, NoRecord} /\ wr'[b].st # "Ready"
        /\ pc[b] = "begin" => UNCHANGED <<vm, vmi, inst>>
    <3> USE DEF TypeOK, At, Set, Owed, Goto, MemoryOnly, proc, mem, guest, disks, BeforeVm
    <3>1. CASE RunBegins(b) \/ Drain(b) \/ IsoReady(b) \/ Released(b) \/ PatchSkip(b) \/ InstReady(b)
      BY <1>1, <3>1 DEF RunBegins, Drain, IsoReady, Released, PatchSkip, InstReady
    <3>2. CASE Preflight(b) \/ ImportReuse(b) \/ ImportCreate(b) \/ Release(b)
      BY <1>1, <3>2 DEF Preflight, ImportReuse, ImportCreate, Release
    <3>3. CASE ImportDelete(b) \/ BlankDelete(b)
      BY <1>1, <3>3 DEF ImportDelete, BlankDelete
    <3>4. CASE PatchJob(b) \/ JobWaited(b) \/ BlankCreate(b)
      BY <1>1, <3>4 DEF PatchJob, JobWaited, BlankCreate
    <3>5. CASE VmCreate(b) \/ VmRecorded(b)
      BY <1>1, <3>5 DEF VmCreate, VmRecorded
    <3>6. QED  BY <1>4, <3>1, <3>2, <3>3, <3>4, <3>5 DEF Prepare
  <2>2. CASE pc[b] = "begin"
    BY <1>2, <2>1, <2>2
  <2>3. CASE pc[b] # "begin"
    <3>1. ~canResume(cm.st)
      BY <2>1, <2>3, ResumeOverwritten
    <3>2. QED  BY <1>1, <2>1, <3>1 DEF Resumable
  <2>4. QED  BY <2>2, <2>3
<1>5. CASE WaitVMI(b) \/ StepFails(b) \/ Deadline(b) \/ StopSeen(b)
  BY <1>1, <1>2, <1>5
     DEF WaitVMI, WaitRunning, WaitSucceeded, WaitStopped, WaitMissing, GuestExited, StepFails,
         Deadline, StopSeen, TypeOK, At, Set, Owed, MemoryOnly, guest, disks
<1>6. CASE FinishBegins(b) \/ Cloned(b) \/ Done(b)
  BY <1>1, <1>2, <1>6 DEF FinishBegins, Cloned, Done, TypeOK, At, Set, Owed, guest, disks
<1>7. CASE FinishDeletesVm(b)
  <2>1. inst.st = "Succeeded" /\ inst.data = "sealed" /\ vmi.st \in {"Succeeded", "None"}
    BY <1>7 DEF FinishDeletesVm, At, Reliable, WithDisk, Sealing
  <2>2. UNCHANGED <<cm, wr, vmi, inst, golden>> /\ (vm' = vm \/ vm'.st = "Deleting")
    BY <1>7 DEF FinishDeletesVm, DeleteGuest, TypeOK, Vms, disks
  <2>3. QED  BY <2>1, <2>2 DEF Resumable, Installs, Over
<1>8. CASE GoldenDelete(b) \/ GoldenClone(b)
  <2>1. pc[b] = "clone" /\ wr[b] = NoRecord /\ UNCHANGED <<cm, wr, vm, vmi, inst>>
    BY <1>8 DEF GoldenDelete, GoldenClone, At, proc, guest
  <2>2. cm.st # "Ready"
    BY <2>1, ReadyOverwritten DEF ManagerAssumption
  <2>3. QED  BY <1>1, <2>1, <2>2 DEF Resumable, Installs, Over
<1>9. QED
  BY <1>3, <1>4, <1>5, <1>6, <1>7, <1>8 DEF BuildStep, FinishBuild

\* The cluster keeps it, too.
LEMMA ClusterRecords ==
  ASSUME MaxCrashes # 0, TypeOK, ClonedInv, RecordsSealed,
         ClusterProgress \/ PowersOffEarly, UNCHANGED <<cm, wr>>
  PROVE  RecordsSealed'
<1>1. Resumable'
  <2> USE DEF RecordsSealed, Resumable, Installs, Over, TypeOK, guest, disks
  <2>1. CASE IsoImported \/ JobPatches \/ GoldenCopied
    BY <2>1 DEF IsoImported, JobPatches, GoldenCopied
  <2>2. CASE InstBound \/ DvGone
    BY <2>2 DEF InstBound, DvGone, Dvs
  <2>3. CASE VmiCreated \/ AgentConnects
    BY <2>3 DEF VmiCreated, AgentConnects, Vmis
  <2>4. CASE VmiRuns \/ GuestSeals
    BY <2>4 DEF VmiRuns, GuestSeals, Vmis, Dvs
  <2>5. CASE VmiStops \/ VmiGone \/ VmGone
    BY <2>5 DEF VmiStops, VmiGone, VmGone, NoVm, NoVmi, Vmis
  <2>6. CASE PowersOffEarly
    BY <2>6 DEF PowersOffEarly, Vmis
  <2>7. QED  BY <2>1, <2>2, <2>3, <2>4, <2>5, <2>6 DEF ClusterProgress
<1>2. golden' = golden \/ golden.st \in {"Pending", "Terminating"}
  BY DEF ClusterProgress, IsoImported, JobPatches, InstBound, GoldenCopied, DvGone, VmiCreated,
         VmiRuns, AgentConnects, GuestSeals, VmiStops, VmiGone, VmGone, PowersOffEarly, disks
<1>3. QED  BY <1>1, <1>2 DEF RecordsSealed, RecordSealed, ClonedInv, RecordCloned

\* Every step of a system without Cancels keeps the invariant: of a builder that
\* does not crash, or of one that crashes, with few enough failed calls.
LEMMA SealedStep ==
  ASSUME MaxCancels = 0, MaxCrashes = 0 \/ MaxFaults <= 2, ManagerAssumption,
         TypeOK, DriverInv, StatusInv, LostInv, ClonedInv, NoForeignGuest, SealedInv, [Next]_vars
  PROVE  SealedInv'
<1> DEFINE Holds == ReadyMeansSealed /\ RecordsSealed /\ \A x \in Builds : Reliable(x)
<1>1. SUFFICES ASSUME meddles' = 0 PROVE Holds'
  BY DEF SealedInv
<1>2. ASSUME meddles = 0 PROVE Holds
  BY <1>2 DEF SealedInv
<1>3. CASE UNCHANGED <<status, pc, wr, seen, cm, vm, vmi, inst, golden, meddles>>
  BY <1>1, <1>2, <1>3
     DEF Reliable, ReadyMeansSealed, RecordsSealed, RecordSealed, Resumable, Installs, Over
<1>4. ASSUME NEW b \in Builds, BuildStep(b), ~Persist(b) PROVE Holds'
  <2>1. Live(b) /\ \A x \in Builds : x # b => pc'[x] = pc[x] /\ ~Live(x)
    BY <1>4, LiveMoves, LiveRuns, OneMoves
  <2>2. meddles = 0 /\ \A x \in Builds : x # b => seen'[x] = seen[x]
    BY <1>1, <1>4
       DEF TypeOK, BuildStep, Prepare, WaitVMI, FinishBuild, RunBegins, Preflight, Drain,
           ImportReuse, ImportDelete, ImportCreate, IsoReady, Release, Released, PatchSkip,
           PatchJob, JobWaited, BlankDelete, BlankCreate, InstReady, VmCreate, VmRecorded,
           WaitRunning, WaitSucceeded, WaitStopped, WaitMissing, GuestExited, FinishBegins,
           FinishDeletesVm, GoldenDelete, GoldenClone, Cloned, Publish, StepFails, Deadline,
           StopSeen, Done, MemoryOnly, bounds, proc
  <2>3. Sealed(b)
    BY <1>2, <1>4, <2>1, <2>2, PrepareSealed, LaterSealed
  <2>4. ASSUME NEW x \in Builds, x # b PROVE Reliable(x)'
    BY <1>2, <2>1, <2>2, <2>4
       DEF Reliable, Live, LivePcs, BeforeExit, Finishing, Watched, Sealing, WithDisk, Cloning
  <2>5. RecordsSealed'
    <3>1. SUFFICES ASSUME MaxCrashes # 0 PROVE RecordsSealed'
      BY DEF RecordsSealed
    <3>2. Resumable' /\ RecordSealed(cm)' /\ RecordSealed(wr[b])'
      BY <1>2, <1>4, <2>1, <2>2, <3>1, GoroutineRecords
    <3>3. \A x \in Builds : x # b => wr'[x] = NoRecord
      BY <1>4, <2>1, OthersOweNothing
    <3>4. QED  BY <3>2, <3>3 DEF RecordsSealed, RecordSealed, NoRecord
  <2>6. QED  BY <2>3, <2>4, <2>5 DEF Sealed
<1>5. ASSUME NEW b \in Builds, Persist(b) PROVE Holds'
  <2>1. UNCHANGED <<status, pc, seen, vm, vmi, inst, golden, meddles>>
    BY <1>5 DEF Persist, mem, guest, disks
  <2>2. cm' \in Marshalled(b) \cup {cm} /\ wr' = [wr EXCEPT ![b] = NoRecord]
    BY <1>5 DEF Persist, Fault
  <2>3. canResume(cm'.st) => cm' = cm \/ pc[b] = "wait"
    BY <2>2 DEF Marshalled, LostInv, canResume
  <2>4. ASSUME MaxCrashes # 0, cm'.st = "Ready" PROVE golden.data = "sealed"
    BY <1>1, <1>2, <2>1, <2>2, <2>4 DEF Marshalled, LostInv, RecordsSealed, RecordSealed
  <2>5. RecordsSealed'
    BY <1>1, <1>2, <2>1, <2>2, <2>3, <2>4
       DEF RecordsSealed, RecordSealed, Resumable, Installs, Over, Reliable, Watched, WithDisk,
           NoRecord, TypeOK
  <2>6. QED  BY <1>1, <1>2, <2>1, <2>5 DEF Reliable, ReadyMeansSealed, Installs, Over
<1>6. ASSUME NEW b \in Builds, Start(b) PROVE Holds'
  <2>1. \A x \in Builds : ~Live(x)
    BY <1>6 DEF DriverInv, Start, MayStart
  <2>2. ASSUME NEW x \in Builds PROVE Reliable(x)'
    <3>1. seen'[x] = {} /\ pc'[x] \notin WithDisk \cup Cloning
      BY <1>1, <1>2, <1>6, <2>1
         DEF Start, bounds, TypeOK, Goto, Reliable, Live, LivePcs, BeforeExit,
             Finishing, Watched, Sealing, WithDisk, Cloning
    <3>2. QED  BY <3>1 DEF Reliable, Watched, Sealing, WithDisk
  <2>3. RecordsSealed'
    BY <1>1, <1>2, <1>6
       DEF Start, RecordsSealed, RecordSealed, Resumable, Installs, Over, TypeOK, bounds, guest, disks
  <2>4. QED  BY <1>6, <2>2, <2>3 DEF Start, ReadyMeansSealed
<1>7. \A c \in Handlers : FALSE
  BY DEF Handlers
<1>8. CASE Crash
  <2>1. ASSUME NEW x \in Builds PROVE Reliable(x)'
    <3>1. seen'[x] = {} /\ pc'[x] \notin WithDisk \cup Cloning
      BY <1>8 DEF Crash, Live, LivePcs, BeforeExit, Finishing, Watched, Sealing, WithDisk, Cloning
    <3>2. QED  BY <3>1 DEF Reliable, Watched, Sealing, WithDisk
  <2>2. RecordsSealed'
    BY <1>1, <1>2, <1>8
       DEF Crash, RecordsSealed, RecordSealed, Resumable, Installs, Over, NoRecord, guest, disks
  <2>3. QED  BY <1>8, <2>1, <2>2 DEF Crash, ReadyMeansSealed
<1>9. CASE Load
  <2>1. /\ ~up /\ MaxCrashes # 0 /\ \A x \in Builds : ~Live(x)
        /\ UNCHANGED <<wr, seen, vm, vmi, inst, golden, meddles>>
    BY <1>9
       DEF Load, LoadResumes, LoadSettles, LoadFails, ClonedInv, DriverInv, proc, guest, disks,
           bounds
  <2>2. Holds
    BY <1>1, <1>2, <2>1
  <2>3. /\ status' = "Ready" => cm.st = "Ready"
        /\ cm'.st = "Ready" => cm.st = "Ready"
        /\ canResume(cm'.st) => canResume(cm.st)
    BY <1>9
       DEF Load, LoadResumes, LoadSettles, LoadFails, Abandoned, InProgress, canResume, StatusInv,
           TypeOK, Records
  <2>4. RecordsSealed'
    BY <2>1, <2>2, <2>3 DEF RecordsSealed, RecordSealed, Resumable, Installs, Over
  <2>5. ReadyMeansSealed'
    BY <2>1, <2>2, <2>3 DEF RecordsSealed, RecordSealed, ReadyMeansSealed
  <2>6. \A x \in Builds : Reliable(x)'
    <3>1. CASE pc' = pc
      BY <2>1, <2>2, <3>1 DEF Reliable, Installs, Over
    <3>2. ASSUME NEW b \in Builds, LoadResumes(b) PROVE \A x \in Builds : Reliable(x)'
      <4>1. /\ canResume(cm.st) /\ vm.st # "None" /\ pc[b] = "idle"
            /\ pc' = [pc EXCEPT ![b] = "wait"]
        BY <3>2 DEF LoadResumes, Fresh, Goto
      <4>2. seen'[b] = {} /\ inst.st = "Succeeded" /\ (Installs \/ Over)
        BY <2>1, <2>2, <4>1 DEF RecordsSealed, Resumable, Reliable, Finishing
      <4>3. Reliable(b)'
        BY <2>1, <4>1, <4>2
           DEF TypeOK, Reliable, Installs, Over, Watched, Sealing, WithDisk, Cloning
      <4>4. ASSUME NEW x \in Builds, x # b PROVE Reliable(x)'
        BY <2>1, <2>2, <4>1, <4>4 DEF TypeOK, Reliable, Installs, Over
      <4>5. QED  BY <4>3, <4>4
    <3>3. QED  BY <1>9, <3>1, <3>2 DEF Load, LoadSettles, LoadFails, proc
  <2>7. QED  BY <2>4, <2>5, <2>6
<1>10. CASE ClusterProgress \/ Outside
  <2>1. UNCHANGED <<pc, seen, status, cm, wr>>
    BY <1>10 DEF ClusterProgress, Outside, mem, proc
  <2>2. ~Meddles /\ meddles = 0
    BY <1>1, <1>10
       DEF ClusterProgress, Outside, IsoImported, JobPatches, InstBound, GoldenCopied, DvGone,
           VmiCreated, VmiRuns, AgentConnects, GuestSeals, VmiStops, VmiGone, VmGone,
           PowersOffEarly, Meddles, TypeOK
  <2>3. \A x \in Builds : Reliable(x)'
    BY <1>2, <1>10, <2>1, <2>2, ClusterReliable DEF Outside
  <2>4. golden' = golden \/ golden.st \in {"Pending", "Terminating"}
    BY <1>10
       DEF ClusterProgress, Outside, IsoImported, JobPatches, InstBound, GoldenCopied, DvGone,
           VmiCreated, VmiRuns, AgentConnects, GuestSeals, VmiStops, VmiGone, VmGone,
           PowersOffEarly, Meddles, disks
  <2>5. ReadyMeansSealed'
    BY <1>2, <2>1, <2>2, <2>4 DEF ReadyMeansSealed, ClonedInv, ReadyMeansCloned
  <2>6. RecordsSealed'
    BY <1>2, <1>10, <2>1, <2>2, ClusterRecords DEF RecordsSealed, Outside
  <2>7. QED  BY <2>3, <2>5, <2>6
<1>11. CASE UNCHANGED vars
  BY <1>3, <1>11 DEF vars, mem, proc, guest, disks, bounds
<1>12. QED  BY <1>4, <1>5, <1>6, <1>7, <1>8, <1>9, <1>10, <1>11 DEF Next

\* While nobody cancels and nobody shuts a guest down by hand, Ready is reported
\* only for a disk that sysprep sealed, whatever earlier builds and Setups failed
\* before: with any failed calls while the builder stays up, and with any crashes
\* and restarts while at most two calls fail. (With three, TLC shows a resumed
\* builder taking over a VM that the next build is already deleting.)
THEOREM ReadyIsSealed ==
  ASSUME MaxCancels = 0, MaxCrashes = 0 \/ MaxFaults <= 2
  PROVE  Spec => []ReadyMeansSealed
<1>1. Init => SealedInv
  BY DEF Init, SealedInv, Reliable, ReadyMeansSealed, RecordsSealed, RecordSealed, Resumable,
         canResume, NoRecord, Watched, Sealing, WithDisk, Cloning
<1>2. TypeOK /\ DriverInv /\ StatusInv /\ LostInv /\ ClonedInv /\ NoForeignGuest /\ SealedInv
        /\ [Next]_vars => SealedInv'
  BY ManagerAssumption, SealedStep
<1>3. MaxCrashes = 0 \/ MaxFaults <= 8
  BY ManagerAssumption DEF ManagerAssumption
<1>4. Spec => [](meddles = 0 => ReadyMeansSealed)
  BY <1>1, <1>2, <1>3, ClonedInvariant, TypeCorrect, DriverInvariant, StatusInvariant,
     LostInvariant, NoGuestLeft, PTL DEF Spec, SealedInv
<1>5. (meddles = 0 => ReadyMeansSealed) => ReadyMeansSealed
  BY DEF ReadyMeansSealed
<1>6. QED  BY <1>4, <1>5, PTL
=============================================================================
