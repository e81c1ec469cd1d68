---------------------------- MODULE BuildManager ----------------------------
(***************************************************************************)
(* The builder's Manager (builder/pipeline.go): the golden-image build of  *)
(* one disk name, from Start to Ready, Error or Cancelled, with the Cancel *)
(* handlers, the builder's crashes and restarts, and the cluster objects   *)
(* the build drives.  Everything the Manager keeps is keyed by disk name   *)
(* and no object is shared by two names, so the module follows one name.   *)
(*                                                                         *)
(* Processes: the goroutines of run and resume, numbered in the order they *)
(* start (the number stands for every creation timestamp the code          *)
(* compares); the HTTP goroutines of Cancel; and the cluster.  A step      *)
(* between two Kubernetes calls, or inside one m.mu section, is atomic.    *)
(* persist is its GET and its conditional PUT in one step: a PUT that      *)
(* loses the conflict leaves the other writer's record, as if it had come  *)
(* first.  What is not persisted under m.mu is the write that set still    *)
(* owes, wr[b].                                                            *)
(***************************************************************************)
EXTENDS Naturals, FiniteSets

CONSTANTS
  MaxBuilds,      \* goroutines (started or resumed builds) in a behaviour
  MaxCancels,     \* accepted Cancel requests
  MaxCrashes,     \* crashes of the builder
  MaxFaults,      \* failed Kubernetes calls, failed phases, failed Setups
  MaxMeddles,     \* times a person stops or deletes the install VM
  SlowCluster     \* TRUE: a deadline may expire before what it waits for

ASSUME ManagerAssumption ==
  /\ MaxBuilds \in Nat /\ MaxCancels \in Nat /\ MaxCrashes \in Nat
  /\ MaxFaults \in Nat /\ MaxMeddles \in Nat /\ SlowCluster \in BOOLEAN

VARIABLES
  up,             \* the builder process runs
  status, vmAt,   \* m.builds[disk].Status and .VMCreatedAt
  running, cancelled, finishing,   \* the Manager's three maps at this disk
  pc, wr,         \* goroutine: next step, and the record it is persisting
  since, seen,    \* goroutine: vmCreatedAfter, and vmiWaitState's evidence
  hpc, hwr,       \* Cancel handler: the same
  cm,             \* ConfigMap wb-build-<disk>
  vm, vmi,        \* install VM and its instance
  iso, job,       \* ISO DataVolume, and its patch Job
  inst, golden,   \* install and golden DataVolumes
  halted,         \* history: goroutines whose Cancel was accepted
  crashes, faults, meddles

mem    == <<up, status, vmAt, running, cancelled, finishing>>
proc   == <<pc, wr, since, seen>>
hnd    == <<hpc, hwr>>
guest  == <<vm, vmi>>
disks  == <<iso, job, inst, golden>>
bounds == <<crashes, faults, meddles>>
vars   == <<mem, proc, hnd, cm, guest, disks, halted, bounds>>

Builds   == 1 .. MaxBuilds
Handlers == 1 .. MaxCancels
Births   == 0 .. MaxBuilds          \* 0: no timestamp

Statuses == {"None", "Pending", "Installing", "Sysprep",
             "Ready", "Error", "Cancelled"}
InProgress == {"Pending", "Installing", "Sysprep"}
Records  == [st : Statuses, vm : Births]
NoRecord == [st |-> "None", vm |-> 0]

Vms   == [st : {"None", "Present", "Halted", "Deleting"}, by : Births]
Vmis  == [st : {"None", "Starting", "Running", "Succeeded"},
          by : Births, agent : BOOLEAN]
Isos  == [st : {"None", "Importing", "Succeeded", "Terminating"},
          patched : BOOLEAN, marked : BOOLEAN]
Dvs   == [st : {"None", "Pending", "Succeeded", "Terminating"},
          by : Births, data : {"blank", "partial", "sealed"}]
NoVm  == [st |-> "None", by |-> 0]
NoVmi == [st |-> "None", by |-> 0, agent |-> FALSE]
NoIso == [st |-> "None", patched |-> FALSE, marked |-> FALSE]
NoDv  == [st |-> "None", by |-> 0, data |-> "blank"]

BeforeExit == {"begin", "preflight", "drain", "import", "isoWait", "release",
               "released", "patch", "job", "blank", "instWait", "vmCreate",
               "vmMade", "wait", "exited"}
Finishing  == {"finDelete", "clone", "cloneWait", "publish"}
LivePcs    == BeforeExit \cup Finishing \cup {"ret"}
Live(b)    == pc[b] \in LivePcs

-----------------------------------------------------------------------------
(* Bookkeeping: set, persist, done.                                        *)

\* Mutant of set's early return: Cancelled itself is ignored too.
DropsAll(st) == cancelled

\* set ignores every status but Cancelled once Cancel marked the disk.
Drops(st) == cancelled /\ st # "Cancelled"

Assign(st)  == status' = IF Drops(st) THEN status ELSE st
Owed(st, v) == IF Drops(st) THEN NoRecord ELSE [st |-> st, vm |-> v]
Goto(b, l)  == pc' = [pc EXCEPT ![b] = l]

\* Goroutine b calls set(st), then goes on at l once the record is persisted.
Set(b, st, l) ==
  /\ Assign(st)
  /\ wr' = [wr EXCEPT ![b] = Owed(st, vmAt)]
  /\ Goto(b, l)

At(b, l) == pc[b] = l /\ wr[b] = NoRecord

Fault == faults < MaxFaults /\ faults' = faults + 1

\* Start persists through the shared pointer after unlocking, so what it
\* marshals may already be what another goroutine made of the record.
Marshalled(b) ==
  {wr[b]} \cup (IF pc[b] = "begin" THEN {[st |-> status, vm |-> vmAt]} ELSE {})

Persist(b) ==
  /\ wr[b] # NoRecord
  /\ wr' = [wr EXCEPT ![b] = NoRecord]
  /\ \/ cm' \in Marshalled(b) /\ UNCHANGED faults
     \/ Fault /\ UNCHANGED cm
  /\ UNCHANGED <<mem, pc, since, seen, hnd, guest, disks, halted, crashes, meddles>>

\* The deferred done of run and resume.
Done(b) ==
  /\ At(b, "ret")
  /\ running' = FALSE /\ cancelled' = FALSE /\ finishing' = FALSE
  /\ Goto(b, "done")
  /\ since' = [since EXCEPT ![b] = 0] /\ seen' = [seen EXCEPT ![b] = {}]
  /\ UNCHANGED <<up, status, vmAt, wr, hnd, cm, guest, disks, halted, bounds>>

\* A step whose only effect is on m.builds and on this goroutine.
MemoryOnly(b) ==
  UNCHANGED <<up, vmAt, running, cancelled, finishing, since, seen, hnd, cm,
              guest, disks, halted>>

\* A failed Kubernetes call or a Failed phase: the step's error return.
Fallible == {"import", "isoWait", "patch", "job", "blank", "instWait",
             "vmCreate", "wait", "clone", "cloneWait", "publish"}
StepFails(b) ==
  /\ pc[b] \in Fallible /\ wr[b] = NoRecord /\ Fault
  /\ Set(b, "Error", "ret")
  /\ MemoryOnly(b) /\ UNCHANGED <<crashes, meddles>>

\* The deadline of a wait expires (waitPhaseUntil, waitJob, deleteInstallVM,
\* waitVMI), or recreateDV gives up polling and its POST is refused.
WaitsNoJobDeadline == {"isoWait", "released", "instWait", "wait", "cloneWait"}
Waits == {"isoWait", "released", "job", "instWait", "wait", "cloneWait"}
Deadline(b) ==
  /\ SlowCluster /\ wr[b] = NoRecord
  /\ \/ pc[b] \in Waits
     \/ pc[b] = "import" /\ iso.st = "Terminating"
     \/ pc[b] = "blank" /\ inst.st = "Terminating"
     \/ pc[b] = "clone" /\ golden.st = "Terminating"
  /\ Set(b, "Error", "ret")
  /\ MemoryOnly(b) /\ UNCHANGED bounds

\* waitPhaseUntil and waitVMI return errCancelled; run's last check before
\* finishBuild and finishBuild's own check return at once.
Stops == {"isoWait", "instWait", "wait", "exited"}
StopSeen(b) ==
  /\ pc[b] \in Stops /\ wr[b] = NoRecord /\ cancelled
  /\ Set(b, "Error", "ret")
  /\ MemoryOnly(b) /\ UNCHANGED bounds

-----------------------------------------------------------------------------
(* Start, and run up to the install VM.                                    *)

Fresh(b) == pc[b] = "idle" /\ \A a \in Builds : pc[a] = "idle" => b <= a

\* Bound: a restart still to come keeps an id for the build it resumes.
Spare(b) == b + (MaxCrashes - crashes) <= MaxBuilds

\* Mutants: the running build is not looked at, or not noted.
MayStartAgain == up
MarkNothing   == UNCHANGED running

MayStart    == up /\ ~running
MarkRunning == running' = TRUE

Start(b) ==
  /\ MayStart /\ Fresh(b) /\ Spare(b)
  /\ MarkRunning
  /\ status' = "Pending" /\ vmAt' = 0
  /\ wr' = [wr EXCEPT ![b] = [st |-> "Pending", vm |-> 0]]
  /\ Goto(b, "begin")
  /\ UNCHANGED <<up, cancelled, finishing, since, seen, hnd, cm, guest, disks, halted, bounds>>

RunBegins(b) ==
  /\ At(b, "begin")
  /\ Set(b, "Pending", "preflight")
  /\ MemoryOnly(b) /\ UNCHANGED bounds

\* DELETE of the install VM and its instance, errors ignored.
DeleteGuest ==
  \/ vm' = (IF vm.st = "None" THEN vm ELSE [vm EXCEPT !.st = "Deleting"])
     /\ UNCHANGED faults
  \/ Fault /\ UNCHANGED vm

NoGuest == vm.st = "None" /\ vmi.st = "None"

\* preflightCleanup: delete leftovers, and a record that says Error ...
Preflight(b) ==
  /\ At(b, "preflight")
  /\ DeleteGuest
  /\ cm' = IF cm.st = "Error" THEN NoRecord ELSE cm
  /\ Goto(b, "drain")
  /\ UNCHANGED <<mem, wr, since, seen, hnd, vmi, disks, halted, crashes, meddles>>

\* ... and wait for them, at most three minutes, going on either way.
Drain(b) ==
  /\ At(b, "drain")
  /\ NoGuest \/ SlowCluster
  /\ Set(b, "Pending", "import")
  /\ MemoryOnly(b) /\ UNCHANGED bounds

\* recreateDV's wait: an object that is there is deleted once.
DeleteIso == iso' = [iso EXCEPT !.st = "Terminating"]

\* ensureHTTPDataVolume: a finished import of the same URL is reused.
ImportReuse(b) ==
  /\ At(b, "import") /\ iso.st = "Succeeded"
  /\ Goto(b, "isoWait")
  /\ UNCHANGED <<mem, wr, since, seen, hnd, cm, guest, disks, halted, bounds>>

ImportDelete(b) ==
  /\ At(b, "import") /\ iso.st \in {"Importing", "Succeeded"}
  /\ DeleteIso
  /\ UNCHANGED <<mem, proc, hnd, cm, guest, job, inst, golden, halted, bounds>>

ImportCreate(b) ==
  /\ At(b, "import") /\ iso.st = "None"
  /\ iso' = [NoIso EXCEPT !.st = "Importing"]
  /\ Goto(b, "isoWait")
  /\ UNCHANGED <<mem, wr, since, seen, hnd, cm, guest, job, inst, golden, halted, bounds>>

IsoReady(b) ==
  /\ At(b, "isoWait") /\ ~cancelled /\ iso.st = "Succeeded"
  /\ Set(b, "Pending", "release")
  /\ MemoryOnly(b) /\ UNCHANGED bounds

\* deleteInstallVM: the patch Job must not share the ISO with a running guest.
Release(b) ==
  /\ At(b, "release")
  /\ DeleteGuest
  /\ Goto(b, "released")
  /\ UNCHANGED <<mem, wr, since, seen, hnd, cm, vmi, disks, halted, crashes, meddles>>

\* Mutant: the guest is deleted and not waited for.
AnyGuest == TRUE

GuestReleased == NoGuest

Released(b) ==
  /\ At(b, "released") /\ GuestReleased
  /\ Set(b, "Pending", "patch")
  /\ MemoryOnly(b) /\ UNCHANGED bounds

\* patchISOForUnattendedEFI: an annotated ISO is done, else, and when the GET of
\* the annotation fails, the old Job is deleted and a new one created.
Annotated == iso.marked /\ iso.st # "None"

PatchSkip(b) ==
  /\ At(b, "patch") /\ Annotated
  /\ Set(b, "Pending", "blank")
  /\ MemoryOnly(b) /\ UNCHANGED bounds

PatchJob(b) ==
  /\ At(b, "patch")
  /\ \/ ~Annotated /\ UNCHANGED faults
     \/ Annotated /\ Fault
  /\ job' = "Running"
  /\ Goto(b, "job")
  /\ UNCHANGED <<mem, wr, since, seen, hnd, cm, guest, iso, inst, golden, halted, crashes, meddles>>

\* Mutant: the Job is not waited for.
JobThere == job # "None"

JobDone == job = "Succeeded"

\* waitJob has no stop; the annotation's error is only logged.
JobWaited(b) ==
  /\ At(b, "job") /\ JobDone
  /\ \/ iso' = [iso EXCEPT !.marked = iso.st # "None"] /\ UNCHANGED faults
     \/ Fault /\ UNCHANGED iso
  /\ Set(b, "Pending", "blank")
  /\ UNCHANGED <<up, vmAt, running, cancelled, finishing, since, seen, hnd, cm,
                 guest, job, inst, golden, halted, crashes, meddles>>

\* ensureBlankDataVolume: always recreated.
BlankDelete(b) ==
  /\ At(b, "blank") /\ inst.st \in {"Pending", "Succeeded"}
  /\ inst' = [inst EXCEPT !.st = "Terminating"]
  /\ UNCHANGED <<mem, proc, hnd, cm, guest, iso, job, golden, halted, bounds>>

BlankCreate(b) ==
  /\ At(b, "blank") /\ inst.st = "None"
  /\ inst' = [NoDv EXCEPT !.st = "Pending", !.by = b]
  /\ Goto(b, "instWait")
  /\ UNCHANGED <<mem, wr, since, seen, hnd, cm, guest, iso, job, golden, halted, bounds>>

\* The wait for the install disk and the stop check that follows it; the
\* install VM is created only after another persist.
InstReady(b) ==
  /\ At(b, "instWait") /\ ~cancelled /\ inst.st = "Succeeded"
  /\ Set(b, "Pending", "vmCreate")
  /\ MemoryOnly(b) /\ UNCHANGED bounds

\* ensureInstallVM. Its branch for a VM that is still there is never taken:
\* Released saw none and nothing else creates one (NoForeignGuest).
VmCreate(b) ==
  /\ At(b, "vmCreate") /\ vm.st = "None"
  /\ vm' = [st |-> "Present", by |-> b]
  /\ since' = [since EXCEPT ![b] = b]
  /\ Goto(b, "vmMade")
  /\ UNCHANGED <<mem, wr, seen, hnd, cm, vmi, disks, halted, bounds>>

\* Mutant: the record is copied before it learns VMCreatedAt.
StaleCopy(b) == vmAt

RecordCopy(b) == since[b]

\* The record learns VMCreatedAt and Installing together.
VmRecorded(b) ==
  /\ At(b, "vmMade")
  /\ vmAt' = since[b]
  /\ Assign("Installing")
  /\ wr' = [wr EXCEPT ![b] = Owed("Installing", RecordCopy(b))]
  /\ Goto(b, "wait")
  /\ UNCHANGED <<up, running, cancelled, finishing, since, seen, hnd, cm,
                 guest, disks, halted, bounds>>

-----------------------------------------------------------------------------
(* waitVMI: what one poll may see.  A VM or instance created before        *)
(* vmCreatedAfter is ignored.                                              *)

\* Mutant: the build's own VM, created in the same second, counts as stale.
MineStrictly(o, b) == o.by > since[b]

Mine(o, b) == o.by >= since[b]

\* Mutant of evaluateGuestExit: the agent is not required.
AnyExit(ev) == TRUE

\* evaluateGuestExit, for the virtio builds Start insists on.
ExitAccepted(ev) == "agent" \in ev

GuestExited(b, ev) ==
  /\ IF ExitAccepted(ev)
       THEN Goto(b, "exited") /\ UNCHANGED <<status, wr>>
       ELSE Set(b, "Error", "ret")
  /\ MemoryOnly(b) /\ UNCHANGED bounds

AgentSeen == IF vmi.agent THEN {"agent"} ELSE {}

WaitRunning(b) ==
  /\ At(b, "wait") /\ ~cancelled /\ vmi.st = "Running" /\ Mine(vmi, b)
  /\ seen' = [seen EXCEPT ![b] = @ \cup {"running"} \cup AgentSeen]
  /\ seen' # seen \/ (vmi.agent /\ status # "Sysprep")
  /\ IF vmi.agent /\ status # "Sysprep"
       THEN Set(b, "Sysprep", "wait")
       ELSE UNCHANGED <<status, wr, pc>>
  /\ UNCHANGED <<up, vmAt, running, cancelled, finishing, since, hnd, cm, guest,
                 disks, halted, bounds>>

\* The finished instance still tells that it ran and had an agent.
WaitSucceeded(b) ==
  /\ At(b, "wait") /\ ~cancelled /\ vmi.st = "Succeeded" /\ Mine(vmi, b)
  /\ GuestExited(b, seen[b] \cup {"running"} \cup AgentSeen)

\* interpretVMINotFound: the VM is Stopped, or (three polls in a row) in a
\* status the code does not list, such as Terminating.
WaitStopped(b) ==
  /\ At(b, "wait") /\ ~cancelled /\ vmi.st = "None"
  /\ vm.st \in {"Halted", "Deleting"} /\ Mine(vm, b) /\ "running" \in seen[b]
  /\ GuestExited(b, seen[b])

\* ... or gone: at once after Running was seen, else after 15 polls.
WaitMissing(b) ==
  /\ At(b, "wait") /\ ~cancelled /\ NoGuest
  /\ Set(b, "Error", "ret")
  /\ MemoryOnly(b) /\ UNCHANGED bounds

-----------------------------------------------------------------------------
(* finishBuild.                                                            *)

FinishBegins(b) ==
  /\ At(b, "exited") /\ ~cancelled
  /\ finishing' = TRUE
  /\ Set(b, "Pending", "finDelete")
  /\ UNCHANGED <<up, vmAt, running, cancelled, since, seen, hnd, cm, guest, disks, halted, bounds>>

FinishDeletesVm(b) ==
  /\ At(b, "finDelete")
  /\ DeleteGuest
  /\ Goto(b, "clone")
  /\ UNCHANGED <<mem, wr, since, seen, hnd, cm, vmi, disks, halted, crashes, meddles>>

\* The old golden disk goes first (finishBuild and recreateDV both see to it).
GoldenDelete(b) ==
  /\ At(b, "clone") /\ golden.st \in {"Pending", "Succeeded"}
  /\ golden' = [golden EXCEPT !.st = "Terminating"]
  /\ UNCHANGED <<mem, proc, hnd, cm, guest, iso, job, inst, halted, bounds>>

GoldenClone(b) ==
  /\ At(b, "clone") /\ golden.st = "None"
  /\ golden' = [NoDv EXCEPT !.st = "Pending", !.by = since[b]]
  /\ Goto(b, "cloneWait")
  /\ UNCHANGED <<mem, wr, since, seen, hnd, cm, guest, iso, job, inst, halted, bounds>>

\* Mutant: any phase will do.
CloneThere == golden.st # "None"

CloneDone == golden.st = "Succeeded"

\* waitPhase: finishing, the build no longer stops.
Cloned(b) ==
  /\ At(b, "cloneWait") /\ CloneDone
  /\ Goto(b, "publish")
  /\ UNCHANGED <<mem, wr, since, seen, hnd, cm, guest, disks, halted, bounds>>

\* Mutant: the DataVolume's phase is reported as the build's status.
ReportsPhase == golden.st

Reported == "Ready"

\* ensureDataSource, ensureTemplate, Ready.
Publish(b) ==
  /\ At(b, "publish")
  /\ Set(b, Reported, "ret")
  /\ MemoryOnly(b) /\ UNCHANGED bounds

-----------------------------------------------------------------------------
(* Cancel, in the HTTP handler's goroutine.                                *)

\* Mutant: finishing is not looked at.
MayCancelAlways == up /\ running

MayCancel == up /\ running /\ ~finishing

\* Cancel marks the disk; refusals (409) change nothing.
CancelAccepted(c) ==
  /\ MayCancel /\ hpc[c] = "idle"
  /\ cancelled' = TRUE
  /\ hpc' = [hpc EXCEPT ![c] = "vm"]
  /\ halted' = halted \cup {b \in Builds : Live(b)}
  /\ UNCHANGED <<up, status, vmAt, running, finishing, proc, hwr, cm, guest, disks, bounds>>

CancelDeletesVm(c) ==
  /\ hpc[c] = "vm"
  /\ DeleteGuest
  /\ hpc' = [hpc EXCEPT ![c] = "disk"]
  /\ UNCHANGED <<mem, proc, hwr, cm, vmi, disks, halted, crashes, meddles>>

Deleted(dv) == IF dv.st = "None" THEN dv ELSE [dv EXCEPT !.st = "Terminating"]

\* Mutant: the build's disk name is taken for that of its install disk.
GoldenDeleted == golden' = Deleted(golden) /\ UNCHANGED inst

DiskDeleted == inst' = Deleted(inst) /\ UNCHANGED golden

CancelDeletesDisk(c) ==
  /\ hpc[c] = "disk"
  /\ \/ DiskDeleted /\ UNCHANGED faults
     \/ Fault /\ UNCHANGED <<inst, golden>>
  /\ hpc' = [hpc EXCEPT ![c] = "iso"]
  /\ UNCHANGED <<mem, proc, hwr, cm, guest, iso, job, halted, crashes, meddles>>

\* The GET that decides, and the DELETE that follows it.
CancelReadsIso(c) ==
  /\ hpc[c] = "iso"
  /\ hpc' = [hpc EXCEPT ![c] =
               IF iso.st \in {"None", "Succeeded"} THEN "set" ELSE "isoDelete"]
  /\ UNCHANGED <<mem, proc, hwr, cm, guest, disks, halted, bounds>>

CancelDeletesIso(c) ==
  /\ hpc[c] = "isoDelete"
  /\ iso' = Deleted(iso)
  /\ hpc' = [hpc EXCEPT ![c] = "set"]
  /\ UNCHANGED <<mem, proc, hwr, cm, guest, job, inst, golden, halted, bounds>>

CancelSets(c) ==
  /\ hpc[c] = "set"
  /\ Assign("Cancelled")
  /\ hwr' = [hwr EXCEPT ![c] = Owed("Cancelled", vmAt)]
  /\ hpc' = [hpc EXCEPT ![c] = "persist"]
  /\ UNCHANGED <<up, vmAt, running, cancelled, finishing, proc, cm, guest, disks, halted, bounds>>

CancelPersists(c) ==
  /\ hpc[c] = "persist"
  /\ \/ cm' = hwr[c] /\ UNCHANGED faults
     \/ Fault /\ UNCHANGED cm
  /\ hwr' = [hwr EXCEPT ![c] = NoRecord]
  /\ hpc' = [hpc EXCEPT ![c] = "done"]
  /\ UNCHANGED <<mem, proc, guest, disks, halted, crashes, meddles>>

-----------------------------------------------------------------------------
(* The builder dies and restarts.                                          *)

Crash ==
  /\ up /\ crashes < MaxCrashes
  /\ crashes' = crashes + 1
  /\ up' = FALSE
  /\ status' = "None" /\ vmAt' = 0
  /\ running' = FALSE /\ cancelled' = FALSE /\ finishing' = FALSE
  /\ pc' = [b \in Builds |-> IF Live(b) THEN "done" ELSE pc[b]]
  /\ wr' = [b \in Builds |-> NoRecord]
  /\ since' = [b \in Builds |-> 0] /\ seen' = [b \in Builds |-> {}]
  /\ hpc' = [c \in Handlers |-> IF hpc[c] = "idle" THEN "idle" ELSE "done"]
  /\ hwr' = [c \in Handlers |-> NoRecord]
  /\ UNCHANGED <<cm, guest, disks, halted, faults, meddles>>

\* Mutant of canResume: a build past Installing is given up.
ResumesInstalling(st) == st = "Installing"

canResume(st) == st \in {"Installing", "Sysprep"}

\* Mutant: a build that cannot be resumed keeps its status.
KeepsStatus(st) == st

\* What becomes of the status of a record that is not resumed.
Abandoned(st) == IF st \in InProgress THEN "Error" ELSE st

\* loadFromCluster resumes: the record is persisted before go resume.
LoadResumes(b) ==
  /\ ~up /\ canResume(cm.st) /\ vm.st # "None" /\ Fresh(b)
  /\ up' = TRUE /\ MarkRunning
  /\ status' = cm.st /\ vmAt' = cm.vm
  /\ Goto(b, "wait")
  /\ since' = [since EXCEPT ![b] = cm.vm]
  /\ UNCHANGED <<cancelled, finishing, wr, seen, hnd, cm, guest, disks, halted, bounds>>

\* ... or does not: no such VM (or its GET failed), or nothing to resume.
LoadSettles ==
  /\ ~up
  /\ \/ ~(canResume(cm.st) /\ vm.st # "None") /\ UNCHANGED faults
     \/ canResume(cm.st) /\ Fault
  /\ up' = TRUE
  /\ status' = Abandoned(cm.st) /\ vmAt' = cm.vm
  /\ cm' = [cm EXCEPT !.st = Abandoned(cm.st)]
  /\ UNCHANGED <<running, cancelled, finishing, proc, hnd, guest, disks, halted, crashes, meddles>>

\* The list itself fails: the builder starts with no builds.
LoadFails ==
  /\ ~up /\ Fault
  /\ up' = TRUE
  /\ UNCHANGED <<status, vmAt, running, cancelled, finishing, proc, hnd, cm,
                 guest, disks, halted, crashes, meddles>>

-----------------------------------------------------------------------------
(* The cluster (external): CDI, KubeVirt, the patch Job and the guest.     *)

IsoImported ==
  /\ iso.st = "Importing" /\ iso' = [iso EXCEPT !.st = "Succeeded"]
  /\ UNCHANGED <<job, inst, golden, guest, meddles>>

\* The Job can mount the ISO's claim only while the DataVolume is there.
JobPatches ==
  /\ job = "Running" /\ iso.st = "Succeeded"
  /\ iso' = [iso EXCEPT !.patched = TRUE] /\ job' = "Succeeded"
  /\ UNCHANGED <<inst, golden, guest, meddles>>

InstBound ==
  /\ inst.st = "Pending" /\ inst' = [inst EXCEPT !.st = "Succeeded"]
  /\ UNCHANGED <<iso, job, golden, guest, meddles>>

GoldenCopied ==
  /\ golden.st = "Pending" /\ inst.st = "Succeeded"
  /\ golden' = [golden EXCEPT !.st = "Succeeded", !.data = inst.data]
  /\ UNCHANGED <<iso, job, inst, guest, meddles>>

DvGone ==
  /\ \/ iso.st = "Terminating" /\ iso' = NoIso /\ UNCHANGED <<inst, golden>>
     \/ inst.st = "Terminating" /\ inst' = NoDv /\ UNCHANGED <<iso, golden>>
     \/ golden.st = "Terminating" /\ golden' = NoDv /\ UNCHANGED <<iso, inst>>
  /\ UNCHANGED <<job, guest, meddles>>

VmiCreated ==
  /\ vm.st = "Present" /\ vmi.st = "None"
  /\ iso.st = "Succeeded" /\ inst.st = "Succeeded"
  /\ vmi' = [st |-> "Starting", by |-> vm.by, agent |-> FALSE]
  /\ UNCHANGED <<vm, disks, meddles>>

\* Setup boots from the patched ISO and starts writing the disk.
VmiRuns ==
  /\ vmi.st = "Starting" /\ vm.st = "Present"
  /\ vmi' = [vmi EXCEPT !.st = "Running"]
  /\ inst' = IF inst.st # "None" THEN [inst EXCEPT !.data = "partial"] ELSE inst
  /\ UNCHANGED <<vm, iso, job, golden, meddles>>

AgentConnects ==
  /\ vmi.st = "Running" /\ ~vmi.agent
  /\ vmi' = [vmi EXCEPT !.agent = TRUE]
  /\ UNCHANGED <<vm, disks, meddles>>

\* sysprep /generalize /shutdown, once virtio-win and the agent are installed.
GuestSeals ==
  /\ vmi.st = "Running" /\ vmi.agent
  /\ vmi' = [vmi EXCEPT !.st = "Succeeded"]
  /\ inst' = IF inst.st # "None" THEN [inst EXCEPT !.data = "sealed"] ELSE inst
  /\ UNCHANGED <<vm, iso, job, golden, meddles>>

\* The guest of a VM that was stopped or deleted shuts down unsealed.
VmiStops ==
  /\ vm.st \in {"Halted", "Deleting"} /\ vmi.st \in {"Starting", "Running"}
  /\ vmi' = IF vmi.st = "Running" THEN [vmi EXCEPT !.st = "Succeeded"] ELSE NoVmi
  /\ UNCHANGED <<vm, disks, meddles>>

VmiGone ==
  /\ vm.st \in {"Halted", "Deleting"} /\ vmi.st = "Succeeded"
  /\ vmi' = NoVmi
  /\ UNCHANGED <<vm, disks, meddles>>

VmGone ==
  /\ vm.st = "Deleting" /\ vmi.st = "None"
  /\ vm' = NoVm
  /\ UNCHANGED <<vmi, disks, meddles>>

\* Setup powers off before the agent is there (docs/install-job.md, step 5).
PowersOffEarly ==
  /\ vmi.st = "Running" /\ ~vmi.agent /\ Fault
  /\ vmi' = [vmi EXCEPT !.st = "Succeeded"]
  /\ UNCHANGED <<vm, disks, meddles>>

\* Someone stops or deletes the install VM.
Meddles ==
  /\ vm.st = "Present" /\ vmi.st = "Running" /\ meddles < MaxMeddles
  /\ meddles' = meddles + 1
  /\ \E s \in {"Halted", "Deleting"} : vm' = [vm EXCEPT !.st = s]
  /\ UNCHANGED <<vmi, disks, faults>>

ClusterProgress ==
  /\ \/ IsoImported \/ JobPatches \/ InstBound \/ GoldenCopied \/ DvGone
     \/ VmiCreated \/ VmiRuns \/ AgentConnects \/ GuestSeals
     \/ VmiStops \/ VmiGone \/ VmGone
  /\ UNCHANGED <<mem, proc, hnd, cm, halted, crashes, faults>>

Outside ==
  /\ PowersOffEarly \/ Meddles
  /\ UNCHANGED <<mem, proc, hnd, cm, halted, crashes>>

-----------------------------------------------------------------------------

Init ==
  /\ up = TRUE /\ status = "None" /\ vmAt = 0
  /\ running = FALSE /\ cancelled = FALSE /\ finishing = FALSE
  /\ pc = [b \in Builds |-> "idle"] /\ wr = [b \in Builds |-> NoRecord]
  /\ since = [b \in Builds |-> 0] /\ seen = [b \in Builds |-> {}]
  /\ hpc = [c \in Handlers |-> "idle"] /\ hwr = [c \in Handlers |-> NoRecord]
  /\ cm = NoRecord /\ vm = NoVm /\ vmi = NoVmi
  /\ iso = NoIso /\ job = "None" /\ inst = NoDv /\ golden = NoDv
  /\ halted = {} /\ crashes = 0 /\ faults = 0 /\ meddles = 0

\* What run does up to the install VM.
Prepare(b) ==
  \/ RunBegins(b) \/ Preflight(b) \/ Drain(b)
  \/ ImportReuse(b) \/ ImportDelete(b) \/ ImportCreate(b) \/ IsoReady(b)
  \/ Release(b) \/ Released(b) \/ PatchSkip(b) \/ PatchJob(b) \/ JobWaited(b)
  \/ BlankDelete(b) \/ BlankCreate(b) \/ InstReady(b)
  \/ VmCreate(b) \/ VmRecorded(b)

WaitVMI(b) ==
  WaitRunning(b) \/ WaitSucceeded(b) \/ WaitStopped(b) \/ WaitMissing(b)

FinishBuild(b) ==
  \/ FinishBegins(b) \/ FinishDeletesVm(b) \/ GoldenDelete(b)
  \/ GoldenClone(b) \/ Cloned(b) \/ Publish(b)

BuildStep(b) ==
  \/ Persist(b) \/ Prepare(b) \/ WaitVMI(b) \/ FinishBuild(b)
  \/ StepFails(b) \/ Deadline(b) \/ StopSeen(b) \/ Done(b)

CancelStep(c) ==
  \/ CancelDeletesVm(c) \/ CancelDeletesDisk(c) \/ CancelReadsIso(c)
  \/ CancelDeletesIso(c) \/ CancelSets(c) \/ CancelPersists(c)

Load == (\E b \in Builds : LoadResumes(b)) \/ LoadSettles \/ LoadFails

Next ==
  \/ \E b \in Builds : Start(b) \/ BuildStep(b)
  \/ \E c \in Handlers : CancelAccepted(c) \/ CancelStep(c)
  \/ Crash \/ Load
  \/ ClusterProgress \/ Outside

Spec == Init /\ [][Next]_vars

\* Goroutines run, the kubelet restarts the builder, and the cluster's
\* controllers reconcile; nobody has to start, cancel, crash or meddle.
Fairness ==
  /\ \A b \in Builds : WF_vars(BuildStep(b))
  /\ \A c \in Handlers : WF_vars(CancelStep(c))
  /\ WF_vars(Load)
  /\ WF_vars(ClusterProgress)

FairSpec == Spec /\ Fairness

HandlersIdle == \A c \in Handlers : hpc[c] \in {"idle", "done"}
Settled == up /\ HandlersIdle /\ \A b \in Builds : wr[b] = NoRecord

-----------------------------------------------------------------------------
(* Properties.                                                             *)

\* Every variable keeps its type.
TypeOK ==
  /\ up \in BOOLEAN /\ status \in Statuses /\ vmAt \in Births
  /\ running \in BOOLEAN /\ cancelled \in BOOLEAN /\ finishing \in BOOLEAN
  /\ pc \in [Builds -> LivePcs \cup {"idle", "done"}]
  /\ wr \in [Builds -> Records]
  /\ since \in [Builds -> Births] /\ seen \in [Builds -> SUBSET {"running", "agent"}]
  /\ hpc \in [Handlers -> {"idle", "vm", "disk", "iso", "isoDelete", "set", "persist", "done"}]
  /\ hwr \in [Handlers -> Records]
  /\ cm \in Records /\ vm \in Vms /\ vmi \in Vmis
  /\ iso \in Isos /\ job \in {"None", "Running", "Succeeded"}
  /\ inst \in Dvs /\ golden \in Dvs
  /\ halted \in SUBSET Builds
  /\ crashes \in 0 .. MaxCrashes /\ faults \in 0 .. MaxFaults
  /\ meddles \in 0 .. MaxMeddles

\* Two goroutines never build the same disk, across Start, resume and done;
\* running says whether one does.
SingleDriver ==
  /\ \A a, b \in Builds : Live(a) /\ Live(b) => a = b
  /\ running <=> \E b \in Builds : Live(b)

\* Cancel's refusal and finishBuild's check exclude each other: a build whose
\* Cancel was accepted never reaches the steps that replace the golden disk,
\* and the flags of one build never reach the next.
CancelExcludesFinish ==
  /\ ~(cancelled /\ finishing)
  /\ \A b \in halted : pc[b] \notin Finishing
  /\ (cancelled \/ finishing) => running

\* The golden disk is deleted or re-created only by a live build whose Cancel
\* was not accepted.
GoldenReplaced == golden' # golden /\ golden'.st \in {"Terminating", "Pending"}
GoldenOnlyByUncancelled ==
  [][GoldenReplaced => \E b \in Builds \ halted : Live(b)]_vars

\* A status that says a build is under way is driven by a goroutine, or about
\* to be settled by a Cancel: no restart, error or cancel path leaves the UI
\* polling a build nobody works on.
NoOrphanStatus ==
  up /\ status \in InProgress /\ HandlersIdle => running

\* From the patch Job to the creation of the install VM no earlier guest is
\* left: the ISO is not patched under a running guest, and nobody writes the
\* new install disk.
NoForeignGuest ==
  \A b \in Builds :
    pc[b] \in {"patch", "job", "blank", "instWait", "vmCreate"} => NoGuest

\* Where no Cancel interferes, the install VM is created on a blank disk of
\* this very build and on an ISO that boots without a key press, whatever an
\* earlier, crashed or failed build left behind.
VmCreated == vm.st = "None" /\ vm'.st = "Present"
CleanBoot ==
  [][VmCreated =>
       /\ inst.st = "Succeeded" /\ inst.data = "blank" /\ inst.by = vm'.by
       /\ iso.st = "Succeeded" /\ iso.patched]_vars

\* What Ready announces is a sealed disk, whatever crashes, restarts and failed
\* Setups preceded it, as long as nobody shuts a guest down by hand
\* (DeletedVmNotAccepted is about that) and no three records in a row are lost:
\* a restart would then resume a build whose VM the next one is deleting.
ReadyMeansSealed == status = "Ready" /\ meddles = 0 => golden.data = "sealed"

\* Ready is reported only while the golden disk is there, and it is the clone
\* of the install disk of the VM this very record names (docs/install-job.md:
\* never Ready unless the target DataVolume Succeeded).
ReadyMeansCloned ==
  status = "Ready" => golden.st = "Succeeded" /\ golden.by = vmAt

\* With no call failing and no write under way, the ConfigMap says what the
\* Manager says, so a restart starts from the truth.
RecordMatchesMemory == Settled /\ faults = 0 => cm = [st |-> status, vm |-> vmAt]

\* Every goroutine ends: no wait outlives its deadline, no stop is missed.
BuildsEnd == \A b \in Builds : Live(b) ~> ~Live(b)

\* With no failure, an accepted Start leads to Ready, whatever earlier builds
\* of the disk left behind, unless the builder dies on the way.
StartLeadsToReady == (status = "Pending") ~> (status = "Ready" \/ crashes > 0)

\* A builder restart during Windows Setup or updates does not lose the build
\* (resume): it still ends in Ready.
ResumeLeadsToReady ==
  (~up /\ cm.st \in {"Installing", "Sysprep"} /\ vm.st = "Present") ~> (status = "Ready")

-----------------------------------------------------------------------------
(* BuildLifecycle, as seen through the Manager's maps.                     *)

Stage ==
  IF ~up THEN "down" ELSE IF ~running THEN "idle"
  ELSE IF cancelled THEN "stopping" ELSE IF finishing THEN "committed" ELSE "building"

\* A Cancel handler between its acceptance and its set.
CancelOwed == \E c \in Handlers : hpc[c] \in {"vm", "disk", "iso", "isoDelete", "set"}

Lifecycle == INSTANCE BuildLifecycle
  WITH stage <- Stage, shown <- status, owed <- CancelOwed, golden <- golden.st

\* Every step of the goroutines, the handlers, a crash, a restart and the cluster
\* is a step of the life cycle or none: one build at a time, final verdicts, no
\* report but Cancelled after a Cancel, the golden disk only replaced past the
\* point of no Cancel, Ready only after its copy, no build without a verdict.
ImplementsLifecycle == Lifecycle!Spec

-----------------------------------------------------------------------------
(* What the code's comments say, and interleavings refute.                 *)

\* builder/pipeline.go:167: "Cancel stops a running build and removes its
\* install VM and disks": once the handler has answered and the goroutine has
\* ended, no VM is left (or it is on its way out).
CancelRemovesVm ==
  status = "Cancelled" /\ ~running /\ HandlersIdle /\ faults = 0
    => vm.st \in {"None", "Deleting"}

\* builder/pipeline.go:820: a VM that disappears while the guest was running
\* "was deleted by someone else: its disk is not known to be sealed, so never
\* clone it".  (Where there is no Cancel, only someone else deletes it.)
DeletedVmNotAccepted ==
  [][\A b \in Builds :
       pc[b] = "wait" /\ pc'[b] = "exited" /\ vm.st = "Deleting"
         => inst.data = "sealed"]_vars
=============================================================================
