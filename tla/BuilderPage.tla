---------------------------- MODULE BuilderPage ----------------------------
(***************************************************************************)
(* The build list of the console page (components/WindowsBuilderPage.tsx   *)
(* over utils/builder-api.ts): polls, Cancel behind a confirmation, and    *)
(* Start.  The browser runs one callback at a time; between two awaits a   *)
(* call is suspended and any other may run, so answers reach the page in   *)
(* any order.  The builder is seen through its API, as BuildManager has    *)
(* it: a disk's build is reported active or over, its goroutine runs and   *)
(* returns, and a Cancel is accepted first and reported four Kubernetes    *)
(* calls later, by when another build of the disk may run.  Other people   *)
(* start and cancel builds too.                                            *)
(***************************************************************************)
EXTENDS Naturals

CONSTANTS
  Disks, None,   \* disk names; None is the empty string
  Polls, Users,  \* refreshBuilds calls of the timer, and calls of the buttons
  Bounds         \* what a behaviour may have, see BoundTypes

Calls == Polls \cup Users

\* Disks whose first build runs when the page opens, and disks whose builds do
\* not end by themselves; builds of each disk; accepted Cancels of a disk at one
\* time that nobody here waits for; requests or answers that are lost.
BoundTypes ==
  [running : SUBSET Disks, lasting : SUBSET Disks,
   runs : [Disks -> Nat], late : [Disks -> Nat], faults : Nat]

ASSUME PageAssumption ==
  /\ None \notin Disks /\ Users # {} /\ Polls \cap Users = {}
  /\ Bounds \subseteq BoundTypes
  /\ \A b \in Bounds : \A d \in b.running : b.runs[d] > 0

VARIABLES
  srv,                  \* the builder: per disk, its last build and whether it is reported active
  work, cancelled,      \* its goroutine, and the disks with m.cancelled
  late,                 \* accepted Cancels without a report whose caller is gone, or not here
  told,                 \* history: a Cancel's report fell into the disk's last build
  builds, builderUp,    \* what the page shows
  cancelConfirm, cancelling, saving,   \* (the texts of alerts are left out)
  call,                 \* the suspended calls
  bound, faults

page    == <<cancelConfirm, cancelling, saving>>
builder == <<srv, work, cancelled, late, told>>
limits  == <<bound, faults>>
vars    == <<builder, builds, builderUp, page, call, limits>>

Views    == [Disks -> [run : Nat, active : BOOLEAN]]
Nothing  == [d \in Disks |-> [run |-> 0, active |-> FALSE]]
Steps    == {"idle", "request", "handled", "accepted", "refused", "health", "list", "listed"}
Idle     == [kind |-> "none", disk |-> None, at |-> "idle", got |-> Nothing]

Fault == faults < bound.faults /\ faults' = faults + 1 /\ UNCHANGED bound

Begin(k, kind, d, l) ==
  /\ call[k].at = "idle"
  /\ call' = [call EXCEPT ![k] = [Idle EXCEPT !.kind = kind, !.disk = d, !.at = l]]

Goes(k, from, to) == call[k].at = from /\ call' = [call EXCEPT ![k].at = to]

\* Mutants: the state is unset, or stays after an error.
UndefinedAfter(k) == "undefined"
KeptAfterError(k) == IF call[k].at = "refused" THEN cancelling ELSE None

\* finally { setCancelling('') }, whichever disk it is set to.
CancellingAfter(k) == None

\* A call ends, through its finally block.
Ends(k) ==
  /\ call' = [call EXCEPT ![k] = Idle]
  /\ cancelling' = IF call[k].kind = "cancel" THEN CancellingAfter(k) ELSE cancelling
  /\ saving' = IF call[k].kind = "start" THEN FALSE ELSE saving

-----------------------------------------------------------------------------
(* refreshBuilds.                                                          *)

\* Mutant: the timer only polls while a build is shown as active.
WhileBusy == \E d \in Disks : builds[d].active

TimerRuns == TRUE

Poll(k) ==
  /\ TimerRuns
  /\ Begin(k, "poll", None, "health")
  /\ UNCHANGED <<builder, builds, builderUp, page, limits>>

HealthOk(k) ==
  /\ Goes(k, "health", "list")
  /\ builderUp' = TRUE
  /\ UNCHANGED <<builder, builds, page, limits>>

\* The builder answers with the list as it is now.
Listed(k) ==
  /\ call[k].at = "list"
  /\ call' = [call EXCEPT ![k].at = "listed", ![k].got = srv]
  /\ UNCHANGED <<builder, builds, builderUp, page, limits>>

\* The answer reaches the page; readJson takes a body that breaks off for an
\* empty list.
ShowList(k) ==
  /\ call[k].at = "listed"
  /\ \/ builds' = call[k].got /\ UNCHANGED limits
     \/ builds' = Nothing /\ Fault
  /\ Ends(k)
  /\ UNCHANGED <<builder, builderUp, cancelConfirm>>

\* builderHealth answers false, or listBuilds throws.
RefreshFails(k) ==
  /\ call[k].at \in {"health", "list", "listed"} /\ Fault
  /\ builderUp' = FALSE
  /\ Ends(k)
  /\ UNCHANGED <<builder, builds, cancelConfirm>>

-----------------------------------------------------------------------------
(* Cancel and Start.                                                       *)

AskCancel(d) ==
  /\ builds[d].active /\ cancelConfirm # d
  /\ cancelConfirm' = d
  /\ UNCHANGED <<builder, builds, builderUp, cancelling, saving, call, limits>>

KeepRunning(d) ==
  /\ builds[d].active /\ cancelConfirm = d /\ cancelling # d
  /\ cancelConfirm' = None
  /\ UNCHANGED <<builder, builds, builderUp, cancelling, saving, call, limits>>

onCancelBuild(k, d) ==
  /\ builds[d].active /\ cancelConfirm = d /\ cancelling # d
  /\ Begin(k, "cancel", d, "request")
  /\ cancelling' = d
  /\ UNCHANGED <<builder, builds, builderUp, cancelConfirm, saving, limits>>

\* The button is disabled while saving, but Enter in a text field submits the
\* form too: two Starts may be under way.  (Bound: of one disk.)
submit(k, d) ==
  /\ \A j \in Users : call[j].kind = "start" => call[j].disk = d
  /\ Begin(k, "start", d, "request")
  /\ saving' = TRUE
  /\ UNCHANGED <<builder, builds, builderUp, cancelConfirm, cancelling, limits>>

\* Cancel accepts, or answers 409 (no goroutine, or finishing).
CancelServed(k) ==
  LET d == call[k].disk IN
  /\ call[k].kind = "cancel"
  /\ \/ /\ work[d] # "none" /\ cancelled' = cancelled \cup {d}
        /\ Goes(k, "request", "handled")
     \/ Goes(k, "request", "refused") /\ UNCHANGED cancelled
  /\ UNCHANGED <<srv, work, late, told, builds, builderUp, page, limits>>

\* set(disk, StatusCancelled) marks the disk's build of that moment.
Reported(d) ==
  /\ srv' = [srv EXCEPT ![d].active = FALSE] /\ told' = told \cup {d}
  /\ UNCHANGED <<work, cancelled>>

\* Its DELETEs done, the handler reports and answers.
CancelReported(k) ==
  /\ call[k].kind = "cancel"
  /\ Goes(k, "handled", "accepted") /\ Reported(call[k].disk)
  /\ UNCHANGED <<late, builds, builderUp, page, limits>>

\* Start takes a disk without a goroutine.  (Bound: runs.)
Begun(d) ==
  /\ work[d] = "none" /\ srv[d].run < bound.runs[d]
  /\ srv' = [srv EXCEPT ![d] = [run |-> srv[d].run + 1, active |-> TRUE]]
  /\ work' = [work EXCEPT ![d] = "runs"] /\ told' = told \ {d}
  /\ UNCHANGED <<cancelled, late>>

StartServed(k) ==
  /\ call[k].kind = "start"
  /\ \/ Begun(call[k].disk) /\ Goes(k, "request", "accepted")
     \/ Goes(k, "request", "refused") /\ UNCHANGED builder
  /\ UNCHANGED <<builds, builderUp, page, limits>>

\* The request or its answer is lost: fetch rejects.  A handler at work goes
\* on by itself.
Lost(k) ==
  /\ \/ Goes(k, "request", "refused") /\ UNCHANGED late
     \/ Goes(k, "accepted", "refused") /\ UNCHANGED late
     \/ /\ Goes(k, "handled", "refused") /\ late[call[k].disk] < bound.late[call[k].disk]
        /\ late' = [late EXCEPT ![call[k].disk] = @ + 1]
  /\ Fault
  /\ UNCHANGED <<srv, work, cancelled, told, builds, builderUp, page>>

\* Mutant: the page writes the list itself, taking the build for over.
MarkedOver(k) == [builds EXCEPT ![call[k].disk].active = FALSE]

\* Success changes nothing on the list: the refresh will.
ShownAfter(k) == builds

Succeeds(k) ==
  /\ Goes(k, "accepted", "health")
  /\ cancelConfirm' = IF call[k].kind = "cancel" THEN None ELSE cancelConfirm
  /\ builds' = ShownAfter(k)
  /\ UNCHANGED <<builder, builderUp, cancelling, saving, limits>>

Fails(k) ==
  /\ call[k].at = "refused"
  /\ Ends(k)
  /\ UNCHANGED <<builder, builds, builderUp, cancelConfirm, limits>>

-----------------------------------------------------------------------------
(* The builder's own changes.                                              *)

\* The goroutine reports progress, also over a Cancelled that was not its own.
Progress(d) ==
  /\ work[d] = "runs" /\ d \notin cancelled
  /\ srv' = [srv EXCEPT ![d].active = TRUE]
  /\ UNCHANGED <<work, cancelled, late, told, builds, builderUp, page, call, limits>>

\* It reports Ready or Error, which set drops after a Cancel, and returns.
\* (Bound: lasting.)
BuildEnds(d) ==
  /\ d \notin bound.lasting
  /\ work[d] = "runs" /\ work' = [work EXCEPT ![d] = "ends"]
  /\ srv' = IF d \in cancelled THEN srv ELSE [srv EXCEPT ![d].active = FALSE]
  /\ UNCHANGED <<cancelled, late, told, builds, builderUp, page, call, limits>>

done(d) ==
  /\ work[d] = "ends" /\ work' = [work EXCEPT ![d] = "none"]
  /\ cancelled' = cancelled \ {d}
  /\ UNCHANGED <<srv, late, told, builds, builderUp, page, call, limits>>

OthersStart(d) ==
  /\ Begun(d)
  /\ UNCHANGED <<builds, builderUp, page, call, limits>>

\* Another person's Cancel is accepted.  (Bound: late.)
OthersCancel(d) ==
  /\ work[d] # "none" /\ late[d] < bound.late[d]
  /\ cancelled' = cancelled \cup {d} /\ late' = [late EXCEPT ![d] = @ + 1]
  /\ UNCHANGED <<srv, work, told, builds, builderUp, page, call, limits>>

\* A handler whose caller is gone, or not here, reports.
LateReport(d) ==
  /\ late[d] > 0 /\ late' = [late EXCEPT ![d] = @ - 1] /\ Reported(d)
  /\ UNCHANGED <<builds, builderUp, page, call, limits>>

Init ==
  /\ bound \in Bounds
  /\ srv = [d \in Disks |-> IF d \in bound.running THEN [run |-> 1, active |-> TRUE] ELSE Nothing[d]]
  /\ work = [d \in Disks |-> IF d \in bound.running THEN "runs" ELSE "none"] /\ cancelled = {}
  /\ late = [d \in Disks |-> 0] /\ told = {}
  /\ builds = Nothing /\ builderUp = FALSE
  /\ cancelConfirm = None /\ cancelling = None /\ saving = FALSE
  /\ call = [k \in Calls |-> Idle] /\ faults = 0

Resumes(k) ==
  \/ HealthOk(k) \/ Listed(k) \/ ShowList(k) \/ RefreshFails(k)
  \/ CancelServed(k) \/ CancelReported(k) \/ StartServed(k)
  \/ Lost(k) \/ Succeeds(k) \/ Fails(k)

\* Which of the idle calls a click begins makes no difference.
NextCall == CHOOSE k \in Users : call[k].at = "idle" \/ \A j \in Users : call[j].at # "idle"

Clicks(d) ==
  \/ AskCancel(d) \/ KeepRunning(d)
  \/ onCancelBuild(NextCall, d) \/ submit(NextCall, d)

BuilderStep(d) ==
  \/ Progress(d) \/ BuildEnds(d) \/ done(d)
  \/ OthersStart(d) \/ OthersCancel(d) \/ LateReport(d)

Next ==
  \/ \E k \in Polls : Poll(k)
  \/ \E k \in Calls : Resumes(k)
  \/ \E d \in Disks : Clicks(d) \/ BuilderStep(d)

Spec == Init /\ [][Next]_vars

\* The timer fires and every request is answered or fails; nobody has to click.
FairSpec ==
  /\ Spec
  /\ \A k \in Polls : WF_vars(Poll(k))
  /\ \A k \in Calls : WF_vars(Resumes(k))

-----------------------------------------------------------------------------
(* Properties.                                                             *)

CallRecords ==
  [kind : {"none", "poll"}, disk : {None}, at : Steps, got : Views]
    \cup [kind : {"cancel", "start"}, disk : Disks, at : Steps, got : Views]

\* Every variable keeps its type.
TypeOK ==
  /\ srv \in Views /\ builds \in Views /\ builderUp \in BOOLEAN
  /\ work \in [Disks -> {"none", "runs", "ends"}]
  /\ cancelled \subseteq Disks /\ told \subseteq Disks
  /\ late \in [Disks -> Nat] /\ bound \in Bounds
  /\ faults \in 0 .. bound.faults
  /\ cancelConfirm \in Disks \cup {None} /\ cancelling \in Disks \cup {None}
  /\ saving \in BOOLEAN
  /\ call \in [Calls -> CallRecords]

\* A button is disabled only while a request of its kind is under way, for the
\* Cancel button one of its own row: though one name serves all rows and every
\* call's finally clears it, no button stays disabled for good.
ButtonsFollowCalls ==
  /\ cancelling # None =>
       \E k \in Users : call[k].kind = "cancel" /\ call[k].disk = cancelling
  /\ saving => \E k \in Users : call[k].kind = "start"

\* However late an answer is, the page shows a build that still runs as over
\* only if the report of an accepted Cancel fell into it: its own, or that of
\* an earlier build of the disk whose handler was late.  What it shows is
\* otherwise something the builder once said of that build, or, after an
\* answer that broke off, no build at all.
NeverShownOverEarly ==
  \A d \in Disks :
    /\ builds[d].run <= srv[d].run
    /\ builds[d].run = srv[d].run /\ work[d] = "runs" /\ d \notin told => builds[d].active

\* Once the builder is quiet the page shows its list and keeps showing it:
\* answers that overtake each other or get lost do no lasting harm.
PageCatchesUp == <>[](builds = srv /\ builderUp)
=============================================================================
