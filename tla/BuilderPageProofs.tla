-------------------------- MODULE BuilderPageProofs --------------------------
(***************************************************************************)
(* Theorems about BuilderPage, for any number of disks, timer polls, calls *)
(* of the buttons, builds, Cancels and lost answers: what the page shows   *)
(* is never ahead of the builder, and no button stays disabled without a   *)
(* call.                                                                   *)
(***************************************************************************)
EXTENDS BuilderPage, TLAPS

\* View v of the list is not ahead of the builder: of each disk it has an older
\* build, or this one, and as over only if it does not run or was told over.
Behind(v, s, w, t) ==
  \A d \in Disks :
    /\ v[d].run <= s[d].run
    /\ v[d].run = s[d].run /\ w[d] = "runs" /\ d \notin t => v[d].active

NotAhead(v) == Behind(v, srv, work, told)

\* The inductive invariant.  The builder's own list is not ahead, for a build
\* that runs is reported active until a Cancel's report falls into it; before
\* the first build none runs; what the page shows, and each answer on its way,
\* was once the truth; an idle call is of no kind; the flags of the buttons have
\* their calls.
PageInv ==
  /\ NotAhead(srv) /\ \A d \in Disks : srv[d].run = 0 => work[d] # "runs"
  /\ NotAhead(builds)
  /\ \A k \in Calls : call[k].at = "listed" => NotAhead(call[k].got)
  /\ \A k \in Calls : call[k].at = "idle" => call[k].kind = "none"
  /\ ButtonsFollowCalls

-----------------------------------------------------------------------------
(* Types.                                                                  *)

\* The initial list and the idle call are well typed.
LEMMA StartTypes == PageAssumption => Nothing \in Views /\ Idle \in CallRecords
BY DEF PageAssumption, Nothing, Views, Idle, CallRecords, Steps

\* The calls of a well-typed page, and what they carry.
LEMMA CallTypes ==
  ASSUME TypeOK, NEW k \in Calls
  PROVE  /\ call \in [Calls -> CallRecords] /\ call[k] \in CallRecords
         /\ call[k].got \in Views /\ call[k].disk \in Disks \cup {None}
BY DEF TypeOK, CallRecords

\* A call that goes on to another step is a call.
LEMMA GoesTypes ==
  ASSUME TypeOK, NEW k \in Calls, NEW from, NEW to \in Steps, Goes(k, from, to)
  PROVE  call' \in [Calls -> CallRecords]
<1>1. [call[k] EXCEPT !.at = to] \in CallRecords
  BY CallTypes DEF CallRecords
<1>2. call' = [call EXCEPT ![k] = [call[k] EXCEPT !.at = to]]
  BY DEF Goes
<1>3. QED  BY <1>1, <1>2, CallTypes

\* So is one that got its answer.
LEMMA ListedTypes ==
  ASSUME TypeOK, NEW k \in Calls, Listed(k)
  PROVE  call' \in [Calls -> CallRecords]
<1>1. [call[k] EXCEPT !.at = "listed", !.got = srv] \in CallRecords
  BY CallTypes DEF CallRecords, Steps, TypeOK
<1>2. call' = [call EXCEPT ![k] = [call[k] EXCEPT !.at = "listed", !.got = srv]]
  BY CallTypes DEF Listed
<1>3. QED  BY <1>1, <1>2, CallTypes

\* A click or a poll makes an idle call a call of its kind.
LEMMA BeginTypes ==
  ASSUME PageAssumption, TypeOK, NEW k \in Calls, NEW kind, NEW d, NEW l \in {"request", "health"},
         \/ kind = "poll" /\ d = None
         \/ kind \in {"cancel", "start"} /\ d \in Disks,
         Begin(k, kind, d, l)
  PROVE  call' \in [Calls -> CallRecords]
<1>1. [Idle EXCEPT !.kind = kind, !.disk = d, !.at = l] \in CallRecords
  BY StartTypes DEF CallRecords, Idle, Steps
<1>2. QED  BY <1>1, CallTypes DEF Begin

\* A call that ends, in any way, leaves the flags and the calls well typed.
LEMMA EndTypes ==
  ASSUME PageAssumption, TypeOK, NEW k \in Calls, Ends(k)
  PROVE  /\ call' \in [Calls -> CallRecords]
         /\ cancelling' \in Disks \cup {None} /\ saving' \in BOOLEAN
BY StartTypes, CallTypes DEF TypeOK, Ends, CancellingAfter

\* NextCall is one of the calls of the buttons.
LEMMA NextCallTypes == PageAssumption => NextCall \in Users /\ NextCall \in Calls
BY DEF PageAssumption, NextCall, Calls

\* What the builder does: a build begins, progresses or ends, its goroutine
\* returns, a Cancel is accepted, or reported.
Does(d) ==
  \/ Begun(d)
  \/ Reported(d)
  \/ /\ d \notin cancelled /\ srv' = [srv EXCEPT ![d].active = TRUE]
     /\ UNCHANGED <<work, cancelled, told>>
  \/ /\ work' = [work EXCEPT ![d] = "ends"]
     /\ srv' = srv \/ srv' = [srv EXCEPT ![d].active = FALSE]
     /\ UNCHANGED <<cancelled, told>>
  \/ /\ work' = [work EXCEPT ![d] = "none"] /\ cancelled' = cancelled \ {d}
     /\ UNCHANGED <<srv, told>>
  \/ cancelled' = cancelled \cup {d} /\ UNCHANGED <<srv, work, told>>

\* The first of these, without the bound and the handlers.
LEMMA BegunServer ==
  ASSUME TypeOK, NEW d \in Disks, Begun(d)
  PROVE  /\ srv' \in Views
         /\ srv'[d] = [run |-> srv[d].run + 1, active |-> TRUE] /\ srv[d].run \in Nat
         /\ \A e \in Disks : e # d => srv'[e] = srv[e] /\ work'[e] = work[e]
         /\ work' \in [Disks -> {"none", "runs", "ends"}]
         /\ told' = told \ {d} /\ UNCHANGED cancelled
<1> USE DEF TypeOK, Views
<1>1. srv' = [srv EXCEPT ![d] = [run |-> srv[d].run + 1, active |-> TRUE]]
  BY DEF Begun
<1>2. srv[d].run \in Nat /\ srv[d].run + 1 \in Nat
  OBVIOUS
<1>3. [run |-> srv[d].run + 1, active |-> TRUE] \in [run : Nat, active : BOOLEAN]
  BY <1>2
<1>4. srv' \in Views /\ srv'[d] = [run |-> srv[d].run + 1, active |-> TRUE]
  BY <1>1, <1>3
<1>5. \A e \in Disks : e # d => srv'[e] = srv[e]
  BY <1>1
<1>6. /\ work' \in [Disks -> {"none", "runs", "ends"}] /\ told' = told \ {d} /\ UNCHANGED cancelled
      /\ \A e \in Disks : e # d => work'[e] = work[e]
  BY DEF Begun
<1>7. QED  BY <1>2, <1>4, <1>5, <1>6

\* A report of the last build keeps its number.
LEMMA MarkedServer ==
  ASSUME TypeOK, NEW d \in Disks, NEW b \in BOOLEAN, srv' = [srv EXCEPT ![d].active = b]
  PROVE  /\ srv' \in Views /\ srv'[d].run = srv[d].run /\ srv'[d].active = b
         /\ \A e \in Disks : e # d => srv'[e] = srv[e]
<1>1. srv \in [Disks -> [run : Nat, active : BOOLEAN]]
  BY DEF TypeOK, Views
<1>2. /\ [srv[d] EXCEPT !.active = b] \in [run : Nat, active : BOOLEAN]
      /\ [srv[d] EXCEPT !.active = b].run = srv[d].run
      /\ [srv[d] EXCEPT !.active = b].active = b
  BY <1>1
<1>3. srv' = [srv EXCEPT ![d] = [srv[d] EXCEPT !.active = b]]
  OBVIOUS
<1>4. QED  BY <1>1, <1>2, <1>3 DEF Views

\* Every step does one of these with one disk, or nothing at the builder.
LEMMA ServerSteps ==
  ASSUME PageAssumption, TypeOK, [Next]_vars
  PROVE  \/ UNCHANGED <<srv, work, cancelled, told>>
         \/ \E d \in Disks : Does(d)
<1> USE DEF builder
<1>1. ASSUME NEW k \in Calls, Resumes(k)
      PROVE  \/ UNCHANGED <<srv, work, cancelled, told>>
             \/ Does(call[k].disk) /\ call[k].disk \in Disks
  <2>1. CASE CancelServed(k) \/ CancelReported(k) \/ StartServed(k)
    <3>1. call[k].disk \in Disks
      BY <2>1, CallTypes DEF CancelServed, CancelReported, StartServed, CallRecords
    <3>2. QED  BY <2>1, <3>1 DEF CancelServed, CancelReported, StartServed, Does
  <2>2. CASE HealthOk(k) \/ Listed(k) \/ ShowList(k) \/ RefreshFails(k) \/ Lost(k) \/ Succeeds(k) \/ Fails(k)
    BY <2>2 DEF HealthOk, Listed, ShowList, RefreshFails, Lost, Succeeds, Fails
  <2>3. QED  BY <1>1, <2>1, <2>2 DEF Resumes
<1>2. ASSUME NEW k \in Polls, Poll(k) PROVE UNCHANGED <<srv, work, cancelled, told>>
  BY <1>2 DEF Poll
<1>3. ASSUME NEW d \in Disks, Clicks(d) PROVE UNCHANGED <<srv, work, cancelled, told>>
  BY <1>3 DEF Clicks, AskCancel, KeepRunning, onCancelBuild, submit
<1>4. ASSUME NEW d \in Disks, BuilderStep(d) PROVE Does(d)
  BY <1>4 DEF BuilderStep, Progress, BuildEnds, done, OthersStart, OthersCancel, LateReport, Does
<1>5. QED  BY <1>1, <1>2, <1>3, <1>4 DEF Next, vars

\* So the builder's state stays well typed.
LEMMA ServerTypes ==
  ASSUME PageAssumption, TypeOK, [Next]_vars
  PROVE  /\ srv' \in Views /\ work' \in [Disks -> {"none", "runs", "ends"}]
         /\ cancelled' \subseteq Disks /\ told' \subseteq Disks
<1> USE DEF TypeOK, Views
<1>1. ASSUME NEW d \in Disks, Does(d)
      PROVE  /\ srv' \in Views /\ work' \in [Disks -> {"none", "runs", "ends"}]
             /\ cancelled' \subseteq Disks /\ told' \subseteq Disks
  <2>1. srv' \in Views
    <3>1. CASE Begun(d)
      BY <3>1, BegunServer
    <3>2. CASE ~Begun(d)
      <4>1. \/ srv' = srv \/ srv' = [srv EXCEPT ![d].active = FALSE]
            \/ srv' = [srv EXCEPT ![d].active = TRUE]
        BY <1>1, <3>2 DEF Does, Reported
      <4>2. QED  BY <4>1, MarkedServer
    <3>3. QED  BY <3>1, <3>2
  <2>2. work' \in [Disks -> {"none", "runs", "ends"}]
    BY <1>1 DEF Does, Begun, Reported
  <2>3. cancelled' \subseteq Disks /\ told' \subseteq Disks
    BY <1>1 DEF Does, Begun, Reported
  <2>4. QED  BY <2>1, <2>2, <2>3
<1>2. QED  BY <1>1, ServerSteps

\* A handler whose caller is gone is counted, or was.
LEMMA LateTypes ==
  ASSUME PageAssumption, TypeOK, [Next]_vars
  PROVE  /\ late' \in [Disks -> Nat] /\ bound' = bound
         /\ faults' \in 0 .. bound.faults
<1> USE DEF TypeOK, builder, limits
<1>0. bound.faults \in Nat
  BY DEF PageAssumption, BoundTypes
<1>1. ASSUME NEW k \in Calls, Resumes(k)
      PROVE  /\ late' = late \/ \E d \in Disks : late' = [late EXCEPT ![d] = @ + 1]
             /\ bound' = bound /\ (faults' = faults \/ (faults < bound.faults /\ faults' = faults + 1))
  <2>1. CASE Lost(k)
    <3>1. CASE call[k].disk \in Disks
      BY <2>1, <3>1 DEF Lost, Fault
    <3>2. CASE call[k].disk \notin Disks
      <4>1. late' = late
        BY <2>1, <3>2 DEF Lost
      <4>2. QED  BY <2>1, <4>1 DEF Lost, Fault
    <3>3. QED  BY <3>1, <3>2
  <2>2. CASE ~Lost(k)
    BY <1>1, <2>2 DEF Resumes, HealthOk, Listed, ShowList, RefreshFails, CancelServed, CancelReported,
                      StartServed, Begun, Succeeds, Fails, Fault
  <2>3. QED  BY <2>1, <2>2
<1>2. ASSUME NEW k \in Polls, Poll(k) PROVE UNCHANGED <<late, bound, faults>>
  BY <1>2 DEF Poll
<1>3. ASSUME NEW d \in Disks, Clicks(d) PROVE UNCHANGED <<late, bound, faults>>
  BY <1>3 DEF Clicks, AskCancel, KeepRunning, onCancelBuild, submit
<1>4. ASSUME NEW d \in Disks, BuilderStep(d)
      PROVE  /\ UNCHANGED <<bound, faults>>
             /\ \/ late' = late \/ late' = [late EXCEPT ![d] = @ + 1]
                \/ late[d] > 0 /\ late' = [late EXCEPT ![d] = @ - 1]
  BY <1>4 DEF BuilderStep, Progress, BuildEnds, done, OthersStart, Begun, OthersCancel, LateReport
<1>5. CASE UNCHANGED vars
  BY <1>5 DEF vars
<1>6. ASSUME NEW k \in Calls, Resumes(k)
      PROVE  late' \in [Disks -> Nat] /\ bound' = bound /\ faults' \in 0 .. bound.faults
  BY <1>0, <1>1, <1>6
<1>7. ASSUME NEW d \in Disks, BuilderStep(d)
      PROVE  late' \in [Disks -> Nat] /\ bound' = bound /\ faults' \in 0 .. bound.faults
  BY <1>4, <1>7
<1>8. QED  BY <1>2, <1>3, <1>5, <1>6, <1>7 DEF Next

\* Every step keeps the other types.
LEMMA TypeStep ==
  ASSUME PageAssumption, TypeOK, [Next]_vars
  PROVE  TypeOK'
<1>0. /\ builds \in Views /\ builderUp \in BOOLEAN
      /\ cancelConfirm \in Disks \cup {None} /\ cancelling \in Disks \cup {None}
      /\ saving \in BOOLEAN /\ call \in [Calls -> CallRecords]
  BY DEF TypeOK
<1>a. ASSUME builds' \in Views, builderUp' \in BOOLEAN,
             cancelConfirm' \in Disks \cup {None}, cancelling' \in Disks \cup {None},
             saving' \in BOOLEAN, call' \in [Calls -> CallRecords]
      PROVE  TypeOK'
  <2>1. bound' \in Bounds /\ faults' \in 0 .. bound'.faults /\ late' \in [Disks -> Nat]
    BY LateTypes DEF TypeOK
  <2>2. QED  BY <1>a, <2>1, ServerTypes DEF TypeOK
<1> USE DEF page
<1>1. ASSUME NEW k \in Polls, Poll(k) PROVE TypeOK'
  <2>1. call' \in [Calls -> CallRecords]
    BY <1>1, BeginTypes DEF Poll, Calls
  <2>2. QED  BY <1>0, <1>a, <1>1, <2>1 DEF Poll
<1>2. ASSUME NEW k \in Calls, HealthOk(k) \/ Lost(k) \/ Succeeds(k) \/ CancelServed(k) \/ CancelReported(k) \/ StartServed(k)
      PROVE  TypeOK'
  <2>1. call' \in [Calls -> CallRecords]
    BY <1>2, GoesTypes DEF HealthOk, Lost, Succeeds, CancelServed, CancelReported, StartServed, Steps
  <2>2. QED
    BY <1>0, <1>a, <1>2, <2>1 DEF HealthOk, Lost, Succeeds, ShownAfter, CancelServed, CancelReported, StartServed
<1>3. ASSUME NEW k \in Calls, Listed(k) PROVE TypeOK'
  BY <1>0, <1>a, <1>3, ListedTypes DEF Listed
<1>4. ASSUME NEW k \in Calls, ShowList(k) \/ RefreshFails(k) \/ Fails(k) PROVE TypeOK'
  <2>1. Ends(k) /\ builds' \in Views
    BY <1>0, <1>4, StartTypes, CallTypes DEF ShowList, RefreshFails, Fails
  <2>2. builderUp' \in BOOLEAN /\ cancelConfirm' \in Disks \cup {None}
    BY <1>0, <1>4 DEF ShowList, RefreshFails, Fails
  <2>3. QED  BY <1>a, <2>1, <2>2, EndTypes
<1>5. ASSUME NEW d \in Disks, Clicks(d) PROVE TypeOK'
  <2>1. CASE AskCancel(d) \/ KeepRunning(d)
    BY <1>0, <1>a, <2>1 DEF AskCancel, KeepRunning
  <2>2. CASE onCancelBuild(NextCall, d) \/ submit(NextCall, d)
    <3>1. call' \in [Calls -> CallRecords]
      BY <2>2, NextCallTypes, BeginTypes DEF onCancelBuild, submit
    <3>2. QED  BY <1>0, <1>a, <2>2, <3>1 DEF onCancelBuild, submit
  <2>3. QED  BY <1>5, <2>1, <2>2 DEF Clicks
<1>6. ASSUME NEW d \in Disks, BuilderStep(d) PROVE TypeOK'
  BY <1>0, <1>a, <1>6 DEF BuilderStep, Progress, BuildEnds, done, OthersStart, OthersCancel, LateReport
<1>7. CASE UNCHANGED vars
  BY <1>0, <1>a, <1>7 DEF vars
<1>8. QED  BY <1>1, <1>2, <1>3, <1>4, <1>5, <1>6, <1>7 DEF Next, Resumes

\* Every variable of the page keeps its type: the answers, lost or late, leave
\* no undefined list and no flag of another kind behind.
THEOREM PageTypeCorrect == Spec => []TypeOK
<1> USE PageAssumption
<1>1. Init => TypeOK
  <2> SUFFICES ASSUME Init PROVE TypeOK
    OBVIOUS
  <2>1. call \in [Calls -> CallRecords]
    BY StartTypes DEF Init
  <2>2. Nothing \in Views /\ bound.faults \in Nat
    BY StartTypes DEF Init, PageAssumption, BoundTypes
  <2>3. builds \in Views /\ builderUp \in BOOLEAN /\ saving \in BOOLEAN
    BY <2>2 DEF Init
  <2>4. /\ cancelConfirm \in Disks \cup {None} /\ cancelling \in Disks \cup {None}
        /\ faults \in 0 .. bound.faults /\ bound \in Bounds /\ late \in [Disks -> Nat]
    BY <2>2 DEF Init
  <2>5. srv \in Views
    BY DEF Init, Nothing, Views
  <2>6. /\ work \in [Disks -> {"none", "runs", "ends"}]
        /\ cancelled \subseteq Disks /\ told \subseteq Disks
    BY DEF Init
  <2>7. QED  BY <2>1, <2>3, <2>4, <2>5, <2>6 DEF TypeOK
<1>2. QED  BY <1>1, TypeStep, PTL DEF Spec

-----------------------------------------------------------------------------
(* What is shown, and the buttons.                                         *)

\* What was not ahead of the builder does not come to be.
LEMMA StaysBehind ==
  ASSUME PageAssumption, TypeOK, [Next]_vars, NEW v \in Views, Behind(v, srv, work, told)
  PROVE  Behind(v, srv', work', told')
<1>0. srv \in [Disks -> [run : Nat, active : BOOLEAN]] /\ v \in [Disks -> [run : Nat, active : BOOLEAN]]
      /\ work \in [Disks -> {"none", "runs", "ends"}] /\ told \subseteq Disks
  BY DEF TypeOK, Views
<1> USE <1>0 DEF Behind
<1>1. ASSUME NEW d \in Disks, Does(d) PROVE Behind(v, srv', work', told')
  <2>1. CASE Begun(d)
    <3>1. /\ srv'[d].run = srv[d].run + 1 /\ srv[d].run \in Nat /\ v[d].run \in Nat
          /\ v[d].run <= srv[d].run
      <4>1. srv'[d] = [run |-> srv[d].run + 1, active |-> TRUE]
        BY <2>1, BegunServer
      <4>2. v[d] \in [run : Nat, active : BOOLEAN] /\ srv[d] \in [run : Nat, active : BOOLEAN]
        OBVIOUS
      <4>3. QED  BY <4>1, <4>2
    <3>2. v[d].run <= srv'[d].run /\ v[d].run # srv'[d].run
      BY <3>1
    <3>3. QED  BY <2>1, <3>2, BegunServer
  <2>2. CASE Reported(d)
    BY <2>2, MarkedServer DEF Reported
  <2>3. CASE d \notin cancelled /\ srv' = [srv EXCEPT ![d].active = TRUE] /\ UNCHANGED <<work, cancelled, told>>
    BY <2>3, MarkedServer
  <2>4. CASE /\ work' = [work EXCEPT ![d] = "ends"]
             /\ srv' = srv \/ srv' = [srv EXCEPT ![d].active = FALSE]
             /\ UNCHANGED <<cancelled, told>>
    BY <2>4, MarkedServer
  <2>5. CASE work' = [work EXCEPT ![d] = "none"] /\ UNCHANGED <<srv, told>>
    BY <2>5
  <2>6. CASE UNCHANGED <<srv, work, told>>
    BY <2>6
  <2>7. QED  BY <1>1, <2>1, <2>2, <2>3, <2>4, <2>5, <2>6 DEF Does
<1>2. QED  BY <1>1, ServerSteps

\* Neither does the builder's own list: whatever reports a running build as
\* over is a Cancel's report.  A build that runs is not the zeroth.
LEMMA OwnList ==
  ASSUME PageAssumption, TypeOK, PageInv, [Next]_vars
  PROVE  /\ Behind(srv', srv', work', told')
         /\ \A d \in Disks : srv'[d].run = 0 => work'[d] # "runs"
<1>0. /\ srv \in [Disks -> [run : Nat, active : BOOLEAN]]
      /\ work \in [Disks -> {"none", "runs", "ends"}] /\ told \subseteq Disks
      /\ \A d \in Disks : work[d] = "runs" /\ d \notin told => srv[d].active
      /\ \A d \in Disks : srv[d].run = 0 => work[d] # "runs"
  BY DEF TypeOK, Views, PageInv, NotAhead, Behind
<1> USE <1>0 DEF Behind
<1>1. ASSUME NEW d \in Disks, Does(d)
      PROVE  /\ Behind(srv', srv', work', told')
             /\ \A e \in Disks : srv'[e].run = 0 => work'[e] # "runs"
  <2>1. CASE Begun(d)
    <3>1. /\ srv'[d].run = srv[d].run + 1 /\ srv[d].run \in Nat /\ srv'[d].active
          /\ \A e \in Disks : srv'[e].run \in Nat
      <4>1. srv'[d] = [run |-> srv[d].run + 1, active |-> TRUE] /\ srv' \in Views
        BY <2>1, BegunServer
      <4>2. srv[d] \in [run : Nat, active : BOOLEAN]
            /\ \A e \in Disks : srv'[e] \in [run : Nat, active : BOOLEAN]
        BY <4>1 DEF Views
      <4>3. QED  BY <4>1, <4>2
    <3>2. srv'[d].run # 0
      BY <3>1
    <3>3. \A e \in Disks : srv'[e].run <= srv'[e].run
      BY <3>1
    <3>4. \A e \in Disks : e # d => srv'[e] = srv[e] /\ work'[e] = work[e] /\ (e \in told' <=> e \in told)
      BY <2>1, BegunServer
    <3>5. QED  BY <3>1, <3>2, <3>3, <3>4
  <2>2. CASE Reported(d)
    BY <2>2, MarkedServer DEF Reported
  <2>3. CASE d \notin cancelled /\ srv' = [srv EXCEPT ![d].active = TRUE] /\ UNCHANGED <<work, cancelled, told>>
    BY <2>3, MarkedServer
  <2>4. CASE /\ work' = [work EXCEPT ![d] = "ends"]
             /\ srv' = srv \/ srv' = [srv EXCEPT ![d].active = FALSE]
             /\ UNCHANGED <<cancelled, told>>
    BY <2>4, MarkedServer
  <2>5. CASE work' = [work EXCEPT ![d] = "none"] /\ UNCHANGED <<srv, told>>
    BY <2>5
  <2>6. CASE UNCHANGED <<srv, work, told>>
    BY <2>6
  <2>7. QED  BY <1>1, <2>1, <2>2, <2>3, <2>4, <2>5, <2>6 DEF Does
<1>2. QED  BY <1>1, ServerSteps

\* The list shown next is the one shown, an answer, or the empty list.
LEMMA ShownSteps ==
  ASSUME [Next]_vars
  PROVE  \/ builds' = builds \/ builds' = Nothing
         \/ \E k \in Calls : call[k].at = "listed" /\ builds' = call[k].got
BY DEF Next, vars, Poll, Resumes, HealthOk, Listed, ShowList, RefreshFails, CancelServed,
       CancelReported, StartServed, Lost, Succeeds, ShownAfter, Fails, Clicks, AskCancel, KeepRunning,
       onCancelBuild, submit, BuilderStep, Progress, BuildEnds, done, OthersStart, OthersCancel, LateReport

\* The page does not come to be ahead of the builder.
LEMMA ShownBehind ==
  ASSUME PageAssumption, TypeOK, PageInv, [Next]_vars
  PROVE  Behind(builds', srv', work', told')
<1>1. Behind(Nothing, srv, work, told)
  BY DEF Behind, Nothing, PageInv, TypeOK, Views
<1>2. ASSUME NEW k \in Calls, call[k].at = "listed" PROVE Behind(call[k].got, srv', work', told')
  BY <1>2, CallTypes, StaysBehind DEF PageInv, NotAhead
<1>3. Behind(builds, srv', work', told') /\ Behind(Nothing, srv', work', told')
  BY <1>1, StartTypes, StaysBehind DEF PageInv, NotAhead, TypeOK
<1>4. QED  BY <1>2, <1>3, ShownSteps

\* A call on its way to another step, or one that has not begun, carries no
\* list; an answer carries the builder's.
LEMMA AnswersBehind ==
  ASSUME PageAssumption, TypeOK, PageInv, [Next]_vars
  PROVE  \A k \in Calls : call'[k].at = "listed" => Behind(call'[k].got, srv', work', told')
<1> SUFFICES ASSUME NEW k \in Calls, call'[k].at = "listed"
             PROVE  Behind(call'[k].got, srv', work', told')
  OBVIOUS
<1>1. CASE call'[k] = call[k]
  BY <1>1, CallTypes, StaysBehind DEF PageInv, NotAhead
<1>2. ASSUME NEW j \in Calls, Listed(j), call'[k] # call[k]
      PROVE  Behind(call'[k].got, srv', work', told')
  <2>1. call'[k].got = srv /\ UNCHANGED <<srv, work, told>>
    BY <1>2, CallTypes DEF Listed, builder
  <2>2. QED  BY <2>1 DEF PageInv, NotAhead
<1>3. ASSUME NEW j \in Calls, NEW from, NEW to \in Steps \ {"listed"}, Goes(j, from, to)
      PROVE  call'[k] = call[k]
  BY <1>3, CallTypes DEF Goes, CallRecords
<1>4. ASSUME NEW j \in Calls, Ends(j) PROVE call'[k] = call[k]
  BY <1>4, CallTypes DEF Ends, Idle
<1>5. ASSUME NEW j \in Calls, NEW kind, NEW d, NEW l \in {"request", "health"}, Begin(j, kind, d, l)
      PROVE  call'[k] = call[k]
  BY <1>5, CallTypes DEF Begin, Idle
<1>6. ASSUME NEW j \in Polls, Poll(j) PROVE call'[k] = call[k]
  BY <1>5, <1>6 DEF Poll, Calls
<1>7. ASSUME NEW j \in Calls, Resumes(j), ~Listed(j) PROVE call'[k] = call[k]
  <2>1. CASE HealthOk(j) \/ CancelServed(j) \/ CancelReported(j) \/ StartServed(j) \/ Lost(j) \/ Succeeds(j)
    BY <1>3, <2>1 DEF HealthOk, CancelServed, CancelReported, StartServed, Lost, Succeeds, Steps
  <2>2. CASE ShowList(j) \/ RefreshFails(j) \/ Fails(j)
    BY <1>4, <2>2 DEF ShowList, RefreshFails, Fails
  <2>3. QED  BY <1>7, <2>1, <2>2 DEF Resumes
<1>8. ASSUME NEW d \in Disks, Clicks(d) PROVE call'[k] = call[k]
  BY <1>5, <1>8, NextCallTypes DEF Clicks, AskCancel, KeepRunning, onCancelBuild, submit
<1>9. QED
  BY <1>1, <1>2, <1>6, <1>7, <1>8
     DEF Next, vars, BuilderStep, Progress, BuildEnds, done, OthersStart, OthersCancel, LateReport

\* The calls and the flags of the buttons, without the lists.
CallsInv ==
  /\ \A k \in Calls : call[k].at = "idle" => call[k].kind = "none"
  /\ ButtonsFollowCalls

\* A call that goes on keeps its kind and its disk.
LEMMA GoesCalls ==
  ASSUME TypeOK, CallsInv, NEW k \in Calls, NEW from, NEW to \in Steps \ {"idle"},
         Goes(k, from, to), from # "idle", UNCHANGED <<cancelling, saving>>
  PROVE  CallsInv'
<1>1. \A j \in Calls : call'[j].kind = call[j].kind /\ call'[j].disk = call[j].disk
  BY CallTypes DEF Goes, CallRecords
<1>2. \A j \in Calls : call'[j].at = "idle" => call[j].at = "idle"
  BY CallTypes DEF Goes, CallRecords
<1>3. QED  BY <1>1, <1>2 DEF CallsInv, ButtonsFollowCalls, Calls

\* A call that ends clears the flag of its kind; the other flag's call goes on.
LEMMA EndCalls ==
  ASSUME TypeOK, CallsInv, NEW k \in Calls, Ends(k)
  PROVE  CallsInv'
<1>1. \A j \in Calls : j # k => call'[j] = call[j]
  BY CallTypes DEF Ends
<1>2. call'[k] = Idle
  BY CallTypes DEF Ends
<1>3. cancelling' # None =>
        \E j \in Users : call'[j].kind = "cancel" /\ call'[j].disk = cancelling'
  BY <1>1 DEF Ends, CancellingAfter, CallsInv, ButtonsFollowCalls, Calls
<1>4. saving' => \E j \in Users : call'[j].kind = "start"
  BY <1>1 DEF Ends, CallsInv, ButtonsFollowCalls, Calls
<1>5. QED  BY <1>1, <1>2, <1>3, <1>4 DEF CallsInv, ButtonsFollowCalls, Idle

\* A call that begins was nobody's.
LEMMA BeginCalls ==
  ASSUME TypeOK, CallsInv, NEW k \in Calls, NEW kind \in {"poll", "cancel", "start"},
         NEW d, NEW l \in {"request", "health"}, Begin(k, kind, d, l),
         \/ UNCHANGED <<cancelling, saving>>
         \/ k \in Users /\ kind = "cancel" /\ cancelling' = d /\ UNCHANGED saving
         \/ k \in Users /\ kind = "start" /\ saving' /\ UNCHANGED cancelling
  PROVE  CallsInv'
<1>1. \A j \in Calls : j # k => call'[j] = call[j]
  BY CallTypes DEF Begin
<1>2. call[k].kind = "none" /\ call'[k].kind = kind /\ call'[k].disk = d /\ call'[k].at = l
  BY CallTypes DEF Begin, Idle, CallsInv
<1>3. cancelling' # None =>
        \E j \in Users : call'[j].kind = "cancel" /\ call'[j].disk = cancelling'
  BY <1>1, <1>2 DEF CallsInv, ButtonsFollowCalls, Calls
<1>4. saving' => \E j \in Users : call'[j].kind = "start"
  BY <1>1, <1>2 DEF CallsInv, ButtonsFollowCalls, Calls
<1>5. QED  BY <1>1, <1>2, <1>3, <1>4 DEF CallsInv, ButtonsFollowCalls

\* Every step keeps the flags with their calls.
LEMMA CallsStep ==
  ASSUME PageAssumption, TypeOK, CallsInv, [Next]_vars
  PROVE  CallsInv'
<1> USE DEF page
<1>1. ASSUME NEW k \in Polls, Poll(k) PROVE CallsInv'
  BY <1>1, BeginCalls DEF Poll, Calls
<1>2. ASSUME NEW k \in Calls, HealthOk(k) \/ CancelServed(k) \/ CancelReported(k) \/ StartServed(k) \/ Lost(k) \/ Succeeds(k)
      PROVE  CallsInv'
  BY <1>2, GoesCalls DEF HealthOk, CancelServed, CancelReported, StartServed, Lost, Succeeds, Steps
<1>3. ASSUME NEW k \in Calls, Listed(k) PROVE CallsInv'
  <2>1. \A j \in Calls : call'[j].kind = call[j].kind /\ call'[j].disk = call[j].disk
    BY <1>3, CallTypes DEF Listed, CallRecords
  <2>2. \A j \in Calls : call'[j].at = "idle" => call[j].at = "idle"
    BY <1>3, CallTypes DEF Listed, CallRecords
  <2>3. QED  BY <1>3, <2>1, <2>2 DEF CallsInv, ButtonsFollowCalls, Calls, Listed
<1>4. ASSUME NEW k \in Calls, ShowList(k) \/ RefreshFails(k) \/ Fails(k) PROVE CallsInv'
  BY <1>4, EndCalls DEF ShowList, RefreshFails, Fails
<1>5. ASSUME NEW d \in Disks, Clicks(d) PROVE CallsInv'
  <2>1. CASE AskCancel(d) \/ KeepRunning(d)
    BY <2>1 DEF AskCancel, KeepRunning, CallsInv, ButtonsFollowCalls
  <2>2. CASE onCancelBuild(NextCall, d)
    BY <2>2, NextCallTypes, BeginCalls DEF onCancelBuild
  <2>3. CASE submit(NextCall, d)
    BY <2>3, NextCallTypes, BeginCalls DEF submit
  <2>4. QED  BY <1>5, <2>1, <2>2, <2>3 DEF Clicks
<1>6. ASSUME NEW d \in Disks, BuilderStep(d) PROVE CallsInv'
  BY <1>6 DEF BuilderStep, Progress, BuildEnds, done, OthersStart, OthersCancel, LateReport,
              CallsInv, ButtonsFollowCalls
<1>7. CASE UNCHANGED vars
  BY <1>7 DEF vars, CallsInv, ButtonsFollowCalls
<1>8. QED  BY <1>1, <1>2, <1>3, <1>4, <1>5, <1>6, <1>7 DEF Next, Resumes

\* The invariant holds of the page as it mounts, and after every step.
LEMMA PageInvariant == Spec => [](TypeOK /\ PageInv)
<1> USE PageAssumption
<1>1. Init => PageInv
  <2> SUFFICES ASSUME Init PROVE PageInv
    OBVIOUS
  <2>1. \A k \in Calls : call[k] = Idle
    BY DEF Init
  <2>2. QED
    BY <2>1 DEF Init, PageInv, NotAhead, Behind, Nothing, Idle, ButtonsFollowCalls
<1>2. TypeOK /\ PageInv /\ [Next]_vars => PageInv'
  <2> SUFFICES ASSUME TypeOK, PageInv, [Next]_vars PROVE PageInv'
    OBVIOUS
  <2>1. CallsInv'
    BY CallsStep DEF PageInv, CallsInv
  <2>2. QED  BY <2>1, OwnList, ShownBehind, AnswersBehind DEF PageInv, NotAhead, CallsInv
<1>3. QED  BY <1>1, <1>2, PageTypeCorrect, PTL DEF Spec

\* A button is disabled only while a request of its own kind and row is under
\* way, though the rows share one name and every finally clears it.
THEOREM ButtonsCorrect == Spec => []ButtonsFollowCalls
<1>1. PageInv => ButtonsFollowCalls
  BY DEF PageInv
<1>2. QED  BY <1>1, PageInvariant, PTL

\* However many polls and clicks overlap, and however late an answer is, the
\* page shows a build that still runs as over only if a Cancel's report fell
\* into it: its own Cancel's, or one of an earlier build whose handler was late.
THEOREM NeverAhead == Spec => []NeverShownOverEarly
<1>1. PageInv => NeverShownOverEarly
  BY DEF PageInv, NotAhead, Behind, NeverShownOverEarly
<1>2. QED  BY <1>1, PageInvariant, PTL
=============================================================================
