---------------------------- MODULE ImageRequest ----------------------------
(***************************************************************************)
(* The form and the Windows Setup it leads to: the builder accepts a       *)
(* request, the page is left, and an install VM carries out the file.      *)
(***************************************************************************)
EXTENDS WizardForm, WindowsSetup

allVars == <<form, env, sent, typed, plan, vm>>

\* The builder starts a build.  The person leaves the page, whose state is lost
\* with it (bound: one build per behaviour); a file that a hand wrote is not
\* followed further.
Accepted ==
  /\ saving /\ Acceptable(sent)
  /\ IF sent.autounattend = Hand THEN vm' = [at |-> "byHand"]
     ELSE \E script \in BOOLEAN : PowerOn(sent.autounattend, sent.media, script)
  /\ sent' = NoRequest /\ form' = NewForm /\ env' = NewEnv(<<>>, "missing")
  /\ typed' = Untyped /\ plan' = {}

InitAll == Init /\ vm = Off

NextAll ==
  \/ vm = Off /\ FormNext /\ UNCHANGED vm
  \/ vm = Off /\ Accepted
  \/ vm # Off /\ vm.at # "byHand" /\ SetupStep /\ UNCHANGED vars

Spec == InitAll /\ [][NextAll]_allVars

\* The VM runs on; nobody has to click or type.
FairSpec ==
  /\ Spec
  /\ WF_allVars(vm # Off /\ vm.at # "byHand" /\ SetupStep /\ UNCHANGED vars)

\* A file of the page, on the kind of ISO the form asks for, leads Setup all the
\* way to sysprep or to the updates, whatever letters the CDs get: no picker, no
\* second installation, no command that stops the guest short of the end.
SetupSeals == (vm.at = "boot") ~> Done
=============================================================================
