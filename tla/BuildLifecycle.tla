--------------------------- MODULE BuildLifecycle ---------------------------
(***************************************************************************)
(* What the builder promises about the builds of one disk, without its     *)
(* goroutines, Kubernetes calls and ConfigMaps: one build at a time; a     *)
(* verdict is final; after an accepted Cancel nothing but Cancelled is     *)
(* reported and the golden disk is left alone; a build replaces the golden *)
(* disk only after the point where it refuses Cancel; Ready comes after    *)
(* the new disk; and no build ends without a verdict.  BuildManager        *)
(* implements it.                                                          *)
(***************************************************************************)
VARIABLES
  stage,   \* of the disk's build; "idle" without one, "down" without a builder
  shown,   \* the status the builder reports, "None" for no record
  owed,    \* a Cancel was accepted and has not yet reported Cancelled
  golden   \* the golden disk: "None", "Pending", "Succeeded" or "Terminating"

vars == <<stage, shown, owed, golden>>

Active     == {"building", "stopping", "committed"}
InProgress == {"Pending", "Installing", "Sysprep"}
Verdicts   == {"Ready", "Error"}

Init == stage = "idle" /\ shown = "None" /\ owed = FALSE /\ golden = "None"

Begin ==
  /\ stage = "idle" /\ stage' = "building" /\ shown' = "Pending"
  /\ UNCHANGED <<owed, golden>>

\* Progress, or the verdict Error, of a build that was not cancelled.
Report ==
  /\ stage \in {"building", "committed"} /\ shown \notin Verdicts
  /\ shown' \in InProgress \cup {"Error"}
  /\ UNCHANGED <<stage, owed, golden>>

\* The guest is done: from here on Cancel is refused.
Commit ==
  /\ stage = "building" /\ stage' = "committed" /\ shown' = "Pending"
  /\ UNCHANGED <<owed, golden>>

Replace ==
  /\ stage = "committed" /\ shown \notin Verdicts
  /\ \/ golden \in {"Pending", "Succeeded"} /\ golden' = "Terminating"
     \/ golden = "None" /\ golden' = "Pending"
  /\ UNCHANGED <<stage, shown, owed>>

Publish ==
  /\ stage = "committed" /\ shown \notin Verdicts /\ golden = "Succeeded"
  /\ shown' = "Ready"
  /\ UNCHANGED <<stage, owed, golden>>

Cancel ==
  /\ stage \in {"building", "stopping"} /\ stage' = "stopping" /\ owed' = TRUE
  /\ UNCHANGED <<shown, golden>>

\* The report may come late, when the next build is under way; another may be owed.
ReportCancelled ==
  /\ owed /\ owed' \in BOOLEAN /\ shown' = "Cancelled"
  /\ UNCHANGED <<stage, golden>>

\* A build ends with a verdict, or leaves Cancelled to be reported.
End ==
  /\ stage \in Active /\ stage' = "idle"
  /\ shown \in InProgress => owed
  /\ UNCHANGED <<shown, owed, golden>>

Die ==
  /\ stage # "down" /\ stage' = "down" /\ shown' = "None" /\ owed' = FALSE
  /\ UNCHANGED golden

\* A restart resumes the build the record speaks of, or gives it a verdict.
\* (An older verdict is reported again.)
Restart ==
  /\ stage = "down"
  /\ \/ stage' = "building" /\ shown' \in {"Installing", "Sysprep"}
     \/ stage' = "idle" /\ shown' \in Verdicts \cup {"None", "Cancelled"}
  /\ UNCHANGED <<owed, golden>>

\* The cluster copies the new disk and finishes deletions.
Cluster ==
  /\ \/ golden = "Pending" /\ golden' = "Succeeded"
     \/ golden = "Terminating" /\ golden' = "None"
  /\ UNCHANGED <<stage, shown, owed>>

Next ==
  \/ Begin \/ Report \/ Commit \/ Replace \/ Publish \/ Cancel \/ ReportCancelled
  \/ End \/ Die \/ Restart \/ Cluster

Spec == Init /\ [][Next]_vars

-----------------------------------------------------------------------------

\* Without a build, a status that says one is under way is about to become Cancelled.
NoOrphan == stage = "idle" /\ shown \in InProgress => owed
=============================================================================
