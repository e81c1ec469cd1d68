--------------------------- MODULE TemplateUpdate ---------------------------
(***************************************************************************)
(* The end of finishBuild (builder/pipeline.go): once the golden disk is   *)
(* cloned, the build updates its DataSource and one OpenShift Template,    *)
(* each by a GET and a PUT or POST.  Builds of several disks may be given  *)
(* the same Template, and it has other writers: the operator that owns it, *)
(* and people.  The API server refuses a PUT whose resourceVersion is old, *)
(* and a POST of a name that exists.  A build with no Template stops after *)
(* its DataSource, which nobody shares, and is not followed.               *)
(***************************************************************************)
EXTENDS FiniteSets, Naturals

CONSTANTS
  Disks,       \* disk names, one build at a time each
  Custom,      \* those whose build has req.CustomTemplate
  GoldenNS, Elsewhere,   \* the golden namespace, and any other value
  Templates,   \* Templates that others write
  MaxTries,    \* builds of one disk
  MaxEdits,    \* writes of others
  MaxFaults    \* failed calls

\* A Template: parameters ("unset": without a value, or missing), volumes by
\* name and content, and VM disks by name.  A windowsVMTemplate clones a
\* DataVolume it names itself.
Params    == {"NAME", "DATA_SOURCE_NAME", "DATA_SOURCE_NAMESPACE"}
Values    == Disks \cup {GoldenNS, Elsewhere, "unset"}
Volumes   == [name : {"rootdisk", "extra", "sysprep"}, content : {"data", "sysprep"}]
TemplateBodies ==
  [there : {TRUE}, params : [Params -> Values], vols : SUBSET Volumes,
   disks : SUBSET {"rootdisk", "extra", "sysprep"}, clones : Values]
Absent == [there |-> FALSE]

\* A DataSource: the claim it points at.
Sources == [there : {TRUE}, pvc : Disks \cup {Elsewhere}] \cup {Absent}

Nobody == "nobody"

ASSUME TemplateAssumption ==
  /\ Custom \subseteq Disks /\ Templates \subseteq TemplateBodies
  /\ {GoldenNS, Elsewhere, "unset", Nobody} \cap Disks = {} /\ GoldenNS # Elsewhere
  /\ MaxTries \in Nat /\ MaxEdits \in Nat /\ MaxFaults \in Nat

VARIABLES
  template, writer,  \* the Template, and the disk whose build wrote it last
  maker,             \* history: the disk whose build made this Template
  source,            \* each disk's DataSource
  pc, got, fresh,    \* per build: next step, what it read, whether that is still so
  tries, edits, faults

vars == <<template, writer, maker, source, pc, got, fresh, tries, edits, faults>>

Fault == faults < MaxFaults /\ faults' = faults + 1

Goto(d, l) == pc' = [pc EXCEPT ![d] = l]

-----------------------------------------------------------------------------
(* What the writes contain.                                                *)

Named(d) == [there |-> TRUE, pvc |-> d]

\* Both parameters get their values, added where they are missing.
applyTemplateDataSource(t, d) ==
  [t EXCEPT !.params["DATA_SOURCE_NAME"] = d,
            !.params["DATA_SOURCE_NAMESPACE"] = GoldenNS]

isSysprepVolume(v) == v.name = "sysprep" \/ v.content = "sysprep"

\* Mutant: the disk stays that showed the volume.
VolumesOnly(t) == [t EXCEPT !.vols = {v \in @ : ~isSysprepVolume(v)}]

stripTemplateSysprep(t) ==
  [t EXCEPT !.vols = {v \in @ : ~isSysprepVolume(v)}, !.disks = @ \ {"sysprep"}]

windowsVMTemplate(d) ==
  [there |-> TRUE, params |-> [p \in Params |-> "unset"],
   vols |-> {[name |-> "rootdisk", content |-> "data"]}, disks |-> {"rootdisk"},
   clones |-> d]

\* A Template that exists is updated, unless the user named a custom one.
Updates(d) == got[d].there /\ d \notin Custom

Written(d) ==
  IF Updates(d)
    THEN stripTemplateSysprep(applyTemplateDataSource(got[d], d))
    ELSE windowsVMTemplate(d)

-----------------------------------------------------------------------------
(* The steps of a build.                                                   *)

\* Mutants: the PUT carries no resourceVersion, or POST is used throughout.
AnyVersion(d, there)   == got[d].there = there
AlwaysCreates(d, there) == ~there

\* PUT of what was read, or POST where nothing was.
Accepted(d, there) == IF got[d].there THEN d \in fresh ELSE ~there

\* Mutant: a failed DataSource update is only logged.
TemplateAnyway == "templateGet"

SourceError == "error"

Get(d, from, to, object) ==
  /\ pc[d] = from /\ Goto(d, to)
  /\ got' = [got EXCEPT ![d] = object] /\ fresh' = fresh \cup {d}
  /\ UNCHANGED <<template, writer, maker, source, tries, edits, faults>>

\* A write ends the build's interest in what it read.
Put(d, to) ==
  /\ Goto(d, to)
  /\ got' = [got EXCEPT ![d] = Absent]
  /\ UNCHANGED <<tries, edits>>

\* The Template is written; only windowsVMTemplate makes a new one.
WriteTemplate(d) ==
  /\ template' = Written(d) /\ writer' = d
  /\ maker' = IF Updates(d) THEN maker ELSE d
  /\ fresh' = {e \in fresh : pc[e] # "templatePut"}

ensureDataSource(d) ==
  \/ Get(d, "sourceGet", "sourcePut", source[d])
  \/ /\ pc[d] = "sourcePut" /\ Accepted(d, source[d].there)
     /\ source' = [source EXCEPT ![d] = Named(d)]
     /\ fresh' = fresh \ {d}
     /\ Put(d, "templateGet")
     /\ UNCHANGED <<template, writer, maker, faults>>

ensureTemplate(d) ==
  \/ Get(d, "templateGet", "templatePut", template)
  \/ /\ pc[d] = "templatePut" /\ Accepted(d, template.there)
     /\ WriteTemplate(d)
     /\ Put(d, "ready")
     /\ UNCHANGED <<source, faults>>

\* The API server refuses the write: the build ends in Error.
Refused(d) ==
  /\ \/ pc[d] = "sourcePut" /\ ~Accepted(d, source[d].there) /\ Put(d, SourceError)
     \/ pc[d] = "templatePut" /\ ~Accepted(d, template.there) /\ Put(d, "error")
  /\ fresh' = fresh \ {d}
  /\ UNCHANGED <<template, writer, maker, source, faults>>

\* A call fails before it reaches the server.
CallFails(d) ==
  /\ Fault
  /\ \/ pc[d] \in {"sourceGet", "sourcePut"} /\ Put(d, SourceError)
     \/ pc[d] \in {"templateGet", "templatePut"} /\ Put(d, "error")
  /\ fresh' = fresh \ {d}
  /\ UNCHANGED <<template, writer, maker, source>>

\* The write is done but its answer is lost.
AnswerLost(d) ==
  /\ Fault
  /\ \/ /\ pc[d] = "sourcePut" /\ Accepted(d, source[d].there)
        /\ source' = [source EXCEPT ![d] = Named(d)]
        /\ fresh' = fresh \ {d}
        /\ Put(d, SourceError)
        /\ UNCHANGED <<template, writer, maker>>
     \/ /\ pc[d] = "templatePut" /\ Accepted(d, template.there)
        /\ WriteTemplate(d)
        /\ Put(d, "error")
        /\ UNCHANGED source

\* The next build of the disk gets this far.
NextBuild(d) ==
  /\ pc[d] \in {"idle", "ready", "error"} /\ tries[d] < MaxTries
  /\ tries' = [tries EXCEPT ![d] = @ + 1]
  /\ Goto(d, "sourceGet")
  /\ UNCHANGED <<template, writer, maker, source, got, fresh, edits, faults>>

-----------------------------------------------------------------------------
(* The Template's other writers, and the DataSource's.                     *)

Edit == edits < MaxEdits /\ edits' = edits + 1

TemplateEdited ==
  /\ Edit
  /\ template' \in Templates \cup {Absent} /\ writer' = Nobody /\ maker' = Nobody
  /\ fresh' = {d \in fresh : pc[d] # "templatePut"}
  /\ UNCHANGED <<source, pc, got, tries, faults>>

SourceEdited(d) ==
  /\ Edit
  /\ \E s \in {Absent, [there |-> TRUE, pvc |-> Elsewhere]} :
       source' = [source EXCEPT ![d] = s]
  /\ fresh' = IF pc[d] = "sourcePut" THEN fresh \ {d} ELSE fresh
  /\ UNCHANGED <<template, writer, maker, pc, got, tries, faults>>

Init ==
  /\ template \in Templates \cup {Absent} /\ writer = Nobody /\ maker = Nobody
  /\ source \in [Disks -> {Absent, [there |-> TRUE, pvc |-> Elsewhere]}]
  /\ pc = [d \in Disks |-> "idle"] /\ got = [d \in Disks |-> Absent] /\ fresh = {}
  /\ tries = [d \in Disks |-> 0] /\ edits = 0 /\ faults = 0

BuildStep(d) ==
  ensureDataSource(d) \/ ensureTemplate(d) \/ Refused(d) \/ CallFails(d) \/ AnswerLost(d)

Next ==
  \/ \E d \in Disks : NextBuild(d) \/ BuildStep(d) \/ SourceEdited(d)
  \/ TemplateEdited

Spec == Init /\ [][Next]_vars

\* A build goes on; nobody has to start one or to edit anything.
FairSpec == Spec /\ \A d \in Disks : WF_vars(BuildStep(d))

-----------------------------------------------------------------------------
(* Properties.                                                             *)

\* Every variable keeps its type.
TypeOK ==
  /\ template \in TemplateBodies \cup {Absent} /\ {writer, maker} \subseteq Disks \cup {Nobody}
  /\ source \in [Disks -> Sources]
  /\ pc \in [Disks -> {"idle", "sourceGet", "sourcePut", "templateGet",
                       "templatePut", "ready", "error"}]
  /\ got \in [Disks -> TemplateBodies \cup Sources] /\ fresh \subseteq Disks
  /\ tries \in [Disks -> 0 .. MaxTries]
  /\ edits \in 0 .. MaxEdits /\ faults \in 0 .. MaxFaults

\* Which golden disk a VM boots that is made from a Template a build wrote.  One
\* that goes by the parameters boots the disk of its last writer, through a
\* DataSource that is written first (people aside).  One that a build made
\* names its disk in the VM, and an update by another disk's build, which sets
\* the parameters only, does not change that: it goes on booting the disk it
\* was made for.
TemplateBootsDisk ==
  writer # Nobody =>
    IF maker # Nobody
      THEN template.clones = maker /\ (writer \in Custom => maker = writer)
      ELSE /\ template.clones = "unset"
           /\ template.params["DATA_SOURCE_NAME"] = writer
           /\ template.params["DATA_SOURCE_NAMESPACE"] = GoldenNS
           /\ edits = 0 => source[writer] = Named(writer)

\* A Template a build wrote attaches no answer file, and every disk of its VM
\* still has a volume, as long as the answer file's volume is named sysprep.
NoAnswerFileLeft ==
  writer # Nobody =>
    /\ \A v \in template.vols : v.content # "sysprep"
    /\ template.disks \subseteq {v.name : v \in template.vols}

\* An update changes nothing of the Template that is there but the two
\* parameters and the answer file, whoever wrote it after the build's GET.
BuildWrites(d) == template' # template /\ writer' = d /\ pc[d] = "templatePut"
Kept(t) == <<t.params["NAME"], {v \in t.vols : ~isSysprepVolume(v)}, t.clones>>
OthersEditsKept ==
  [][\A d \in Disks \ Custom :
       BuildWrites(d) /\ template.there => Kept(template') = Kept(template)]_vars

\* Builds that conflict over one Template do not all fail: once one was
\* started, with no failed call and no edit, one of them ends in Ready.
SomeBuildPublishes ==
  (\E d \in Disks : pc[d] = "sourceGet")
    ~> (edits + faults > 0 \/ \E d \in Disks : pc[d] = "ready")
=============================================================================
