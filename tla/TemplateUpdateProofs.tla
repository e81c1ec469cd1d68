------------------------ MODULE TemplateUpdateProofs ------------------------
(***************************************************************************)
(* Theorems about TemplateUpdate, for any number of disks, builds, failed  *)
(* calls and edits: what a build leaves in a Template is right whatever    *)
(* the other builds and writers do, and their edits outlive it.            *)
(***************************************************************************)
EXTENDS TemplateUpdate, TLAPS

\* A Template whose answer file, if any, sits in the volume named sysprep, and
\* each disk of whose VM shows a volume.
Proper(t) ==
  /\ \A v \in t.vols : v.content = "sysprep" => v.name = "sysprep"
  /\ t.disks \subseteq {v.name : v \in t.vols}

\* The inductive invariant.  What a build read is a Template, and as long as
\* nobody wrote since, this Template; while nobody edits, the DataSource of a
\* build that is past it points at its disk; a Template that a build made names
\* its disk, and any other that a build wrote has that build's parameters.
UpdateInv ==
  /\ \A d \in Disks : pc[d] = "templatePut" =>
       got[d] \in TemplateBodies \cup {Absent} /\ (d \in fresh => got[d] = template)
  /\ edits = 0 =>
       \A d \in Disks :
         pc[d] \in {"templateGet", "templatePut"} \/ writer = d => source[d] = Named(d)
  /\ maker # Nobody \/ writer # Nobody => template.there
  /\ maker # Nobody =>
       template.clones = maker /\ (writer \in Custom => maker = writer)
  /\ writer # Nobody /\ maker = Nobody =>
       /\ template.params["DATA_SOURCE_NAME"] = writer
       /\ template.params["DATA_SOURCE_NAMESPACE"] = GoldenNS

\* With Templates that are proper, what is there and what was read stays so.
ProperInv ==
  /\ template.there => Proper(template)
  /\ \A d \in Disks : pc[d] = "templatePut" /\ got[d].there => Proper(got[d])
  /\ writer # Nobody => template.there /\ \A v \in template.vols : v.content # "sysprep"

-----------------------------------------------------------------------------
(* What a build writes.                                                    *)

\* An updated Template is one, with both parameters set and nothing else
\* changed but the answer file.
LEMMA UpdatedTemplate ==
  ASSUME TemplateAssumption, NEW t \in TemplateBodies, NEW d \in Disks
  PROVE  LET u == stripTemplateSysprep(applyTemplateDataSource(t, d)) IN
         /\ u \in TemplateBodies
         /\ u.params["DATA_SOURCE_NAME"] = d /\ u.params["DATA_SOURCE_NAMESPACE"] = GoldenNS
         /\ u.params["NAME"] = t.params["NAME"] /\ u.clones = t.clones
         /\ u.vols = {v \in t.vols : ~isSysprepVolume(v)} /\ u.disks = t.disks \ {"sysprep"}
<1> DEFINE a == applyTemplateDataSource(t, d)
<1>1. /\ a \in TemplateBodies
      /\ a.params["DATA_SOURCE_NAME"] = d /\ a.params["DATA_SOURCE_NAMESPACE"] = GoldenNS
      /\ a.params["NAME"] = t.params["NAME"] /\ a.clones = t.clones
      /\ a.vols = t.vols /\ a.disks = t.disks
  BY DEF applyTemplateDataSource, TemplateBodies, Params, Values
<1> HIDE DEF a
<1>2. LET u == stripTemplateSysprep(a) IN
      /\ u \in TemplateBodies /\ u.params = a.params /\ u.clones = a.clones
      /\ u.vols = {v \in a.vols : ~isSysprepVolume(v)} /\ u.disks = a.disks \ {"sysprep"}
  BY <1>1 DEF stripTemplateSysprep, TemplateBodies
<1>3. QED  BY <1>1, <1>2 DEF a

\* A new Template clones the disk and has no answer file.
LEMMA NewTemplate ==
  ASSUME TemplateAssumption, NEW d \in Disks
  PROVE  /\ windowsVMTemplate(d) \in TemplateBodies /\ windowsVMTemplate(d).clones = d
         /\ Proper(windowsVMTemplate(d)) /\ windowsVMTemplate(d).there
         /\ \A v \in windowsVMTemplate(d).vols : v.content # "sysprep"
BY DEF windowsVMTemplate, TemplateBodies, Params, Values, Volumes, Proper

\* Removing the answer file of a proper Template leaves it proper.
LEMMA StaysProper ==
  ASSUME TemplateAssumption, NEW t \in TemplateBodies, NEW d \in Disks, Proper(t)
  PROVE  LET u == stripTemplateSysprep(applyTemplateDataSource(t, d)) IN
         Proper(u) /\ \A v \in u.vols : v.content # "sysprep"
BY UpdatedTemplate DEF Proper, isSysprepVolume

\* Whatever was read, what is written is a Template: the one read with both
\* parameters set, or a new one that names the disk.
LEMMA WrittenTemplate ==
  ASSUME TemplateAssumption, NEW d \in Disks, got[d] \in TemplateBodies \cup {Absent}
  PROVE  /\ Written(d) \in TemplateBodies /\ Written(d).there
         /\ Updates(d) => /\ got[d].there /\ Written(d).clones = got[d].clones /\ d \notin Custom
                          /\ Written(d).params["DATA_SOURCE_NAME"] = d
                          /\ Written(d).params["DATA_SOURCE_NAMESPACE"] = GoldenNS
         /\ ~Updates(d) => Written(d).clones = d
<1>1. CASE Updates(d)
  <2>1. got[d] \in TemplateBodies
    BY <1>1 DEF Updates, Absent
  <2>2. Written(d) = stripTemplateSysprep(applyTemplateDataSource(got[d], d))
    BY <1>1 DEF Written
  <2>3. \A t \in TemplateBodies : t.there
    BY DEF TemplateBodies
  <2>4. got[d].there /\ d \notin Custom
    BY <1>1 DEF Updates
  <2>5. QED  BY <1>1, <2>1, <2>2, <2>3, <2>4, UpdatedTemplate
<1>2. CASE ~Updates(d)
  BY <1>2, NewTemplate DEF Written
<1>3. QED  BY <1>1, <1>2

-----------------------------------------------------------------------------
(* The kinds of steps.                                                     *)

\* The disks outside S do not come to read or write a Template, and what they
\* read is not made new.
Rests(S) ==
  \A e \in Disks \ S :
    /\ pc'[e] = "templatePut" =>
         pc[e] = "templatePut" /\ got'[e] = got[e] /\ (e \in fresh' => e \in fresh)
    /\ pc'[e] = "templateGet" => pc[e] = "templateGet"

TemplateWritten(d) ==
  /\ pc[d] = "templatePut" /\ Accepted(d, template.there)
  /\ template' = Written(d) /\ writer' = d
  /\ maker' = IF Updates(d) THEN maker ELSE d
  /\ UNCHANGED <<source, edits>>
  /\ pc'[d] \in {"ready", "error"}
  /\ Rests({d}) /\ \A e \in Disks : pc'[e] = "templatePut" => e \notin fresh'

TemplateRead(d) ==
  /\ pc[d] = "templateGet" /\ pc'[d] = "templatePut" /\ got'[d] = template
  /\ UNCHANGED <<template, writer, maker, source, edits>> /\ Rests({d})

SourceWritten(d) ==
  /\ source' = [source EXCEPT ![d] = Named(d)] /\ pc'[d] \in {"templateGet", "error"}
  /\ UNCHANGED <<template, writer, maker, edits>> /\ Rests({d})

Edited ==
  /\ template' \in Templates \cup {Absent} /\ writer' = Nobody /\ maker' = Nobody /\ edits' # 0
  /\ Rests({}) /\ \A e \in Disks : pc'[e] = "templatePut" => e \notin fresh'

Beside ==
  /\ UNCHANGED <<template, writer, maker>> /\ Rests({})
  /\ UNCHANGED <<source, edits>> \/ edits' # 0

\* Every step is of one of these kinds.
LEMMA StepKinds ==
  ASSUME TemplateAssumption, TypeOK, [Next]_vars
  PROVE  \/ \E d \in Disks : TemplateWritten(d) \/ TemplateRead(d) \/ SourceWritten(d)
         \/ Edited \/ Beside
<1> USE DEF TypeOK, Rests, Goto
<1>1. ASSUME NEW d \in Disks, ensureDataSource(d) PROVE Beside \/ SourceWritten(d)
  BY <1>1 DEF ensureDataSource, Get, Put, Beside, SourceWritten
<1>2. ASSUME NEW d \in Disks, ensureTemplate(d) PROVE TemplateRead(d) \/ TemplateWritten(d)
  BY <1>2 DEF ensureTemplate, WriteTemplate, Get, Put, TemplateRead, TemplateWritten
<1>3. ASSUME NEW d \in Disks, Refused(d) \/ CallFails(d) PROVE Beside
  BY <1>3 DEF Refused, CallFails, Put, SourceError, Beside
<1>4. ASSUME NEW d \in Disks, AnswerLost(d) PROVE SourceWritten(d) \/ TemplateWritten(d)
  BY <1>4 DEF AnswerLost, WriteTemplate, Put, SourceError, SourceWritten, TemplateWritten
<1>5. ASSUME NEW d \in Disks, NextBuild(d) PROVE Beside
  BY <1>5 DEF NextBuild, Beside
<1>6. ASSUME NEW d \in Disks, SourceEdited(d) PROVE Beside
  BY <1>6 DEF SourceEdited, Edit, Beside
<1>7. CASE TemplateEdited
  BY <1>7 DEF TemplateEdited, Edit, Edited
<1>8. CASE UNCHANGED vars
  BY <1>8 DEF vars, Beside
<1>9. QED  BY <1>1, <1>2, <1>3, <1>4, <1>5, <1>6, <1>7, <1>8 DEF Next, BuildStep

-----------------------------------------------------------------------------
(* The invariants.                                                         *)

\* Every step keeps types.
LEMMA UpdateTypeStep ==
  ASSUME TemplateAssumption, TypeOK, UpdateInv, [Next]_vars
  PROVE  TypeOK'
<1>0. /\ template' \in TemplateBodies \cup {Absent} /\ {writer', maker'} \subseteq Disks \cup {Nobody}
  <2>1. ASSUME NEW d \in Disks, TemplateWritten(d)
        PROVE  template' \in TemplateBodies /\ {writer', maker'} \subseteq Disks \cup {Nobody}
    BY <2>1, WrittenTemplate DEF TemplateWritten, UpdateInv, TypeOK
  <2>2. QED
    BY <2>1, StepKinds DEF TemplateRead, SourceWritten, Edited, Beside, TypeOK, TemplateAssumption
<1>1. source' \in [Disks -> Sources]
  <2>1. \A d \in Disks : Named(d) \in Sources
    BY DEF Named, Sources
  <2>2. {Absent, [there |-> TRUE, pvc |-> Elsewhere]} \subseteq Sources
    BY DEF Sources
  <2>3. \/ source' = source
        \/ \E d \in Disks : source' = [source EXCEPT ![d] = Named(d)]
        \/ \E d \in Disks : \E s \in {Absent, [there |-> TRUE, pvc |-> Elsewhere]} :
             source' = [source EXCEPT ![d] = s]
    BY DEF Next, BuildStep, ensureDataSource, ensureTemplate, Refused, CallFails, AnswerLost,
           WriteTemplate, NextBuild, SourceEdited, TemplateEdited, Get, Put, vars
  <2>4. QED  BY <2>1, <2>2, <2>3 DEF TypeOK
<1>2. pc' \in [Disks -> {"idle", "sourceGet", "sourcePut", "templateGet", "templatePut", "ready", "error"}]
  BY DEF TypeOK, Next, BuildStep, ensureDataSource, ensureTemplate, Refused, CallFails, AnswerLost,
         WriteTemplate, NextBuild, SourceEdited, TemplateEdited, Get, Put, Goto, SourceError, vars
<1>3. got' \in [Disks -> TemplateBodies \cup Sources]
  <2>1. Absent \in Sources
    BY DEF Sources
  <2>2. \A d \in Disks : source[d] \in TemplateBodies \cup Sources
    BY DEF TypeOK
  <2>3. template \in TemplateBodies \cup Sources
    BY <2>1 DEF TypeOK
  <2>4. QED
    BY <2>1, <2>2, <2>3 DEF TypeOK, Next, BuildStep, ensureDataSource, ensureTemplate, Refused,
       CallFails, AnswerLost, WriteTemplate, NextBuild, SourceEdited, TemplateEdited, Get, Put, vars
<1>4. fresh' \subseteq Disks
  BY DEF TypeOK, Next, BuildStep, ensureDataSource, ensureTemplate, Refused, CallFails, AnswerLost, WriteTemplate,
         NextBuild, SourceEdited, TemplateEdited, Get, vars
<1>5. tries' \in [Disks -> 0 .. MaxTries]
  BY DEF TypeOK, TemplateAssumption, Next, BuildStep, ensureDataSource, ensureTemplate, Refused,
         CallFails, AnswerLost, WriteTemplate, NextBuild, SourceEdited, TemplateEdited, Get, Put, vars
<1>6. edits' \in 0 .. MaxEdits /\ faults' \in 0 .. MaxFaults
  BY DEF TypeOK, TemplateAssumption, Next, BuildStep, ensureDataSource, ensureTemplate, Refused,
         CallFails, AnswerLost, WriteTemplate, NextBuild, SourceEdited, TemplateEdited, Get, Put, Fault, Edit, vars
<1>7. QED  BY <1>0, <1>1, <1>2, <1>3, <1>4, <1>5, <1>6 DEF TypeOK

\* Every step keeps the invariant.
LEMMA UpdateInvStep ==
  ASSUME TemplateAssumption, TypeOK, UpdateInv, [Next]_vars
  PROVE  UpdateInv'
<1> USE DEF Rests
<1>0. Nobody \notin Disks
  BY DEF TemplateAssumption
<1>1. ASSUME NEW d \in Disks, TemplateWritten(d) PROVE UpdateInv'
  <2>1. got[d] \in TemplateBodies \cup {Absent}
    BY <1>1 DEF TemplateWritten, UpdateInv
  <2>2. /\ template'.there /\ writer' = d
        /\ \/ /\ ~Updates(d) /\ template'.clones = d /\ maker' = d
           \/ /\ Updates(d) /\ d \notin Custom /\ maker' = maker
              /\ template'.clones = template.clones
              /\ template'.params["DATA_SOURCE_NAME"] = d
              /\ template'.params["DATA_SOURCE_NAMESPACE"] = GoldenNS
    <3>1. Updates(d) => got[d] = template
      BY <1>1, <2>1 DEF TemplateWritten, Accepted, Updates, UpdateInv
    <3>2. QED  BY <1>1, <2>1, <3>1, WrittenTemplate DEF TemplateWritten
  <2>3. QED  BY <1>0, <1>1, <2>2 DEF TemplateWritten, UpdateInv
<1>2. ASSUME NEW d \in Disks, TemplateRead(d) PROVE UpdateInv'
  BY <1>2 DEF TemplateRead, UpdateInv, TypeOK
<1>3. ASSUME NEW d \in Disks, SourceWritten(d) PROVE UpdateInv'
  BY <1>3 DEF SourceWritten, UpdateInv, TypeOK
<1>4. CASE Edited
  BY <1>0, <1>4 DEF Edited, UpdateInv
<1>5. CASE Beside
  BY <1>5 DEF Beside, UpdateInv
<1>6. QED  BY <1>1, <1>2, <1>3, <1>4, <1>5, StepKinds

\* So does the second one, when the Templates are proper.
LEMMA ProperInvStep ==
  ASSUME TemplateAssumption, \A t \in Templates : Proper(t), TypeOK, UpdateInv, ProperInv, [Next]_vars
  PROVE  ProperInv'
<1> USE DEF Rests
<1>1. ASSUME NEW d \in Disks, TemplateWritten(d) PROVE ProperInv'
  <2>1. Proper(Written(d)) /\ Written(d).there /\ \A v \in Written(d).vols : v.content # "sysprep"
    <3>1. CASE Updates(d)
      <4>1. got[d] \in TemplateBodies /\ Proper(got[d])
        BY <1>1, <3>1 DEF Updates, Absent, TemplateWritten, UpdateInv, ProperInv
      <4>2. Written(d) = stripTemplateSysprep(applyTemplateDataSource(got[d], d))
        BY <3>1 DEF Written
      <4>3. Written(d).there
        BY <4>1, WrittenTemplate
      <4>4. QED  BY <4>1, <4>2, <4>3, StaysProper
    <3>2. CASE ~Updates(d)
      BY <3>2, NewTemplate DEF Written
    <3>3. QED  BY <3>1, <3>2
  <2>2. QED  BY <1>1, <2>1 DEF TemplateWritten, ProperInv, Proper
<1>2. ASSUME NEW d \in Disks, TemplateRead(d) PROVE ProperInv'
  BY <1>2 DEF TemplateRead, ProperInv, Proper
<1>3. ASSUME NEW d \in Disks, SourceWritten(d) PROVE ProperInv'
  BY <1>3 DEF SourceWritten, ProperInv, Proper
<1>4. CASE Edited
  BY <1>4 DEF Edited, ProperInv, Proper, Absent
<1>5. CASE Beside
  BY <1>5 DEF Beside, ProperInv, Proper
<1>6. QED  BY <1>1, <1>2, <1>3, <1>4, <1>5, StepKinds

\* Types and the invariant hold before the first build and after every step.
LEMMA UpdateInvariant == Spec => [](TypeOK /\ UpdateInv)
<1> USE TemplateAssumption
<1>1. Init => TypeOK /\ UpdateInv
  <2> SUFFICES ASSUME Init PROVE TypeOK /\ UpdateInv
    OBVIOUS
  <2>1. template \in TemplateBodies \cup {Absent} /\ 0 \in 0 .. MaxTries /\ 0 \in 0 .. MaxEdits /\ 0 \in 0 .. MaxFaults
    BY DEF Init, TemplateAssumption
  <2>2. source \in [Disks -> Sources] /\ Absent \in Sources
    <3>1. Absent \in Sources /\ [there |-> TRUE, pvc |-> Elsewhere] \in Sources
      BY DEF Sources
    <3>2. QED  BY <3>1 DEF Init
  <2>3. TypeOK
    BY <2>1, <2>2 DEF Init, TypeOK
  <2>4. UpdateInv
    BY DEF Init, UpdateInv, TemplateAssumption
  <2>5. QED  BY <2>3, <2>4
<1>2. TypeOK /\ UpdateInv /\ [Next]_vars => TypeOK' /\ UpdateInv'
  BY UpdateTypeStep, UpdateInvStep
<1>3. QED  BY <1>1, <1>2, PTL DEF Spec

\* If the Templates of others go by their parameters, as the stock ones do, a VM
\* of a Template that a build wrote last boots that build's golden disk, or, where
\* a build made the Template, the disk it was made for.
THEOREM TemplateLeadsToDisk ==
  ASSUME \A t \in Templates : t.clones = "unset"
  PROVE  Spec => []TemplateBootsDisk
<1> USE TemplateAssumption
<1> DEFINE ByParameters == template.there /\ maker = Nobody => template.clones = "unset"
<1>1. Init => ByParameters
  BY DEF Init, Absent
<1>2. ASSUME TypeOK, UpdateInv, ByParameters, [Next]_vars PROVE ByParameters'
  <2>1. ASSUME NEW d \in Disks, TemplateWritten(d) PROVE ByParameters'
    <3>1. Updates(d) => got[d] = template
      BY <1>2, <2>1 DEF TemplateWritten, Accepted, Updates, UpdateInv
    <3>2. Updates(d) => template.there /\ template'.clones = template.clones /\ maker' = maker
      BY <1>2, <2>1, <3>1, WrittenTemplate DEF TemplateWritten, UpdateInv
    <3>3. ~Updates(d) => maker' # Nobody
      BY <2>1 DEF TemplateWritten, TemplateAssumption
    <3>4. QED  BY <1>2, <3>2, <3>3
  <2>2. CASE Edited
    BY <2>2 DEF Edited, Absent
  <2>3. CASE Beside
    BY <1>2, <2>3 DEF Beside
  <2>4. ASSUME NEW d \in Disks, TemplateRead(d) \/ SourceWritten(d) PROVE ByParameters'
    BY <1>2, <2>4 DEF TemplateRead, SourceWritten
  <2>5. QED  BY <1>2, <2>1, <2>2, <2>3, <2>4, StepKinds
<1>3. TypeOK /\ UpdateInv /\ ByParameters => TemplateBootsDisk
  BY DEF TypeOK, UpdateInv, TemplateBootsDisk
<1>4. QED  BY <1>1, <1>2, <1>3, UpdateInvariant, PTL DEF Spec

\* A build leaves no answer file and no disk without its volume, if the other
\* writers' Templates are proper.
THEOREM NoAnswerFile ==
  ASSUME \A t \in Templates : Proper(t)
  PROVE  Spec => []NoAnswerFileLeft
<1>1. Init => ProperInv
  BY TemplateAssumption DEF Init, ProperInv, Absent, TemplateAssumption
<1>2. TypeOK /\ UpdateInv /\ ProperInv /\ [Next]_vars => ProperInv'
  BY TemplateAssumption, ProperInvStep
<1>3. ProperInv => NoAnswerFileLeft
  BY DEF ProperInv, NoAnswerFileLeft, Proper
<1>4. QED  BY <1>1, <1>2, <1>3, UpdateInvariant, PTL DEF Spec

\* An update loses nothing that another writer put into the Template, also
\* between the build's GET and its PUT.
THEOREM EditsSurvive == Spec => OthersEditsKept
<1> USE TemplateAssumption
<1>1. ASSUME TypeOK, UpdateInv, [Next]_vars, NEW d \in Disks \ Custom, BuildWrites(d), template.there
      PROVE  Kept(template') = Kept(template)
  <2>1. TemplateWritten(d)
    BY <1>1, StepKinds DEF BuildWrites, TemplateWritten, TemplateRead, SourceWritten, Edited,
                           Beside, TemplateAssumption
  <2>2. got[d] = template /\ Updates(d) /\ template \in TemplateBodies
    BY <1>1, <2>1 DEF TemplateWritten, Accepted, UpdateInv, Updates, TypeOK, Absent
  <2>3. template' = stripTemplateSysprep(applyTemplateDataSource(template, d))
    BY <2>1, <2>2 DEF TemplateWritten, Written
  <2>4. QED  BY <2>2, <2>3, UpdatedTemplate DEF Kept
<1>2. TypeOK /\ UpdateInv /\ [Next]_vars
        => [\A d \in Disks \ Custom :
              BuildWrites(d) /\ template.there => Kept(template') = Kept(template)]_vars
  BY <1>1
<1>3. QED  BY <1>2, UpdateInvariant, PTL DEF Spec, OthersEditsKept
=============================================================================
