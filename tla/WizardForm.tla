----------------------------- MODULE WizardForm -----------------------------
(***************************************************************************)
(* The form of the console page (components/WindowsBuilderPage.tsx): five  *)
(* steps, prefills that follow the edition until the person types, lists   *)
(* and answers that arrive late, and the request that Start sends.         *)
(*                                                                         *)
(* An action is one event with its handler and the React effects that      *)
(* follow it (Settle): React runs them before the next click or key.       *)
(***************************************************************************)
EXTENDS AnswerFile

CONSTANTS
  TemplateLists, \* the lists of Templates the watch may show
  Volumes,       \* the golden DataVolumes, once loaded
  Classes,       \* the StorageClasses, once loaded
  TypedNames, TypedUrls, TypedSizes, \* what the person types
  Scheme,        \* of a URL: "http" also for https, "HTTP" in other letters, or "none"
  Cached,        \* the list a page finds loaded when nothing about lists varies
  Plans          \* bound: the groups of fields one behaviour varies

\* The strings of the Kubernetes lists are what the API server lets through: an
\* object has a name.  A class, a size or a hint that is stated is a text.
ASSUME ListAssumption ==
  /\ <<>> \in TemplateLists
  /\ \A ts \in TemplateLists : DOMAIN ts \subseteq Nat
                               /\ \A i \in DOMAIN ts : ts[i].name # "" /\ ts[i].rank \in Nat
  /\ \A dv \in Volumes : dv.name \in Names

\* What the person types is among the texts the tables know.
ASSUME TypedAssumption ==
  /\ TypedNames \subseteq Names /\ TypedSizes \subseteq Sizes
  /\ {""} \cup Hints \cup TypedUrls \subseteq DOMAIN Scheme
  /\ Scheme[""] = "none" /\ "url" \in DOMAIN Scheme /\ Scheme["url"] = "http"

VARIABLES
  form,   \* the fields of the form
  env,    \* what the cluster has shown: Templates, their API, DataVolumes, classes;
          \* asked: calls of clusterVirtioWinImage under way
  sent,   \* the Start request under way, or NoRequest
  typed,  \* history: <<the value>> the person gave a field, <<>> when a prefill may have it
  plan    \* the groups this behaviour varies

vars == <<form, env, sent, typed, plan>>

STEP_ORDER == <<"edition", "iso", "unattend", "template", "build">>
Place(id)  == CHOOSE i \in DOMAIN STEP_ORDER : STEP_ORDER[i] = id
Later(a, b) == IF Place(a) > Place(b) THEN a ELSE b

CONSUMER_EDITIONS == {6, 1, 4, 10, 8}
DEFAULT_CONSUMER_EDITION_INDEX == 6

Blank == [kind |-> "blank"]  \* no text in the answer file's field
Hand  == [kind |-> "hand"]   \* a text the person wrote
NoRequest == [diskName |-> ""]

\* useMemo: the families of a list.
FamiliesOf == [ts \in TemplateLists |-> groupWindowsFamilies(ts)]

families(e) == FamiliesOf[e.templates]
tplMissing(e) == e.api = "missing"

FamilyOf ==
  [ts \in TemplateLists |-> [id \in Names |->
     LET own == {x \in FamiliesOf[ts] : x.id = id} IN
     IF id \in {"", CUSTOM} \/ own = {} THEN NoFamily ELSE CHOOSE x \in own : TRUE]]

selectedFamily(f, e) == FamilyOf[e.templates][f.sku]

familyRefs(f, e) == {templateRefOf(t) : t \in selectedFamily(f, e).templates}

autounattendSku(f) == IF f.sku = CUSTOM THEN Or(f.customDisk, CUSTOM) ELSE Or(f.sku, CUSTOM)
diskName(f) == IF f.sku = CUSTOM THEN f.customDisk ELSE f.sku
isoHint(f)  == isoHintForSku(f.sku)
isClient(f) == isClientSku(f.sku) /\ f.sku # CUSTOM
showEditionPicker(f) == isClient(f) /\ f.isoType = "consumer"

editionReady(f) == IF f.sku = CUSTOM THEN isValidDiskName(f.customDisk) ELSE f.sku # ""
isoReady(f) == Scheme[f.isoURL] \in {"http", "HTTP"}
xmlReady(f) == f.xml # Blank

\* Mutant: the last steps open without an answer file.
UnlockedWithoutXml(f, id) ==
  CASE id = "edition" -> TRUE [] id = "iso" -> editionReady(f) [] OTHER -> editionReady(f) /\ isoReady(f)

unlock(f, id) ==
  CASE id = "edition"  -> TRUE
    [] id = "iso"      -> editionReady(f)
    [] id = "unattend" -> editionReady(f) /\ isoReady(f)
    [] OTHER           -> editionReady(f) /\ isoReady(f) /\ xmlReady(f)

reached(f, id) == Place(f.maxStep) >= Place(id) /\ unlock(f, id)

-----------------------------------------------------------------------------
(* The effects.                                                            *)

recommended(f) ==
  recommendedAutounattend(autounattendSku(f), f.isoType,
    IF f.isoType = "consumer" THEN f.editionIndex ELSE NoIndex, f.windowsUpdate)

\* Mutant: the effect only fills an empty field.
XmlWhenBlank(f) == IF f.sku # "" /\ f.xml = Blank THEN [f EXCEPT !.xml = recommended(f)] ELSE f

XmlEffect(f) ==
  IF f.xmlTouched \/ f.sku = "" THEN f ELSE [f EXCEPT !.xml = recommended(f)]

IsoEffect(f) ==
  IF f.isoTouched \/ f.sku = "" THEN f ELSE [f EXCEPT !.isoURL = isoHint(f)]

\* Mutant: the effect does not look at the touched flag.
DiskAlways(f, e) ==
  IF f.sku = "" THEN f
  ELSE [f EXCEPT !.diskSize = defaultDiskSizeForSku(f.sku, selectedFamily(f, e))]

DiskEffect(f, e) ==
  IF f.diskSizeTouched \/ f.sku = "" THEN f
  ELSE [f EXCEPT !.diskSize = defaultDiskSizeForSku(f.sku, selectedFamily(f, e))]

ScEffect(f, e) ==
  LET stating == {dv \in e.dvs : dvStorageClass(dv) # ""} IN
  IF f.scPrefill \/ ~e.scLoaded THEN f
  ELSE [f EXCEPT !.scPrefill = TRUE,
          !.storageClass = IF stating = {} THEN @
                           ELSE dvStorageClass(firstGoldenDV(stating, families(e)))]

\* Mutant: a choice, once made, is not looked at again.
TemplateRefOnce(f, e) ==
  IF f.templateAction # "existing" \/ f.templateRef # NoRef THEN f
  ELSE [f EXCEPT !.templateRef = preferredTemplateRef(selectedFamily(f, e).templates)]

TemplateRefEffect(f, e) ==
  IF f.templateAction # "existing" \/ f.templateRef \in familyRefs(f, e) THEN f
  ELSE [f EXCEPT !.templateRef = preferredTemplateRef(selectedFamily(f, e).templates)]

TplMissingEffect(f, e) ==
  IF tplMissing(e) /\ f.templateAction = "existing" THEN [f EXCEPT !.templateAction = "none"] ELSE f

Settle(f, e) ==
  TplMissingEffect(TemplateRefEffect(ScEffect(DiskEffect(IsoEffect(XmlEffect(f)), e), e), e), e)

\* The virtio effect, at mount and when the families change: the first image in
\* their Templates, else one more question to the builder.
ImageOf ==
  [ts \in TemplateLists |->
     LET Shows(x) == {t \in x.templates : virtioImageFromTemplate(t) # ""}
         with     == {x \in FamiliesOf[ts] : Shows(x) # {}}
         first    == Foremost(with, [x \in with |-> Word[x.id].rank])
     IN  IF with = {} THEN "" ELSE virtioImageFromTemplate(FirstTemplate(Shows(first)))]

TemplateImage(e) == ImageOf[e.templates]

VirtioForm(f, e) ==
  IF f.virtioPrefill \/ TemplateImage(e) = "" THEN f
  ELSE [f EXCEPT !.virtioImage = TemplateImage(e), !.virtioPrefill = TRUE]

VirtioAsked(f, e) ==
  IF f.virtioPrefill \/ TemplateImage(e) # "" THEN e ELSE [e EXCEPT !.asked = @ + 1]

-----------------------------------------------------------------------------
(* The steps' headers and Continue.                                        *)

Gives(f) == form' = Settle(f, env) /\ UNCHANGED <<env, sent, plan>>
Step(id) == form.focus = id
Varies(group) == group \in plan

\* The person gives a field its value; the fields that prefills take back.
Types(field, v) == typed' = [typed EXCEPT ![field] = <<v>>]
Yields(fields)  == typed' = [g \in DOMAIN typed |-> IF g \in fields THEN <<>> ELSE typed[g]]

openStep(id) ==
  /\ unlock(form, id) /\ (id = "build" => reached(form, id)) /\ form.focus # id
  /\ Gives([form EXCEPT !.focus = id]) /\ UNCHANGED typed

goNext(id, f) ==
  LET next == STEP_ORDER[Place(id) + 1] IN
  [f EXCEPT !.focus = next, !.maxStep = Later(next, @)]

Continue(id) ==
  /\ Step(id)
  /\ CASE id = "edition"  -> form.sku = CUSTOM /\ isValidDiskName(form.customDisk)
       [] id = "iso"      -> isoReady(form)
       [] id = "unattend" -> xmlReady(form)
       [] id = "template" -> TRUE
  /\ Gives(goNext(id, form)) /\ UNCHANGED typed

-----------------------------------------------------------------------------
(* Step 1: the edition.                                                    *)

\* The tiles: one per family, and Custom.
Tiles == {x.id : x \in families(env)} \cup {CUSTOM}

\* While the Templates load and none is known there is only a spinner.
loading == env.api = "found" /\ ~env.loaded /\ families(env) = {}

onSku(next) ==
  /\ Step("edition") /\ ~loading /\ next \in Tiles /\ (next = CUSTOM => Varies("custom"))
  /\ Gives([form EXCEPT !.sku = next, !.xmlTouched = FALSE, !.isoTouched = FALSE,
              !.diskSizeTouched = FALSE, !.isoType = "eval",
              !.editionIndex = DEFAULT_CONSUMER_EDITION_INDEX,
              !.maxStep = Later("iso", @),
              !.focus = IF next # CUSTOM THEN "iso" ELSE @])
  /\ Yields({"xml", "isoURL", "diskSize"})

setCustomDisk(v) ==
  /\ Step("edition") /\ form.sku = CUSTOM
  /\ Gives([form EXCEPT !.customDisk = v]) /\ UNCHANGED typed

-----------------------------------------------------------------------------
(* Step 2: the ISO.                                                        *)

setIsoType(type) ==
  /\ Step("iso") /\ isClient(form) /\ Varies("type") /\ type # form.isoType
  /\ Gives([form EXCEPT !.isoType = type, !.xmlTouched = FALSE]) /\ Yields({"xml"})

setEditionIndex(i) ==
  /\ Step("iso") /\ showEditionPicker(form) /\ Varies("type") /\ i # form.editionIndex
  /\ Gives([form EXCEPT !.editionIndex = i, !.xmlTouched = FALSE]) /\ Yields({"xml"})

setIsoURL(v) ==
  /\ Step("iso") /\ (Scheme[v] # "http" => Varies("iso"))
  /\ Gives([form EXCEPT !.isoURL = v, !.isoTouched = TRUE]) /\ Types("isoURL", v)

useSuggestedIso ==
  /\ Step("iso") /\ isoHint(form) # "" /\ Varies("iso")
  /\ Gives(goNext("iso", [form EXCEPT !.isoURL = isoHint(form), !.isoTouched = FALSE]))
  /\ Yields({"isoURL"})

-----------------------------------------------------------------------------
(* Step 3: the answer file.                                                *)

setWindowsUpdate(b) ==
  /\ Step("unattend") /\ Varies("updates") /\ ~form.xmlTouched /\ b # form.windowsUpdate
  /\ Gives([form EXCEPT !.windowsUpdate = b]) /\ UNCHANGED typed

useRecommendedXml ==
  /\ Step("unattend") /\ Varies("xml")
  /\ Gives([form EXCEPT !.xml = recommended(form), !.xmlTouched = FALSE]) /\ Yields({"xml"})

setXml(v) ==
  /\ Step("unattend") /\ Varies("xml")
  /\ Gives([form EXCEPT !.xml = v, !.xmlTouched = TRUE]) /\ Types("xml", v)

-----------------------------------------------------------------------------
(* Step 4: the Template.                                                   *)

setTemplateAction(a) ==
  /\ Step("template") /\ Varies("template") /\ a # form.templateAction
  /\ a = "existing" => /\ ~tplMissing(env)
                       /\ form.sku = CUSTOM \/ familyRefs(form, env) # {}
  /\ Gives([form EXCEPT !.templateAction = a]) /\ UNCHANGED typed

setTemplateRef(r) ==
  /\ Step("template") /\ Varies("template") /\ form.templateAction = "existing"
  /\ ~tplMissing(env) /\ env.loaded /\ r \in familyRefs(form, env)
  /\ Gives([form EXCEPT !.templateRef = r]) /\ UNCHANGED typed

setCustomTemplate(v) ==
  /\ Step("template") /\ Varies("template") /\ form.templateAction = "custom"
  /\ Gives([form EXCEPT !.customTemplate = v]) /\ UNCHANGED typed

-----------------------------------------------------------------------------
(* Step 5: storage and virtio.                                             *)

setStorageClass(c) ==
  /\ Step("build") /\ Varies("disk") /\ c # form.storageClass /\ c \in {""} \cup (IF env.scLoaded THEN Classes ELSE {})
  /\ Gives([form EXCEPT !.storageClass = c]) /\ Types("storageClass", c)

setDiskSize(v) ==
  /\ Step("build") /\ Varies("disk")
  /\ Gives([form EXCEPT !.diskSize = v, !.diskSizeTouched = TRUE]) /\ Types("diskSize", v)

\* It has no touched flag.
setVirtioImage(v) ==
  /\ Step("build") /\ Varies("virtio")
  /\ Gives([form EXCEPT !.virtioImage = v]) /\ Types("virtioImage", v)

-----------------------------------------------------------------------------
(* Start.                                                                  *)

saving == sent # NoRequest
canStart == ~saving /\ isoReady(form) /\ isValidDiskName(diskName(form))

\* media and chosen: history, the kind of ISO the form asks for at that moment
\* and what the person chose for the answer file.
MediaAsked(f) ==
  IF showEditionPicker(f) THEN "consumer"
  ELSE IF skuKind(autounattendSku(f)) \in {"client10", "client11"} THEN "clientEval" ELSE "serverEval"

Request(f, e) ==
  LET existing == f.templateAction = "existing" /\ f.templateRef # NoRef
      custom   == f.templateAction = "custom"
      templates == selectedFamily(f, e).templates
  IN  [diskName |-> diskName(f), isoURL |-> f.isoURL, autounattend |-> f.xml,
       storageClassName |-> f.storageClass, diskSize |-> f.diskSize,
       goldenNamespace |-> selectedFamily(f, e).goldenNamespace,
       customTemplate |-> custom,
       templateName |-> IF existing THEN f.templateRef[2] ELSE IF custom THEN f.customTemplate ELSE "",
       templateNamespace |->
         IF existing THEN f.templateRef[1]
         ELSE IF templates # {} THEN Or(FirstTemplate(templates).namespace, TEMPLATE_NAMESPACE)
         ELSE TEMPLATE_NAMESPACE,
       virtioImage |-> f.virtioImage,
       memory |-> installMemoryForSku(IF f.sku = CUSTOM THEN diskName(f) ELSE f.sku),
       media |-> MediaAsked(f),
       chosen |-> [type |-> f.isoType, index |-> f.editionIndex, updates |-> f.windowsUpdate]]

\* Mutant: the ISO's URL is not checked.
SubmitUnchecked ==
  /\ isValidDiskName(diskName(form)) /\ ~saving /\ sent' = Request(form, env)
  /\ UNCHANGED <<form, env, typed, plan>>

\* The checks of submit(), then the request.  (Bound: one request at a time.)
submit ==
  /\ IF form.isoURL = ""
       THEN form' = [form EXCEPT !.focus = "iso"] /\ UNCHANGED sent
       ELSE IF ~isValidDiskName(diskName(form))
              THEN form' = [form EXCEPT !.focus = "edition"] /\ UNCHANGED sent
              ELSE UNCHANGED form /\ ~saving /\ sent' = Request(form, env)
  /\ UNCHANGED <<env, typed, plan>>

StartButton == Step("build") /\ canStart /\ submit

\* Enter in the only text field of a step submits the form too: the step that
\* holds the button is not rendered, so no disabled button stops it.
EnterKey ==
  /\ \/ Step("edition") /\ form.sku = CUSTOM
     \/ Step("iso")
     \/ Step("template") /\ form.templateAction = "custom"
  /\ submit

\* The builder's own checks of a request.
Acceptable(r) ==
  /\ isValidDiskName(r.diskName) /\ Scheme[r.isoURL] = "http"
  /\ r.autounattend # Blank /\ r.virtioImage # "url"

\* The builder refuses, or the request or its answer is lost.
Refused == saving /\ sent' = NoRequest /\ UNCHANGED <<form, env, typed, plan>>

-----------------------------------------------------------------------------
(* What arrives without the person.                                        *)

TemplatesChange(ts, e) ==
  /\ Varies("lists") /\ e.api = "found" /\ (ts # e.templates \/ ~e.loaded)
  /\ LET seen == [e EXCEPT !.templates = ts, !.loaded = TRUE] IN
     /\ seen.asked < 2    \* Bound: questions under way.
     /\ env' = VirtioAsked(form, seen)
     /\ form' = Settle(VirtioForm(form, seen), seen)
  /\ UNCHANGED <<sent, typed, plan>>

ApiKnown(a) ==
  /\ Varies("lists") /\ env.api = "inFlight"
  /\ env' = [env EXCEPT !.api = a]
  /\ form' = Settle(form, env') /\ UNCHANGED <<sent, typed, plan>>

\* The API goes away with its lists.
ApiLost ==
  /\ Varies("lists") /\ env.api = "found" /\ env.asked < 2
  /\ LET gone == [env EXCEPT !.api = "missing", !.templates = <<>>, !.loaded = FALSE] IN
     /\ env' = IF env.templates = <<>> THEN gone ELSE VirtioAsked(form, gone)
     /\ form' = Settle(VirtioForm(form, gone), gone)
  /\ UNCHANGED <<sent, typed, plan>>

VolumesLoad ==
  /\ env.dvs = {} /\ Volumes # {} /\ Varies("disk")
  /\ env' = [env EXCEPT !.dvs = Volumes]
  /\ form' = Settle(form, env') /\ UNCHANGED <<sent, typed, plan>>

ClassesLoad ==
  /\ ~env.scLoaded /\ Varies("disk")
  /\ env' = [env EXCEPT !.scLoaded = TRUE]
  /\ form' = Settle(form, env') /\ UNCHANGED <<sent, typed, plan>>

\* clusterVirtioWinImage answers, with "" for no image or any failure.
VirtioAnswers(image) ==
  /\ env.asked > 0
  /\ env' = [env EXCEPT !.asked = @ - 1]
  /\ form' = [form EXCEPT !.virtioImage = Or(image, @), !.virtioPrefill = TRUE]
  /\ UNCHANGED <<sent, typed, plan>>

-----------------------------------------------------------------------------
NewForm ==
  [sku |-> "", customDisk |-> "", isoURL |-> "", isoTouched |-> FALSE, storageClass |-> "",
   diskSize |-> "60Gi", diskSizeTouched |-> FALSE, isoType |-> "eval",
   editionIndex |-> DEFAULT_CONSUMER_EDITION_INDEX, xml |-> Blank, xmlTouched |-> FALSE,
   windowsUpdate |-> TRUE, templateAction |-> "none", templateRef |-> NoRef,
   customTemplate |-> "", virtioImage |-> "", virtioPrefill |-> FALSE, scPrefill |-> FALSE,
   focus |-> "edition", maxStep |-> "edition"]

NewEnv(ts, api) ==
  [templates |-> ts, api |-> api, loaded |-> api = "found", dvs |-> {}, scLoaded |-> FALSE, asked |-> 0]

Untyped == [g \in {"xml", "isoURL", "diskSize", "storageClass", "virtioImage"} |-> <<>>]

\* The page mounts, with lists in the Console's cache or without.
Init ==
  /\ plan \in Plans
  /\ \E ts \in TemplateLists, b \in BOOLEAN :
       LET e == IF b THEN NewEnv(<<>>, "inFlight") ELSE NewEnv(ts, "found") IN
       /\ b <=> Varies("lists")
       /\ ts = Cached \/ Varies("virtio")
       /\ env = VirtioAsked(NewForm, e)
       /\ form = Settle(VirtioForm(NewForm, e), e)
  /\ sent = NoRequest /\ typed = Untyped

Person ==
  \/ \E id \in ToSet(STEP_ORDER) : openStep(id)
  \/ \E id \in {"edition", "iso", "unattend", "template"} : Continue(id)
  \/ \E id \in Names : onSku(id)
  \/ \E v \in TypedNames : setCustomDisk(v)
  \/ \E type \in {"eval", "consumer"} : setIsoType(type)
  \/ \E i \in CONSUMER_EDITIONS : setEditionIndex(i)
  \/ \E v \in TypedUrls : setIsoURL(v)
  \/ useSuggestedIso \/ useRecommendedXml
  \/ \E b \in BOOLEAN : setWindowsUpdate(b)
  \/ \E v \in {Blank, Hand} : setXml(v)
  \/ \E a \in {"none", "existing", "custom"} : setTemplateAction(a)
  \/ \E r \in familyRefs(form, env) : setTemplateRef(r)
  \/ \E v \in {"", "mine"} : setCustomTemplate(v)
  \/ \E c \in {""} \cup Classes : setStorageClass(c)
  \/ \E v \in TypedSizes : setDiskSize(v)
  \/ \E v \in {"own", "url"} : setVirtioImage(v)
  \/ StartButton \/ EnterKey

Background ==
  \/ \E ts \in TemplateLists : TemplatesChange(ts, env)
  \/ \E a \in {"found", "missing"} : ApiKnown(a)
  \/ ApiLost \/ VolumesLoad \/ ClassesLoad
  \/ \E image \in {"", "cluster"} : VirtioAnswers(image)

\* Bounds: the person waits for the answer to a Start (what was sent no longer
\* depends on the form), and where the virtio image does not vary the builder's
\* answer about it comes before the next click.
FormNext ==
  \/ saving /\ Refused
  \/ ~saving /\ (env.asked = 0 \/ Varies("virtio")) /\ (Person \/ Background)
  \/ ~saving /\ VirtioAnswers("cluster")

-----------------------------------------------------------------------------
(* Properties.                                                             *)

\* The form, what the cluster shows and the request keep their types.
TypeOK ==
  /\ form.focus \in ToSet(STEP_ORDER) /\ form.maxStep \in ToSet(STEP_ORDER)
  /\ form.sku \in Names /\ form.customDisk \in Names
  /\ form.isoURL \in DOMAIN Scheme /\ form.diskSize \in Sizes
  /\ form.editionIndex \in CONSUMER_EDITIONS
  /\ form.storageClass \in {""} \cup Classes \cup {dv.storage : dv \in Volumes} \cup {dv.pvc : dv \in Volumes}
  /\ \A b \in {"isoTouched", "diskSizeTouched", "xmlTouched", "windowsUpdate", "virtioPrefill",
              "scPrefill"} : form[b] \in BOOLEAN
  /\ form.templateAction \in {"none", "existing", "custom"} /\ form.isoType \in {"eval", "consumer"}
  /\ env.templates \in TemplateLists /\ env.asked \in 0 .. 2
  /\ saving => isValidDiskName(sent.diskName) /\ sent.isoURL # ""

\* What the person typed into the answer file, the ISO, the size, the class or
\* the virtio image stays there until they take it back: no prefill, no list and
\* no other field replaces it.  The exception is the virtio image: while the
\* question for the cluster's is open, the answer and an image in a list of
\* Templates replace what was typed (and what they bring stays until typed over).
Overtaken(g) == g = "virtioImage" /\ env.asked > 0 /\ env' # env
TypedValuesKept ==
  [][\A g \in DOMAIN typed :
       typed'[g] # <<>> /\ (typed[g] = <<form[g]>> \/ typed'[g] # typed[g]) =>
         typed'[g] = <<form'[g]>> \/ Overtaken(g)]_vars

\* A request's answer file, unless a hand wrote it, is the one for the disk the
\* request names and for the type, the edition and the updates as they were
\* chosen when it was sent; and its type is that of the ISO the form asked for.
\* The effects left no older choice's text behind.
SentFileFits ==
  saving /\ sent.autounattend \notin {Blank, Hand} =>
    LET c == sent.chosen IN
    /\ sent.autounattend = recommendedAutounattend(sent.diskName, c.type, c.index, c.updates)
    /\ c.type = "consumer" <=> sent.media = "consumer"

\* A request that updates an existing Template names one the page was just
\* shown whose family id is the disk of this request: a list that changed, or the
\* choice of another edition, leaves no stale reference.  (The family id is what
\* the page reads in the Template, its DATA_SOURCE_NAME, label or name; which
\* disk the Template boots is TemplateUpdate's matter.)
TemplateOfFamily ==
  [][(sent' # sent /\ sent' # NoRequest) =>
       (sent'.templateName = "" \/ sent'.customTemplate \/
        \E i \in DOMAIN env.templates :
          LET t == env.templates[i] IN
          /\ templateRefOf(t) = <<sent'.templateNamespace, sent'.templateName>>
          /\ familyIdFromTemplate(t) = sent'.diskName)]_vars

\* Whenever Start can be clicked, the request it would send passes the builder's
\* checks, except for the virtio image, which the page does not check, and an
\* http in capitals.  canStart itself looks neither at the answer file nor at
\* the Template: that they are there follows from how the step is reached.
EnabledStartIsComplete ==
  form.focus = "build" /\ canStart =>
    LET r == Request(form, env) IN
    /\ Acceptable([r EXCEPT !.virtioImage = "", !.isoURL = IF Scheme[@] = "HTTP" THEN "url" ELSE @])
    /\ form.templateAction = "existing" /\ familyRefs(form, env) # {} => r.templateName # ""
=============================================================================
