---------------------------- MODULE WizardFormProofs ----------------------------
EXTENDS WizardForm, FiniteSetTheorems, TLAPS
(***************************************************************************)
(* What the wizard keeps true for every list of Templates, every table of  *)
(* names and every text a person may type.  The first half is about the    *)
(* functions and effects the form is built on, the second about the steps. *)
(***************************************************************************)

FormFields ==
  {"sku", "customDisk", "isoURL", "isoTouched", "storageClass", "diskSize", "diskSizeTouched",
   "isoType", "editionIndex", "xml", "xmlTouched", "windowsUpdate", "templateAction",
   "templateRef", "customTemplate", "virtioImage", "virtioPrefill", "scPrefill", "focus", "maxStep"}

ClassTexts == {""} \cup Classes \cup {dv.storage : dv \in Volumes} \cup {dv.pvc : dv \in Volumes}

FormType(f) ==
  /\ DOMAIN f = FormFields
  /\ f.focus \in ToSet(STEP_ORDER) /\ f.maxStep \in ToSet(STEP_ORDER)
  /\ f.sku \in Names /\ f.customDisk \in Names
  /\ f.isoURL \in DOMAIN Scheme /\ f.diskSize \in Sizes
  /\ f.editionIndex \in CONSUMER_EDITIONS /\ f.storageClass \in ClassTexts
  /\ f.isoTouched \in BOOLEAN /\ f.diskSizeTouched \in BOOLEAN /\ f.xmlTouched \in BOOLEAN
  /\ f.windowsUpdate \in BOOLEAN /\ f.virtioPrefill \in BOOLEAN /\ f.scPrefill \in BOOLEAN
  /\ f.templateAction \in {"none", "existing", "custom"} /\ f.isoType \in {"eval", "consumer"}

EnvType(e) ==
  /\ DOMAIN e = {"templates", "api", "loaded", "dvs", "scLoaded", "asked"}
  /\ e.templates \in TemplateLists /\ e.asked \in 0 .. 2
  /\ e.scLoaded \in BOOLEAN /\ e.dvs \subseteq Volumes

\* The answer file is the person's, or the one the fields ask for now.
FileFollows(f) ==
  /\ f.xmlTouched => f.xml \in {Blank, Hand}
  /\ ~f.xmlTouched => f.xml = IF f.sku = "" THEN Blank ELSE recommended(f)
  /\ f.isoType = "consumer" => isClient(f)

\* What a step of the wizard takes for granted about the earlier ones.
StepsInOrder(f) ==
  /\ f.focus # "edition" => f.sku # ""
  /\ f.focus \in {"template", "build"} => f.xml # Blank

\* An existing Template is one of the family, if the family has one.
RefFollows(f, e) ==
  f.templateAction = "existing" =>
    IF familyRefs(f, e) = {} THEN f.templateRef = NoRef ELSE f.templateRef \in familyRefs(f, e)

\* The class is prefilled once, when the classes are there; until the virtio
\* image is prefilled a question for it is open.
PrefillsUsed(f, e) ==
  /\ f.scPrefill = e.scLoaded
  /\ ~f.scPrefill => f.storageClass = ""
  /\ e.asked = 0 => f.virtioPrefill

GoodForm(f, e) ==
  FormType(f) /\ FileFollows(f) /\ StepsInOrder(f) /\ RefFollows(f, e) /\ PrefillsUsed(f, e)

\* What the person gave a field is in the field, and no prefill may have it.
\* (The virtio image has no flag that could keep a prefill away.)
Held(f, t) ==
  /\ DOMAIN t = {"xml", "isoURL", "diskSize", "storageClass", "virtioImage"}
  /\ t["xml"] # <<>> => f.xmlTouched /\ t["xml"] = <<f.xml>>
  /\ t["isoURL"] # <<>> => f.isoTouched /\ t["isoURL"] = <<f.isoURL>>
  /\ t["diskSize"] # <<>> => f.diskSizeTouched /\ t["diskSize"] = <<f.diskSize>>
  /\ t["storageClass"] # <<>> => f.scPrefill /\ t["storageClass"] = <<f.storageClass>>

\* A file the page itself writes.
PageFile(x) ==
  \E id \in Names, type \in {"eval", "consumer"}, i \in CONSUMER_EDITIONS \cup {NoIndex}, b \in BOOLEAN :
    x = recommendedAutounattend(id, type, i, b)

\* A request that is under way.
SentGood ==
  saving => /\ isValidDiskName(sent.diskName) /\ sent.isoURL # ""
            /\ sent.autounattend \in {Blank, Hand} \/ PageFile(sent.autounattend)
            /\ SentFileFits

\* The inductive invariant of the wizard.
FormInv == EnvType(env) /\ GoodForm(form, env) /\ Held(form, typed) /\ SentGood

-----------------------------------------------------------------------------
(* The first of a set or a list.  What a sort puts first exists because    *)
(* ranks are natural numbers.                                              *)

\* A non-empty set of natural numbers has a least one.
LEMMA LeastNat ==
  ASSUME NEW S, S \subseteq Nat, S # {}
  PROVE  \E x \in S : \A y \in S : x <= y
  <1> DEFINE Below == StrictSubsetOrdering(Nat)
             Initials == {0 .. n : n \in S}
  <1>1. Initials \subseteq FiniteSubsetsOf(Nat) /\ Initials # {}
    <2>1. \A n \in S : 0 .. n \in FiniteSubsetsOf(Nat)
      <3> TAKE n \in S
      <3>1. IsFiniteSet(0 .. n) /\ 0 .. n \subseteq Nat
        BY FS_Interval
      <3> QED BY <3>1 DEF FiniteSubsetsOf
    <2> QED BY <2>1
  <1>2. \E t \in Initials : \A u \in Initials : <<u, t>> \notin Below
    <2>1. IsWellFoundedOn(Below, FiniteSubsetsOf(Nat))
      BY FS_StrictSubsetOrderingWellFounded
    <2> HIDE DEF Below, Initials
    <2> QED BY <1>1, <2>1, WFMin
  <1>3. ASSUME NEW x \in S, NEW y \in S, <<0 .. y, 0 .. x>> \notin Below
        PROVE  x <= y
    <2> SUFFICES ASSUME y < x PROVE FALSE
      OBVIOUS
    <2>1. 0 .. y \subseteq 0 .. x /\ x \in 0 .. x /\ x \notin 0 .. y
      OBVIOUS
    <2>2. 0 .. y \in SUBSET Nat /\ 0 .. x \in SUBSET Nat
      OBVIOUS
    <2> QED BY <1>3, <2>1, <2>2 DEF StrictSubsetOrdering
  <1>4. PICK x \in S : \A u \in Initials : <<u, 0 .. x>> \notin Below
    <2> HIDE DEF Below
    <2> QED BY <1>2
  <1> QED BY <1>3, <1>4

\* Min of a set of positions is one of them.
LEMMA MinIn ==
  ASSUME NEW S, S \subseteq Nat, S # {}
  PROVE  Min(S) \in S
  BY LeastNat DEF Min

\* Foremost of a set is in the set.
LEMMA ForemostIn ==
  ASSUME NEW S, S # {}, NEW rank, \A x \in S : rank[x] \in Nat
  PROVE  Foremost(S, rank) \in S
  <1> DEFINE Ranks == {rank[x] : x \in S}
  <1>1. \E n \in Ranks : \A m \in Ranks : n <= m
    <2>1. Ranks \subseteq Nat /\ Ranks # {}
      OBVIOUS
    <2> HIDE DEF Ranks
    <2> QED BY <2>1, LeastNat
  <1>2. \E x \in S : \A y \in S : rank[x] <= rank[y]
    BY <1>1
  <1> QED BY <1>2 DEF Foremost

\* The first Template of a set of them is one of them.
LEMMA FirstTemplateIn ==
  ASSUME NEW S, S # {}, \A t \in S : t.rank \in Nat
  PROVE  FirstTemplate(S) \in S
  <1> DEFINE rank == [t \in S |-> t.rank]
  <1>1. \A t \in S : rank[t] \in Nat
    OBVIOUS
  <1> HIDE DEF rank
  <1>2. Foremost(S, rank) \in S
    BY <1>1, ForemostIn
  <1> QED BY <1>2 DEF FirstTemplate, rank

-----------------------------------------------------------------------------
(* Families.                                                               *)

\* A Template states a size that matches the pattern, or none.
LEMMA TemplateSizes == \A t : diskSizeFromTemplate(t) \in Sizes \cup {""}
  <1> TAKE t
  <1> DEFINE texts == <<t.rootDisk, t.request>>
             passing == {i \in DOMAIN texts : texts[i] \in Sizes}
  <1>1. diskSizeFromTemplate(t) = IF passing = {} THEN "" ELSE texts[Min(passing)]
    BY DEF diskSizeFromTemplate, FirstIn
  <1>2. passing \subseteq Nat
    OBVIOUS
  <1> HIDE DEF passing, texts
  <1>3. passing # {} => Min(passing) \in passing
    BY <1>2, MinIn
  <1>4. \A i \in passing : texts[i] \in Sizes
    BY DEF passing
  <1> QED BY <1>1, <1>3, <1>4

\* The Templates of a family are those of the list that say its id, and its size
\* is a size or none.
LEMMA FamilyFacts ==
  ASSUME NEW ts \in TemplateLists, NEW id
  PROVE  /\ Family(ts, id).id = id
         /\ \A t \in Family(ts, id).templates :
              \E i \in DOMAIN ts : t = ts[i] /\ familyIdFromTemplate(t) = id
         /\ Family(ts, id).diskSize \in Sizes \cup {""}
  <1> DEFINE members == {i \in DOMAIN ts : isWindowsVirtTemplate(ts[i]) /\ familyIdFromTemplate(ts[i]) = id}
             sized   == {i \in members : diskSizeFromTemplate(ts[i]) # ""}
  <1>1. /\ Family(ts, id).id = id
        /\ Family(ts, id).templates = {ts[i] : i \in members}
        /\ Family(ts, id).diskSize = IF sized = {} THEN "" ELSE diskSizeFromTemplate(ts[Min(sized)])
    BY DEF Family
  <1>2. \A t \in {ts[i] : i \in members} :
          \E i \in DOMAIN ts : t = ts[i] /\ familyIdFromTemplate(t) = id
    OBVIOUS
  <1> HIDE DEF members, sized
  <1> QED BY <1>1, <1>2, TemplateSizes

\* A Template that a page can see has a name and a place in the order.
LEMMA ListedTemplates ==
  ASSUME NEW ts \in TemplateLists, NEW i \in DOMAIN ts
  PROVE  ts[i].name # "" /\ ts[i].rank \in Nat
  BY ListAssumption

\* What the page knows of the edition that is selected: nothing, or the Templates
\* of the list that say this very id.
LEMMA SelectedFacts ==
  ASSUME NEW ts \in TemplateLists, NEW id \in Names
  PROVE  /\ \A t \in FamilyOf[ts][id].templates :
              \E i \in DOMAIN ts : t = ts[i] /\ familyIdFromTemplate(t) = id
         /\ FamilyOf[ts][id].templates # {} => id \notin {"", CUSTOM}
         /\ FamilyOf[ts][id].diskSize \in Sizes \cup {""}
  <1> DEFINE own == {x \in groupWindowsFamilies(ts) : x.id = id}
             family == FamilyOf[ts][id]
  <1>1. family = IF id \in {"", CUSTOM} \/ own = {} THEN NoFamily ELSE CHOOSE x \in own : TRUE
    BY DEF FamilyOf, FamiliesOf
  <1>2. \A x \in own : x = Family(ts, id)
    <2> TAKE x \in own
    <2>1. PICK other : x = Family(ts, other)
      BY DEF groupWindowsFamilies
    <2>2. Family(ts, other).id = other
      BY FamilyFacts
    <2> QED BY <2>1, <2>2
  <1> HIDE DEF own, family
  <1>3. \/ family = NoFamily
        \/ id \notin {"", CUSTOM} /\ family = Family(ts, id)
    BY <1>1, <1>2
  <1>4. CASE family = NoFamily
    <2>1. family.templates = {} /\ family.diskSize = ""
      BY <1>4 DEF NoFamily
    <2> QED BY <2>1 DEF family
  <1>5. CASE id \notin {"", CUSTOM} /\ family = Family(ts, id)
    <2> DEFINE this == Family(ts, id)
    <2>1. /\ \A t \in this.templates :
               \E i \in DOMAIN ts : t = ts[i] /\ familyIdFromTemplate(t) = id
          /\ this.diskSize \in Sizes \cup {""}
      BY FamilyFacts
    <2> HIDE DEF this
    <2>2. family = this
      BY <1>5 DEF this
    <2>3. FamilyOf[ts][id] = this
      BY <2>2 DEF family
    <2> QED BY <1>5, <2>1, <2>3
  <1> QED BY <1>3, <1>4, <1>5

\* The Template the page prefers is one of the family.
LEMMA PreferredIn ==
  ASSUME NEW S, \A t \in S : t.rank \in Nat
  PROVE  /\ S = {} => preferredTemplateRef(S) = NoRef
         /\ S # {} => preferredTemplateRef(S) \in {templateRefOf(t) : t \in S}
  <1> DEFINE medium == {t \in S : t.variant = "medium"}
             ending == {t \in S : t.variant \in {"medium", "othermedium"}}
             from   == IF medium # {} THEN medium ELSE IF ending # {} THEN ending ELSE S
  <1>1. preferredTemplateRef(S) = IF S = {} THEN NoRef ELSE templateRefOf(FirstTemplate(from))
    BY DEF preferredTemplateRef
  <1>2. from \subseteq S /\ (S # {} => from # {})
    OBVIOUS
  <1> HIDE DEF from
  <1>3. S # {} => FirstTemplate(from) \in from
    BY <1>2, FirstTemplateIn
  <1> QED BY <1>1, <1>2, <1>3

\* The references a page can name, for the form and the lists it has.
LEMMA RefFacts ==
  ASSUME NEW f, NEW e, f.sku \in Names, e.templates \in TemplateLists
  PROVE  /\ familyRefs(f, e) = {} => preferredTemplateRef(selectedFamily(f, e).templates) = NoRef
         /\ familyRefs(f, e) # {} => preferredTemplateRef(selectedFamily(f, e).templates) \in familyRefs(f, e)
         /\ \A r \in familyRefs(f, e) :
              /\ r # NoRef /\ r[2] # "" /\ r = <<r[1], r[2]>>
              /\ f.sku \notin {"", CUSTOM}
              /\ \E i \in DOMAIN e.templates :
                   /\ templateRefOf(e.templates[i]) = r
                   /\ familyIdFromTemplate(e.templates[i]) = f.sku
  <1> DEFINE S == FamilyOf[e.templates][f.sku].templates
  <1>1. familyRefs(f, e) = {templateRefOf(t) : t \in S} /\ selectedFamily(f, e).templates = S
    BY DEF familyRefs, selectedFamily
  <1>2. /\ \A t \in S : \E i \in DOMAIN e.templates :
             t = e.templates[i] /\ familyIdFromTemplate(t) = f.sku
        /\ S # {} => f.sku \notin {"", CUSTOM}
    BY SelectedFacts
  <1> HIDE DEF S
  <1>3. \A t \in S : t.name # "" /\ t.rank \in Nat
    BY <1>2, ListedTemplates
  <1>4. \A t \in S : /\ templateRefOf(t) # NoRef /\ templateRefOf(t)[2] # ""
                     /\ templateRefOf(t) = <<templateRefOf(t)[1], templateRefOf(t)[2]>>
    BY <1>3 DEF templateRefOf, NoRef
  <1>5. S = {} <=> familyRefs(f, e) = {}
    BY <1>1
  <1>6. /\ S = {} => preferredTemplateRef(S) = NoRef
        /\ S # {} => preferredTemplateRef(S) \in familyRefs(f, e)
    BY <1>1, <1>3, PreferredIn
  <1>7. ASSUME NEW r \in familyRefs(f, e)
        PROVE  /\ r # NoRef /\ r[2] # "" /\ r = <<r[1], r[2]>> /\ f.sku \notin {"", CUSTOM}
               /\ \E i \in DOMAIN e.templates :
                    /\ templateRefOf(e.templates[i]) = r
                    /\ familyIdFromTemplate(e.templates[i]) = f.sku
    <2>1. PICK t \in S : r = templateRefOf(t)
      BY <1>1
    <2> QED BY <1>2, <1>4, <2>1
  <1> QED BY <1>1, <1>5, <1>6, <1>7

\* The class the page takes over is one that a DataVolume states.
LEMMA GoldenClass ==
  ASSUME NEW dvs, dvs \subseteq Volumes, dvs # {}, NEW fs
  PROVE  dvStorageClass(firstGoldenDV(dvs, fs)) \in ClassTexts
  <1> DEFINE golden == {dv \in dvs : dv.name \in {x.id : x \in fs}}
             from == IF golden # {} THEN golden ELSE dvs
             rank == [dv \in from |-> Word[dv.name].rank]
  <1>1. firstGoldenDV(dvs, fs) = Foremost(from, rank)
    BY DEF firstGoldenDV
  <1>2. from # {} /\ from \subseteq Volumes
    OBVIOUS
  <1>3. \A dv \in from : rank[dv] \in Nat
    BY <1>2, ListAssumption, SkuAssumption
  <1> HIDE DEF from, rank
  <1>4. firstGoldenDV(dvs, fs) \in Volumes
    BY <1>1, <1>2, <1>3, ForemostIn
  <1> QED BY <1>4 DEF dvStorageClass, Or, ClassTexts

-----------------------------------------------------------------------------
(* The effects: what each changes of a form, and what it leaves alone.     *)

\* g is f but for the given fields.
SameBut(f, g, fields) ==
  /\ DOMAIN f = FormFields /\ DOMAIN g = FormFields
  /\ \A x \in FormFields \ fields : g[x] = f[x]

\* XmlEffect writes the file only, and leaves it recommended unless it was touched.
LEMMA XmlFacts ==
  ASSUME NEW f, DOMAIN f = FormFields
  PROVE  /\ SameBut(f, XmlEffect(f), {"xml"})
         /\ XmlEffect(f).xml = IF f.xmlTouched \/ f.sku = "" THEN f.xml ELSE recommended(f)
  <1> DEFINE file == recommended(f)
             g == XmlEffect(f)
  <1>1. g = IF f.xmlTouched \/ f.sku = "" THEN f ELSE [f EXCEPT !.xml = file]
    BY DEF XmlEffect
  <1> HIDE DEF file, g
  <1>2. SameBut(f, g, {"xml"}) /\ g.xml = IF f.xmlTouched \/ f.sku = "" THEN f.xml ELSE file
    BY <1>1 DEF SameBut, FormFields
  <1> QED BY <1>2 DEF file, g

\* IsoEffect writes the URL only, and leaves a touched one alone.
LEMMA IsoFacts ==
  ASSUME NEW f, DOMAIN f = FormFields
  PROVE  /\ SameBut(f, IsoEffect(f), {"isoURL"})
         /\ IsoEffect(f).isoURL = IF f.isoTouched \/ f.sku = "" THEN f.isoURL ELSE isoHint(f)
  <1> DEFINE url == isoHint(f)
             g == IsoEffect(f)
  <1>1. g = IF f.isoTouched \/ f.sku = "" THEN f ELSE [f EXCEPT !.isoURL = url]
    BY DEF IsoEffect
  <1> HIDE DEF url, g
  <1>2. SameBut(f, g, {"isoURL"}) /\ g.isoURL = IF f.isoTouched \/ f.sku = "" THEN f.isoURL ELSE url
    BY <1>1 DEF SameBut, FormFields
  <1> QED BY <1>2 DEF url, g

\* DiskEffect writes the size only, and leaves a touched one alone.
LEMMA DiskFacts ==
  ASSUME NEW f, DOMAIN f = FormFields, NEW e, f.sku \in Names, e.templates \in TemplateLists
  PROVE  /\ SameBut(f, DiskEffect(f, e), {"diskSize"})
         /\ \/ DiskEffect(f, e).diskSize = f.diskSize
            \/ ~f.diskSizeTouched /\ DiskEffect(f, e).diskSize \in Sizes
  <1> DEFINE size == defaultDiskSizeForSku(f.sku, selectedFamily(f, e))
             g == DiskEffect(f, e)
  <1>1. g = IF f.diskSizeTouched \/ f.sku = "" THEN f ELSE [f EXCEPT !.diskSize = size]
    BY DEF DiskEffect
  <1>2. size \in Sizes
    <2>1. selectedFamily(f, e).diskSize \in Sizes \cup {""}
      BY SelectedFacts DEF selectedFamily
    <2> QED BY <2>1, SkuAssumption DEF defaultDiskSizeForSku, Or
  <1> HIDE DEF size, g
  <1>3. /\ SameBut(f, g, {"diskSize"})
        /\ g.diskSize = IF f.diskSizeTouched \/ f.sku = "" THEN f.diskSize ELSE size
    BY <1>1 DEF SameBut, FormFields
  <1> QED BY <1>2, <1>3 DEF g

\* ScEffect writes the storage class once, when the classes are loaded.
LEMMA ClassFacts ==
  ASSUME NEW f, DOMAIN f = FormFields, NEW e, e.dvs \subseteq Volumes,
         f.scPrefill \in BOOLEAN, e.scLoaded \in BOOLEAN
  PROVE  /\ SameBut(f, ScEffect(f, e), {"storageClass", "scPrefill"})
         /\ ScEffect(f, e).scPrefill = (f.scPrefill \/ e.scLoaded)
         /\ \/ ScEffect(f, e).storageClass = f.storageClass
            \/ ~f.scPrefill /\ e.scLoaded /\ ScEffect(f, e).storageClass \in ClassTexts
  <1> DEFINE stating == {dv \in e.dvs : dvStorageClass(dv) # ""}
             class == dvStorageClass(firstGoldenDV(stating, families(e)))
             g == ScEffect(f, e)
  <1>1. g = IF f.scPrefill \/ ~e.scLoaded THEN f
            ELSE [f EXCEPT !.scPrefill = TRUE,
                    !.storageClass = IF stating = {} THEN @ ELSE class]
    BY DEF ScEffect
  <1>2. stating \subseteq Volumes
    OBVIOUS
  <1>3. stating # {} => class \in ClassTexts
    <2> HIDE DEF stating
    <2> QED BY <1>2, GoldenClass
  <1> HIDE DEF stating, class, g
  <1>4. /\ SameBut(f, g, {"storageClass", "scPrefill"})
        /\ g.scPrefill = (f.scPrefill \/ e.scLoaded)
        /\ \/ g.storageClass = f.storageClass
           \/ ~f.scPrefill /\ e.scLoaded /\ stating # {} /\ g.storageClass = class
    BY <1>1 DEF SameBut, FormFields
  <1> QED BY <1>3, <1>4 DEF g

\* TemplateRefEffect writes the Template only: one of the family shown, or none if it has none.
LEMMA RefEffectFacts ==
  ASSUME NEW f, DOMAIN f = FormFields, NEW e, f.sku \in Names, e.templates \in TemplateLists
  PROVE  /\ SameBut(f, TemplateRefEffect(f, e), {"templateRef"})
         /\ f.templateAction = "existing" =>
              IF familyRefs(f, e) = {} THEN TemplateRefEffect(f, e).templateRef = NoRef
              ELSE TemplateRefEffect(f, e).templateRef \in familyRefs(f, e)
  <1> DEFINE preferred == preferredTemplateRef(selectedFamily(f, e).templates)
             refs == familyRefs(f, e)
             g == TemplateRefEffect(f, e)
  <1>1. g = IF f.templateAction # "existing" \/ f.templateRef \in refs THEN f
            ELSE [f EXCEPT !.templateRef = preferred]
    BY DEF TemplateRefEffect
  <1>2. (refs = {} => preferred = NoRef) /\ (refs # {} => preferred \in refs)
    BY RefFacts
  <1> HIDE DEF preferred, refs, g
  <1>3. /\ SameBut(f, g, {"templateRef"})
        /\ f.templateAction = "existing" =>
             g.templateRef = IF f.templateRef \in refs THEN f.templateRef ELSE preferred
    BY <1>1 DEF SameBut, FormFields
  <1> QED BY <1>2, <1>3 DEF g, refs

\* TplMissingEffect takes back the choice of an existing Template, and nothing else.
LEMMA MissingFacts ==
  ASSUME NEW f, DOMAIN f = FormFields, NEW e
  PROVE  /\ SameBut(f, TplMissingEffect(f, e), {"templateAction"})
         /\ TplMissingEffect(f, e).templateAction \in {f.templateAction, "none"}
  BY DEF TplMissingEffect, SameBut, FormFields

\* What the effects together do to a form f, with what the cluster shows in e.
Settled(f, e, g) ==
  /\ SameBut(f, g, {"xml", "isoURL", "diskSize", "storageClass", "scPrefill",
                    "templateRef", "templateAction"})
  /\ g.xml = IF f.xmlTouched \/ f.sku = "" THEN f.xml ELSE recommended(f)
  /\ g.isoURL = IF f.isoTouched \/ f.sku = "" THEN f.isoURL ELSE isoHint(f)
  /\ \/ g.diskSize = f.diskSize
     \/ ~f.diskSizeTouched /\ g.diskSize \in Sizes
  /\ g.scPrefill = (f.scPrefill \/ e.scLoaded)
  /\ \/ g.storageClass = f.storageClass
     \/ ~f.scPrefill /\ e.scLoaded /\ g.storageClass \in ClassTexts
  /\ g.templateAction \in {f.templateAction, "none"}
  /\ RefFollows(g, e)

\* The file and the references follow from a few fields only.
LEMMA SameFile ==
  ASSUME NEW f, NEW g, g.sku = f.sku, g.customDisk = f.customDisk, g.isoType = f.isoType,
         g.editionIndex = f.editionIndex, g.windowsUpdate = f.windowsUpdate
  PROVE  recommended(g) = recommended(f)
  BY DEF recommended, autounattendSku

\* The family's Templates depend on the edition and the list alone.
LEMMA SameRefs ==
  ASSUME NEW f, NEW g, NEW e, g.sku = f.sku
  PROVE  familyRefs(g, e) = familyRefs(f, e)
  BY DEF familyRefs, selectedFamily

\* What the effects of one event leave in the form, field by field.
LEMMA SettleFacts ==
  ASSUME NEW f, DOMAIN f = FormFields, NEW e, f.sku \in Names, EnvType(e), f.scPrefill \in BOOLEAN
  PROVE  Settled(f, e, Settle(f, e))
  <1> DEFINE f1 == XmlEffect(f)
             f2 == IsoEffect(f1)
             f3 == DiskEffect(f2, e)
             f4 == ScEffect(f3, e)
             f5 == TemplateRefEffect(f4, e)
             g  == TplMissingEffect(f5, e)
  <1>0. g = Settle(f, e)
    BY DEF Settle
  <1>e. e.templates \in TemplateLists /\ e.dvs \subseteq Volumes /\ e.scLoaded \in BOOLEAN
    BY DEF EnvType
  <1>1. SameBut(f, f1, {"xml"}) /\ f1.xml = IF f.xmlTouched \/ f.sku = "" THEN f.xml ELSE recommended(f)
    BY XmlFacts
  <1> HIDE DEF f1
  <1>2. SameBut(f1, f2, {"isoURL"}) /\ f2.isoURL = IF f1.isoTouched \/ f1.sku = "" THEN f1.isoURL ELSE isoHint(f1)
    BY <1>1, IsoFacts DEF SameBut
  <1> HIDE DEF f2
  <1>3. /\ SameBut(f2, f3, {"diskSize"})
        /\ \/ f3.diskSize = f2.diskSize
           \/ ~f2.diskSizeTouched /\ f3.diskSize \in Sizes
    <2>1. DOMAIN f2 = FormFields /\ f2.sku = f.sku
      BY <1>1, <1>2 DEF SameBut, FormFields
    <2> QED BY <2>1, <1>e, DiskFacts
  <1> HIDE DEF f3
  <1>4. /\ SameBut(f3, f4, {"storageClass", "scPrefill"})
        /\ f4.scPrefill = (f3.scPrefill \/ e.scLoaded)
        /\ \/ f4.storageClass = f3.storageClass
           \/ ~f3.scPrefill /\ e.scLoaded /\ f4.storageClass \in ClassTexts
    <2>1. DOMAIN f3 = FormFields /\ f3.scPrefill = f.scPrefill
      BY <1>1, <1>2, <1>3 DEF SameBut, FormFields
    <2> QED BY <2>1, <1>e, ClassFacts
  <1> HIDE DEF f4
  <1>5. /\ SameBut(f4, f5, {"templateRef"})
        /\ f4.templateAction = "existing" =>
             IF familyRefs(f4, e) = {} THEN f5.templateRef = NoRef
             ELSE f5.templateRef \in familyRefs(f4, e)
    <2>1. DOMAIN f4 = FormFields /\ f4.sku = f.sku
      BY <1>1, <1>2, <1>3, <1>4 DEF SameBut, FormFields
    <2> QED BY <2>1, <1>e, RefEffectFacts
  <1> HIDE DEF f5
  <1>6. SameBut(f5, g, {"templateAction"}) /\ g.templateAction \in {f5.templateAction, "none"}
    BY <1>5, MissingFacts DEF SameBut
  <1> HIDE DEF g
  <1>7. /\ f1.sku = f.sku /\ f1.isoTouched = f.isoTouched /\ f1.isoURL = f.isoURL
        /\ f2.diskSize = f.diskSize /\ f2.diskSizeTouched = f.diskSizeTouched
    BY <1>1, <1>2 DEF SameBut, FormFields
  <1>8. /\ f3.scPrefill = f.scPrefill /\ f3.storageClass = f.storageClass
        /\ f4.templateAction = f.templateAction /\ f5.templateAction = f.templateAction
    <2>1. SameBut(f, f3, {"xml", "isoURL", "diskSize"})
      BY <1>1, <1>2, <1>3 DEF SameBut
    <2>2. SameBut(f, f4, {"xml", "isoURL", "diskSize", "storageClass", "scPrefill"})
      BY <2>1, <1>4 DEF SameBut
    <2> QED BY <2>1, <2>2, <1>5 DEF SameBut, FormFields
  <1>12. SameBut(f5, g, {"templateAction"}) /\ SameBut(f4, g, {"templateRef", "templateAction"})
    BY <1>5, <1>6 DEF SameBut
  <1>13. SameBut(f3, g, {"storageClass", "scPrefill", "templateRef", "templateAction"})
    BY <1>4, <1>12 DEF SameBut
  <1>14. SameBut(f2, g, {"diskSize", "storageClass", "scPrefill", "templateRef", "templateAction"})
    BY <1>3, <1>13 DEF SameBut
  <1>15. SameBut(f1, g, {"isoURL", "diskSize", "storageClass", "scPrefill", "templateRef", "templateAction"})
    BY <1>2, <1>14 DEF SameBut
  <1>16. SameBut(f, g, {"xml", "isoURL", "diskSize", "storageClass", "scPrefill", "templateRef", "templateAction"})
    BY <1>1, <1>15 DEF SameBut
  <1>17. /\ g.xml = f1.xml /\ g.isoURL = f2.isoURL /\ g.diskSize = f3.diskSize
         /\ g.scPrefill = f4.scPrefill /\ g.storageClass = f4.storageClass
         /\ g.templateRef = f5.templateRef /\ g.sku = f4.sku
    BY <1>12, <1>13, <1>14, <1>15 DEF SameBut, FormFields
  <1>9. g.isoURL = IF f.isoTouched \/ f.sku = "" THEN f.isoURL ELSE isoHint(f)
    BY <1>2, <1>7, <1>17 DEF isoHint
  <1>10. RefFollows(g, e)
    <2>1. familyRefs(g, e) = familyRefs(f4, e)
      BY <1>17, SameRefs
    <2> QED BY <2>1, <1>5, <1>6, <1>8, <1>17 DEF RefFollows
  <1>11. /\ g.xml = IF f.xmlTouched \/ f.sku = "" THEN f.xml ELSE recommended(f)
         /\ \/ g.diskSize = f.diskSize
            \/ ~f.diskSizeTouched /\ g.diskSize \in Sizes
         /\ g.scPrefill = (f.scPrefill \/ e.scLoaded)
         /\ \/ g.storageClass = f.storageClass
            \/ ~f.scPrefill /\ e.scLoaded /\ g.storageClass \in ClassTexts
         /\ g.templateAction \in {f.templateAction, "none"}
    BY <1>1, <1>3, <1>4, <1>6, <1>7, <1>8, <1>17
  <1> QED BY <1>0, <1>16, <1>9, <1>10, <1>11 DEF Settled

\* The fields that no effect touches, one by one.
LEMMA SettledSame ==
  ASSUME NEW f, NEW e, NEW g, Settled(f, e, g)
  PROVE  /\ DOMAIN f = FormFields /\ DOMAIN g = FormFields
         /\ g.sku = f.sku /\ g.customDisk = f.customDisk /\ g.isoTouched = f.isoTouched
         /\ g.diskSizeTouched = f.diskSizeTouched /\ g.isoType = f.isoType
         /\ g.editionIndex = f.editionIndex /\ g.xmlTouched = f.xmlTouched
         /\ g.windowsUpdate = f.windowsUpdate /\ g.customTemplate = f.customTemplate
         /\ g.virtioImage = f.virtioImage /\ g.virtioPrefill = f.virtioPrefill
         /\ g.focus = f.focus /\ g.maxStep = f.maxStep
  BY DEF Settled, SameBut, FormFields

\* The effects keep the types.
LEMMA SettledType ==
  ASSUME NEW f, NEW e, NEW g, FormType(f), EnvType(e), Settled(f, e, g)
  PROVE  FormType(g)
  <1>1. isoHint(f) \in DOMAIN Scheme
    BY TypedAssumption DEF isoHint, isoHintForSku
  <1>2. /\ g.isoURL \in DOMAIN Scheme /\ g.diskSize \in Sizes /\ g.storageClass \in ClassTexts
        /\ g.templateAction \in {"none", "existing", "custom"} /\ g.scPrefill \in BOOLEAN
    BY <1>1 DEF Settled, FormType, EnvType
  <1> QED BY <1>2, SettledSame DEF FormType

\* What an action has to leave for the effects, so that the file follows.
FileReady(f) ==
  /\ f.xmlTouched \in BOOLEAN
  /\ f.xmlTouched => f.xml \in {Blank, Hand}
  /\ ~f.xmlTouched /\ f.sku = "" => f.xml = Blank
  /\ f.isoType = "consumer" => isClient(f)

\* The effects leave no file of other fields behind.
LEMMA SettledFile ==
  ASSUME NEW f, NEW e, NEW g, Settled(f, e, g), FileReady(f)
  PROVE  FileFollows(g)
  <1>1. recommended(g) = recommended(f)
    BY SettledSame, SameFile
  <1>2. isClient(g) = isClient(f)
    BY SettledSame DEF isClient
  <1>3. g.xml = IF f.xmlTouched \/ f.sku = "" THEN f.xml ELSE recommended(f)
    BY DEF Settled
  <1>4. g.sku = f.sku /\ g.isoType = f.isoType /\ g.xmlTouched = f.xmlTouched
    BY SettledSame
  <1> QED BY <1>1, <1>2, <1>3, <1>4 DEF FileFollows, FileReady

-----------------------------------------------------------------------------
(* From the form an action writes to the form the effects make of it.      *)

\* What an action has to leave for the effects.
Ready(f, e) ==
  /\ FormType(f) /\ FileReady(f) /\ StepsInOrder(f)
  /\ f.scPrefill => e.scLoaded
  /\ ~e.scLoaded => f.storageClass = ""
  /\ e.asked = 0 => f.virtioPrefill

\* A file of the page is not the empty text, nor the person's.
LEMMA PageFileIsText ==
  \A f : recommended(f) # Blank /\ recommended(f) # Hand
  <1> TAKE f
  <1>1. recommended(f).kind \in {"generic", "client11", "client10", "server"}
    BY DEF recommended, recommendedAutounattend, skuKind
  <1>2. Blank.kind = "blank" /\ Hand.kind = "hand"
    BY DEF Blank, Hand
  <1> QED BY <1>1, <1>2

\* The effects make a form good that is Ready for them, whatever changed before.
LEMMA SettledGood ==
  ASSUME NEW f, NEW e, NEW g, Ready(f, e), EnvType(e), Settled(f, e, g)
  PROVE  GoodForm(g, e)
  <1>1. FormType(g) /\ FileFollows(g)
    BY SettledType, SettledFile DEF Ready
  <1>2. StepsInOrder(g)
    <2>1. g.xml = f.xml \/ g.xml = recommended(f)
      BY DEF Settled
    <2>2. recommended(f) # Blank
      BY PageFileIsText
    <2>3. g.sku = f.sku /\ g.focus = f.focus
      BY SettledSame
    <2> QED BY <2>1, <2>2, <2>3 DEF StepsInOrder, Ready
  <1>3. PrefillsUsed(g, e)
    <2>1. g.virtioPrefill = f.virtioPrefill
      BY SettledSame
    <2>2. f.scPrefill \in BOOLEAN /\ e.scLoaded \in BOOLEAN
      BY DEF Ready, FormType, EnvType
    <2> QED BY <2>1, <2>2 DEF Settled, Ready, PrefillsUsed
  <1> QED BY <1>1, <1>2, <1>3 DEF GoodForm, Settled

\* What the person typed is still there after the effects.
LEMMA SettledHeld ==
  ASSUME NEW f, NEW e, NEW g, NEW t, Held(f, t), Settled(f, e, g)
  PROVE  Held(g, t)
  <1>1. /\ g.xmlTouched = f.xmlTouched /\ g.isoTouched = f.isoTouched
        /\ g.diskSizeTouched = f.diskSizeTouched
    BY SettledSame
  <1>2. /\ f.xmlTouched => g.xml = f.xml
        /\ f.isoTouched => g.isoURL = f.isoURL
        /\ f.diskSizeTouched => g.diskSize = f.diskSize
        /\ f.scPrefill => g.scPrefill /\ g.storageClass = f.storageClass
    BY DEF Settled
  <1> QED BY <1>1, <1>2 DEF Held

\* What an action leaves is made good by the effects.
LEMMA GivesGood ==
  ASSUME NEW f, NEW e, NEW t, Ready(f, e), EnvType(e), Held(f, t)
  PROVE  GoodForm(Settle(f, e), e) /\ Held(Settle(f, e), t)
  <1>1. Settled(f, e, Settle(f, e))
    BY SettleFacts DEF Ready, FormType
  <1> QED BY <1>1, SettledGood, SettledHeld

\* A good form is ready for the effects again.
LEMMA GoodIsReady ==
  ASSUME NEW f, NEW e, GoodForm(f, e), EnvType(e)
  PROVE  Ready(f, e)
  BY DEF GoodForm, Ready, FileFollows, FileReady, PrefillsUsed, FormType, EnvType

\* The places of the steps.
LEMMA Places ==
  /\ ToSet(STEP_ORDER) = {"edition", "iso", "unattend", "template", "build"}
  /\ Place("edition") = 1 /\ Place("iso") = 2 /\ Place("unattend") = 3
  /\ Place("template") = 4 /\ Place("build") = 5
  BY DEF STEP_ORDER, Place, ToSet

\* What Continue does to a form.
NextStep(id) ==
  CASE id = "edition" -> "iso" [] id = "iso" -> "unattend" [] id = "unattend" -> "template"
    [] id = "template" -> "build"

\* Continue moves the focus and the last step reached by one step.
LEMMA GoNextFacts ==
  ASSUME NEW f, NEW id \in {"edition", "iso", "unattend", "template"}
  PROVE  goNext(id, f) = [f EXCEPT !.focus = NextStep(id), !.maxStep = Later(NextStep(id), f.maxStep)]
  <1>1. STEP_ORDER[Place(id) + 1] = NextStep(id)
    BY Places DEF NextStep, STEP_ORDER
  <1> QED BY <1>1 DEF goNext

\* The later of two steps is a step.
LEMMA LaterStep ==
  ASSUME NEW a \in ToSet(STEP_ORDER), NEW b \in ToSet(STEP_ORDER)
  PROVE  Later(a, b) \in ToSet(STEP_ORDER)
  BY DEF Later

\* What the effects see of the cluster's lists.
LEMMA SettledElsewhere ==
  ASSUME NEW f, NEW e, NEW d, NEW g, Settled(f, e, g),
         d.templates = e.templates, d.scLoaded = e.scLoaded
  PROVE  Settled(f, d, g)
  <1>1. familyRefs(g, d) = familyRefs(g, e)
    BY DEF familyRefs, selectedFamily
  <1>2. RefFollows(g, d)
    BY <1>1 DEF Settled, RefFollows
  <1> QED BY <1>2 DEF Settled

\* At most two questions for the cluster's virtio image are under way.
LEMMA OneMoreAsked ==
  ASSUME NEW e, EnvType(e), e.asked < 2, NEW d, d = [e EXCEPT !.asked = @ + 1]
  PROVE  EnvType(d) /\ d.templates = e.templates /\ d.scLoaded = e.scLoaded /\ d.asked # 0
  <1>1. d.asked = e.asked + 1 /\ e.asked \in 0 .. 2
    BY DEF EnvType
  <1>2. d.asked \in 0 .. 2 /\ d.asked # 0
    BY <1>1
  <1>3. /\ DOMAIN d = DOMAIN e /\ d.templates = e.templates
        /\ d.scLoaded = e.scLoaded /\ d.dvs = e.dvs
    BY DEF EnvType
  <1> QED BY <1>2, <1>3 DEF EnvType

\* The virtio effect, then the others: at mount and when the families change.
LEMMA VirtioGood ==
  ASSUME NEW f, NEW e, NEW t,
         FormType(f), FileReady(f), StepsInOrder(f), f.scPrefill => e.scLoaded,
         ~e.scLoaded => f.storageClass = "", EnvType(e), e.asked < 2, Held(f, t)
  PROVE  /\ EnvType(VirtioAsked(f, e))
         /\ GoodForm(Settle(VirtioForm(f, e), e), VirtioAsked(f, e))
         /\ Held(Settle(VirtioForm(f, e), e), t)
  <1> DEFINE f1 == VirtioForm(f, e)
             e1 == VirtioAsked(f, e)
             image == TemplateImage(e)
  <1>1. f1 = IF f.virtioPrefill \/ image = "" THEN f
             ELSE [f EXCEPT !.virtioImage = image, !.virtioPrefill = TRUE]
    BY DEF VirtioForm
  <1>2. e1 = IF f.virtioPrefill \/ image # "" THEN e ELSE [e EXCEPT !.asked = @ + 1]
    BY DEF VirtioAsked
  <1> HIDE DEF f1, e1, image
  <1>3. EnvType(e1) /\ e1.templates = e.templates /\ e1.scLoaded = e.scLoaded
    BY <1>2, OneMoreAsked
  <1>4. SameBut(f, f1, {"virtioImage", "virtioPrefill"})
    BY <1>1 DEF SameBut, FormType, FormFields
  <1>5. /\ f1.sku = f.sku /\ f1.customDisk = f.customDisk /\ f1.isoURL = f.isoURL
        /\ f1.isoTouched = f.isoTouched /\ f1.storageClass = f.storageClass
        /\ f1.diskSize = f.diskSize /\ f1.diskSizeTouched = f.diskSizeTouched
        /\ f1.isoType = f.isoType /\ f1.editionIndex = f.editionIndex /\ f1.xml = f.xml
        /\ f1.xmlTouched = f.xmlTouched /\ f1.windowsUpdate = f.windowsUpdate
        /\ f1.templateAction = f.templateAction /\ f1.scPrefill = f.scPrefill
        /\ f1.focus = f.focus /\ f1.maxStep = f.maxStep
    BY <1>4 DEF SameBut, FormFields
  <1>6. /\ f1.virtioPrefill \in BOOLEAN
        /\ e1.asked = 0 => f1.virtioPrefill
        /\ f.virtioPrefill => f1 = f /\ e1 = e
    <2>1. f.virtioPrefill \in BOOLEAN /\ DOMAIN f = FormFields
      BY DEF FormType
    <2>2. CASE f.virtioPrefill
      BY <2>1, <2>2, <1>1, <1>2
    <2>3. CASE ~f.virtioPrefill /\ image # ""
      BY <2>1, <2>3, <1>1, <1>2 DEF FormFields
    <2>4. CASE ~f.virtioPrefill /\ image = ""
      BY <2>1, <2>4, <1>1, <1>2, OneMoreAsked
    <2> QED BY <2>1, <2>2, <2>3, <2>4
  <1>7. Ready(f1, e1)
    <2>1. FormType(f1)
      BY <1>4, <1>5, <1>6 DEF FormType, SameBut
    <2>2. FileReady(f1)
      BY <1>5 DEF FileReady, isClient
    <2>3. StepsInOrder(f1)
      BY <1>5 DEF StepsInOrder
    <2> QED BY <2>1, <2>2, <2>3, <1>3, <1>5, <1>6 DEF Ready
  <1>8. Held(f1, t)
    BY <1>5, <1>6 DEF Held
  <1>9. Settled(f1, e1, Settle(f1, e))
    <2>1. DOMAIN f1 = FormFields /\ f1.sku \in Names /\ f1.scPrefill \in BOOLEAN
      BY <1>7 DEF Ready, FormType
    <2>2. Settled(f1, e, Settle(f1, e))
      BY <2>1, SettleFacts
    <2> QED BY <2>2, <1>3, SettledElsewhere
  <1>10. GoodForm(Settle(f1, e), e1) /\ Held(Settle(f1, e), t)
    BY <1>3, <1>7, <1>8, <1>9, SettledGood, SettledHeld
  <1> QED BY <1>3, <1>10 DEF f1, e1

\* A change of focus, or of the virtio image, needs no effect.
LEMMA GoodMoves ==
  ASSUME NEW f, NEW e, NEW g, NEW d, GoodForm(f, e),
         SameBut(f, g, {"focus", "virtioImage", "virtioPrefill"}),
         d.templates = e.templates, d.scLoaded = e.scLoaded,
         StepsInOrder(g), g.focus \in ToSet(STEP_ORDER), g.virtioPrefill \in BOOLEAN,
         d.asked = 0 => g.virtioPrefill
  PROVE  GoodForm(g, d)
  <1>1. /\ g.sku = f.sku /\ g.customDisk = f.customDisk /\ g.isoURL = f.isoURL
        /\ g.isoTouched = f.isoTouched /\ g.storageClass = f.storageClass
        /\ g.diskSize = f.diskSize /\ g.diskSizeTouched = f.diskSizeTouched
        /\ g.isoType = f.isoType /\ g.editionIndex = f.editionIndex /\ g.xml = f.xml
        /\ g.xmlTouched = f.xmlTouched /\ g.windowsUpdate = f.windowsUpdate
        /\ g.templateAction = f.templateAction /\ g.templateRef = f.templateRef
        /\ g.scPrefill = f.scPrefill /\ g.maxStep = f.maxStep
        /\ DOMAIN g = FormFields
    BY DEF SameBut, FormFields
  <1>2. recommended(g) = recommended(f) /\ isClient(g) = isClient(f)
    BY <1>1, SameFile DEF isClient
  <1>3. familyRefs(g, d) = familyRefs(f, e)
    BY <1>1 DEF familyRefs, selectedFamily
  <1>4. FormType(g)
    BY <1>1 DEF GoodForm, FormType
  <1>5. FileFollows(g)
    BY <1>1, <1>2 DEF GoodForm, FileFollows
  <1>6. RefFollows(g, d)
    BY <1>1, <1>3 DEF GoodForm, RefFollows
  <1>7. PrefillsUsed(g, d)
    BY <1>1 DEF GoodForm, PrefillsUsed
  <1> QED BY <1>4, <1>5, <1>6, <1>7 DEF GoodForm

-----------------------------------------------------------------------------
(* The steps of the person.                                                *)

\* An action that gives the form its fields and lets the effects follow.
LEMMA GivesInv ==
  ASSUME FormInv, NEW f, Ready(f, env), Gives(f), Held(f, typed')
  PROVE  FormInv'
  <1>1. env' = env /\ sent' = sent /\ form' = Settle(f, env) /\ EnvType(env)
    BY DEF Gives, FormInv
  <1>2. GoodForm(Settle(f, env), env) /\ Held(Settle(f, env), typed')
    BY <1>1, GivesGood
  <1>3. (EnvType(env) /\ GoodForm(form, env) /\ Held(form, typed))'
    BY <1>1, <1>2
  <1>4. SentGood'
    BY <1>1 DEF FormInv, SentGood, SentFileFits, saving
  <1> QED BY <1>3, <1>4 DEF FormInv

\* A good form with its types at hand.
LEMMA InvFacts ==
  ASSUME FormInv
  PROVE  /\ EnvType(env) /\ FormType(form) /\ Ready(form, env) /\ Held(form, typed)
         /\ DOMAIN form = FormFields
         /\ form.focus # "edition" => form.sku # ""
         /\ form.focus \in {"template", "build"} => form.xml # Blank
         /\ DOMAIN typed = {"xml", "isoURL", "diskSize", "storageClass", "virtioImage"}
  <1>1. EnvType(env) /\ GoodForm(form, env) /\ Held(form, typed)
    BY DEF FormInv
  <1>2. Ready(form, env)
    BY <1>1, GoodIsReady
  <1> QED BY <1>1, <1>2 DEF GoodForm, FormType, StepsInOrder, Held

\* Only the step, not the fields, changes.
LEMMA StepChange ==
  ASSUME FormInv, NEW f, SameBut(form, f, {"focus", "maxStep"}),
         f.focus \in ToSet(STEP_ORDER), f.maxStep \in ToSet(STEP_ORDER), StepsInOrder(f)
  PROVE  Ready(f, env) /\ Held(f, typed)
  <1>1. /\ f.sku = form.sku /\ f.customDisk = form.customDisk /\ f.isoURL = form.isoURL
        /\ f.isoTouched = form.isoTouched /\ f.storageClass = form.storageClass
        /\ f.diskSize = form.diskSize /\ f.diskSizeTouched = form.diskSizeTouched
        /\ f.isoType = form.isoType /\ f.editionIndex = form.editionIndex /\ f.xml = form.xml
        /\ f.xmlTouched = form.xmlTouched /\ f.windowsUpdate = form.windowsUpdate
        /\ f.templateAction = form.templateAction /\ f.scPrefill = form.scPrefill
        /\ f.virtioImage = form.virtioImage /\ f.virtioPrefill = form.virtioPrefill
        /\ DOMAIN f = FormFields
    BY DEF SameBut, FormFields
  <1>2. FormType(form) /\ Ready(form, env) /\ Held(form, typed)
    BY InvFacts
  <1>3. FormType(f)
    BY <1>1, <1>2 DEF FormType
  <1>4. FileReady(f)
    BY <1>1, <1>2 DEF Ready, FileReady, isClient
  <1>5. Held(f, typed)
    BY <1>1, <1>2 DEF Held
  <1> QED BY <1>1, <1>2, <1>3, <1>4, <1>5 DEF Ready

\* A step's header is clicked: the focus moves to a step that is open.
LEMMA OpenStepInv ==
  ASSUME FormInv, NEW id \in ToSet(STEP_ORDER), openStep(id)
  PROVE  FormInv'
  <1> DEFINE f == [form EXCEPT !.focus = id]
  <1>1. DOMAIN form = FormFields /\ FormType(form)
    BY InvFacts
  <1>2. SameBut(form, f, {"focus", "maxStep"}) /\ f.focus = id /\ f.maxStep = form.maxStep
        /\ f.sku = form.sku /\ f.xml = form.xml
    BY <1>1 DEF SameBut, FormFields
  <1>3. id # "edition" => form.sku # ""
    BY Places DEF openStep, unlock, editionReady, CUSTOM
  <1>4. id \in {"template", "build"} => form.xml # Blank
    BY Places DEF openStep, unlock, xmlReady
  <1>5. Gives(f) /\ typed' = typed
    BY DEF openStep
  <1> HIDE DEF f
  <1>6. StepsInOrder(f) /\ f.maxStep \in ToSet(STEP_ORDER)
    BY <1>1, <1>2, <1>3, <1>4 DEF StepsInOrder, FormType
  <1> QED BY <1>2, <1>5, <1>6, StepChange, GivesInv

\* Continue opens the next step, whose conditions hold by then.
LEMMA ContinueInv ==
  ASSUME FormInv, NEW id \in {"edition", "iso", "unattend", "template"}, Continue(id)
  PROVE  FormInv'
  <1> DEFINE f == goNext(id, form)
             to == NextStep(id)
             at == Later(to, form.maxStep)
  <1>1. DOMAIN form = FormFields /\ FormType(form) /\ form.maxStep \in ToSet(STEP_ORDER)
    BY InvFacts DEF FormType
  <1>2. f = [form EXCEPT !.focus = to, !.maxStep = at]
    BY GoNextFacts
  <1>3. to \in ToSet(STEP_ORDER) /\ at \in ToSet(STEP_ORDER)
    <2>1. to \in ToSet(STEP_ORDER)
      BY Places DEF NextStep
    <2> QED BY <1>1, <2>1, LaterStep
  <1>4. form.sku # ""
    <2>1. form.focus = id /\ (id = "edition" => form.sku = CUSTOM)
      BY DEF Continue, Step
    <2> QED BY <2>1, InvFacts DEF CUSTOM
  <1>5. to \in {"template", "build"} => form.xml # Blank
    <2>1. form.focus = id /\ (id = "unattend" => form.xml # Blank)
      BY DEF Continue, Step, xmlReady
    <2> QED BY <2>1, InvFacts DEF NextStep
  <1>6. Gives(f) /\ typed' = typed
    BY DEF Continue
  <1> HIDE DEF f, to, at
  <1>7. SameBut(form, f, {"focus", "maxStep"}) /\ f.focus = to /\ f.maxStep = at
        /\ f.sku = form.sku /\ f.xml = form.xml
    BY <1>1, <1>2 DEF SameBut, FormFields
  <1>8. StepsInOrder(f)
    BY <1>4, <1>5, <1>7 DEF StepsInOrder
  <1> QED BY <1>3, <1>6, <1>7, <1>8, StepChange, GivesInv

\* The tiles name editions.
LEMMA TilesNamed ==
  ASSUME EnvType(env)
  PROVE  "" \notin Tiles
  <1>1. env.templates \in TemplateLists
    BY DEF EnvType
  <1>2. ASSUME NEW x \in groupWindowsFamilies(env.templates)
        PROVE  x.id # ""
    <2>1. PICK id : id # "" /\ x = Family(env.templates, id)
      BY DEF groupWindowsFamilies
    <2> QED BY <1>1, <2>1, FamilyFacts
  <1>3. families(env) = groupWindowsFamilies(env.templates)
    BY <1>1 DEF families, FamiliesOf
  <1> QED BY <1>2, <1>3 DEF Tiles, CUSTOM

\* An edition is chosen: its handler resets what belonged to the last one.
LEMMA OnSkuInv ==
  ASSUME FormInv, NEW next \in Names, onSku(next)
  PROVE  FormInv'
  <1> DEFINE to == IF next # CUSTOM THEN "iso" ELSE form.focus
             at == Later("iso", form.maxStep)
             f == [form EXCEPT !.sku = next, !.xmlTouched = FALSE, !.isoTouched = FALSE,
                     !.diskSizeTouched = FALSE, !.isoType = "eval",
                     !.editionIndex = DEFAULT_CONSUMER_EDITION_INDEX,
                     !.maxStep = at, !.focus = to]
  <1>1. /\ DOMAIN form = FormFields /\ FormType(form) /\ form.maxStep \in ToSet(STEP_ORDER)
        /\ Ready(form, env) /\ Held(form, typed)
        /\ DOMAIN typed = {"xml", "isoURL", "diskSize", "storageClass", "virtioImage"}
    BY InvFacts DEF FormType
  <1>2. Gives(f)
    BY DEF onSku
  <1>3. typed' = [g \in DOMAIN typed |-> IF g \in {"xml", "isoURL", "diskSize"} THEN <<>> ELSE typed[g]]
    BY DEF onSku, Yields
  <1>4. next # "" /\ form.focus = "edition"
    BY TilesNamed DEF onSku, Step, FormInv
  <1>5. at \in ToSet(STEP_ORDER) /\ to \in {"edition", "iso"}
    BY <1>1, <1>4, Places, LaterStep
  <1> HIDE DEF to, at
  <1>6. /\ DOMAIN f = FormFields /\ f.sku = next /\ f.xmlTouched = FALSE /\ f.isoTouched = FALSE
        /\ f.diskSizeTouched = FALSE /\ f.isoType = "eval"
        /\ f.editionIndex = DEFAULT_CONSUMER_EDITION_INDEX /\ f.maxStep = at /\ f.focus = to
        /\ SameBut(form, f, {"sku", "xmlTouched", "isoTouched", "diskSizeTouched", "isoType",
                             "editionIndex", "maxStep", "focus"})
    BY <1>1 DEF SameBut, FormFields
  <1> HIDE DEF f
  <1>7. /\ f.customDisk = form.customDisk /\ f.isoURL = form.isoURL /\ f.storageClass = form.storageClass
        /\ f.diskSize = form.diskSize /\ f.xml = form.xml /\ f.windowsUpdate = form.windowsUpdate
        /\ f.templateAction = form.templateAction /\ f.scPrefill = form.scPrefill
        /\ f.virtioImage = form.virtioImage /\ f.virtioPrefill = form.virtioPrefill
    BY <1>6 DEF SameBut, FormFields
  <1>8. FormType(f)
    <2>1. DEFAULT_CONSUMER_EDITION_INDEX \in CONSUMER_EDITIONS
      BY DEF DEFAULT_CONSUMER_EDITION_INDEX, CONSUMER_EDITIONS
    <2>2. to \in ToSet(STEP_ORDER)
      BY <1>5, Places
    <2> QED BY <1>1, <1>5, <1>6, <1>7, <2>1, <2>2 DEF FormType
  <1>9. FileReady(f) /\ StepsInOrder(f)
    BY <1>4, <1>5, <1>6 DEF FileReady, StepsInOrder
  <1>10. Ready(f, env)
    BY <1>1, <1>7, <1>8, <1>9 DEF Ready
  <1>11. Held(f, typed')
    BY <1>1, <1>3, <1>7 DEF Held
  <1> QED BY <1>2, <1>10, <1>11, GivesInv

\* An action that changes only fields the types let it, with what the person holds.
LEMMA SetCustomDiskInv ==
  ASSUME FormInv, NEW v \in TypedNames, setCustomDisk(v)
  PROVE  FormInv'
  <1> DEFINE f == [form EXCEPT !.customDisk = v]
  <1>1. FormType(form) /\ DOMAIN form = FormFields /\ Ready(form, env) /\ Held(form, typed)
    BY InvFacts
  <1>2. v \in Names
    BY TypedAssumption
  <1>3. FormType(f) /\ FileReady(f) /\ StepsInOrder(f)
    BY <1>1, <1>2 DEF FormType, FormFields, Ready, FileReady, StepsInOrder, isClient
  <1>4. Ready(f, env) /\ Held(f, typed)
    BY <1>1, <1>3 DEF Ready, Held, FormFields
  <1> QED BY <1>4, GivesInv DEF setCustomDisk

\* The type of the ISO is chosen; the file follows it.
LEMMA SetIsoTypeInv ==
  ASSUME FormInv, NEW type \in {"eval", "consumer"}, setIsoType(type)
  PROVE  FormInv'
  <1> DEFINE f == [form EXCEPT !.isoType = type, !.xmlTouched = FALSE]
  <1>1. FormType(form) /\ DOMAIN form = FormFields /\ Ready(form, env) /\ Held(form, typed)
    BY InvFacts
  <1>2. form.focus = "iso" /\ isClient(form) /\ form.sku # ""
    BY InvFacts DEF setIsoType, Step
  <1>3. FormType(f) /\ FileReady(f) /\ StepsInOrder(f)
    BY <1>1, <1>2 DEF FormType, FormFields, Ready, FileReady, StepsInOrder, isClient
  <1>4. Ready(f, env) /\ Held(f, typed')
    BY <1>1, <1>3 DEF Ready, Held, FormFields, setIsoType, Yields
  <1> QED BY <1>4, GivesInv DEF setIsoType

\* The image of a consumer ISO is chosen; the file follows it.
LEMMA SetEditionIndexInv ==
  ASSUME FormInv, NEW i \in CONSUMER_EDITIONS, setEditionIndex(i)
  PROVE  FormInv'
  <1> DEFINE f == [form EXCEPT !.editionIndex = i, !.xmlTouched = FALSE]
  <1>1. FormType(form) /\ DOMAIN form = FormFields /\ Ready(form, env) /\ Held(form, typed)
    BY InvFacts
  <1>2. form.focus = "iso" /\ form.sku # ""
    BY InvFacts DEF setEditionIndex, Step
  <1>3. FormType(f) /\ FileReady(f) /\ StepsInOrder(f)
    BY <1>1, <1>2 DEF FormType, FormFields, Ready, FileReady, StepsInOrder, isClient
  <1>4. Ready(f, env) /\ Held(f, typed')
    BY <1>1, <1>3 DEF Ready, Held, FormFields, setEditionIndex, Yields
  <1> QED BY <1>4, GivesInv DEF setEditionIndex

\* The ISO's URL is typed.
LEMMA SetIsoURLInv ==
  ASSUME FormInv, NEW v \in TypedUrls, setIsoURL(v)
  PROVE  FormInv'
  <1> DEFINE f == [form EXCEPT !.isoURL = v, !.isoTouched = TRUE]
  <1>1. FormType(form) /\ DOMAIN form = FormFields /\ Ready(form, env) /\ Held(form, typed)
    BY InvFacts
  <1>2. v \in DOMAIN Scheme
    BY TypedAssumption
  <1>3. FormType(f) /\ FileReady(f) /\ StepsInOrder(f)
    BY <1>1, <1>2 DEF FormType, FormFields, Ready, FileReady, StepsInOrder, isClient
  <1>4. Ready(f, env) /\ Held(f, typed')
    BY <1>1, <1>3 DEF Ready, Held, FormFields, setIsoURL, Types
  <1> QED BY <1>4, GivesInv DEF setIsoURL

\* The suggested ISO is taken, which gives the field back to the prefill.
LEMMA UseSuggestedIsoInv ==
  ASSUME FormInv, useSuggestedIso
  PROVE  FormInv'
  <1> DEFINE url == isoHint(form)
             f0 == [form EXCEPT !.isoURL = url, !.isoTouched = FALSE]
             f  == goNext("iso", f0)
             at == Later("unattend", form.maxStep)
  <1>1. FormType(form) /\ DOMAIN form = FormFields /\ Ready(form, env) /\ Held(form, typed)
    BY InvFacts
  <1>2. url \in DOMAIN Scheme
    BY TypedAssumption DEF isoHint, isoHintForSku
  <1>3. form.focus = "iso" /\ form.sku # ""
    BY InvFacts DEF useSuggestedIso, Step
  <1>4. f = [form EXCEPT !.isoURL = url, !.isoTouched = FALSE, !.focus = "unattend", !.maxStep = at]
    <2>1. f = [f0 EXCEPT !.focus = "unattend", !.maxStep = Later("unattend", f0.maxStep)]
      BY GoNextFacts DEF NextStep
    <2>2. f0.maxStep = form.maxStep
      BY <1>1 DEF FormFields
    <2> QED BY <1>1, <2>1, <2>2
  <1>5. at \in ToSet(STEP_ORDER) /\ "unattend" \in ToSet(STEP_ORDER)
    BY <1>1, Places, LaterStep DEF FormType
  <1>6. Gives(f)
    BY DEF useSuggestedIso
  <1> HIDE DEF url, f, at
  <1>7. FormType(f) /\ FileReady(f) /\ StepsInOrder(f)
    BY <1>1, <1>2, <1>3, <1>4, <1>5 DEF FormType, FormFields, Ready, FileReady, StepsInOrder, isClient
  <1>8. Ready(f, env) /\ Held(f, typed')
    BY <1>1, <1>4, <1>7 DEF Ready, Held, FormFields, useSuggestedIso, Yields
  <1> QED BY <1>6, <1>8, GivesInv

\* The updates are switched; the file follows.
LEMMA SetWindowsUpdateInv ==
  ASSUME FormInv, NEW b \in BOOLEAN, setWindowsUpdate(b)
  PROVE  FormInv'
  <1> DEFINE f == [form EXCEPT !.windowsUpdate = b]
  <1>1. FormType(form) /\ DOMAIN form = FormFields /\ Ready(form, env) /\ Held(form, typed)
    BY InvFacts
  <1>3. FormType(f) /\ FileReady(f) /\ StepsInOrder(f)
    BY <1>1 DEF FormType, FormFields, Ready, FileReady, StepsInOrder, isClient
  <1>4. Ready(f, env) /\ Held(f, typed)
    BY <1>1, <1>3 DEF Ready, Held, FormFields
  <1> QED BY <1>4, GivesInv DEF setWindowsUpdate

\* The recommended file is taken, which gives the field back to the prefill.
LEMMA UseRecommendedInv ==
  ASSUME FormInv, useRecommendedXml
  PROVE  FormInv'
  <1> DEFINE file == recommended(form)
             f == [form EXCEPT !.xml = file, !.xmlTouched = FALSE]
  <1>1. FormType(form) /\ DOMAIN form = FormFields /\ Ready(form, env) /\ Held(form, typed)
    BY InvFacts
  <1>2. form.focus = "unattend" /\ form.sku # ""
    BY InvFacts DEF useRecommendedXml, Step
  <1>3. Gives(f)
    BY DEF useRecommendedXml
  <1> HIDE DEF file
  <1>4. FormType(f) /\ FileReady(f) /\ StepsInOrder(f)
    BY <1>1, <1>2 DEF FormType, FormFields, Ready, FileReady, StepsInOrder, isClient
  <1>5. Ready(f, env) /\ Held(f, typed')
    BY <1>1, <1>4 DEF Ready, Held, FormFields, useRecommendedXml, Yields
  <1> QED BY <1>3, <1>5, GivesInv

\* The answer file is typed.
LEMMA SetXmlInv ==
  ASSUME FormInv, NEW v \in {Blank, Hand}, setXml(v)
  PROVE  FormInv'
  <1> DEFINE f == [form EXCEPT !.xml = v, !.xmlTouched = TRUE]
  <1>1. FormType(form) /\ DOMAIN form = FormFields /\ Ready(form, env) /\ Held(form, typed)
    BY InvFacts
  <1>2. form.focus = "unattend"
    BY DEF setXml, Step
  <1>3. FormType(f) /\ FileReady(f) /\ StepsInOrder(f)
    BY <1>1, <1>2 DEF FormType, FormFields, Ready, FileReady, StepsInOrder, isClient
  <1>4. Ready(f, env) /\ Held(f, typed')
    BY <1>1, <1>3 DEF Ready, Held, FormFields, setXml, Types
  <1> QED BY <1>4, GivesInv DEF setXml

\* The way the Template is handled is chosen.
LEMMA SetTemplateActionInv ==
  ASSUME FormInv, NEW a \in {"none", "existing", "custom"}, setTemplateAction(a)
  PROVE  FormInv'
  <1> DEFINE f == [form EXCEPT !.templateAction = a]
  <1>1. FormType(form) /\ DOMAIN form = FormFields /\ Ready(form, env) /\ Held(form, typed)
    BY InvFacts
  <1>2. FormType(f) /\ FileReady(f) /\ StepsInOrder(f)
    BY <1>1 DEF FormType, FormFields, Ready, FileReady, StepsInOrder, isClient
  <1>3. Ready(f, env) /\ Held(f, typed)
    BY <1>1, <1>2 DEF Ready, Held, FormFields
  <1> QED BY <1>3, GivesInv DEF setTemplateAction

\* An existing Template is chosen, of those of the family.
LEMMA SetTemplateRefInv ==
  ASSUME FormInv, NEW r, setTemplateRef(r)
  PROVE  FormInv'
  <1> DEFINE f == [form EXCEPT !.templateRef = r]
  <1>1. FormType(form) /\ DOMAIN form = FormFields /\ Ready(form, env) /\ Held(form, typed)
    BY InvFacts
  <1>2. FormType(f) /\ FileReady(f) /\ StepsInOrder(f)
    BY <1>1 DEF FormType, FormFields, Ready, FileReady, StepsInOrder, isClient
  <1>3. Ready(f, env) /\ Held(f, typed)
    BY <1>1, <1>2 DEF Ready, Held, FormFields
  <1> QED BY <1>3, GivesInv DEF setTemplateRef

\* A Template of one's own is named.
LEMMA SetCustomTemplateInv ==
  ASSUME FormInv, NEW v, setCustomTemplate(v)
  PROVE  FormInv'
  <1> DEFINE f == [form EXCEPT !.customTemplate = v]
  <1>1. FormType(form) /\ DOMAIN form = FormFields /\ Ready(form, env) /\ Held(form, typed)
    BY InvFacts
  <1>2. FormType(f) /\ FileReady(f) /\ StepsInOrder(f)
    BY <1>1 DEF FormType, FormFields, Ready, FileReady, StepsInOrder, isClient
  <1>3. Ready(f, env) /\ Held(f, typed)
    BY <1>1, <1>2 DEF Ready, Held, FormFields
  <1> QED BY <1>3, GivesInv DEF setCustomTemplate

\* A class can only be chosen once they are loaded, and then the prefill is over.
LEMMA SetStorageClassInv ==
  ASSUME FormInv, NEW c \in {""} \cup Classes, setStorageClass(c)
  PROVE  FormInv'
  <1> DEFINE f == [form EXCEPT !.storageClass = c]
  <1>1. FormType(form) /\ DOMAIN form = FormFields /\ Ready(form, env) /\ Held(form, typed)
    BY InvFacts
  <1>2. form.scPrefill = env.scLoaded /\ (~form.scPrefill => form.storageClass = "")
    BY DEF FormInv, GoodForm, PrefillsUsed
  <1>3. env.scLoaded /\ form.scPrefill
    BY <1>2 DEF setStorageClass
  <1>4. c \in ClassTexts
    BY DEF ClassTexts
  <1>5. FormType(f) /\ FileReady(f) /\ StepsInOrder(f)
    BY <1>1, <1>4 DEF FormType, FormFields, Ready, FileReady, StepsInOrder, isClient
  <1>6. Ready(f, env)
    BY <1>1, <1>3, <1>5 DEF Ready, FormFields
  <1>7. Held(f, typed')
    BY <1>1, <1>3 DEF Held, FormFields, setStorageClass, Types
  <1> QED BY <1>6, <1>7, GivesInv DEF setStorageClass

\* The disk's size is typed.
LEMMA SetDiskSizeInv ==
  ASSUME FormInv, NEW v \in TypedSizes, setDiskSize(v)
  PROVE  FormInv'
  <1> DEFINE f == [form EXCEPT !.diskSize = v, !.diskSizeTouched = TRUE]
  <1>1. FormType(form) /\ DOMAIN form = FormFields /\ Ready(form, env) /\ Held(form, typed)
    BY InvFacts
  <1>2. v \in Sizes
    BY TypedAssumption
  <1>3. FormType(f) /\ FileReady(f) /\ StepsInOrder(f)
    BY <1>1, <1>2 DEF FormType, FormFields, Ready, FileReady, StepsInOrder, isClient
  <1>4. Ready(f, env) /\ Held(f, typed')
    BY <1>1, <1>3 DEF Ready, Held, FormFields, setDiskSize, Types
  <1> QED BY <1>4, GivesInv DEF setDiskSize

\* The virtio image is typed.
LEMMA SetVirtioImageInv ==
  ASSUME FormInv, NEW v, setVirtioImage(v)
  PROVE  FormInv'
  <1> DEFINE f == [form EXCEPT !.virtioImage = v]
  <1>1. FormType(form) /\ DOMAIN form = FormFields /\ Ready(form, env) /\ Held(form, typed)
    BY InvFacts
  <1>2. FormType(f) /\ FileReady(f) /\ StepsInOrder(f)
    BY <1>1 DEF FormType, FormFields, Ready, FileReady, StepsInOrder, isClient
  <1>3. Ready(f, env)
    BY <1>1, <1>2 DEF Ready, FormFields
  <1>4. Held(f, typed')
    BY <1>1 DEF Held, FormFields, setVirtioImage, Types
  <1> QED BY <1>3, <1>4, GivesInv DEF setVirtioImage

-----------------------------------------------------------------------------
(* Start.                                                                  *)

\* The file of a request is the one for the disk it names.
LEMMA RequestFits ==
  ASSUME FormInv, isValidDiskName(diskName(form)), sent' = Request(form, env)
  PROVE  (SentFileFits /\ (sent.autounattend \in {Blank, Hand} \/ PageFile(sent.autounattend)))'
  <1>1. FormType(form) /\ FileFollows(form)
    BY DEF FormInv, GoodForm
  <1>2. /\ sent'.autounattend = form.xml /\ sent'.diskName = diskName(form)
        /\ sent'.media = MediaAsked(form)
        /\ sent'.chosen.type = form.isoType /\ sent'.chosen.index = form.editionIndex
        /\ sent'.chosen.updates = form.windowsUpdate
    BY DEF Request
  <1>3. diskName(form) \in Names /\ diskName(form) # ""
    BY <1>1, SkuAssumption DEF FormType, diskName, isValidDiskName
  <1>4. CASE form.xml \in {Blank, Hand}
    BY <1>2, <1>4 DEF SentFileFits
  <1>5. CASE form.xml \notin {Blank, Hand}
    <2>1. form.xml = recommended(form) /\ form.sku # ""
      BY <1>1, <1>5 DEF FileFollows, FormType
    <2>2. autounattendSku(form) = diskName(form)
      BY <1>3, <2>1 DEF autounattendSku, diskName, Or
    <2>3. form.isoType = "consumer" <=> showEditionPicker(form)
      BY <1>1 DEF FileFollows, showEditionPicker
    <2> DEFINE index == IF form.isoType = "consumer" THEN form.editionIndex ELSE NoIndex
    <2>4. form.xml = recommendedAutounattend(diskName(form), form.isoType, index, form.windowsUpdate)
      BY <2>1, <2>2 DEF recommended
    <2>5. PageFile(form.xml)
      <3>1. index \in CONSUMER_EDITIONS \cup {NoIndex}
        BY <1>1 DEF FormType
      <3>2. form.isoType \in {"eval", "consumer"} /\ form.windowsUpdate \in BOOLEAN
        BY <1>1 DEF FormType
      <3> HIDE DEF index
      <3> QED BY <1>3, <2>4, <3>1, <3>2, Zenon DEF PageFile
    <2>6. form.xml = recommendedAutounattend(diskName(form), form.isoType, form.editionIndex,
                                             form.windowsUpdate)
      <3>1. form.editionIndex # NoIndex
        BY <1>1 DEF FormType, CONSUMER_EDITIONS, NoIndex
      <3> QED BY <2>4, <3>1 DEF recommendedAutounattend
    <2>7. form.isoType = "consumer" <=> MediaAsked(form) = "consumer"
      BY <2>3 DEF MediaAsked
    <2>8. PageFile(sent.autounattend)'
      BY <1>2, <2>5
    <2> HIDE DEF index
    <2> QED BY <1>2, <2>6, <2>7, <2>8 DEF SentFileFits
  <1> QED BY <1>4, <1>5

\* The checks of submit().
LEMMA SubmitInv ==
  ASSUME FormInv, ~saving, submit, form.sku # ""
  PROVE  FormInv'
  <1>1. FormType(form) /\ DOMAIN form = FormFields /\ GoodForm(form, env) /\ Held(form, typed)
        /\ EnvType(env)
    BY InvFacts DEF FormInv
  <1>2. UNCHANGED <<env, typed, plan>>
    BY DEF submit
  <1>3. ASSUME NEW to \in {"iso", "edition"}, form' = [form EXCEPT !.focus = to], sent' = sent
        PROVE  FormInv'
    <2> DEFINE f == [form EXCEPT !.focus = to]
    <2>1. SameBut(form, f, {"focus", "virtioImage", "virtioPrefill"})
      BY <1>1 DEF SameBut, FormFields
    <2>2. f.focus = to /\ f.sku = form.sku /\ f.xml = form.xml /\ f.virtioPrefill = form.virtioPrefill
      BY <1>1 DEF FormFields
    <2>3. StepsInOrder(f) /\ f.focus \in ToSet(STEP_ORDER)
      BY <2>2, Places DEF StepsInOrder
    <2>4. Held(f, typed)
      BY <1>1 DEF Held, FormFields
    <2>5. GoodForm(f, env)
      <3>1. form.virtioPrefill \in BOOLEAN /\ (env.asked = 0 => form.virtioPrefill)
        BY <1>1 DEF FormType, GoodForm, PrefillsUsed
      <3> HIDE DEF f
      <3> QED BY <1>1, <2>1, <2>2, <2>3, <3>1, GoodMoves
    <2>6. SentGood'
      BY <1>3 DEF FormInv, SentGood, SentFileFits, saving
    <2> QED BY <1>1, <1>2, <1>3, <2>4, <2>5, <2>6 DEF FormInv
  <1>4. ASSUME form' = form, sent' = Request(form, env), form.isoURL # "",
               isValidDiskName(diskName(form))
        PROVE  FormInv'
    <2>1. (EnvType(env) /\ GoodForm(form, env) /\ Held(form, typed))'
      BY <1>1, <1>2, <1>4
    <2>2. (SentFileFits /\ (sent.autounattend \in {Blank, Hand} \/ PageFile(sent.autounattend)))'
      BY <1>4, RequestFits
    <2>3. sent'.diskName = diskName(form) /\ sent'.isoURL = form.isoURL
      BY <1>4 DEF Request
    <2>4. SentGood'
      BY <1>4, <2>2, <2>3 DEF SentGood
    <2> QED BY <2>1, <2>4 DEF FormInv
  <1> QED BY <1>3, <1>4 DEF submit

\* Start is clicked.
LEMMA StartButtonInv ==
  ASSUME FormInv, ~saving, StartButton
  PROVE  FormInv'
  <1>1. form.sku # ""
    BY InvFacts DEF StartButton, Step
  <1> QED BY <1>1, SubmitInv DEF StartButton

\* Enter submits the form from the only field of a step.
LEMMA EnterKeyInv ==
  ASSUME FormInv, ~saving, EnterKey
  PROVE  FormInv'
  <1>1. form.sku # ""
    BY InvFacts DEF EnterKey, Step, CUSTOM
  <1> QED BY <1>1, SubmitInv DEF EnterKey

\* Whatever a person does in the form keeps its invariant.
LEMMA PersonInv ==
  ASSUME FormInv, ~saving, Person
  PROVE  FormInv'
  <1>1. CASE \E id \in ToSet(STEP_ORDER) : openStep(id)
    BY <1>1, OpenStepInv
  <1>2. CASE \E id \in {"edition", "iso", "unattend", "template"} : Continue(id)
    BY <1>2, ContinueInv
  <1>3. CASE \E id \in Names : onSku(id)
    BY <1>3, OnSkuInv
  <1>4. CASE \E v \in TypedNames : setCustomDisk(v)
    BY <1>4, SetCustomDiskInv
  <1>5. CASE \E type \in {"eval", "consumer"} : setIsoType(type)
    BY <1>5, SetIsoTypeInv
  <1>6. CASE \E i \in CONSUMER_EDITIONS : setEditionIndex(i)
    BY <1>6, SetEditionIndexInv
  <1>7. CASE \E v \in TypedUrls : setIsoURL(v)
    BY <1>7, SetIsoURLInv
  <1>8. CASE useSuggestedIso
    BY <1>8, UseSuggestedIsoInv
  <1>9. CASE useRecommendedXml
    BY <1>9, UseRecommendedInv
  <1>10. CASE \E b \in BOOLEAN : setWindowsUpdate(b)
    BY <1>10, SetWindowsUpdateInv
  <1>11. CASE \E v \in {Blank, Hand} : setXml(v)
    BY <1>11, SetXmlInv
  <1>12. CASE \E a \in {"none", "existing", "custom"} : setTemplateAction(a)
    BY <1>12, SetTemplateActionInv
  <1>13. CASE \E r \in familyRefs(form, env) : setTemplateRef(r)
    BY <1>13, SetTemplateRefInv
  <1>14. CASE \E v \in {"", "mine"} : setCustomTemplate(v)
    BY <1>14, SetCustomTemplateInv
  <1>15. CASE \E c \in {""} \cup Classes : setStorageClass(c)
    BY <1>15, SetStorageClassInv
  <1>16. CASE \E v \in TypedSizes : setDiskSize(v)
    BY <1>16, SetDiskSizeInv
  <1>17. CASE \E v \in {"own", "url"} : setVirtioImage(v)
    BY <1>17, SetVirtioImageInv
  <1>18. CASE StartButton \/ EnterKey
    BY <1>18, StartButtonInv, EnterKeyInv
  <1> QED BY <1>1, <1>2, <1>3, <1>4, <1>5, <1>6, <1>7, <1>8, <1>9, <1>10, <1>11, <1>12, <1>13,
             <1>14, <1>15, <1>16, <1>17, <1>18 DEF Person

-----------------------------------------------------------------------------
(* What arrives without the person.                                        *)

\* The families change: the virtio effect comes before the others.
LEMMA FamiliesChange ==
  ASSUME FormInv, NEW e, EnvType(e), e.asked = env.asked, e.scLoaded = env.scLoaded, e.asked < 2,
         env' = VirtioAsked(form, e), form' = Settle(VirtioForm(form, e), e), UNCHANGED <<sent, typed>>
  PROVE  FormInv'
  <1>1. FormType(form) /\ Ready(form, env) /\ Held(form, typed)
    BY InvFacts
  <1>3. FileReady(form) /\ StepsInOrder(form) /\ (form.scPrefill => e.scLoaded)
        /\ (~e.scLoaded => form.storageClass = "")
    BY <1>1 DEF Ready
  <1>4. EnvType(env') /\ GoodForm(form', env') /\ Held(form', typed)
    BY <1>1, <1>3, VirtioGood
  <1>5. SentGood'
    BY DEF FormInv, SentGood, SentFileFits, saving
  <1> QED BY <1>4, <1>5 DEF FormInv

\* The Templates' watch shows another list.
LEMMA TemplatesChangeInv ==
  ASSUME FormInv, NEW ts \in TemplateLists, TemplatesChange(ts, env)
  PROVE  FormInv'
  <1> DEFINE seen == [env EXCEPT !.templates = ts, !.loaded = TRUE]
  <1>1. EnvType(env)
    BY DEF FormInv
  <1>2. EnvType(seen) /\ seen.asked = env.asked /\ seen.scLoaded = env.scLoaded
    BY <1>1 DEF EnvType
  <1>3. /\ seen.asked < 2 /\ env' = VirtioAsked(form, seen)
        /\ form' = Settle(VirtioForm(form, seen), seen) /\ UNCHANGED <<sent, typed>>
    BY DEF TemplatesChange
  <1> HIDE DEF seen
  <1> QED BY <1>2, <1>3, FamiliesChange

\* A list that does not touch the families: the effects run with it.
LEMMA ListArrives ==
  ASSUME FormInv, EnvType(env'), env'.scLoaded = env.scLoaded \/ env'.scLoaded = TRUE,
         env'.asked = env.asked, form' = Settle(form, env'), UNCHANGED <<sent, typed>>
  PROVE  FormInv'
  <1>1. FormType(form) /\ Ready(form, env) /\ Held(form, typed)
    BY InvFacts
  <1>2. Ready(form, env') /\ Held(form, typed)
    BY <1>1 DEF Ready, Held
  <1>3. GoodForm(form', env') /\ Held(form', typed)
    BY <1>2, GivesGood
  <1>4. SentGood'
    BY DEF FormInv, SentGood, SentFileFits, saving
  <1> QED BY <1>3, <1>4 DEF FormInv

\* The page learns that the cluster has Templates.
LEMMA ApiKnownInv ==
  ASSUME FormInv, NEW a \in {"found", "missing"}, ApiKnown(a)
  PROVE  FormInv'
  <1>1. EnvType(env') /\ env'.asked = env.asked /\ env'.scLoaded = env.scLoaded
    BY DEF FormInv, EnvType, ApiKnown
  <1> QED BY <1>1, ListArrives DEF ApiKnown

\* The golden DataVolumes arrive.
LEMMA VolumesLoadInv ==
  ASSUME FormInv, VolumesLoad
  PROVE  FormInv'
  <1>1. EnvType(env') /\ env'.asked = env.asked /\ env'.scLoaded = env.scLoaded
    BY DEF FormInv, EnvType, VolumesLoad
  <1> QED BY <1>1, ListArrives DEF VolumesLoad

\* The StorageClasses arrive.
LEMMA ClassesLoadInv ==
  ASSUME FormInv, ClassesLoad
  PROVE  FormInv'
  <1>1. EnvType(env') /\ env'.asked = env.asked /\ env'.scLoaded = TRUE
    BY DEF FormInv, EnvType, ClassesLoad
  <1> QED BY <1>1, ListArrives DEF ClassesLoad

\* The Template API vanishes, and the list with it.
LEMMA ApiLostInv ==
  ASSUME FormInv, ApiLost
  PROVE  FormInv'
  <1> DEFINE gone == [env EXCEPT !.api = "missing", !.templates = <<>>, !.loaded = FALSE]
  <1>1. EnvType(env)
    BY DEF FormInv
  <1>2. EnvType(gone) /\ gone.asked = env.asked /\ gone.scLoaded = env.scLoaded
        /\ gone.templates = <<>>
    BY <1>1, ListAssumption DEF EnvType
  <1>3. /\ gone.asked < 2 /\ env' = IF env.templates = <<>> THEN gone ELSE VirtioAsked(form, gone)
        /\ form' = Settle(VirtioForm(form, gone), gone) /\ UNCHANGED <<sent, typed>>
    BY <1>1 DEF ApiLost, EnvType
  <1>4. CASE env.templates # <<>>
    <2> HIDE DEF gone
    <2> QED BY <1>2, <1>3, <1>4, FamiliesChange
  <1>5. CASE env.templates = <<>>
    <2> HIDE DEF gone
    <2>1. env' = gone
      BY <1>3, <1>5
    <2>2. CASE form.virtioPrefill \/ TemplateImage(gone) = ""
      <3>1. VirtioForm(form, gone) = form
        BY <2>2 DEF VirtioForm
      <3> QED BY <1>2, <1>3, <2>1, <3>1, ListArrives
    <2>3. CASE ~form.virtioPrefill /\ TemplateImage(gone) # ""
      <3>1. VirtioAsked(form, gone) = gone
        BY <2>3 DEF VirtioAsked
      <3> QED BY <1>2, <1>3, <2>1, <3>1, FamiliesChange
    <2> QED BY <2>2, <2>3
  <1> QED BY <1>4, <1>5

\* An answer about the cluster's virtio image arrives, in time or late.
LEMMA VirtioAnswersInv ==
  ASSUME FormInv, NEW image, VirtioAnswers(image)
  PROVE  FormInv'
  <1> DEFINE f == [form EXCEPT !.virtioImage = Or(image, @), !.virtioPrefill = TRUE]
             d == [env EXCEPT !.asked = @ - 1]
  <1>1. FormType(form) /\ DOMAIN form = FormFields /\ EnvType(env) /\ GoodForm(form, env)
        /\ Held(form, typed)
    BY InvFacts DEF FormInv
  <1>2. env.asked > 0 /\ env' = d /\ form' = f /\ UNCHANGED <<sent, typed>>
    BY DEF VirtioAnswers
  <1>3. EnvType(d) /\ d.templates = env.templates /\ d.scLoaded = env.scLoaded
    <2>1. d.asked \in 0 .. 2
      BY <1>1, <1>2 DEF EnvType
    <2> QED BY <1>1, <2>1 DEF EnvType
  <1>4. SameBut(form, f, {"focus", "virtioImage", "virtioPrefill"})
    BY <1>1 DEF SameBut, FormFields
  <1>5. f.virtioPrefill = TRUE /\ f.focus = form.focus /\ f.sku = form.sku /\ f.xml = form.xml
    BY <1>1 DEF FormFields
  <1>6. Held(f, typed)
    BY <1>1 DEF Held, FormFields
  <1> HIDE DEF f, d
  <1>7. GoodForm(f, d)
    <2>1. StepsInOrder(f) /\ f.focus \in ToSet(STEP_ORDER)
      BY <1>1, <1>5 DEF GoodForm, StepsInOrder, FormType
    <2> QED BY <1>1, <1>3, <1>4, <1>5, <2>1, GoodMoves
  <1>8. SentGood'
    BY <1>2 DEF FormInv, SentGood, SentFileFits, saving
  <1> QED BY <1>2, <1>3, <1>6, <1>7, <1>8 DEF FormInv

\* Whatever arrives from the cluster keeps the form's invariant.
LEMMA BackgroundInv ==
  ASSUME FormInv, Background
  PROVE  FormInv'
  <1>1. CASE \E ts \in TemplateLists : TemplatesChange(ts, env)
    BY <1>1, TemplatesChangeInv
  <1>2. CASE \E a \in {"found", "missing"} : ApiKnown(a)
    BY <1>2, ApiKnownInv
  <1>3. CASE ApiLost \/ VolumesLoad \/ ClassesLoad
    BY <1>3, ApiLostInv, VolumesLoadInv, ClassesLoadInv
  <1>4. CASE \E image \in {"", "cluster"} : VirtioAnswers(image)
    BY <1>4, VirtioAnswersInv
  <1> QED BY <1>1, <1>2, <1>3, <1>4 DEF Background

-----------------------------------------------------------------------------
(* The invariant of the wizard.                                            *)

\* The builder refuses a request; the form stays as it was.
LEMMA RefusedInv ==
  ASSUME FormInv, Refused
  PROVE  FormInv'
  <1>1. (EnvType(env) /\ GoodForm(form, env) /\ Held(form, typed))'
    BY DEF FormInv, Refused
  <1>2. SentGood'
    BY DEF Refused, SentGood, saving
  <1> QED BY <1>1, <1>2 DEF FormInv

\* Every event of the page keeps the invariant.
LEMMA FormStep ==
  ASSUME FormInv, FormNext
  PROVE  FormInv'
  <1>1. CASE saving /\ Refused
    BY <1>1, RefusedInv
  <1>2. CASE ~saving /\ (Person \/ Background)
    BY <1>2, PersonInv, BackgroundInv
  <1>3. CASE VirtioAnswers("cluster")
    BY <1>3, VirtioAnswersInv
  <1> QED BY <1>1, <1>2, <1>3 DEF FormNext

\* What a page that mounts knows has its type; nothing is asked or loaded yet.
LEMMA NewEnvFacts ==
  ASSUME NEW ts \in TemplateLists, NEW api
  PROVE  EnvType(NewEnv(ts, api)) /\ NewEnv(ts, api).asked = 0 /\ NewEnv(ts, api).scLoaded = FALSE
  <1> DEFINE e == NewEnv(ts, api)
  <1>1. /\ DOMAIN e = {"templates", "api", "loaded", "dvs", "scLoaded", "asked"}
        /\ e.templates = ts /\ e.asked = 0 /\ e.scLoaded = FALSE /\ e.dvs = {}
    BY DEF NewEnv
  <1> HIDE DEF e
  <1>2. 0 \in 0 .. 2 /\ FALSE \in BOOLEAN /\ {} \subseteq Volumes
    OBVIOUS
  <1>3. EnvType(e)
    BY <1>1, <1>2, Zenon DEF EnvType
  <1> QED BY <1>1, <1>3 DEF e

\* A form that mounts has its type.
LEMMA NewFormType == FormType(NewForm)
  BY SkuAssumption, TypedAssumption, Places
     DEF NewForm, FormType, FormFields, ClassTexts, CONSUMER_EDITIONS, DEFAULT_CONSUMER_EDITION_INDEX

\* The page mounts with the invariant.
LEMMA FormStarts ==
  ASSUME Init
  PROVE  FormInv
  <1>1. PICK ts \in TemplateLists, b \in BOOLEAN :
          LET e == IF b THEN NewEnv(<<>>, "inFlight") ELSE NewEnv(ts, "found") IN
          env = VirtioAsked(NewForm, e) /\ form = Settle(VirtioForm(NewForm, e), e)
    BY DEF Init
  <1> DEFINE e == IF b THEN NewEnv(<<>>, "inFlight") ELSE NewEnv(ts, "found")
  <1>2. env = VirtioAsked(NewForm, e) /\ form = Settle(VirtioForm(NewForm, e), e)
    BY <1>1
  <1>3. EnvType(e) /\ e.asked = 0 /\ e.scLoaded = FALSE
    BY ListAssumption, NewEnvFacts
  <1>4. FormType(NewForm)
    BY NewFormType
  <1>5. FileReady(NewForm) /\ StepsInOrder(NewForm) /\ NewForm.scPrefill = FALSE
        /\ NewForm.storageClass = ""
    BY DEF NewForm, FileReady, StepsInOrder
  <1>6. typed = Untyped /\ Held(NewForm, typed)
    BY DEF Init, Held, Untyped
  <1> HIDE DEF e
  <1>7. EnvType(env) /\ GoodForm(form, env) /\ Held(form, typed)
    <2>1. /\ NewForm.scPrefill => e.scLoaded
          /\ ~e.scLoaded => NewForm.storageClass = ""
      BY <1>5, Zenon
    <2>2. e.asked < 2
      BY <1>3
    <2> QED BY <2>2, <1>2, <1>3, <1>4, <1>5, <1>6, <2>1, VirtioGood
  <1>8. SentGood
    BY DEF Init, SentGood, saving
  <1> QED BY <1>7, <1>8 DEF FormInv

-----------------------------------------------------------------------------
(* What the invariant says.                                                *)

\* The types, and that a request names a disk and an ISO.
LEMMA FormTypes ==
  ASSUME FormInv
  PROVE  TypeOK
  <1>1. FormType(form) /\ EnvType(env)
    BY DEF FormInv, GoodForm
  <1>2. saving => isValidDiskName(sent.diskName) /\ sent.isoURL # ""
    BY DEF FormInv, SentGood
  <1>3. \A b \in {"isoTouched", "diskSizeTouched", "xmlTouched", "windowsUpdate", "virtioPrefill",
                  "scPrefill"} : form[b] \in BOOLEAN
    BY <1>1 DEF FormType
  <1> QED BY <1>1, <1>2, <1>3 DEF TypeOK, FormType, EnvType, ClassTexts

\* A request's file fits the request.
LEMMA FormSendsFit ==
  ASSUME FormInv
  PROVE  SentFileFits
  BY DEF FormInv, SentGood, SentFileFits

\* A Start that can be clicked passes the builder's checks.
LEMMA FormStartComplete ==
  ASSUME FormInv
  PROVE  EnabledStartIsComplete
  <1> DEFINE r == Request(form, env)
             s == [r EXCEPT !.virtioImage = "", !.isoURL = IF Scheme[@] = "HTTP" THEN "url" ELSE @]
  <1> SUFFICES ASSUME form.focus = "build", canStart
               PROVE  /\ Acceptable(s)
                      /\ form.templateAction = "existing" /\ familyRefs(form, env) # {} =>
                           r.templateName # ""
    BY Zenon DEF EnabledStartIsComplete
  <1>1. FormType(form) /\ StepsInOrder(form) /\ RefFollows(form, env) /\ EnvType(env)
    BY DEF FormInv, GoodForm
  <1>2. isValidDiskName(diskName(form)) /\ Scheme[form.isoURL] \in {"http", "HTTP"}
    BY DEF canStart, isoReady
  <1>3. form.xml # Blank
    BY <1>1 DEF StepsInOrder
  <1>4. /\ r.diskName = diskName(form) /\ r.isoURL = form.isoURL /\ r.autounattend = form.xml
        /\ DOMAIN r = {"diskName", "isoURL", "autounattend", "storageClassName", "diskSize",
                       "goldenNamespace", "customTemplate", "templateName", "templateNamespace",
                       "virtioImage", "memory", "media", "chosen"}
    BY DEF Request
  <1>5. r.templateName = IF form.templateAction = "existing" /\ form.templateRef # NoRef
                         THEN form.templateRef[2]
                         ELSE IF form.templateAction = "custom" THEN form.customTemplate ELSE ""
    BY DEF Request
  <1> HIDE DEF r
  <1>6. /\ s.diskName = diskName(form) /\ s.autounattend = form.xml /\ s.virtioImage = ""
        /\ s.isoURL = IF Scheme[form.isoURL] = "HTTP" THEN "url" ELSE form.isoURL
    BY <1>4
  <1>7. Scheme[s.isoURL] = "http"
    BY <1>2, <1>6, TypedAssumption
  <1>8. Acceptable(s)
    <2> HIDE DEF s
    <2> QED BY <1>2, <1>3, <1>6, <1>7 DEF Acceptable
  <1>9. ASSUME form.templateAction = "existing", familyRefs(form, env) # {}
        PROVE  r.templateName # ""
    <2>1. form.templateRef \in familyRefs(form, env)
      BY <1>1, <1>9 DEF RefFollows
    <2>2. form.templateRef # NoRef /\ form.templateRef[2] # ""
      BY <1>1, <2>1, RefFacts DEF FormType, EnvType
    <2> QED BY <1>5, <1>9, <2>2
  <1> QED BY <1>8, <1>9

-----------------------------------------------------------------------------
(* Which Template a request names.                                         *)

\* Only Start and Enter send.
LEMMA OnlySubmitSends ==
  ASSUME FormNext, sent' # sent, sent' # NoRequest
  PROVE  submit /\ sent' = Request(form, env)
  <1>1. Person
    BY DEF FormNext, Refused, Background, TemplatesChange, ApiKnown, ApiLost, VolumesLoad,
           ClassesLoad, VirtioAnswers
  <1>2. submit
    BY <1>1 DEF Person, Gives, openStep, Continue, onSku, setCustomDisk, setIsoType,
           setEditionIndex, setIsoURL, useSuggestedIso, useRecommendedXml, setWindowsUpdate, setXml,
           setTemplateAction, setTemplateRef, setCustomTemplate, setStorageClass, setDiskSize,
           setVirtioImage, StartButton, EnterKey
  <1> QED BY <1>2 DEF submit

\* A request that names an existing Template names one whose family id is its disk.
LEMMA SentTemplate ==
  ASSUME FormInv, FormNext, sent' # sent, sent' # NoRequest
  PROVE  \/ sent'.templateName = "" \/ sent'.customTemplate
         \/ \E i \in DOMAIN env.templates :
              LET t == env.templates[i] IN
              /\ templateRefOf(t) = <<sent'.templateNamespace, sent'.templateName>>
              /\ familyIdFromTemplate(t) = sent'.diskName
  <1> DEFINE existing == form.templateAction = "existing" /\ form.templateRef # NoRef
  <1>1. sent' = Request(form, env)
    BY OnlySubmitSends
  <1>2. FormType(form) /\ RefFollows(form, env) /\ EnvType(env)
    BY DEF FormInv, GoodForm
  <1>3. /\ sent'.templateName = IF existing THEN form.templateRef[2]
                                ELSE IF form.templateAction = "custom" THEN form.customTemplate ELSE ""
        /\ existing => sent'.templateNamespace = form.templateRef[1]
        /\ sent'.customTemplate = (form.templateAction = "custom")
        /\ sent'.diskName = diskName(form)
    BY <1>1 DEF Request
  <1>4. CASE ~existing
    BY <1>3, <1>4
  <1>5. CASE existing
    <2>1. form.templateRef \in familyRefs(form, env)
      BY <1>2, <1>5 DEF RefFollows
    <2>2. /\ form.templateRef = <<form.templateRef[1], form.templateRef[2]>>
          /\ form.sku \notin {"", CUSTOM}
          /\ \E i \in DOMAIN env.templates :
               /\ templateRefOf(env.templates[i]) = form.templateRef
               /\ familyIdFromTemplate(env.templates[i]) = form.sku
      BY <1>2, <2>1, RefFacts DEF FormType, EnvType
    <2>3. sent'.diskName = form.sku
      BY <1>3, <2>2 DEF diskName
    <2>4. form.templateRef = <<sent'.templateNamespace, sent'.templateName>>
      BY <1>3, <1>5, <2>2
    <2> QED BY <2>2, <2>3, <2>4
  <1> QED BY <1>4, <1>5
-----------------------------------------------------------------------------
(* What was typed stays.  For four of the fields the invariant says it; the *)
(* virtio image has no flag, so its steps are gone through one by one.      *)

\* A form in which a click or a key has changed anything but the virtio image.
Elsewhere(f) ==
  /\ DOMAIN f = FormFields /\ f.sku \in Names /\ f.scPrefill \in BOOLEAN
  /\ f.virtioImage = form.virtioImage

\* The effects that follow it do not touch the virtio image either.
LEMMA EffectsElsewhere ==
  ASSUME NEW f, Elsewhere(f), NEW e, EnvType(e), form' = Settle(f, e)
  PROVE  form'.virtioImage = form.virtioImage
  <1>1. Settled(f, e, form')
    BY SettleFacts DEF Elsewhere
  <1> QED BY <1>1, SettledSame DEF Elsewhere

\* The history of the virtio image, in a step that is about other fields.
VirtioUntouched ==
  form'.virtioImage = form.virtioImage /\ typed'["virtioImage"] = typed["virtioImage"]

\* A field or two of another step is given its value.
LEMMA OtherFields ==
  ASSUME FormInv, NEW f, Elsewhere(f), Gives(f),
         \/ UNCHANGED typed
         \/ \E field \in DOMAIN typed \ {"virtioImage"} : \E v : Types(field, v)
         \/ \E fields : "virtioImage" \notin fields /\ Yields(fields)
  PROVE  VirtioUntouched
  <1>1. EnvType(env) /\ DOMAIN typed = {"xml", "isoURL", "diskSize", "storageClass", "virtioImage"}
    BY InvFacts
  <1>2. form'.virtioImage = form.virtioImage
    BY <1>1, EffectsElsewhere DEF Gives
  <1>3. typed'["virtioImage"] = typed["virtioImage"]
    BY <1>1 DEF Types, Yields
  <1> QED BY <1>2, <1>3 DEF VirtioUntouched

\* The steps' headers, Continue and the suggested ISO.
LEMMA StepsElsewhere ==
  ASSUME FormInv,
         \/ \E id \in ToSet(STEP_ORDER) : openStep(id)
         \/ \E id \in {"edition", "iso", "unattend", "template"} : Continue(id)
         \/ useSuggestedIso
  PROVE  VirtioUntouched
  <1>1. FormType(form) /\ DOMAIN form = FormFields
    BY InvFacts
  <1>2. ASSUME NEW id, openStep(id)
        PROVE  VirtioUntouched
    <2> DEFINE f == [form EXCEPT !.focus = id]
    <2>1. Elsewhere(f)
      BY <1>1 DEF Elsewhere, FormType, FormFields
    <2>2. Gives(f) /\ UNCHANGED typed
      BY <1>2 DEF openStep
    <2> HIDE DEF f
    <2> QED BY <2>1, <2>2, OtherFields
  <1>3. ASSUME NEW id \in {"edition", "iso", "unattend", "template"}, Continue(id)
        PROVE  VirtioUntouched
    <2> DEFINE f == goNext(id, form)
    <2>1. f = [form EXCEPT !.focus = NextStep(id), !.maxStep = Later(NextStep(id), form.maxStep)]
      BY GoNextFacts
    <2>2. Gives(f) /\ UNCHANGED typed
      BY <1>3 DEF Continue
    <2> HIDE DEF f
    <2>3. Elsewhere(f)
      BY <1>1, <2>1 DEF Elsewhere, FormType, FormFields
    <2> QED BY <2>2, <2>3, OtherFields
  <1>4. ASSUME useSuggestedIso
        PROVE  VirtioUntouched
    <2> DEFINE url == isoHint(form)
               f0 == [form EXCEPT !.isoURL = url, !.isoTouched = FALSE]
               f  == goNext("iso", f0)
    <2>1. f = [f0 EXCEPT !.focus = "unattend", !.maxStep = Later("unattend", f0.maxStep)]
      BY GoNextFacts DEF NextStep
    <2>2. Elsewhere(f0)
      BY <1>1 DEF Elsewhere, FormType, FormFields
    <2>3. Gives(f) /\ Yields({"isoURL"})
      BY <1>4 DEF useSuggestedIso
    <2> HIDE DEF f, f0
    <2>4. Elsewhere(f)
      BY <2>1, <2>2 DEF Elsewhere, FormFields
    <2> QED BY <2>3, <2>4, OtherFields
  <1> QED BY <1>2, <1>3, <1>4

\* The fields of the edition and of the ISO.
LEMMA EditionElsewhere ==
  ASSUME FormInv,
         \/ \E id \in Names : onSku(id)
         \/ \E v \in TypedNames : setCustomDisk(v)
         \/ \E type \in {"eval", "consumer"} : setIsoType(type)
         \/ \E i \in CONSUMER_EDITIONS : setEditionIndex(i)
         \/ \E v \in TypedUrls : setIsoURL(v)
  PROVE  VirtioUntouched
  <1>1. /\ FormType(form) /\ DOMAIN form = FormFields
        /\ DOMAIN typed = {"xml", "isoURL", "diskSize", "storageClass", "virtioImage"}
    BY InvFacts
  <1>2. ASSUME NEW id \in Names, onSku(id)
        PROVE  VirtioUntouched
    <2> DEFINE f == [form EXCEPT !.sku = id, !.xmlTouched = FALSE, !.isoTouched = FALSE,
                       !.diskSizeTouched = FALSE, !.isoType = "eval",
                       !.editionIndex = DEFAULT_CONSUMER_EDITION_INDEX,
                       !.maxStep = Later("iso", @),
                       !.focus = IF id # CUSTOM THEN "iso" ELSE @]
    <2>1. Elsewhere(f)
      BY <1>1 DEF Elsewhere, FormType, FormFields
    <2>2. Gives(f) /\ Yields({"xml", "isoURL", "diskSize"})
      BY <1>2 DEF onSku
    <2> HIDE DEF f
    <2> QED BY <2>1, <2>2, OtherFields
  <1>3. ASSUME NEW v, setCustomDisk(v)
        PROVE  VirtioUntouched
    <2> DEFINE f == [form EXCEPT !.customDisk = v]
    <2>1. Elsewhere(f) /\ Gives(f) /\ UNCHANGED typed
      BY <1>1, <1>3 DEF Elsewhere, FormType, FormFields, setCustomDisk
    <2> HIDE DEF f
    <2> QED BY <2>1, OtherFields
  <1>4. ASSUME NEW type, setIsoType(type)
        PROVE  VirtioUntouched
    <2> DEFINE f == [form EXCEPT !.isoType = type, !.xmlTouched = FALSE]
    <2>1. Elsewhere(f) /\ Gives(f) /\ Yields({"xml"})
      BY <1>1, <1>4 DEF Elsewhere, FormType, FormFields, setIsoType
    <2> HIDE DEF f
    <2> QED BY <2>1, OtherFields
  <1>5. ASSUME NEW i, setEditionIndex(i)
        PROVE  VirtioUntouched
    <2> DEFINE f == [form EXCEPT !.editionIndex = i, !.xmlTouched = FALSE]
    <2>1. Elsewhere(f) /\ Gives(f) /\ Yields({"xml"})
      BY <1>1, <1>5 DEF Elsewhere, FormType, FormFields, setEditionIndex
    <2> HIDE DEF f
    <2> QED BY <2>1, OtherFields
  <1>6. ASSUME NEW v, setIsoURL(v)
        PROVE  VirtioUntouched
    <2> DEFINE f == [form EXCEPT !.isoURL = v, !.isoTouched = TRUE]
    <2>1. Elsewhere(f) /\ Gives(f) /\ Types("isoURL", v)
      BY <1>1, <1>6 DEF Elsewhere, FormType, FormFields, setIsoURL
    <2> HIDE DEF f
    <2> QED BY <1>1, <2>1, OtherFields
  <1> QED BY <1>2, <1>3, <1>4, <1>5, <1>6

\* The fields of the answer file, the Template and the disk.
LEMMA LaterStepsElsewhere ==
  ASSUME FormInv,
         \/ useRecommendedXml
         \/ \E b \in BOOLEAN : setWindowsUpdate(b)
         \/ \E v \in {Blank, Hand} : setXml(v)
         \/ \E a \in {"none", "existing", "custom"} : setTemplateAction(a)
         \/ \E r \in familyRefs(form, env) : setTemplateRef(r)
         \/ \E v \in {"", "mine"} : setCustomTemplate(v)
         \/ \E c \in {""} \cup Classes : setStorageClass(c)
         \/ \E v \in TypedSizes : setDiskSize(v)
  PROVE  VirtioUntouched
  <1>1. /\ FormType(form) /\ DOMAIN form = FormFields
        /\ DOMAIN typed = {"xml", "isoURL", "diskSize", "storageClass", "virtioImage"}
    BY InvFacts
  <1>2. ASSUME useRecommendedXml
        PROVE  VirtioUntouched
    <2> DEFINE file == recommended(form)
               f == [form EXCEPT !.xml = file, !.xmlTouched = FALSE]
    <2>1. Gives(f) /\ Yields({"xml"})
      BY <1>2 DEF useRecommendedXml
    <2> HIDE DEF file
    <2>2. Elsewhere(f)
      BY <1>1 DEF Elsewhere, FormType, FormFields
    <2> HIDE DEF f
    <2> QED BY <2>1, <2>2, OtherFields
  <1>3. ASSUME NEW b, setWindowsUpdate(b)
        PROVE  VirtioUntouched
    <2> DEFINE f == [form EXCEPT !.windowsUpdate = b]
    <2>1. Elsewhere(f) /\ Gives(f) /\ UNCHANGED typed
      BY <1>1, <1>3 DEF Elsewhere, FormType, FormFields, setWindowsUpdate
    <2> HIDE DEF f
    <2> QED BY <2>1, OtherFields
  <1>4. ASSUME NEW v, setXml(v)
        PROVE  VirtioUntouched
    <2> DEFINE f == [form EXCEPT !.xml = v, !.xmlTouched = TRUE]
    <2>1. Elsewhere(f) /\ Gives(f) /\ Types("xml", v)
      BY <1>1, <1>4 DEF Elsewhere, FormType, FormFields, setXml
    <2> HIDE DEF f
    <2> QED BY <1>1, <2>1, OtherFields
  <1>5. ASSUME NEW a, setTemplateAction(a)
        PROVE  VirtioUntouched
    <2> DEFINE f == [form EXCEPT !.templateAction = a]
    <2>1. Elsewhere(f) /\ Gives(f) /\ UNCHANGED typed
      BY <1>1, <1>5 DEF Elsewhere, FormType, FormFields, setTemplateAction
    <2> HIDE DEF f
    <2> QED BY <2>1, OtherFields
  <1>6. ASSUME NEW r, setTemplateRef(r)
        PROVE  VirtioUntouched
    <2> DEFINE f == [form EXCEPT !.templateRef = r]
    <2>1. Elsewhere(f) /\ Gives(f) /\ UNCHANGED typed
      BY <1>1, <1>6 DEF Elsewhere, FormType, FormFields, setTemplateRef
    <2> HIDE DEF f
    <2> QED BY <2>1, OtherFields
  <1>7. ASSUME NEW v, setCustomTemplate(v)
        PROVE  VirtioUntouched
    <2> DEFINE f == [form EXCEPT !.customTemplate = v]
    <2>1. Elsewhere(f) /\ Gives(f) /\ UNCHANGED typed
      BY <1>1, <1>7 DEF Elsewhere, FormType, FormFields, setCustomTemplate
    <2> HIDE DEF f
    <2> QED BY <2>1, OtherFields
  <1>8. ASSUME NEW c, setStorageClass(c)
        PROVE  VirtioUntouched
    <2> DEFINE f == [form EXCEPT !.storageClass = c]
    <2>1. Elsewhere(f) /\ Gives(f) /\ Types("storageClass", c)
      BY <1>1, <1>8 DEF Elsewhere, FormType, FormFields, setStorageClass
    <2> HIDE DEF f
    <2> QED BY <1>1, <2>1, OtherFields
  <1>9. ASSUME NEW v, setDiskSize(v)
        PROVE  VirtioUntouched
    <2> DEFINE f == [form EXCEPT !.diskSize = v, !.diskSizeTouched = TRUE]
    <2>1. Elsewhere(f) /\ Gives(f) /\ Types("diskSize", v)
      BY <1>1, <1>9 DEF Elsewhere, FormType, FormFields, setDiskSize
    <2> HIDE DEF f
    <2> QED BY <1>1, <2>1, OtherFields
  <1> QED BY <1>2, <1>3, <1>4, <1>5, <1>6, <1>7, <1>8, <1>9

\* A person's step leaves the virtio image alone, or gives it the value it gets.
LEMMA PersonKeepsVirtio ==
  ASSUME FormInv, Person
  PROVE  VirtioUntouched \/ typed'["virtioImage"] = <<form'.virtioImage>>
  <1>1. /\ FormType(form) /\ DOMAIN form = FormFields /\ EnvType(env)
        /\ DOMAIN typed = {"xml", "isoURL", "diskSize", "storageClass", "virtioImage"}
    BY InvFacts
  <1>2. ASSUME NEW v, setVirtioImage(v)
        PROVE  typed'["virtioImage"] = <<form'.virtioImage>>
    <2> DEFINE f == [form EXCEPT !.virtioImage = v]
    <2>1. /\ DOMAIN f = FormFields /\ f.sku \in Names /\ f.scPrefill \in BOOLEAN
          /\ f.virtioImage = v
      BY <1>1 DEF FormType, FormFields
    <2>2. form' = Settle(f, env) /\ Types("virtioImage", v)
      BY <1>2 DEF setVirtioImage, Gives
    <2> HIDE DEF f
    <2>3. Settled(f, env, form')
      BY <1>1, <2>1, <2>2, SettleFacts
    <2>4. form'.virtioImage = v
      BY <2>1, <2>3, SettledSame
    <2> QED BY <1>1, <2>2, <2>4 DEF Types
  <1>3. ASSUME submit
        PROVE  VirtioUntouched
    <2>1. form'.virtioImage = form.virtioImage /\ typed' = typed
      BY <1>1, <1>3 DEF submit, FormFields
    <2> QED BY <2>1 DEF VirtioUntouched
  <1>4. CASE \/ \E id \in ToSet(STEP_ORDER) : openStep(id)
             \/ \E id \in {"edition", "iso", "unattend", "template"} : Continue(id)
             \/ useSuggestedIso
    BY <1>4, StepsElsewhere
  <1>5. CASE \/ \E id \in Names : onSku(id)
             \/ \E v \in TypedNames : setCustomDisk(v)
             \/ \E type \in {"eval", "consumer"} : setIsoType(type)
             \/ \E i \in CONSUMER_EDITIONS : setEditionIndex(i)
             \/ \E v \in TypedUrls : setIsoURL(v)
    BY <1>5, EditionElsewhere
  <1>6. CASE \/ useRecommendedXml
             \/ \E b \in BOOLEAN : setWindowsUpdate(b)
             \/ \E v \in {Blank, Hand} : setXml(v)
             \/ \E a \in {"none", "existing", "custom"} : setTemplateAction(a)
             \/ \E r \in familyRefs(form, env) : setTemplateRef(r)
             \/ \E v \in {"", "mine"} : setCustomTemplate(v)
             \/ \E c \in {""} \cup Classes : setStorageClass(c)
             \/ \E v \in TypedSizes : setDiskSize(v)
    BY <1>6, LaterStepsElsewhere
  <1>7. CASE \E v \in {"own", "url"} : setVirtioImage(v)
    BY <1>2, <1>7
  <1>8. CASE StartButton \/ EnterKey
    BY <1>3, <1>8 DEF StartButton, EnterKey
  <1> QED BY <1>4, <1>5, <1>6, <1>7, <1>8 DEF Person

\* The families change: while no question is open the virtio image is prefilled.
LEMMA FamiliesOvertake ==
  ASSUME FormInv, NEW e, EnvType(e), form' = Settle(VirtioForm(form, e), e)
  PROVE  form'.virtioImage = form.virtioImage \/ env.asked > 0
  <1>1. FormType(form) /\ DOMAIN form = FormFields /\ env.asked \in 0 .. 2
        /\ (env.asked = 0 => form.virtioPrefill)
    BY InvFacts DEF FormInv, GoodForm, PrefillsUsed, EnvType
  <1>2. CASE form.virtioPrefill
    <2>1. VirtioForm(form, e) = form
      BY <1>2 DEF VirtioForm
    <2>2. Elsewhere(form)
      BY <1>1 DEF Elsewhere, FormType
    <2> QED BY <2>1, <2>2, EffectsElsewhere
  <1>3. CASE ~form.virtioPrefill
    BY <1>1, <1>3
  <1> QED BY <1>2, <1>3

\* What arrives by itself touches the virtio image only while a question is open.
LEMMA BackgroundOvertakes ==
  ASSUME FormInv, EnvType(env'), Background
  PROVE  /\ typed' = typed
         /\ form'.virtioImage = form.virtioImage \/ (env.asked > 0 /\ env' # env)
  <1>1. FormType(form) /\ DOMAIN form = FormFields /\ EnvType(env)
    BY InvFacts
  <1>2. Elsewhere(form)
    BY <1>1 DEF Elsewhere, FormType
  <1>3. ASSUME form' = Settle(form, env')
        PROVE  form'.virtioImage = form.virtioImage
    BY <1>2, <1>3, EffectsElsewhere
  <1>4. ASSUME NEW ts \in TemplateLists, TemplatesChange(ts, env)
        PROVE  /\ typed' = typed
               /\ form'.virtioImage = form.virtioImage \/ (env.asked > 0 /\ env' # env)
    <2> DEFINE seen == [env EXCEPT !.templates = ts, !.loaded = TRUE]
    <2>1. EnvType(seen) /\ seen.templates = ts /\ seen.loaded = TRUE
      <3>1. DOMAIN env = {"templates", "api", "loaded", "dvs", "scLoaded", "asked"}
        BY <1>1 DEF EnvType
      <3> QED BY <1>1, <3>1 DEF EnvType
    <2>2. /\ env' = VirtioAsked(form, seen) /\ form' = Settle(VirtioForm(form, seen), seen)
          /\ typed' = typed /\ (ts # env.templates \/ ~env.loaded)
      BY <1>4 DEF TemplatesChange
    <2> HIDE DEF seen
    <2>3. env'.templates = ts /\ env'.loaded = TRUE
      <3>1. env' = seen \/ env' = [seen EXCEPT !.asked = @ + 1]
        BY <2>2 DEF VirtioAsked
      <3> QED BY <2>1, <3>1 DEF EnvType
    <2>4. env' # env
      BY <2>2, <2>3
    <2> QED BY <2>1, <2>2, <2>4, FamiliesOvertake
  <1>5. ASSUME ApiLost
        PROVE  /\ typed' = typed
               /\ form'.virtioImage = form.virtioImage \/ (env.asked > 0 /\ env' # env)
    <2> DEFINE gone == [env EXCEPT !.api = "missing", !.templates = <<>>, !.loaded = FALSE]
    <2>1. EnvType(gone) /\ gone.api = "missing"
      BY <1>1, ListAssumption DEF EnvType
    <2>2. /\ env' = (IF env.templates = <<>> THEN gone ELSE VirtioAsked(form, gone))
          /\ form' = Settle(VirtioForm(form, gone), gone)
          /\ typed' = typed /\ env.api = "found"
      BY <1>5 DEF ApiLost
    <2> HIDE DEF gone
    <2>3. env'.api = "missing"
      <3>1. env' = gone \/ env' = [gone EXCEPT !.asked = @ + 1]
        BY <2>2 DEF VirtioAsked
      <3> QED BY <2>1, <3>1 DEF EnvType
    <2>4. env' # env
      BY <2>2, <2>3
    <2> QED BY <2>1, <2>2, <2>4, FamiliesOvertake
  <1>6. ASSUME \/ \E a \in {"found", "missing"} : ApiKnown(a)
               \/ VolumesLoad \/ ClassesLoad
        PROVE  typed' = typed /\ form'.virtioImage = form.virtioImage
    <2>1. typed' = typed /\ form' = Settle(form, env')
      BY <1>6 DEF ApiKnown, VolumesLoad, ClassesLoad
    <2> QED BY <1>3, <2>1
  <1>7. ASSUME NEW image, VirtioAnswers(image)
        PROVE  typed' = typed /\ env.asked > 0 /\ env' # env
    <2>1. typed' = typed /\ env.asked > 0 /\ env' = [env EXCEPT !.asked = @ - 1]
      BY <1>7 DEF VirtioAnswers
    <2>2. env'.asked = env.asked - 1 /\ env.asked \in 0 .. 2
      BY <1>1, <2>1 DEF EnvType
    <2>3. env'.asked # env.asked
      BY <2>2
    <2> QED BY <2>1, <2>3
  <1>8. CASE \E ts \in TemplateLists : TemplatesChange(ts, env)
    BY <1>4, <1>8
  <1>9. CASE (\E a \in {"found", "missing"} : ApiKnown(a)) \/ VolumesLoad \/ ClassesLoad
    BY <1>6, <1>9
  <1>10. CASE \E image \in {"", "cluster"} : VirtioAnswers(image)
    BY <1>7, <1>10
  <1> QED BY <1>5, <1>8, <1>9, <1>10 DEF Background

\* A step keeps what was typed, but for a virtio image that the cluster overtakes.
LEMMA FormKeepsTyped ==
  ASSUME FormInv, FormNext, NEW g \in DOMAIN typed, typed'[g] # <<>>,
         typed[g] = <<form[g]>> \/ typed'[g] # typed[g]
  PROVE  typed'[g] = <<form'[g]>> \/ Overtaken(g)
  <1>1. FormInv'
    BY FormStep
  <1>2. Held(form', typed') /\ EnvType(env')
    BY <1>1 DEF FormInv
  <1>3. g \in {"xml", "isoURL", "diskSize", "storageClass", "virtioImage"}
    BY InvFacts
  <1>4. CASE g # "virtioImage"
    BY <1>2, <1>3, <1>4 DEF Held
  <1>5. CASE g = "virtioImage"
    <2>1. CASE Refused
      BY <1>5, <2>1 DEF Refused
    <2>2. CASE Person
      <3>1. VirtioUntouched \/ typed'["virtioImage"] = <<form'.virtioImage>>
        BY <2>2, PersonKeepsVirtio
      <3> QED BY <1>5, <3>1 DEF VirtioUntouched
    <2>3. CASE Background
      <3>1. /\ typed' = typed
            /\ form'.virtioImage = form.virtioImage \/ (env.asked > 0 /\ env' # env)
        BY <1>2, <2>3, BackgroundOvertakes
      <3> QED BY <1>5, <3>1 DEF Overtaken
    <2> QED BY <2>1, <2>2, <2>3 DEF FormNext, Background
  <1> QED BY <1>4, <1>5
=============================================================================
