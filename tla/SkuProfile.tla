----------------------------- MODULE SkuProfile -----------------------------
(***************************************************************************)
(* The edition functions of the console page: utils/windows-skus.ts and    *)
(* the parts of utils/k8s-resources.ts that read names, Templates and      *)
(* DataVolumes.  They keep no state; the page's form is built on them.     *)
(*                                                                         *)
(* A text is an atom.  What the string functions make of it is a table,    *)
(* Word: its normalized key, the fragments that key includes, whether it   *)
(* is a valid disk name, and so on.                                        *)
(***************************************************************************)
EXTENDS Naturals, Sequences, SequencesExt, FiniteSetsExt

CONSTANTS
  Names,    \* the disk, family and label names that occur, "" among them
  Word,     \* [Names -> what the string functions make of a name]
  Hints,    \* the keys with a direct URL in ISO_HINTS
  Sizes     \* the texts that match the pattern of a disk size

\* key: normalizeSkuKey, the trimmed lower-case id with windows -> win;
\* has: the fragments that includes() finds in the key; disk: isValidDiskName;
\* host: computerNameFor; rank: the place localeCompare gives the name.
ASSUME SkuAssumption ==
  /\ {"", "custom"} \subseteq Names /\ Hints \subseteq Names /\ "" \notin Hints
  /\ \A n \in Names : Word[n].key \in Names /\ Word[n].disk \in BOOLEAN
                     /\ Word[n].rank \in Nat
  /\ ~Word[""].disk /\ "" \notin Sizes /\ {"60Gi", "64Gi"} \subseteq Sizes

CUSTOM == "custom"
GOLDEN_IMAGE_NAMESPACE == "os-images"
TEMPLATE_NAMESPACE == "openshift"

\* a || b
Or(a, b) == IF a # "" THEN a ELSE b

\* find(): the first element that passes, or None.
FirstIn(s, Test(_), None) ==
  LET passing == {i \in DOMAIN s : Test(s[i])}
  IN  IF passing = {} THEN None ELSE s[Min(passing)]

\* The first of a set in the order of a sort.
Foremost(S, rank) == CHOOSE x \in S : \A y \in S : rank[x] <= rank[y]

isValidDiskName(n)  == Word[n].disk
normalizeSkuKey(id) == Word[id].key
Includes(id, fragments) == Word[id].has \cap fragments # {}

isClientSku(id) == Includes(id, {"win10", "win11"})

\* The memory goes by the exact key: a custom name that only contains win11 gets 4Gi.
installMemoryForSku(id) == IF normalizeSkuKey(id) = "win11" THEN "8Gi" ELSE "4Gi"

\* The URL of an edition's hint, or none.
isoHintForSku(id) ==
  IF id \notin {"", CUSTOM} /\ normalizeSkuKey(id) \in Hints THEN normalizeSkuKey(id) ELSE ""

-----------------------------------------------------------------------------
(* Templates.  windows: whether the name or a label is a Windows one; os:  *)
(* the label's SKU; stem: the name without its variant suffixes, windows   *)
(* -> win; source, sourceNs, rootDisk: the parameters DATA_SOURCE_NAME,    *)
(* DATA_SOURCE_NAMESPACE, ROOT_DISK_SIZE; request: the first storage       *)
(* request in its objects; images: the texts in its objects that name a    *)
(* virtio image; rank: the place of namespace/name in localeCompare.       *)

isWindowsVirtTemplate(t) == t.windows \/ t.os # ""

diskSizeFromTemplate(t) ==
  FirstIn(<<t.rootDisk, t.request>>, LAMBDA s : s \in Sizes, "")

familyIdFromTemplate(t) == FirstIn(<<t.source, t.os, t.stem>>, isValidDiskName, "")

templateRefOf(t) == <<Or(t.namespace, TEMPLATE_NAMESPACE), t.name>>

\* The first virtio-win text, else the first virtio-container-disk.
virtioImageFromTemplate(t) ==
  LET Kind(k) == FirstIn(t.images, LAMBDA s : s.kind = k, [text |-> ""]).text
  IN  Or(Kind("virtio-win"), Kind("virtio-container-disk"))

\* The family of an id: the first Template of the list fixes the namespace, the
\* first that states one the disk size.
Family(ts, id) ==
  LET members == {i \in DOMAIN ts : isWindowsVirtTemplate(ts[i]) /\ familyIdFromTemplate(ts[i]) = id}
      sized   == {i \in members : diskSizeFromTemplate(ts[i]) # ""}
  IN  [id |-> id,
       templates |-> {ts[i] : i \in members},
       goldenNamespace |-> Or(ts[Min(members)].sourceNs, GOLDEN_IMAGE_NAMESPACE),
       diskSize |-> IF sized = {} THEN "" ELSE diskSizeFromTemplate(ts[Min(sized)])]

\* The families and their Templates are sorted: FirstTemplate and ImageOf go by rank.
groupWindowsFamilies(ts) ==
  LET ids == {familyIdFromTemplate(t) : t \in {u \in ToSet(ts) : isWindowsVirtTemplate(u)}}
  IN  {Family(ts, id) : id \in ids \ {""}}

FirstTemplate(ts) == Foremost(ts, [t \in ts |-> t.rank])

\* What a page does without a family: no Templates, the default namespace.
NoFamily == [id |-> "", templates |-> {}, goldenNamespace |-> GOLDEN_IMAGE_NAMESPACE, diskSize |-> ""]
NoRef == <<"", "">>

\* *-server-medium or *-desktop-medium, then *-medium, then the first.
preferredTemplateRef(ts) ==
  LET medium == {t \in ts : t.variant = "medium"}
      ending == {t \in ts : t.variant \in {"medium", "othermedium"}}
  IN  IF ts = {} THEN NoRef
      ELSE templateRefOf(FirstTemplate(IF medium # {} THEN medium
                                       ELSE IF ending # {} THEN ending ELSE ts))

defaultDiskSizeForSku(id, family) ==
  Or(family.diskSize, IF normalizeSkuKey(id) \in {"win11", "win2k25"} THEN "64Gi" ELSE "60Gi")

-----------------------------------------------------------------------------
(* DataVolumes: the class of the storage section, else that of pvc.        *)

dvStorageClass(dv) == Or(dv.storage, dv.pvc)

\* goldenDVs' order: those named like a family first, then by name.
firstGoldenDV(dvs, families) ==
  LET golden == {dv \in dvs : dv.name \in {x.id : x \in families}}
      from   == IF golden # {} THEN golden ELSE dvs
  IN  Foremost(from, [dv \in from |-> Word[dv.name].rank])
=============================================================================
