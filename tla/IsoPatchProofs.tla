--------------------------- MODULE IsoPatchProofs ---------------------------
(***************************************************************************)
(* Theorems about IsoPatch, for any number of pods, deaths, walks and      *)
(* catalogs of any length: pods that die half way or work side by side     *)
(* move only EFI entries, and one that succeeds leaves a quiet ISO.        *)
(***************************************************************************)
EXTENDS IsoPatch, TLAPS

\* Catalog c is the original but for EFI entries that were moved.
Derived(c) ==
  /\ c \in Seq(Entries) /\ Len(c) = Len(original)
  /\ \A i \in 1 .. Len(original) :
       \/ c[i] = original[i]
       \/ EfiEntry(original, i) /\ c[i] = [original[i] EXCEPT !.img = "noprompt"]

\* The inductive invariant: the catalog on the ISO and each one about to be
\* written derive from the original, and a pod past the copy left efisys.bin
\* overwritten.
IsoInv ==
  /\ Derived(catalog)
  /\ \A p \in Pods : pc[p] = "write" => Derived(buf[p])
  /\ \A p \in Pods :
       Overwrites /\ pc[p] \in {"catalog", "write", "ok"} => prompt = "noprompt"

-----------------------------------------------------------------------------
(* Catalogs.                                                               *)

\* The entries that are patched are ones firmware takes for EFI entries.
LEMMA PatchedAreEfi ==
  ASSUME NEW c \in Seq(Entries), NEW i \in Patched(c)
  PROVE  i \in 1 .. Len(c) /\ EfiEntry(c, i)
<1>1. /\ i \in 1 .. Len(c) /\ c[i].kind = "boot" /\ ~Ended(c, i)
      /\ InEFI(c, i - 1)
  BY DEF Patched
<1>2. PICK h \in 1 .. i - 1 :
        c[h].kind = "section" /\ c[h].efi /\ \A j \in h + 1 .. i - 1 : c[j].kind = "boot"
  BY <1>1 DEF InEFI
<1>3. QED  BY <1>1, <1>2 DEF EfiEntry, Headers

\* A patched catalog is a catalog of the same length, and only patched entries
\* differ, by their image.
LEMMA RetargetedEntries ==
  ASSUME NEW c \in Seq(Entries)
  PROVE  /\ Retargeted(c) \in Seq(Entries) /\ Len(Retargeted(c)) = Len(c)
         /\ \A i \in 1 .. Len(c) :
              Retargeted(c)[i] = IF i \in Patched(c) THEN [c[i] EXCEPT !.img = "noprompt"] ELSE c[i]
<1> DEFINE r == Retargeted(c)
<1>1. \A i \in 1 .. Len(c) :
        r[i] = IF i \in Patched(c) THEN [c[i] EXCEPT !.img = "noprompt"] ELSE c[i]
  BY DEF Retargeted
<1>2. \A i \in 1 .. Len(c) : r[i] \in Entries
  <2>0. \A i \in 1 .. Len(c) : c[i] \in Entries
    OBVIOUS
  <2> SUFFICES ASSUME NEW i \in 1 .. Len(c), i \in Patched(c)
               PROVE  [c[i] EXCEPT !.img = "noprompt"] \in Entries
    BY <1>1, <2>0
  <2>1. c[i] \in Entries /\ c[i].kind = "boot"
    BY DEF Patched
  <2>2. c[i] \in [kind : {"boot"}, img : {"bios", "prompt", "noprompt"}]
    BY <2>1 DEF Entries, Headers
  <2>3. QED  BY <2>2 DEF Entries
<1>3. r = [i \in 1 .. Len(c) |-> r[i]]
  BY DEF Retargeted
<1> HIDE DEF r
<1>4. r \in Seq(Entries) /\ Len(r) = Len(c)
  BY <1>2, <1>3
<1>5. QED  BY <1>1, <1>4 DEF r

\* The moved entries stay EFI entries, and no other becomes one.
LEMMA SameEfi ==
  ASSUME original \in Seq(Entries), NEW c, Derived(c), NEW i \in 1 .. Len(original)
  PROVE  EfiEntry(c, i) <=> EfiEntry(original, i)
<1>1. \A j \in 1 .. Len(original) :
        /\ c[j].kind = original[j].kind
        /\ original[j].kind \in Headers => c[j] = original[j]
  <2> SUFFICES ASSUME NEW j \in 1 .. Len(original)
               PROVE  /\ c[j].kind = original[j].kind
                      /\ original[j].kind \in Headers => c[j] = original[j]
    OBVIOUS
  <2>1. CASE c[j] = original[j]
    BY <2>1
  <2>2. CASE EfiEntry(original, j) /\ c[j] = [original[j] EXCEPT !.img = "noprompt"]
    <3>1. original[j] \in Entries /\ original[j].kind = "boot"
      BY <2>2 DEF EfiEntry
    <3>2. original[j] \in [kind : {"boot"}, img : {"bios", "prompt", "noprompt"}]
      BY <3>1 DEF Entries, Headers
    <3>3. c[j].kind = "boot"
      BY <2>2, <3>2
    <3>4. QED  BY <3>1, <3>3 DEF Headers
  <2>3. QED  BY <2>1, <2>2 DEF Derived
<1>2. \A j \in 1 .. i : j \in 1 .. Len(original)
  OBVIOUS
<1>3. Ended(c, i) <=> Ended(original, i)
  BY <1>1, <1>2 DEF Ended
<1>4. \A h \in 1 .. i - 1 :
        (/\ c[h].kind \in Headers /\ c[h].efi
         /\ \A j \in h + 1 .. i - 1 : c[j].kind \notin Headers)
        <=> (/\ original[h].kind \in Headers /\ original[h].efi
             /\ \A j \in h + 1 .. i - 1 : original[j].kind \notin Headers)
  <2> SUFFICES ASSUME NEW h \in 1 .. i - 1
               PROVE  /\ c[h].kind = original[h].kind
                      /\ original[h].kind \in Headers => c[h] = original[h]
                      /\ \A j \in h + 1 .. i - 1 : c[j].kind = original[j].kind
    OBVIOUS
  <2>1. h \in 1 .. i /\ \A j \in h + 1 .. i - 1 : j \in 1 .. i
    OBVIOUS
  <2>2. QED  BY <1>1, <1>2, <2>1
<1>5. QED  BY <1>1, <1>3, <1>4 DEF EfiEntry

\* Patching a derived catalog gives a derived one.
LEMMA RetargetDerived ==
  ASSUME original \in Seq(Entries), NEW c, Derived(c)
  PROVE  Derived(Retargeted(c))
<1>1. c \in Seq(Entries) /\ Len(c) = Len(original)
  BY DEF Derived
<1>2. ASSUME NEW i \in 1 .. Len(original), i \in Patched(c)
      PROVE  /\ EfiEntry(original, i)
             /\ Retargeted(c)[i] = [original[i] EXCEPT !.img = "noprompt"]
  <2>1. EfiEntry(original, i)
    BY <1>1, <1>2, PatchedAreEfi, SameEfi
  <2>2. Retargeted(c)[i] = [c[i] EXCEPT !.img = "noprompt"]
    BY <1>1, <1>2, RetargetedEntries
  <2>3. original[i] \in Entries /\ original[i].kind = "boot"
    BY <2>1 DEF EfiEntry
  <2>4. original[i] \in [kind : {"boot"}, img : {"bios", "prompt", "noprompt"}]
    BY <2>3 DEF Entries, Headers
  <2>5. [[original[i] EXCEPT !.img = "noprompt"] EXCEPT !.img = "noprompt"]
          = [original[i] EXCEPT !.img = "noprompt"]
    BY <2>4
  <2>6. QED  BY <2>1, <2>2, <2>5 DEF Derived
<1>3. ASSUME NEW i \in 1 .. Len(original), i \notin Patched(c)
      PROVE  Retargeted(c)[i] = c[i]
  BY <1>1, <1>3, RetargetedEntries
<1>4. QED  BY <1>1, <1>2, <1>3, RetargetedEntries DEF Derived

-----------------------------------------------------------------------------
(* The pods.                                                               *)

\* Every step keeps types.
LEMMA IsoTypeStep ==
  ASSUME IsoAssumption, TypeOK, [Next]_vars
  PROVE  TypeOK'
<1> USE DEF TypeOK, iso
<1>1. ASSUME NEW p \in Pods, Inspect(p) \/ CopyBegins(p) \/ CopyEnds(p) \/ NoCatalog(p) PROVE TypeOK'
  BY <1>1 DEF Inspect, CopyBegins, CopyEnds, NoCatalog, Goes
<1>2. ASSUME NEW p \in Pods, ReadCatalog(p) PROVE TypeOK'
  BY <1>2, RetargetedEntries DEF ReadCatalog, Goes
<1>3. ASSUME NEW p \in Pods, WriteCatalog(p) PROVE TypeOK'
  BY <1>3 DEF WriteCatalog, Goes
<1>4. ASSUME NEW p \in Pods, Dies(p) PROVE TypeOK'
  BY <1>4 DEF Dies, IsoAssumption
<1>5. CASE UNCHANGED vars
  BY <1>5 DEF vars
<1>6. QED  BY <1>1, <1>2, <1>3, <1>4, <1>5 DEF Next, Patch

\* Every step keeps the invariant.
LEMMA IsoInvStep ==
  ASSUME IsoAssumption, TypeOK, IsoInv, [Next]_vars
  PROVE  IsoInv'
<1>0. UNCHANGED <<view, sameSize, original>>
  BY DEF Next, Patch, Inspect, CopyBegins, CopyEnds, NoCatalog, ReadCatalog, WriteCatalog, Dies, vars, iso
<1>1. Derived(catalog)'
  <2>1. catalog' = catalog \/ \E p \in Pods : pc[p] = "write" /\ catalog' = buf[p]
    BY DEF Next, Patch, Inspect, CopyBegins, CopyEnds, NoCatalog, ReadCatalog, WriteCatalog, Dies, vars, Goes
  <2>2. QED  BY <1>0, <2>1 DEF IsoInv, Derived
<1>2. ASSUME NEW q \in Pods, pc'[q] = "write" PROVE Derived(buf[q])'
  <2>1. ASSUME NEW p \in Pods, ReadCatalog(p) PROVE Derived(buf[q])'
    <3>1. Derived(Retargeted(catalog))
      BY RetargetDerived DEF IsoInv, TypeOK
    <3>2. q # p => buf'[q] = buf[q] /\ pc'[q] = pc[q]
      BY <2>1 DEF ReadCatalog, Goes, TypeOK
    <3>3. buf'[p] = Retargeted(catalog)
      BY <2>1 DEF ReadCatalog, TypeOK
    <3>4. QED  BY <1>0, <1>2, <3>1, <3>2, <3>3 DEF IsoInv, Derived
  <2>2. ASSUME NEW p \in Pods, Patch(p) \/ Dies(p), ~ReadCatalog(p)
        PROVE  buf' = buf /\ pc[q] = "write"
    BY <1>2, <2>2 DEF Patch, Inspect, CopyBegins, CopyEnds, NoCatalog, WriteCatalog, Dies, Goes, TypeOK
  <2>3. CASE UNCHANGED vars
    BY <1>0, <1>2, <2>3 DEF vars, IsoInv, Derived
  <2>4. QED  BY <1>0, <1>2, <2>1, <2>2, <2>3 DEF Next, IsoInv, Derived
<1>3. ASSUME NEW q \in Pods, Overwrites, pc'[q] \in {"catalog", "write", "ok"}
      PROVE  prompt' = "noprompt"
  <2>1. CASE pc[q] \in {"catalog", "write", "ok"}
    <3>1. prompt = "noprompt"
      BY <1>3, <2>1 DEF IsoInv
    <3>2. QED
      BY <3>1 DEF Next, Patch, Inspect, CopyBegins, CopyEnds, NoCatalog, ReadCatalog, WriteCatalog, Dies, vars
  <2>2. CASE pc[q] \notin {"catalog", "write", "ok"}
    <3>1. Inspect(q) \/ CopyEnds(q)
      BY <1>3, <2>2 DEF Next, Patch, Inspect, CopyBegins, CopyEnds, NoCatalog, ReadCatalog,
                        WriteCatalog, Dies, vars, Goes, TypeOK
    <3>2. QED  BY <1>3, <3>1 DEF Inspect, CopyEnds, Goes, Differs, TypeOK
  <2>3. QED  BY <2>1, <2>2
<1>4. QED  BY <1>0, <1>1, <1>2, <1>3 DEF IsoInv, Overwrites

\* Types and the invariant hold of every ISO as it was imported, and after every
\* step of any pod.
LEMMA IsoInvariant == Spec => [](TypeOK /\ IsoInv)
<1> USE IsoAssumption
<1>1. Init => TypeOK /\ IsoInv
  <2> SUFFICES ASSUME Init PROVE TypeOK /\ IsoInv
    OBVIOUS
  <2>1. original \in Seq(Entries) /\ <<>> \in Seq(Entries) /\ 0 \in 0 .. MaxDeaths
    BY DEF Init, IsoAssumption
  <2>2. TypeOK
    BY <2>1 DEF Init, TypeOK, IsoAssumption
  <2>3. IsoInv
    BY <2>1 DEF Init, IsoInv, Derived
  <2>4. QED  BY <2>2, <2>3
<1>2. TypeOK /\ IsoInv /\ [Next]_vars => TypeOK' /\ IsoInv'
  BY IsoTypeStep, IsoInvStep
<1>3. QED  BY <1>1, <1>2, PTL DEF Spec

\* Whatever pods die half way or overlap, the catalog keeps its length, its
\* headers and its BIOS entries.
THEOREM OnlyEfiMoves == Spec => []OthersKept
<1>1. TypeOK /\ IsoInv => OthersKept
  <2> SUFFICES ASSUME TypeOK, IsoInv PROVE OthersKept
    OBVIOUS
  <2>1. original \in Seq(Entries) /\ DOMAIN original = 1 .. Len(original)
    BY DEF TypeOK
  <2>2. QED  BY <2>1 DEF IsoInv, OthersKept, Derived
<1>2. QED  BY <1>1, IsoInvariant, PTL

\* An ISO that a pod reported as patched boots without a prompt, if its EFI
\* entries boot one of the two images, which are as long as each other.
THEOREM SuccessIsQuiet ==
  ASSUME \A c \in Catalogs : \A i \in DOMAIN c : EfiEntry(c, i) => c[i].img \in {"prompt", "noprompt"}
  PROVE  Spec => []SuccessBootsQuiet
<1> DEFINE Images == \A i \in 1 .. Len(original) :
                       EfiEntry(original, i) => original[i].img \in {"prompt", "noprompt"}
<1>1. Init => Images
  <2> SUFFICES ASSUME Init PROVE Images
    OBVIOUS
  <2>1. original \in Catalogs /\ original \in Seq(Entries)
    BY IsoAssumption DEF Init, IsoAssumption
  <2>2. QED  BY <2>1
<1>2. Images /\ [Next]_vars => Images'
  <2> SUFFICES ASSUME Images, [Next]_vars PROVE Images'
    OBVIOUS
  <2>1. original' = original
    BY DEF Next, Patch, Inspect, CopyBegins, CopyEnds, NoCatalog, ReadCatalog, WriteCatalog, Dies, vars, iso
  <2>2. QED  BY <2>1 DEF EfiEntry, Ended
<1>3. TypeOK /\ IsoInv /\ Images => SuccessBootsQuiet
  <2> SUFFICES ASSUME TypeOK, IsoInv, Images, Succeeded, Overwrites,
                      NEW i \in DOMAIN catalog, EfiEntry(catalog, i)
               PROVE  \/ catalog[i].img = "noprompt"
                      \/ catalog[i].img = "prompt" /\ prompt = "noprompt"
    BY DEF SuccessBootsQuiet, BootsQuiet
  <2>1. prompt = "noprompt"
    BY DEF Succeeded, IsoInv
  <2>2. original \in Seq(Entries) /\ Derived(catalog) /\ i \in 1 .. Len(original)
    <3>1. catalog \in Seq(Entries) /\ original \in Seq(Entries)
      BY DEF TypeOK
    <3>2. i \in 1 .. Len(catalog)
      BY <3>1
    <3>3. QED  BY <3>1, <3>2 DEF IsoInv, Derived
  <2>3. EfiEntry(original, i)
    BY <2>2, SameEfi
  <2>4. original[i] \in [kind : {"boot"}, img : {"bios", "prompt", "noprompt"}]
    <3>1. original[i] \in Entries /\ original[i].kind = "boot"
      BY <2>2, <2>3 DEF EfiEntry
    <3>2. QED  BY <3>1 DEF Entries, Headers
  <2>5. [original[i] EXCEPT !.img = "noprompt"].img = "noprompt"
    BY <2>4
  <2>6. QED  BY <2>1, <2>2, <2>3, <2>5 DEF Derived
<1> HIDE DEF Images
<1>4. QED  BY <1>1, <1>2, <1>3, IsoInvariant, PTL DEF Spec
=============================================================================
