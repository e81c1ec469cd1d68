------------------------------ MODULE IsoPatch ------------------------------
(***************************************************************************)
(* builder/eltorito.go, run by the pods of the patch Job: make a Windows   *)
(* ISO boot under UEFI without "Press any key".  efisys.bin is overwritten *)
(* with the bytes of efisys_noprompt.bin, and the EFI entries of the El    *)
(* Torito catalog are pointed at efisys_noprompt.bin.                      *)
(*                                                                         *)
(* The Job may start a second pod when the first one failed, and a later   *)
(* build starts a new Job while a pod of the old one still ends: pods work *)
(* on the ISO at the same time and die at any step.  The file contents     *)
(* are "prompt", "noprompt" or "torn" (a write that has not ended); one    *)
(* 2048-byte catalog sector is written at once.                            *)
(***************************************************************************)
EXTENDS Integers, Sequences

CONSTANTS
  Pods,        \* pods of the patch Jobs
  MaxDeaths,   \* pods that die, or meet an I/O error
  Views,       \* inputs: what the file systems of an ISO show
  Catalogs     \* inputs: El Torito catalogs

\* The walks, in the order they are tried.
FileSystems == <<"Joliet", "ISO9660", "UDF">>

\* What a walk to efi/microsoft/boot finds: nothing (or an error), the
\* noprompt image alone, or both images.
Walks == {"none", "noprompt", "both"}

\* 32-byte catalog entries: validation (0x01) and section (0x90, 0x91)
\* headers with their platform, bootable entries (0x88) with their image,
\* extensions (0x44) and the zero entry that ends the catalog.
Headers == {"validation", "section"}
Entries == [kind : Headers, efi : BOOLEAN]
             \cup [kind : {"boot"}, img : {"bios", "prompt", "noprompt"}]
             \cup [kind : {"extension", "end"}]

ASSUME IsoAssumption ==
  /\ MaxDeaths \in Nat
  /\ Views \subseteq [DOMAIN FileSystems -> Walks]
  /\ Catalogs \subseteq Seq(Entries)

VARIABLES
  view, sameSize,   \* the ISO: walks, and whether the two images are as long
  prompt,           \* content of efisys.bin
  original, catalog,  \* the catalog as imported, and as it is; <<>>: none
  pc,               \* each pod's next step
  buf,              \* the catalog a pod is about to write
  deaths

iso  == <<view, sameSize, original>>
vars == <<iso, prompt, catalog, pc, buf, deaths>>

-----------------------------------------------------------------------------
(* inspectWindowsISO: the first walk that finds the noprompt image counts.  *)

Finding(v) ==
  LET hits == {i \in DOMAIN FileSystems : v[i] # "none"}
  IN  IF hits = {} THEN "none" ELSE v[CHOOSE i \in hits : \A j \in hits : i <= j]

\* efisys.bin is overwritten when it was found and is as long as the other.
Overwrites == Finding(view) = "both" /\ sameSize

(* retargetElToritoEFI: one pass over the catalog.                          *)

\* Mutant: an entry is not asked whose section it is in.
EveryEntry(c, i) == TRUE

\* The flag inEFI after entry i: only bootable entries leave it as it is.
InEFI(c, i) ==
  \E h \in 1 .. i :
    c[h].kind = "section" /\ c[h].efi /\ \A j \in h + 1 .. i : c[j].kind = "boot"

Ended(c, i) == \E j \in 1 .. i : c[j].kind = "end"

Patched(c) == {i \in DOMAIN c : c[i].kind = "boot" /\ InEFI(c, i - 1) /\ ~Ended(c, i)}

Retargeted(c) ==
  LET hit == Patched(c)
  IN  [i \in DOMAIN c |-> IF i \in hit THEN [c[i] EXCEPT !.img = "noprompt"] ELSE c[i]]

-----------------------------------------------------------------------------
(* patchElToritoNoprompt, in pod p.                                         *)

Goes(p, from, to) == pc[p] = from /\ pc' = [pc EXCEPT ![p] = to]

\* Mutant of the comparison: only an untouched image is overwritten.
LooksOriginal == prompt = "prompt"

Differs == prompt # "noprompt"

Inspect(p) ==
  /\ Goes(p, "begin", IF Finding(view) = "none" THEN "failed"
                      ELSE IF Overwrites /\ Differs THEN "copy" ELSE "catalog")
  /\ UNCHANGED <<iso, prompt, catalog, buf, deaths>>

\* Writing the same bytes again changes nothing.
CopyBegins(p) ==
  /\ Goes(p, "copy", "copying")
  /\ prompt' = IF prompt = "noprompt" THEN prompt ELSE "torn"
  /\ UNCHANGED <<iso, catalog, buf, deaths>>

CopyEnds(p) ==
  /\ Goes(p, "copying", "catalog")
  /\ prompt' = "noprompt"
  /\ UNCHANGED <<iso, catalog, buf, deaths>>

\* Mutant: the early return for an ISO whose image was overwritten is lost.
AlwaysNeeded == TRUE

\* An ISO without a catalog is an error unless its image was overwritten.
CatalogNeeded == ~Overwrites

NoCatalog(p) ==
  /\ catalog = <<>>
  /\ Goes(p, "catalog", IF CatalogNeeded THEN "failed" ELSE "ok")
  /\ UNCHANGED <<iso, prompt, catalog, buf, deaths>>

ReadCatalog(p) ==
  /\ catalog # <<>>
  /\ Goes(p, "catalog", IF Patched(catalog) = {} THEN "ok" ELSE "write")
  /\ buf' = [buf EXCEPT ![p] = Retargeted(catalog)]
  /\ UNCHANGED <<iso, prompt, catalog, deaths>>

WriteCatalog(p) ==
  /\ Goes(p, "write", "ok")
  /\ catalog' = buf[p]
  /\ UNCHANGED <<iso, prompt, buf, deaths>>

\* The pod is killed, or a read or write fails: log.Fatalf.
Dies(p) ==
  /\ pc[p] \notin {"ok", "failed"} /\ deaths < MaxDeaths
  /\ pc' = [pc EXCEPT ![p] = "failed"] /\ deaths' = deaths + 1
  /\ UNCHANGED <<iso, prompt, catalog, buf>>

Patch(p) ==
  \/ Inspect(p) \/ CopyBegins(p) \/ CopyEnds(p)
  \/ NoCatalog(p) \/ ReadCatalog(p) \/ WriteCatalog(p)

Init ==
  /\ view \in Views /\ sameSize \in BOOLEAN /\ prompt = "prompt"
  /\ original \in Catalogs /\ catalog = original
  /\ pc = [p \in Pods |-> "begin"] /\ buf = [p \in Pods |-> <<>>]
  /\ deaths = 0

Next == \E p \in Pods : Patch(p) \/ Dies(p)

Spec == Init /\ [][Next]_vars

\* A pod that is not killed runs on.
FairSpec == Spec /\ \A p \in Pods : WF_vars(Patch(p))

-----------------------------------------------------------------------------
(* Properties.                                                             *)

\* What firmware takes the catalog for (El Torito, UEFI 13.3): a bootable
\* entry belongs to the header before it, whatever extensions lie between.
EfiEntry(c, i) ==
  /\ c[i].kind = "boot" /\ ~Ended(c, i)
  /\ \E h \in 1 .. i - 1 :
       /\ c[h].kind \in Headers /\ c[h].efi
       /\ \A j \in h + 1 .. i - 1 : c[j].kind \notin Headers

BootsQuiet ==
  \A i \in DOMAIN catalog :
    EfiEntry(catalog, i) =>
      \/ catalog[i].img = "noprompt"
      \/ catalog[i].img = "prompt" /\ prompt = "noprompt"

Succeeded == \E p \in Pods : pc[p] = "ok"

\* Every variable keeps its type.
TypeOK ==
  /\ view \in [DOMAIN FileSystems -> Walks] /\ sameSize \in BOOLEAN
  /\ prompt \in {"prompt", "torn", "noprompt"}
  /\ original \in Seq(Entries) /\ catalog \in Seq(Entries)
  /\ pc \in [Pods -> {"begin", "copy", "copying", "catalog", "write", "ok", "failed"}]
  /\ buf \in [Pods -> Seq(Entries)] /\ deaths \in 0 .. MaxDeaths

\* A pod that succeeded leaves an ISO every EFI entry of which boots without
\* a prompt, whatever pods died half way before it or work beside it, as
\* long as the two images are of one length and in one directory.
SuccessBootsQuiet == Succeeded /\ Overwrites => BootsQuiet

\* The catalog keeps its shape and its BIOS entries: only EFI entries move.
OthersKept ==
  /\ Len(catalog) = Len(original)
  /\ \A i \in DOMAIN original :
       ~EfiEntry(original, i) => catalog[i] = original[i]

\* The Job ends well for an ISO with both images, even if all its pods but
\* one die half way.
PatchSucceeds == (Overwrites /\ catalog = original) ~> Succeeded
=============================================================================
