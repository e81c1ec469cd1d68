----------------------------- MODULE MCIsoPatch -----------------------------
(***************************************************************************)
(* Instances of IsoPatch for TLC: the views that differ in which walk wins *)
(* and what it finds, and all catalogs of a validation header, a default   *)
(* entry and up to three more entries in which BIOS entries boot the BIOS  *)
(* image and EFI entries efisys.bin.                                       *)
(***************************************************************************)
EXTENDS IsoPatch

MCViews ==
  {<<"none", "none", "none">>, <<"none", "none", "both">>,
   <<"none", "noprompt", "both">>, <<"both", "none", "noprompt">>,
   <<"none", "none", "noprompt">>}

Boot(img) == [kind |-> "boot", img |-> img]
Header(k, e) == [kind |-> k, efi |-> e]
Tails == UNION {[1 .. n -> {Header("section", TRUE), Header("section", FALSE),
                            Boot("bios"), [kind |-> "extension"], [kind |-> "end"]}]
                  : n \in 0 .. 3}

\* EFI entries boot efisys.bin.
Sane(c) == [i \in DOMAIN c |-> IF EfiEntry(c, i) THEN Boot("prompt") ELSE c[i]]

MCCatalogs ==
  {<<>>} \cup {Sane(<<Header("validation", e), Boot("bios")>> \o t)
                : e \in BOOLEAN, t \in Tails}
=============================================================================
