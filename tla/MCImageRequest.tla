--------------------------- MODULE MCImageRequest ---------------------------
(***************************************************************************)
(* An instance of ImageRequest for TLC: three families (a server edition,  *)
(* Server 2025 and Windows 11), custom names whose keys say something else *)
(* than themselves, lists of Templates that drop or gain one, and any two  *)
(* groups of fields varied in one behaviour, where one may read what the   *)
(* other varies (the virtio image reads nothing but the lists).            *)
(***************************************************************************)
EXTENDS ImageRequest, FiniteSetsExt

W(key, has, disk, host, rank) == [key |-> key, has |-> has, disk |-> disk, host |-> host, rank |-> rank]

MCWord ==
  ("" :> W("", {}, FALSE, "", 0))
  @@ ("custom" :> W("custom", {}, TRUE, "custom", 1))
  @@ ("Gold_1" :> W("gold_1", {}, FALSE, "Gold1", 2))
  @@ ("gold_1" :> W("gold_1", {}, FALSE, "gold1", 3))
  @@ ("my-win10" :> W("my-win10", {"win10"}, TRUE, "my-win10", 4))
  @@ ("win11" :> W("win11", {"win11"}, TRUE, "win11", 5))
  @@ ("windows11" :> W("win11", {"win11"}, TRUE, "windows11", 6))
  @@ ("win2k19" :> W("win2k19", {"2k", "2k19"}, TRUE, "win2k19", 7))
  @@ ("win2k25" :> W("win2k25", {"2k", "2k25"}, TRUE, "win2k25", 8))

MCNames == DOMAIN MCWord
MCHints == {"win2k19", "win2k25"}
MCScheme == [u \in {"", "win2k19", "win2k25", "url", "URL", "ftp"} |->
               CASE u \in {"", "ftp"} -> "none" [] u = "URL" -> "HTTP" [] OTHER -> "http"]

T(name, os, stem, source, variant, size, images, rank) ==
  [name |-> name, namespace |-> "openshift", windows |-> TRUE, os |-> os, stem |-> stem,
   source |-> source, sourceNs |-> IF size = "70Gi" THEN "elsewhere" ELSE "",
   rootDisk |-> "", request |-> size, images |-> images, variant |-> variant, rank |-> rank]

Image(kind) == <<[kind |-> kind, text |-> kind]>>

large   == T("windows2k19-server-large", "win2k19", "win2k19", "win2k19", "other", "70Gi", <<>>, 3)
medium  == T("windows2k19-server-medium", "win2k19", "win2k19", "", "medium", "60Gi", Image("virtio-win"), 4)
eleven  == T("windows11-desktop-medium", "win11", "win11", "Gold_1", "medium", "", <<>>, 1)
noLabel == T("windows11-tiny", "", "win11", "windows11", "other", "", <<>>, 2)
late    == T("windows2k25-server-tiny", "", "win2k25", "", "other", "64Gi",
             Image("virtio-container-disk") \o Image("virtio-win"), 5)

MCTemplateLists == {<<>>, <<medium, eleven, large>>, <<eleven, large, noLabel>>, <<large, late>>}
MCCached == <<medium, eleven, large>>

MCVolumes == {[name |-> "win2k19", storage |-> "", pvc |-> "fast"],
              [name |-> "custom", storage |-> "slow", pvc |-> "fast"]}

Groups == {"custom", "iso", "type", "xml", "updates", "template", "disk", "virtio", "lists"}
MCPlans ==
  {p \in kSubset(2, Groups) : /\ "virtio" \in p => "lists" \in p
                              /\ "template" \in p => p \cap {"custom", "lists"} # {}}

MCImages   == [serverEval |-> 1 .. 4, clientEval |-> {1}, consumer |-> 1 .. 11]
MCBlockers == [serverEval |-> {}, clientEval |-> {"user"}, consumer |-> {"user", "provisioned", "perUser"}]
=============================================================================
