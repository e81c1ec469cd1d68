-------------------------- MODULE MCTemplateUpdate --------------------------
(***************************************************************************)
(* Instances of TemplateUpdate for TLC: a flavor Template that clones a    *)
(* DataSource, and the same with another default and an answer file.       *)
(***************************************************************************)
EXTENDS TemplateUpdate

Data(n) == [name |-> n, content |-> "data"]
Body(name, vols) ==
  [there |-> TRUE,
   params |-> [p \in Params |-> CASE p = "NAME" -> name
                                  [] p = "DATA_SOURCE_NAME" -> Elsewhere
                                  [] OTHER -> "unset"],
   vols |-> vols, disks |-> {v.name : v \in vols}, clones |-> "unset"]

MCTemplates ==
  {Body("unset", {Data("rootdisk")}),
   Body(Elsewhere, {Data("rootdisk"), Data("extra"),
                    [name |-> "sysprep", content |-> "sysprep"]})}
=============================================================================
