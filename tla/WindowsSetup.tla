---------------------------- MODULE WindowsSetup ----------------------------
(***************************************************************************)
(* The install VM of a build (installVMManifest in builder/pipeline.go)    *)
(* carrying out an answer file of the page: the firmware picks a disk,     *)
(* WinPE installs an image, the installed Windows runs the first-logon     *)
(* commands up to sysprep or to wb-update.ps1, which GuestUpdate follows   *)
(* from there.  Windows itself is external: it does what the comments of   *)
(* autounattend.ts and pipeline.go say of it.                              *)
(***************************************************************************)
EXTENDS AnswerFile

CONSTANTS
  Media,      \* kinds of ISO; each with the indexes of its images and
  Images, Blockers, \* the AppX packages that make sysprep fail
  CdFolders   \* the folders of the virtio-win CD

\* The CD holds a folder for each edition, as the folder rules take for granted;
\* of a newer edition an older CD has only the older name.
ASSUME CdAssumption ==
  /\ "w10" \in CdFolders
  /\ \A i \in DOMAIN FOLDER_RULES : ToSet(FOLDER_RULES[i][2]) \cap CdFolders # {}

VARIABLE vm   \* the VM, its disk and the Windows on it

Cds == {"installiso", "virtio", "sysprep"}
NoLetters == [c \in Cds |-> ""]

\* Windows gives the three CDs any letters from D on, the virtio-win CD one up to
\* G, as the head of autounattend.ts has it.  (This is Windows's choice and not
\* the lists that the file searches, VIRTIO_CD_LETTERS and UPDATE_SCRIPT_LETTERS.)
CdLetters == {"D", "E", "F", "G", "H"}
Lettered ==
  {l \in [Cds -> CdLetters] : l["virtio"] # "H" /\ \A a, b \in Cds : l[a] = l[b] => a = b}

Off == [at |-> "off"]

\* Mutant: no probe disk.
NeverProbed(file) == FALSE

\* Without viostor from WinPE a small VirtIO disk makes Windows keep the driver.
\* (The builder refuses a build without a virtio image.)
needsVirtioStorageProbe(file) ==
  ~\E p \in WinPEDrivers(file) : p[3] = "viostor"

\* Disk and CD of the Windows ISO have boot orders 1 and 2.
installVMDisks(probe) ==
  <<"rootdisk", "installiso", "virtio", "sysprep">> \o (IF probe THEN <<"probe">> ELSE <<>>)
bootOrder == [rootdisk |-> 1, installiso |-> 2]

\* The VM is created; script says whether this builder puts wb-update.ps1 on the CD.
PowerOn(file, media, script) ==
  vm' = [at |-> "boot", file |-> file, media |-> media, script |-> script,
         disks |-> installVMDisks(needsVirtioStorageProbe(file)),
         letters |-> NoLetters, installed |-> "", viostor |-> "none",
         tools |-> FALSE, agent |-> "none", autoLogon |-> TRUE, cached |-> {},
         blockers |-> Blockers[media], skipAppx |-> FALSE, started |-> FALSE, next |-> 1]

Has(disk) == disk \in ToSet(vm.disks)

\* The firmware skips a disk without a boot manager.
Bootable == {"installiso"} \cup (IF vm.installed = "rootdisk" THEN {"rootdisk"} ELSE {})
Boots(disk) ==
  /\ disk \in Bootable
  /\ \A other \in Bootable : bootOrder[disk] <= bootOrder[other]

Finds(paths, letters) ==
  \E p \in paths : p[1] = letters["virtio"] /\ p[2] \in CdFolders /\ p[3] = "viostor"

\* WinPE: the drivers it finds decide which disks it sees, DiskID 0 is any of
\* them; what blocks Setup leaves its picker open.
WinPE ==
  /\ vm.at = "boot" /\ Boots("installiso")
  /\ \E letters \in Lettered :
       LET loads == Finds(WinPEDrivers(vm.file), letters)
           seen  == {"rootdisk"} \cup (IF loads /\ Has("probe") THEN {"probe"} ELSE {})
           passes == /\ vm.file.index \in Images[vm.media]
                     /\ vm.file.kind = "client11" => {"TPM", "SecureBoot"} \subseteq PeCommands(vm.file)
       IN  IF passes
             THEN \E disk \in seen :
                    vm' = [vm EXCEPT !.installed = disk, !.cached = CachedFiles,
                             !.viostor = IF loads THEN "boot" ELSE "none"]
             ELSE vm' = [vm EXCEPT !.at = "picker"]

\* The first boot of the installed Windows: specialize stages the drivers it finds.
FirstBoot ==
  /\ vm.at = "boot" /\ Boots("rootdisk")
  /\ \E letters \in Lettered :
       vm' = [vm EXCEPT !.at = "logon", !.letters = letters,
                !.viostor = IF @ = "none" /\ Finds(driverPaths(vm.file), letters) THEN "staged" ELSE @]

\* A driver that is installed while a VirtIO disk is attached becomes a boot driver.
ToolsInstalled(v) ==
  [v EXCEPT !.tools = TRUE,
            !.viostor = IF Has("probe") THEN "boot" ELSE IF @ = "none" THEN "staged" ELSE @]

\* sysprep fails on AppX packages that are still there.
Sysprepped(v) == IF v.blockers = {} \/ v.skipAppx THEN [v EXCEPT !.at = "sealed"] ELSE v

Effect(c, v) ==
  CASE c[1] = "tools" -> IF v.letters["virtio"] = c[2] THEN ToolsInstalled(v) ELSE v
    [] c[1] = "agent" -> IF v.letters["virtio"] = c[2] THEN [v EXCEPT !.agent = "installed"] ELSE v
    [] c[1] = "autoLogonOff" -> [v EXCEPT !.autoLogon = FALSE]
    [] c[1] = "wait" -> [v EXCEPT !.agent = IF @ = "installed" THEN "connected" ELSE @]
    [] c[1] = "delete" -> [v EXCEPT !.cached = @ \ {c[2]}]
    [] c[1] = "removeAppx" -> [v EXCEPT !.blockers = @ \ {c[2]}]
    [] c[1] = "skipAppx" -> [v EXCEPT !.skipAppx = TRUE]
    [] c[1] = "update" -> IF v.script /\ v.letters["sysprep"] \in UPDATE_SCRIPT_LETTERS
                            THEN [v EXCEPT !.at = "updating", !.started = TRUE] ELSE v
    [] c[1] = "sysprepIfNotStarted" -> IF v.started THEN v ELSE Sysprepped(v)
    [] c[1] = "sysprep" -> Sysprepped(v)

\* FirstLogonCommands run in their order, one at a time; after the last one the
\* desktop stays.
Command ==
  /\ vm.at = "logon"
  /\ LET cs == firstLogonCommands(vm.file) IN
     IF vm.next > Len(cs) THEN vm' = [vm EXCEPT !.at = "desktop"]
     ELSE vm' = Effect(cs[vm.next], [vm EXCEPT !.next = @ + 1])

SetupStep == WinPE \/ FirstBoot \/ Command

-----------------------------------------------------------------------------
(* Properties.                                                             *)

\* sysprep is over, or wb-update.ps1 has taken over.
Done == vm.at \in {"sealed", "updating"}

\* What is sealed, or handed to the updates that end in sealing, can be cloned
\* and started: Windows is on the root disk and keeps viostor as a boot driver,
\* the tools are in, the guest agent had connected before the end (or the builder
\* would refuse the image), nobody is logged on by itself, and no copy of the
\* answer file is left for sysprep to run again on a clone.
SealedIsGood ==
  Done => /\ vm.installed = "rootdisk" /\ vm.viostor = "boot"
          /\ vm.tools /\ vm.agent = "connected" /\ ~vm.autoLogon /\ vm.cached = {}
=============================================================================
