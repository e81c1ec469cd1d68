----------------------------- MODULE AnswerFile -----------------------------
(***************************************************************************)
(* The recommended Autounattend.xml (utils/autounattend.ts) as the         *)
(* instructions it gives to Windows Setup.  A file is a record of what its *)
(* text is made from; the operators on it are the sections Setup reads.    *)
(***************************************************************************)
EXTENDS SkuProfile

VIRTIO_CD_LETTERS     == <<"D", "E", "F", "G">>
UPDATE_SCRIPT_LETTERS == {"D", "E", "F", "G", "H"}

FOLDER_RULES ==
  << <<{"win11"}, <<"w11">>>>, <<{"win10"}, <<"w10">>>>,
     <<{"2k25", "2025"}, <<"2k25", "2k22">>>>, <<{"2k22", "2022"}, <<"2k22">>>>,
     <<{"2k19", "2019"}, <<"2k19">>>>, <<{"2k16", "2016"}, <<"2k16">>>>,
     <<{"2k12"}, <<"2k12R2">>>> >>

virtioFoldersForSku ==
  [id \in Names |-> FirstIn(FOLDER_RULES, LAMBDA r : Includes(id, r[1]), <<{}, <<"w10">>>>)[2]]

skuKind(id) ==
  CASE normalizeSkuKey(id) \in {"", CUSTOM} -> "generic"
    [] Includes(id, {"win11"}) -> "client11"
    [] Includes(id, {"win10"}) -> "client10"
    [] Includes(id, {"2k", "server", "2016", "2019", "2022", "2025"}) -> "server"
    [] OTHER -> "generic"

\* Server evaluation media: 2 is Standard with the desktop.
imageIndexFor(kind) == IF kind = "server" THEN 2 ELSE 1

computerNameFor(id) == IF id = CUSTOM THEN "WindowsVM" ELSE Word[id].host

skipWinPEDrivers(id) == Includes(id, {"win11", "2k25", "2025"})

\* The file the page writes for an edition.  NoIndex is an omitted argument.
NoIndex == 0

recommendedAutounattend(id, isoType, editionIndex, windowsUpdate) ==
  LET sku == Or(id, CUSTOM) IN
  [kind    |-> skuKind(sku),
   index   |-> IF isoType = "consumer" /\ editionIndex # NoIndex
                 THEN editionIndex ELSE imageIndexFor(skuKind(sku)),
   folders |-> virtioFoldersForSku[sku],
   winPE   |-> ~skipWinPEDrivers(sku),
   host    |-> computerNameFor(sku),
   updates |-> windowsUpdate]

IsClient(file) == file.kind \in {"client10", "client11"}

-----------------------------------------------------------------------------
(* The sections of a file.                                                 *)

\* Each CD letter with each folder and driver.
driverPaths(file) == ToSet(VIRTIO_CD_LETTERS) \X ToSet(file.folders) \X {"viostor", "NetKVM", "Balloon"}

\* PnpCustomizationsWinPE, left out for the editions whose Setup rejects it.
WinPEDrivers(file) == IF file.winPE THEN driverPaths(file) ELSE {}

\* The checks of Setup that windowsPE switches off, and the account page.
PeCommands(file) ==
  CASE file.kind = "client11" -> {"TPM", "SecureBoot", "RAM", "NRO"}
    [] file.kind = "client10" -> {"NRO"}
    [] OTHER -> {}

\* Places a copy of the answer file is left in, where sysprep would find it.
CachedFiles == {"PantherUnattend", "PantherAutounattend", "SysprepUnattend",
                "PantherDirectory", "SysprepPanther"}

PerLetter(op) == [i \in DOMAIN VIRTIO_CD_LETTERS |-> <<op, VIRTIO_CD_LETTERS[i]>>]

Deletions ==
  << <<"delete", "PantherUnattend">>, <<"delete", "PantherAutounattend">>,
     <<"delete", "SysprepUnattend">>, <<"delete", "PantherDirectory">>,
     <<"delete", "SysprepPanther">> >>

\* Mutant: removal only; some packages cannot be removed.
AppxRemovals == << <<"removeAppx", "user">>, <<"removeAppx", "provisioned">> >>

AppxCommands ==
  << <<"removeAppx", "user">>, <<"removeAppx", "provisioned">>, <<"skipAppx", "">> >>

\* The updates end in sysprep; an older builder puts no script on the CD.
SealCommands(file) ==
  IF file.updates THEN << <<"update", "">>, <<"sysprepIfNotStarted", "">> >>
                  ELSE << <<"sysprep", "">> >>

firstLogonCommands(file) ==
  PerLetter("tools") \o PerLetter("agent")
    \o << <<"autoLogonOff", "">>, <<"wait", "">> >> \o Deletions
    \o (IF IsClient(file) THEN AppxCommands ELSE <<>>)
    \o SealCommands(file)
=============================================================================
