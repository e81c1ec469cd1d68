--------------------------- MODULE ImageRequestProofs ---------------------------
EXTENDS ImageRequest, WizardFormProofs, SequenceTheorems
(***************************************************************************)
(* The wizard and the install VM together: the invariant of the form until *)
(* a build starts, and that of Windows Setup afterwards, for every table   *)
(* of names, every list of Templates and every virtio CD.                  *)
(***************************************************************************)

VmFields ==
  {"at", "file", "media", "script", "disks", "letters", "installed", "viostor", "tools",
   "agent", "autoLogon", "cached", "blockers", "skipAppx", "started", "next"}

\* The places of the first-logon commands: the tools and the agent from each
\* letter, autologon, the wait, the deletions, and what may seal the guest.
AgentAfter    == 4
AutoLogonAt   == 9
WaitAt        == 10
DeletesAfter  == 10
SealsAfter    == 15

\* What the machine is made of, and how far Setup and Windows have come.
MachineGood(v) ==
  /\ DOMAIN v = VmFields
  /\ PageFile(v.file) /\ v.disks = installVMDisks(needsVirtioStorageProbe(v.file))
  /\ v.at \in {"boot", "picker", "logon", "desktop", "sealed", "updating"}
  /\ v.installed \in {"", "rootdisk"} /\ v.next \in Nat \ {0}
  /\ v.at = "boot" => v.next = 1
  /\ v.at \notin {"boot", "picker"} =>
       v.installed = "rootdisk" /\ v.letters["virtio"] \in ToSet(VIRTIO_CD_LETTERS)

\* Windows has viostor as a boot driver from WinPE on, or will have it because
\* a VirtIO disk is attached when the tools go in.
DriverSure(v) ==
  v.installed = "rootdisk" => needsVirtioStorageProbe(v.file) \/ v.viostor = "boot"

\* What the commands that have run have left behind.
CommandsDone(v) ==
  /\ \A i \in 1 .. 4 : v.letters["virtio"] = VIRTIO_CD_LETTERS[i] =>
       /\ v.next > i => v.tools /\ v.viostor = "boot"
       /\ v.next > AgentAfter + i => v.agent \in {"installed", "connected"}
  /\ v.next > AutoLogonAt => ~v.autoLogon
  /\ v.next > WaitAt => v.agent = "connected"
  /\ v.cached \subseteq CachedFiles
  /\ \A i \in 1 .. 5 : v.next > DeletesAfter + i => Deletions[i][2] \notin v.cached
  /\ v.at \in {"sealed", "updating"} => v.next > SealsAfter

MachineInv(v) == MachineGood(v) /\ DriverSure(v) /\ CommandsDone(v)

SetupInv == vm.at \in {"off", "byHand"} \/ MachineInv(vm)

-----------------------------------------------------------------------------
(* The first-logon commands.                                               *)

\* All the commands there are.
Pairs ==
  {<<"tools", "D">>, <<"tools", "E">>, <<"tools", "F">>, <<"tools", "G">>,
   <<"agent", "D">>, <<"agent", "E">>, <<"agent", "F">>, <<"agent", "G">>,
   <<"autoLogonOff", "">>, <<"wait", "">>,
   <<"delete", "PantherUnattend">>, <<"delete", "PantherAutounattend">>,
   <<"delete", "SysprepUnattend">>, <<"delete", "PantherDirectory">>,
   <<"delete", "SysprepPanther">>,
   <<"removeAppx", "user">>, <<"removeAppx", "provisioned">>, <<"skipAppx", "">>,
   <<"update", "">>, <<"sysprepIfNotStarted", "">>, <<"sysprep", "">>}

\* What can come after the preparations.
Sealing == {"removeAppx", "skipAppx", "update", "sysprepIfNotStarted", "sysprep"}

\* The commands of the clients.
ClientCommands(file) == IF IsClient(file) THEN AppxCommands ELSE <<>>

\* Short lists of commands are sequences.
LEMMA ShortSeqs ==
  ASSUME NEW S, NEW a \in S, NEW b \in S, NEW c \in S
  PROVE  <<a>> \in Seq(S) /\ <<a, b>> \in Seq(S) /\ <<a, b, c>> \in Seq(S)
  OBVIOUS

\* u is s and then t.
Joined(S, u, s, t) ==
  /\ u \in Seq(S) /\ Len(u) = Len(s) + Len(t)
  /\ \A i \in 1 .. Len(s) : u[i] = s[i]
  /\ \A i \in 1 .. Len(t) : u[Len(s) + i] = t[i]

\* Where the elements of a concatenation come from.
LEMMA ConcatAt ==
  ASSUME NEW S, NEW s, NEW t, s \in Seq(S), t \in Seq(S)
  PROVE  Joined(S, s \o t, s, t)
  <1>1. /\ s \o t \in Seq(S) /\ Len(s \o t) = Len(s) + Len(t)
        /\ \A i \in 1 .. Len(s) + Len(t) : (s \o t)[i] = IF i <= Len(s) THEN s[i] ELSE t[i - Len(s)]
    BY ConcatProperties
  <1>2. Len(s) \in Nat /\ Len(t) \in Nat
    BY LenProperties
  <1>3. ASSUME NEW i \in 1 .. Len(t)
        PROVE  (s \o t)[Len(s) + i] = t[i]
    <2>1. Len(s) + i \in 1 .. Len(s) + Len(t) /\ ~(Len(s) + i <= Len(s)) /\ (Len(s) + i) - Len(s) = i
      BY <1>2
    <2>2. (s \o t)[Len(s) + i] = t[(Len(s) + i) - Len(s)]
      BY <1>1, <2>1
    <2> QED BY <2>1, <2>2
  <1>4. \A i \in 1 .. Len(s) : (s \o t)[i] = s[i]
    BY <1>1, <1>2
  <1> QED BY <1>1, <1>3, <1>4 DEF Joined

\* One command per letter of the CD.
LEMMA PerLetterFacts ==
  ASSUME NEW op \in {"tools", "agent"}
  PROVE  /\ PerLetter(op) \in Seq(Pairs) /\ Len(PerLetter(op)) = 4
         /\ \A i \in 1 .. 4 : PerLetter(op)[i] = <<op, VIRTIO_CD_LETTERS[i]>>
  <1>1. PerLetter(op) = << <<op, "D">>, <<op, "E">>, <<op, "F">>, <<op, "G">> >>
    BY DEF PerLetter, VIRTIO_CD_LETTERS
  <1>2. <<op, "D">> \in Pairs /\ <<op, "E">> \in Pairs /\ <<op, "F">> \in Pairs /\ <<op, "G">> \in Pairs
    BY DEF Pairs
  <1>3. PerLetter(op) \in Seq(Pairs)
    BY <1>1, <1>2
  <1> QED BY <1>1, <1>3 DEF VIRTIO_CD_LETTERS

\* What comes last.
LEMMA SealFacts ==
  ASSUME NEW file
  PROVE  /\ SealCommands(file) \in Seq(Pairs) /\ Len(SealCommands(file)) \in {1, 2}
         /\ \A i \in 1 .. Len(SealCommands(file)) : SealCommands(file)[i][1] \in Sealing
  <1>1. /\ <<"update", "">> \in Pairs /\ <<"sysprepIfNotStarted", "">> \in Pairs
        /\ <<"sysprep", "">> \in Pairs
    BY DEF Pairs
  <1> DEFINE seal == SealCommands(file)
             long == << <<"update", "">>, <<"sysprepIfNotStarted", "">> >>
             short == << <<"sysprep", "">> >>
  <1>2. seal = long \/ seal = short
    BY DEF SealCommands
  <1>3. long \in Seq(Pairs) /\ short \in Seq(Pairs)
    BY <1>1, ShortSeqs, Zenon
  <1>4. /\ Len(long) = 2 /\ \A i \in 1 .. 2 : long[i][1] \in Sealing
        /\ Len(short) = 1 /\ \A i \in 1 .. 1 : short[i][1] \in Sealing
    BY DEF Sealing
  <1> HIDE DEF seal, long, short
  <1>5. /\ seal \in Seq(Pairs) /\ Len(seal) \in {1, 2}
        /\ \A i \in 1 .. Len(seal) : seal[i][1] \in Sealing
    BY <1>2, <1>3, <1>4
  <1> QED BY <1>5 DEF seal

\* What a client does before it.
LEMMA ClientFacts ==
  ASSUME NEW file
  PROVE  /\ ClientCommands(file) \in Seq(Pairs) /\ Len(ClientCommands(file)) \in {0, 3}
         /\ \A i \in 1 .. Len(ClientCommands(file)) : ClientCommands(file)[i][1] \in Sealing
  <1>1. /\ <<"removeAppx", "user">> \in Pairs /\ <<"removeAppx", "provisioned">> \in Pairs
        /\ <<"skipAppx", "">> \in Pairs
    BY DEF Pairs
  <1>2. CASE IsClient(file)
    <2>1. ClientCommands(file) = AppxCommands
      BY <1>2 DEF ClientCommands
    <2>2. AppxCommands \in Seq(Pairs)
      <3> HIDE DEF Pairs
      <3> QED BY <1>1, ShortSeqs, Zenon DEF AppxCommands
    <2>3. Len(AppxCommands) = 3 /\ \A i \in 1 .. 3 : AppxCommands[i][1] \in Sealing
      BY DEF AppxCommands, Sealing
    <2> QED BY <2>1, <2>2, <2>3
  <1>3. CASE ~IsClient(file)
    <2>1. ClientCommands(file) = <<>>
      BY <1>3 DEF ClientCommands
    <2> QED BY <2>1
  <1> QED BY <1>2, <1>3

\* The deletions.
LEMMA DeletionFacts ==
  /\ Deletions \in Seq(Pairs) /\ Len(Deletions) = 5
  /\ \A i \in 1 .. 5 : Deletions[i] = <<"delete", Deletions[i][2]>>
  /\ CachedFiles = {Deletions[i][2] : i \in 1 .. 5}
  <1>1. /\ <<"delete", "PantherUnattend">> \in Pairs /\ <<"delete", "PantherAutounattend">> \in Pairs
        /\ <<"delete", "SysprepUnattend">> \in Pairs /\ <<"delete", "PantherDirectory">> \in Pairs
        /\ <<"delete", "SysprepPanther">> \in Pairs
    BY DEF Pairs
  <1>2. Deletions \in Seq(Pairs)
    BY <1>1 DEF Deletions
  <1>3. Len(Deletions) = 5 /\ \A i \in 1 .. 5 : Deletions[i] = <<"delete", Deletions[i][2]>>
    BY DEF Deletions
  <1>4. CachedFiles = {Deletions[i][2] : i \in 1 .. 5}
    BY DEF Deletions, CachedFiles
  <1> QED BY <1>2, <1>3, <1>4

\* Which command runs when.
InOrder(cs) ==
  /\ Len(cs) \in Nat /\ Len(cs) > 15
  /\ \A i \in 1 .. 4 : cs[i] = <<"tools", VIRTIO_CD_LETTERS[i]>>
                       /\ cs[4 + i] = <<"agent", VIRTIO_CD_LETTERS[i]>>
  /\ cs[9][1] = "autoLogonOff" /\ cs[10][1] = "wait"
  /\ \A i \in 1 .. 5 : cs[10 + i] = Deletions[i]
  /\ \A i \in 1 .. Len(cs) : i > 15 => cs[i][1] \in Sealing

\* The first-logon commands of any file stand in the order the proofs rely on.
LEMMA CommandFacts ==
  ASSUME NEW file
  PROVE  InOrder(firstLogonCommands(file))
  <1> DEFINE tools  == PerLetter("tools")
             agent  == PerLetter("agent")
             ends   == << <<"autoLogonOff", "">>, <<"wait", "">> >>
             client == ClientCommands(file)
             seal   == SealCommands(file)
             upTo8  == tools \o agent
             upTo10 == upTo8 \o ends
             upTo15 == upTo10 \o Deletions
             before == upTo15 \o client
             cs     == firstLogonCommands(file)
  <1>1. cs = before \o seal
    BY DEF firstLogonCommands, ClientCommands
  <1>2. /\ ends \in Seq(Pairs) /\ Len(ends) = 2
        /\ ends[1][1] = "autoLogonOff" /\ ends[2][1] = "wait"
    <2>1. <<"autoLogonOff", "">> \in Pairs /\ <<"wait", "">> \in Pairs
      BY DEF Pairs
    <2>2. ends \in Seq(Pairs)
      BY <2>1, ShortSeqs, Zenon
    <2>3. Len(ends) = 2 /\ ends[1][1] = "autoLogonOff" /\ ends[2][1] = "wait"
      OBVIOUS
    <2> QED BY <2>2, <2>3
  <1> HIDE DEF tools, agent, ends, client, seal, cs, before, upTo8, upTo10, upTo15
  <1>3. /\ tools \in Seq(Pairs) /\ Len(tools) = 4 /\ agent \in Seq(Pairs) /\ Len(agent) = 4
        /\ \A i \in 1 .. 4 : tools[i] = <<"tools", VIRTIO_CD_LETTERS[i]>>
                             /\ agent[i] = <<"agent", VIRTIO_CD_LETTERS[i]>>
    BY PerLetterFacts DEF tools, agent
  <1>4. /\ upTo8 \in Seq(Pairs) /\ Len(upTo8) = 8
        /\ \A i \in 1 .. 4 : upTo8[i] = tools[i] /\ upTo8[4 + i] = agent[i]
    <2>1. tools \in Seq(Pairs) /\ agent \in Seq(Pairs)
      BY <1>3
    <2>2. Joined(Pairs, upTo8, tools, agent)
      BY <2>1, ConcatAt, Zenon DEF upTo8
    <2> QED BY <2>2, <1>3 DEF Joined
  <1>5. /\ upTo10 \in Seq(Pairs) /\ Len(upTo10) = 10
        /\ \A i \in 1 .. 8 : upTo10[i] = upTo8[i]
        /\ \A i \in 1 .. 2 : upTo10[8 + i] = ends[i]
    <2>1. upTo8 \in Seq(Pairs) /\ ends \in Seq(Pairs)
      BY <1>2, <1>4
    <2>2. Joined(Pairs, upTo10, upTo8, ends)
      BY <2>1, ConcatAt, Zenon DEF upTo10
    <2>3. Len(upTo8) = 8 /\ Len(ends) = 2
      BY <1>2, <1>4
    <2> QED BY <2>2, <2>3 DEF Joined
  <1>6. /\ upTo15 \in Seq(Pairs) /\ Len(upTo15) = 15
        /\ \A i \in 1 .. 10 : upTo15[i] = upTo10[i]
        /\ \A i \in 1 .. 5 : upTo15[10 + i] = Deletions[i]
    <2>1. upTo10 \in Seq(Pairs) /\ Deletions \in Seq(Pairs)
      BY <1>5, DeletionFacts
    <2>2. Joined(Pairs, upTo15, upTo10, Deletions)
      BY <2>1, ConcatAt, Zenon DEF upTo15
    <2> QED BY <2>2, <1>5, DeletionFacts DEF Joined
  <1>7. /\ client \in Seq(Pairs) /\ Len(client) \in {0, 3}
        /\ \A i \in 1 .. Len(client) : client[i][1] \in Sealing
        /\ seal \in Seq(Pairs) /\ Len(seal) \in {1, 2}
        /\ \A i \in 1 .. Len(seal) : seal[i][1] \in Sealing
    BY ClientFacts, SealFacts DEF client, seal
  <1>8. /\ before \in Seq(Pairs) /\ Len(before) = 15 + Len(client)
        /\ \A i \in 1 .. 15 : before[i] = upTo15[i]
        /\ \A i \in 1 .. Len(client) : before[15 + i] = client[i]
    <2>1. upTo15 \in Seq(Pairs) /\ client \in Seq(Pairs)
      BY <1>6, <1>7
    <2>2. Joined(Pairs, before, upTo15, client)
      BY <2>1, ConcatAt, Zenon DEF before
    <2> QED BY <2>2, <1>6, <1>7 DEF Joined
  <1>9. /\ Len(cs) = Len(before) + Len(seal)
        /\ \A i \in 1 .. Len(before) : cs[i] = before[i]
        /\ \A i \in 1 .. Len(seal) : cs[Len(before) + i] = seal[i]
    <2>1. before \in Seq(Pairs) /\ seal \in Seq(Pairs)
      BY <1>7, <1>8
    <2>2. Joined(Pairs, cs, before, seal)
      BY <1>1, <2>1, ConcatAt, Zenon
    <2> QED BY <2>2 DEF Joined
  <1>10. \A i \in 1 .. 15 : cs[i] = upTo15[i]
    BY <1>7, <1>8, <1>9
  <1>11. \A i \in 1 .. 4 : cs[i] = tools[i] /\ cs[4 + i] = agent[i]
    BY <1>4, <1>5, <1>6, <1>10
  <1>12. cs[9] = ends[1] /\ cs[10] = ends[2]
    BY <1>5, <1>6, <1>10
  <1>13. \A i \in 1 .. 5 : cs[10 + i] = Deletions[i]
    BY <1>6, <1>10
  <1>14. ASSUME NEW i \in 1 .. Len(cs), i > 15
         PROVE  cs[i][1] \in Sealing
    <2>1. CASE i <= Len(before)
      <3>1. i - 15 \in 1 .. Len(client) /\ i = 15 + (i - 15) /\ i \in 1 .. Len(before)
        BY <1>7, <1>8, <1>9, <1>14, <2>1
      <3>2. cs[i] = client[i - 15]
        BY <1>8, <1>9, <3>1
      <3> QED BY <1>7, <3>1, <3>2
    <2>2. CASE i > Len(before)
      <3>1. i - Len(before) \in 1 .. Len(seal) /\ i = Len(before) + (i - Len(before))
        BY <1>7, <1>8, <1>9, <1>14, <2>2
      <3>2. cs[i] = seal[i - Len(before)]
        BY <1>9, <3>1
      <3> QED BY <1>7, <3>1, <3>2
    <2> QED BY <1>7, <1>8, <2>1, <2>2
  <1>15. Len(cs) \in Nat /\ Len(cs) > 15
    <2>1. Len(client) \in {0, 3} /\ Len(seal) \in {1, 2}
      BY <1>7
    <2>2. Len(cs) = 15 + Len(client) + Len(seal)
      BY <1>8, <1>9
    <2> HIDE DEF Sealing
    <2> QED BY <2>1, <2>2
  <1>16. \A i \in 1 .. 4 : cs[i] = <<"tools", VIRTIO_CD_LETTERS[i]>>
                           /\ cs[4 + i] = <<"agent", VIRTIO_CD_LETTERS[i]>>
    BY <1>3, <1>11
  <1>17. cs[9][1] = "autoLogonOff" /\ cs[10][1] = "wait"
    BY <1>2, <1>12
  <1>18. InOrder(cs)
    BY <1>13, <1>14, <1>15, <1>16, <1>17 DEF InOrder
  <1> QED BY <1>18 DEF cs

-----------------------------------------------------------------------------
(* The drivers.                                                            *)

\* A letter Windows gives the virtio CD is one the paths of a file cover.
LEMMA CdLetter ==
  ASSUME NEW letters \in Lettered
  PROVE  letters["virtio"] \in ToSet(VIRTIO_CD_LETTERS)
  <1>1. letters["virtio"] \in {"D", "E", "F", "G"}
    BY DEF Lettered, Cds, CdLetters
  <1>2. /\ DOMAIN VIRTIO_CD_LETTERS = 1 .. 4
        /\ VIRTIO_CD_LETTERS[1] = "D" /\ VIRTIO_CD_LETTERS[2] = "E"
        /\ VIRTIO_CD_LETTERS[3] = "F" /\ VIRTIO_CD_LETTERS[4] = "G"
    BY DEF VIRTIO_CD_LETTERS
  <1> QED BY <1>1, <1>2 DEF ToSet

\* The CD has one of the folders of a page's file.
LEMMA FolderOnCd ==
  ASSUME NEW file, PageFile(file)
  PROVE  \E folder \in ToSet(file.folders) : folder \in CdFolders
  <1>1. PICK id \in Names : file.folders = virtioFoldersForSku[Or(id, CUSTOM)]
    BY DEF PageFile, recommendedAutounattend
  <1> DEFINE sku == Or(id, CUSTOM)
             passing == {i \in DOMAIN FOLDER_RULES : Includes(sku, FOLDER_RULES[i][1])}
             none == <<{}, <<"w10">>>>
  <1>2. sku \in Names
    BY SkuAssumption DEF Or, CUSTOM
  <1>3. virtioFoldersForSku[sku] = (IF passing = {} THEN none ELSE FOLDER_RULES[Min(passing)])[2]
    BY <1>2 DEF virtioFoldersForSku, FirstIn
  <1>4. passing \subseteq Nat /\ passing \subseteq DOMAIN FOLDER_RULES
    BY DEF FOLDER_RULES
  <1>5. none[2] = <<"w10">> /\ "w10" \in ToSet(<<"w10">>)
    BY DEF ToSet
  <1> HIDE DEF passing, none, sku
  <1>6. CASE passing = {}
    <2>1. file.folders = <<"w10">>
      BY <1>1, <1>3, <1>5, <1>6 DEF sku
    <2> QED BY <1>5, <2>1, CdAssumption
  <1>7. CASE passing # {}
    <2>1. Min(passing) \in DOMAIN FOLDER_RULES
      BY <1>4, <1>7, MinIn
    <2>2. file.folders = FOLDER_RULES[Min(passing)][2]
      BY <1>1, <1>3, <1>7 DEF sku
    <2> QED BY <2>1, <2>2, CdAssumption
  <1> QED BY <1>6, <1>7

\* Where the builder adds no probe disk, WinPE finds viostor.
LEMMA WinPELoads ==
  ASSUME NEW file, PageFile(file), ~needsVirtioStorageProbe(file), NEW letters \in Lettered
  PROVE  Finds(WinPEDrivers(file), letters)
  <1>1. WinPEDrivers(file) = driverPaths(file)
    BY DEF needsVirtioStorageProbe, WinPEDrivers
  <1>2. PICK folder \in ToSet(file.folders) : folder \in CdFolders
    BY FolderOnCd
  <1> DEFINE p == <<letters["virtio"], folder, "viostor">>
  <1>3. p \in driverPaths(file) /\ p[1] = letters["virtio"] /\ p[2] = folder /\ p[3] = "viostor"
    BY CdLetter DEF driverPaths
  <1> HIDE DEF p
  <1> QED BY <1>1, <1>2, <1>3 DEF Finds

\* Where it adds one, WinPE finds none, and so cannot install on the wrong disk.
LEMMA WinPEFindsNone ==
  ASSUME NEW file, needsVirtioStorageProbe(file), NEW letters
  PROVE  ~Finds(WinPEDrivers(file), letters)
  BY DEF needsVirtioStorageProbe, Finds

\* The probe disk is there if it is needed.
LEMMA ProbeDisk ==
  ASSUME NEW file, vm.disks = installVMDisks(needsVirtioStorageProbe(file))
  PROVE  Has("probe") <=> needsVirtioStorageProbe(file)
  <1> DEFINE four == <<"rootdisk", "installiso", "virtio", "sysprep">>
             one  == <<"probe">>
             Disks == {"rootdisk", "installiso", "virtio", "sysprep", "probe"}
  <1>1. CASE needsVirtioStorageProbe(file)
    <2>1. vm.disks = four \o one
      BY <1>1 DEF installVMDisks
    <2>2. four \in Seq(Disks) /\ Len(four) = 4 /\ one \in Seq(Disks) /\ Len(one) = 1 /\ one[1] = "probe"
      OBVIOUS
    <2> HIDE DEF four, one, Disks
    <2>3. Joined(Disks, four \o one, four, one)
      BY <2>2, ConcatAt, Zenon
    <2>4. Len(vm.disks) = 5 /\ vm.disks[5] = "probe" /\ vm.disks \in Seq(Disks)
      BY <2>1, <2>2, <2>3 DEF Joined
    <2>5. "probe" \in ToSet(vm.disks)
      BY <2>4 DEF ToSet
    <2> QED BY <1>1, <2>5 DEF Has
  <1>2. CASE ~needsVirtioStorageProbe(file)
    <2>1. vm.disks = four
      BY <1>2 DEF installVMDisks
    <2>2. "probe" \notin ToSet(four)
      BY DEF ToSet
    <2> QED BY <1>2, <2>1, <2>2 DEF Has
  <1> QED BY <1>1, <1>2

-----------------------------------------------------------------------------
(* Setup.                                                                  *)

\* The machine that the builder creates.
LEMMA PowerOnInv ==
  ASSUME NEW file, PageFile(file), NEW media, NEW script, PowerOn(file, media, script)
  PROVE  MachineInv(vm')
  <1>1. /\ DOMAIN vm' = VmFields /\ vm'.at = "boot" /\ vm'.file = file /\ vm'.installed = ""
        /\ vm'.next = 1 /\ vm'.cached = {}
        /\ vm'.disks = installVMDisks(needsVirtioStorageProbe(file))
    BY DEF PowerOn, VmFields
  <1>2. MachineGood(vm')
    <2>1. PageFile(vm'.file) /\ vm'.disks = installVMDisks(needsVirtioStorageProbe(vm'.file))
      BY <1>1, Zenon
    <2>2. /\ DOMAIN vm' = VmFields /\ vm'.at = "boot" /\ vm'.installed = "" /\ vm'.next = 1
      BY <1>1
    <2>3. vm'.at \in {"boot", "picker", "logon", "desktop", "sealed", "updating"}
      BY <2>2, Zenon
    <2>4. vm'.installed \in {"", "rootdisk"}
      BY <2>2, Zenon
    <2>5. vm'.next \in Nat \ {0}
      <3>1. 1 \in Nat \ {0}
        OBVIOUS
      <3> QED BY <2>2, <3>1, Zenon
    <2>6. vm'.at = "boot" => vm'.next = 1
      BY <2>2
    <2>7. vm'.at \in {"boot", "picker"}
      BY <2>2, Zenon
    <2> QED BY <2>1, <2>2, <2>3, <2>4, <2>5, <2>6, <2>7, Zenon DEF MachineGood
  <1>3. DriverSure(vm')
    BY <1>1 DEF DriverSure
  <1>4. CommandsDone(vm')
    <2>1. vm'.cached \subseteq CachedFiles
      BY <1>1
    <2>2. /\ vm'.next = 1 /\ vm'.at = "boot"
      BY <1>1
    <2> QED BY <2>1, <2>2 DEF CommandsDone, AgentAfter, AutoLogonAt, WaitAt, DeletesAfter
  <1> QED BY <1>2, <1>3, <1>4 DEF MachineInv

\* WinPE installs on the root disk, with viostor wherever there is no probe disk.
LEMMA WinPEInv ==
  ASSUME MachineInv(vm), WinPE
  PROVE  MachineInv(vm')
  <1>1. MachineGood(vm) /\ DriverSure(vm) /\ CommandsDone(vm) /\ vm.at = "boot" /\ vm.next = 1
    BY DEF MachineInv, MachineGood, WinPE
  <1>2. PICK letters \in Lettered :
          LET loads == Finds(WinPEDrivers(vm.file), letters) IN
          \/ vm' = [vm EXCEPT !.at = "picker"]
          \/ \E disk \in {"rootdisk"} \cup (IF loads /\ Has("probe") THEN {"probe"} ELSE {}) :
               vm' = [vm EXCEPT !.installed = disk, !.cached = CachedFiles,
                        !.viostor = IF loads THEN "boot" ELSE "none"]
    BY DEF WinPE
  <1> DEFINE loads == Finds(WinPEDrivers(vm.file), letters)
  <1>3. ~(loads /\ Has("probe")) /\ (needsVirtioStorageProbe(vm.file) \/ loads)
    BY <1>1, ProbeDisk, WinPELoads, WinPEFindsNone DEF MachineGood
  <1>4. CASE vm' = [vm EXCEPT !.at = "picker"]
    <2>1. /\ DOMAIN vm' = VmFields /\ vm'.at = "picker" /\ vm'.file = vm.file /\ vm'.next = 1
          /\ vm'.installed = vm.installed /\ vm'.disks = vm.disks /\ vm'.cached = vm.cached
          /\ vm'.viostor = vm.viostor
      BY <1>1, <1>4 DEF MachineGood, VmFields
    <2>2. MachineGood(vm') /\ DriverSure(vm')
      BY <1>1, <2>1 DEF MachineGood, DriverSure
    <2>3. CommandsDone(vm')
      BY <1>1, <2>1 DEF CommandsDone, AgentAfter, AutoLogonAt, WaitAt, DeletesAfter
    <2> QED BY <2>2, <2>3 DEF MachineInv
  <1>5. CASE vm' = [vm EXCEPT !.installed = "rootdisk", !.cached = CachedFiles,
                      !.viostor = IF loads THEN "boot" ELSE "none"]
    <2> HIDE DEF loads
    <2>1. /\ DOMAIN vm' = VmFields /\ vm'.at = "boot" /\ vm'.file = vm.file /\ vm'.next = 1
          /\ vm'.installed = "rootdisk" /\ vm'.disks = vm.disks /\ vm'.cached = CachedFiles
          /\ loads => vm'.viostor = "boot"
      BY <1>1, <1>5 DEF MachineGood, VmFields
    <2>2. MachineGood(vm') /\ DriverSure(vm')
      BY <1>1, <1>3, <2>1 DEF MachineGood, DriverSure
    <2>3. CommandsDone(vm')
      BY <2>1 DEF CommandsDone, AgentAfter, AutoLogonAt, WaitAt, DeletesAfter
    <2> QED BY <2>2, <2>3 DEF MachineInv
  <1> QED BY <1>2, <1>3, <1>4, <1>5

\* The installed Windows boots, with letters for its CDs.
LEMMA FirstBootInv ==
  ASSUME MachineInv(vm), FirstBoot
  PROVE  MachineInv(vm')
  <1>1. MachineGood(vm) /\ DriverSure(vm) /\ CommandsDone(vm) /\ vm.at = "boot" /\ vm.next = 1
    BY DEF MachineInv, MachineGood, FirstBoot
  <1>2. vm.installed = "rootdisk"
    BY DEF FirstBoot, Boots, Bootable
  <1>3. PICK letters \in Lettered :
          vm' = [vm EXCEPT !.at = "logon", !.letters = letters,
                   !.viostor = IF @ = "none" /\ Finds(driverPaths(vm.file), letters) THEN "staged" ELSE @]
    BY DEF FirstBoot
  <1> DEFINE staged == Finds(driverPaths(vm.file), letters)
  <1> HIDE DEF staged
  <1>4. vm' = [vm EXCEPT !.at = "logon", !.letters = letters,
                 !.viostor = IF vm.viostor = "none" /\ staged THEN "staged" ELSE vm.viostor]
    BY <1>3 DEF staged
  <1>5. /\ DOMAIN vm' = VmFields /\ vm'.at = "logon" /\ vm'.file = vm.file /\ vm'.next = 1
        /\ vm'.installed = "rootdisk" /\ vm'.disks = vm.disks /\ vm'.cached = vm.cached
        /\ vm'.letters = letters /\ (vm.viostor = "boot" => vm'.viostor = "boot")
    BY <1>1, <1>2, <1>4 DEF MachineGood, VmFields
  <1>6. MachineGood(vm') /\ DriverSure(vm')
    BY <1>1, <1>2, <1>5, CdLetter DEF MachineGood, DriverSure
  <1>7. CommandsDone(vm')
    BY <1>1, <1>5 DEF CommandsDone, AgentAfter, AutoLogonAt, WaitAt, DeletesAfter
  <1> QED BY <1>6, <1>7 DEF MachineInv

-----------------------------------------------------------------------------
(* The first-logon commands, one at a time.  v is the machine with the     *)
(* next command counted.                                                   *)

\* A step that leaves what the machine is made of.
SameMachine(v) ==
  /\ DOMAIN v = VmFields /\ v.file = vm.file /\ v.disks = vm.disks /\ v.letters = vm.letters
  /\ v.installed = vm.installed

\* A logged-on machine, and the one after its next command.
Counted == [vm EXCEPT !.next = @ + 1]

\* Counting a command changes the machine in nothing else.
LEMMA CountedFacts ==
  ASSUME MachineInv(vm), vm.at = "logon"
  PROVE  /\ SameMachine(Counted) /\ Counted.next = vm.next + 1 /\ Counted.at = "logon"
         /\ Counted.viostor = vm.viostor /\ Counted.tools = vm.tools /\ Counted.agent = vm.agent
         /\ Counted.autoLogon = vm.autoLogon /\ Counted.cached = vm.cached
  <1>1. DOMAIN vm = VmFields
    BY DEF MachineInv, MachineGood
  <1> QED BY <1>1 DEF Counted, SameMachine, VmFields

\* A machine that is logged on and stays what it is, or is done, is good.
LEMMA StaysGood ==
  ASSUME MachineInv(vm), vm.at = "logon", NEW v, SameMachine(v), v.next \in {vm.next, vm.next + 1},
         v.at \in {"logon", "desktop", "sealed", "updating"}, vm.viostor = "boot" => v.viostor = "boot"
  PROVE  MachineGood(v) /\ DriverSure(v)
  <1>1. MachineGood(vm) /\ DriverSure(vm)
    BY DEF MachineInv
  <1>2. vm.next \in Nat \ {0} /\ v.next \in Nat \ {0}
    <2>1. vm.next \in Nat \ {0}
      BY <1>1, Zenon DEF MachineGood
    <2> QED BY <2>1
  <1>3. PageFile(v.file) /\ v.disks = installVMDisks(needsVirtioStorageProbe(v.file))
    BY <1>1, Zenon DEF MachineGood, SameMachine
  <1>4. MachineGood(v)
    BY <1>1, <1>2, <1>3 DEF MachineGood, SameMachine
  <1>5. DriverSure(v)
    BY <1>1, Zenon DEF DriverSure, SameMachine
  <1> QED BY <1>4, <1>5

\* The tools from one letter.
LEMMA ToolsInv ==
  ASSUME MachineInv(vm), vm.at = "logon", vm.next \in 1 .. 4,
         vm' = Effect(<<"tools", VIRTIO_CD_LETTERS[vm.next]>>, Counted)
  PROVE  MachineInv(vm')
  <1>1. /\ SameMachine(Counted) /\ Counted.next = vm.next + 1 /\ Counted.at = "logon"
        /\ Counted.viostor = vm.viostor /\ Counted.tools = vm.tools /\ Counted.agent = vm.agent
        /\ Counted.autoLogon = vm.autoLogon /\ Counted.cached = vm.cached
    BY CountedFacts
  <1>2. MachineGood(vm) /\ DriverSure(vm) /\ CommandsDone(vm)
    BY DEF MachineInv
  <1>3. vm.installed = "rootdisk" /\ (Has("probe") <=> needsVirtioStorageProbe(vm.file))
    BY <1>2, ProbeDisk DEF MachineGood
  <1>4. vm' = IF Counted.letters["virtio"] = VIRTIO_CD_LETTERS[vm.next]
              THEN ToolsInstalled(Counted) ELSE Counted
    BY DEF Effect
  <1> HIDE DEF Counted
  <1>5. /\ SameMachine(vm') /\ vm'.next = vm.next + 1 /\ vm'.at = "logon" /\ vm'.agent = vm.agent
        /\ vm'.autoLogon = vm.autoLogon /\ vm'.cached = vm.cached
        /\ vm'.tools = vm.tools \/ vm'.tools = TRUE
        /\ vm.viostor = "boot" => vm'.viostor = "boot"
        /\ vm.letters["virtio"] = VIRTIO_CD_LETTERS[vm.next] => vm'.tools /\ vm'.viostor = "boot"
    <2>1. CASE Counted.letters["virtio"] = VIRTIO_CD_LETTERS[vm.next]
      <3>1. vm' = [Counted EXCEPT !.tools = TRUE,
                     !.viostor = IF Has("probe") THEN "boot"
                                 ELSE IF @ = "none" THEN "staged" ELSE @]
        BY <1>4, <2>1 DEF ToolsInstalled
      <3>2. Has("probe") \/ Counted.viostor = "boot"
        BY <1>1, <1>2, <1>3 DEF DriverSure
      <3>3. vm' = [Counted EXCEPT !.tools = TRUE, !.viostor = "boot"]
        BY <3>1, <3>2
      <3>4. SameMachine(vm') /\ vm'.next = Counted.next /\ vm'.at = Counted.at
            /\ vm'.agent = Counted.agent /\ vm'.autoLogon = Counted.autoLogon
            /\ vm'.cached = Counted.cached /\ vm'.tools = TRUE /\ vm'.viostor = "boot"
        BY <1>1, <3>3 DEF SameMachine, VmFields
      <3> QED BY <1>1, <3>4
    <2>2. CASE Counted.letters["virtio"] # VIRTIO_CD_LETTERS[vm.next]
      BY <1>1, <1>4, <2>2 DEF SameMachine
    <2> QED BY <2>1, <2>2
  <1>6. MachineGood(vm') /\ DriverSure(vm')
    BY <1>5, StaysGood
  <1>7. CommandsDone(vm')
    <2>1. vm'.letters = vm.letters
      BY <1>5 DEF SameMachine
    <2>2. ASSUME NEW i \in 1 .. 4, vm.letters["virtio"] = VIRTIO_CD_LETTERS[i], vm'.next > i
          PROVE  vm'.tools /\ vm'.viostor = "boot"
      <3>1. i = vm.next \/ vm.next > i
        BY <1>5, <2>2
      <3>2. vm.next > i => vm.tools /\ vm.viostor = "boot"
        BY <1>2, <2>2 DEF CommandsDone
      <3> QED BY <1>5, <2>2, <3>1, <3>2
    <2>3. vm'.next <= 5 /\ vm'.next \in Nat
      BY <1>5
    <2> QED BY <1>2, <1>5, <2>1, <2>2, <2>3
            DEF CommandsDone, AgentAfter, AutoLogonAt, WaitAt, DeletesAfter
  <1> QED BY <1>6, <1>7 DEF MachineInv

\* What the other commands keep: the tools and the driver, and what is done.
OthersKeep(v) ==
  /\ SameMachine(v) /\ v.next = vm.next + 1 /\ v.tools = vm.tools /\ v.viostor = vm.viostor

\* Past the four letters of the tools, they are in.
LEMMA ToolsStay ==
  ASSUME MachineInv(vm), vm.next > 4, vm.next \in Nat, NEW v, OthersKeep(v),
         NEW i \in 1 .. 4, v.letters["virtio"] = VIRTIO_CD_LETTERS[i]
  PROVE  v.tools /\ v.viostor = "boot"
  <1>1. vm.next > i /\ vm.letters["virtio"] = VIRTIO_CD_LETTERS[i]
    BY DEF OthersKeep, SameMachine
  <1>2. vm.tools /\ vm.viostor = "boot"
    BY <1>1 DEF MachineInv, CommandsDone
  <1> QED BY <1>2 DEF OthersKeep

\* The agent from one letter.
LEMMA AgentInv ==
  ASSUME MachineInv(vm), vm.at = "logon", vm.next \in 5 .. 8,
         vm' = Effect(<<"agent", VIRTIO_CD_LETTERS[vm.next - 4]>>, Counted)
  PROVE  MachineInv(vm')
  <1>1. /\ SameMachine(Counted) /\ Counted.next = vm.next + 1 /\ Counted.at = "logon"
        /\ Counted.viostor = vm.viostor /\ Counted.tools = vm.tools /\ Counted.agent = vm.agent
        /\ Counted.autoLogon = vm.autoLogon /\ Counted.cached = vm.cached
    BY CountedFacts
  <1>2. CommandsDone(vm)
    BY DEF MachineInv
  <1>3. vm' = IF Counted.letters["virtio"] = VIRTIO_CD_LETTERS[vm.next - 4]
              THEN [Counted EXCEPT !.agent = "installed"] ELSE Counted
    BY DEF Effect
  <1> HIDE DEF Counted
  <1>4. /\ SameMachine(vm') /\ vm'.next = vm.next + 1 /\ vm'.at = "logon"
        /\ vm'.tools = vm.tools /\ vm'.viostor = vm.viostor
        /\ vm'.autoLogon = vm.autoLogon /\ vm'.cached = vm.cached
        /\ vm'.agent \in {vm.agent, "installed"}
        /\ vm.letters["virtio"] = VIRTIO_CD_LETTERS[vm.next - 4] => vm'.agent = "installed"
    BY <1>1, <1>3 DEF SameMachine, VmFields
  <1>5. MachineGood(vm') /\ DriverSure(vm')
    BY <1>4, StaysGood
  <1>6. CommandsDone(vm')
    <2>1. vm'.letters = vm.letters /\ OthersKeep(vm')
      BY <1>4 DEF SameMachine, OthersKeep
    <2>2. ASSUME NEW i \in 1 .. 4, vm.letters["virtio"] = VIRTIO_CD_LETTERS[i], vm'.next > 4 + i
          PROVE  vm'.agent \in {"installed", "connected"}
      <3>1. i = vm.next - 4 \/ vm.next > 4 + i
        BY <1>4, <2>2
      <3>2. vm.next > 4 + i => vm.agent \in {"installed", "connected"}
        BY <1>2, <2>2 DEF CommandsDone, AgentAfter
      <3> QED BY <1>4, <2>2, <3>1, <3>2
    <2>3. vm'.next <= 9 /\ vm'.next \in Nat /\ vm.next > 4 /\ vm.next \in Nat
      BY <1>4
    <2>4. \A i \in 1 .. 4 : vm'.letters["virtio"] = VIRTIO_CD_LETTERS[i] =>
            vm'.tools /\ vm'.viostor = "boot"
      BY <2>1, <2>3, ToolsStay
    <2> QED BY <1>2, <1>4, <2>1, <2>2, <2>3, <2>4
            DEF CommandsDone, AgentAfter, AutoLogonAt, WaitAt, DeletesAfter
  <1> QED BY <1>5, <1>6 DEF MachineInv

\* The registry keys that end the automatic logon.
LEMMA AutoLogonInv ==
  ASSUME MachineInv(vm), vm.at = "logon", vm.next \in 9 .. 9,
         NEW c, c[1] = "autoLogonOff", vm' = Effect(c, Counted)
  PROVE  MachineInv(vm')
  <1>1. /\ SameMachine(Counted) /\ Counted.next = vm.next + 1 /\ Counted.at = "logon"
        /\ Counted.viostor = vm.viostor /\ Counted.tools = vm.tools /\ Counted.agent = vm.agent
        /\ Counted.autoLogon = vm.autoLogon /\ Counted.cached = vm.cached
    BY CountedFacts
  <1>2. CommandsDone(vm) /\ vm.next \in 9 .. 9
    BY DEF MachineInv
  <1>3. vm' = [Counted EXCEPT !.autoLogon = FALSE]
    BY DEF Effect
  <1> HIDE DEF Counted
  <1>4. /\ SameMachine(vm') /\ vm'.next = vm.next + 1 /\ vm'.at = "logon"
        /\ vm'.tools = vm.tools /\ vm'.viostor = vm.viostor /\ vm'.agent = vm.agent
        /\ ~vm'.autoLogon /\ vm'.cached = vm.cached
    BY <1>1, <1>3 DEF SameMachine, VmFields
  <1>5. MachineGood(vm') /\ DriverSure(vm')
    BY <1>4, StaysGood
  <1>6. CommandsDone(vm')
    <2>1. vm'.letters = vm.letters /\ OthersKeep(vm') /\ vm'.next \in 10 .. 10
      BY <1>2, <1>4 DEF SameMachine, OthersKeep
    <2>2. \A i \in 1 .. 4 : vm'.letters["virtio"] = VIRTIO_CD_LETTERS[i] =>
            vm'.tools /\ vm'.viostor = "boot"
      BY <1>2, <2>1, ToolsStay
    <2>3. \A i \in 1 .. 4 : vm.letters["virtio"] = VIRTIO_CD_LETTERS[i] =>
            vm.agent \in {"installed", "connected"}
      BY <1>2 DEF CommandsDone, AgentAfter
    <2> QED BY <1>2, <1>4, <2>1, <2>2, <2>3
            DEF CommandsDone, AgentAfter, AutoLogonAt, WaitAt, DeletesAfter
  <1> QED BY <1>5, <1>6 DEF MachineInv

\* The wait for the agent, which by then is installed.
LEMMA WaitInv ==
  ASSUME MachineInv(vm), vm.at = "logon", vm.next \in 10 .. 10,
         NEW c, c[1] = "wait", vm' = Effect(c, Counted)
  PROVE  MachineInv(vm')
  <1>1. /\ SameMachine(Counted) /\ Counted.next = vm.next + 1 /\ Counted.at = "logon"
        /\ Counted.viostor = vm.viostor /\ Counted.tools = vm.tools /\ Counted.agent = vm.agent
        /\ Counted.autoLogon = vm.autoLogon /\ Counted.cached = vm.cached
    BY CountedFacts
  <1>2. MachineGood(vm) /\ CommandsDone(vm) /\ vm.next \in 10 .. 10
    BY DEF MachineInv
  <1>3. vm' = [Counted EXCEPT !.agent = IF @ = "installed" THEN "connected" ELSE @]
    BY DEF Effect
  <1>4. PICK i \in 1 .. 4 : vm.letters["virtio"] = VIRTIO_CD_LETTERS[i]
    <2>1. vm.letters["virtio"] \in ToSet(VIRTIO_CD_LETTERS)
      BY <1>2 DEF MachineGood
    <2>2. \A l \in ToSet(VIRTIO_CD_LETTERS) : \E i \in 1 .. 4 : l = VIRTIO_CD_LETTERS[i]
      <3>1. DOMAIN VIRTIO_CD_LETTERS = 1 .. 4
        BY DEF VIRTIO_CD_LETTERS
      <3> QED BY <3>1 DEF ToSet
    <2> QED BY <2>1, <2>2
  <1>5. vm.agent \in {"installed", "connected"}
    BY <1>2, <1>4 DEF CommandsDone, AgentAfter
  <1> HIDE DEF Counted
  <1>6. /\ SameMachine(vm') /\ vm'.next = vm.next + 1 /\ vm'.at = "logon"
        /\ vm'.tools = vm.tools /\ vm'.viostor = vm.viostor /\ vm'.agent = "connected"
        /\ vm'.autoLogon = vm.autoLogon /\ vm'.cached = vm.cached
    BY <1>1, <1>3, <1>5 DEF SameMachine, VmFields
  <1>7. MachineGood(vm') /\ DriverSure(vm')
    BY <1>6, StaysGood
  <1>8. CommandsDone(vm')
    <2>1. vm'.letters = vm.letters /\ OthersKeep(vm') /\ vm'.next \in 11 .. 11
      BY <1>2, <1>6 DEF SameMachine, OthersKeep
    <2>2. \A j \in 1 .. 4 : vm'.letters["virtio"] = VIRTIO_CD_LETTERS[j] =>
            vm'.tools /\ vm'.viostor = "boot"
      BY <1>2, <2>1, ToolsStay
    <2> QED BY <1>2, <1>6, <2>1, <2>2
            DEF CommandsDone, AgentAfter, AutoLogonAt, WaitAt, DeletesAfter
  <1> QED BY <1>7, <1>8 DEF MachineInv

\* One of the deletions.
LEMMA DeleteInv ==
  ASSUME MachineInv(vm), vm.at = "logon", NEW n \in 1 .. 5, vm.next = DeletesAfter + n,
         vm' = Effect(Deletions[n], Counted)
  PROVE  MachineInv(vm')
  <1>1. /\ SameMachine(Counted) /\ Counted.next = vm.next + 1 /\ Counted.at = "logon"
        /\ Counted.viostor = vm.viostor /\ Counted.tools = vm.tools /\ Counted.agent = vm.agent
        /\ Counted.autoLogon = vm.autoLogon /\ Counted.cached = vm.cached
    BY CountedFacts
  <1>2. CommandsDone(vm) /\ vm.next = 10 + n /\ vm.next \in Nat
    BY DEF MachineInv, DeletesAfter
  <1> DEFINE file == Deletions[n][2]
  <1>3. vm' = [Counted EXCEPT !.cached = @ \ {file}]
    BY DeletionFacts DEF Effect
  <1> HIDE DEF Counted, file
  <1>4. /\ SameMachine(vm') /\ vm'.next = vm.next + 1 /\ vm'.at = "logon"
        /\ vm'.tools = vm.tools /\ vm'.viostor = vm.viostor /\ vm'.agent = vm.agent
        /\ vm'.autoLogon = vm.autoLogon /\ vm'.cached = vm.cached \ {file}
    BY <1>1, <1>3 DEF SameMachine, VmFields
  <1>5. MachineGood(vm') /\ DriverSure(vm')
    BY <1>4, StaysGood
  <1>6. CommandsDone(vm')
    <2>1. vm'.letters = vm.letters /\ OthersKeep(vm') /\ vm'.next = 11 + n
      BY <1>2, <1>4 DEF SameMachine, OthersKeep
    <2>2. \A i \in 1 .. 4 : vm'.letters["virtio"] = VIRTIO_CD_LETTERS[i] =>
            vm'.tools /\ vm'.viostor = "boot"
      BY <1>2, <2>1, ToolsStay
    <2>3. ASSUME NEW i \in 1 .. 5, vm'.next > 10 + i
          PROVE  Deletions[i][2] \notin vm'.cached
      <3>1. i = n \/ vm.next > 10 + i
        BY <1>2, <2>1, <2>3
      <3>2. vm.next > 10 + i => Deletions[i][2] \notin vm.cached
        BY <1>2 DEF CommandsDone, DeletesAfter
      <3> QED BY <1>4, <3>1, <3>2 DEF file
    <2>4. vm.agent = "connected" /\ ~vm.autoLogon
      BY <1>2 DEF CommandsDone, WaitAt, AutoLogonAt
    <2>5. vm'.cached \subseteq CachedFiles
      BY <1>2, <1>4 DEF CommandsDone
    <2> QED BY <1>4, <2>1, <2>2, <2>3, <2>4, <2>5
            DEF CommandsDone, AgentAfter, AutoLogonAt, WaitAt, DeletesAfter
  <1> QED BY <1>5, <1>6 DEF MachineInv

\* What sysprep leaves of a machine.
LEMMA SysprepKeeps ==
  ASSUME NEW v, DOMAIN v = VmFields
  PROVE  /\ DOMAIN Sysprepped(v) = VmFields /\ Sysprepped(v).at \in {v.at, "sealed"}
         /\ \A x \in VmFields \ {"at"} : Sysprepped(v)[x] = v[x]
  <1>1. Sysprepped(v) = [v EXCEPT !.at = "sealed"] \/ Sysprepped(v) = v
    BY DEF Sysprepped
  <1> QED BY <1>1 DEF VmFields

\* What the commands after the preparations leave of it.
LEMMA SealKeeps ==
  ASSUME NEW v, DOMAIN v = VmFields, NEW c, c[1] \in Sealing
  PROVE  /\ DOMAIN Effect(c, v) = VmFields /\ Effect(c, v).at \in {v.at, "sealed", "updating"}
         /\ \A x \in VmFields \ {"at", "blockers", "skipAppx", "started"} : Effect(c, v)[x] = v[x]
  <1> DEFINE w == Effect(c, v)
  <1>1. CASE c[1] = "removeAppx"
    <2>1. w = [v EXCEPT !.blockers = v.blockers \ {c[2]}]
      BY <1>1 DEF Effect
    <2> HIDE DEF w
    <2>2. DOMAIN w = VmFields /\ w.at = v.at /\ \A x \in VmFields \ {"blockers"} : w[x] = v[x]
      BY <2>1 DEF VmFields
    <2> QED BY <2>2 DEF w
  <1>2. CASE c[1] = "skipAppx"
    <2>1. w = [v EXCEPT !.skipAppx = TRUE]
      BY <1>2 DEF Effect
    <2> HIDE DEF w
    <2>2. DOMAIN w = VmFields /\ w.at = v.at /\ \A x \in VmFields \ {"skipAppx"} : w[x] = v[x]
      BY <2>1 DEF VmFields
    <2> QED BY <2>2 DEF w
  <1>3. CASE c[1] = "update"
    <2>1. w = [v EXCEPT !.at = "updating", !.started = TRUE] \/ w = v
      BY <1>3 DEF Effect
    <2> HIDE DEF w
    <2>2. DOMAIN w = VmFields /\ w.at \in {v.at, "updating"}
          /\ \A x \in VmFields \ {"at", "started"} : w[x] = v[x]
      BY <2>1 DEF VmFields
    <2> QED BY <2>2 DEF w
  <1>4. CASE c[1] \in {"sysprepIfNotStarted", "sysprep"}
    <2>1. w = Sysprepped(v) \/ w = v
      BY <1>4 DEF Effect
    <2> HIDE DEF w
    <2>2. DOMAIN w = VmFields /\ w.at \in {v.at, "sealed"} /\ \A x \in VmFields \ {"at"} : w[x] = v[x]
      BY <2>1, SysprepKeeps
    <2> QED BY <2>2 DEF w
  <1> QED BY <1>1, <1>2, <1>3, <1>4 DEF Sealing

\* A machine whose preparations are done stays prepared.
LEMMA PreparedStays ==
  ASSUME MachineInv(vm), vm.at = "logon", vm.next \in Nat, NEW v, SameMachine(v),
         v.next \in {vm.next, vm.next + 1},
         v.tools = vm.tools, v.viostor = vm.viostor, v.agent = vm.agent,
         v.autoLogon = vm.autoLogon, v.cached = vm.cached,
         \/ vm.next > 15 /\ v.at \in {"logon", "desktop", "sealed", "updating"}
         \/ v.next = vm.next /\ v.at = "desktop"
  PROVE  MachineInv(v)
  <1>1. MachineGood(v) /\ DriverSure(v)
    BY StaysGood
  <1>2. CommandsDone(vm) /\ v.letters = vm.letters
    BY DEF MachineInv, SameMachine
  <1>3. CASE vm.next > 15
    <2>1. v.next > 15 /\ v.next \in Nat
      BY <1>3
    <2>2. \A i \in 1 .. 4 : v.letters["virtio"] = VIRTIO_CD_LETTERS[i] =>
            v.tools /\ v.viostor = "boot" /\ v.agent \in {"installed", "connected"}
      BY <1>2, <1>3 DEF CommandsDone, AgentAfter
    <2>3. ~v.autoLogon /\ v.agent = "connected" /\ v.cached \subseteq CachedFiles
          /\ \A i \in 1 .. 5 : Deletions[i][2] \notin v.cached
      BY <1>2, <1>3 DEF CommandsDone, AutoLogonAt, WaitAt, DeletesAfter
    <2>4. CommandsDone(v)
      BY <2>1, <2>2, <2>3 DEF CommandsDone, SealsAfter
    <2> QED BY <1>1, <2>4 DEF MachineInv
  <1>4. CASE v.next = vm.next /\ v.at = "desktop"
    <2>1. CommandsDone(v)
      BY <1>2, <1>4 DEF CommandsDone
    <2> QED BY <1>1, <2>1 DEF MachineInv
  <1> QED BY <1>3, <1>4

\* What may seal the guest comes after the preparations.
LEMMA SealInv ==
  ASSUME MachineInv(vm), vm.at = "logon", vm.next \in Nat, vm.next > 15, NEW c, c[1] \in Sealing,
         vm' = Effect(c, Counted)
  PROVE  MachineInv(vm')
  <1>1. /\ SameMachine(Counted) /\ Counted.next = vm.next + 1 /\ Counted.at = "logon"
        /\ Counted.viostor = vm.viostor /\ Counted.tools = vm.tools /\ Counted.agent = vm.agent
        /\ Counted.autoLogon = vm.autoLogon /\ Counted.cached = vm.cached
    BY CountedFacts
  <1> HIDE DEF Counted
  <1>2. /\ DOMAIN vm' = VmFields /\ vm'.at \in {"logon", "sealed", "updating"}
        /\ \A x \in VmFields \ {"at", "blockers", "skipAppx", "started"} : vm'[x] = Counted[x]
    BY <1>1, SealKeeps DEF SameMachine
  <1>3. /\ SameMachine(vm') /\ vm'.next = vm.next + 1
        /\ vm'.tools = vm.tools /\ vm'.viostor = vm.viostor /\ vm'.agent = vm.agent
        /\ vm'.autoLogon = vm.autoLogon /\ vm'.cached = vm.cached
    BY <1>1, <1>2 DEF SameMachine, VmFields
  <1> QED BY <1>2, <1>3, PreparedStays

\* The first-logon commands in their order.
LEMMA CommandInv ==
  ASSUME MachineInv(vm), Command
  PROVE  MachineInv(vm')
  <1> DEFINE cs == firstLogonCommands(vm.file)
             n  == vm.next
  <1>1. vm.at = "logon" /\ n \in Nat /\ n > 0 /\ DOMAIN vm = VmFields
    <2>1. vm.next \in Nat \ {0} /\ DOMAIN vm = VmFields
      BY Zenon DEF MachineInv, MachineGood
    <2>2. vm.at = "logon"
      BY DEF Command
    <2> QED BY <2>1, <2>2
  <1>2. InOrder(cs)
    BY CommandFacts, Zenon
  <1>3. IF n > Len(cs) THEN vm' = [vm EXCEPT !.at = "desktop"] ELSE vm' = Effect(cs[n], Counted)
    BY DEF Command, Counted
  <1> HIDE DEF cs
  <1>4. CASE n > Len(cs)
    <2>1. vm' = [vm EXCEPT !.at = "desktop"]
      BY <1>3, <1>4
    <2>2. /\ SameMachine(vm') /\ vm'.next = vm.next /\ vm'.at = "desktop"
          /\ vm'.tools = vm.tools /\ vm'.viostor = vm.viostor /\ vm'.agent = vm.agent
          /\ vm'.autoLogon = vm.autoLogon /\ vm'.cached = vm.cached
      BY <1>1, <2>1 DEF SameMachine, VmFields
    <2> QED BY <1>1, <2>2, PreparedStays
  <1>5. CASE n <= Len(cs)
    <2>1. vm' = Effect(cs[n], Counted)
      BY <1>1, <1>2, <1>3, <1>5 DEF InOrder
    <2>2. CASE n \in 1 .. 4
      <3>1. cs[n] = <<"tools", VIRTIO_CD_LETTERS[n]>>
        BY <1>2, <2>2 DEF InOrder
      <3> QED BY <1>1, <2>1, <2>2, <3>1, ToolsInv
    <2>3. CASE n \in 5 .. 8
      <3>1. n - 4 \in 1 .. 4 /\ 4 + (n - 4) = n
        BY <2>3
      <3>2. cs[n] = <<"agent", VIRTIO_CD_LETTERS[n - 4]>>
        BY <1>2, <3>1 DEF InOrder
      <3> QED BY <1>1, <2>1, <2>3, <3>2, AgentInv
    <2>4. CASE n \in 9 .. 9
      <3>1. n = 9
        BY <2>4
      <3>2. cs[n][1] = "autoLogonOff"
        BY <1>2, <3>1 DEF InOrder
      <3> QED BY <1>1, <2>1, <2>4, <3>2, AutoLogonInv
    <2>5. CASE n \in 10 .. 10
      <3>1. n = 10
        BY <2>5
      <3>2. cs[n][1] = "wait"
        BY <1>2, <3>1 DEF InOrder
      <3> QED BY <1>1, <2>1, <2>5, <3>2, WaitInv
    <2>6. CASE n \in 11 .. 15
      <3>1. n - 10 \in 1 .. 5 /\ 10 + (n - 10) = n
        BY <2>6
      <3>2. cs[n] = Deletions[n - 10] /\ vm.next = DeletesAfter + (n - 10)
        BY <1>2, <3>1 DEF DeletesAfter, InOrder
      <3> QED BY <1>1, <2>1, <3>1, <3>2, DeleteInv
    <2>7. CASE n > 15
      <3>1. n \in 1 .. Len(cs)
        BY <1>1, <1>2, <1>5 DEF InOrder
      <3>2. cs[n][1] \in Sealing
        BY <1>2, <2>7, <3>1 DEF InOrder
      <3> QED BY <1>1, <2>1, <2>7, <3>2, SealInv
    <2>8. n \in 1 .. 4 \/ n \in 5 .. 8 \/ n \in 9 .. 9 \/ n \in 10 .. 10 \/ n \in 11 .. 15 \/ n > 15
      BY <1>1
    <2> QED BY <2>2, <2>3, <2>4, <2>5, <2>6, <2>7, <2>8
  <1> QED BY <1>1, <1>2, <1>4, <1>5 DEF InOrder

\* A step of Setup keeps the machine's invariant.
LEMMA SetupStepInv ==
  ASSUME MachineInv(vm), SetupStep
  PROVE  MachineInv(vm')
  BY WinPEInv, FirstBootInv, CommandInv DEF SetupStep

\* A machine that is done is one that can be cloned.
LEMMA MachineSeals ==
  ASSUME SetupInv
  PROVE  SealedIsGood
  <1> SUFFICES ASSUME Done
               PROVE  /\ vm.installed = "rootdisk" /\ vm.viostor = "boot"
                      /\ vm.tools /\ vm.agent = "connected" /\ ~vm.autoLogon /\ vm.cached = {}
    BY DEF SealedIsGood
  <1>1. vm.at \in {"sealed", "updating"} /\ MachineGood(vm) /\ CommandsDone(vm)
    BY DEF Done, SetupInv, MachineInv
  <1>2. vm.installed = "rootdisk" /\ vm.letters["virtio"] \in ToSet(VIRTIO_CD_LETTERS) /\ vm.next \in Nat
    BY <1>1 DEF MachineGood
  <1>3. vm.next > 15
    BY <1>1 DEF CommandsDone, SealsAfter
  <1>4. PICK i \in 1 .. 4 : vm.letters["virtio"] = VIRTIO_CD_LETTERS[i]
    <2>1. \A l \in ToSet(VIRTIO_CD_LETTERS) : \E i \in 1 .. 4 : l = VIRTIO_CD_LETTERS[i]
      <3>1. DOMAIN VIRTIO_CD_LETTERS = 1 .. 4
        BY DEF VIRTIO_CD_LETTERS
      <3> QED BY <3>1 DEF ToSet
    <2> QED BY <1>2, <2>1
  <1>5. vm.tools /\ vm.viostor = "boot"
    BY <1>1, <1>2, <1>3, <1>4 DEF CommandsDone
  <1>6. vm.agent = "connected" /\ ~vm.autoLogon
    BY <1>1, <1>2, <1>3 DEF CommandsDone, WaitAt, AutoLogonAt
  <1>7. vm.cached = {}
    <2>1. vm.cached \subseteq CachedFiles /\ \A j \in 1 .. 5 : Deletions[j][2] \notin vm.cached
      BY <1>1, <1>2, <1>3 DEF CommandsDone, DeletesAfter
    <2> QED BY <2>1, DeletionFacts
  <1> QED BY <1>2, <1>5, <1>6, <1>7

-----------------------------------------------------------------------------
(* The wizard and Setup.                                                   *)

\* The page that was left.
PageLeft ==
  form = NewForm /\ env = NewEnv(<<>>, "missing") /\ sent = NoRequest /\ typed = Untyped

\* The inductive invariant: the form's while there is no machine, and the
\* machine's afterwards.
RequestInv ==
  /\ vm = Off => FormInv
  /\ vm # Off => PageLeft
  /\ SetupInv

\* The invariant of the whole holds at the start: an empty form and no VM.
LEMMA RequestStarts ==
  ASSUME InitAll
  PROVE  RequestInv
  <1>1. vm = Off /\ FormInv
    BY FormStarts DEF InitAll
  <1>2. SetupInv
    BY <1>1 DEF SetupInv, Off
  <1> QED BY <1>1, <1>2 DEF RequestInv

\* The builder starts Setup with a file of the page, or with one by hand.
LEMMA AcceptedInv ==
  ASSUME RequestInv, vm = Off, Accepted
  PROVE  RequestInv'
  <1>1. SentGood /\ saving
    BY DEF RequestInv, FormInv, Accepted
  <1>2. sent.autounattend = Hand \/ PageFile(sent.autounattend)
    BY <1>1 DEF SentGood, Accepted, Acceptable
  <1>3. PageLeft'
    BY DEF PageLeft, Accepted
  <1>4. CASE sent.autounattend = Hand
    <2>1. vm' = [at |-> "byHand"]
      BY <1>4 DEF Accepted
    <2>2. vm'.at = "byHand" /\ vm' # Off
      BY <2>1 DEF Off
    <2> QED BY <1>3, <2>2 DEF RequestInv, SetupInv
  <1>5. CASE sent.autounattend # Hand
    <2>1. PICK script \in BOOLEAN : PowerOn(sent.autounattend, sent.media, script)
      BY <1>5 DEF Accepted
    <2>2. PageFile(sent.autounattend)
      BY <1>2, <1>5
    <2>3. MachineInv(vm')
      BY <2>1, <2>2, PowerOnInv
    <2>4. vm' # Off
      BY <2>1 DEF PowerOn, Off
    <2> QED BY <1>3, <2>3, <2>4 DEF RequestInv, SetupInv
  <1> QED BY <1>4, <1>5

\* Setup runs on; the page is gone.
LEMMA SetupInvStep ==
  ASSUME RequestInv, vm # Off, vm.at # "byHand", SetupStep, UNCHANGED vars
  PROVE  RequestInv'
  <1>1. vm.at # "off"
    BY DEF SetupStep, WinPE, FirstBoot, Command
  <1>2. MachineInv(vm)
    BY <1>1 DEF RequestInv, SetupInv
  <1>3. MachineInv(vm')
    BY <1>2, SetupStepInv
  <1>4. vm' # Off
    <2>1. vm'.at # "off"
      BY <1>3 DEF MachineInv, MachineGood
    <2> QED BY <2>1 DEF Off
  <1>5. PageLeft'
    BY DEF RequestInv, PageLeft, vars
  <1> QED BY <1>3, <1>4, <1>5 DEF RequestInv, SetupInv

\* Each step of the form, of the builder's acceptance and of Setup keeps the invariant.
LEMMA RequestStep ==
  ASSUME RequestInv, [NextAll]_allVars
  PROVE  RequestInv'
  <1>1. CASE vm = Off /\ FormNext /\ UNCHANGED vm
    <2>1. FormInv'
      BY <1>1, FormStep DEF RequestInv
    <2>2. SetupInv' /\ vm' = Off
      BY <1>1 DEF RequestInv, SetupInv
    <2> QED BY <2>1, <2>2 DEF RequestInv
  <1>2. CASE vm = Off /\ Accepted
    BY <1>2, AcceptedInv
  <1>3. CASE vm # Off /\ vm.at # "byHand" /\ SetupStep /\ UNCHANGED vars
    BY <1>3, SetupInvStep
  <1>4. CASE UNCHANGED allVars
    <2>1. UNCHANGED vm /\ UNCHANGED <<form, env, sent, typed>>
      BY <1>4 DEF allVars
    <2>2. FormInv => FormInv'
      BY <2>1 DEF FormInv, SentGood, SentFileFits, saving
    <2>3. PageLeft => PageLeft'
      BY <2>1 DEF PageLeft
    <2>4. SetupInv => SetupInv'
      BY <2>1 DEF SetupInv
    <2> QED BY <2>1, <2>2, <2>3, <2>4 DEF RequestInv
  <1> QED BY <1>1, <1>2, <1>3, <1>4 DEF NextAll

\* The invariant holds of the wizard and of Setup throughout.
THEOREM RequestInvariant == Spec => []RequestInv
  <1>1. InitAll => RequestInv
    BY RequestStarts
  <1>2. RequestInv /\ [NextAll]_allVars => RequestInv'
    BY RequestStep
  <1> QED BY <1>1, <1>2, PTL DEF Spec

\* A page that was left says nothing that is not so.
LEMMA LeftPage ==
  ASSUME PageLeft
  PROVE  TypeOK /\ SentFileFits /\ EnabledStartIsComplete
  <1>1. form = NewForm /\ env = NewEnv(<<>>, "missing") /\ ~saving /\ typed = Untyped
    BY DEF PageLeft, saving
  <1>2. FormType(form)
    BY <1>1, NewFormType
  <1>3. EnvType(env)
    BY <1>1, NewEnvFacts, ListAssumption
  <1>4. \A b \in {"isoTouched", "diskSizeTouched", "xmlTouched", "windowsUpdate", "virtioPrefill",
                  "scPrefill"} : form[b] \in BOOLEAN
    BY <1>2 DEF FormType
  <1>5. TypeOK
    BY <1>1, <1>2, <1>3, <1>4 DEF TypeOK, FormType, EnvType, ClassTexts
  <1>7. SentFileFits
    BY <1>1 DEF SentFileFits
  <1>8. form.focus # "build"
    BY <1>1 DEF NewForm
  <1>9. EnabledStartIsComplete
    BY <1>8, Zenon DEF EnabledStartIsComplete
  <1> QED BY <1>5, <1>7, <1>9

\* Whatever the lists and the person do, the form, what the page knows of the
\* cluster and the request keep their types, and a request names a valid disk and
\* an ISO.
THEOREM WizardTypes == Spec => []TypeOK
  <1>1. RequestInv => TypeOK
    BY FormTypes, LeftPage DEF RequestInv
  <1> QED BY <1>1, RequestInvariant, PTL

\* What the person gave a field stays in it until they take it back, whatever
\* lists and prefills come, but for a virtio image that was typed while the
\* question for the cluster's was open: the answer or a list replaces that one.
THEOREM WizardKeepsTyped == Spec => TypedValuesKept
  <1> DEFINE Kept ==
        \A g \in DOMAIN typed :
          typed'[g] # <<>> /\ (typed[g] = <<form[g]>> \/ typed'[g] # typed[g]) =>
            typed'[g] = <<form'[g]>> \/ Overtaken(g)
  <1>1. ASSUME RequestInv, [NextAll]_allVars
        PROVE  Kept
    <2>1. CASE vm = Off /\ FormNext /\ UNCHANGED vm
      BY <1>1, <2>1, FormKeepsTyped DEF RequestInv
    <2>2. CASE vm = Off /\ Accepted
      <3>1. FormInv /\ typed' = Untyped
        BY <1>1, <2>2 DEF RequestInv, Accepted
      <3>2. \A g \in DOMAIN typed : typed'[g] = <<>>
        BY <3>1, InvFacts DEF Untyped
      <3> QED BY <3>2
    <2>3. CASE UNCHANGED vars \/ UNCHANGED allVars
      <3>1. typed' = typed /\ form' = form
        BY <2>3 DEF vars, allVars
      <3> QED BY <3>1
    <2> QED BY <1>1, <2>1, <2>2, <2>3 DEF NextAll
  <1>2. RequestInv /\ [NextAll]_allVars => [Kept]_vars
    BY <1>1
  <1> QED BY <1>2, RequestInvariant, PTL DEF Spec, TypedValuesKept

\* A request's answer file, unless a hand wrote it, is the one for the disk it
\* names and for the type, edition and updates chosen when it was sent, and its
\* type is that of the ISO the form asked for.
THEOREM WizardSendsFit == Spec => []SentFileFits
  <1>1. RequestInv => SentFileFits
    BY FormSendsFit, LeftPage DEF RequestInv
  <1> QED BY <1>1, RequestInvariant, PTL

\* A Start that can be clicked is one the builder accepts.
THEOREM WizardStartsComplete == Spec => []EnabledStartIsComplete
  <1>1. RequestInv => EnabledStartIsComplete
    BY FormStartComplete, LeftPage DEF RequestInv
  <1> QED BY <1>1, RequestInvariant, PTL

\* A request that updates a Template names one of the list whose family id is the
\* request's disk.
THEOREM WizardNamesItsTemplate == Spec => TemplateOfFamily
  <1> DEFINE OwnTemplate ==
        \/ sent'.templateName = "" \/ sent'.customTemplate
        \/ \E i \in DOMAIN env.templates :
             LET t == env.templates[i] IN
             /\ templateRefOf(t) = <<sent'.templateNamespace, sent'.templateName>>
             /\ familyIdFromTemplate(t) = sent'.diskName
  <1>1. ASSUME RequestInv, [NextAll]_allVars, sent' # sent, sent' # NoRequest
        PROVE  OwnTemplate
    <2>1. CASE vm = Off /\ FormNext /\ UNCHANGED vm
      BY <1>1, <2>1, SentTemplate DEF RequestInv
    <2>2. ~Accepted
      BY <1>1 DEF Accepted
    <2>3. ~(UNCHANGED vars) /\ ~(UNCHANGED allVars)
      BY <1>1 DEF vars, allVars
    <2> QED BY <1>1, <2>1, <2>2, <2>3 DEF NextAll
  <1>2. RequestInv /\ [NextAll]_allVars => [(sent' # sent /\ sent' # NoRequest) => OwnTemplate]_vars
    BY <1>1
  <1> QED BY <1>2, RequestInvariant, PTL DEF Spec, TemplateOfFamily

\* Whatever letters the CDs get, whatever the edition and wherever Windows keeps
\* viostor from, a disk that is sealed can be cloned and started.
THEOREM SetupSealsGood == Spec => []SealedIsGood
  <1>1. RequestInv => SealedIsGood
    BY MachineSeals DEF RequestInv
  <1> QED BY <1>1, RequestInvariant, PTL
=============================================================================
