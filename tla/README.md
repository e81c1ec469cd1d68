# A TLA+ verification of the Windows image builder

The repository builds Windows golden images on OpenShift Virtualization: a console page
(`src/`) asks a builder service (`builder/`) to import a Windows ISO, patch it so that
it boots unattended, install Windows in a VM, let the guest update and seal itself with
sysprep, and publish the disk as a golden DataVolume. This directory holds TLA+ modules of that
system, TLC configurations that check them, and theorems proved with TLAPS. All paths below
without a prefix are relative to the repository's root.

Run in this directory: `tlc -workers 2 -config <X>.cfg <MCModule>.tla`, and `tlapm <Module>Proofs.tla`.

## 1. Inventory

| Component | State it keeps | Operations | Module |
|---|---|---|---|
| Build Manager (`builder/pipeline.go`, parts of `isomod.go`, `k8s.go`, `types.go`) | in memory, under one mutex: `builds`, `running`, `cancelled`, `finishing`; in the cluster: one ConfigMap per build, install VM, three DataVolumes, a patch Job | `Start`, `run`, `waitVMI`, `finishBuild`, `Cancel`, `set`/`persist`/`done`, `loadFromCluster`/`resume` | `BuildManager` |
| ISO patch (`builder/eltorito.go`, `udf.go`, `main.go --modify-iso`, Job from `isomod.go`) | the ISO's bytes: `efisys.bin`, the El Torito catalog | `patchISONoprompt` in a pod | `IsoPatch` |
| Guest updates (`builder/wb-update.ps1`, started by `src/utils/autounattend.ts`) | on the disk: pass file, seal file, startup task; on COM1: the last `wb-update:` line | update rounds, reboots, `Invoke-Seal`; the builder's verdict in `waitVMI` | `GuestUpdate` |
| Builder page, its builds (`src/components/WindowsBuilderPage.tsx`, `src/utils/builder-api.ts`) | React state: builds, confirmation, cancelling, saving | poll every 8 s, Cancel, Start | `BuilderPage` |
| Kubernetes client (`builder/k8s.go`) | none | GET/POST/DELETE, `waitPhaseUntil` | calls and waits in `BuildManager` |
| HTTP handlers, `main` | none | Start, Cancel, list, get, health | actions of `BuildManager` and `BuilderPage`; Start's checks in `ImageRequest` |
| Template and DataSource update (`pipeline.go:1325-1581`) | the DataSource of the disk, a Template that builds and others share | `ensureDataSource`, `ensureTemplate`: GET, then PUT or POST | `TemplateUpdate` |
| Wizard (same page, `src/components/EditionTiles.tsx`) | React state: the form's fields, their touched flags, steps; lists that the Console watches | five steps, prefill effects, `submit` | `WizardForm` |
| Edition profiles (`src/utils/windows-skus.ts`, parts of `k8s-resources.ts`) | none | families of Templates, sizes, hints, name tests | `SkuProfile` |
| Answer file (`src/utils/autounattend.ts`) | none | `recommendedAutounattend` | `AnswerFile` |
| Install VM manifest (`builder/pipeline.go:1158-1323`) | none | disks, boot order, storage probe | `WindowsSetup` |
| Presentation | - | rendering; which tiles can be clicked is in `WizardForm` | partly, there |
| Deployment | - | manifests; an update of the builder's Deployment (one replica, no strategy) runs two builders for a while | not modelled |
| Tooling, CI, locales | - | scripts | not modelled |

How they interact. The page calls the builder over HTTP through the console's proxy. `Start`
spawns one goroutine per build; `Cancel` runs in its HTTP request's goroutine. They share the
Manager's maps under `m.mu`, but everything done in the cluster happens outside the mutex, in
calls that may fail, and is seen only by polling. The patch Job and the guest answer through
their own state: the Job's counters, the VM instance's phase and agent condition, the serial
console. A build's record is written to a ConfigMap so that a restarted builder can resume.

What is hard there, and what must hold:

- **Build Manager.** Cancel's DELETEs interleave with the goroutine's creations; `Cancel` and
  `finishBuild` must exclude each other; a restart at any step must resume or settle the build;
  objects outlive their build and are found by the next one; `Ready` must mean a sealed disk of
  this very build; two goroutines must never drive one disk name; every wait must end; memory
  and ConfigMap must agree.
- **ISO patch.** Pods die halfway through a write, and pods of one Job or of two Jobs overlap on
  one ISO; a success must mean an ISO that boots without a key press, and the rest of the
  catalog must stay as it was.
- **Guest updates.** Windows reboots when it wants; limits on passes and sysprep runs must hold
  across reboots; the startup task must not end up in the image; the builder must learn the
  outcome, and the right one.
- **Template and DataSource.** Read-modify-write on objects with other writers, and two steps of
  which the second may fail: nobody's edit may be lost, and a Template that a build writes must boot
  the disk it stands for.
- **Page, builds.** Answers overtake each other or get lost; buttons must follow their calls; the
  list must end up right.
- **Page, wizard.** Effects refill fields whenever an edition, a list or an answer changes: what a
  person typed must stay, and what is sent must fit together (file, disk, medium, Template).
- **Answer file and install VM.** Windows picks CD letters and disk numbers by itself; the file and
  the disks of the VM must lead each of them to a sealed disk that boots.

`PROJECT.json` lists each hazard at its line with the properties that cover it, and says of the
uncovered ones why no property does.

## 2. The modules

| Module | Extends | Configurations | Theorems in |
|---|---|---|---|
| `BuildLifecycle` | - | (instanced by `BuildManager`) | `BuildManagerProofs` |
| `BuildManager` | - | `ManagerCancel`, `ManagerRestart`, `ManagerReady`, `CancelLeavesVm`, `CancelNotRecorded`, `DeletedVmAccepted` | `BuildManagerProofs`, and `RecordProofs`, which extends it |
| `GuestUpdate` | - | `GuestUpdate`, `GuestSlowShutdown` | `GuestUpdateProofs` |
| `IsoPatch` | - | `IsoPatch` | `IsoPatchProofs` |
| `TemplateUpdate` | - | `TemplateUpdate` | `TemplateUpdateProofs` |
| `BuilderPage` | - | `BuilderPage` | `BuilderPageProofs` |
| `SkuProfile`, `AnswerFile` | one the other | (used by the next three) | lemmas in `WizardFormProofs` |
| `WizardForm`, `WindowsSetup` | `AnswerFile` | (composed by `ImageRequest`) | `WizardFormProofs`, `ImageRequestProofs` |
| `ImageRequest` | `WizardForm`, `WindowsSetup` | `ImageRequest` | `ImageRequestProofs`, which extends `WizardFormProofs` |

### BuildManager

One disk name. Everything the Manager keeps is keyed by it, and no cluster object is shared
between two names. State and code:

| Variables | Code |
|---|---|
| `up, status, vmAt, running, cancelled, finishing` | the process, and the Manager's four maps at this name |
| `pc, wr, since, seen` | per goroutine: next step, a persist it still owes, `vmCreatedAfter`, `vmiWaitState` |
| `hpc, hwr` | per Cancel handler: next step, the record it persists |
| `cm` | ConfigMap `wb-build-<disk>` |
| `vm, vmi, iso, job, inst, golden` | install VM, its instance, ISO DataVolume, patch Job, install and golden DataVolumes |
| `halted` | history: the goroutines whose Cancel was accepted |

Goroutines are numbered in the order they start, and the number is the creation timestamp of
the VM and disks they create. A step lies between two Kubernetes calls or inside one `m.mu`
section. `run` is the sequence `RunBegins` ... `VmRecorded` in the order of the code; `WaitVMI`
is what one poll of `waitVMI` may see; `FinishBuild` follows `finishBuild`. `StepFails` is the
error return of a step, `Deadline` an expired wait, `StopSeen` the stop function. `CancelStep`
follows `Cancel` DELETE by DELETE. `Crash` and `Load` are the process's death and
`loadFromCluster`. CDI, KubeVirt, the Job and the guest (`ClusterProgress`, `Outside`) are
external: they are what the code's polling takes them for.

Abstractions, with the reason each is sound for the properties:

- `persist` is its GET and conditional PUT in one step: the loser of a 409 leaves the other's
  record, as if it had written first. The write happens after the mutex is released, so it is a
  step of its own (`Persist`), and `Start`'s, which marshals the shared pointer, may already
  write what the goroutine made of the record (`Marshalled`).
- A stop check and the poll next to it are one step. A Cancel in between is a Cancel just before
  or just after: the poll changes nothing that Cancel reads.
- Two consecutive `set(..., Pending, ...)` with nothing between them but messages are one.
- The message text and the sysprep ConfigMap are left out; DataSource and Template are one step
  here, `Publish`, and `TemplateUpdate`'s subject; the ISO's URL shows as the choice between
  `ImportReuse` and `ImportDelete`.
- `ImportReuse` takes a DataVolume that is being deleted for one that is not finished; the code looks
  at its phase only.
- Where the code ignores the error of a call, the call does not fail in the model: the GET and the
  DELETEs of a Cancel handler, and the persist of `loadFromCluster`.
- Requests that `Start` refuses for their form, and builds without virtio, which it refuses,
  do not reach the module.

### BuildLifecycle

What the Manager promises about the builds of one disk, with four variables: the stage of the
build, the status shown, whether a Cancel is owed its report, and the golden disk. One build at a
time; a verdict is final; after an accepted Cancel only Cancelled is reported and the golden disk
is left alone; the golden disk is replaced only past the point where Cancel is refused; Ready only
after its copy; no build ends without a verdict. The mapping is `Stage` and `CancelOwed` in
`BuildManager`: the flags `up`, `running`, `cancelled`, `finishing` tell the stage, the handlers
between their acceptance and their `set` tell what is owed. Two things the abstract specification
has to allow because the code does them: a handler's report may land in the next build
(`ReportCancelled` in any stage), and a restart reports an older verdict again (`Restart`).

### GuestUpdate

`wb-update.ps1` step by step: pass count, search, install, reboot with the startup task, then
`Invoke-Seal` with its two attempts. Only files, the task and the disk survive a reboot. `Reset` is
a reboot at any step that nobody asked for. `builder` is what `waitVMI` concludes from the console
line and from the instance's end. Which updates are chosen, the AppX cleanup's detail, a console
write that fails (`Write-Status` ignores it), the `started` marker that keeps FirstLogonCommands
from a second run, and the answer files of earlier releases that run sysprep directly are not
modelled.

### IsoPatch

Pods run `patchElToritoNoprompt`: `Inspect` (which walk finds which image is an input, `view`),
the overwrite of `efisys.bin` in two steps with a torn state between them, the read and the
write of the catalog. `Retargeted` is `retargetElToritoEFI` as a function on catalogs; the
reference it is checked against, `EfiEntry`, is the El Torito notion of an entry's section.
The byte-level parsing of ISO 9660, Joliet and UDF directories is abstracted to its result.

### TemplateUpdate

The step `Publish` of BuildManager in detail, for several disks whose builds were given one
Template. `Get` and the two alternatives of `ensureDataSource` and `ensureTemplate` are the GET and
the write; `fresh` says whether what a build read is still current, which is what the API server
decides from the resourceVersion in the object the code sends back. `Written` is
`applyTemplateDataSource` and `stripTemplateSysprep` on an existing Template, or
`windowsVMTemplate`. `TemplateEdited` and `SourceEdited` are the operator that owns the Template
and people; `AnswerLost` is a write that took effect and was reported as failed. A Template boots its disk
in one of two ways: by its parameters, as the stock ones do, or, if a build made it
(`windowsVMTemplate`), by a DataVolume that clones one disk by name (`clones`). The history variable
`maker` is the disk whose build made the Template, `writer` the one whose build wrote it last.

### BuilderPage

Suspended calls (`call`) stand for the promises between two `await`s: `refreshBuilds` from the timer
and at the end of Cancel and Start. The builder (`srv`) answers with its list as of that moment; the
answer reaches the page later, is lost (`Lost`, `RefreshFails`), or breaks off, which `readJson`
takes for an empty list (`ShowList`). Of the builder the module keeps what its API shows and what
decides about it: per disk the last build and whether it is reported active, its goroutine (`work`),
the cancel flag, and the Cancel handlers that nobody here waits for (`late`). As in `Cancel`,
acceptance (`CancelServed`) and report (`CancelReported`, `LateReport`) are two steps with four
calls between them, by when `done` may have cleared the flag and another build of the disk may run:
that build is then reported over until its next `set` (`Progress`). `told` is a history variable,
the disks into whose last build a Cancel's report fell. A builder that forgets its list (`LoadFails`
in BuildManager) is left out.

### SkuProfile, AnswerFile

The functions of the page, as operators. A text is an atom; what `normalizeSkuKey`, `includes`,
`isValidDiskName`, `computerNameFor` and `localeCompare` make of it is the table `Word`, so that a
name whose key says something else than itself (`Gold_1`, `my-win10`, `windows11`) is a row of it. A
Template is a record of what the code reads in it. The page sorts families, Templates and
DataVolumes, and the model reads only what is first in those orders: a family's Templates are a set,
and `Foremost` picks the least by the rank that `localeCompare` gives. What depends on the watch's
own order (the family's namespace and size) goes by the least index. The answer file is the record
its text is made from; `WinPEDrivers`, `PeCommands` and `firstLogonCommands` are the sections Setup
reads, the last one in its order. XML and display titles are left out.

### WizardForm

An action is one event (a click, a key, a list or an answer that arrives) with its handler and the
effects that follow, `Settle`: React flushes the effects of a discrete event before the next one, and
the effects run in the order in which they stand in the component. `typed` is a history variable:
what the person gave a field, taken back by the handlers that say they reset it (`Yields`). That no
other step replaces it is an action property, with one exception that is the code's (`Overtaken`): a
virtio image typed while the question for the cluster's is open. A request carries as history what was
`chosen` when it was sent and the `media` that the form asked for.
`submit` is reached by the button and, since it is the form's handler, by Enter in the only field of
a step (`EnterKey`). The storage class's `select` fires only when its value changes. Texts arrive
trimmed. CDI is taken as installed, and errors of the Template watch are left out.

### WindowsSetup, ImageRequest

`WindowsSetup` is the install VM of an accepted request: the firmware picks the first bootable
disk in the boot order of `installVMDisks`, WinPE and the first boot find the drivers at the CD
letters Windows chose, the first-logon commands run in order. Windows is external and does what the
comments of `src/utils/autounattend.ts` and `builder/pipeline.go` say of it: a VirtIO disk at the
installation of the driver makes it a boot driver (`needsVirtioStorageProbe`), AppX packages of a
client make sysprep fail, the file's copies make it run again on a clone. `ImageRequest` composes
the form with it: `Accepted` is Start's check of the request, after which the page is left. The
medium is the one the form asks for at that moment. Windows gives the CDs any letters from D to H
(`CdLetters`), whatever letters the file and the builder search; the virtio CD is among the first
four, as the head of `src/utils/autounattend.ts` has it.

## 3. The runs

Each passing run has a mutant per property in `PROJECT.json`: a plausible bug in a mapped
definition under which TLC finds the property violated.

| Run | Bounds | Shows |
|---|---|---|
| `cancel` | 2 builds, 1 Cancel, 1 fault, deadlines may expire | bookkeeping and golden disk under Cancel; no earlier guest near the patch Job or the new disk; `Ready` is this record's clone; no status without a driver; every goroutine ends; each step is one of `BuildLifecycle` |
| `restart` | 4 goroutines, 2 crashes, 1 fault, 1 person stopping or deleting the VM | every boot is of a blank disk and a patched ISO; `Ready` means sealed; the ConfigMap equals memory when nothing failed; crashes and resumes are steps of `BuildLifecycle` too |
| `ready` | 3 goroutines, 1 crash, no failure | a Start, also on leftovers, ends in Ready; so does a build interrupted in `Installing` or `Sysprep` |
| `guest` | the script's limits 8/5/2, 3 unexpected reboots | limits, no task in the image, right verdict, no dead end, the builder always gets an answer |
| `iso` | 2 pods, 1 death, 5 views, 313 catalogs, sizes equal or not | success means a quiet boot; nothing else moves; the pod that is left succeeds |
| `template` | 3 disks (one with a custom Template), 2 builds each, 1 edit, 1 fault, 2 Templates | a Template that a build wrote last boots that build's disk or, where a build made the Template, the disk it was made for, and attaches no answer file; nobody's edit is lost; conflicting builds do not all fail |
| `page` | 1 timer poll and 2 button calls at once; 2 disks with running builds and 1 lost message, or 1 disk with 1 build, 1 late handler and 1 lost message, or 1 disk with 2 builds and 1 late handler | buttons follow calls; a running build is shown as over only if a Cancel's report fell into it; the list catches up |
| `wizard` | 3 families of Templates, 4 lists of them, 5 typed names, any two groups of fields varied at a time; then 1 accepted build with any CD letters, 3 kinds of media, a builder with and without the script | typed values stay (save the virtio image typed while its question is open); the file sent is the one for the disk, type, edition and updates chosen when it was sent, and fits the medium asked for; a Start that can be clicked passes the builder's checks; an existing Template is one whose family id is the disk's; Setup always ends in a disk that is sealed or handed to the updates, and such a disk can be cloned |
| `cancel_leaves_vm` | 1 Cancel | *violated*: Cancel between the last stop check and the VM's creation leaves the VM |
| `cancel_not_recorded` | 1 Cancel | *violated*: the persist a goroutine owed lands after Cancel's |
| `deleted_vm_accepted` | 1 person | *violated*: a deleted VM's graceful shutdown is taken for sysprep's |
| `guest_slow_shutdown` | shutdown may take over 180 s | *violated*: the startup task ends up in the sealed image |

Why these bounds are enough to be interesting. Two builds of one disk are the smallest number in
which one finds the other's leftovers, or a late Cancel handler meets a newer build; after a crash a
resumed build takes a new goroutine, hence four with two crashes. One fault at any of the calls
reaches every error return. More faults together are left to the theorems of `RecordProofs`, which
say how many lost writes `Ready` survives. The limits of the guest are the script's own, and three
unexpected reboots exceed its two seal attempts. Two pods are what a Job's backoff or two
overlapping Jobs produce; the catalogs hold each entry kind in every order up to five entries. Three
builds of one Template give conflicts between two updates and between an update and a replacement; a
second build per disk meets what the first left. In `page`, one poll and two button calls give three
answers that overtake each other; its three bounds (`TwoRows`, `OneBuild`, `TwoBuilds`) are the
buttons of two rows, one build with a handler whose caller is gone, and a handler that outlives its
build and meets the next one.

Other bounds: `Spare` keeps a goroutine number for a resume to come;
`Counted` stops a counter file one above its limit, where its value no longer matters. In `wizard`,
`Plans` lets a behaviour vary two of nine groups of fields (custom name, ISO, type of the ISO, file,
updates, Template, disk and class, virtio image, lists): the hazards are between a field and what
refills it, which is one other group. The virtio image is paired with the lists only and the
Template with lists or custom names only, since nothing else is read there. Two questions to the
builder may be open at once (the second effect run before the first answer); where the virtio image
does not vary the answer comes before the next click. One request is under way at a time, one
accepted build ends the form's part, and a file written by hand is not followed into Setup, which
may then do anything.

`CHECK_DEADLOCK FALSE` stands where the system really ends: all builds over, the guest off or
idle, all pods or builds ended. The page polls for ever and is checked for deadlock.

### Fairness

- Goroutines and handlers run on (`WF` of `BuildStep(b)`, `CancelStep(c)`): Go schedules them
  and every Kubernetes call returns, the client has a 60 s timeout.
- The kubelet restarts the builder (`WF` of `Load`), and the cluster's controllers reconcile
  (`WF` of `ClusterProgress`). With `SlowCluster` a deadline may still come first; `BuildsEnd`
  holds in that case as well. It rests on the deadlines the code has in every wait (2 h for the
  ISO and the clone, 3 min for the old VM, 15 min for the Job, 30 min for the blank disk, 4 h
  for the guest).
- The guest and the builder's polling go on (`GuestUpdate`); nothing has to reset.
- A pod that is not killed runs on (`IsoPatch`), and so does a build that publishes
  (`TemplateUpdate`).
- The browser's timer fires every 8 s, and a request is answered or fails (`BuilderPage`). Nobody
  has to click.

- The install VM runs on (`ImageRequest`): Windows carries out the file. Nobody has to click.

Nothing is assumed of starts, cancels, crashes, faults and people.

### What the violated runs say

Each finding in `PROJECT.json` quotes the comment or document it contradicts. Observations without
a run of their own, because no text of the repository promises more or because they are wording:

- A Cancel handler that outlives its build may mark the *next* build Cancelled, which that build's
  next `set` then overwrites, against "Cancelled stays final" (`builder/pipeline.go:130`).
- A Template that a build made names its disk in the VM. A later update by another disk's build sets
  the parameters, which that VM does not read: it goes on booting the first disk. The page's help text
  (`src/components/WindowsBuilderPage.tsx:943`) speaks of stock Templates only.
- A virtio-win image typed while the page asks for the cluster's is replaced by the late answer, or by
  the image of a Template list that arrives before it.
- `persist` only logs a failed write. If a build's verdict and the next build's first two records are
  lost, and the builder dies while that build deletes the old VM, the restarted builder resumes the old
  build, sees a guest with an agent shut down, and takes the deletion for sysprep's: `Ready` for a disk
  that nobody sealed. If all nine records of a build are lost, and the builder dies while the golden
  disk is replaced, the restarted builder shows the old `Ready` over a disk that is gone. TLC finds both
  with three goroutines, one crash, no Cancel, nobody meddling, and three or nine faults.
- The page's confirmation names a disk, not a build, and stays open across builds of that disk.
- A pod succeeds without patching anything when the two images differ in length and the catalog has
  no section header with EFI platform (the platform of a validation header is not looked at):
  `SuccessBootsQuiet` is limited to images of one length, which is what Microsoft's are.
- A custom disk named `custom` collides with the page's own marker: its family is not found.
- With the Custom tile and "existing", no Template is sent, as Custom has no family to choose from.
- The page accepts a URL whose scheme is in capitals, the builder refuses it (`EnabledStartIsComplete`
  makes that exception); neither `canStart` nor `submit` looks at the answer file, whose presence
  follows from how the step is reached; Enter in an earlier step may send a request without it, which
  the builder refuses; a refusal of `submit` may focus a step that is locked.
- Disk size and ISO hint go by the edition, memory and answer file by the name typed, and the 8 GiB of
  Windows 11 only by the exact key `win11`.
- A class prefilled from a disk that is not in the list of classes is sent, but shown as the default.
- When the family of the chosen edition vanishes from the list, the request goes to the default
  namespace.
- `docs/install-job.md` says ProductKey is omitted for client evaluation media; the code writes an
  empty one.

## 4. Proofs

TLC checks instances; the theorems hold for every value of the constants that meets the
`ASSUME` of the module (numbers are natural, flags Boolean), for any number of builds, cancels,
crashes, faults and reboots, except where a theorem assumes more. Every safety property that a
passing run checks is proved.

**BuildManagerProofs**

- `TypeCorrect`: `Spec => []TypeOK`, by one lemma per group of actions.
- `OneDriver`, `CancelFinishExclusion`: `SingleDriver` and `CancelExcludesFinish` are not
  inductive. That `Start` sees no second goroutine needs that `running` speaks of live
  goroutines in every state, that flags are down when nothing runs, and that `done` belongs to
  the only live one. `DriverInv` adds what the code's two critical sections rely on: whoever is
  past `finishBuild`'s check has `finishing` raised, and a halted goroutine lives only while
  `cancelled` is up. Most steps are "early moves", which change only a live goroutine's own
  position: `EarlyMoveKeeps` treats them once, and `PrepareMoves`, `WaitMoves`, `EndMoves`,
  `FinishMoves` show that the steps are of that kind.
- `GoldenProtected`: the golden disk is replaced only while an uncancelled build lives, from
  `DriverInv` and the fact that only `finishBuild`'s steps touch it.

- `LifecycleImplemented`: `Spec => ImplementsLifecycle`, the refinement. `StatusInv` relates the
  reported status to the goroutine's position, to the cancel flag and to the handlers. Every
  goroutine's step before its return is quiet, tells progress or gives up (`MiddleStep`); these
  three are stutters, `Report`s, or dropped by `set`. The rest is one case per handler's step,
  crash, restart and cluster step.
- `NoOrphans`: `NoOrphanStatus`, a conjunct of `StatusInv`.

**RecordProofs**

- `NoGuestLeft`: `NoForeignGuest`, since a goroutine comes to the patch Job only from `Released`,
  which saw no guest, no VM is created elsewhere, and the cluster starts no instance without one.
- `LostInvariant`, a lemma of the next two: what the ConfigMap may still say after writes were lost.
  A build sets nine records on its way to the clone (`Told`), and each is written before the next
  step. So a ConfigMap that still says `Ready`, or that a restart would resume from, when a later
  build has come to step `l`, has missed `Told(l)` writes, and as many calls have failed.
- `ReadyIsCloned`: `ReadyMeansCloned`. `ClonedInv` follows the VM's time stamp from the goroutine to
  the record and to the clone, and, where the builder crashes, says the same of the records that a
  restart may report. It holds for any failures if the builder does not crash (`MaxCrashes = 0`), and
  for any crashes if at most eight calls fail.
- `RecordKept`: `RecordMatchesMemory`, without Cancels. `OwedInv`: a goroutine owes at most the
  record that is in memory, and the ConfigMap has it when nobody owes.

- `BootIsClean`: `CleanBoot`, without Cancels. `CleanInv` follows the ISO and the install disk from
  their readiness to the VM's creation, and says that the annotation which skips the patch is true.
- `ReadyIsSealed`: `ReadyMeansSealed`, without Cancels; the property itself excludes people who stop
  VMs. `SealedInv` says what a goroutine may rely on: the agent it saw is in this guest, and a guest
  that ended with an agent sealed the disk; and that a record which a restart resumes from still has
  its VM, or has a sealed disk and no VM left to write it. It holds for any failures without a crash,
  and for any crashes if at most two calls or Setups fail.

The assumptions are needed for the arguments, and some for the truth: with a Cancel a persist may
land late (`cancel_not_recorded`), and a late handler deletes the next build's objects. The numbers of
failed calls are exact: with nine, and with three, TLC finds `ReadyMeansCloned` and `ReadyMeansSealed`
violated (section 3, last list).

**GuestUpdateProofs**

- `GuestTypeCorrect`: files and rounds stay within the limits (`StatesOK`, `NumbersOK`).
- `SysprepRuns`: `SealInv` relates the runs to the seal file, which is written before sysprep
  starts; a task that is registered, or a script still running, means a run is left.
- `UpdatePasses`: `PassInv` says the pass file counts until the seal file exists, and then no
  pass follows, so the removal of the pass file is harmless.
- `NoDeadEnd`: the script reboots only with its task registered.
- `ImageIsClean`, `BuilderJudgesRight`: from `~SlowShutdown`, which is needed:
  `guest_slow_shutdown` shows the failure without it. `ImageInv` says a sealed disk has no task and
  is off, or about to be, and which line the console shows.

**IsoPatchProofs**: `OnlyEfiMoves` for catalogs of any length. `Derived` says of the catalog, and of what
a pod is about to write, that it is the original with some EFI entries moved; `RetargetDerived` shows
that a pass keeps that. `SuccessIsQuiet` assumes that EFI entries boot one of the two images; then a
pod past the copy means that `efisys.bin` is the quiet one for good (`IsoInv`).

**TemplateUpdateProofs**: `TemplateLeadsToDisk`, `EditsSurvive` from `UpdateInv` (what a build read
and is still fresh is the object itself; a Template that a build made clones its maker's disk, any
other has its writer's parameters). The first assumes that the Templates of others go by their
parameters (`\A t \in Templates : t.clones = "unset"`), as the stock ones do. `NoAnswerFile` from
`ProperInv`, for Templates whose answer file is in a volume named `sysprep`, as this plugin's are.

**BuilderPageProofs**: `PageTypeCorrect`, `ButtonsCorrect`, `NeverAhead`. `PageInv` says that the shown
list and every list in flight are `Behind` the builder: of an earlier build, or of this one and active
while its goroutine runs and no Cancel's report fell into it. `StaysBehind` carries that along the
builder's steps, late reports included.

**WizardFormProofs, ImageRequestProofs**: the wizard and the Setup it leads to, for any table of
names, any lists of Templates, any volumes and classes, and any virtio CD.

- `RequestInvariant`: `Spec => []RequestInv`. Until a build starts that is `FormInv`, afterwards
  `SetupInv`; TLC checked both on the instance of `wizard` before they were proved.
- None of the form's properties is inductive: what is sent depends on fields that other steps
  change. `GoodForm` says of the form between two events that the file is the person's or the one the
  fields ask for *now* (`FileFollows`), that a step in focus has what the steps before it give
  (`StepsInOrder`), that an existing Template is one of the family *now* shown (`RefFollows`), and that
  a prefill which is not used up has its question open (`PrefillsUsed`). `Held` ties the
  history `typed` of four fields to their flags, which is why no effect overwrites them; the virtio
  image has none, so its steps are gone through one by one (`FormKeepsTyped`). `SentGood` is the
  request's part.
- Every action ends in `Settle`. So the proof has one lemma per effect (`XmlFacts` ... `MissingFacts`),
  `SettleFacts` for their composition in the code's order, and `GivesGood`: a handler need only leave
  a form that is `Ready` for the effects. After that each handler is one short lemma.
- `WizardTypes`, `WizardKeepsTyped`, `WizardSendsFit` and `WizardStartsComplete` are the
  properties `TypeOK`, `TypedValuesKept` (of steps), `SentFileFits`, `EnabledStartIsComplete`;
  `WizardNamesItsTemplate` is the action property `TemplateOfFamily`: only `submit` sends, and what it
  sends is of the family that `RefFollows` speaks of, the one whose id is the disk's name.
- That a first Template, size or class is one of its set needs a least element. `LeastNat` gets it
  for any set of naturals from the library's well-founded order of finite sets, without an
  induction of our own; `MinIn` and `ForemostIn` carry it to `Min` and to a sort's first.
- `SetupSealsGood`: `SealedIsGood`, for every letter of the CDs, every kind of media and every set of AppX
  packages. A machine is known by the place of its next first-logon command (`CommandsDone`): past
  the fourth one the tools are in, past the eighth the agent, then autologon, the wait and the
  deletions, and nothing before the sixteenth can seal. `CommandFacts` shows that order for every
  file the page writes, though its sections differ in length. `DriverSure` says where viostor comes
  from as a boot driver: from WinPE, or from the probe disk the manifest adds without it.

The assumptions about the tables are what the code takes for granted, and TLC evaluates them:
an object of the API server has a name and the lists come with ranks in a total order
(`ListAssumption`); what is typed is a text the tables know (`TypedAssumption`); the empty name is no
disk name, and the two default sizes are sizes (`SkuAssumption`); the virtio CD has a folder for
each row of the folder rules (`CdAssumption`), without which WinPE and specialize find no driver.

Only model-checked: liveness (`BuildsEnd`, `StartLeadsToReady`, `ResumeLeadsToReady`, `Decided`,
`PatchSucceeds`, `SomeBuildPublishes`, `PageCatchesUp`, `SetupSeals`), since fairness and `ENABLED` are
beyond the prover. `IsoPatch.TypeOK` and `TemplateUpdate.TypeOK` are lemmas of their proof modules.

## 5. Not modelled, and why

- HTTP, TLS, tokens, CORS and JSON decoding are I/O.
- The byte-level directory walks of ISO 9660, Joliet and UDF parse one input; only their result
  matters to the patch.
- Of the install VM's manifest: CPU, memory, TPM, firmware and network fields, which no other part
  reads. Of the Template: labels and texts. Of the answer file: XML, titles, locales.
- Rendering, translations, logging, the build scripts and CI.
- Data races that are not about one disk name: `loadFromCluster` writes the maps without the mutex
  while goroutines it has resumed use them, and the HTTP GET of one build marshals without the lock.
  What a Go map race does is not a choice between outcomes a model could list.
- An update of the builder's Deployment (`deploy/install.yaml:172`, no strategy), with two builders
  over the same ConfigMaps: there is no protocol between the two in the code (no leader election, no
  owner in the ConfigMap) whose promises could be stated.
- Time stamps that are cut to seconds: goroutine numbers stand for them, and no two
  are equal. Nothing rests on the fraction: before its patch Job a build waits until an
  earlier one's VM is gone (`NoForeignGuest`).

## 6. Where to go on

The order was: the Manager first, since a wrong step there loses a golden disk; then the parts it
waits for; then what it publishes; the page; the abstract life cycle; the wizard with the answer file.
What is left is small: `loadFromCluster` for two disk names; a `Rollout` of two builders, if the
Deployment's strategy ever becomes part of a promise; and `ReadyMeansSealed` where a Cancel handler
outlives its build, which needs an account of the disks it may still delete.
