# Verification of the SnapDog OS installer

The installer downloads an operating-system image and writes it to an SD card.
A desktop application (the GUI process) prepares the image and starts a
privileged worker that owns the card until it is written, verified and
detached. The card, the desktop, the user and two processes act at the same
time; what can go wrong is mostly a matter of order. This directory models the
parts that decide about the user's data, checks them with TLC and proves the
central claims with TLAPS.

All paths below are relative to the repository root (`src/worker.rs`,
`docs/architecture.md`); `PROJECT.json` names the exact lines of every
definition, with one more leading `src/`.

## 1. Inventory

| component | source | state | operations |
|---|---|---|---|
| privileged job | `src/worker.rs`, `src/flash.rs` | job, staged copy, two signal flags, open target, progress log | launch, validate, stage, unmount, revalidate, open, write, verify, sync, eject, clean up, report |
| run control | `src/pipeline.rs` (`PipelineControl`, `RunGuard`) | `active`, two one-shot flags, registered marker paths | `cancel`, `skip_verification`, `begin`, `register_markers`, drop |
| pipeline | `src/pipeline.rs` (`run_pipeline`) | temporary directory, terminal record | download, prepare, write job, register, launch, conclude |
| worker runners | `src/pipeline/{linux,macos,windows}.rs` | monitor error, `cancellation_sent`, progress tail, child, target socket | spawn, identity check, drain, cancel, kill, serve, wait, finish |
| Linux backend | `src/worker/linux.rs` | open descriptor, reader position | validate, unmount, open, prepare verification, read back, eject |
| macOS backend | `src/worker/macos.rs`, `src/macos_native.rs`, `src/pipeline/macos.rs` | open descriptor, pending Disk Arbitration request | look up, unmount, receive descriptor, serve descriptor, eject |
| Windows backend | `src/worker/windows.rs`, `src/windows_native.rs` | pins, exclusive handles, volume locks, identities, two flags | validate, lock and dismount, open, replace handles, read back, roll back, eject |
| launch sessions | `src/worker.rs` (`PrivilegedSession`, ...) | directory and file identities | validate, open progress file |
| downloader | `src/download.rs` | partial file, digest, byte counts | request, read, limit, publish, clean up |
| image preparation | `src/flash.rs` (`prepare_gzip`) | output file, digest, size limit | decompress, check, publish |
| catalog | `src/catalog.rs` | none | fetch, validate manifests and URLs |
| application | `src/app.rs` | catalogs, selection, operation, overlay, close request | receive events, choose, confirm, start, cancel, skip, retry, reset, reload, close |
| drives, model | `src/drives.rs`, `src/model.rs` | none | enumerate and classify |
| command line | `src/main.rs` | none | parse the digest-bound worker entry |

### How they interact

* The application starts `run_pipeline` on a background thread and receives
  `PipelineEvent`s over a channel. It calls `PipelineControl::cancel` and
  `skip_verification` from the UI thread. Catalogs come from a loader thread
  over a second channel.
* The pipeline and the worker share a private temporary directory: the job
  file, the raw image, the progress file (appended by the worker, tailed by the
  runner), and two marker files (created by the GUI process, polled by the
  worker). On macOS there is also a socket through which the GUI process hands
  over the raw descriptor it got from `authopen`.
* The worker talks to the card through a platform. The path of a disk can be
  reused, so a drive carries an identity (Linux `diskseq`, macOS IORegistry
  entry id, a fingerprint on Windows).

### What is hard

| behaviour | where | what has to hold |
|---|---|---|
| the card is exchanged under its path | validate, unmount, open, eject | only the confirmed medium is written or detached |
| device-mapper numbers, drive numbers and device nodes are reused | the three backends | no call is redirected, the running system is never touched |
| the worker's own handles and locks | Windows backend | none blocks the next open, all go away at the end |
| a registry gap, a request that answers late or never | macOS backend | a card that is there is found, the job ends |
| the raw file changes while it is staged | `stage_raw_image` | only checked bytes are written |
| the automounter comes back | unmount to open, close to reopen | nothing is written under a mounted volume |
| a faulty card, cached or unaligned reads | verification | a verified success is true of the medium |
| nine early returns after the open, a cleanup that can fail | `run_after_unmount`, `run_job` | sync, eject and the primary error survive |
| cancel and skip at any moment, from any thread | control, markers, signals | no request lost, at most one more chunk, truthful outcome |
| the progress file is cut, late or fails | emit, tail, finish | log, exit status and outcome agree |
| killed, failing or silent worker | runners | the run ends, no worker outlives its files |
| two downloads to one destination, a body of the wrong length | downloader | only the requested bytes are published, over nothing |
| late answers, close requests, results that meet in one frame | application | the screen is true, the window neither hangs nor leaves a writer |

`PROJECT.json` lists these as hazards with their lines, with the properties
that cover them or the reason why none does.

## 2. Modules

```
FlashPromise <--implements-- WorkerRefines --EXTENDS--> Worker <--EXTENDS-- Runner
                               |        |                                     |
                           MCWorker     +----------- WorkerProofs ------------+

AlignedReader <-- LinuxTarget, WindowsTarget        PipelineControl <-- ControlProofs
      |                |            |                                       |
AlignedReaderProofs <- LinuxProofs, WindowsProofs                   MCPipelineControl

MacTarget <-- MacProofs    Download <-- DownloadProofs    Catalog <-- App <-- MCApp, AppProofs

Screen <-- Runner, App
```

The levels meet as follows. `Worker` is the job over an abstract platform;
`LinuxTarget`, `MacTarget` and `WindowsTarget` open up the platform and keep of
the job only the order of its calls. `Runner` composes `Worker` with the
monitor loop. `PipelineControl` is the concurrency of the control object
around a run, `Download` what the pipeline does before the launch, and `App`
what the window makes of it all; it takes from the pipeline that it ends
(`RunEnds`) and which outcomes it has (`SuccessIsTrue`).

### Worker

One job from launch to exit. `pc` is the place in the code: `launch`
(`run_unix_worker`), `runJob` and `staging` (`run_job`, `stage_raw_image`),
`validate`, `unmount`, `afterUnmount`, `revalidate`, `open`, `opened`,
`write`, `prepare`, `reopen`, `verify` (the two loops of
`write_raw_from_with_prepare`), `afterFlash`, `sync`, `eject` and `cleanup`
(the ends of `run_after_unmount` and `run_job`), `report`
(`run_and_report`). Every action is one handler or one iteration of a loop;
a fallible call has a disjunct for its error, with the cleanup that belongs to
it.

* The image is `Chunks` write buffers. A chunk of the raw file is `"image"` or
  `"other"`; a chunk of a card can also be `"old"` or `"bad"`. Digests are
  compared by comparing chunks: a collision is not modelled.
* A medium identity names one insertion of a card. `slot` is the card in the
  reader and `fd` the one behind the open handle; a pulled card takes its
  handle with it (I/O on it fails).
* `emitted` are the records given to `emit`, `flushed` those that are complete
  in the file. A failed flush leaves anything in between, and a later flush or
  the drop of the `BufWriter` may complete it.
* The environment creates markers, pulls and inserts cards, mounts volumes,
  and kills the worker.
* History variables: `syncFailed`, `detached`, `ejects`, `lateWrites`. No step
  of the worker depends on them.

Choices a reader should know: `refresh` looks at its two markers in one step;
the platform's own revalidations inside one call are taken together with the
call, except where the code itself releases a handle in between (`prepare` and
`reopen`) or opens before it looks (`open` and `opened`). Verification follows
Linux (close, reopen, read the medium). `eject` follows Linux and macOS, where
the medium leaves the reader. The backend modules show the other platforms.
Two branches of the code that nothing reaches are left out: `TargetTooSmall`
after `validate_job`, and a callback called again after it has failed.

### FlashPromise and WorkerRefines

`FlashPromise` is what the user is promised, with six variables: a card that is
filled from the first chunk to the last, requests to cancel and skip, and one
outcome. Verified means the card holds the image; unverified that all of it was
written and that verification was not wanted; cancelled that it was asked for;
and nothing is written after an outcome was told. `WorkerRefines` maps
`Worker` to it: the outcome is `reported`, the last terminal record among the
visible ones, as `run_pipeline` reads them.

### PipelineControl

Threads that call `cancel` and `skip_verification` (store the flag, clone the
paths under the lock, touch the file) and runs that begin, prepare, register
their markers, look at the flags, launch the worker and take everything down,
the temporary directory first and the guard last. Each access of shared state
is a step. A call that meets a directory that is already gone fails, as in the
code; `NoLostRequest` speaks of calls that returned Ok.

### Runner

Extends `Worker` with the monitor loop: `step` is the place in an iteration.
The worker moves between any two of its steps. The three platforms are one
loop with a `platform` variable: Windows neither checks the launch identity
nor kills, macOS also serves the target socket. `Spawn`, `CheckIdentity`,
`Drain`, `SeeCancel`, `KillWorker`, `Serve`, `TryWait`, `Reap`, `WaitFails`
and `Finish` are the calls of `run`, `Outcome` is the end of `run_pipeline`.
The constant `Faults` says which calls around the worker may fail, `Acts` what
people do. `result` tells apart errors of runs that read the progress file to
its end (`"failed"`) and of those that did not (`"unread"`). `Shows` is the phase
that `apply_worker_progress` has left in the window, and `Screen`, shared with
`App`, what `failure_screen` and `failure_copy` make of it. That `Worker` takes
the card out of the reader when it ejects is not so on Windows, where the eject
leaves it there: `SuccessIsTrue` claims a detached card on Linux and macOS
only. `RequestTarget` and `Blocked` are the worker's side of the socket;
the steps inside `try_serve` are in `MacTarget`.

### AlignedReader

The arithmetic of the two verifiers that read a raw device in whole sectors:
`Slice` is what one `read` hands out of what the device returned into the
aligned buffer. `LinuxTarget` and `WindowsTarget` read with it.

### LinuxTarget

One job, one walk of sysfs, one read of a `/proc` file and one D-Bus call per
step. A validation is a subroutine of four steps (`inspect`, `collect`,
`mounts`, `swaps`) that goes back to `ret`. A device number stands for whatever
is there: every inserted card is `Whole` with `Parts`, and a number of `Maps`
can be closed and given to another stack; only the `diskseq` is never given out
twice. `Related` is the set of numbers of the card, its partitions and every
holder above them, as the least set closed under holders.

Between any two steps the environment pulls and inserts cards, mounts a pair of
nested volumes, and opens and closes mappings. `since` remembers what it did
after the last look at the diskseq and after the device numbers were collected;
the properties use it to say exactly which interference the code cannot see.

* `mountinfo` shows an anonymous number for btrfs. A mount reported so is
  missed by `unmount` and by the check for the running system; the claim of the
  kernel (`Claimed`, exclusive open) is what still protects such a card.
  `SystemUntouched` and `UnmountIsExact` state this exception.
* `eject` unmounts, looks the drive up by name, powers it off, and falls back
  to an eject. `run_job` ejects once more when `run_after_unmount` failed in its
  own eject (`flashed`).

### WindowsTarget

One job with each of its handles: the pin of `unmount`, the prepared exclusive
handle, the writer, the pin that replaces them between write and verification,
and the unbuffered verifier, together with the volume locks and the two flags
`volumes_dismounted` and `write_may_have_started`. A drive number keeps its
object while a handle is open and may go to another disk afterwards. An
exclusive open needs that no handle of anyone is open and nothing is mounted.

* A disk is its fingerprint: two disks of equal fingerprint are told apart
  neither by the code nor by the model.
* An eject that fails after a write keeps the pin and the locks, as the code
  does; and when it had already proved that the disk is its own, the second
  eject by `run_job` may refuse. `EjectProvesTheCard` and `BackToUser` speak of
  ejects that succeeded and of jobs that have not written.

### MacTarget

The worker and the GUI process on macOS. The worker's six lookups are one
action, `LookUp`, that repeats for `Attempts` rounds; `Found` says where each
goes on. A medium is an insertion (its registry id), `at` is the one that has
the BSD name, and `Cards` are those that carry the five marks of a removable
card: a disk image may get the name too. After an unmount the medium may stay
unlisted for up to `Gap` lookups. `MacAssumption` has `Gap < Attempts`: the
2.5 seconds of `TARGET_SETTLE_ATTEMPTS` are meant to outlast the gap.

`Ask` and `Await` are `perform_disk_action`: asked by name, answered in the
daemon's own time, given up after 30 seconds. What was given up stays in
`abandoned` and may still be carried out later. `Connect`, `SendRequest`,
`Receive`, `CheckDescriptor` are `receive_authorized_target`; `Accept`,
`ReadRequest`, `AuthOpen`, `SendDescriptor` are `try_serve`. The descriptor may
be one of a medium that took the name just before, and its numbers may equal
those of the path: `CheckDescriptor` lets it pass, and the lookup after it is
what refuses it. Mounts are left out, and so is a cancellation (both are in
`Worker` and `Runner`).

### Download

`DownloadClient.download` for any number of concurrent calls that share one
destination, step by step: the two looks at the destination, the partial file
that only one of them can create, the limits, `Complete`, the second look and
the rename. Another program may create the destination at any time; `late`
remembers who had looked before that. In the other initial states one pipeline
runs: one download, `prepare_gzip`, the capacity check, the job file and the
registration, up to the launch or the removal of the directory. Sizes count
read buffers; a body has the requested digest or not. A removal may fail: the
drop of `PartialDownload` logs that and the partial file stays, and the drop of
the temporary directory ignores it. `refused` remembers such files.
`NothingLeftBehind` says that nothing else stays, and that a partial file that
stays keeps every later call from writing or publishing: `create` refuses it
until somebody removes it.

### Catalog and App

`Catalog` is the validation of a manifest and of a catalog as operators, and
what `fetch_catalog` makes of an answer. `App` is the window. `Receive` is what
`ui()` does before anything is drawn, and then at most one widget is used; a
window that is idle may be left alone for ever, but it is repainted while an
operation runs and when a close command is pending. The loader sends one event
per channel over a lossless queue, so its events are taken together.
`background` is the pipeline thread as the window meets it: its stage is that of
the last event it has posted, not what the worker has done, and it ends in one
of five ways. `OperationFailure::authorization_denied` is left out because
nothing outside the tests makes a `PipelineError::AuthorizationDenied`. A panic
of that thread is not modelled.

What a reader of `App` may notice: `ReceiveCatalog` drops the failure of a
channel that is not shown, as `receive_catalog` does (`app.rs:284`), and a
change of channel clears the error. The channel then has neither releases nor
an error until the program is restarted. The code and the documents promise
nothing else, so no property does.

## 3. Runs

| run | instance | states | shows |
|---|---|---|---|
| `worker` | 2 media, 2 volumes, 3 chunks | 273 k | the invariants and action properties of the job, `KeepsPromise`, `Terminates` |
| `pipeline_control` | 2 runs, 3 calls, symmetric | 22 k | `NoLostRequest`, `OneRun` |
| `runner` | 3 platforms, all faults, cancel and card; 2 chunks | 7.8 M | `RunnerInv` (with `NoOrphan`), `SuccessIsTrue`, `SuccessIsTold`, `WordingIsTrue` |
| `runner_ends` | Linux and macOS, unreadable progress, socket and wait faults, cancel | 0.9 M | `RunEnds` |
| `runner_kill`, `runner_prompt`, `runner_target` | one platform, one chunk | | the three divergences below |
| `linux_target` | 2 media, 2 partitions, 2 mappings, 2 events of the environment | 1.4 M | `SystemUntouched`, `CallsHitTheCard`, `UnmountIsExact`, `VerifierIsExact` |
| `windows_target` | 2 disks, 2 old and 2 new volumes, 5 events | 4 k | `NeverSelfBlocked`, `EjectProvesTheCard`, `BackToUser` |
| `mac_target` | 2 cards and a disk image, gap of 3 in 4 attempts | 3 k | `MissingMeansGone`, `CallsHitTheCard`, `JobEnds` |
| `download` | 3 downloads or one pipeline, image of 2 buffers | 1.7 M | `OnlyRequestedBytes`, `PublishReplacesNothing`, `NothingLeftBehind` |
| `app` | 2 boards, 2 drives, 5 kinds of answer, 2 requests | 638 k | `NeverLeavesWriter`, `QuitEnds` |

Each of them also checks the inductive invariant of its module, the one the
proofs use: `IndInv`, `Inv`, `RunnerInv`, `DownloadInv`, `AppInv`.

Why these bounds are enough to be interesting. Three chunks give a first, a
middle and a last iteration of every loop, and let a late cancellation write
one chunk and be caught before the third. Two media give an exchange; a third
could not be told apart from the second. Two volumes make a partial unmount.
Three calls allow cancel and skip with one kind doubled, two runs a second
registration during the first one's takedown. In `runner` the
loop sees records, not chunks, and one would do for it; the second is there for
`WordingIsTrue`, which tells the first buffer from the others. Volumes are empty
there because the loop does not depend on them. `runner_ends` omits the faults that cannot hold a
run up: a marker that is missing, a signal that is not sent and a changed
executable only take away reasons to stop earlier. Windows has the same loop
without the kill.

In `linux_target` two mappings make a chain above a partition, and
`MaxEvents = 2` allows the pairs that matter: close a mapping and open another
under its number, pull a card and insert one, mount two nested volumes after
either. Sectors of 2 with a capacity of 4 and reads of up to 3 make reads that
begin and end inside a sector. `windows_target` has five events, enough for
pull, insert, mount, open and close in one job; the new volumes differ from the
old ones because the partition table changes under the locks. In `mac_target`
the gap is the longest that the attempts must outlast, two more media can get
the name, one of them no card. Three downloads give a winner, a loser at the
partial file and a loser at the destination; the size of 2 has a body that is
short, exact and too long. Two catalog requests make one stale.

Bounds that cut something off: `MaxEvents` (Linux, Windows), `MaxRequests`
(App). The counters `ejects` and `lateWrites` of `Worker` are bounded by the
end of the job. Deadlock is not checked: every process really stops at the end
of its run.

### Fairness

`FairSpec` of `Worker` and `FairRunnerSpec` have weak fairness of the worker and
of the runner's loop: they are runnable processes, and their system calls
return. For `FairRunnerSpec` this includes that somebody answers an
authorization dialog; `PromptedRunnerSpec` drops it for UDisks2. Users, cards
and markers owe nothing, and neither does the failing of a wait (`WaitFails`
has no fairness).

`FairSpec` of `MacTarget` has the worker and the GUI process, whose `authopen`
dialog somebody answers. Disk Arbitration owes nothing: `JobEnds` holds because
`Await` gives up.

`FairSpec` of `App` has the frames that eframe owes (a running operation
requests a repaint every 80 ms, a viewport command causes one) and the end of
the pipeline, which is `RunEnds`. Nobody has to click anything, and a loader
may never answer.

### Properties

Safety of the job: `OnlySelectedWritten`, `OnlyCheckedBytesWritten`,
`NoWriteUnderMount`, `SyncedBeforeRelease`, `EjectTried`, `VerifiedIsTrue`,
`CompletedIsDurable`, `StopsSoonAfterCancel`, `PrimaryErrorSurvives`. Two
further facts follow from `KeepsPromise` (an unverified success was asked for,
`UnverifiedOnlyIfAsked`; a cancelled record answers a request,
`CancelledOnlyIfRequested`), and `ExitAgreesWithLog` is a conjunct of `IndInv`;
they have theorems of their own.
`ExitAgreesWithLog` is weaker than one might expect, and has to be: if the
flush of the success record fails, the record can still become visible while
the process ends with an error. `SuccessIsTrue` shows that the pipeline then
reports no success.

On the backends: `CallsHitTheCard` (Linux, macOS) says what a destructive call
made by name can reach, `EjectProvesTheCard` that a successful eject on Windows
was of the disk that was written, `SystemUntouched` that nothing of the running
system is unmounted, opened or ejected.

On the desktop: `WordingIsTrue` compares what the screen of a failed or
cancelled run says of the card with the card. The screen chooses its words by
the phase it was told last, and that may be older than the card. Checked with
all that the runners and the worker can do, they mean the following:

| the screen | the card | when |
|---|---|---|
| "is ready" (failed eject) | written to its end and synced | always |
| "may be incomplete" | written to | always |
| "was not written", "No data was written", or Retry is offered | untouched, no volume unmounted | if the run read all records |
| "No further changes" | the worker has stopped; nothing after the first buffer is changed | if the run read all records |

The two limits are the code's:

* `Writing` is sent after the first buffer is written (`flash.rs:229-236`), and
  nothing announces it before. A first write that is cut short ends under
  `ValidatingTarget`; if the run was cancelled meanwhile, the screen says "No
  further changes will be made" over a card whose first buffer may be
  overwritten.
* A run that stops reading tells an old phase. That is so after a monitor error
  (an unreadable or invalid progress file, or more than `MAX_PROGRESS_READ`
  bytes between two polls, `pipeline/linux.rs:467`; a launch identity that
  changed; on macOS a broken target socket) and after a failed wait. The worker
  may have written, and the window may say that it has not, and offer Retry.
  `result = "unread"` marks these runs, and the last two rows claim nothing of
  them.

### Where documentation and code differ

1. `runner_kill`. A cancellation seen before the first record was read kills
   the worker, whatever it has done since the last read. The promise that every
   exit syncs and ejects does not hold on that path.
2. `runner_prompt`. The comment at the kill in `pipeline/linux.rs` expects a
   PolicyKit prompt before the first event, but the worker reports before it
   first calls UDisks2. A cancelled run waits until the prompt is answered.
3. `runner_target`. After a monitor error the macOS runner stops serving the
   socket, and worker and runner wait for each other.

## 4. Proofs

Every theorem holds for all values of the constants that satisfy the named
assumption of its module, and the inductive invariants are checked by TLC first.

`WorkerProofs`, from `WorkerAssumption` (the selected medium is one of the
media, the empty reader is none, the image is not empty):

* `TypeCorrect`, and `Inductive`: `Spec => []IndInv`. The properties are not
  inductive by themselves. `IndInv` adds what connects them along the code:
  the open handle refers to the selected medium once it was revalidated
  (`MediumInv`); from the end of staging on the private copy is the image
  (`StagedInv`); what is unsynced at every point (`ReleaseInv`); that the
  cleanup is still ahead (`EjectInv`); what a report of the loops stands for,
  chunk by chunk (`FlashInv`); whose request a raised flag is, and how many
  chunks were written after it (`SignalInv`); and what a success, cancelled or
  later record in the log says about all of this (`RecordInv`). The proof takes
  the conjuncts in this order, each with one step per action, and each uses
  those before it.
* The invariants of the run `worker` from `IndInv`, `PrimaryErrorSurvives` from
  the actions, and `NoWriteUnderMount` from one more invariant (an open handle
  means that no volume is mounted).
* `PromiseKept`, `Spec => KeepsPromise`: the initial states map to initial
  states, and every step of the job, of the environment and a kill is a step of
  the promise or a stutter, using `IndInv`.
* `StepsRunOutAlways`: `StepsLeft`, at most `19 + 3 * Chunks`, falls with every
  step of the job and is raised by nothing outside it. This is all of
  `Terminates` but the fairness.
* The composition of `Runner`. Every step of it is a step of `Worker` or leaves
  it alone, and its initial states are the worker's, so
  `RunnerImplementsWorker`, `RunnerSpec => Spec`: whatever is proved of a worker
  alone holds of one that is monitored, cancelled, served and killed, and
  `RunnerKeepsPromise` spells out the two that matter most. `RunnerInvariant`
  adds the loop's own part (`LastRead`: the outcome the pipeline will go by is
  the last record read, which needs that a terminal record is the last one;
  `Returned`: what the exit of the loop stands for). `SuccessIsTrue`,
  `SuccessIsTold` and `NoOrphan` follow, for any subset of the faults.
  `LastTerminal` takes the last terminal record of a finite piece of the log;
  that there is one (`LastOne`) comes from the finiteness of the piece.
* `WordingIsTrueAlways`, for an image of any length. `CardInv` says what of the
  card may have changed at each step of the job, `EntryInv` what each record
  stands for once it was given to `emit`, and `AnnouncedInv` the converse: what
  was done to the card has a record that was flushed, and only later ones follow
  it (`Announced`); for the write loop this begins with the second buffer.
  `AnnouncesTruly` proves the three of a worker. Because a run that is not
  `"unread"` has consumed all that the worker flushed, the phase shown is that
  of the record or of a later one (`ShownAfter`).

`ControlProofs` proves `ControlInvariant`, `NoLostRequestAlways` and
`OneRunAlways` for any number of runs and calls. The heart is `RequestInv`: a
run that is past its look at a flag, and a call that has answered, cannot both
have missed each other.

`LinuxProofs` proves `LinuxInvariant`, `SystemUntouchedAlways`,
`VerifierIsExactAlways`, `CallsHitTheCardAlways`, `UnmountIsExactAlways` and
`GetsOnAlways`. `Related` is a least fixpoint over sets of mappings: the proofs
use that it is closed under holders and contained in every closed set, and so
what opening and closing a mapping can change. The strengthenings:

* `SystemSeen`: what the validation has already seen of a card that carries the
  running system, at each of its steps, also when a mapping goes away meanwhile;
  the open descriptor's claim keeps mounts and mappings away afterwards.
* `Checked` and `Collected`: how old the worker's knowledge is. Past its checks
  it has seen the diskseq, and past a validation it has made no destructive
  call; what `unmount` collected is related to the card unless a mapping was
  closed, and is all that is related unless anything changed. `CallsHitTheCard`
  is what follows for each call.
* `Listed`: what is still on the list of `unmount`. An undisturbed list misses
  no mount that another one on it may be waiting for; this carries
  `UnmountIsExact` through a walk that strikes off every mount with the device
  number just unmounted. The theorem holds for volumes that are mounted more
  than once.
* `CleansUp`: the cleanup runs at most twice, and the order in which its steps
  lead to the drive. It gives `GetsOn`: in the order (step of the job and of its
  cleanups, mounts listed, checks of the validation, bytes to read), every call
  of the worker comes nearer to the end, the failing ones too, and nothing in
  the environment takes it back. The theorem also says that each of the numbers
  is finite. `GetsOn` is in no cfg; TLC agrees on the instance of
  `linux_target`.

`WindowsProofs` proves `WindowsInvariant` with `NeverSelfBlocked`,
`EjectProvesTheCard` and `BackToUser`. `OpenWhen` and `LockedWhen` say which
handle and lock exists at which step; because a handle keeps the drive number
with its object, `OnlyTheCard` carries the identity from the check to the write.

`DownloadProofs` proves `DownloadInvariant`, `OnlyRequestedBytesAlways`,
`NothingLeftBehindAlways` and `PublishReplacesNothingAlways`, for any number of
calls and any sizes: there is one partial file, and whoever holds it is the
only one past its creation.

`AlignedReaderProofs` proves that `Slice` returns the bytes at the position for
every sector size, request and result of the device (`SliceIsExact`), and that
consecutive reads join (`ReadsOn`); both backends use it.

`MacProofs` proves, from `MacAssumption` (the only numbers in it are
`Gap < Attempts`), `MacInvariant` with `MissingMeansGoneAlways`,
`CallsHitTheCardAlways` and `GetsOnAlways`. A descriptor is believed because of
`DescriptorIsSelected`: one that was opened under the name for another medium
proves that the selected one has left, for good, so that the lookup that follows
refuses it. `Settles` is the race of the retries and the gap (the attempts
made and what is left of the gap never exceed `Gap`), `Asked` what the pending request of Disk
Arbitration may be, and `HandOver` that neither process waits for the other over
the socket. `GetsOn` and `HandOver` are all of `JobEnds` but the fairness: 18
steps, at most `Attempts` rounds of each lookup, and nothing that goes back.
`GetsOn` is in no cfg.

`AppProofs` proves, from `AppAssumption` (an answer that is accepted carries
manifests, and `None` is none of the other constants), `AppInvariant`,
`NeverLeavesWriterAlways` and `SortedCatalog`. `Fresh`
says that the lists shown are those of the newest request, however late older
ones answer; `Confirmed` and `Told` tie the erase dialog, the operation and the
last screen to one image and one drive; `HeldOpen` keeps the window while the
pipeline may write; `QuitKept`, that a wish to quit is not lost when the
operation it waits for ends, is the safety part of `QuitEnds`. `SortedCatalog`
is about `validate_catalog`, which compares neighbours only: an accepted list of
any length falls strictly from its first release to its last. Its induction is a
least counterexample (`LeastNumber`), because the library's induction theorems
take an operator.

Every safety invariant and every action property of the passing runs is stated
by one of these theorems. Only model-checked are the liveness properties
(`Terminates`, `RunEnds`, `JobEnds`, `QuitEnds`), which need fairness and
ENABLED, and the three runs that show a divergence. The theorems hold for the
models: that a definition is what the code does is a matter of reading them side
by side, with the lines in `PROJECT.json`.

## 5. Not modelled

* The inside of the operating systems: UDisks2, Disk Arbitration, storage
  drivers, `authopen`, UAC, HTTP. Their calls succeed, fail, or answer late.
* The launch hand-over: permissions, ownership, link counts, digests and pinned
  directories (`PrivilegedSession`, `WindowsPrivilegedSession`,
  `bundle_for_executable`, the launch identities). In `Worker` the launch is
  accepted or refused, in `Runner` a changed executable is a fault. These are
  sequences of checks without a loop or a partner; what they compare is the file
  system, and the models would only restate them.
* The classification of drives in `src/drives.rs` (`lsblk`, WMI, IOKit
  properties) and the parsers of sysfs, mountinfo and version numbers: filters
  over text. The models take the set of cards as given.
* The field checks of `validate_job`, `src/main.rs`, logging, drawing,
  formatting, licences, build, packaging and release scripts, and the vendored
  `wayland-scanner`.
* `flash_gzip` and `verify_archive`, which the pipeline does not call.
* In `App`: a panic of the background thread, after which no last event comes.
* What people do with a card after its run has ended. `WordingIsTrue` speaks of
  the selected card, also if it has left the reader.

## 6. Plan

1. A measure for `WindowsTarget` as in `LinuxTarget` and `MacTarget`. The model
   lets a job write for ever; it would have to count the buffers.
2. Relate the backends to `Worker` by more than the order of their calls. They
   do not implement its device steps as they stand: in `Worker` an unmount or an
   eject is of the medium it was validated for, whereas a call on Linux and
   macOS may reach a card that was exchanged after the last look
   (`CallsHitTheCard` says when). A common promise has to be as weak as that.
3. The classification of drives as operators over records, checked against
   "every drive offered is a card and holds nothing of the running system".
4. The launch sessions, if their file checks ever become concurrent with
   something that may change the files.
