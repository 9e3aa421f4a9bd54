-------------------------------- MODULE Worker --------------------------------
(***************************************************************************)
(* The privileged worker: one raw-device job from launch to exit, as run   *)
(* by run_and_report, run_job, stage_raw_image, run_after_unmount and      *)
(* write_raw_from_with_prepare (src/src/worker.rs, src/src/flash.rs).      *)
(*                                                                         *)
(* The worker is sequential; what it races with is its environment: the    *)
(* GUI process creating the cancel and skip marker files, the user pulling *)
(* the card and inserting another one under the same device path, the      *)
(* desktop automounter, faulty media, and failing I/O at every step.       *)
(*                                                                         *)
(* The image is a sequence of Chunks buffers.  A medium identity (diskseq  *)
(* on Linux, IOMedia registry id on macOS) names one insertion of a card   *)
(* and is never given out twice.                                           *)
(***************************************************************************)
EXTENDS Integers, Sequences

CONSTANTS
  Media,      \* identities of the media that are inserted during a run
  Selected,   \* job.drive: the medium the user confirmed
  NoMedium,   \* the empty reader; also "no open handle"
  Volumes,    \* the volumes of a medium that the desktop may mount
  Chunks      \* length of the raw image, in write buffers

ASSUME WorkerAssumption ==
  /\ Selected \in Media
  /\ NoMedium \notin Media
  /\ Chunks \in Nat \ {0}

VARIABLES
  job,            \* [valid, verify]: the serialized WorkerJob
  pc,             \* where the worker is
  error,          \* the WorkerError run_job is returning, or "none"
  staged,         \* the private, unlinked copy of the raw image
  cancelled,      \* WorkerSignals.cancelled
  skip,           \* WorkerSignals.skip_verification
  written,        \* chunks written to the target
  reread,         \* chunks read back by the verification loop
  rereadMatches,  \* the read-back digest still equals the written one
  flash,          \* the FlashError kind, "ok", or "pending"
  verified,       \* FlashReport.verified
  callbackError,  \* callback_error of run_after_unmount
  fd,             \* the medium the open raw handle refers to, or NoMedium
  emitted,        \* records given to JsonLineProgress::emit
  flushed         \* how many of them are complete in the progress file

workerVars == <<job, pc, error, staged, cancelled, skip, written, reread,
                rereadMatches, flash, verified, callbackError, fd, emitted,
                flushed>>

VARIABLES
  slot,           \* the medium in the reader
  fresh,          \* media not inserted yet
  mounted,        \* mounted volumes of the medium in the reader
  card,           \* what every medium holds, chunk by chunk
  dirty,          \* bytes were written through a handle and not yet synced
  cancelMarker,   \* the cancel marker file exists
  skipMarker      \* the skip-verification marker file exists

VARIABLES
  syncFailed,     \* history: a sync_all of the target returned an error
  detached,       \* history: platform.unmount was called
  ejects,         \* history: calls of platform.eject
  lateWrites      \* history: chunks written while the cancel marker existed

deviceVars  == <<slot, fresh, mounted, card, dirty>>
markerVars  == <<cancelMarker, skipMarker>>
historyVars == <<syncFailed, detached, ejects, lateWrites>>
vars        == <<workerVars, deviceVars, markerVars, historyVars>>

-----------------------------------------------------------------------------
(* Values *)

Index    == 1 .. Chunks
Source   == {"image", "other"}                  \* a chunk of the raw file
Content  == Source \cup {"old", "bad"}          \* a chunk of a medium
Phases   == {"ValidatingImage", "ValidatingTarget", "Unmounting", "Writing",
             "Verifying", "Syncing", "Ejecting"}
Finals   == {"Completed", "CompletedUnverified", "Cancelled", "Failed"}
Record   == Phases \cup Finals
ErrorKind == {"InvalidJob", "Cancelled", "Verification", "Io", "Platform",
              "Progress"}
Running  == {"launch", "runJob", "staging", "validate", "unmount",
             "afterUnmount", "revalidate", "open", "opened", "write",
             "prepare", "reopen", "verify", "afterFlash", "sync", "eject",
             "cleanup", "report"}
Stopped  == {"exited", "killed"}

Untouched == [i \in Index |-> "old"]

Init ==
  /\ job \in [valid: BOOLEAN, verify: BOOLEAN]
  /\ pc = "launch"
  /\ error = "none"
  /\ staged = <<>>
  /\ cancelled = FALSE
  /\ skip = FALSE
  /\ written = 0
  /\ reread = 0
  /\ rereadMatches = TRUE
  /\ flash = "pending"
  /\ verified = FALSE
  /\ callbackError = "none"
  /\ fd = NoMedium
  /\ emitted = <<>>
  /\ flushed = 0
  /\ slot = Selected
  /\ fresh = Media \ {Selected}
  /\ mounted \in {{}, Volumes}
  /\ card = [m \in Media |-> Untouched]
  /\ dirty = FALSE
  /\ cancelMarker = FALSE
  /\ skipMarker = FALSE
  /\ syncFailed = FALSE
  /\ detached = FALSE
  /\ ejects = 0
  /\ lateWrites = 0

-----------------------------------------------------------------------------
(* Progress records.  JsonLineProgress buffers a record and flushes it.  A *)
(* failed flush leaves the record, whole or in part, in the BufWriter: a   *)
(* later emit, or the drop of the writer, may still complete it.           *)

Emit(record) ==
  /\ emitted' = Append(emitted, record)
  /\ flushed' = Len(emitted) + 1

EmitFails(record) ==
  /\ emitted' = Append(emitted, record)
  /\ flushed' \in flushed .. Len(emitted)

NoRecord == UNCHANGED <<emitted, flushed>>

(* A record and then `?`: the worker goes on at next, or fails to onError. *)
EmitThen(record, next, onError) ==
  \/ Emit(record) /\ pc' = next /\ UNCHANGED error
  \/ EmitFails(record) /\ pc' = onError /\ error' = "Progress"

(* WorkerSignals::refresh when both markers can be inspected.              *)
Refresh ==
  /\ cancelled' = (cancelled \/ cancelMarker)
  /\ skip' = (skip \/ skipMarker)

(* refresh()? and check_cancelled()? that end the job.                     *)
Stop(onError) ==
  /\ \/ error' = "Platform" /\ UNCHANGED <<cancelled, skip>>
     \/ error' = "Cancelled" /\ Refresh /\ cancelled'
  /\ pc' = onError
  /\ NoRecord

Proceed == Refresh /\ ~cancelled'

Fail(kind, onError) ==
  /\ error' = kind
  /\ pc' = onError
  /\ NoRecord

flashVars  == <<written, reread, rereadMatches, flash, verified, callbackError>>
signalVars == <<cancelled, skip>>

-----------------------------------------------------------------------------
(* Launch, job validation and staging *)

(* run_unix_worker / run_windows_worker: session and job are validated and *)
(* the progress file is opened before anything can be reported.            *)
Launch ==
  /\ pc = "launch"
  /\ \/ job.valid /\ pc' = "runJob" /\ UNCHANGED error
     \/ pc' = "exited" /\ error' = "InvalidJob"
  /\ NoRecord
  /\ UNCHANGED <<job, staged, signalVars, flashVars, fd, deviceVars, historyVars>>

(* validate_job looks at the raw file once more, which may have changed.   *)
RunJob ==
  /\ pc = "runJob"
  /\ \/ Fail("InvalidJob", "report") /\ UNCHANGED signalVars
     \/ Stop("report")
     \/ Proceed /\ EmitThen("ValidatingImage", "staging", "report")
  /\ UNCHANGED <<job, staged, flashVars, fd, deviceVars, historyVars>>

(* One iteration of the copy loop.  The raw file belongs to the desktop    *)
(* user and may change while it is read, so every read may return other    *)
(* bytes than were prepared, or more of them.                              *)
StageChunk ==
  /\ pc = "staging"
  /\ \/ Stop("report") /\ UNCHANGED staged
     \/ /\ Proceed
        /\ \/ Fail("Io", "report") /\ UNCHANGED staged
           \/ Len(staged) = Chunks /\ Fail("Verification", "report") /\ UNCHANGED staged
           \/ /\ Len(staged) < Chunks
              /\ \E chunk \in Source : staged' = Append(staged, chunk)
              /\ EmitThen("ValidatingImage", "staging", "report")
  /\ UNCHANGED <<job, flashVars, fd, deviceVars, historyVars>>

(* Mutated forms are named after the definition that follows them.         *)
StagedMatches_SizeOnly == Len(staged) = Chunks

StagedMatches ==
  /\ Len(staged) = Chunks
  /\ \A i \in Index : staged[i] = "image"

(* End of file, found in an iteration that was not stopped: size and       *)
(* digest of the private copy, validate_staged_image, and the boundary     *)
(* before the target is inspected (its stop is StageChunk's).              *)
StageEnd ==
  /\ pc = "staging"
  /\ Proceed
  /\ \/ ~StagedMatches /\ Fail("Verification", "report")
     \/ StagedMatches /\ Fail("Io", "report")
     \/ StagedMatches /\ EmitThen("ValidatingTarget", "validate", "report")
  /\ UNCHANGED <<job, staged, flashVars, fd, deviceVars, historyVars>>

-----------------------------------------------------------------------------
(* Target validation, unmount and open *)

(* compare_drive(selected, validate_target(selected)).                     *)
TargetUnchanged == slot = Selected

ValidateTarget ==
  /\ pc = "validate"
  /\ \/ Fail("Platform", "report") /\ UNCHANGED signalVars
     \/ TargetUnchanged /\ Stop("report")
     \/ TargetUnchanged /\ Proceed /\ EmitThen("Unmounting", "unmount", "report")
  /\ UNCHANGED <<job, staged, flashVars, fd, deviceVars, historyVars>>

(* platform.unmount revalidates the target itself; it may fail after some  *)
(* of the volumes were detached.  Either failure runs the cleanup eject.   *)
UnmountFailed_NoCleanup == "report"

UnmountFailed == "cleanup"

Unmount ==
  /\ pc = "unmount"
  /\ \/ /\ TargetUnchanged
        /\ mounted' = {}
        /\ pc' = "afterUnmount"
        /\ UNCHANGED error
     \/ /\ mounted' \in IF TargetUnchanged THEN SUBSET mounted ELSE {mounted}
        /\ pc' = UnmountFailed
        /\ error' = "Platform"
  /\ detached' = TRUE
  /\ NoRecord
  /\ UNCHANGED <<job, staged, signalVars, flashVars, fd, slot, fresh, card,
                 dirty, syncFailed, ejects, lateWrites>>

AfterUnmount ==
  /\ pc = "afterUnmount"
  /\ \/ Stop("cleanup")
     \/ Proceed /\ EmitThen("ValidatingTarget", "revalidate", "cleanup")
  /\ UNCHANGED <<job, staged, flashVars, fd, deviceVars, historyVars>>

RevalidateTarget ==
  /\ pc = "revalidate"
  /\ \/ Fail("Platform", "cleanup")
     \/ TargetUnchanged /\ pc' = "open" /\ UNCHANGED error /\ NoRecord
  /\ UNCHANGED <<job, staged, signalVars, flashVars, fd, deviceVars, historyVars>>

(* The raw open is exclusive: it is refused while a volume is mounted.  It *)
(* opens whatever medium is behind the path at that moment.                *)
Openable_Shared == slot # NoMedium

Openable == slot # NoMedium /\ mounted = {}

OpenTarget ==
  /\ pc = "open"
  /\ \/ Fail("Platform", "cleanup") /\ UNCHANGED fd
     \/ /\ Openable
        /\ fd' = slot
        /\ pc' = "opened"
        /\ UNCHANGED error
        /\ NoRecord
  /\ UNCHANGED <<job, staged, signalVars, flashVars, deviceVars, historyVars>>

(* open_target looks the identity up again after the open.                 *)
OpenedSelected_Trusted == TRUE

OpenedSelected == TargetUnchanged

RevalidateOpened ==
  /\ pc = "opened"
  /\ \/ Fail("Platform", "cleanup") /\ fd' = NoMedium
     \/ OpenedSelected /\ pc' = "write" /\ UNCHANGED <<error, fd>> /\ NoRecord
  /\ UNCHANGED <<job, staged, signalVars, flashVars, deviceVars, historyVars>>

-----------------------------------------------------------------------------
(* write_raw_from_with_prepare: the write loop *)

(* The progress callback of run_after_unmount.  Its own failures raise the *)
(* cancelled flag so that the loop stops at the next iteration.            *)
Callback_NoRefresh(record) ==
  /\ Emit(record)
  /\ UNCHANGED <<callbackError, cancelled, skip>>

Callback_Unflushed(record) ==
  /\ Refresh
  /\ emitted' = Append(emitted, record)
  /\ flushed' \in flushed .. Len(emitted)
  /\ UNCHANGED callbackError

Callback(record) ==
  \/ /\ callbackError' = "Platform"
     /\ cancelled' = TRUE
     /\ UNCHANGED skip
     /\ NoRecord
  \/ Refresh /\ Emit(record) /\ UNCHANGED callbackError
  \/ /\ callbackError' = "Progress"
     /\ cancelled' = TRUE
     /\ skip' = (skip \/ skipMarker)
     /\ EmitFails(record)

(* The loops end with a FlashError, or with a report.                      *)
FlashEnds(result) ==
  /\ flash' = result
  /\ pc' = "afterFlash"
  /\ NoRecord
  /\ UNCHANGED <<error, signalVars, written, reread, rereadMatches, callbackError>>

PutChunk(content) ==
  card' = [card EXCEPT ![fd][written + 1] = content]

(* A faulty medium may accept a chunk and store something else.            *)
WriteChunk ==
  /\ pc = "write"
  /\ ~cancelled
  /\ written < Len(staged)
  /\ fd = slot
  /\ \E content \in {staged[written + 1], "bad"} : PutChunk(content)
  /\ dirty' = TRUE
  /\ written' = written + 1
  /\ lateWrites' = IF cancelMarker THEN lateWrites + 1 ELSE lateWrites
  /\ Callback("Writing")
  /\ UNCHANGED <<job, pc, error, staged, reread, rereadMatches, flash, verified,
                 fd, slot, fresh, mounted, syncFailed, detached, ejects>>

(* A failed write_all may have stored a part of the chunk.                 *)
WriteFails ==
  /\ pc = "write"
  /\ ~cancelled
  /\ \/ UNCHANGED <<card, dirty>>
     \/ /\ written < Len(staged)
        /\ fd = slot
        /\ PutChunk("bad")
        /\ dirty' = TRUE
  /\ FlashEnds("Io")
  /\ UNCHANGED <<job, staged, verified, fd, slot, fresh, mounted, historyVars>>

WriteCancelled ==
  /\ pc = "write"
  /\ cancelled
  /\ FlashEnds("Cancelled")
  /\ UNCHANGED <<job, staged, verified, fd, deviceVars, historyVars>>

(* End of the image: flush, and decide whether to verify.                  *)
WriteEnd ==
  /\ pc = "write"
  /\ ~cancelled
  /\ written = Len(staged)
  /\ IF job.verify /\ ~skip
       THEN pc' = "prepare" /\ UNCHANGED flash
       ELSE pc' = "afterFlash" /\ flash' = "ok"
  /\ NoRecord
  /\ UNCHANGED <<job, error, staged, signalVars, written, reread, rereadMatches,
                 verified, callbackError, fd, deviceVars, historyVars>>

-----------------------------------------------------------------------------
(* write_raw_from_with_prepare: verification *)

(* prepare_verification first revalidates, syncs and closes the writer ... *)
PrepareVerification ==
  /\ pc = "prepare"
  /\ \/ FlashEnds("Io") /\ UNCHANGED <<fd, dirty>>
     \/ /\ TargetUnchanged
        /\ dirty' = FALSE
        /\ fd' = NoMedium
        /\ pc' = "reopen"
        /\ NoRecord
        /\ UNCHANGED <<error, signalVars, written, reread, rereadMatches, flash,
                       callbackError>>
  /\ UNCHANGED <<job, staged, verified, slot, fresh, mounted, card, historyVars>>

ReopenForVerification_Retried ==
  /\ pc = "reopen"
  /\ \/ pc' = "prepare" /\ NoRecord /\ UNCHANGED <<error, signalVars, flashVars, fd>>
     \/ /\ Openable
        /\ TargetUnchanged
        /\ fd' = slot
        /\ pc' = "verify"
        /\ NoRecord
        /\ UNCHANGED <<error, signalVars, flashVars>>
  /\ UNCHANGED <<job, staged, deviceVars, historyVars>>

(* ... and then opens an exclusive, cache-bypassing reader and revalidates *)
(* once more.  In between no handle keeps the automounter away.            *)
ReopenForVerification ==
  /\ pc = "reopen"
  /\ \/ FlashEnds("Io") /\ UNCHANGED fd
     \/ /\ Openable
        /\ TargetUnchanged
        /\ fd' = slot
        /\ pc' = "verify"
        /\ NoRecord
        /\ UNCHANGED <<error, signalVars, written, reread, rereadMatches, flash,
                       callbackError>>
  /\ UNCHANGED <<job, staged, verified, deviceVars, historyVars>>

(* What the verification loop reads: the medium, not the pages this        *)
(* process wrote.                                                          *)
ReadBack_Cached(i) == staged[i]

ReadBack(i) == card[fd][i]

VerifyChunk ==
  /\ pc = "verify"
  /\ ~cancelled
  /\ ~skip
  /\ reread < written
  /\ fd = slot
  /\ rereadMatches' = (rereadMatches /\ ReadBack(reread + 1) = staged[reread + 1])
  /\ reread' = reread + 1
  /\ Callback("Verifying")
  /\ UNCHANGED <<job, pc, error, staged, written, flash, verified, fd, deviceVars,
                 historyVars>>

(* The flags are looked at before each read, and not after the last one.   *)
VerifyStops ==
  /\ pc = "verify"
  /\ reread < written
  /\ \/ cancelled /\ FlashEnds("Cancelled")
     \/ ~cancelled /\ skip /\ FlashEnds("ok")
     \/ ~cancelled /\ ~skip /\ FlashEnds("Io")
     \/ ~cancelled /\ ~skip /\ FlashEnds("Verification")
  /\ UNCHANGED <<job, staged, verified, fd, deviceVars, historyVars>>

VerifyEnd ==
  /\ pc = "verify"
  /\ reread = written
  /\ IF rereadMatches
       THEN FlashEnds("ok") /\ verified' = TRUE
       ELSE FlashEnds("Verification") /\ UNCHANGED verified
  /\ UNCHANGED <<job, staged, fd, deviceVars, historyVars>>

-----------------------------------------------------------------------------
(* run_after_unmount after the flash, and the cleanup of run_job *)

(* let _ = target.sync_all(); drop(target).  Once the writer was closed    *)
(* by prepare_verification there is nothing left that could fail to sync.  *)
SyncAndDrop_DropOnly ==
  /\ fd' = NoMedium
  /\ UNCHANGED <<dirty, syncFailed>>

SyncAndDrop ==
  /\ \/ /\ dirty => fd = slot
        /\ dirty' = FALSE
        /\ UNCHANGED syncFailed
     \/ dirty /\ syncFailed' = TRUE /\ UNCHANGED dirty
  /\ fd' = NoMedium

AbortFlash(kind) ==
  /\ error' = kind
  /\ pc' = "cleanup"
  /\ SyncAndDrop
  /\ NoRecord

(* callback_error is looked at before the cancelled flag it has raised.    *)
CallbackFailed == callbackError # "none"

(* The report is accepted only if it accounts for the whole image.         *)
ReportError ==
  IF flash # "ok" THEN flash
  ELSE IF written = Chunks /\ StagedMatches THEN "none" ELSE "Verification"

AfterFlash ==
  /\ pc = "afterFlash"
  /\ \/ CallbackFailed /\ AbortFlash(callbackError) /\ UNCHANGED signalVars
     \/ ~CallbackFailed /\ AbortFlash("Platform") /\ UNCHANGED signalVars
     \/ ~CallbackFailed /\ Refresh /\ cancelled' /\ AbortFlash("Cancelled")
     \/ ~CallbackFailed /\ Proceed /\ ReportError # "none" /\ AbortFlash(ReportError)
     \/ /\ ~CallbackFailed
        /\ Proceed
        /\ ReportError = "none"
        /\ \/ /\ Emit("Syncing")
              /\ pc' = "sync"
              /\ UNCHANGED <<error, fd, dirty, syncFailed>>
           \/ /\ EmitFails("Syncing")
              /\ pc' = "cleanup"
              /\ error' = "Progress"
              /\ SyncAndDrop
  /\ UNCHANGED <<job, staged, flashVars, slot, fresh, mounted, card, detached,
                 ejects, lateWrites>>

SyncTarget ==
  /\ pc = "sync"
  /\ \/ /\ dirty
        /\ syncFailed' = TRUE
        /\ Fail("Io", "cleanup")
        /\ UNCHANGED dirty
     \/ /\ dirty => fd = slot
        /\ dirty' = FALSE
        /\ EmitThen("Ejecting", "eject", "cleanup")
        /\ UNCHANGED syncFailed
  /\ fd' = NoMedium
  /\ UNCHANGED <<job, staged, signalVars, flashVars, slot, fresh, mounted, card,
                 detached, ejects, lateWrites>>

(* platform.eject revalidates the target, unmounts what the automounter    *)
(* brought back, and powers the medium off.  (On Windows the medium is     *)
(* left in the reader with its handles closed: WindowsTarget.)             *)
EjectSucceeds ==
  /\ TargetUnchanged
  /\ slot' = NoMedium
  /\ mounted' = {}

EjectFails ==
  /\ mounted' \in IF TargetUnchanged THEN SUBSET mounted ELSE {mounted}
  /\ UNCHANGED slot

CompletedRecord == IF verified THEN "Completed" ELSE "CompletedUnverified"

(* platform.eject(..)?; progress.emit(completed)?                          *)
EjectThenComplete_Swapped ==
  \/ EjectSucceeds /\ EmitThen(CompletedRecord, "exited", "cleanup")
  \/ EjectFails /\ Emit(CompletedRecord) /\ error' = "Platform" /\ pc' = "cleanup"

EjectThenComplete ==
  \/ EjectSucceeds /\ EmitThen(CompletedRecord, "exited", "cleanup")
  \/ EjectFails /\ Fail("Platform", "cleanup")

EjectTarget ==
  /\ pc = "eject"
  /\ EjectThenComplete
  /\ ejects' = ejects + 1
  /\ UNCHANGED <<job, staged, signalVars, flashVars, fd, fresh, card, dirty,
                 syncFailed, detached, lateWrites>>

CleanupEject_Propagates ==
  /\ pc = "cleanup"
  /\ \/ EjectSucceeds /\ pc' = "report" /\ NoRecord /\ UNCHANGED error
     \/ EjectFails /\ Fail("Platform", "report")
  /\ ejects' = ejects + 1
  /\ UNCHANGED <<job, staged, signalVars, flashVars, fd, fresh, card, dirty,
                 syncFailed, detached, lateWrites>>

(* let _ = platform.eject(..): the primary error survives.                 *)
CleanupEject ==
  /\ pc = "cleanup"
  /\ EjectSucceeds \/ EjectFails
  /\ ejects' = ejects + 1
  /\ pc' = "report"
  /\ NoRecord
  /\ UNCHANGED <<job, error, staged, signalVars, flashVars, fd, fresh, card, dirty,
                 syncFailed, detached, lateWrites>>

(* run_and_report: the last record, then the drop of the BufWriter, which  *)
(* may flush what earlier failed flushes have left.                        *)
ReportFailure ==
  /\ pc = "report"
  /\ emitted' = Append(emitted, IF error = "Cancelled" THEN "Cancelled" ELSE "Failed")
  /\ \/ flushed' = Len(emitted) + 1 /\ UNCHANGED error
     \/ flushed' \in flushed .. Len(emitted) + 1 /\ error' = "Progress"
  /\ pc' = "exited"
  /\ UNCHANGED <<job, staged, signalVars, flashVars, fd, deviceVars, historyVars>>

WorkerStep ==
  /\ \/ Launch \/ RunJob \/ StageChunk \/ StageEnd
     \/ ValidateTarget \/ Unmount \/ AfterUnmount \/ RevalidateTarget
     \/ OpenTarget \/ RevalidateOpened
     \/ WriteChunk \/ WriteFails \/ WriteCancelled \/ WriteEnd
     \/ PrepareVerification \/ ReopenForVerification
     \/ VerifyChunk \/ VerifyStops \/ VerifyEnd
     \/ AfterFlash \/ SyncTarget \/ EjectTarget \/ CleanupEject \/ ReportFailure
  /\ UNCHANGED markerVars

-----------------------------------------------------------------------------
(* The environment *)

TouchCancel ==
  /\ ~cancelMarker
  /\ cancelMarker' = TRUE
  /\ UNCHANGED <<workerVars, deviceVars, historyVars, skipMarker>>

TouchSkip ==
  /\ ~skipMarker
  /\ skipMarker' = TRUE
  /\ UNCHANGED <<workerVars, deviceVars, historyVars, cancelMarker>>

RemoveMedium ==
  /\ slot # NoMedium
  /\ slot' = NoMedium
  /\ mounted' = {}
  /\ UNCHANGED <<workerVars, markerVars, historyVars, fresh, card, dirty>>

InsertMedium ==
  /\ slot = NoMedium
  /\ \E m \in fresh : slot' = m /\ fresh' = fresh \ {m}
  /\ UNCHANGED <<workerVars, markerVars, historyVars, mounted, card, dirty>>

(* An exclusive handle on the medium keeps the automounter away.           *)
Automount ==
  /\ slot # NoMedium
  /\ fd # slot
  /\ mounted # Volumes
  /\ mounted' = Volumes
  /\ UNCHANGED <<workerVars, markerVars, historyVars, slot, fresh, card, dirty>>

(* SIGKILL by the runner, or a crash: the kernel closes the handle.        *)
Kill ==
  /\ pc \in Running
  /\ pc' = "killed"
  /\ fd' = NoMedium
  /\ UNCHANGED <<job, error, staged, signalVars, flashVars, emitted, flushed,
                 deviceVars, markerVars, historyVars>>

Environment ==
  TouchCancel \/ TouchSkip \/ RemoveMedium \/ InsertMedium \/ Automount \/ Kill

Next == WorkerStep \/ Environment

Spec == Init /\ [][Next]_vars

(* Nothing in the job waits for anybody: a running process is scheduled,   *)
(* its system calls return.  The environment owes nothing.                 *)
FairSpec == Spec /\ WF_vars(WorkerStep)

-----------------------------------------------------------------------------
(* Properties *)

ControlType ==
  /\ job \in [valid: BOOLEAN, verify: BOOLEAN]
  /\ pc \in Running \cup Stopped
  /\ error \in ErrorKind \cup {"none"}
  /\ cancelled \in BOOLEAN
  /\ skip \in BOOLEAN
  /\ cancelMarker \in BOOLEAN
  /\ skipMarker \in BOOLEAN

StageType ==
  /\ staged \in Seq(Source)
  /\ Len(staged) <= Chunks

FlashType ==
  /\ written \in 0 .. Chunks
  /\ reread \in 0 .. Chunks
  /\ rereadMatches \in BOOLEAN
  /\ flash \in {"pending", "ok", "Io", "Cancelled", "Verification"}
  /\ verified \in BOOLEAN
  /\ callbackError \in {"none", "Platform", "Progress"}

LogType ==
  /\ emitted \in Seq(Record)
  /\ flushed \in 0 .. Len(emitted)

DeviceType ==
  /\ fd \in Media \cup {NoMedium}
  /\ slot \in Media \cup {NoMedium}
  /\ fresh \in SUBSET Media
  /\ mounted \in SUBSET Volumes
  /\ card \in [Media -> [Index -> Content]]
  /\ dirty \in BOOLEAN

HistoryType ==
  /\ syncFailed \in BOOLEAN
  /\ detached \in BOOLEAN
  /\ ejects \in Nat
  /\ lateWrites \in Nat

(* Every variable keeps to its type.                                       *)
TypeOK ==
  ControlType /\ StageType /\ FlashType /\ LogType /\ DeviceType /\ HistoryType

(* A record the GUI process can read from the progress file.               *)
Visible(record) == \E i \in 1 .. flushed : emitted[i] = record

(* Whatever is unplugged and inserted under the same device path, no byte  *)
(* reaches a medium other than the one the user confirmed: compare_drive   *)
(* before and after the raw open.                                          *)
OnlySelectedWritten == \A m \in Media \ {Selected} : card[m] = Untouched

(* Only bytes of the private copy whose size and digest were checked are   *)
(* written, however the raw file changes while the worker stages it.       *)
OnlyCheckedBytesWritten == \A i \in Index : card[Selected][i] # "other"

(* A chunk is written only while no volume of the medium is mounted, even  *)
(* if the automounter comes back between unmount and open.                 *)
NoWriteUnderMount == [][card' # card => mounted = {}]_vars

(* architecture.md: every exit after destructive access syncs the open     *)
(* target.  Once the worker lets go of the target by itself, nothing it    *)
(* wrote is unsynced unless a sync was tried and failed.                   *)
SyncedBeforeRelease ==
  fd = NoMedium /\ pc # "killed" /\ dirty => syncFailed

(* Once unmount was called, the worker does not exit before the platform's *)
(* eject was tried, on every path out of run_job.                          *)
EjectTried == pc = "exited" /\ detached => ejects >= 1

(* A verified success is true of the medium itself: every chunk it holds   *)
(* is the image's, although the medium may store other bytes than it was   *)
(* given and the user may skip, cancel or pull the card at any time.       *)
VerifiedIsTrue ==
  Visible("Completed") => \A i \in Index : card[Selected][i] = "image"

(* A success record, verified or not, is visible only when all chunks were *)
(* written and synced, the handle is closed and the medium is detached, so *)
(* that the card may be pulled.                                            *)
CompletedIsDurable ==
  Visible("Completed") \/ Visible("CompletedUnverified") =>
    written = Chunks /\ ~dirty /\ fd = NoMedium /\ slot # Selected

(* An unverified success is reported only if the job asked for it or the   *)
(* skip marker was created.                                                *)
UnverifiedOnlyIfAsked ==
  Visible("CompletedUnverified") => ~job.verify \/ skipMarker

(* A cancelled record answers a cancel marker.  A failing progress file    *)
(* raises the same flag to stop the loop, and must not be reported as the  *)
(* user's cancellation.                                                    *)
CancelledOnlyIfRequested == Visible("Cancelled") => cancelMarker

(* After the cancel marker appears at most one more chunk is written.      *)
StopsSoonAfterCancel == lateWrites <= 1

(* The exit status agrees with the progress file: the process succeeds     *)
(* only if its last record is a complete success record, and a success     *)
(* record with something after it belongs to a failing process.            *)
ExitAgreesWithLog ==
  /\ pc = "exited" /\ error = "none" =>
       /\ flushed = Len(emitted)
       /\ flushed > 0
       /\ emitted[flushed] \in {"Completed", "CompletedUnverified"}
  /\ \A i \in 1 .. Len(emitted) - 1 :
       emitted[i] \in {"Completed", "CompletedUnverified"} => error # "none"

(* A failing cleanup never replaces the error that ended the job; only a   *)
(* failing emit of the last record does (run_and_report).                  *)
PrimaryErrorSurvives ==
  [][error # "none" /\ pc # "report" => error' = error]_vars

(* How many steps the worker may still make: the labels ahead of it, and a *)
(* step for each chunk that is still to stage, to write or to read back.   *)
Ahead ==
  [launch |-> 19, runJob |-> 18, staging |-> 17, validate |-> 16, unmount |-> 15,
   afterUnmount |-> 14, revalidate |-> 13, open |-> 12, opened |-> 11, write |-> 10,
   prepare |-> 9, reopen |-> 8, verify |-> 7, afterFlash |-> 6, sync |-> 5, eject |-> 4,
   cleanup |-> 3, report |-> 2, exited |-> 0, killed |-> 0]

StepsLeft ==
  Ahead[pc] + (Chunks - Len(staged)) + (Chunks - written) + (Chunks - reread)

(* No loop of the job goes round without getting on, and nothing outside   *)
(* sends the worker back: it makes at most 19 + 3 * Chunks steps.          *)
StepsRunOut ==
  [][IF WorkerStep THEN StepsLeft' < StepsLeft ELSE StepsLeft' <= StepsLeft]_vars

(* The worker gets to its exit, whatever fails on the way.                 *)
Terminates == <>(pc \in Stopped)

-----------------------------------------------------------------------------
(* The inductive invariant, part by part.                                  *)

(* The flash has a result whenever run_after_unmount looks at it.          *)
FlashDecided == pc = "afterFlash" => flash # "pending"

Early    == {"launch", "runJob", "staging", "validate", "unmount"}
Prewrite == Early \cup {"afterUnmount", "revalidate", "open", "opened"}
Holding  == {"opened", "write", "prepare", "verify", "afterFlash", "sync"}
Staged   == (Running \ {"launch", "runJob", "staging", "cleanup", "report"})
Healthy  == Running \ {"cleanup", "report"}
Success  == {"Completed", "CompletedUnverified"}

(* Which medium the handle refers to.  The identity of the selected medium *)
(* is not given out again, so a lookup after the open that still finds it  *)
(* shows that it was behind the path when the handle was opened.           *)
MediumInv ==
  /\ Selected \notin fresh
  /\ pc = "opened" /\ slot = Selected => fd = Selected
  /\ pc \in {"write", "prepare", "verify"} => fd = Selected
  /\ pc \in {"afterFlash", "sync"} => fd \in {Selected, NoMedium}
  /\ pc \notin Holding => fd = NoMedium

(* What is staged once the digest was checked.                             *)
StagedInv == pc \in Staged => StagedMatches

(* Unsynced bytes exist only while the writer is open, or after a sync     *)
(* that failed.                                                            *)
ReleaseInv ==
  /\ pc \in Prewrite \cup {"reopen", "verify", "eject"} => ~dirty
  /\ SyncedBeforeRelease

(* How often the medium was ejected.                                       *)
EjectInv ==
  /\ pc \in Early => ~detached
  /\ pc = "report" /\ detached => ejects >= 1
  /\ EjectTried

(* What the write and the verification loop have done so far.              *)
FlashInv ==
  /\ pc \in {"prepare", "reopen", "verify", "sync", "eject"} => written = Chunks
  /\ pc \in {"sync", "eject"} => flash = "ok"
  /\ flash = "ok" => written = Chunks
  /\ pc \in Prewrite \cup {"write", "prepare", "reopen"} => reread = 0
  /\ pc \in Prewrite \cup {"write", "prepare", "reopen", "verify"} =>
       flash = "pending" /\ ~verified
  /\ pc = "verify" /\ rereadMatches =>
       \A i \in 1 .. reread : card[Selected][i] = staged[i]
  /\ verified => \A i \in Index : card[Selected][i] = "image"

(* Where the flags come from.                                              *)
SignalInv ==
  /\ skip => skipMarker
  /\ cancelled => cancelMarker \/ callbackError # "none"
  /\ pc \in Prewrite => callbackError = "none"
  /\ error = "Cancelled" => cancelMarker
  /\ flash = "Cancelled" => cancelled
  /\ flash = "ok" /\ ~verified => ~job.verify \/ skip
  /\ StopsSoonAfterCancel
  /\ lateWrites > 0 => cancelled

(* What has been given to the log, on disk or still in the BufWriter.      *)
RecordInv ==
  /\ pc \in Healthy => error = "none"
  /\ pc \in {"cleanup", "report"} => error # "none"
  /\ \A i \in 1 .. Len(emitted) :
       /\ emitted[i] \in Success =>
            /\ pc \notin Healthy
            /\ written = Chunks /\ ~dirty /\ fd = NoMedium /\ slot # Selected
       /\ emitted[i] = "Completed" => verified
       /\ emitted[i] = "CompletedUnverified" => ~verified /\ flash = "ok"
       /\ emitted[i] = "Cancelled" => cancelMarker
  /\ ExitAgreesWithLog

(* The inductive invariant: types, what the open handle refers to, what    *)
(* was staged, synced, ejected and flashed so far, what the signals stand  *)
(* for, and what the records in the log mean at each point of run_job.     *)
IndInv ==
  /\ TypeOK
  /\ FlashDecided
  /\ MediumInv /\ OnlySelectedWritten
  /\ StagedInv /\ OnlyCheckedBytesWritten
  /\ ReleaseInv
  /\ EjectInv
  /\ FlashInv
  /\ SignalInv
  /\ RecordInv
=============================================================================
