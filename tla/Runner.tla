------------------------------- MODULE Runner -------------------------------
(***************************************************************************)
(* The desktop side of a running job, composed with Worker: the monitor    *)
(* loop of WorkerRunner::run on the three platforms                        *)
(* (src/src/pipeline/{linux,macos,windows}.rs), the user's cancel(), and   *)
(* what run_pipeline and the last screen make of the result.  The loops    *)
(* know nothing of skip_verification(): Worker and PipelineControl model   *)
(* it.                                                                     *)
(*                                                                         *)
(* The loop and the worker run at the same time: every step of an          *)
(* iteration is an action of its own.  The loop reads the progress file    *)
(* incrementally, writes marker files, and on Unix kills the worker.       *)
(***************************************************************************)
EXTENDS Worker, Screen

CONSTANTS
  Platforms,   \* subset of {"linux", "macos", "windows"}
  Faults,      \* what may go wrong around the worker, subset of FaultKinds
  Acts         \* what people do during the run, subset of ActKinds

FaultKinds == {"identity",  \* the executable or the job changes at launch
               "read",      \* the progress file is unreadable or invalid
               "touch",     \* a marker file cannot be created
               "kill",      \* the signal cannot be sent
               "serve",     \* authopen is refused, or the socket breaks
               "wait"}      \* the state of the process is unknown

ActKinds == {"cancel", "card"}  \* card: pull it, insert one, mount it

ASSUME RunnerAssumption ==
  /\ Platforms \subseteq {"linux", "macos", "windows"}
  /\ Faults \subseteq FaultKinds
  /\ Acts \subseteq ActKinds

VARIABLES
  platform,          \* which runner this is
  step,              \* where the loop is
  monitorError,      \* monitor_error.is_some()
  cancellationSent,  \* cancellation_sent
  sawEvent,          \* ProgressTail.saw_event
  consumed,          \* records the tail has read
  terminal,          \* the last terminal record it has read, or "none"
  socket,            \* the authorized target socket of macOS
  cancelFlag,        \* PipelineControl.cancelled
  result,            \* of WorkerRunner::run, or "pending"; an error is
                     \* "unread" if the run did not read the tail to its
                     \* end, and "failed" if it did
  outcome            \* of run_pipeline, or "pending"

loopVars   == <<platform, step, monitorError, cancellationSent, sawEvent, consumed,
                terminal, socket, cancelFlag, result, outcome>>
runnerVars == <<vars, loopVars>>

(* The pipeline serializes valid jobs only, for an inserted card.          *)
RunnerInit ==
  /\ Init
  /\ job.valid
  /\ platform \in Platforms
  /\ step = "spawn"
  /\ monitorError = FALSE
  /\ cancellationSent = FALSE
  /\ sawEvent = FALSE
  /\ consumed = 0
  /\ terminal = "none"
  /\ socket = "idle"
  /\ cancelFlag = FALSE
  /\ result = "pending"
  /\ outcome = "pending"

Unix == platform \in {"linux", "macos"}

-----------------------------------------------------------------------------
(* The loop *)

workerAlone == <<workerVars, deviceVars, historyVars, skipMarker>>

(* let _ = touch_marker(cancel_path): a failure is ignored.                *)
TryTouchCancel ==
  cancelMarker' \in {TRUE} \cup (IF "touch" \in Faults THEN {cancelMarker} ELSE {})

(* SIGKILL, or nothing if the worker has stopped by itself.                *)
KillOrStopped == Kill \/ (pc \in Stopped /\ UNCHANGED vars)

(* ElevatedProcess::spawn.  On Unix the pinned files are compared once the *)
(* child runs, and it is killed and reaped if they have changed.  A UAC    *)
(* launch that fails has started nothing.                                  *)
Spawn ==
  /\ step = "spawn"
  /\ \/ step' = "identity" /\ UNCHANGED <<vars, result>>
     \/ /\ "identity" \in Faults
        /\ Unix \/ pc = "launch"
        /\ KillOrStopped
        /\ step' = "returned"
        /\ result' = "unread"
  /\ UNCHANGED <<platform, monitorError, cancellationSent, sawEvent, consumed,
                 terminal, socket, cancelFlag, outcome>>

(* launch_identity.ensure_unchanged, until the worker has spoken.          *)
CheckIdentity ==
  /\ step = "identity"
  /\ \/ step' = "drain" /\ UNCHANGED <<monitorError, cancelMarker>>
     \/ /\ "identity" \in Faults
        /\ Unix /\ ~monitorError /\ ~sawEvent
        /\ monitorError' = TRUE
        /\ TryTouchCancel
        /\ step' = "killOnError"
  /\ UNCHANGED <<workerAlone, platform, cancellationSent, sawEvent, consumed,
                 terminal, socket, cancelFlag, result, outcome>>

(* ProgressTail::drain hands over the records that are complete.           *)
LastTerminal(last) ==
  IF \E i \in consumed + 1 .. last : emitted[i] \in Finals
    THEN emitted[CHOOSE i \in consumed + 1 .. last :
                   /\ emitted[i] \in Finals
                   /\ \A j \in i + 1 .. last : emitted[j] \notin Finals]
    ELSE terminal

HandOver_CutOff(last) ==
  /\ consumed' = Len(emitted)
  /\ sawEvent' = (sawEvent \/ consumed < Len(emitted))
  /\ terminal' = LastTerminal(last)

HandOver(last) ==
  /\ consumed' = last
  /\ sawEvent' = (sawEvent \/ consumed < last)
  /\ terminal' = LastTerminal(last)

Drain ==
  /\ step = "drain"
  /\ \/ /\ monitorError
        /\ step' = "cancel"
        /\ UNCHANGED <<monitorError, sawEvent, consumed, terminal, cancelMarker>>
     \/ /\ ~monitorError
        /\ HandOver(flushed)
        /\ step' = "cancel"
        /\ UNCHANGED <<monitorError, cancelMarker>>
     \/ /\ "read" \in Faults /\ ~monitorError
        /\ \E last \in consumed .. flushed : HandOver(last)
        /\ monitorError' = TRUE
        /\ TryTouchCancel
        /\ step' = IF Unix /\ ~sawEvent' THEN "killOnError" ELSE "cancel"
  /\ UNCHANGED <<workerAlone, platform, cancellationSent, socket, cancelFlag,
                 result, outcome>>

(* The user's request, seen once.  Its marker may fail to be created.      *)
SeeCancel ==
  /\ step = "cancel"
  /\ IF cancelFlag /\ ~cancellationSent
       THEN /\ \/ cancelMarker' = TRUE /\ UNCHANGED monitorError
               \/ "touch" \in Faults /\ TryTouchCancel /\ monitorError' = TRUE
            /\ cancellationSent' = TRUE
            /\ step' = IF Unix /\ ~sawEvent THEN "killOnCancel" ELSE "serve"
       ELSE /\ step' = "serve"
            /\ UNCHANGED <<cancelMarker, monitorError, cancellationSent>>
  /\ UNCHANGED <<workerAlone, platform, sawEvent, consumed, terminal, socket,
                 cancelFlag, result, outcome>>

(* process.request_stop(): SIGKILL.  A child that has exited is left as it *)
(* is.  An error is a monitor error of the cancellation only.              *)
KillWorker ==
  /\ step \in {"killOnError", "killOnCancel", "killOnServe"}
  /\ \/ KillOrStopped /\ UNCHANGED monitorError
     \/ /\ "kill" \in Faults
        /\ monitorError' = (monitorError \/ step = "killOnCancel")
        /\ UNCHANGED vars
  /\ step' = CASE step = "killOnError"  -> "cancel"
               [] step = "killOnCancel" -> "serve"
               [] step = "killOnServe"  -> "wait"
  /\ UNCHANGED <<platform, cancellationSent, sawEvent, consumed, terminal, socket,
                 cancelFlag, result, outcome>>

(* AuthorizedTargetListener::try_serve: authopen opens the raw device in   *)
(* this process and the descriptor is passed to the waiting worker.  The   *)
(* open is the worker's OpenTarget, made on its behalf.                    *)
CanServe == platform = "macos" /\ ~monitorError

Serve ==
  /\ step = "serve"
  /\ \/ /\ CanServe /\ socket = "requested" /\ pc = "open"
        /\ OpenTarget /\ pc' = "opened"
        /\ socket' = "served"
        /\ step' = "wait"
        /\ UNCHANGED <<monitorError, markerVars>>
     \/ /\ "serve" \in Faults /\ CanServe /\ socket # "served"
        /\ socket' = IF socket = "requested" THEN "closed" ELSE socket
        /\ monitorError' = TRUE
        /\ TryTouchCancel
        /\ step' = "killOnServe"
        /\ UNCHANGED workerAlone
     \/ /\ CanServe /\ socket = "requested" => pc # "open"
        /\ step' = "wait"
        /\ UNCHANGED <<vars, socket, monitorError>>
  /\ UNCHANGED <<platform, cancellationSent, sawEvent, consumed, terminal,
                 cancelFlag, result, outcome>>

TryWait_UntilTold ==
  /\ step = "wait"
  /\ \/ pc \in Stopped /\ terminal # "none" /\ step' = "finish" /\ UNCHANGED cancelMarker
     \/ /\ pc \notin Stopped \/ terminal = "none"
        /\ step' = "identity" /\ UNCHANGED cancelMarker
     \/ "wait" \in Faults /\ step' = "reap" /\ TryTouchCancel
  /\ UNCHANGED <<workerAlone, platform, monitorError, cancellationSent, sawEvent,
                 consumed, terminal, socket, cancelFlag, result, outcome>>

(* process.try_wait().                                                     *)
TryWait ==
  /\ step = "wait"
  /\ \/ pc \in Stopped /\ step' = "finish" /\ UNCHANGED cancelMarker
     \/ pc \notin Stopped /\ step' = "identity" /\ UNCHANGED cancelMarker
     \/ "wait" \in Faults /\ step' = "reap" /\ TryTouchCancel
  /\ UNCHANGED <<workerAlone, platform, monitorError, cancellationSent, sawEvent,
                 consumed, terminal, socket, cancelFlag, result, outcome>>

(* The status cannot be polled: wait for the worker, however long it runs. *)
Reap ==
  /\ step = "reap"
  /\ pc \in Stopped
  /\ step' = "returned"
  /\ result' = "unread"
  /\ UNCHANGED <<vars, platform, monitorError, cancellationSent, sawEvent, consumed,
                 terminal, socket, cancelFlag, outcome>>

(* That fails too.  The Unix handle kills and reaps the worker as it is    *)
(* dropped; Windows lets go of it.                                         *)
WaitFails ==
  /\ step = "reap"
  /\ IF Unix THEN KillOrStopped ELSE UNCHANGED vars
  /\ step' = "returned"
  /\ result' = "unread"
  /\ UNCHANGED <<platform, monitorError, cancellationSent, sawEvent, consumed,
                 terminal, socket, cancelFlag, outcome>>

Finish_NotRead ==
  /\ step = "finish"
  /\ step' = "returned"
  /\ result' = IF ~monitorError /\ pc = "exited" /\ error = "none" THEN "ok" ELSE "failed"
  /\ UNCHANGED <<vars, platform, monitorError, cancellationSent, sawEvent, consumed,
                 terminal, socket, cancelFlag, outcome>>

(* tail.finish, process.finish.  A record that was cut off is an error.    *)
(* After a monitor error the tail is not read again.                       *)
Finish ==
  /\ step = "finish"
  /\ step' = "returned"
  /\ \/ /\ monitorError
        /\ result' = "unread"
        /\ UNCHANGED <<monitorError, sawEvent, consumed, terminal>>
     \/ /\ ~monitorError
        /\ HandOver(flushed)
        /\ \/ result' = IF pc = "exited" /\ error = "none" THEN "ok" ELSE "failed"
           \/ "wait" \in Faults /\ result' = "failed"
        /\ UNCHANGED monitorError
     \/ /\ "read" \in Faults /\ ~monitorError
        /\ \E last \in consumed .. flushed : HandOver(last)
        /\ monitorError' = TRUE
        /\ result' = "unread"
  /\ UNCHANGED <<vars, platform, cancellationSent, socket, cancelFlag, outcome>>

Outcome_StatusIgnored ==
  IF cancelFlag THEN "Cancelled"
  ELSE CASE terminal = "Completed" -> "Verified"
         [] terminal = "CompletedUnverified" -> "Unverified"
         [] terminal = "Cancelled" -> "Cancelled"
         [] terminal \in {"Failed", "none"} -> "Error"

(* run_pipeline after runner.run.                                          *)
Outcome ==
  IF cancelFlag THEN "Cancelled"
  ELSE IF result # "ok" THEN "Error"
  ELSE CASE terminal = "Completed" -> "Verified"
         [] terminal = "CompletedUnverified" -> "Unverified"
         [] terminal = "Cancelled" -> "Cancelled"
         [] terminal \in {"Failed", "none"} -> "Error"

EndPipeline ==
  /\ step = "returned"
  /\ outcome = "pending"
  /\ outcome' = Outcome
  /\ UNCHANGED <<vars, platform, step, monitorError, cancellationSent, sawEvent,
                 consumed, terminal, socket, cancelFlag, result>>

RunnerStep ==
  \/ Spawn \/ CheckIdentity \/ Drain \/ SeeCancel \/ KillWorker \/ Serve
  \/ TryWait \/ Reap \/ Finish \/ EndPipeline

(* apply_worker_progress: the phase the window was told last.  The records *)
(* of a cancellation or a failure keep the phase they meet.                *)
Silent == {"Cancelled", "Failed"}

PhaseOf(record) ==
  IF record \in {"Completed", "CompletedUnverified"} THEN "Ejecting" ELSE record

Shows(phase) ==
  \/ /\ phase = "Authorizing"
     /\ \A i \in 1 .. consumed : emitted[i] \in Silent
  \/ \E i \in 1 .. consumed :
       /\ emitted[i] \notin Silent /\ phase = PhaseOf(emitted[i])
       /\ \A j \in i + 1 .. consumed : emitted[j] \in Silent

-----------------------------------------------------------------------------
(* The worker, its prompts, and the user *)

(* On macOS open_target connects to the socket, and is then blocked in     *)
(* recv_fds until the descriptor comes or the peer hangs up.               *)
RequestTarget ==
  /\ platform = "macos"
  /\ pc = "open"
  /\ socket = "idle"
  /\ socket' = "requested"
  /\ UNCHANGED <<vars, platform, step, monitorError, cancellationSent, sawEvent,
                 consumed, terminal, cancelFlag, result, outcome>>

Blocked == platform = "macos" /\ pc = "open" /\ socket = "requested"

(* The worker opens the device by itself on the other platforms; on macOS  *)
(* it can only fail to get it.                                             *)
WorkerRuns ==
  /\ ~Blocked
  /\ WorkerStep
  /\ platform = "macos" /\ pc = "open" => pc' # "opened"
  /\ UNCHANGED loopVars

(* PipelineControl::cancel stores the flag and then creates the marker.    *)
UserCancels ==
  /\ "cancel" \in Acts
  /\ ~cancelFlag
  /\ outcome = "pending"
  /\ cancelFlag' = TRUE
  /\ UNCHANGED <<vars, platform, step, monitorError, cancellationSent, sawEvent,
                 consumed, terminal, socket, result, outcome>>

UserMarks ==
  /\ step # "returned"
  /\ cancelFlag
  /\ TouchCancel
  /\ UNCHANGED loopVars

CardChanges ==
  /\ "card" \in Acts
  /\ RemoveMedium \/ InsertMedium \/ Automount
  /\ UNCHANGED loopVars

RunnerNext ==
  \/ RunnerStep \/ WaitFails \/ RequestTarget \/ WorkerRuns
  \/ UserCancels \/ UserMarks \/ CardChanges

RunnerSpec == RunnerInit /\ [][RunnerNext]_runnerVars

(* Both processes are scheduled, their system calls return, and whoever is *)
(* asked for an authorization answers.  Nobody owes a failing wait.        *)
FairRunnerSpec ==
  /\ RunnerSpec
  /\ WF_runnerVars(RunnerStep)
  /\ WF_runnerVars(RequestTarget \/ WorkerRuns)

(* The same, but nobody has to answer the PolicyKit prompt that UDisks2    *)
(* may show while it unmounts or opens the device.                         *)
Prompting == platform = "linux" /\ pc \in {"unmount", "open"}

PromptedRunnerSpec ==
  /\ RunnerSpec
  /\ WF_runnerVars(RunnerStep)
  /\ WF_runnerVars(~Prompting /\ (RequestTarget \/ WorkerRuns))

-----------------------------------------------------------------------------
(* Properties *)

(* Every variable of the loop keeps to its type; the tail never hands over *)
(* a record that is not complete in the file.                              *)
RunnerTypeOK ==
  /\ platform \in Platforms
  /\ step \in {"spawn", "identity", "drain", "cancel", "serve", "wait", "reap", "finish",
               "killOnError", "killOnCancel", "killOnServe", "returned"}
  /\ monitorError \in BOOLEAN
  /\ cancellationSent \in BOOLEAN
  /\ sawEvent \in BOOLEAN
  /\ consumed \in 0 .. flushed
  /\ terminal \in Finals \cup {"none"}
  /\ socket \in {"idle", "requested", "served", "closed"}
  /\ cancelFlag \in BOOLEAN
  /\ result \in {"pending", "ok", "failed", "unread"}
  /\ outcome \in {"pending", "Verified", "Unverified", "Cancelled", "Error"}

(* An outcome that was read last is the one the pipeline will go by.       *)
LastRead == consumed > 0 /\ emitted[consumed] \in Finals => terminal = emitted[consumed]

(* architecture.md: temporary state cannot disappear under a privileged    *)
(* process.  run returns, and the pipeline's directory goes, only once the *)
(* worker has stopped; a Windows worker that can no longer be waited for   *)
(* is the exception.                                                       *)
NoOrphan == step = "returned" /\ Unix => pc \in Stopped

(* What the exit of the loop stands for. *)
Returned ==
  /\ result = "pending" <=> step # "returned"
  /\ step = "finish" => pc \in Stopped
  /\ NoOrphan
  /\ result = "ok" => pc = "exited" /\ error = "none"
  /\ result \in {"ok", "failed"} => pc \in Stopped /\ consumed = flushed
  /\ outcome # "pending" => step = "returned"
  /\ outcome = "Verified" => result = "ok" /\ terminal = "Completed"
  /\ outcome = "Unverified" => result = "ok" /\ terminal = "CompletedUnverified"

(* The loop reads complete records only and in order, returns once the     *)
(* worker has stopped, and passes on a success with the record that tells  *)
(* of it.                                                                  *)
RunnerInv == RunnerTypeOK /\ LastRead /\ Returned

(* What the pipeline reports as a success is one: the worker has exited,   *)
(* the whole image was written and synced, no handle is left on the card,  *)
(* and it holds the image if that was verified; it went unverified only on *)
(* request.  On Unix it is detached, too: the Windows eject leaves it in   *)
(* the reader, and nothing is claimed there.                               *)
SuccessIsTrue ==
  outcome \in {"Verified", "Unverified"} =>
    /\ pc = "exited" /\ error = "none"
    /\ written = Chunks /\ ~dirty /\ fd = NoMedium
    /\ Unix => slot # Selected
    /\ outcome = "Verified" => \A i \in Index : card[Selected][i] = "image"
    /\ outcome = "Unverified" => ~job.verify \/ skipMarker

(* What the screen of a failed or cancelled run claims of the card.        *)
(*                                                                         *)
(* Always: "ready" is said of a card that was written and synced to the    *)
(* end, and "may be incomplete" only of one that was written to.           *)
(*                                                                         *)
(* If the run read the tail to its end: "was not written" and the offer to *)
(* retry at once mean that no byte of the card was changed and not even a  *)
(* volume unmounted; "no further changes" that the worker has stopped and  *)
(* nothing after the first buffer was changed.  The first one may be: it   *)
(* is announced when it is written (write_raw_from_with_prepare).  A run   *)
(* that stops reading tells an old phase and says these over any card.     *)
ClaimsHold(failure, phase) ==
  LET says == Says(failure, phase) IN
    /\ says = "ready" => written = Chunks /\ ~dirty
    /\ says = "incomplete" => written > 0
    /\ result \in {"ok", "failed"} =>
         /\ says = "not written" \/ CanRetry(failure, phase) =>
              ~detached /\ \A m \in Media : card[m] = Untouched
         /\ says = "no further changes" =>
              pc \in Stopped /\ \A i \in Index \ {1} : card[Selected][i] = "old"

WordingIsTrue ==
  \A phase \in Phases \cup {"Authorizing"} : Shows(phase) =>
    /\ outcome = "Cancelled" => ClaimsHold("cancelled", phase)
    /\ outcome = "Error" => ClaimsHold("error", phase)

(* When the worker's process succeeds, the tail has read its success       *)
(* record: run_pipeline never misses the terminal event of a success.      *)
SuccessIsTold ==
  result = "ok" => terminal \in {"Completed", "CompletedUnverified"}

(* The run ends, whatever fails or is asked for, except when a macOS       *)
(* runner no longer serves the target to a worker that waits for it.       *)
RunEnds ==
  <>(outcome # "pending" \/ (platform = "macos" /\ (monitorError \/ step = "reap")))

-----------------------------------------------------------------------------
(* What the documentation and comments say, and the code does not keep     *)

(* architecture.md: every exit after destructive access attempts the       *)
(* platform cleanup path.                                                  *)
CleanupAlwaysTried == step = "returned" /\ detached => ejects >= 1

(* The comment at the kill in linux.rs: before the first worker event,     *)
(* UDisks2 may be waiting for PolicyKit; stopping the worker dismisses     *)
(* that prompt.  So a cancelled run ends though nobody answers.            *)
CancelEnds == cancelFlag ~> outcome # "pending"

(* architecture.md: monitoring failures create a durable cancel marker and *)
(* wait for the worker.  The wait ends.                                    *)
MonitorFailureEnds == monitorError ~> outcome # "pending"
=============================================================================
