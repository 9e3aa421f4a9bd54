--------------------------- MODULE PipelineControl ---------------------------
(***************************************************************************)
(* PipelineControl (src/src/pipeline.rs): how cancel() and                 *)
(* skip_verification(), called from any thread, reach the marker files of  *)
(* the run that is going on, while run_pipeline registers those files,     *)
(* checks the flags, and takes files and registration down again.          *)
(*                                                                         *)
(* A request stores its flag and then looks for the registered markers; a  *)
(* run registers its markers and then looks at the flags.  Whichever comes *)
(* second creates the file.  Runs share one handle; the flags are one-shot *)
(* and never reset.                                                        *)
(***************************************************************************)
EXTENDS FiniteSets

CONSTANTS
  Runs,      \* calls of run_pipeline on one control, with their directories
  Calls,     \* calls of cancel() and skip_verification()
  NoRun      \* markers == None

ASSUME ControlAssumption == NoRun \notin Runs

VARIABLES
  active,     \* ControlInner.active
  requested,  \* the kinds whose AtomicBool is set
  markers,    \* the run whose MarkerPaths are registered, or NoRun
  file,       \* the marker files in the directory of every run
  directory,  \* the runs whose TempDir exists
  run,        \* where every run is
  call,       \* where every call is
  kind,       \* what every call requests
  target      \* the paths a call has cloned

vars == <<active, requested, markers, file, directory, run, call, kind, target>>

Kinds    == {"cancel", "skip"}
Guarded  == {"prepare", "register", "cancelFlag", "cancelTouch", "skipFlag",
             "skipTouch", "launch", "worker", "removeDirectory", "unregister",
             "deactivate"}
CallStep == {"idle", "lock", "touch", "ok", "error"}

Init ==
  /\ active = FALSE
  /\ requested = {}
  /\ markers = NoRun
  /\ file = [r \in Runs |-> {}]
  /\ directory = {}
  /\ run = [r \in Runs |-> "idle"]
  /\ call = [c \in Calls |-> "idle"]
  /\ kind \in [Calls -> Kinds]
  /\ target = [c \in Calls |-> NoRun]

-----------------------------------------------------------------------------
(* A call *)

callVars == <<call, kind, target>>
runVars  == <<active, markers, directory, run>>

(* touch_marker creates the file, and then may fail to sync it.            *)
Touch(r, k) == file' = [file EXCEPT ![r] = @ \cup {k}]

StoreFlag(c) ==
  /\ call[c] = "idle"
  /\ call' = [call EXCEPT ![c] = "lock"]
  /\ requested' = requested \cup {kind[c]}
  /\ UNCHANGED <<runVars, file, kind, target>>

(* marker_paths: the registered paths are cloned under the lock.           *)
ClonePaths(c) ==
  /\ call[c] = "lock"
  /\ target' = [target EXCEPT ![c] = markers]
  /\ call' = [call EXCEPT ![c] = IF markers = NoRun THEN "ok" ELSE "touch"]
  /\ UNCHANGED <<runVars, requested, file, kind>>

(* Without the lock: the run may have ended and removed its directory.     *)
TouchPath(c) ==
  /\ call[c] = "touch"
  /\ \/ /\ target[c] \in directory
        /\ Touch(target[c], kind[c])
        /\ call' = [call EXCEPT ![c] = "ok"]
     \/ /\ target[c] \in directory
        /\ Touch(target[c], kind[c])
        /\ call' = [call EXCEPT ![c] = "error"]
     \/ call' = [call EXCEPT ![c] = "error"] /\ UNCHANGED file
  /\ UNCHANGED <<runVars, requested, kind, target>>

(* The order a careless refactoring might give a call.                     *)
ClonePathsFirst(c) ==
  /\ call[c] = "idle"
  /\ target' = [target EXCEPT ![c] = markers]
  /\ call' = [call EXCEPT ![c] = "lock"]
  /\ UNCHANGED <<runVars, requested, file, kind>>

StoreFlagLast(c) ==
  /\ call[c] = "lock"
  /\ call' = [call EXCEPT ![c] = IF target[c] = NoRun THEN "ok" ELSE "touch"]
  /\ requested' = requested \cup {kind[c]}
  /\ UNCHANGED <<runVars, file, kind, target>>

Call_FlagStoredLast(c) == ClonePathsFirst(c) \/ StoreFlagLast(c) \/ TouchPath(c)

Call(c) == StoreFlag(c) \/ ClonePaths(c) \/ TouchPath(c)

-----------------------------------------------------------------------------
(* A run *)

Goto(r, step) == run' = [run EXCEPT ![r] = step]

(* PipelineControl::begin is a compare-and-exchange.                       *)
Begin_LoadThenStore(r) ==
  /\ run[r] = "idle"
  /\ active' = TRUE
  /\ Goto(r, "prepare")
  /\ UNCHANGED <<requested, markers, file, directory, callVars>>

Begin(r) ==
  /\ run[r] = "idle"
  /\ \/ ~active /\ active' = TRUE /\ Goto(r, "prepare")
     \/ active /\ Goto(r, "refused") /\ UNCHANGED active
  /\ UNCHANGED <<requested, markers, file, directory, callVars>>

(* Download and preparation of the image, in the run's private directory,  *)
(* with their checks of the cancelled flag.                                *)
Prepare(r) ==
  /\ run[r] = "prepare"
  /\ \/ /\ "cancel" \notin requested
        /\ directory' = directory \cup {r}
        /\ Goto(r, "register")
     \/ /\ directory' \in {directory, directory \cup {r}}
        /\ Goto(r, "removeDirectory")
  /\ UNCHANGED <<active, requested, markers, file, callVars>>

Register(r) ==
  /\ run[r] = "register"
  /\ markers' = r
  /\ Goto(r, "cancelFlag")
  /\ UNCHANGED <<active, requested, file, directory, callVars>>

(* register_markers looks at the flags once the paths are registered.      *)
CheckFlag(r, k, here, touch, next) ==
  /\ run[r] = here
  /\ Goto(r, IF k \in requested THEN touch ELSE next)
  /\ UNCHANGED <<active, requested, markers, file, directory, callVars>>

TouchOwn(r, k, here, next) ==
  /\ run[r] = here
  /\ \/ Touch(r, k) /\ Goto(r, next)
     \/ /\ Touch(r, k) \/ UNCHANGED file
        /\ Goto(r, "removeDirectory")
  /\ UNCHANGED <<active, requested, markers, directory, callVars>>

(* ensure_not_cancelled, and then the worker's runner.                     *)
Launch(r) ==
  /\ run[r] = "launch"
  /\ Goto(r, IF "cancel" \in requested THEN "removeDirectory" ELSE "worker")
  /\ UNCHANGED <<active, requested, markers, file, directory, callVars>>

WorkerEnds(r) ==
  /\ run[r] = "worker"
  /\ Goto(r, "removeDirectory")
  /\ UNCHANGED <<active, requested, markers, file, directory, callVars>>

(* The TempDir was created after the guard, and is dropped before it.      *)
RemoveDirectory(r) ==
  /\ run[r] = "removeDirectory"
  /\ directory' = directory \ {r}
  /\ file' = [file EXCEPT ![r] = {}]
  /\ Goto(r, "unregister")
  /\ UNCHANGED <<active, requested, markers, callVars>>

(* Drop of RunGuard: the markers first, the claim on the control last.     *)
Drop_ActiveFirst(r) ==
  /\ \/ /\ run[r] = "unregister"
        /\ active' = FALSE
        /\ Goto(r, "deactivate")
        /\ UNCHANGED markers
     \/ /\ run[r] = "deactivate"
        /\ markers' = NoRun
        /\ Goto(r, "done")
        /\ UNCHANGED active
  /\ UNCHANGED <<requested, file, directory, callVars>>

Drop(r) ==
  /\ \/ /\ run[r] = "unregister"
        /\ markers' = NoRun
        /\ Goto(r, "deactivate")
        /\ UNCHANGED active
     \/ /\ run[r] = "deactivate"
        /\ active' = FALSE
        /\ Goto(r, "done")
        /\ UNCHANGED markers
  /\ UNCHANGED <<requested, file, directory, callVars>>

Run(r) ==
  \/ Begin(r)
  \/ Prepare(r)
  \/ Register(r)
  \/ CheckFlag(r, "cancel", "cancelFlag", "cancelTouch", "skipFlag")
  \/ TouchOwn(r, "cancel", "cancelTouch", "skipFlag")
  \/ CheckFlag(r, "skip", "skipFlag", "skipTouch", "launch")
  \/ TouchOwn(r, "skip", "skipTouch", "launch")
  \/ Launch(r)
  \/ WorkerEnds(r)
  \/ RemoveDirectory(r)
  \/ Drop(r)

Next == (\E c \in Calls : Call(c)) \/ (\E r \in Runs : Run(r))

Spec == Init /\ [][Next]_vars

-----------------------------------------------------------------------------
(* Properties *)

(* Every variable keeps to its type.                                       *)
TypeOK ==
  /\ active \in BOOLEAN
  /\ requested \in SUBSET Kinds
  /\ markers \in Runs \cup {NoRun}
  /\ file \in [Runs -> SUBSET Kinds]
  /\ directory \in SUBSET Runs
  /\ run \in [Runs -> Guarded \cup {"idle", "refused", "done"}]
  /\ call \in [Calls -> CallStep]
  /\ kind \in [Calls -> Kinds]
  /\ target \in [Calls -> Runs \cup {NoRun}]

(* A request that was accepted is not lost: while a worker may be running, *)
(* the marker of every cancel() and skip_verification() that returned Ok   *)
(* exists, however the call and the registration interleaved and whatever  *)
(* earlier runs of the same control are still taking down.                 *)
NoLostRequest ==
  \A r \in Runs, c \in Calls :
    run[r] = "worker" /\ call[c] = "ok" => kind[c] \in file[r]

(* At most one run holds the control, and only its markers are registered. *)
OneRun ==
  \A r, s \in Runs :
    run[r] \in Guarded =>
      /\ run[s] \in Guarded => r = s
      /\ markers \in {NoRun, r}
=============================================================================
