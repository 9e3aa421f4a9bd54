---------------------------- MODULE ControlProofs ----------------------------
(***************************************************************************)
(* No request is lost, for any number of runs and calls.                   *)
(***************************************************************************)
EXTENDS PipelineControl, TLAPS

Registered == {"cancelFlag", "cancelTouch", "skipFlag", "skipTouch", "launch",
               "worker"}

(* The run has dealt with the flag of kind k.                              *)
Past(r, k) ==
  run[r] \in {"launch", "worker"}
    \cup (IF k = "cancel" THEN {"skipFlag", "skipTouch"} ELSE {})

(* active is the lock of a mutual exclusion between runs.                  *)
ActiveInv ==
  /\ \A r \in Runs : run[r] \in Guarded => active
  /\ \A r, s \in Runs : run[r] \in Guarded /\ run[s] \in Guarded => r = s

(* The registered markers are those of the run that holds the control.     *)
MarkerInv ==
  /\ \A r \in Runs : run[r] \in Registered => markers = r
  /\ markers # NoRun =>
       run[markers] \in Registered \cup {"removeDirectory", "unregister"}

(* The call has returned, or will not touch the run's own file.            *)
Answered(c, r) ==
  \/ call[c] = "ok"
  \/ call[c] = "touch" /\ target[c] # r

(* A call that is on its way has stored its flag.  Once a run has dealt    *)
(* with the flag, a call will create the file itself, or it is there.      *)
RequestInv ==
  /\ \A c \in Calls : call[c] # "idle" => kind[c] \in requested
  /\ \A r \in Runs, c \in Calls :
       Past(r, kind[c]) /\ Answered(c, r) => kind[c] \in file[r]

(* The inductive invariant: a run holds the control from begin to the end  *)
(* of its guard's drop, its markers are registered only in between, and a  *)
(* run past its check of a flag has the marker of every answered request.  *)
Inv == TypeOK /\ ActiveInv /\ MarkerInv /\ RequestInv

LEMMA InitInv == Init => Inv
  BY ControlAssumption
     DEF Init, Inv, TypeOK, ActiveInv, MarkerInv, RequestInv, Answered, Past, Guarded,
         Registered, CallStep, Kinds

(* A touch adds one file to one directory.                                 *)
LEMMA TouchAdds ==
  ASSUME TypeOK, NEW r \in Runs, NEW k \in Kinds, Touch(r, k)
  PROVE  /\ file' \in [Runs -> SUBSET Kinds]
         /\ file'[r] = file[r] \cup {k}
         /\ \A s \in Runs : file[s] \subseteq file'[s]
  BY DEF TypeOK, Touch

LEMMA CallStepInv ==
  ASSUME Inv, NEW c \in Calls, Call(c)
  PROVE  Inv'
  <1> USE ControlAssumption DEF Inv, callVars, runVars
  <1>1. TypeOK'
    <2>1. CASE StoreFlag(c)
      BY <2>1 DEF TypeOK, StoreFlag, CallStep
    <2>2. CASE ClonePaths(c)
      BY <2>2 DEF TypeOK, ClonePaths, CallStep
    <2>3. CASE TouchPath(c)
      <3>1. target[c] \in directory => target[c] \in Runs
        BY DEF TypeOK
      <3>2. file' \in [Runs -> SUBSET Kinds]
        BY <2>3, <3>1, TouchAdds DEF TypeOK, TouchPath
      <3>3. QED
        BY <2>3, <3>2 DEF TypeOK, TouchPath, CallStep
    <2>4. QED
      BY <2>1, <2>2, <2>3 DEF Call
  <1>2. ActiveInv' /\ MarkerInv'
    BY DEF ActiveInv, MarkerInv, Call, StoreFlag, ClonePaths, TouchPath
  <1>3. CASE StoreFlag(c)
    BY <1>1, <1>2, <1>3 DEF RequestInv, Answered, Past, TypeOK, StoreFlag
  <1>4. CASE ClonePaths(c)
    <2>1. \A r \in Runs, k \in Kinds : Past(r, k) => markers = r
      BY DEF Past, MarkerInv, Registered
    <2>2. QED
      BY <1>1, <1>2, <1>4, <2>1 DEF RequestInv, Answered, Past, TypeOK, ClonePaths
  <1>5. CASE TouchPath(c)
    BY <1>1, <1>2, <1>5 DEF RequestInv, Answered, Past, TypeOK, TouchPath, Touch
  <1>6. QED
    BY <1>3, <1>4, <1>5 DEF Call

LEMMA RunStepInv ==
  ASSUME Inv, NEW r \in Runs, Run(r)
  PROVE  Inv'
  <1> USE ControlAssumption DEF Inv, callVars
  <1>0. "cancel" \in Kinds /\ "skip" \in Kinds
    BY DEF Kinds
  <1>1. TypeOK'
    <2>1. file' \in [Runs -> SUBSET Kinds]
      <3>1. ASSUME NEW k \in Kinds, NEW here, NEW next, TouchOwn(r, k, here, next)
            PROVE  file' \in [Runs -> SUBSET Kinds]
        BY <3>1, TouchAdds DEF TouchOwn, TypeOK
      <3>2. CASE RemoveDirectory(r)
        BY <3>2 DEF RemoveDirectory, TypeOK
      <3>3. QED
        BY <1>0, <3>1, <3>2 DEF Run, TypeOK, Begin, Prepare, Register, CheckFlag,
           Launch, WorkerEnds, Drop
    <2>2. run' \in [Runs -> Guarded \cup {"idle", "refused", "done"}]
      BY DEF TypeOK, Run, Begin, Prepare, Register, CheckFlag, TouchOwn,
         Launch, WorkerEnds, RemoveDirectory, Drop, Goto, Guarded
    <2>3. /\ active' \in BOOLEAN /\ markers' \in Runs \cup {NoRun}
          /\ directory' \in SUBSET Runs
      BY DEF TypeOK, Run, Begin, Prepare, Register, CheckFlag, TouchOwn,
         Launch, WorkerEnds, RemoveDirectory, Drop
    <2>4. UNCHANGED <<requested, call, kind, target>>
      BY DEF Run, Begin, Prepare, Register, CheckFlag, TouchOwn, Launch,
         WorkerEnds, RemoveDirectory, Drop
    <2>5. QED
      BY <2>1, <2>2, <2>3, <2>4 DEF TypeOK
  <1>2. ActiveInv'
    BY DEF TypeOK, ActiveInv, Run, Begin, Prepare, Register, CheckFlag, TouchOwn,
       Launch, WorkerEnds, RemoveDirectory, Drop, Goto, Guarded
  <1>3. MarkerInv'
    BY DEF TypeOK, ActiveInv, MarkerInv, Registered, Run, Begin, Prepare, Register,
       CheckFlag, TouchOwn, Launch, WorkerEnds, RemoveDirectory, Drop, Goto, Guarded
  <1>4. RequestInv'
    <2>1. UNCHANGED <<requested, call, kind, target>>
      BY DEF Run, Begin, Prepare, Register, CheckFlag, TouchOwn, Launch,
         WorkerEnds, RemoveDirectory, Drop
    <2>2. /\ \A c \in Calls : call'[c] # "idle" => kind'[c] \in requested'
          /\ \A c \in Calls : call[c] \in {"ok", "touch"} => kind[c] \in requested
      BY <2>1 DEF RequestInv
    <2> SUFFICES ASSUME NEW s \in Runs, NEW c \in Calls, Past(s, kind[c])',
                        Answered(c, s)
                 PROVE  kind[c] \in file'[s]
      BY <2>1, <2>2 DEF RequestInv, Answered
    <2>3. kind[c] \in Kinds /\ kind[c] \in requested
      BY <2>2 DEF TypeOK, Answered
    <2>4. ASSUME Past(s, kind[c]), file[s] \subseteq file'[s]
          PROVE  kind[c] \in file'[s]
      BY <2>4 DEF RequestInv, Answered
    <2>5. CASE Begin(r) \/ Prepare(r) \/ Register(r) \/ Drop(r) \/ WorkerEnds(r)
               \/ Launch(r)
      BY <2>1, <2>4, <2>5 DEF Past, Goto, TypeOK, Begin, Prepare, Register, Drop,
         WorkerEnds, Launch
    <2>6. CASE RemoveDirectory(r)
      BY <2>1, <2>4, <2>6 DEF Past, Goto, TypeOK, RemoveDirectory
    <2>7. CASE CheckFlag(r, "cancel", "cancelFlag", "cancelTouch", "skipFlag")
      BY <2>1, <2>3, <2>4, <2>7 DEF Past, Goto, TypeOK, CheckFlag, Kinds
    <2>8. CASE CheckFlag(r, "skip", "skipFlag", "skipTouch", "launch")
      BY <2>1, <2>3, <2>4, <2>8 DEF Past, Goto, TypeOK, CheckFlag, Kinds
    <2>9. CASE TouchOwn(r, "cancel", "cancelTouch", "skipFlag")
      <3>1. file[s] \subseteq file'[s] /\ (run'[r] = "skipFlag" => "cancel" \in file'[r])
        BY <1>0, <2>9, TouchAdds DEF TouchOwn, Goto, TypeOK
      <3>2. QED
        BY <2>1, <2>3, <2>4, <2>9, <3>1 DEF Past, Goto, TypeOK, TouchOwn, Kinds
    <2>10. CASE TouchOwn(r, "skip", "skipTouch", "launch")
      <3>1. file[s] \subseteq file'[s] /\ (run'[r] = "launch" => "skip" \in file'[r])
        BY <1>0, <2>10, TouchAdds DEF TouchOwn, Goto, TypeOK
      <3>2. QED
        BY <2>1, <2>3, <2>4, <2>10, <3>1 DEF Past, Goto, TypeOK, TouchOwn, Kinds
    <2>11. QED
      BY <2>5, <2>6, <2>7, <2>8, <2>9, <2>10 DEF Run
  <1>5. QED
    BY <1>1, <1>2, <1>3, <1>4

(* The invariant holds in every reachable state.                           *)
THEOREM ControlInvariant == Spec => []Inv
  <1>1. Inv /\ [Next]_vars => Inv'
    <2> SUFFICES ASSUME Inv, [Next]_vars PROVE Inv'
      OBVIOUS
    <2>1. CASE UNCHANGED vars
      BY <2>1 DEF vars, Inv, TypeOK, ActiveInv, MarkerInv, RequestInv, Answered, Past
    <2>2. QED
      BY <2>1, CallStepInv, RunStepInv DEF Next
  <1>2. QED
    BY <1>1, InitInv, PTL DEF Spec

(* A request that returned Ok has its marker file while a worker runs.     *)
THEOREM NoLostRequestAlways == Spec => []NoLostRequest
  <1>1. Inv => NoLostRequest
    <2> SUFFICES ASSUME Inv, NEW r \in Runs, NEW c \in Calls,
                        run[r] = "worker", call[c] = "ok"
                 PROVE  kind[c] \in file[r]
      BY DEF NoLostRequest
    <2>1. Past(r, kind[c])
      BY DEF Past
    <2>2. QED
      BY <2>1 DEF Inv, RequestInv, Answered
  <1>2. QED
    BY <1>1, ControlInvariant, PTL

(* One run at a time holds the control and its registration.               *)
THEOREM OneRunAlways == Spec => []OneRun
  <1>1. Inv => OneRun
    BY DEF Inv, ActiveInv, MarkerInv, Registered, Guarded, OneRun, TypeOK
  <1>2. QED
    BY <1>1, ControlInvariant, PTL
=============================================================================
