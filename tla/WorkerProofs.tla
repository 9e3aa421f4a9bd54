----------------------------- MODULE WorkerProofs -----------------------------
(***************************************************************************)
(* The privileged job, for every set of media and volumes and every length *)
(* of the image: the invariants of Worker, Worker as an implementation of  *)
(* FlashPromise, and, in Runner, what the desktop side makes of the job    *)
(* for every platform and fault.                                           *)
(***************************************************************************)
EXTENDS Runner, WorkerRefines, FiniteSetTheorems, TLAPS

-----------------------------------------------------------------------------
(* Type correctness *)

(* Emitting a record, successfully or not, keeps the log well formed.      *)
LEMMA EmitTypes ==
  ASSUME NEW r \in Record, LogType, Emit(r) \/ EmitFails(r)
  PROVE  LogType'
  <1>1. emitted' = Append(emitted, r)
    BY DEF Emit, EmitFails
  <1>2. emitted' \in Seq(Record) /\ Len(emitted') = Len(emitted) + 1
    BY <1>1 DEF LogType
  <1>3. flushed' \in 0 .. Len(emitted')
    BY <1>2 DEF LogType, Emit, EmitFails
  <1>4. QED
    BY <1>2, <1>3 DEF LogType

(* What a step appends to the log is a record.                             *)
LEMMA LogStep == LogType /\ FlashType /\ [Next]_vars => LogType'
  <1> SUFFICES ASSUME LogType, FlashType, [Next]_vars PROVE LogType'
    OBVIOUS
  <1>0. ASSUME NoRecord PROVE LogType'
    BY <1>0 DEF NoRecord, LogType
  <1>1. CASE Launch
    BY <1>0, <1>1, EmitTypes DEF Launch
  <1>2. CASE RunJob
    BY <1>0, <1>2, EmitTypes DEF RunJob, Fail, Stop, Proceed, EmitThen, Record, Phases, Finals
  <1>3. CASE StageChunk
    BY <1>0, <1>3, EmitTypes DEF StageChunk, Fail, Stop, Proceed, EmitThen, Record, Phases,
       Finals
  <1>4. CASE StageEnd
    BY <1>0, <1>4, EmitTypes DEF StageEnd, Fail, Proceed, EmitThen, Record, Phases, Finals
  <1>5. CASE ValidateTarget
    BY <1>0, <1>5, EmitTypes DEF ValidateTarget, Fail, Stop, Proceed, EmitThen, Record, Phases,
       Finals
  <1>6. CASE Unmount
    BY <1>0, <1>6, EmitTypes DEF Unmount, UnmountFailed
  <1>7. CASE AfterUnmount
    BY <1>0, <1>7, EmitTypes DEF AfterUnmount, Stop, Proceed, EmitThen, Record, Phases, Finals
  <1>8. CASE RevalidateTarget
    BY <1>0, <1>8, EmitTypes DEF RevalidateTarget, Fail
  <1>9. CASE OpenTarget
    BY <1>0, <1>9, EmitTypes DEF OpenTarget, Fail
  <1>10. CASE RevalidateOpened
    BY <1>0, <1>10, EmitTypes DEF RevalidateOpened, Fail
  <1>11. CASE WriteChunk
    BY <1>0, <1>11, EmitTypes DEF WriteChunk, Callback, Record, Phases, Finals
  <1>12. CASE WriteFails
    BY <1>0, <1>12, EmitTypes DEF WriteFails, FlashEnds
  <1>13. CASE WriteCancelled
    BY <1>0, <1>13, EmitTypes DEF WriteCancelled, FlashEnds
  <1>14. CASE WriteEnd
    BY <1>0, <1>14, EmitTypes DEF WriteEnd
  <1>15. CASE PrepareVerification
    BY <1>0, <1>15, EmitTypes DEF PrepareVerification, FlashEnds
  <1>16. CASE ReopenForVerification
    BY <1>0, <1>16, EmitTypes DEF ReopenForVerification, FlashEnds
  <1>17. CASE VerifyChunk
    BY <1>0, <1>17, EmitTypes DEF VerifyChunk, Callback, Record, Phases, Finals
  <1>18. CASE VerifyStops
    BY <1>0, <1>18, EmitTypes DEF VerifyStops, FlashEnds
  <1>19. CASE VerifyEnd
    BY <1>0, <1>19, EmitTypes DEF VerifyEnd, FlashEnds
  <1>20. CASE AfterFlash
    BY <1>0, <1>20, EmitTypes DEF AfterFlash, AbortFlash, Record, Phases, Finals
  <1>21. CASE SyncTarget
    BY <1>0, <1>21, EmitTypes DEF SyncTarget, Fail, EmitThen, Record, Phases, Finals
  <1>22. CASE EjectTarget
    BY <1>0, <1>22, EmitTypes DEF EjectTarget, EjectThenComplete, CompletedRecord, Fail, EmitThen,
       Record, Phases, Finals
  <1>23. CASE CleanupEject
    BY <1>0, <1>23, EmitTypes DEF CleanupEject
  <1>24. CASE ReportFailure
    <2> DEFINE last == IF error = "Cancelled" THEN "Cancelled" ELSE "Failed"
    <2>1. last \in Record
      BY DEF Record, Finals
    <2>2. emitted' \in Seq(Record) /\ Len(emitted') = Len(emitted) + 1
      BY <1>24, <2>1 DEF ReportFailure, LogType
    <2>3. QED
      BY <1>24, <2>2 DEF ReportFailure, LogType
  <1>25. CASE Environment
    BY <1>25, <1>0 DEF Environment, TouchCancel, TouchSkip, RemoveMedium,
       InsertMedium, Automount, Kill, workerVars, NoRecord
  <1>26. CASE UNCHANGED vars
    BY <1>26, <1>0 DEF vars, workerVars, NoRecord
  <1>27. QED
    BY <1>1, <1>2, <1>3, <1>4, <1>5, <1>6, <1>7, <1>8, <1>9, <1>10,
       <1>11, <1>12, <1>13, <1>14, <1>15, <1>16, <1>17, <1>18, <1>19,
       <1>20, <1>21, <1>22, <1>23, <1>24, <1>25, <1>26 DEF Next, WorkerStep

(* Storing a chunk keeps the media typed.                                  *)
LEMMA PutTypes ==
  ASSUME DeviceType, NEW content \in Content, PutChunk(content)
  PROVE  card' \in [Media -> [Index -> Content]]
  BY DEF DeviceType, PutChunk

(* Every step keeps the types of everything but the log.                   *)
LEMMA StateStep ==
  ASSUME TypeOK, FlashDecided, [Next]_vars
  PROVE  ControlType' /\ StageType' /\ FlashType' /\ DeviceType' /\ HistoryType'
  <1> USE WorkerAssumption DEF TypeOK, ControlType, StageType, FlashType,
          DeviceType, HistoryType, Running, Stopped, ErrorKind
  <1>1. CASE Launch /\ UNCHANGED markerVars
    BY <1>1 DEF Launch, NoRecord, signalVars, flashVars, deviceVars,
       historyVars, markerVars
  <1>2. CASE RunJob /\ UNCHANGED markerVars
    BY <1>2 DEF RunJob, Fail, Stop, Proceed, Refresh, EmitThen, NoRecord,
       signalVars, flashVars, deviceVars, historyVars, markerVars
  <1>3. CASE StageChunk /\ UNCHANGED markerVars
    <2>1. ControlType'
      BY <1>3 DEF StageChunk, Fail, Stop, Proceed, Refresh, EmitThen,
         NoRecord, flashVars, deviceVars, historyVars, markerVars
    <2>2. StageType'
      <3>1. CASE UNCHANGED staged
        BY <3>1
      <3>2. ASSUME NEW chunk \in Source, Len(staged) < Chunks,
                   staged' = Append(staged, chunk)
            PROVE  StageType'
        <4>1. staged' \in Seq(Source) /\ Len(staged') = Len(staged) + 1
          BY <3>2
        <4>2. QED
          BY <3>2, <4>1
      <3>3. QED
        BY <1>3, <3>1, <3>2 DEF StageChunk
    <2>3. FlashType'
      BY <1>3 DEF StageChunk, Fail, Stop, Proceed, Refresh, EmitThen,
         NoRecord, flashVars, deviceVars, historyVars, markerVars
    <2>4. DeviceType'
      BY <1>3 DEF StageChunk, Fail, Stop, Proceed, Refresh, EmitThen,
         NoRecord, flashVars, deviceVars, historyVars, markerVars
    <2>5. HistoryType'
      BY <1>3 DEF StageChunk, Fail, Stop, Proceed, Refresh, EmitThen,
         NoRecord, flashVars, deviceVars, historyVars, markerVars
    <2>6. QED
      BY <2>1, <2>2, <2>3, <2>4, <2>5
  <1>4. CASE StageEnd /\ UNCHANGED markerVars
    BY <1>4 DEF StageEnd, Fail, Proceed, Refresh, EmitThen, NoRecord,
       StagedMatches, flashVars, deviceVars, historyVars, markerVars
  <1>5. CASE ValidateTarget /\ UNCHANGED markerVars
    BY <1>5 DEF ValidateTarget, Fail, Stop, Proceed, Refresh, EmitThen,
       NoRecord, TargetUnchanged, signalVars, flashVars, deviceVars,
       historyVars, markerVars
  <1>6. CASE Unmount /\ UNCHANGED markerVars
    BY <1>6 DEF Unmount, NoRecord, UnmountFailed, TargetUnchanged,
       signalVars, flashVars, markerVars
  <1>7. CASE AfterUnmount /\ UNCHANGED markerVars
    BY <1>7 DEF AfterUnmount, Stop, Proceed, Refresh, EmitThen, NoRecord,
       flashVars, deviceVars, historyVars, markerVars
  <1>8. CASE RevalidateTarget /\ UNCHANGED markerVars
    BY <1>8 DEF RevalidateTarget, Fail, NoRecord, TargetUnchanged,
       signalVars, flashVars, deviceVars, historyVars, markerVars
  <1>9. CASE OpenTarget /\ UNCHANGED markerVars
    BY <1>9 DEF OpenTarget, Fail, NoRecord, Openable, signalVars, flashVars,
       deviceVars, historyVars, markerVars
  <1>10. CASE RevalidateOpened /\ UNCHANGED markerVars
    BY <1>10 DEF RevalidateOpened, Fail, NoRecord, OpenedSelected,
       TargetUnchanged, signalVars, flashVars, deviceVars, historyVars,
       markerVars
  <1>11. CASE WriteChunk /\ UNCHANGED markerVars
    <2>1. ControlType'
      BY <1>11 DEF WriteChunk, Callback, Refresh, PutChunk, NoRecord,
         markerVars
    <2>2. StageType'
      BY <1>11 DEF WriteChunk, Callback, Refresh, PutChunk, NoRecord,
         markerVars
    <2>3. FlashType'
      BY <1>11 DEF WriteChunk, Callback, Refresh, PutChunk, NoRecord,
         markerVars
    <2>4. DeviceType'
      <3>1. staged[written + 1] \in Source
        BY <1>11 DEF WriteChunk
      <3>2. PICK content \in {staged[written + 1], "bad"} : PutChunk(content)
        BY <1>11 DEF WriteChunk
      <3>3. card' \in [Media -> [Index -> Content]]
        BY <3>1, <3>2, PutTypes DEF Content
      <3>4. QED
        BY <1>11, <3>3 DEF WriteChunk
    <2>5. HistoryType'
      BY <1>11 DEF WriteChunk, Callback, Refresh, PutChunk, NoRecord,
         markerVars
    <2>6. QED
      BY <2>1, <2>2, <2>3, <2>4, <2>5
  <1>12. CASE WriteFails /\ UNCHANGED markerVars
    <2>1. ControlType'
      BY <1>12 DEF WriteFails, FlashEnds, PutChunk, NoRecord, historyVars,
         signalVars, markerVars
    <2>2. StageType'
      BY <1>12 DEF WriteFails, FlashEnds, PutChunk, NoRecord, historyVars,
         signalVars, markerVars
    <2>3. FlashType'
      BY <1>12 DEF WriteFails, FlashEnds, PutChunk, NoRecord, historyVars,
         signalVars, markerVars
    <2>4. DeviceType'
      <3>1. card' \in [Media -> [Index -> Content]]
        BY <1>12, PutTypes DEF WriteFails, Content
      <3>2. QED
        BY <1>12, <3>1 DEF WriteFails
    <2>5. HistoryType'
      BY <1>12 DEF WriteFails, FlashEnds, PutChunk, NoRecord, historyVars,
         signalVars, markerVars
    <2>6. QED
      BY <2>1, <2>2, <2>3, <2>4, <2>5
  <1>13. CASE WriteCancelled /\ UNCHANGED markerVars
    BY <1>13 DEF WriteCancelled, FlashEnds, NoRecord, deviceVars,
       historyVars, signalVars, markerVars
  <1>14. CASE WriteEnd /\ UNCHANGED markerVars
    BY <1>14 DEF WriteEnd, NoRecord, signalVars, deviceVars, historyVars,
       markerVars
  <1>15. CASE PrepareVerification /\ UNCHANGED markerVars
    <2>1. ControlType'
      BY <1>15 DEF PrepareVerification, FlashEnds, NoRecord,
         TargetUnchanged, signalVars, historyVars, markerVars
    <2>2. StageType'
      BY <1>15 DEF PrepareVerification, FlashEnds, NoRecord,
         TargetUnchanged, signalVars, historyVars, markerVars
    <2>3. FlashType'
      BY <1>15 DEF PrepareVerification, FlashEnds, NoRecord,
         TargetUnchanged, signalVars, historyVars, markerVars
    <2>4. DeviceType'
      BY <1>15 DEF PrepareVerification, FlashEnds, NoRecord,
         TargetUnchanged, signalVars, historyVars, markerVars
    <2>5. HistoryType'
      BY <1>15 DEF PrepareVerification, FlashEnds, NoRecord,
         TargetUnchanged, signalVars, historyVars, markerVars
    <2>6. QED
      BY <2>1, <2>2, <2>3, <2>4, <2>5
  <1>16. CASE ReopenForVerification /\ UNCHANGED markerVars
    BY <1>16 DEF ReopenForVerification, FlashEnds, NoRecord, Openable,
       TargetUnchanged, signalVars, deviceVars, historyVars, markerVars
  <1>17. CASE VerifyChunk /\ UNCHANGED markerVars
    <2>1. ControlType'
      BY <1>17 DEF VerifyChunk, Callback, Refresh, NoRecord, ReadBack,
         deviceVars, historyVars, markerVars
    <2>2. StageType'
      BY <1>17 DEF VerifyChunk, Callback, Refresh, NoRecord, ReadBack,
         deviceVars, historyVars, markerVars
    <2>3. FlashType'
      BY <1>17 DEF VerifyChunk, Callback, Refresh, NoRecord, ReadBack,
         deviceVars, historyVars, markerVars
    <2>4. DeviceType'
      BY <1>17 DEF VerifyChunk, Callback, Refresh, NoRecord, ReadBack,
         deviceVars, historyVars, markerVars
    <2>5. HistoryType'
      BY <1>17 DEF VerifyChunk, Callback, Refresh, NoRecord, ReadBack,
         deviceVars, historyVars, markerVars
    <2>6. QED
      BY <2>1, <2>2, <2>3, <2>4, <2>5
  <1>18. CASE VerifyStops /\ UNCHANGED markerVars
    BY <1>18 DEF VerifyStops, FlashEnds, NoRecord, deviceVars, historyVars,
       signalVars, markerVars
  <1>19. CASE VerifyEnd /\ UNCHANGED markerVars
    <2>1. ControlType'
      BY <1>19 DEF VerifyEnd, FlashEnds, NoRecord, deviceVars, historyVars,
         signalVars, markerVars
    <2>2. StageType'
      BY <1>19 DEF VerifyEnd, FlashEnds, NoRecord, deviceVars, historyVars,
         signalVars, markerVars
    <2>3. FlashType'
      BY <1>19 DEF VerifyEnd, FlashEnds, NoRecord, deviceVars, historyVars,
         signalVars, markerVars
    <2>4. DeviceType'
      BY <1>19 DEF VerifyEnd, FlashEnds, NoRecord, deviceVars, historyVars,
         signalVars, markerVars
    <2>5. HistoryType'
      BY <1>19 DEF VerifyEnd, FlashEnds, NoRecord, deviceVars, historyVars,
         signalVars, markerVars
    <2>6. QED
      BY <2>1, <2>2, <2>3, <2>4, <2>5
  <1>20. CASE AfterFlash /\ UNCHANGED markerVars
    <2>1. ControlType'
      BY <1>20 DEF FlashDecided, AfterFlash, AbortFlash, SyncAndDrop, Proceed, Refresh,
         CallbackFailed, ReportError, StagedMatches, NoRecord, signalVars,
         flashVars, markerVars
    <2>2. StageType'
      BY <1>20 DEF AfterFlash, AbortFlash, SyncAndDrop, Proceed, Refresh,
         CallbackFailed, ReportError, StagedMatches, NoRecord, signalVars,
         flashVars, markerVars
    <2>3. FlashType'
      BY <1>20 DEF AfterFlash, AbortFlash, SyncAndDrop, Proceed, Refresh,
         CallbackFailed, ReportError, StagedMatches, NoRecord, signalVars,
         flashVars, markerVars
    <2>4. DeviceType'
      BY <1>20 DEF AfterFlash, AbortFlash, SyncAndDrop, Proceed, Refresh,
         CallbackFailed, ReportError, StagedMatches, NoRecord, signalVars,
         flashVars, markerVars
    <2>5. HistoryType'
      BY <1>20 DEF AfterFlash, AbortFlash, SyncAndDrop, Proceed, Refresh,
         CallbackFailed, ReportError, StagedMatches, NoRecord, signalVars,
         flashVars, markerVars
    <2>6. QED
      BY <2>1, <2>2, <2>3, <2>4, <2>5
  <1>21. CASE SyncTarget /\ UNCHANGED markerVars
    <2>1. ControlType'
      BY <1>21 DEF SyncTarget, Fail, EmitThen, NoRecord, signalVars,
         flashVars, markerVars
    <2>2. StageType'
      BY <1>21 DEF SyncTarget, Fail, EmitThen, NoRecord, signalVars,
         flashVars, markerVars
    <2>3. FlashType'
      BY <1>21 DEF SyncTarget, Fail, EmitThen, NoRecord, signalVars,
         flashVars, markerVars
    <2>4. DeviceType'
      BY <1>21 DEF SyncTarget, Fail, EmitThen, NoRecord, signalVars,
         flashVars, markerVars
    <2>5. HistoryType'
      BY <1>21 DEF SyncTarget, Fail, EmitThen, NoRecord, signalVars,
         flashVars, markerVars
    <2>6. QED
      BY <2>1, <2>2, <2>3, <2>4, <2>5
  <1>22. CASE EjectTarget /\ UNCHANGED markerVars
    BY <1>22 DEF EjectTarget, EjectThenComplete, CompletedRecord,
       EjectSucceeds, EjectFails, TargetUnchanged, Fail, EmitThen, NoRecord,
       signalVars, flashVars, markerVars
  <1>23. CASE CleanupEject /\ UNCHANGED markerVars
    BY <1>23 DEF CleanupEject, EjectSucceeds, EjectFails, TargetUnchanged,
       NoRecord, signalVars, flashVars, markerVars
  <1>24. CASE ReportFailure /\ UNCHANGED markerVars
    BY <1>24 DEF ReportFailure, signalVars, flashVars, deviceVars,
       historyVars, markerVars
  <1>25. CASE TouchCancel
    BY <1>25 DEF TouchCancel, deviceVars, historyVars, workerVars
  <1>26. CASE TouchSkip
    BY <1>26 DEF TouchSkip, deviceVars, historyVars, workerVars
  <1>27. CASE RemoveMedium
    BY <1>27 DEF RemoveMedium, historyVars, markerVars, workerVars
  <1>28. CASE InsertMedium
    BY <1>28 DEF InsertMedium, historyVars, markerVars, workerVars
  <1>29. CASE Automount
    BY <1>29 DEF Automount, historyVars, markerVars, workerVars
  <1>30. CASE Kill
    BY <1>30 DEF Kill, signalVars, flashVars, deviceVars, historyVars,
       markerVars
  <1>31. CASE UNCHANGED vars
    BY <1>31 DEF vars, workerVars, deviceVars, markerVars, historyVars
  <1>32. QED
    BY <1>1, <1>2, <1>3, <1>4, <1>5, <1>6, <1>7, <1>8, <1>9, <1>10, <1>11,
       <1>12, <1>13, <1>14, <1>15, <1>16, <1>17, <1>18, <1>19, <1>20, <1>21,
       <1>22, <1>23, <1>24, <1>25, <1>26, <1>27, <1>28, <1>29, <1>30, <1>31 DEF Next, WorkerStep, Environment

(* The decision is made by the step that enters afterFlash.                *)
LEMMA DecidedStep == FlashDecided /\ [Next]_vars => FlashDecided'
  <1> SUFFICES ASSUME FlashDecided, [Next]_vars PROVE FlashDecided'
    OBVIOUS
  <1>1. CASE Launch
    BY <1>1 DEF FlashDecided, Launch, flashVars
  <1>2. CASE RunJob
    BY <1>2 DEF FlashDecided, RunJob, Fail, Stop, EmitThen, flashVars
  <1>3. CASE StageChunk
    BY <1>3 DEF FlashDecided, StageChunk, Fail, Stop, EmitThen, flashVars
  <1>4. CASE StageEnd
    BY <1>4 DEF FlashDecided, StageEnd, Fail, EmitThen, flashVars
  <1>5. CASE ValidateTarget
    BY <1>5 DEF FlashDecided, ValidateTarget, Fail, Stop, EmitThen,
       flashVars
  <1>6. CASE Unmount
    BY <1>6 DEF FlashDecided, Unmount, UnmountFailed, flashVars
  <1>7. CASE AfterUnmount
    BY <1>7 DEF FlashDecided, AfterUnmount, Stop, EmitThen, flashVars
  <1>8. CASE RevalidateTarget
    BY <1>8 DEF FlashDecided, RevalidateTarget, Fail, flashVars
  <1>9. CASE OpenTarget
    BY <1>9 DEF FlashDecided, OpenTarget, Fail, flashVars
  <1>10. CASE RevalidateOpened
    BY <1>10 DEF FlashDecided, RevalidateOpened, Fail, OpenedSelected,
       flashVars
  <1>11. CASE WriteChunk
    BY <1>11 DEF FlashDecided, WriteChunk
  <1>12. CASE WriteFails
    BY <1>12 DEF FlashDecided, WriteFails, FlashEnds
  <1>13. CASE WriteCancelled
    BY <1>13 DEF FlashDecided, WriteCancelled, FlashEnds
  <1>14. CASE WriteEnd
    BY <1>14 DEF FlashDecided, WriteEnd
  <1>15. CASE PrepareVerification
    BY <1>15 DEF FlashDecided, PrepareVerification, FlashEnds
  <1>16. CASE ReopenForVerification
    BY <1>16 DEF FlashDecided, ReopenForVerification, FlashEnds
  <1>17. CASE VerifyChunk
    BY <1>17 DEF FlashDecided, VerifyChunk
  <1>18. CASE VerifyStops
    BY <1>18 DEF FlashDecided, VerifyStops, FlashEnds
  <1>19. CASE VerifyEnd
    BY <1>19 DEF FlashDecided, VerifyEnd, FlashEnds
  <1>20. CASE AfterFlash
    BY <1>20 DEF FlashDecided, AfterFlash, AbortFlash, flashVars
  <1>21. CASE SyncTarget
    BY <1>21 DEF FlashDecided, SyncTarget, Fail, EmitThen, flashVars
  <1>22. CASE EjectTarget
    BY <1>22 DEF FlashDecided, EjectTarget, EjectThenComplete, Fail,
       EmitThen, flashVars
  <1>23. CASE CleanupEject
    BY <1>23 DEF FlashDecided, CleanupEject, flashVars
  <1>24. CASE ReportFailure
    BY <1>24 DEF FlashDecided, ReportFailure, flashVars
  <1>25. CASE TouchCancel
    BY <1>25 DEF FlashDecided, TouchCancel, workerVars
  <1>26. CASE TouchSkip
    BY <1>26 DEF FlashDecided, TouchSkip, workerVars
  <1>27. CASE RemoveMedium
    BY <1>27 DEF FlashDecided, RemoveMedium, workerVars
  <1>28. CASE InsertMedium
    BY <1>28 DEF FlashDecided, InsertMedium, workerVars
  <1>29. CASE Automount
    BY <1>29 DEF FlashDecided, Automount, workerVars
  <1>30. CASE Kill
    BY <1>30 DEF FlashDecided, Kill, flashVars
  <1>31. CASE UNCHANGED vars
    BY <1>31 DEF FlashDecided, vars, workerVars
  <1>32. QED
    BY <1>1, <1>2, <1>3, <1>4, <1>5, <1>6, <1>7, <1>8, <1>9, <1>10, <1>11,
       <1>12, <1>13, <1>14, <1>15, <1>16, <1>17, <1>18, <1>19, <1>20, <1>21,
       <1>22, <1>23, <1>24, <1>25, <1>26, <1>27, <1>28, <1>29, <1>30, <1>31 DEF Next, WorkerStep, Environment

(* The state at launch is typed.                                           *)
LEMMA InitTypes ==
  ASSUME Init
  PROVE  TypeOK /\ FlashDecided
  <1>1. ControlType /\ FlashDecided
    BY DEF Init, ControlType, FlashDecided, Running
  <1>2. /\ staged \in Seq(Source) /\ Len(staged) = 0
        /\ emitted \in Seq(Record) /\ Len(emitted) = 0
    BY DEF Init
  <1>3. StageType /\ LogType
    BY <1>2, WorkerAssumption DEF Init, StageType, LogType
  <1>4. FlashType
    <2>1. 0 \in 0 .. Chunks
      BY WorkerAssumption
    <2>2. QED
      BY <2>1 DEF Init, FlashType
  <1>5. HistoryType
    BY DEF Init, HistoryType
  <1>6. DeviceType
    BY WorkerAssumption DEF Init, DeviceType, Untouched, Content
  <1>7. QED
    BY <1>1, <1>3, <1>4, <1>5, <1>6 DEF TypeOK

(* Every reachable state is typed.                                         *)
THEOREM TypeCorrect == Spec => []TypeOK
  <1>1. Init => TypeOK /\ FlashDecided
    BY InitTypes
  <1>2. TypeOK /\ FlashDecided /\ [Next]_vars => (TypeOK /\ FlashDecided)'
    BY LogStep, StateStep, DecidedStep DEF TypeOK
  <1>3. QED
    BY <1>1, <1>2, PTL DEF Spec

-----------------------------------------------------------------------------
(* The inductive invariant of Worker.  Its parts are proved one after the  *)
(* other, each from the types and the parts before it.                     *)

(* A chunk is stored on the medium behind the handle and nowhere else.     *)
LEMMA PutElsewhere ==
  ASSUME DeviceType, NEW content, PutChunk(content), NEW m \in Media, m # fd
  PROVE  card'[m] = card[m]
  BY DEF DeviceType, PutChunk

(* The handle keeps referring to the selected medium, and only that medium *)
(* is written.                                                             *)
LEMMA MediumStep ==
  ASSUME TypeOK, MediumInv, OnlySelectedWritten, [Next]_vars
  PROVE  MediumInv' /\ OnlySelectedWritten'
  <1> USE WorkerAssumption DEF MediumInv, OnlySelectedWritten, Early,
          Prewrite, Holding
  <1>1. CASE Launch
    BY <1>1 DEF Launch, flashVars, deviceVars, historyVars
  <1>2. CASE RunJob
    BY <1>2 DEF RunJob, Fail, Stop, EmitThen, flashVars, deviceVars,
       historyVars
  <1>3. CASE StageChunk
    BY <1>3 DEF StageChunk, Fail, Stop, EmitThen, flashVars, deviceVars,
       historyVars
  <1>4. CASE StageEnd
    BY <1>4 DEF StageEnd, Fail, EmitThen, flashVars, deviceVars,
       historyVars
  <1>5. CASE ValidateTarget
    BY <1>5 DEF ValidateTarget, Fail, Stop, EmitThen, TargetUnchanged,
       flashVars, deviceVars, historyVars
  <1>6. CASE Unmount
    BY <1>6 DEF Unmount, UnmountFailed, TargetUnchanged, flashVars
  <1>7. CASE AfterUnmount
    BY <1>7 DEF AfterUnmount, Stop, EmitThen, flashVars, deviceVars,
       historyVars
  <1>8. CASE RevalidateTarget
    BY <1>8 DEF RevalidateTarget, Fail, TargetUnchanged, flashVars,
       deviceVars, historyVars
  <1>9. CASE OpenTarget
    BY <1>9 DEF OpenTarget, Fail, Openable, flashVars, deviceVars,
       historyVars
  <1>10. CASE RevalidateOpened
    BY <1>10 DEF RevalidateOpened, Fail, OpenedSelected, TargetUnchanged,
       flashVars, deviceVars, historyVars
  <1>11. CASE WriteChunk
    <2>1. fd = Selected
      BY <1>11 DEF WriteChunk
    <2>2. \A m \in Media \ {Selected} : card'[m] = card[m]
      BY <1>11, <2>1, PutElsewhere DEF WriteChunk, TypeOK
    <2>3. MediumInv'
      BY <1>11 DEF WriteChunk
    <2>4. QED
      BY <2>2, <2>3
  <1>12. CASE WriteFails
    <2>1. fd = Selected
      BY <1>12 DEF WriteFails
    <2>2. \A m \in Media \ {Selected} : card'[m] = card[m]
      BY <1>12, <2>1, PutElsewhere DEF WriteFails, TypeOK
    <2>3. MediumInv'
      BY <1>12 DEF WriteFails, FlashEnds
    <2>4. QED
      BY <2>2, <2>3
  <1>13. CASE WriteCancelled
    BY <1>13 DEF WriteCancelled, FlashEnds, deviceVars, historyVars
  <1>14. CASE WriteEnd
    BY <1>14 DEF WriteEnd, deviceVars, historyVars
  <1>15. CASE PrepareVerification
    BY <1>15 DEF PrepareVerification, FlashEnds, TargetUnchanged,
       historyVars
  <1>16. CASE ReopenForVerification
    BY <1>16 DEF ReopenForVerification, FlashEnds, Openable,
       TargetUnchanged, deviceVars, historyVars
  <1>17. CASE VerifyChunk
    BY <1>17 DEF VerifyChunk, Callback, deviceVars, historyVars
  <1>18. CASE VerifyStops
    BY <1>18 DEF VerifyStops, FlashEnds, deviceVars, historyVars
  <1>19. CASE VerifyEnd
    BY <1>19 DEF VerifyEnd, FlashEnds, deviceVars, historyVars
  <1>20. CASE AfterFlash
    BY <1>20 DEF AfterFlash, AbortFlash, SyncAndDrop, flashVars
  <1>21. CASE SyncTarget
    BY <1>21 DEF SyncTarget, Fail, EmitThen, flashVars
  <1>22. CASE EjectTarget
    BY <1>22 DEF EjectTarget, EjectThenComplete, EjectSucceeds, EjectFails,
       TargetUnchanged, Fail, EmitThen, flashVars
  <1>23. CASE CleanupEject
    BY <1>23 DEF CleanupEject, EjectSucceeds, EjectFails, TargetUnchanged,
       flashVars
  <1>24. CASE ReportFailure
    BY <1>24 DEF ReportFailure, flashVars, deviceVars, historyVars
  <1>25. CASE TouchCancel
    BY <1>25 DEF TouchCancel, deviceVars, historyVars, workerVars
  <1>26. CASE TouchSkip
    BY <1>26 DEF TouchSkip, deviceVars, historyVars, workerVars
  <1>27. CASE RemoveMedium
    BY <1>27 DEF RemoveMedium, historyVars, markerVars, workerVars
  <1>28. CASE InsertMedium
    BY <1>28 DEF InsertMedium, historyVars, markerVars, workerVars
  <1>29. CASE Automount
    BY <1>29 DEF Automount, historyVars, markerVars, workerVars
  <1>30. CASE Kill
    BY <1>30 DEF Kill, flashVars, deviceVars, historyVars, markerVars
  <1>31. CASE UNCHANGED vars
    BY <1>31 DEF vars, workerVars, deviceVars, markerVars, historyVars
  <1>32. QED
    BY <1>1, <1>2, <1>3, <1>4, <1>5, <1>6, <1>7, <1>8, <1>9, <1>10, <1>11,
       <1>12, <1>13, <1>14, <1>15, <1>16, <1>17, <1>18, <1>19, <1>20, <1>21,
       <1>22, <1>23, <1>24, <1>25, <1>26, <1>27, <1>28, <1>29, <1>30, <1>31 DEF Next, WorkerStep, Environment

(* Only the medium the user confirmed is ever written, whatever is pulled  *)
(* and inserted under its device path.                                     *)
THEOREM OnlySelectedWrittenAlways == Spec => []OnlySelectedWritten
  <1>1. Init => MediumInv /\ OnlySelectedWritten
    BY DEF Init, MediumInv, OnlySelectedWritten, Holding
  <1>2. TypeOK /\ MediumInv /\ OnlySelectedWritten /\ [Next]_vars
          => (MediumInv /\ OnlySelectedWritten)'
    BY MediumStep
  <1>3. QED
    BY <1>1, <1>2, TypeCorrect, PTL DEF Spec

(* Unsynced bytes have an open writer or a failed sync.                    *)
LEMMA ReleaseStep ==
  ASSUME TypeOK, MediumInv, ReleaseInv, [Next]_vars
  PROVE  ReleaseInv'
  <1> USE WorkerAssumption DEF MediumInv, ReleaseInv, SyncedBeforeRelease,
          Early, Prewrite, Holding
  <1>1. CASE Launch
    BY <1>1 DEF Launch, flashVars, deviceVars, historyVars
  <1>2. CASE RunJob
    BY <1>2 DEF RunJob, Fail, Stop, EmitThen, flashVars, deviceVars,
       historyVars
  <1>3. CASE StageChunk
    BY <1>3 DEF StageChunk, Fail, Stop, EmitThen, flashVars, deviceVars,
       historyVars
  <1>4. CASE StageEnd
    BY <1>4 DEF StageEnd, Fail, EmitThen, flashVars, deviceVars,
       historyVars
  <1>5. CASE ValidateTarget
    BY <1>5 DEF ValidateTarget, Fail, Stop, EmitThen, TargetUnchanged,
       flashVars, deviceVars, historyVars
  <1>6. CASE Unmount
    BY <1>6 DEF Unmount, UnmountFailed, TargetUnchanged, flashVars
  <1>7. CASE AfterUnmount
    BY <1>7 DEF AfterUnmount, Stop, EmitThen, flashVars, deviceVars,
       historyVars
  <1>8. CASE RevalidateTarget
    BY <1>8 DEF RevalidateTarget, Fail, TargetUnchanged, flashVars,
       deviceVars, historyVars
  <1>9. CASE OpenTarget
    BY <1>9 DEF OpenTarget, Fail, Openable, flashVars, deviceVars,
       historyVars
  <1>10. CASE RevalidateOpened
    BY <1>10 DEF RevalidateOpened, Fail, OpenedSelected, TargetUnchanged,
       flashVars, deviceVars, historyVars
  <1>11. CASE WriteChunk
    BY <1>11 DEF WriteChunk, Callback
  <1>12. CASE WriteFails
    BY <1>12 DEF WriteFails, FlashEnds, historyVars
  <1>13. CASE WriteCancelled
    BY <1>13 DEF WriteCancelled, FlashEnds, deviceVars, historyVars
  <1>14. CASE WriteEnd
    BY <1>14 DEF WriteEnd, deviceVars, historyVars
  <1>15. CASE PrepareVerification
    BY <1>15 DEF PrepareVerification, FlashEnds, TargetUnchanged,
       historyVars
  <1>16. CASE ReopenForVerification
    BY <1>16 DEF ReopenForVerification, FlashEnds, Openable,
       TargetUnchanged, deviceVars, historyVars
  <1>17. CASE VerifyChunk
    BY <1>17 DEF VerifyChunk, Callback, deviceVars, historyVars
  <1>18. CASE VerifyStops
    BY <1>18 DEF VerifyStops, FlashEnds, deviceVars, historyVars
  <1>19. CASE VerifyEnd
    BY <1>19 DEF VerifyEnd, FlashEnds, deviceVars, historyVars
  <1>20. CASE AfterFlash
    BY <1>20 DEF AfterFlash, AbortFlash, SyncAndDrop, flashVars
  <1>21. CASE SyncTarget
    BY <1>21 DEF SyncTarget, Fail, EmitThen, flashVars
  <1>22. CASE EjectTarget
    BY <1>22 DEF EjectTarget, EjectThenComplete, TargetUnchanged, Fail,
       EmitThen, flashVars
  <1>23. CASE CleanupEject
    BY <1>23 DEF CleanupEject, TargetUnchanged, flashVars
  <1>24. CASE ReportFailure
    BY <1>24 DEF ReportFailure, flashVars, deviceVars, historyVars
  <1>25. CASE TouchCancel
    BY <1>25 DEF TouchCancel, deviceVars, historyVars, workerVars
  <1>26. CASE TouchSkip
    BY <1>26 DEF TouchSkip, deviceVars, historyVars, workerVars
  <1>27. CASE RemoveMedium
    BY <1>27 DEF RemoveMedium, historyVars, markerVars, workerVars
  <1>28. CASE InsertMedium
    BY <1>28 DEF InsertMedium, historyVars, markerVars, workerVars
  <1>29. CASE Automount
    BY <1>29 DEF Automount, historyVars, markerVars, workerVars
  <1>30. CASE Kill
    BY <1>30 DEF Kill, flashVars, deviceVars, historyVars, markerVars
  <1>31. CASE UNCHANGED vars
    BY <1>31 DEF vars, workerVars, deviceVars, markerVars, historyVars
  <1>32. QED
    BY <1>1, <1>2, <1>3, <1>4, <1>5, <1>6, <1>7, <1>8, <1>9, <1>10, <1>11,
       <1>12, <1>13, <1>14, <1>15, <1>16, <1>17, <1>18, <1>19, <1>20, <1>21,
       <1>22, <1>23, <1>24, <1>25, <1>26, <1>27, <1>28, <1>29, <1>30, <1>31 DEF Next, WorkerStep, Environment

(* The worker never lets go of a target it has written to without a sync   *)
(* that succeeded, or failed when it was tried.                            *)
THEOREM SyncedBeforeReleaseAlways == Spec => []SyncedBeforeRelease
  <1>1. Init => MediumInv /\ OnlySelectedWritten /\ ReleaseInv
    BY DEF Init, MediumInv, OnlySelectedWritten, ReleaseInv, SyncedBeforeRelease,
       Holding
  <1>2. TypeOK /\ MediumInv /\ OnlySelectedWritten /\ ReleaseInv /\ [Next]_vars
          => (MediumInv /\ OnlySelectedWritten /\ ReleaseInv)'
    BY MediumStep, ReleaseStep
  <1>3. ReleaseInv => SyncedBeforeRelease
    BY DEF ReleaseInv
  <1>4. QED
    BY <1>1, <1>2, <1>3, TypeCorrect, PTL DEF Spec

(* The medium is ejected on every way out that follows the unmount.        *)
LEMMA EjectStep ==
  ASSUME TypeOK, EjectInv, [Next]_vars
  PROVE  EjectInv'
  <1> USE WorkerAssumption DEF EjectInv, EjectTried, Early, HistoryType,
          TypeOK
  <1>1. CASE Launch
    BY <1>1 DEF Launch, flashVars, deviceVars, historyVars
  <1>2. CASE RunJob
    BY <1>2 DEF RunJob, Fail, Stop, EmitThen, flashVars, deviceVars,
       historyVars
  <1>3. CASE StageChunk
    BY <1>3 DEF StageChunk, Fail, Stop, EmitThen, flashVars, deviceVars,
       historyVars
  <1>4. CASE StageEnd
    BY <1>4 DEF StageEnd, Fail, EmitThen, flashVars, deviceVars,
       historyVars
  <1>5. CASE ValidateTarget
    BY <1>5 DEF ValidateTarget, Fail, Stop, EmitThen, flashVars, deviceVars,
       historyVars
  <1>6. CASE Unmount
    BY <1>6 DEF Unmount, UnmountFailed, flashVars
  <1>7. CASE AfterUnmount
    BY <1>7 DEF AfterUnmount, Stop, EmitThen, flashVars, deviceVars,
       historyVars
  <1>8. CASE RevalidateTarget
    BY <1>8 DEF RevalidateTarget, Fail, flashVars, deviceVars, historyVars
  <1>9. CASE OpenTarget
    BY <1>9 DEF OpenTarget, Fail, flashVars, deviceVars, historyVars
  <1>10. CASE RevalidateOpened
    BY <1>10 DEF RevalidateOpened, Fail, flashVars, deviceVars, historyVars
  <1>11. CASE WriteChunk
    BY <1>11 DEF WriteChunk, Callback
  <1>12. CASE WriteFails
    BY <1>12 DEF WriteFails, FlashEnds, historyVars
  <1>13. CASE WriteCancelled
    BY <1>13 DEF WriteCancelled, FlashEnds, deviceVars, historyVars
  <1>14. CASE WriteEnd
    BY <1>14 DEF WriteEnd, deviceVars, historyVars
  <1>15. CASE PrepareVerification
    BY <1>15 DEF PrepareVerification, FlashEnds, historyVars
  <1>16. CASE ReopenForVerification
    BY <1>16 DEF ReopenForVerification, FlashEnds, deviceVars, historyVars
  <1>17. CASE VerifyChunk
    BY <1>17 DEF VerifyChunk, Callback, deviceVars, historyVars
  <1>18. CASE VerifyStops
    BY <1>18 DEF VerifyStops, FlashEnds, deviceVars, historyVars
  <1>19. CASE VerifyEnd
    BY <1>19 DEF VerifyEnd, FlashEnds, deviceVars, historyVars
  <1>20. CASE AfterFlash
    BY <1>20 DEF AfterFlash, AbortFlash, flashVars
  <1>21. CASE SyncTarget
    BY <1>21 DEF SyncTarget, Fail, EmitThen, flashVars
  <1>22. CASE EjectTarget
    BY <1>22 DEF EjectTarget, EjectThenComplete, Fail, EmitThen, flashVars
  <1>23. CASE CleanupEject
    BY <1>23 DEF CleanupEject, flashVars
  <1>24. CASE ReportFailure
    BY <1>24 DEF ReportFailure, flashVars, deviceVars, historyVars
  <1>25. CASE TouchCancel
    BY <1>25 DEF TouchCancel, deviceVars, historyVars, workerVars
  <1>26. CASE TouchSkip
    BY <1>26 DEF TouchSkip, deviceVars, historyVars, workerVars
  <1>27. CASE RemoveMedium
    BY <1>27 DEF RemoveMedium, historyVars, markerVars, workerVars
  <1>28. CASE InsertMedium
    BY <1>28 DEF InsertMedium, historyVars, markerVars, workerVars
  <1>29. CASE Automount
    BY <1>29 DEF Automount, historyVars, markerVars, workerVars
  <1>30. CASE Kill
    BY <1>30 DEF Kill, flashVars, deviceVars, historyVars, markerVars
  <1>31. CASE UNCHANGED vars
    BY <1>31 DEF vars, workerVars, deviceVars, markerVars, historyVars
  <1>32. QED
    BY <1>1, <1>2, <1>3, <1>4, <1>5, <1>6, <1>7, <1>8, <1>9, <1>10, <1>11,
       <1>12, <1>13, <1>14, <1>15, <1>16, <1>17, <1>18, <1>19, <1>20, <1>21,
       <1>22, <1>23, <1>24, <1>25, <1>26, <1>27, <1>28, <1>29, <1>30, <1>31 DEF Next, WorkerStep, Environment

(* Once unmount was called no exit skips the platform's eject.             *)
THEOREM EjectTriedAlways == Spec => []EjectTried
  <1>1. Init => EjectInv
    BY DEF Init, EjectInv, EjectTried
  <1>2. TypeOK /\ EjectInv /\ [Next]_vars => EjectInv'
    BY EjectStep
  <1>3. EjectInv => EjectTried
    BY DEF EjectInv
  <1>4. QED
    BY <1>1, <1>2, <1>3, TypeCorrect, PTL DEF Spec

(* The checked copy is not changed after the check, and no other bytes are *)
(* written.                                                                *)
LEMMA StagedStep ==
  ASSUME TypeOK, StagedInv, OnlyCheckedBytesWritten, [Next]_vars
  PROVE  StagedInv' /\ OnlyCheckedBytesWritten'
  <1> USE WorkerAssumption DEF StagedInv, Staged, Running
  <1>a. UNCHANGED staged => (StagedMatches' <=> StagedMatches)
    BY DEF StagedMatches
  <1>b. UNCHANGED card /\ OnlyCheckedBytesWritten => OnlyCheckedBytesWritten'
    BY DEF OnlyCheckedBytesWritten
  <1>1. CASE Launch
    BY <1>1, <1>a, <1>b DEF Launch, flashVars, deviceVars, historyVars
  <1>2. CASE RunJob
    BY <1>2, <1>a, <1>b DEF RunJob, Fail, Stop, EmitThen, flashVars, deviceVars,
       historyVars
  <1>3. CASE StageChunk
    BY <1>3, <1>a, <1>b DEF StageChunk, Fail, Stop, EmitThen, flashVars, deviceVars,
       historyVars
  <1>4. CASE StageEnd
    BY <1>4, <1>a, <1>b DEF StageEnd, Fail, EmitThen, flashVars, deviceVars,
       historyVars
  <1>5. CASE ValidateTarget
    BY <1>5, <1>a, <1>b DEF ValidateTarget, Fail, Stop, EmitThen, flashVars, deviceVars,
       historyVars
  <1>6. CASE Unmount
    BY <1>6, <1>a, <1>b DEF Unmount, UnmountFailed, flashVars
  <1>7. CASE AfterUnmount
    BY <1>7, <1>a, <1>b DEF AfterUnmount, Stop, EmitThen, flashVars, deviceVars,
       historyVars
  <1>8. CASE RevalidateTarget
    BY <1>8, <1>a, <1>b DEF RevalidateTarget, Fail, flashVars, deviceVars, historyVars
  <1>9. CASE OpenTarget
    BY <1>9, <1>a, <1>b DEF OpenTarget, Fail, flashVars, deviceVars, historyVars
  <1>10. CASE RevalidateOpened
    BY <1>10, <1>a, <1>b DEF RevalidateOpened, Fail, flashVars, deviceVars, historyVars
  <1>11. CASE WriteChunk
    <2>1. StagedInv'
      BY <1>11, <1>a DEF WriteChunk
    <2>2. PICK content \in Source \cup {"bad"} :
            (PutChunk(content) /\ content # "other") \/ UNCHANGED card
      <3>1. written < Len(staged) => staged[written + 1] = "image"
        BY <1>11 DEF WriteChunk, StagedMatches, TypeOK, StageType, FlashType, Index
      <3>2. QED
        BY <1>11, <3>1 DEF WriteChunk, Source
    <2>3. \A i \in Index : card'[Selected][i] = card[Selected][i] \/ card'[Selected][i] = content
      BY <2>2 DEF PutChunk, TypeOK, DeviceType
    <2>4. OnlyCheckedBytesWritten'
      BY <2>2, <2>3 DEF TypeOK, DeviceType, OnlyCheckedBytesWritten
    <2>5. QED
      BY <2>1, <2>4
  <1>12. CASE WriteFails
    <2>1. StagedInv'
      BY <1>12, <1>a DEF WriteFails, FlashEnds
    <2>2. PICK content \in Source \cup {"bad"} :
            (PutChunk(content) /\ content # "other") \/ UNCHANGED card
      <3>1. written < Len(staged) => staged[written + 1] = "image"
        BY <1>12 DEF WriteFails, StagedMatches, TypeOK, StageType, FlashType, Index
      <3>2. QED
        BY <1>12, <3>1 DEF WriteFails, Source
    <2>3. \A i \in Index : card'[Selected][i] = card[Selected][i] \/ card'[Selected][i] = content
      BY <2>2 DEF PutChunk, TypeOK, DeviceType
    <2>4. OnlyCheckedBytesWritten'
      BY <2>2, <2>3 DEF TypeOK, DeviceType, OnlyCheckedBytesWritten
    <2>5. QED
      BY <2>1, <2>4
  <1>13. CASE WriteCancelled
    BY <1>13, <1>a, <1>b DEF WriteCancelled, FlashEnds, deviceVars, historyVars
  <1>14. CASE WriteEnd
    BY <1>14, <1>a, <1>b DEF WriteEnd, deviceVars, historyVars
  <1>15. CASE PrepareVerification
    BY <1>15, <1>a, <1>b DEF PrepareVerification, FlashEnds, historyVars
  <1>16. CASE ReopenForVerification
    BY <1>16, <1>a, <1>b DEF ReopenForVerification, FlashEnds, deviceVars, historyVars
  <1>17. CASE VerifyChunk
    BY <1>17, <1>a, <1>b DEF VerifyChunk, Callback, deviceVars, historyVars
  <1>18. CASE VerifyStops
    BY <1>18, <1>a, <1>b DEF VerifyStops, FlashEnds, deviceVars, historyVars
  <1>19. CASE VerifyEnd
    BY <1>19, <1>a, <1>b DEF VerifyEnd, FlashEnds, deviceVars, historyVars
  <1>20. CASE AfterFlash
    BY <1>20, <1>a, <1>b DEF AfterFlash, AbortFlash, flashVars
  <1>21. CASE SyncTarget
    BY <1>21, <1>a, <1>b DEF SyncTarget, Fail, EmitThen, flashVars
  <1>22. CASE EjectTarget
    BY <1>22, <1>a, <1>b DEF EjectTarget, EjectThenComplete, Fail, EmitThen, flashVars
  <1>23. CASE CleanupEject
    BY <1>23, <1>a, <1>b DEF CleanupEject, flashVars
  <1>24. CASE ReportFailure
    BY <1>24, <1>a, <1>b DEF ReportFailure, flashVars, deviceVars, historyVars
  <1>25. CASE TouchCancel
    BY <1>25, <1>a, <1>b DEF TouchCancel, deviceVars, historyVars, workerVars
  <1>26. CASE TouchSkip
    BY <1>26, <1>a, <1>b DEF TouchSkip, deviceVars, historyVars, workerVars
  <1>27. CASE RemoveMedium
    BY <1>27, <1>a, <1>b DEF RemoveMedium, historyVars, markerVars, workerVars
  <1>28. CASE InsertMedium
    BY <1>28, <1>a, <1>b DEF InsertMedium, historyVars, markerVars, workerVars
  <1>29. CASE Automount
    BY <1>29, <1>a, <1>b DEF Automount, historyVars, markerVars, workerVars
  <1>30. CASE Kill
    BY <1>30, <1>a, <1>b DEF Kill, flashVars, deviceVars, historyVars, markerVars
  <1>31. CASE UNCHANGED vars
    BY <1>31, <1>a, <1>b DEF vars, workerVars, deviceVars, markerVars, historyVars
  <1>32. QED
    BY <1>1, <1>2, <1>3, <1>4, <1>5, <1>6, <1>7, <1>8, <1>9, <1>10, <1>11,
       <1>12, <1>13, <1>14, <1>15, <1>16, <1>17, <1>18, <1>19, <1>20, <1>21,
       <1>22, <1>23, <1>24, <1>25, <1>26, <1>27, <1>28, <1>29, <1>30, <1>31 DEF Next, WorkerStep, Environment

(* However the raw file changes during staging, only bytes of the checked  *)
(* copy are written.                                                       *)
THEOREM OnlyCheckedBytesWrittenAlways == Spec => []OnlyCheckedBytesWritten
  <1>1. Init => StagedInv /\ OnlyCheckedBytesWritten
    BY WorkerAssumption DEF Init, StagedInv, Staged, OnlyCheckedBytesWritten,
       Untouched
  <1>2. TypeOK /\ StagedInv /\ OnlyCheckedBytesWritten /\ [Next]_vars
          => (StagedInv /\ OnlyCheckedBytesWritten)'
    BY StagedStep
  <1>3. QED
    BY <1>1, <1>2, TypeCorrect, PTL DEF Spec

(* What is counted as read back is what the medium holds.                  *)
LEMMA FlashStep ==
  ASSUME TypeOK, MediumInv, StagedInv, FlashInv, [Next]_vars
  PROVE  FlashInv'
  <1> USE WorkerAssumption DEF FlashInv, StagedInv, MediumInv, Early,
          Prewrite, Staged, Running, Holding
  <1>1. CASE Launch
    BY <1>1 DEF Launch, flashVars, deviceVars, historyVars
  <1>2. CASE RunJob
    BY <1>2 DEF RunJob, Fail, Stop, EmitThen, flashVars, deviceVars,
       historyVars
  <1>3. CASE StageChunk
    BY <1>3 DEF StageChunk, Fail, Stop, EmitThen, flashVars, deviceVars,
       historyVars
  <1>4. CASE StageEnd
    BY <1>4 DEF StageEnd, Fail, EmitThen, flashVars, deviceVars,
       historyVars
  <1>5. CASE ValidateTarget
    BY <1>5 DEF ValidateTarget, Fail, Stop, EmitThen, flashVars, deviceVars,
       historyVars
  <1>6. CASE Unmount
    BY <1>6 DEF Unmount, UnmountFailed, flashVars
  <1>7. CASE AfterUnmount
    BY <1>7 DEF AfterUnmount, Stop, EmitThen, flashVars, deviceVars,
       historyVars
  <1>8. CASE RevalidateTarget
    BY <1>8 DEF RevalidateTarget, Fail, flashVars, deviceVars, historyVars
  <1>9. CASE OpenTarget
    BY <1>9 DEF OpenTarget, Fail, flashVars, deviceVars, historyVars
  <1>10. CASE RevalidateOpened
    BY <1>10 DEF RevalidateOpened, Fail, flashVars, deviceVars, historyVars
  <1>11. CASE WriteChunk
    BY <1>11 DEF WriteChunk, Callback, PutChunk
  <1>12. CASE WriteFails
    BY <1>12 DEF WriteFails, FlashEnds, PutChunk, historyVars
  <1>13. CASE WriteCancelled
    BY <1>13 DEF WriteCancelled, FlashEnds, deviceVars, historyVars
  <1>14. CASE WriteEnd
    <2>1. written = Chunks
      BY <1>14 DEF WriteEnd, StagedMatches
    <2>2. QED
      BY <1>14, <2>1 DEF WriteEnd, deviceVars, historyVars
  <1>15. CASE PrepareVerification
    BY <1>15 DEF PrepareVerification, FlashEnds, historyVars
  <1>16. CASE ReopenForVerification
    BY <1>16 DEF ReopenForVerification, FlashEnds, deviceVars, historyVars
  <1>17. CASE VerifyChunk
    <2>1. rereadMatches' => rereadMatches /\ card[Selected][reread + 1] = staged[reread + 1]
      BY <1>17 DEF VerifyChunk, ReadBack, TypeOK, FlashType
    <2>2. /\ pc' = "verify" /\ reread' = reread + 1
          /\ UNCHANGED <<card, staged, written, flash, verified>>
      BY <1>17 DEF VerifyChunk, deviceVars
    <2>3. ASSUME rereadMatches', NEW i \in 1 .. reread'
          PROVE  card'[Selected][i] = staged'[i]
      <3>1. i \in 1 .. reread \/ i = reread + 1
        BY <2>2 DEF TypeOK, FlashType
      <3>2. QED
        BY <1>17, <2>1, <2>2, <2>3, <3>1 DEF VerifyChunk
    <2>4. QED
      BY <1>17, <2>2, <2>3 DEF VerifyChunk
  <1>18. CASE VerifyStops
    BY <1>18 DEF VerifyStops, FlashEnds, deviceVars, historyVars
  <1>19. CASE VerifyEnd
    <2>1. rereadMatches => \A i \in Index : card[Selected][i] = "image"
      BY <1>19 DEF VerifyEnd, Index, StagedMatches
    <2>2. QED
      BY <1>19, <2>1 DEF VerifyEnd, FlashEnds, deviceVars, historyVars
  <1>20. CASE AfterFlash
    <2>1. pc' = "sync" => flash = "ok"
      BY <1>20 DEF AfterFlash, AbortFlash, ReportError, TypeOK, FlashType
    <2>2. pc' \in {"sync", "cleanup"} /\ UNCHANGED flashVars
      BY <1>20 DEF AfterFlash, AbortFlash
    <2>3. UNCHANGED <<card, staged>>
      BY <1>20 DEF AfterFlash
    <2>4. QED
      BY <2>1, <2>2, <2>3 DEF flashVars
  <1>21. CASE SyncTarget
    BY <1>21 DEF SyncTarget, Fail, EmitThen, flashVars
  <1>22. CASE EjectTarget
    BY <1>22 DEF EjectTarget, EjectThenComplete, Fail, EmitThen, flashVars
  <1>23. CASE CleanupEject
    BY <1>23 DEF CleanupEject, flashVars
  <1>24. CASE ReportFailure
    BY <1>24 DEF ReportFailure, flashVars, deviceVars, historyVars
  <1>25. CASE TouchCancel
    BY <1>25 DEF TouchCancel, deviceVars, historyVars, workerVars
  <1>26. CASE TouchSkip
    BY <1>26 DEF TouchSkip, deviceVars, historyVars, workerVars
  <1>27. CASE RemoveMedium
    BY <1>27 DEF RemoveMedium, historyVars, markerVars, workerVars
  <1>28. CASE InsertMedium
    BY <1>28 DEF InsertMedium, historyVars, markerVars, workerVars
  <1>29. CASE Automount
    BY <1>29 DEF Automount, historyVars, markerVars, workerVars
  <1>30. CASE Kill
    BY <1>30 DEF Kill, flashVars, deviceVars, historyVars, markerVars
  <1>31. CASE UNCHANGED vars
    BY <1>31 DEF vars, workerVars, deviceVars, markerVars, historyVars
  <1>32. QED
    BY <1>1, <1>2, <1>3, <1>4, <1>5, <1>6, <1>7, <1>8, <1>9, <1>10, <1>11,
       <1>12, <1>13, <1>14, <1>15, <1>16, <1>17, <1>18, <1>19, <1>20, <1>21,
       <1>22, <1>23, <1>24, <1>25, <1>26, <1>27, <1>28, <1>29, <1>30, <1>31 DEF Next, WorkerStep, Environment

(* The flags and the errors made from them go back to the markers.         *)
LEMMA SignalStep ==
  ASSUME TypeOK, FlashDecided, FlashInv, SignalInv, [Next]_vars
  PROVE  SignalInv'
  <1> USE WorkerAssumption DEF SignalInv, StopsSoonAfterCancel, FlashInv,
          FlashDecided, Early, Prewrite, TypeOK, ControlType, FlashType,
          HistoryType
  <1>1. CASE Launch /\ UNCHANGED markerVars
    BY <1>1 DEF Launch, signalVars, flashVars, historyVars, markerVars
  <1>2. CASE RunJob /\ UNCHANGED markerVars
    BY <1>2 DEF RunJob, Fail, Stop, Proceed, Refresh, EmitThen, signalVars,
       flashVars, historyVars, markerVars
  <1>3. CASE StageChunk /\ UNCHANGED markerVars
    BY <1>3 DEF StageChunk, Fail, Stop, Proceed, Refresh, EmitThen,
       flashVars, historyVars, markerVars
  <1>4. CASE StageEnd /\ UNCHANGED markerVars
    BY <1>4 DEF StageEnd, Fail, Proceed, Refresh, EmitThen, flashVars,
       historyVars, markerVars
  <1>5. CASE ValidateTarget /\ UNCHANGED markerVars
    BY <1>5 DEF ValidateTarget, Fail, Stop, Proceed, Refresh, EmitThen,
       signalVars, flashVars, historyVars, markerVars
  <1>6. CASE Unmount /\ UNCHANGED markerVars
    BY <1>6 DEF Unmount, UnmountFailed, signalVars, flashVars, markerVars
  <1>7. CASE AfterUnmount /\ UNCHANGED markerVars
    BY <1>7 DEF AfterUnmount, Stop, Proceed, Refresh, EmitThen, flashVars,
       historyVars, markerVars
  <1>8. CASE RevalidateTarget /\ UNCHANGED markerVars
    BY <1>8 DEF RevalidateTarget, Fail, signalVars, flashVars, historyVars,
       markerVars
  <1>9. CASE OpenTarget /\ UNCHANGED markerVars
    BY <1>9 DEF OpenTarget, Fail, signalVars, flashVars, historyVars,
       markerVars
  <1>10. CASE RevalidateOpened /\ UNCHANGED markerVars
    BY <1>10 DEF RevalidateOpened, Fail, signalVars, flashVars, historyVars,
       markerVars
  <1>11. CASE WriteChunk /\ UNCHANGED markerVars
    BY <1>11 DEF WriteChunk, Callback, Refresh, PutChunk, markerVars
  <1>12. CASE WriteFails /\ UNCHANGED markerVars
    BY <1>12 DEF WriteFails, FlashEnds, PutChunk, historyVars, signalVars,
       markerVars
  <1>13. CASE WriteCancelled /\ UNCHANGED markerVars
    BY <1>13 DEF WriteCancelled, FlashEnds, historyVars, signalVars,
       markerVars
  <1>14. CASE WriteEnd /\ UNCHANGED markerVars
    BY <1>14 DEF WriteEnd, signalVars, historyVars, markerVars
  <1>15. CASE PrepareVerification /\ UNCHANGED markerVars
    BY <1>15 DEF PrepareVerification, FlashEnds, signalVars, historyVars,
       markerVars
  <1>16. CASE ReopenForVerification /\ UNCHANGED markerVars
    BY <1>16 DEF ReopenForVerification, FlashEnds, signalVars, historyVars,
       markerVars
  <1>17. CASE VerifyChunk /\ UNCHANGED markerVars
    BY <1>17 DEF VerifyChunk, Callback, Refresh, historyVars, markerVars
  <1>18. CASE VerifyStops /\ UNCHANGED markerVars
    BY <1>18 DEF VerifyStops, FlashEnds, historyVars, signalVars,
       markerVars
  <1>19. CASE VerifyEnd /\ UNCHANGED markerVars
    BY <1>19 DEF VerifyEnd, FlashEnds, historyVars, signalVars, markerVars
  <1>20. CASE AfterFlash /\ UNCHANGED markerVars
    BY <1>20 DEF AfterFlash, AbortFlash, Proceed, Refresh, CallbackFailed,
       ReportError, signalVars, flashVars, markerVars
  <1>21. CASE SyncTarget /\ UNCHANGED markerVars
    BY <1>21 DEF SyncTarget, Fail, EmitThen, signalVars, flashVars,
       markerVars
  <1>22. CASE EjectTarget /\ UNCHANGED markerVars
    BY <1>22 DEF EjectTarget, EjectThenComplete, Fail, EmitThen, signalVars,
       flashVars, markerVars
  <1>23. CASE CleanupEject /\ UNCHANGED markerVars
    BY <1>23 DEF CleanupEject, signalVars, flashVars, markerVars
  <1>24. CASE ReportFailure /\ UNCHANGED markerVars
    BY <1>24 DEF ReportFailure, signalVars, flashVars, historyVars,
       markerVars
  <1>25. CASE TouchCancel
    BY <1>25 DEF TouchCancel, historyVars, workerVars
  <1>26. CASE TouchSkip
    BY <1>26 DEF TouchSkip, historyVars, workerVars
  <1>27. CASE RemoveMedium
    BY <1>27 DEF RemoveMedium, historyVars, markerVars, workerVars
  <1>28. CASE InsertMedium
    BY <1>28 DEF InsertMedium, historyVars, markerVars, workerVars
  <1>29. CASE Automount
    BY <1>29 DEF Automount, historyVars, markerVars, workerVars
  <1>30. CASE Kill
    BY <1>30 DEF Kill, signalVars, flashVars, historyVars, markerVars
  <1>31. CASE UNCHANGED vars
    BY <1>31 DEF vars, workerVars, deviceVars, markerVars, historyVars
  <1>32. QED
    BY <1>1, <1>2, <1>3, <1>4, <1>5, <1>6, <1>7, <1>8, <1>9, <1>10, <1>11,
       <1>12, <1>13, <1>14, <1>15, <1>16, <1>17, <1>18, <1>19, <1>20, <1>21,
       <1>22, <1>23, <1>24, <1>25, <1>26, <1>27, <1>28, <1>29, <1>30, <1>31 DEF Next, WorkerStep, Environment

(* A log entry was there before the append, or is the appended record.     *)
LEMMA AppendedEntry ==
  ASSUME LogType, NEW r, emitted' = Append(emitted, r), r \in Record,
         NEW i \in 1 .. Len(emitted')
  PROVE  \/ i \in 1 .. Len(emitted) /\ emitted'[i] = emitted[i]
         \/ i = Len(emitted') /\ i = Len(emitted) + 1 /\ emitted'[i] = r
  BY DEF LogType

(* While the job goes well the log holds no outcome, so a step that only   *)
(* announces a phase, or ends the job with an error, keeps RecordInv.      *)
PhaseOrEnd ==
  /\ pc \in Healthy
  /\ UNCHANGED emitted \/ \E r \in Phases : emitted' = Append(emitted, r)
  /\ \/ pc' \in Healthy /\ error' = "none"
     \/ pc' \in {"cleanup", "report", "exited"} /\ error' # "none"

LEMMA PhaseKeepsRecords ==
  ASSUME TypeOK, RecordInv, PhaseOrEnd, cancelMarker' = cancelMarker
  PROVE  RecordInv'
  <1>1. \A i \in 1 .. Len(emitted) : emitted[i] \notin Success
    BY DEF RecordInv, PhaseOrEnd
  <1>2. \A i \in 1 .. Len(emitted') :
          /\ emitted'[i] \notin Success
          /\ emitted'[i] = "Cancelled" => cancelMarker'
    <2>1. CASE UNCHANGED emitted
      BY <1>1, <2>1 DEF RecordInv
    <2>2. ASSUME NEW r \in Phases, emitted' = Append(emitted, r)
          PROVE  \A i \in 1 .. Len(emitted') :
                   /\ emitted'[i] \notin Success
                   /\ emitted'[i] = "Cancelled" => cancelMarker'
      <3>1. r \in Record /\ r \notin Success /\ r # "Cancelled"
        BY DEF Record, Phases, Success
      <3>2. QED
        BY <1>1, <2>2, <3>1, AppendedEntry DEF RecordInv, TypeOK
    <2>3. QED
      BY <2>1, <2>2 DEF PhaseOrEnd
  <1>3. pc' \in Healthy => error' = "none"
    BY DEF PhaseOrEnd, Healthy, Running
  <1>4. pc' \in {"cleanup", "report", "exited"} => error' # "none"
    BY DEF PhaseOrEnd, Healthy, Running
  <1>5. Len(emitted') \in Nat
    BY DEF TypeOK, LogType, PhaseOrEnd
  <1>6. QED
    BY <1>2, <1>3, <1>4, <1>5 DEF RecordInv, Success, ExitAgreesWithLog

(* The log tells the truth.                                                *)
LEMMA RecordStep ==
  ASSUME TypeOK, FlashDecided, MediumInv, ReleaseInv, FlashInv, SignalInv,
         RecordInv, [Next]_vars
  PROVE  RecordInv'
  <1>0. ASSUME PhaseOrEnd, UNCHANGED markerVars PROVE RecordInv'
    BY <1>0, PhaseKeepsRecords DEF markerVars
  <1>1. CASE RunJob /\ UNCHANGED markerVars
    BY <1>0, <1>1 DEF PhaseOrEnd, RunJob, Fail, Stop, EmitThen, NoRecord,
       Emit, EmitFails, Healthy, Running, Phases, RecordInv
  <1>2. CASE StageChunk /\ UNCHANGED markerVars
    BY <1>0, <1>2 DEF PhaseOrEnd, StageChunk, Fail, Stop, EmitThen,
       NoRecord, Emit, EmitFails, Healthy, Running, Phases, RecordInv
  <1>3. CASE StageEnd /\ UNCHANGED markerVars
    BY <1>0, <1>3 DEF PhaseOrEnd, StageEnd, Fail, EmitThen, NoRecord, Emit,
       EmitFails, Healthy, Running, Phases, RecordInv
  <1>4. CASE ValidateTarget /\ UNCHANGED markerVars
    BY <1>0, <1>4 DEF PhaseOrEnd, ValidateTarget, Fail, Stop, EmitThen,
       NoRecord, Emit, EmitFails, Healthy, Running, Phases, RecordInv
  <1>5. CASE AfterUnmount /\ UNCHANGED markerVars
    BY <1>0, <1>5 DEF PhaseOrEnd, AfterUnmount, Stop, EmitThen, NoRecord,
       Emit, EmitFails, Healthy, Running, Phases, RecordInv
  <1>6. CASE RevalidateTarget /\ UNCHANGED markerVars
    BY <1>0, <1>6 DEF PhaseOrEnd, RevalidateTarget, Fail, NoRecord, Healthy,
       Running, Phases, RecordInv
  <1>7. CASE OpenTarget /\ UNCHANGED markerVars
    BY <1>0, <1>7 DEF PhaseOrEnd, OpenTarget, Fail, NoRecord, Healthy,
       Running, Phases, RecordInv
  <1>8. CASE RevalidateOpened /\ UNCHANGED markerVars
    BY <1>0, <1>8 DEF PhaseOrEnd, RevalidateOpened, Fail, NoRecord, Healthy,
       Running, Phases, RecordInv
  <1>9. CASE Launch /\ UNCHANGED markerVars
    BY <1>0, <1>9 DEF PhaseOrEnd, Launch, NoRecord, Healthy, Running,
       Phases, RecordInv
  <1>10. CASE Unmount /\ UNCHANGED markerVars
    BY <1>0, <1>10 DEF PhaseOrEnd, Unmount, NoRecord, UnmountFailed,
       Healthy, Running, Phases, RecordInv
  <1>11. CASE WriteChunk /\ UNCHANGED markerVars
    BY <1>0, <1>11 DEF PhaseOrEnd, WriteChunk, Callback, NoRecord, Emit,
       EmitFails, RecordInv, Healthy, Running, Phases
  <1>12. CASE WriteFails /\ UNCHANGED markerVars
    BY <1>0, <1>12 DEF PhaseOrEnd, WriteFails, FlashEnds, NoRecord, Healthy,
       Running, Phases, RecordInv
  <1>13. CASE WriteCancelled /\ UNCHANGED markerVars
    BY <1>0, <1>13 DEF PhaseOrEnd, WriteCancelled, FlashEnds, NoRecord,
       Healthy, Running, Phases, RecordInv
  <1>14. CASE WriteEnd /\ UNCHANGED markerVars
    BY <1>0, <1>14 DEF PhaseOrEnd, WriteEnd, NoRecord, Healthy, Running,
       Phases, RecordInv
  <1>15. CASE PrepareVerification /\ UNCHANGED markerVars
    BY <1>0, <1>15 DEF PhaseOrEnd, PrepareVerification, FlashEnds, NoRecord,
       Healthy, Running, Phases, RecordInv
  <1>16. CASE ReopenForVerification /\ UNCHANGED markerVars
    BY <1>0, <1>16 DEF PhaseOrEnd, ReopenForVerification, FlashEnds,
       NoRecord, Healthy, Running, Phases, RecordInv
  <1>17. CASE VerifyChunk /\ UNCHANGED markerVars
    BY <1>0, <1>17 DEF PhaseOrEnd, VerifyChunk, Callback, NoRecord, Emit,
       EmitFails, RecordInv, Healthy, Running, Phases
  <1>18. CASE VerifyStops /\ UNCHANGED markerVars
    BY <1>0, <1>18 DEF PhaseOrEnd, VerifyStops, FlashEnds, NoRecord,
       Healthy, Running, Phases, RecordInv
  <1>19. CASE VerifyEnd /\ UNCHANGED markerVars
    BY <1>0, <1>19 DEF PhaseOrEnd, VerifyEnd, FlashEnds, NoRecord, Healthy,
       Running, Phases, RecordInv
  <1>20. CASE AfterFlash /\ UNCHANGED markerVars
    BY <1>0, <1>20 DEF PhaseOrEnd, AfterFlash, AbortFlash, NoRecord, Emit,
       EmitFails, ReportError, CallbackFailed, TypeOK, FlashType,
       FlashDecided, Healthy, Running, Phases, RecordInv
  <1>21. CASE SyncTarget /\ UNCHANGED markerVars
    BY <1>0, <1>21 DEF PhaseOrEnd, SyncTarget, Fail, EmitThen, NoRecord,
       Emit, EmitFails, Healthy, Running, Phases, RecordInv
  <1>22. CASE EjectTarget /\ UNCHANGED markerVars
    <2>1. \A j \in 1 .. Len(emitted) : emitted[j] \notin Success
      BY <1>22 DEF EjectTarget, RecordInv, Healthy, Running
    <2>2. CASE EjectFails /\ Fail("Platform", "cleanup")
      BY <1>0, <1>22, <2>2 DEF PhaseOrEnd, EjectTarget, Fail, NoRecord, Healthy, Running
    <2>3. CASE EjectSucceeds /\ EmitThen(CompletedRecord, "exited", "cleanup")
      <3>1. CompletedRecord \in Success /\ CompletedRecord \in Record
        BY DEF CompletedRecord, Success, Record, Finals
      <3>2. /\ emitted' = Append(emitted, CompletedRecord)
            /\ \/ pc' = "exited" /\ error' = "none" /\ flushed' = Len(emitted) + 1
               \/ pc' = "cleanup" /\ error' = "Progress"
        BY <1>22, <2>3 DEF EjectTarget, EmitThen, Emit, EmitFails, RecordInv, Healthy, Running
      <3>3. /\ written' = Chunks /\ ~dirty' /\ fd' = NoMedium /\ slot' # Selected
            /\ verified' = verified /\ flash' = "ok" /\ cancelMarker' = cancelMarker
        BY <1>22, <2>3, WorkerAssumption DEF EjectTarget, EjectSucceeds, FlashInv,
           ReleaseInv, MediumInv, Holding, flashVars, markerVars
      <3>4. Len(emitted') = Len(emitted) + 1 /\ Len(emitted) \in Nat
        BY <3>1, <3>2 DEF TypeOK, LogType
      <3>5. \A j \in 1 .. Len(emitted') :
              \/ j \in 1 .. Len(emitted) /\ emitted'[j] = emitted[j]
              \/ j = Len(emitted') /\ emitted'[j] = CompletedRecord
        BY <3>1, <3>2, AppendedEntry DEF TypeOK
      <3>6. \A j \in 1 .. Len(emitted') :
              /\ emitted'[j] \in Success =>
                   /\ pc' \notin Healthy
                   /\ written' = Chunks /\ ~dirty' /\ fd' = NoMedium /\ slot' # Selected
              /\ emitted'[j] = "Completed" => verified'
              /\ emitted'[j] = "CompletedUnverified" => ~verified' /\ flash' = "ok"
              /\ emitted'[j] = "Cancelled" => cancelMarker'
        BY <2>1, <3>1, <3>2, <3>3, <3>5 DEF CompletedRecord, Success, Healthy,
           Running, RecordInv
      <3>7. ExitAgreesWithLog'
        <4>1. pc' = "exited" /\ error' = "none" =>
                flushed' = Len(emitted') /\ flushed' > 0 /\ emitted'[flushed'] \in Success
          BY <3>1, <3>2, <3>4, <3>5 DEF TypeOK, LogType
        <4>2. \A j \in 1 .. Len(emitted') - 1 : emitted'[j] \notin Success
          BY <2>1, <3>4, <3>5
        <4>3. QED
          BY <4>1, <4>2 DEF ExitAgreesWithLog, Success
      <3>8. QED
        BY <3>2, <3>6, <3>7 DEF RecordInv, Healthy, Running
    <2>4. QED
      BY <1>22, <2>2, <2>3 DEF EjectTarget, EjectThenComplete
  <1>23. CASE CleanupEject /\ UNCHANGED markerVars
    <2>1. UNCHANGED <<emitted, flushed, error, written, dirty, fd, verified, flash, cancelMarker>>
      BY <1>23 DEF CleanupEject, NoRecord, flashVars, markerVars
    <2>2. slot' # Selected \/ slot' = slot
      BY <1>23, WorkerAssumption DEF CleanupEject, EjectSucceeds, EjectFails
    <2>3. pc = "cleanup" /\ pc' = "report"
      BY <1>23 DEF CleanupEject
    <2>4. QED
      BY <2>1, <2>2, <2>3 DEF RecordInv, ExitAgreesWithLog, Healthy, Running
  <1>24. CASE ReportFailure /\ UNCHANGED markerVars
    <2> DEFINE last == IF error = "Cancelled" THEN "Cancelled" ELSE "Failed"
    <2>1. last \in Record /\ last \notin Success
      BY DEF Record, Finals, Success
    <2>2. /\ emitted' = Append(emitted, last)
          /\ pc = "report" /\ pc' = "exited" /\ error # "none" /\ error' # "none"
          /\ UNCHANGED <<written, dirty, fd, slot, verified, flash, cancelMarker>>
      BY <1>24 DEF ReportFailure, flashVars, deviceVars, markerVars, RecordInv
    <2>3. last = "Cancelled" => cancelMarker
      BY DEF SignalInv
    <2>4. \A j \in 1 .. Len(emitted') :
            \/ j \in 1 .. Len(emitted) /\ emitted'[j] = emitted[j]
            \/ j = Len(emitted') /\ emitted'[j] = last
      BY <2>1, <2>2, AppendedEntry DEF TypeOK
    <2>5. QED
      BY <2>1, <2>2, <2>3, <2>4 DEF RecordInv, ExitAgreesWithLog, Success, Healthy, Running
  <1>25. CASE TouchCancel \/ TouchSkip
    BY <1>25 DEF TouchCancel, TouchSkip, workerVars, deviceVars, RecordInv,
       ExitAgreesWithLog
  <1>26. CASE RemoveMedium \/ InsertMedium \/ Automount
    <2>1. UNCHANGED <<workerVars, dirty, cancelMarker>>
      BY <1>26 DEF RemoveMedium, InsertMedium, Automount, markerVars
    <2>2. slot' # Selected \/ slot' = slot
      BY <1>26, WorkerAssumption DEF RemoveMedium, InsertMedium, Automount, MediumInv
    <2>3. QED
      BY <2>1, <2>2 DEF workerVars, RecordInv, ExitAgreesWithLog
  <1>27. CASE Kill
    BY <1>27 DEF Kill, flashVars, deviceVars, markerVars, RecordInv,
       ExitAgreesWithLog, Healthy, Running
  <1>28. CASE UNCHANGED vars
    BY <1>28 DEF vars, workerVars, deviceVars, markerVars, RecordInv, ExitAgreesWithLog
  <1>29. QED
    BY <1>1, <1>2, <1>3, <1>4, <1>5, <1>6, <1>7, <1>8, <1>9, <1>10, <1>11,
       <1>12, <1>13, <1>14, <1>15, <1>16, <1>17, <1>18, <1>19, <1>20, <1>21,
       <1>22, <1>23, <1>24, <1>25, <1>26, <1>27, <1>28 DEF Next, WorkerStep, Environment

(* Every part of the inductive invariant holds at launch.                  *)
LEMMA InitInv ==
  ASSUME Init
  PROVE  /\ MediumInv /\ OnlySelectedWritten
         /\ StagedInv /\ OnlyCheckedBytesWritten
         /\ ReleaseInv /\ EjectInv /\ FlashInv /\ SignalInv /\ RecordInv
  <1> USE DEF Init
  <1>1. MediumInv /\ OnlySelectedWritten
    BY DEF MediumInv, OnlySelectedWritten, Holding
  <1>2. StagedInv /\ OnlyCheckedBytesWritten
    BY WorkerAssumption
       DEF StagedInv, Staged, OnlyCheckedBytesWritten, Untouched
  <1>3. ReleaseInv /\ EjectInv
    BY DEF ReleaseInv, SyncedBeforeRelease, EjectInv, EjectTried
  <1>4. FlashInv /\ SignalInv
    BY DEF FlashInv, SignalInv, StopsSoonAfterCancel
  <1>5. RecordInv
    <2>1. Len(emitted) = 0
      OBVIOUS
    <2>2. ExitAgreesWithLog
      BY <2>1 DEF ExitAgreesWithLog
    <2>3. QED
      BY <2>1, <2>2 DEF RecordInv, Healthy, Running
  <1>6. QED
    BY <1>1, <1>2, <1>3, <1>4, <1>5

(* No step of the worker or of its environment breaks the invariant.       *)
LEMMA IndStep ==
  ASSUME IndInv, [Next]_vars
  PROVE  IndInv'
  <1> USE DEF IndInv
  <1>1. TypeOK' /\ FlashDecided'
    BY LogStep, StateStep, DecidedStep DEF TypeOK
  <1>2. MediumInv' /\ OnlySelectedWritten'
    BY MediumStep
  <1>3. StagedInv' /\ OnlyCheckedBytesWritten'
    BY StagedStep
  <1>4. ReleaseInv' /\ EjectInv'
    BY ReleaseStep, EjectStep
  <1>5. FlashInv' /\ SignalInv' /\ RecordInv'
    BY FlashStep, SignalStep, RecordStep
  <1>6. QED
    BY <1>1, <1>2, <1>3, <1>4, <1>5

(* Whatever the worker and its environment do, the types and the parts of  *)
(* the invariant hold.                                                     *)
THEOREM Inductive == Spec => []IndInv
  <1>1. Init => IndInv
    BY InitInv, InitTypes DEF IndInv
  <1>2. IndInv /\ [Next]_vars => IndInv'
    BY IndStep
  <1>3. QED
    BY <1>1, <1>2, PTL DEF Spec

(* A record that is visible is an entry of the log.                        *)
LEMMA VisibleEntry ==
  ASSUME TypeOK, NEW r, Visible(r)
  PROVE  \E i \in 1 .. Len(emitted) : emitted[i] = r
  BY DEF TypeOK, LogType, Visible

(* What the invariant says of the records the GUI process can read.        *)
LEMMA Truthful ==
  IndInv => /\ VerifiedIsTrue
            /\ CompletedIsDurable
            /\ UnverifiedOnlyIfAsked
            /\ CancelledOnlyIfRequested
  <1> SUFFICES ASSUME IndInv
               PROVE  /\ VerifiedIsTrue
                      /\ CompletedIsDurable
                      /\ UnverifiedOnlyIfAsked
                      /\ CancelledOnlyIfRequested
    OBVIOUS
  <1> USE VisibleEntry DEF IndInv, RecordInv
  <1>1. VerifiedIsTrue
    BY DEF FlashInv, VerifiedIsTrue
  <1>2. CompletedIsDurable
    BY DEF Success, CompletedIsDurable
  <1>3. UnverifiedOnlyIfAsked
    BY DEF SignalInv, UnverifiedOnlyIfAsked
  <1>4. CancelledOnlyIfRequested
    BY DEF CancelledOnlyIfRequested
  <1>5. QED
    BY <1>1, <1>2, <1>3, <1>4

(* A visible verified success is true of the selected medium: it holds the *)
(* image, chunk by chunk.                                                  *)
THEOREM VerifiedIsTrueAlways == Spec => []VerifiedIsTrue
  BY Truthful, Inductive, PTL

(* A visible success record means that all was written, synced, closed and *)
(* detached.                                                               *)
THEOREM CompletedIsDurableAlways == Spec => []CompletedIsDurable
  BY Truthful, Inductive, PTL

(* Success without verification is reported only where it was asked for.   *)
THEOREM UnverifiedOnlyIfAskedAlways == Spec => []UnverifiedOnlyIfAsked
  BY Truthful, Inductive, PTL

(* A cancelled record always answers a cancel marker.                      *)
THEOREM CancelledOnlyIfRequestedAlways == Spec => []CancelledOnlyIfRequested
  BY Truthful, Inductive, PTL

(* At most one more chunk is written after the cancel marker appeared.     *)
THEOREM StopsSoonAfterCancelAlways == Spec => []StopsSoonAfterCancel
  <1>1. IndInv => StopsSoonAfterCancel
    BY DEF IndInv, SignalInv
  <1>2. QED
    BY <1>1, Inductive, PTL

(* The exit status and the last record agree.                              *)
THEOREM ExitAgreesWithLogAlways == Spec => []ExitAgreesWithLog
  <1>1. IndInv => ExitAgreesWithLog
    BY DEF IndInv, RecordInv
  <1>2. QED
    BY <1>1, Inductive, PTL

(* The cleanup never replaces the error that ended the job.                *)
THEOREM PrimaryErrorSurvivesAlways == Spec => PrimaryErrorSurvives
  <1>1. IndInv /\ [Next]_vars
          => [error # "none" /\ pc # "report" => error' = error]_vars
    <2> SUFFICES ASSUME IndInv, [Next]_vars, error # "none", pc # "report"
                 PROVE  error' = error
      OBVIOUS
    <2>1. pc \notin Healthy
      BY DEF IndInv, RecordInv
    <2>2. CASE UNCHANGED vars
      BY <2>2 DEF vars, workerVars
    <2>3. CASE Environment
      BY <2>3 DEF Environment, TouchCancel, TouchSkip, RemoveMedium,
         InsertMedium, Automount, Kill, workerVars
    <2>4. CASE CleanupEject
      BY <2>4 DEF CleanupEject
    <2>5. CASE WorkerStep /\ ~CleanupEject
      BY <2>1, <2>5 DEF WorkerStep, Healthy, Running, Launch, RunJob,
         StageChunk, StageEnd, ValidateTarget, Unmount, AfterUnmount,
         RevalidateTarget, OpenTarget, RevalidateOpened, WriteChunk,
         WriteFails, WriteCancelled, WriteEnd, PrepareVerification,
         ReopenForVerification, VerifyChunk, VerifyStops, VerifyEnd,
         AfterFlash, SyncTarget, EjectTarget, ReportFailure
    <2>6. QED
      BY <2>2, <2>3, <2>4, <2>5 DEF Next
  <1>2. QED
    BY <1>1, Inductive, PTL DEF Spec, PrimaryErrorSurvives

(* A medium behind an open handle is not mounted, and no medium in the     *)
(* reader or behind a handle is inserted once more.                        *)
ExclusiveInv ==
  /\ slot = NoMedium => mounted = {}
  /\ slot \notin fresh /\ fd \notin fresh
  /\ fd # NoMedium /\ fd = slot => mounted = {}

LEMMA ExclusiveStep ==
  ASSUME TypeOK, ExclusiveInv, [Next]_vars
  PROVE  ExclusiveInv'
  <1> USE WorkerAssumption DEF ExclusiveInv, TypeOK, DeviceType
  <1>1. CASE Launch \/ RunJob \/ StageChunk \/ StageEnd \/ ValidateTarget
    BY <1>1 DEF Launch, RunJob, StageChunk, StageEnd, ValidateTarget,
       deviceVars
  <1>2. CASE Unmount
    BY <1>2 DEF Unmount
  <1>3. CASE AfterUnmount \/ RevalidateTarget
    BY <1>3 DEF AfterUnmount, RevalidateTarget, deviceVars
  <1>4. CASE OpenTarget \/ RevalidateOpened
    BY <1>4 DEF OpenTarget, RevalidateOpened, Openable, deviceVars
  <1>5. CASE WriteChunk \/ WriteFails \/ WriteCancelled \/ WriteEnd
    BY <1>5 DEF WriteChunk, WriteFails, WriteCancelled, WriteEnd, deviceVars
  <1>6. CASE PrepareVerification \/ ReopenForVerification
    BY <1>6 DEF PrepareVerification, ReopenForVerification, Openable,
       deviceVars
  <1>7. CASE VerifyChunk \/ VerifyStops \/ VerifyEnd
    BY <1>7 DEF VerifyChunk, VerifyStops, VerifyEnd, deviceVars
  <1>8. CASE AfterFlash
    BY <1>8 DEF AfterFlash, AbortFlash, SyncAndDrop
  <1>9. CASE SyncTarget
    BY <1>9 DEF SyncTarget
  <1>10. CASE EjectTarget \/ CleanupEject
    BY <1>10 DEF EjectTarget, CleanupEject, EjectThenComplete,
       EjectSucceeds, EjectFails
  <1>11. CASE ReportFailure
    BY <1>11 DEF ReportFailure, deviceVars
  <1>12. CASE Environment
    BY <1>12 DEF Environment, TouchCancel, TouchSkip, RemoveMedium,
       InsertMedium, Automount, Kill, workerVars, deviceVars
  <1>13. CASE UNCHANGED vars
    BY <1>13 DEF vars, workerVars, deviceVars
  <1>14. QED
    BY <1>1, <1>2, <1>3, <1>4, <1>5, <1>6, <1>7, <1>8, <1>9, <1>10, <1>11,
       <1>12, <1>13 DEF Next, WorkerStep

(* No chunk is written to a mounted medium.                                *)
THEOREM NoWriteUnderMountAlways == Spec => NoWriteUnderMount
  <1>1. Init => ExclusiveInv
    BY WorkerAssumption DEF Init, ExclusiveInv
  <1>2. TypeOK /\ ExclusiveInv /\ [Next]_vars => ExclusiveInv'
    BY ExclusiveStep
  <1>3. IndInv /\ ExclusiveInv /\ [Next]_vars
          => [card' # card => mounted = {}]_vars
    <2> SUFFICES ASSUME IndInv, ExclusiveInv, [Next]_vars, card' # card
                 PROVE  mounted = {}
      OBVIOUS
    <2>1. CASE WriteChunk \/ WriteFails
      BY <2>1, WorkerAssumption
         DEF WriteChunk, WriteFails, IndInv, MediumInv, ExclusiveInv
    <2>2. CASE UNCHANGED vars
      BY <2>2 DEF vars, deviceVars
    <2>3. CASE Environment
      BY <2>3 DEF Environment, TouchCancel, TouchSkip, RemoveMedium,
         InsertMedium, Automount, Kill, deviceVars
    <2>4. CASE WorkerStep /\ ~(WriteChunk \/ WriteFails)
      BY <2>4 DEF WorkerStep, deviceVars, Launch, RunJob,
         StageChunk, StageEnd, ValidateTarget, Unmount, AfterUnmount,
         RevalidateTarget, OpenTarget, RevalidateOpened,
         WriteCancelled, WriteEnd, PrepareVerification,
         ReopenForVerification, VerifyChunk, VerifyStops, VerifyEnd,
         AfterFlash, SyncTarget, EjectTarget, CleanupEject, ReportFailure
    <2>5. QED
      BY <2>1, <2>2, <2>3, <2>4 DEF Next
  <1>4. QED
    BY <1>1, <1>2, <1>3, TypeCorrect, Inductive, PTL
       DEF Spec, NoWriteUnderMount

-----------------------------------------------------------------------------
(* The job runs out of steps *)

(* What StepsLeft counts with.                                             *)
LEMMA Counters ==
  ASSUME TypeOK
  PROVE  /\ Ahead[pc] \in 0 .. 19
         /\ Chunks \in Nat
         /\ Len(staged) \in 0 .. Chunks /\ written \in 0 .. Chunks /\ reread \in 0 .. Chunks
  <1>1. Ahead[pc] \in 0 .. 19
    BY DEF Ahead, TypeOK, ControlType, Running, Stopped
  <1>2. Len(staged) \in Nat
    BY DEF TypeOK, StageType
  <1>3. QED
    BY <1>1, <1>2, WorkerAssumption DEF TypeOK, StageType, FlashType

(* The sum of what is left; it does not grow if none of its parts does,    *)
(* and shrinks with any of them.                                           *)
LEMMA Countdown ==
  ASSUME NEW c \in Nat, NEW a \in 0 .. 19, NEW x \in 0 .. c, NEW y \in 0 .. c, NEW z \in 0 .. c,
         NEW b \in 0 .. 19, NEW u \in 0 .. c, NEW v \in 0 .. c, NEW w \in 0 .. c
  PROVE  LET before == a + (c - x) + (c - y) + (c - z)
             after  == b + (c - u) + (c - v) + (c - w)
         IN  /\ before \in 0 .. 19 + 3 * c
             /\ b = a /\ u = x /\ v = y /\ w = z => after = before
             /\ b < a /\ u = x /\ v = y /\ w = z => after < before
             /\ b = a \/ b < a =>
                  /\ u = x + 1 /\ v = y /\ w = z => after < before
                  /\ u = x /\ v = y + 1 /\ w = z => after < before
                  /\ u = x /\ v = y /\ w = z + 1 => after < before
  OBVIOUS

(* What is left is a number of steps.                                      *)
LEMMA StepsLeftIsNat ==
  ASSUME TypeOK
  PROVE  StepsLeft \in 0 .. 19 + 3 * Chunks
  BY Counters, Countdown DEF StepsLeft

(* What the counters are after a step.                                     *)
LEMMA CountersNext ==
  ASSUME TypeOK'
  PROVE  /\ Ahead[pc'] \in 0 .. 19
         /\ Len(staged') \in 0 .. Chunks /\ written' \in 0 .. Chunks /\ reread' \in 0 .. Chunks
  <1>1. Ahead[pc'] \in 0 .. 19
    BY DEF Ahead, TypeOK, ControlType, Running, Stopped
  <1>2. Len(staged') \in Nat
    BY DEF TypeOK, StageType
  <1>3. QED
    BY <1>1, <1>2, WorkerAssumption DEF TypeOK, StageType, FlashType

(* A step to a label further on, with no chunk taken back.                 *)
LEMMA GoingOn ==
  ASSUME TypeOK, TypeOK', Ahead[pc'] < Ahead[pc], UNCHANGED <<staged, written, reread>>
  PROVE  StepsLeft' < StepsLeft
  BY Counters, CountersNext, Countdown DEF StepsLeft

(* A round of one of the three loops, which takes one more chunk.          *)
LEMMA GoingRound ==
  ASSUME TypeOK, TypeOK', pc' = pc \/ Ahead[pc'] < Ahead[pc],
         \/ Len(staged') = Len(staged) + 1 /\ UNCHANGED <<written, reread>>
         \/ written' = written + 1 /\ UNCHANGED <<staged, reread>>
         \/ reread' = reread + 1 /\ UNCHANGED <<staged, written>>
  PROVE  StepsLeft' < StepsLeft
  BY Counters, CountersNext, Countdown DEF StepsLeft

(* Each step of the worker is one or the other.                            *)
LEMMA WorkerGetsOn ==
  ASSUME TypeOK, TypeOK', WorkerStep
  PROVE  StepsLeft' < StepsLeft
  <1>1. CASE Launch
    BY <1>1, GoingOn DEF Launch, Ahead, flashVars
  <1>2. CASE RunJob
    BY <1>2, GoingOn DEF RunJob, Fail, Stop, EmitThen, Ahead, flashVars
  <1>3. CASE StageChunk
    <2>1. CASE pc' = "report" /\ UNCHANGED staged
      BY <1>3, <2>1, GoingOn DEF StageChunk, Ahead, flashVars
    <2>2. CASE pc' \in {"staging", "report"} /\ Len(staged') = Len(staged) + 1
      BY <1>3, <2>2, GoingRound DEF StageChunk, Ahead, flashVars
    <2>3. ASSUME NEW chunk \in Source, staged' = Append(staged, chunk)
          PROVE  Len(staged') = Len(staged) + 1
      BY <2>3 DEF TypeOK, StageType
    <2>4. QED
      BY <1>3, <2>1, <2>2, <2>3 DEF StageChunk, Stop, Fail, EmitThen
  <1>4. CASE StageEnd
    BY <1>4, GoingOn DEF StageEnd, Fail, EmitThen, Ahead, flashVars
  <1>5. CASE ValidateTarget
    BY <1>5, GoingOn DEF ValidateTarget, Fail, Stop, EmitThen, Ahead, flashVars
  <1>6. CASE Unmount
    BY <1>6, GoingOn DEF Unmount, UnmountFailed, Ahead, flashVars
  <1>7. CASE AfterUnmount
    BY <1>7, GoingOn DEF AfterUnmount, Stop, EmitThen, Ahead, flashVars
  <1>8. CASE RevalidateTarget
    BY <1>8, GoingOn DEF RevalidateTarget, Fail, Ahead, flashVars
  <1>9. CASE OpenTarget
    BY <1>9, GoingOn DEF OpenTarget, Fail, Ahead, flashVars
  <1>10. CASE RevalidateOpened
    BY <1>10, GoingOn DEF RevalidateOpened, Fail, Ahead, flashVars
  <1>11. CASE WriteChunk
    BY <1>11, GoingRound DEF WriteChunk
  <1>12. CASE WriteFails
    BY <1>12, GoingOn DEF WriteFails, FlashEnds, Ahead
  <1>13. CASE WriteCancelled
    BY <1>13, GoingOn DEF WriteCancelled, FlashEnds, Ahead
  <1>14. CASE WriteEnd
    BY <1>14, GoingOn DEF WriteEnd, Ahead
  <1>15. CASE PrepareVerification
    BY <1>15, GoingOn DEF PrepareVerification, FlashEnds, Ahead
  <1>16. CASE ReopenForVerification
    BY <1>16, GoingOn DEF ReopenForVerification, FlashEnds, Ahead
  <1>17. CASE VerifyChunk
    BY <1>17, GoingRound DEF VerifyChunk
  <1>18. CASE VerifyStops
    BY <1>18, GoingOn DEF VerifyStops, FlashEnds, Ahead
  <1>19. CASE VerifyEnd
    BY <1>19, GoingOn DEF VerifyEnd, FlashEnds, Ahead
  <1>20. CASE AfterFlash
    BY <1>20, GoingOn DEF AfterFlash, AbortFlash, Ahead, flashVars
  <1>21. CASE SyncTarget
    BY <1>21, GoingOn DEF SyncTarget, Fail, EmitThen, Ahead, flashVars
  <1>22. CASE EjectTarget
    BY <1>22, GoingOn DEF EjectTarget, EjectThenComplete, Fail, EmitThen, Ahead, flashVars
  <1>23. CASE CleanupEject
    BY <1>23, GoingOn DEF CleanupEject, Ahead, flashVars
  <1>24. CASE ReportFailure
    BY <1>24, GoingOn DEF ReportFailure, Ahead, flashVars
  <1>25. QED
    BY <1>1, <1>2, <1>3, <1>4, <1>5, <1>6, <1>7, <1>8, <1>9, <1>10, <1>11, <1>12,
       <1>13, <1>14, <1>15, <1>16, <1>17, <1>18, <1>19, <1>20, <1>21, <1>22, <1>23,
       <1>24 DEF WorkerStep

(* Of what happens outside, only the kill moves the worker, to its end.    *)
LEMMA NothingSendsItBack ==
  ASSUME TypeOK, TypeOK', Environment \/ UNCHANGED vars
  PROVE  StepsLeft' <= StepsLeft
  <1>1. UNCHANGED <<staged, written, reread>>
    BY DEF Environment, TouchCancel, TouchSkip, RemoveMedium, InsertMedium, Automount, Kill,
       vars, workerVars, flashVars
  <1>2. StepsLeft \in Int /\ StepsLeft' \in Int
    <2>1. StepsLeft \in Int
      BY StepsLeftIsNat
    <2>2. StepsLeft' \in 0 .. 19 + 3 * Chunks
      BY Counters, CountersNext, Countdown DEF StepsLeft
    <2>3. QED
      BY <2>1, <2>2
  <1>3. CASE pc' = pc
    <2>1. StepsLeft' = StepsLeft
      BY <1>1, <1>3 DEF StepsLeft
    <2>2. QED
      BY <1>2, <2>1
  <1>4. CASE Kill
    <2>1. Ahead[pc'] < Ahead[pc]
      BY <1>4 DEF Kill, Running, Ahead
    <2>2. StepsLeft' < StepsLeft
      BY <1>1, <2>1, GoingOn
    <2>3. QED
      BY <1>2, <2>2
  <1>5. QED
    BY <1>3, <1>4 DEF Environment, TouchCancel, TouchSkip, RemoveMedium, InsertMedium,
       Automount, vars, workerVars

(* run_job has no loop that may go round for ever: each step of the worker *)
(* uses up one of at most 19 + 3 * Chunks, however the user, the desktop   *)
(* and the medium interfere.  With a scheduler that lets it run, which is  *)
(* what FairSpec adds, this is why it comes to its end.                    *)
THEOREM StepsRunOutAlways == Spec => [](StepsLeft \in 0 .. 19 + 3 * Chunks) /\ StepsRunOut
  <1>1. TypeOK => StepsLeft \in 0 .. 19 + 3 * Chunks
    BY StepsLeftIsNat
  <1>2. TypeOK /\ TypeOK' /\ [Next]_vars =>
          [IF WorkerStep THEN StepsLeft' < StepsLeft ELSE StepsLeft' <= StepsLeft]_vars
    BY WorkerGetsOn, NothingSendsItBack DEF Next
  <1>3. QED
    BY <1>1, <1>2, TypeCorrect, PTL DEF Spec, StepsRunOut
-----------------------------------------------------------------------------
(* Worker implements FlashPromise.  The steps that write map to Fill and   *)
(* Spoil, the step to the exit maps to Tell, and every other step leaves   *)
(* what the promise talks about alone.                                     *)

(* Until the exit no terminal record is visible; what is buffered behind a *)
(* failed flush is at most the last one.                                   *)
OutcomeInv ==
  /\ pc # "exited" => \A i \in 1 .. flushed : emitted[i] \notin Finals
  /\ pc \in Running =>
       \A i \in 1 .. Len(emitted) :
         i < Len(emitted) \/ pc \in Healthy => emitted[i] \notin Finals

LEMMA NoOutcome ==
  ASSUME \A i \in 1 .. flushed : emitted[i] \notin Finals
  PROVE  reported = "none"
  BY DEF reported

(* Announcing a phase makes no outcome visible.                            *)
Announces ==
  /\ pc \in Healthy
  /\ pc' \in Running
  /\ NoRecord \/ \E r \in Phases : Emit(r) \/ EmitFails(r)

LEMMA AnnounceStep ==
  ASSUME LogType, OutcomeInv, Announces
  PROVE  OutcomeInv'
  <1>1. \A i \in 1 .. Len(emitted) : emitted[i] \notin Finals
    BY DEF OutcomeInv, Announces, Healthy
  <1>2. CASE NoRecord
    BY <1>1, <1>2 DEF NoRecord, OutcomeInv, LogType
  <1>3. ASSUME NEW r \in Phases, Emit(r) \/ EmitFails(r)
        PROVE  OutcomeInv'
    <2>1. r \in Record /\ r \notin Finals
      BY DEF Record, Phases, Finals
    <2>2. emitted' = Append(emitted, r)
      BY <1>3 DEF Emit, EmitFails
    <2>3. \A i \in 1 .. Len(emitted') : emitted'[i] \notin Finals
      BY <1>1, <2>1, <2>2, AppendedEntry
    <2>4. flushed' \in 0 .. Len(emitted') /\ Len(emitted') \in Nat
      BY <1>3, <2>1, <2>2 DEF Emit, EmitFails, LogType
    <2>5. QED
      BY <2>3, <2>4 DEF OutcomeInv
  <1>4. QED
    BY <1>2, <1>3 DEF Announces

LEMMA OutcomeStep ==
  ASSUME TypeOK, OutcomeInv, [Next]_vars
  PROVE  OutcomeInv'
  <1>0. ASSUME Announces PROVE OutcomeInv'
    BY <1>0, AnnounceStep DEF TypeOK
  <1>1. CASE RunJob
    BY <1>0, <1>1 DEF Announces, RunJob, Fail, Stop, EmitThen, Healthy, Running, Phases
  <1>2. CASE StageChunk
    BY <1>0, <1>2 DEF Announces, StageChunk, Fail, Stop, EmitThen, Healthy, Running, Phases
  <1>3. CASE StageEnd
    BY <1>0, <1>3 DEF Announces, StageEnd, Fail, EmitThen, Healthy, Running, Phases
  <1>4. CASE ValidateTarget
    BY <1>0, <1>4 DEF Announces, ValidateTarget, Fail, Stop, EmitThen, Healthy, Running, Phases
  <1>5. CASE AfterUnmount
    BY <1>0, <1>5 DEF Announces, AfterUnmount, Stop, EmitThen, Healthy, Running, Phases
  <1>6. CASE RevalidateTarget
    BY <1>0, <1>6 DEF Announces, RevalidateTarget, Fail, Healthy, Running, Phases
  <1>7. CASE OpenTarget
    BY <1>0, <1>7 DEF Announces, OpenTarget, Fail, Healthy, Running, Phases
  <1>8. CASE RevalidateOpened
    BY <1>0, <1>8 DEF Announces, RevalidateOpened, Fail, Healthy, Running, Phases
  <1>9. CASE Unmount
    BY <1>0, <1>9 DEF Announces, Unmount, UnmountFailed, Healthy, Running, Phases
  <1>10. CASE WriteChunk
    BY <1>0, <1>10 DEF Announces, WriteChunk, Callback, Healthy, Running, Phases
  <1>11. CASE WriteFails
    BY <1>0, <1>11 DEF Announces, WriteFails, FlashEnds, Healthy, Running, Phases
  <1>12. CASE WriteCancelled
    BY <1>0, <1>12 DEF Announces, WriteCancelled, FlashEnds, Healthy, Running, Phases
  <1>13. CASE WriteEnd
    BY <1>0, <1>13 DEF Announces, WriteEnd, Healthy, Running, Phases
  <1>14. CASE PrepareVerification
    BY <1>0, <1>14 DEF Announces, PrepareVerification, FlashEnds, Healthy, Running, Phases
  <1>15. CASE ReopenForVerification
    BY <1>0, <1>15 DEF Announces, ReopenForVerification, FlashEnds, Healthy, Running, Phases
  <1>16. CASE VerifyChunk
    BY <1>0, <1>16 DEF Announces, VerifyChunk, Callback, Healthy, Running, Phases
  <1>17. CASE VerifyStops
    BY <1>0, <1>17 DEF Announces, VerifyStops, FlashEnds, Healthy, Running, Phases
  <1>18. CASE VerifyEnd
    BY <1>0, <1>18 DEF Announces, VerifyEnd, FlashEnds, Healthy, Running, Phases
  <1>19. CASE AfterFlash
    BY <1>0, <1>19 DEF Announces, AfterFlash, AbortFlash, Healthy, Running, Phases
  <1>20. CASE SyncTarget
    BY <1>0, <1>20 DEF Announces, SyncTarget, Fail, EmitThen, Healthy, Running, Phases
  <1>21. CASE EjectTarget
    <2>1. \A i \in 1 .. Len(emitted) : emitted[i] \notin Finals
      BY <1>21 DEF EjectTarget, OutcomeInv, Healthy, Running
    <2>2. CASE EjectFails /\ Fail("Platform", "cleanup")
      BY <1>0, <1>21, <2>2 DEF Announces, EjectTarget, Fail, Healthy, Running
    <2>3. CASE EjectSucceeds /\ EmitThen(CompletedRecord, "exited", "cleanup")
      <3>1. CompletedRecord \in Record
        BY DEF CompletedRecord, Record, Finals
      <3>2. /\ emitted' = Append(emitted, CompletedRecord)
            /\ \/ pc' = "exited"
               \/ pc' = "cleanup" /\ flushed' \in flushed .. Len(emitted)
        BY <2>3 DEF EmitThen, Emit, EmitFails
      <3>3. Len(emitted') = Len(emitted) + 1 /\ Len(emitted) \in Nat
        BY <3>1, <3>2 DEF TypeOK, LogType
      <3>4. \A i \in 1 .. Len(emitted) : emitted'[i] = emitted[i]
        BY <3>1, <3>2 DEF TypeOK, LogType
      <3>5. QED
        BY <2>1, <3>2, <3>3, <3>4
           DEF OutcomeInv, Healthy, Running, TypeOK, LogType
    <2>4. QED
      BY <1>21, <2>2, <2>3 DEF EjectTarget, EjectThenComplete
  <1>22. CASE CleanupEject
    BY <1>22 DEF CleanupEject, NoRecord, OutcomeInv, Healthy, Running
  <1>23. CASE ReportFailure
    BY <1>23 DEF ReportFailure, OutcomeInv, Running
  <1>24. CASE Launch
    BY <1>24 DEF Launch, NoRecord, OutcomeInv, Healthy, Running
  <1>25. CASE Environment
    BY <1>25 DEF Environment, TouchCancel, TouchSkip, RemoveMedium, InsertMedium,
       Automount, Kill, workerVars, OutcomeInv, Healthy, Running
  <1>26. CASE UNCHANGED vars
    BY <1>26 DEF vars, workerVars, OutcomeInv
  <1>27. QED
    BY <1>1, <1>2, <1>3, <1>4, <1>5, <1>6, <1>7, <1>8, <1>9, <1>10, <1>11,
       <1>12, <1>13, <1>14, <1>15, <1>16, <1>17, <1>18, <1>19, <1>20, <1>21,
       <1>22, <1>23, <1>24, <1>25, <1>26
       DEF Next, WorkerStep

-----------------------------------------------------------------------------
(* The step to the exit.  A visible terminal record is the one the promise *)
(* is told, and the invariant of Worker says what it stands for.           *)

(* If a terminal record is visible at the exit, there is a last one.       *)
LEMMA LastExists ==
  ASSUME TypeOK, OutcomeInv, pc \in Running, NEW r \in Finals,
         emitted' = Append(emitted, r), flushed' \in 0 .. Len(emitted) + 1,
         \E i \in 1 .. flushed' : emitted'[i] \in Finals
  PROVE  \E i \in 1 .. flushed' : LastFinal(i)'
  <1>1. /\ Len(emitted') = Len(emitted) + 1 /\ Len(emitted) \in Nat
        /\ emitted'[Len(emitted) + 1] = r
        /\ \A i \in 1 .. Len(emitted) : emitted'[i] = emitted[i]
    BY DEF TypeOK, LogType, Record
  <1>2. \A i \in 1 .. Len(emitted) - 1 : emitted'[i] \notin Finals
    BY <1>1 DEF OutcomeInv
  <1>3. CASE flushed' = Len(emitted) + 1
    <2>1. PICK n \in 1 .. flushed' : n = Len(emitted) + 1
      BY <1>1, <1>3
    <2>2. LastFinal(n)'
      BY <1>1, <1>3, <2>1 DEF LastFinal
    <2>3. QED
      BY <2>2
  <1>4. CASE flushed' <= Len(emitted)
    <2>1. PICK i \in 1 .. flushed' : emitted'[i] \in Finals
      OBVIOUS
    <2>2. i = Len(emitted) /\ flushed' = Len(emitted)
      BY <1>1, <1>2, <1>4, <2>1
    <2>3. LastFinal(i)'
      BY <2>1, <2>2 DEF LastFinal
    <2>4. QED
      BY <2>1, <2>3
  <1>5. QED
    BY <1>1, <1>3, <1>4

(* What is reported is a visible terminal record or nothing.               *)
LEMMA OutcomeVisible ==
  (\E i \in 1 .. flushed : LastFinal(i))
    => reported \in Finals /\ Visible(reported)
  <1> SUFFICES ASSUME \E i \in 1 .. flushed : LastFinal(i)
               PROVE  reported \in Finals /\ Visible(reported)
    OBVIOUS
  <1> DEFINE last == CHOOSE i \in 1 .. flushed : LastFinal(i)
  <1>1. last \in 1 .. flushed /\ LastFinal(last)
    OBVIOUS
  <1>2. emitted[last] \in Finals
    BY <1>1 DEF LastFinal
  <1>3. reported = emitted[last]
    BY <1>1, <1>2 DEF reported
  <1>4. QED
    BY <1>1, <1>2, <1>3 DEF Visible

LEMMA TruthfulNext ==
  ASSUME IndInv'
  PROVE  /\ VerifiedIsTrue' /\ CompletedIsDurable'
         /\ UnverifiedOnlyIfAsked' /\ CancelledOnlyIfRequested'
  BY Truthful, PTL

(* Whatever record ends the log, the promise allows what it tells.         *)
LEMMA ExitTells ==
  ASSUME IndInv, IndInv', OutcomeInv, pc \in Running, NEW r \in Finals,
         emitted' = Append(emitted, r), flushed' \in 0 .. Len(emitted) + 1,
         UNCHANGED <<job, cancelMarker, skipMarker, written, card>>
  PROVE  [Promise!Next]_(Promise!vars)
  <1>1. reported = "none"
    BY NoOutcome DEF OutcomeInv, Running
  <1>2. CASE \A i \in 1 .. flushed' : emitted'[i] \notin Finals
    <2>1. reported' = "none"
      BY <1>2 DEF reported
    <2>2. QED
      BY <1>1, <2>1 DEF Promise!vars
  <1>3. CASE \E i \in 1 .. flushed' : emitted'[i] \in Finals
    <2>1. reported' \in Finals /\ Visible(reported)'
      <3>1. \E i \in 1 .. flushed' : LastFinal(i)'
        BY <1>3, LastExists DEF IndInv
      <3>2. (\E i \in 1 .. flushed : LastFinal(i))'
              => (reported \in Finals /\ Visible(reported))'
        BY OutcomeVisible, PTL
      <3>3. QED
        BY <3>1, <3>2
    <2>2. /\ VerifiedIsTrue' /\ CompletedIsDurable'
          /\ UnverifiedOnlyIfAsked' /\ CancelledOnlyIfRequested'
      BY TruthfulNext
    <2>3. CASE reported' = "Completed"
      <3>1. \A i \in 1 .. Chunks : card'[Selected][i] = "image"
        BY <2>1, <2>2, <2>3 DEF Visible, VerifiedIsTrue, Index
      <3>2. QED
        BY <1>1, <2>3, <3>1 DEF Promise!Next, Promise!Tell
    <2>4. CASE reported' = "CompletedUnverified"
      <3>1. written' = Chunks /\ (skipMarker' \/ ~job'.verify)
        BY <2>1, <2>2, <2>4 DEF Visible, CompletedIsDurable, UnverifiedOnlyIfAsked
      <3>2. QED
        BY <1>1, <2>4, <3>1 DEF Promise!Next, Promise!Tell
    <2>5. CASE reported' = "Cancelled"
      <3>1. cancelMarker'
        BY <2>1, <2>2, <2>5 DEF Visible, CancelledOnlyIfRequested
      <3>2. QED
        BY <1>1, <2>5, <3>1 DEF Promise!Next, Promise!Tell
    <2>6. CASE reported' = "Failed"
      BY <1>1, <2>6 DEF Promise!Next, Promise!Tell
    <2>7. QED
      BY <2>1, <2>3, <2>4, <2>5, <2>6 DEF Finals
  <1>4. QED
    BY <1>2, <1>3

-----------------------------------------------------------------------------
(* Every step of Worker is a step of the promise or leaves it alone.       *)

(* A step that changes neither the card nor the log of the job.            *)
LEMMA Stutters ==
  ASSUME UNCHANGED <<job, cancelMarker, skipMarker, written, card, emitted, flushed>>
  PROVE  UNCHANGED Promise!vars
  BY DEF Promise!vars, reported, LastFinal

(* A step before the exit tells nothing.                                   *)
LEMMA TellsNothing ==
  ASSUME OutcomeInv, OutcomeInv', pc # "exited", pc' # "exited"
  PROVE  reported = "none" /\ reported' = "none"
  <1>1. reported = "none"
    BY NoOutcome DEF OutcomeInv
  <1>2. \A i \in 1 .. flushed' : emitted'[i] \notin Finals
    BY DEF OutcomeInv
  <1>3. reported' = "none"
    BY <1>2 DEF reported
  <1>4. QED
    BY <1>1, <1>3

LEMMA FillStep ==
  ASSUME IndInv, OutcomeInv, OutcomeInv', WriteChunk, UNCHANGED markerVars
  PROVE  Promise!Fill
  <1>1. reported = "none" /\ reported' = "none"
    BY TellsNothing DEF WriteChunk
  <1>2. fd = Selected /\ StagedMatches /\ written < Chunks
    BY DEF WriteChunk, IndInv, MediumInv, StagedInv, Staged, Running, StagedMatches
  <1>3. PICK content \in {staged[written + 1], "bad"} :
          card' = [card EXCEPT ![Selected][written + 1] = content]
    BY <1>2 DEF WriteChunk, PutChunk
  <1>4. content \in {"image", "bad"}
    BY <1>2, <1>3, WorkerAssumption DEF StagedMatches, Index, IndInv, TypeOK, FlashType
  <1>5. card'[Selected] = [card[Selected] EXCEPT ![written + 1] = content]
    BY <1>3, WorkerAssumption DEF IndInv, TypeOK, DeviceType
  <1>6. QED
    BY <1>1, <1>2, <1>4, <1>5 DEF Promise!Fill, WriteChunk, markerVars

LEMMA SpoilStep ==
  ASSUME IndInv, OutcomeInv, OutcomeInv', WriteFails, UNCHANGED markerVars
  PROVE  [Promise!Next]_(Promise!vars)
  <1>1. reported = "none" /\ reported' = "none"
    BY TellsNothing DEF WriteFails, FlashEnds
  <1>2. UNCHANGED <<job, cancelMarker, skipMarker, written>>
    BY DEF WriteFails, FlashEnds, markerVars
  <1>3. CASE UNCHANGED card
    BY <1>1, <1>2, <1>3 DEF Promise!vars
  <1>4. CASE written < Len(staged) /\ PutChunk("bad")
    <2>1. fd = Selected /\ StagedMatches
      BY DEF WriteFails, IndInv, MediumInv, StagedInv, Staged, Running
    <2>2. card' = [card EXCEPT ![Selected][written + 1] = "bad"]
      BY <1>4, <2>1 DEF PutChunk
    <2>3. card'[Selected] = [card[Selected] EXCEPT ![written + 1] = "bad"]
      BY <2>2, WorkerAssumption DEF IndInv, TypeOK, DeviceType
    <2>4. QED
      BY <1>1, <1>2, <1>4, <2>1, <2>3 DEF Promise!Next, Promise!Spoil, StagedMatches
  <1>5. QED
    BY <1>3, <1>4 DEF WriteFails

(* A step that writes nothing, before the exit.                            *)
Quiet ==
  /\ UNCHANGED <<job, cancelMarker, skipMarker, written, card>>
  /\ pc # "exited"
  /\ pc' # "exited"

LEMMA PromiseStep ==
  ASSUME IndInv, IndInv', OutcomeInv, OutcomeInv', [Next]_vars
  PROVE  [Promise!Next]_(Promise!vars)
  <1>1. ASSUME Quiet PROVE [Promise!Next]_(Promise!vars)
    BY <1>1, TellsNothing DEF Quiet, Promise!vars
  <1>2. CASE WriteChunk /\ UNCHANGED markerVars
    BY <1>2, FillStep DEF Promise!Next
  <1>3. CASE WriteFails /\ UNCHANGED markerVars
    BY <1>3, SpoilStep
  <1>4. CASE ReportFailure /\ UNCHANGED markerVars
    <2> DEFINE last == IF error = "Cancelled" THEN "Cancelled" ELSE "Failed"
    <2>1. last \in Finals
      BY DEF Finals
    <2>2. emitted' = Append(emitted, last) /\ flushed' \in 0 .. Len(emitted) + 1
      BY <1>4 DEF ReportFailure, IndInv, TypeOK, LogType
    <2>3. pc \in Running /\ UNCHANGED <<job, cancelMarker, skipMarker, written, card>>
      BY <1>4 DEF ReportFailure, Running, flashVars, deviceVars, markerVars
    <2> HIDE DEF last
    <2>4. QED
      BY <2>1, <2>2, <2>3, ExitTells
  <1>5. CASE EjectTarget /\ UNCHANGED markerVars
    <2>1. pc \in Running /\ UNCHANGED <<job, cancelMarker, skipMarker, written, card>>
      BY <1>5 DEF EjectTarget, Running, flashVars, markerVars
    <2>2. CASE pc' = "exited"
      <3>1. emitted' = Append(emitted, CompletedRecord) /\ flushed' = Len(emitted) + 1
        BY <1>5, <2>2 DEF EjectTarget, EjectThenComplete, EmitThen, Emit, Fail
      <3>2. CompletedRecord \in Finals /\ Len(emitted) \in Nat
        BY DEF CompletedRecord, Finals, IndInv, TypeOK, LogType
      <3>3. QED
        BY <2>1, <3>1, <3>2, ExitTells
    <2>3. CASE pc' # "exited"
      BY <1>1, <2>1, <2>3 DEF Quiet, Running
    <2>4. QED
      BY <2>2, <2>3
  <1>6. CASE Launch /\ UNCHANGED markerVars
    BY <1>6, Stutters DEF Launch, NoRecord, flashVars, deviceVars, markerVars
  <1>7. CASE (RunJob \/ StageChunk \/ StageEnd \/ ValidateTarget) /\ UNCHANGED markerVars
    BY <1>1, <1>7 DEF Quiet, RunJob, StageChunk, StageEnd, ValidateTarget, Fail,
       Stop, EmitThen, flashVars, deviceVars, markerVars
  <1>8. CASE (Unmount \/ AfterUnmount \/ RevalidateTarget) /\ UNCHANGED markerVars
    BY <1>1, <1>8 DEF Quiet, Unmount, UnmountFailed, AfterUnmount,
       RevalidateTarget, Fail, Stop, EmitThen, flashVars, deviceVars, markerVars
  <1>9. CASE (OpenTarget \/ RevalidateOpened) /\ UNCHANGED markerVars
    BY <1>1, <1>9 DEF Quiet, OpenTarget, RevalidateOpened, Fail, flashVars,
       deviceVars, markerVars
  <1>10. CASE (WriteCancelled \/ WriteEnd) /\ UNCHANGED markerVars
    BY <1>1, <1>10 DEF Quiet, WriteCancelled, WriteEnd, FlashEnds, deviceVars,
       markerVars
  <1>11. CASE (PrepareVerification \/ ReopenForVerification) /\ UNCHANGED markerVars
    BY <1>1, <1>11 DEF Quiet, PrepareVerification, ReopenForVerification,
       FlashEnds, deviceVars, markerVars
  <1>12. CASE (VerifyChunk \/ VerifyStops \/ VerifyEnd) /\ UNCHANGED markerVars
    BY <1>1, <1>12 DEF Quiet, VerifyChunk, VerifyStops, VerifyEnd, FlashEnds,
       deviceVars, markerVars
  <1>13. CASE (AfterFlash \/ SyncTarget \/ CleanupEject) /\ UNCHANGED markerVars
    BY <1>1, <1>13 DEF Quiet, AfterFlash, AbortFlash, SyncTarget, CleanupEject,
       Fail, EmitThen, flashVars, markerVars
  <1>14. CASE TouchCancel
    <2>1. UNCHANGED <<job, skipMarker, written, card, emitted, flushed>>
      BY <1>14 DEF TouchCancel, workerVars, deviceVars
    <2>2. reported' = reported
      BY <2>1 DEF reported, LastFinal
    <2>3. QED
      BY <1>14, <2>1, <2>2 DEF TouchCancel, Promise!Next, Promise!AskCancel
  <1>15. CASE TouchSkip
    <2>1. UNCHANGED <<job, cancelMarker, written, card, emitted, flushed>>
      BY <1>15 DEF TouchSkip, workerVars, deviceVars
    <2>2. reported' = reported
      BY <2>1 DEF reported, LastFinal
    <2>3. QED
      BY <1>15, <2>1, <2>2 DEF TouchSkip, Promise!Next, Promise!AskSkip
  <1>16. CASE RemoveMedium \/ InsertMedium \/ Automount \/ Kill \/ UNCHANGED vars
    BY <1>16, Stutters DEF RemoveMedium, InsertMedium, Automount, Kill, vars,
       workerVars, flashVars, deviceVars, markerVars
  <1>17. QED
    BY <1>2, <1>3, <1>4, <1>5, <1>6, <1>7, <1>8, <1>9, <1>10, <1>11, <1>12,
       <1>13, <1>14, <1>15, <1>16 DEF Next, WorkerStep, Environment

(* Worker implements the promise: whatever fails, is pulled, or is killed, *)
(* the GUI process is told at most one outcome, it is true of the card,    *)
(* and the card is not touched afterwards.                                 *)
THEOREM PromiseKept == Spec => KeepsPromise
  <1>1. Init => Promise!Init
    <2> SUFFICES ASSUME Init PROVE Promise!Init
      OBVIOUS
    <2>1. reported = "none"
      BY DEF Init, reported
    <2>2. QED
      BY <2>1, WorkerAssumption DEF Init, Promise!Init, Untouched, Index
  <1>2. Init => OutcomeInv
    BY DEF Init, OutcomeInv
  <1>3. IndInv /\ OutcomeInv /\ [Next]_vars => OutcomeInv'
    BY OutcomeStep DEF IndInv
  <1>4. IndInv /\ IndInv' /\ OutcomeInv /\ OutcomeInv' /\ [Next]_vars
          => [Promise!Next]_(Promise!vars)
    BY PromiseStep
  <1>5. QED
    BY <1>1, <1>2, <1>3, <1>4, Inductive, PTL DEF Spec, KeepsPromise, Promise!Spec

-----------------------------------------------------------------------------
(* Runner.  Every step of the composition is a step of Worker or leaves it *)
(* alone, so Worker's invariant holds in it.                               *)

-----------------------------------------------------------------------------
(* The worker's part of a step *)

LEMMA KillIsNext == ASSUME KillOrStopped PROVE [Next]_vars
  BY DEF KillOrStopped, Next, Environment

LEMMA TouchIsNext ==
  ASSUME TypeOK, TryTouchCancel \/ cancelMarker' = TRUE, workerAlone' = workerAlone
  PROVE  [Next]_vars
  <1>1. CASE cancelMarker' = cancelMarker
    BY <1>1 DEF workerAlone, vars, markerVars
  <1>2. CASE cancelMarker' # cancelMarker
    BY <1>2 DEF TypeOK, ControlType, TryTouchCancel, Next, Environment, TouchCancel, workerAlone,
                workerVars, deviceVars, historyVars
  <1> QED
    BY <1>1, <1>2

LEMMA RunnerStepsWorker ==
  ASSUME TypeOK, [RunnerNext]_runnerVars
  PROVE  [Next]_vars
  <1> USE DEF workerAlone, markerVars
  <1>1. CASE Spawn
    BY <1>1, KillIsNext DEF Spawn
  <1>2. CASE CheckIdentity \/ Drain \/ SeeCancel \/ TryWait
    <2>1. workerAlone' = workerAlone
      BY <1>2 DEF CheckIdentity, Drain, SeeCancel, TryWait
    <2>2. TryTouchCancel \/ cancelMarker' = TRUE \/ cancelMarker' = cancelMarker
      BY <1>2 DEF CheckIdentity, Drain, SeeCancel, TryWait
    <2> QED
      BY <2>1, <2>2, TouchIsNext DEF vars
  <1>3. CASE KillWorker \/ WaitFails
    BY <1>3, KillIsNext DEF KillWorker, WaitFails
  <1>4. CASE Serve
    <2>1. CASE OpenTarget /\ UNCHANGED markerVars
      BY <2>1 DEF Next, WorkerStep
    <2>2. CASE UNCHANGED vars
      BY <2>2
    <2>3. CASE TryTouchCancel /\ workerAlone' = workerAlone
      BY <2>3, TouchIsNext
    <2> QED
      BY <1>4, <2>1, <2>2, <2>3 DEF Serve
  <1>5. CASE Reap \/ Finish \/ EndPipeline \/ RequestTarget \/ UserCancels
    BY <1>5 DEF Reap, Finish, EndPipeline, RequestTarget, UserCancels
  <1>6. CASE WorkerRuns
    BY <1>6 DEF WorkerRuns, Next
  <1>7. CASE UserMarks \/ CardChanges
    BY <1>7 DEF UserMarks, CardChanges, Next, Environment
  <1>8. CASE UNCHANGED runnerVars
    BY <1>8 DEF runnerVars
  <1> QED
    BY <1>1, <1>2, <1>3, <1>4, <1>5, <1>6, <1>7, <1>8 DEF RunnerNext, RunnerStep

(* A worker that has stopped does nothing more. *)
LEMMA StoppedStays ==
  ASSUME [Next]_vars, pc \in Stopped
  PROVE  UNCHANGED workerVars
  <1>1. ~ WorkerStep /\ ~ Kill
    BY DEF WorkerStep, Stopped, Running, Kill, Launch, RunJob, StageChunk, StageEnd,
           ValidateTarget, Unmount, AfterUnmount, RevalidateTarget, OpenTarget,
           RevalidateOpened, WriteChunk, WriteFails, WriteCancelled, WriteEnd,
           PrepareVerification, ReopenForVerification, VerifyChunk, VerifyStops,
           VerifyEnd, AfterFlash, SyncTarget, EjectTarget, CleanupEject, ReportFailure
  <1> QED
    BY <1>1 DEF Next, Environment, TouchCancel, TouchSkip, RemoveMedium, InsertMedium,
                Automount, vars

(* The log only grows. *)
Grows ==
  /\ flushed' \in Nat /\ flushed <= flushed' /\ flushed' <= Len(emitted')
  /\ \A i \in 1 .. Len(emitted) : emitted'[i] = emitted[i]

LEMMA EmitGrows ==
  ASSUME TypeOK, NEW r, Emit(r) \/ EmitFails(r)
  PROVE  Grows
  BY DEF TypeOK, LogType, Emit, EmitFails, Grows

LEMMA LogGrows ==
  ASSUME TypeOK, [Next]_vars
  PROVE  Grows
  <1> DEFINE Same == UNCHANGED <<emitted, flushed>>
  <1>1. ASSUME Same PROVE Grows
    BY <1>1 DEF TypeOK, LogType, Grows
  <1>2. Emit("ValidatingImage") \/ EmitFails("ValidatingImage") => Grows
    BY EmitGrows
  <1>3. Emit("ValidatingTarget") \/ EmitFails("ValidatingTarget") => Grows
    BY EmitGrows
  <1>4. /\ Emit("Unmounting") \/ EmitFails("Unmounting") => Grows
        /\ Emit("Writing") \/ EmitFails("Writing") => Grows
        /\ Emit("Verifying") \/ EmitFails("Verifying") => Grows
    BY EmitGrows
  <1>5. /\ Emit("Syncing") \/ EmitFails("Syncing") => Grows
        /\ Emit("Ejecting") \/ EmitFails("Ejecting") => Grows
        /\ Emit(CompletedRecord) \/ EmitFails(CompletedRecord) => Grows
    BY EmitGrows
  <1> USE <1>1 DEF NoRecord
  <1>6. CASE Launch \/ RunJob \/ StageChunk \/ StageEnd
    BY <1>2, <1>3, <1>6 DEF Launch, RunJob, StageChunk, StageEnd, Fail, Stop, EmitThen
  <1>7. CASE ValidateTarget \/ Unmount \/ AfterUnmount \/ RevalidateTarget
    BY <1>3, <1>4, <1>7 DEF ValidateTarget, Unmount, AfterUnmount, RevalidateTarget, Fail, Stop,
                            EmitThen
  <1>8. CASE OpenTarget \/ RevalidateOpened \/ WriteFails \/ WriteCancelled \/ WriteEnd
    BY <1>8 DEF OpenTarget, RevalidateOpened, WriteFails, WriteCancelled, WriteEnd, Fail, FlashEnds
  <1>9. CASE WriteChunk \/ VerifyChunk
    BY <1>4, <1>9 DEF WriteChunk, VerifyChunk, Callback
  <1>10. CASE PrepareVerification \/ ReopenForVerification \/ VerifyStops \/ VerifyEnd
    BY <1>10 DEF PrepareVerification, ReopenForVerification, VerifyStops, VerifyEnd, FlashEnds
  <1>11. CASE AfterFlash \/ SyncTarget
    BY <1>5, <1>11 DEF AfterFlash, AbortFlash, SyncTarget, Fail, EmitThen
  <1>12. CASE EjectTarget \/ CleanupEject
    BY <1>5, <1>12 DEF EjectTarget, EjectThenComplete, CleanupEject, Fail, EmitThen
  <1>13. CASE ReportFailure
    BY <1>13 DEF ReportFailure, TypeOK, LogType, Grows
  <1>14. CASE Environment \/ UNCHANGED vars
    BY <1>14 DEF Environment, TouchCancel, TouchSkip, RemoveMedium, InsertMedium, Automount,
                 Kill, vars, workerVars
  <1> QED
    BY <1>6, <1>7, <1>8, <1>9, <1>10, <1>11, <1>12, <1>13, <1>14 DEF Next, WorkerStep

-----------------------------------------------------------------------------
(* What the tail reads *)

(* A nonempty set of numbers in an interval has a last one: the one with   *)
(* the fewest numbers above it.                                            *)
LEMMA LastOne ==
  ASSUME NEW low \in Nat, NEW high \in Nat, NEW set \in SUBSET (low .. high), set # {}
  PROVE  \E i \in set : \A j \in set : j <= i
  <1> DEFINE Span == low .. high
             Above(i) == {j \in Span : j > i}
             T == {Above(i) : i \in set}
  <1>1. IsFiniteSet(Span)
    BY FS_Interval
  <1>2. IsWellFoundedOn(StrictSubsetOrdering(Span), SUBSET Span)
    BY <1>1, FS_StrictSubsetOrderingWellFounded, FS_FiniteSubsetsOfFinite
  <1>3. T \subseteq SUBSET Span /\ T # {}
    OBVIOUS
  <1> HIDE DEF T, Span
  <1>4. PICK a \in T : \A b \in T : ~ (<<b, a>> \in StrictSubsetOrdering(Span))
    BY <1>2, <1>3, WFMin
  <1>5. PICK i \in set : a = Above(i)
    BY DEF T
  <1>6. ASSUME NEW j \in set, j > i PROVE FALSE
    <2>1. Above(j) \in T /\ Above(i) \in T
      BY DEF T
    <2>2. Above(j) \subseteq Above(i)
      BY <1>6 DEF Span
    <2>3. j \in Above(i) /\ j \notin Above(j)
      BY <1>6 DEF Span
    <2>4. <<Above(j), Above(i)>> \in StrictSubsetOrdering(Span)
      BY <1>3, <2>1, <2>2, <2>3 DEF StrictSubsetOrdering
    <2> QED
      BY <1>4, <1>5, <2>1, <2>4
  <1> QED
    BY <1>6

LEMMA TellsTheLast ==
  ASSUME TypeOK, RunnerTypeOK, NEW last \in consumed .. flushed
  PROVE  /\ LastTerminal(last) \in Finals \cup {"none"}
         /\ last > consumed /\ emitted[last] \in Finals => LastTerminal(last) = emitted[last]
         /\ last = consumed => LastTerminal(last) = terminal
  <1> DEFINE news == {i \in consumed + 1 .. last : emitted[i] \in Finals}
             Pick == CHOOSE i \in consumed + 1 .. last :
                       /\ emitted[i] \in Finals
                       /\ \A j \in i + 1 .. last : emitted[j] \notin Finals
  <1>0. consumed \in Nat /\ flushed \in Nat /\ last \in Nat /\ consumed <= last
    BY DEF TypeOK, LogType, RunnerTypeOK
  <1>1. CASE news = {}
    <2>1. LastTerminal(last) = terminal
      BY <1>1 DEF LastTerminal
    <2> QED
      BY <1>0, <1>1, <2>1 DEF RunnerTypeOK
  <1>2. CASE news # {}
    <2>0. news \in SUBSET (0 .. last)
      BY <1>0
    <2>1. PICK i \in news : \A j \in news : j <= i
      <3> HIDE DEF news
      <3> QED
        BY <1>0, <1>2, <2>0, LastOne
    <2>2. \A j \in i + 1 .. last : emitted[j] \notin Finals
      BY <1>0, <2>1
    <2>3. /\ Pick \in consumed + 1 .. last /\ emitted[Pick] \in Finals
          /\ \A j \in Pick + 1 .. last : emitted[j] \notin Finals
      BY <2>1, <2>2
    <2>4. LastTerminal(last) = emitted[Pick]
      BY <2>1 DEF LastTerminal
    <2> HIDE DEF Pick
    <2>5. emitted[last] \in Finals => Pick = last
      BY <1>0, <2>3
    <2> QED
      BY <1>0, <2>1, <2>3, <2>4, <2>5
  <1> QED
    BY <1>1, <1>2

(* Handing over complete records keeps what the runner knows of the log.   *)
Heard == /\ consumed \in 0 .. flushed /\ terminal \in Finals \cup {"none"}
         /\ sawEvent \in BOOLEAN /\ LastRead

LEMMA HandOverHears ==
  ASSUME TypeOK, RunnerTypeOK, LastRead, NEW last \in consumed .. flushed, HandOver(last),
         UNCHANGED <<emitted, flushed>>
  PROVE  Heard'
  <1>1. consumed' = last /\ terminal' = LastTerminal(last)
    BY DEF HandOver
  <1>2. sawEvent' \in BOOLEAN
    BY Zenon DEF HandOver, RunnerTypeOK
  <1>3. consumed' \in 0 .. flushed'
    BY <1>1 DEF RunnerTypeOK, TypeOK, LogType
  <1>4. LastRead'
    BY <1>1, TellsTheLast DEF LastRead, RunnerTypeOK
  <1> QED
    BY <1>1, <1>2, <1>3, <1>4, TellsTheLast DEF Heard

(* A step that hands over nothing keeps it too, however the log grows.     *)
LEMMA HearsNothing ==
  ASSUME TypeOK, RunnerTypeOK, LastRead, Grows, UNCHANGED <<consumed, terminal, sawEvent>>
  PROVE  Heard'
  BY DEF TypeOK, LogType, RunnerTypeOK, LastRead, Grows, Heard

(* No step loses track of the log: only Drain and Finish read it.          *)
LEMMA HeardStep ==
  ASSUME TypeOK, RunnerTypeOK, LastRead, [RunnerNext]_runnerVars
  PROVE  Heard'
  <1>1. Grows
    BY RunnerStepsWorker, LogGrows
  <1>2. flushed \in consumed .. flushed
    BY DEF TypeOK, LogType, RunnerTypeOK
  <1>3. CASE Drain
    <2>1. UNCHANGED <<emitted, flushed>>
      BY <1>3 DEF Drain, workerAlone, workerVars
    <2>2. \/ UNCHANGED <<consumed, terminal, sawEvent>>
          \/ \E last \in consumed .. flushed : HandOver(last)
      BY <1>2, <1>3 DEF Drain
    <2> QED
      BY <1>1, <2>1, <2>2, HandOverHears, HearsNothing
  <1>4. CASE Finish
    <2>1. UNCHANGED <<emitted, flushed>>
      BY <1>4 DEF Finish, vars, workerVars
    <2>2. \/ UNCHANGED <<consumed, terminal, sawEvent>>
          \/ \E last \in consumed .. flushed : HandOver(last)
      BY <1>2, <1>4 DEF Finish
    <2> QED
      BY <1>1, <2>1, <2>2, HandOverHears, HearsNothing
  <1>5. CASE Spawn \/ CheckIdentity \/ SeeCancel \/ KillWorker
    BY <1>1, <1>5, HearsNothing DEF Spawn, CheckIdentity, SeeCancel, KillWorker
  <1>6. CASE Serve \/ TryWait \/ Reap \/ WaitFails \/ EndPipeline
    BY <1>1, <1>6, HearsNothing DEF Serve, TryWait, Reap, WaitFails, EndPipeline
  <1>7. CASE RequestTarget \/ WorkerRuns \/ UserCancels \/ UserMarks \/ CardChanges
    BY <1>1, <1>7, HearsNothing
       DEF RequestTarget, WorkerRuns, UserCancels, UserMarks, CardChanges, loopVars
  <1>8. CASE UNCHANGED runnerVars
    BY <1>1, <1>8, HearsNothing DEF runnerVars, loopVars
  <1> QED
    BY <1>3, <1>4, <1>5, <1>6, <1>7, <1>8 DEF RunnerNext, RunnerStep

-----------------------------------------------------------------------------
(* The rest of the loop *)

Steps == {"spawn", "identity", "drain", "cancel", "serve", "wait", "reap", "finish",
          "killOnError", "killOnCancel", "killOnServe", "returned"}

(* The types that do not depend on the log.                                *)
Plain ==
  /\ platform \in Platforms /\ step \in Steps
  /\ monitorError \in BOOLEAN /\ cancellationSent \in BOOLEAN
  /\ socket \in {"idle", "requested", "served", "closed"}
  /\ cancelFlag \in BOOLEAN
  /\ result \in {"pending", "ok", "failed", "unread"}
  /\ outcome \in {"pending", "Verified", "Unverified", "Cancelled", "Error"}

LEMMA PlainIsType ==
  ASSUME Plain', Heard' PROVE RunnerTypeOK' /\ LastRead'
  BY Zenon DEF Plain, Heard, RunnerTypeOK, Steps

LEMMA PlainStep ==
  ASSUME RunnerTypeOK, [RunnerNext]_runnerVars
  PROVE  Plain'
  <1> USE DEF RunnerTypeOK, Plain, Steps
  <1>1. CASE Spawn
    BY <1>1 DEF Spawn
  <1>2. CASE CheckIdentity
    BY <1>2 DEF CheckIdentity
  <1>3. CASE Drain
    BY <1>3 DEF Drain
  <1>4. CASE SeeCancel
    BY <1>4 DEF SeeCancel
  <1>5. CASE KillWorker
    BY <1>5 DEF KillWorker
  <1>6. CASE Serve
    BY <1>6 DEF Serve
  <1>7. CASE TryWait \/ Reap \/ WaitFails
    BY <1>7 DEF TryWait, Reap, WaitFails
  <1>8. CASE Finish
    BY <1>8 DEF Finish
  <1>9. CASE EndPipeline
    <2>1. Outcome \in {"Verified", "Unverified", "Cancelled", "Error"}
      BY DEF Outcome, Finals
    <2> QED
      BY <1>9, <2>1 DEF EndPipeline
  <1>10. CASE RequestTarget \/ UserCancels
    BY <1>10 DEF RequestTarget, UserCancels
  <1>11. CASE WorkerRuns \/ UserMarks \/ CardChanges
    BY <1>11 DEF WorkerRuns, UserMarks, CardChanges, loopVars
  <1>12. CASE UNCHANGED runnerVars
    BY <1>12 DEF runnerVars, loopVars
  <1> QED
    BY <1>1, <1>2, <1>3, <1>4, <1>5, <1>6, <1>7, <1>8, <1>9, <1>10, <1>11, <1>12
       DEF RunnerNext, RunnerStep

(* A step inside an iteration: the loop goes on, or gets to its end after  *)
(* the worker.                                                             *)
Inside ==
  /\ UNCHANGED <<result, outcome>>
  /\ step \notin {"finish", "returned"}
  /\ step' # "returned" /\ (step' = "finish" => pc' \in Stopped)

LEMMA InsideReturns == ASSUME RunnerTypeOK, Returned, Inside PROVE Returned'
  BY DEF RunnerTypeOK, Returned, NoOrphan, Inside

(* A step of someone else: what has stopped stays as it was.               *)
LEMMA OutsideReturns ==
  ASSUME Returned, [Next]_vars,
         UNCHANGED <<platform, step, result, outcome, consumed, terminal>>
  PROVE  Returned'
  <1>1. pc \in Stopped => UNCHANGED <<pc, error, flushed>>
    BY StoppedStays DEF workerVars
  <1> QED
    BY <1>1 DEF Returned, NoOrphan, Stopped, Unix

LEMMA KilledStops == ASSUME TypeOK, KillOrStopped PROVE pc' \in Stopped
  BY DEF KillOrStopped, Kill, Stopped, vars, workerVars

LEMMA ReturnedStep ==
  ASSUME TypeOK, RunnerTypeOK, Returned, [RunnerNext]_runnerVars
  PROVE  Returned'
  <1>0. [Next]_vars
    BY RunnerStepsWorker
  <1>1. CASE Spawn
    <2>1. CASE step' = "identity"
      BY <1>1, <2>1, InsideReturns DEF Spawn, Inside
    <2>2. CASE step' # "identity"
      <3>1. step = "spawn" /\ step' = "returned" /\ result' = "unread" /\ pc' \in Stopped
        BY <1>1, <2>2, KilledStops DEF Spawn
      <3>2. outcome' = "pending"
        BY <1>1, <3>1 DEF Spawn, Returned, NoOrphan
      <3> QED
        BY <3>1, <3>2 DEF Returned, NoOrphan
    <2> QED
      BY <2>1, <2>2
  <1>2. CASE CheckIdentity \/ Drain \/ SeeCancel \/ KillWorker
    BY <1>2, InsideReturns DEF CheckIdentity, Drain, SeeCancel, KillWorker, Inside
  <1>3. CASE Serve
    BY <1>3, InsideReturns DEF Serve, Inside
  <1>4. CASE TryWait
    BY <1>4, InsideReturns DEF TryWait, Inside, workerAlone, workerVars
  <1>5. CASE Reap
    BY <1>5 DEF Reap, Returned, NoOrphan, vars, workerVars
  <1>6. CASE WaitFails
    <2>1. /\ step = "reap" /\ step' = "returned" /\ result' = "unread"
          /\ UNCHANGED <<platform, outcome>>
      BY <1>6 DEF WaitFails
    <2>2. Unix' => pc' \in Stopped
      BY <1>6, KilledStops DEF WaitFails, Unix
    <2> QED
      BY <2>1, <2>2 DEF Returned, NoOrphan
  <1>7. CASE Finish
    <2>1. /\ step = "finish" /\ step' = "returned" /\ UNCHANGED <<pc, error, flushed, outcome>>
          /\ result' \in {"ok", "failed", "unread"}
      BY <1>7 DEF Finish, vars, workerVars
    <2>2. /\ result' = "ok" => pc = "exited" /\ error = "none"
          /\ result' \in {"ok", "failed"} => consumed' = flushed
      BY <1>7 DEF Finish, HandOver
    <2> QED
      BY <2>1, <2>2 DEF Returned, NoOrphan
  <1>8. CASE EndPipeline
    <2>1. /\ step = "returned" /\ outcome' = Outcome
          /\ UNCHANGED <<pc, error, flushed, platform, step, result, consumed, terminal>>
      BY <1>8 DEF EndPipeline, vars, workerVars
    <2>2. /\ Outcome = "Verified" => result = "ok" /\ terminal = "Completed"
          /\ Outcome = "Unverified" => result = "ok" /\ terminal = "CompletedUnverified"
      BY DEF Outcome, RunnerTypeOK, Finals
    <2> QED
      BY <2>1, <2>2 DEF Returned, NoOrphan, Unix
  <1>9. CASE RequestTarget \/ UserCancels
    BY <1>0, <1>9, OutsideReturns DEF RequestTarget, UserCancels
  <1>10. CASE WorkerRuns \/ UserMarks \/ CardChanges
    BY <1>0, <1>10, OutsideReturns DEF WorkerRuns, UserMarks, CardChanges, loopVars
  <1>11. CASE UNCHANGED runnerVars
    BY <1>0, <1>11, OutsideReturns DEF runnerVars, loopVars
  <1> QED
    BY <1>1, <1>2, <1>3, <1>4, <1>5, <1>6, <1>7, <1>8, <1>9, <1>10, <1>11
       DEF RunnerNext, RunnerStep

-----------------------------------------------------------------------------
(* The invariant and what follows *)

LEMMA RunnerInits == ASSUME RunnerInit PROVE IndInv /\ RunnerInv
  <1>1. IndInv
    BY InitInv, InitTypes DEF RunnerInit, IndInv
  <1>2. Init /\ flushed = 0
    BY DEF RunnerInit, Init
  <1>3. RunnerTypeOK
    <2>1. /\ monitorError \in BOOLEAN /\ cancellationSent \in BOOLEAN
          /\ sawEvent \in BOOLEAN /\ cancelFlag \in BOOLEAN
      BY Zenon DEF RunnerInit
    <2>2. consumed \in 0 .. flushed
      BY <1>2 DEF RunnerInit
    <2> QED
      BY <2>1, <2>2 DEF RunnerInit, RunnerTypeOK
  <1>4. LastRead /\ Returned
    BY DEF RunnerInit, LastRead, Returned, NoOrphan
  <1> QED
    BY <1>1, <1>3, <1>4 DEF RunnerInv

(* The composition keeps the worker's invariant and its own.               *)
THEOREM RunnerInvariant == RunnerSpec => [](IndInv /\ RunnerInv)
  <1>1. RunnerInit => IndInv /\ RunnerInv
    BY RunnerInits
  <1>2. IndInv /\ RunnerInv /\ [RunnerNext]_runnerVars => (IndInv /\ RunnerInv)'
    <2> SUFFICES ASSUME IndInv, RunnerInv, [RunnerNext]_runnerVars
                 PROVE  IndInv' /\ RunnerInv'
      OBVIOUS
    <2>0. TypeOK /\ RunnerTypeOK /\ LastRead /\ Returned
      BY DEF IndInv, RunnerInv
    <2>1. IndInv'
      BY <2>0, RunnerStepsWorker, IndStep
    <2>2. RunnerTypeOK' /\ LastRead'
      BY <2>0, HeardStep, PlainStep, PlainIsType
    <2>3. Returned'
      BY <2>0, ReturnedStep
    <2> QED
      BY <2>1, <2>2, <2>3 DEF RunnerInv
  <1> QED
    BY <1>1, <1>2, PTL DEF RunnerSpec

(* Under the monitor loop, with its kills, markers and faults, the worker  *)
(* is still the worker: the composition implements Worker ...              *)
THEOREM RunnerImplementsWorker == RunnerSpec => Spec
  <1>1. RunnerInit => Init
    BY DEF RunnerInit
  <1>2. IndInv /\ [RunnerNext]_runnerVars => [Next]_vars
    BY RunnerStepsWorker DEF IndInv
  <1> QED
    BY <1>1, <1>2, RunnerInvariant, PTL DEF RunnerSpec, Spec

(* ... and so the run as a whole keeps what FlashPromise says of the job,  *)
(* and never writes a mounted medium, on each of the three platforms.      *)
THEOREM RunnerKeepsPromise == RunnerSpec => KeepsPromise /\ NoWriteUnderMount
  BY RunnerImplementsWorker, PromiseKept, NoWriteUnderMountAlways, PTL

(* A process that succeeds has been heard: its success record is the last  *)
(* complete one of the file, and the loop has read to the end.             *)
LEMMA ToldAndTrue ==
  ASSUME IndInv, RunnerInv
  PROVE  SuccessIsTold /\ SuccessIsTrue /\ NoOrphan
  <1> USE DEF RunnerInv
  <1>1. NoOrphan
    BY DEF NoOrphan, Returned
  <1>2. ASSUME result = "ok"
        PROVE  /\ pc = "exited" /\ error = "none"
               /\ terminal = emitted[flushed] /\ flushed \in 1 .. flushed
               /\ terminal \in {"Completed", "CompletedUnverified"}
    <2>1. pc = "exited" /\ error = "none" /\ consumed = flushed
      BY <1>2 DEF Returned
    <2>2. flushed > 0 /\ emitted[flushed] \in {"Completed", "CompletedUnverified"}
      BY <2>1 DEF IndInv, RecordInv, ExitAgreesWithLog
    <2>3. flushed \in Nat
      BY DEF IndInv, TypeOK, LogType
    <2> QED
      BY <2>1, <2>2, <2>3 DEF LastRead, Finals
  <1>3. SuccessIsTold
    BY <1>2 DEF SuccessIsTold
  <1>4. ASSUME outcome \in {"Verified", "Unverified"} PROVE SuccessIsTrue
    <2>1. /\ result = "ok"
          /\ outcome = "Verified" => terminal = "Completed"
          /\ outcome = "Unverified" => terminal = "CompletedUnverified"
      BY <1>4 DEF Returned
    <2>2. /\ outcome = "Verified" => Visible("Completed")
          /\ outcome = "Unverified" => Visible("CompletedUnverified")
      BY <1>2, <2>1 DEF Visible
    <2> QED
      BY <1>2, <1>4, <2>1, <2>2, Truthful
         DEF SuccessIsTrue, VerifiedIsTrue, CompletedIsDurable, UnverifiedOnlyIfAsked
  <1> QED
    BY <1>1, <1>3, <1>4 DEF SuccessIsTrue

(* What is reported as a success is one: WorkerRunner::run and             *)
(* run_pipeline, on every platform.                                        *)
THEOREM SuccessIsTrueAlways == RunnerSpec => []SuccessIsTrue
  BY RunnerInvariant, ToldAndTrue, PTL

(* A successful process never leaves the pipeline without a terminal       *)
(* event: tail.finish reads what the last drain did not.                   *)
THEOREM SuccessIsToldAlways == RunnerSpec => []SuccessIsTold
  BY RunnerInvariant, ToldAndTrue, PTL

(* The Unix runners do not return before the worker has stopped.           *)
THEOREM NoOrphanAlways == RunnerSpec => []NoOrphan
  BY RunnerInvariant, ToldAndTrue, PTL
-----------------------------------------------------------------------------
(* What the records tell of the card *)

(* A record was flushed, and all that was emitted since is in "after".     *)
Announced(record, after) ==
  \E i \in 1 .. flushed :
    /\ emitted[i] = record
    /\ \A j \in i + 1 .. Len(emitted) : emitted[j] \in after

Later     == Flashing \cup {"Ejecting"} \cup Finals
PastWrite == {"eject", "cleanup", "report"} \cup Stopped
Detaching == {"afterUnmount", "revalidate", "open", "opened", "write"}

(* No byte is written before the write loop, or before the unmount.        *)
CardInv ==
  /\ pc \in Detaching => detached
  /\ pc \in Prewrite => written = 0
  /\ pc \in Prewrite \/ ~detached => \A m \in Media : card[m] = Untouched

(* What is done to the card was announced: the unmount before it begins,   *)
(* the write loop before its second buffer is written.                     *)
AnnouncedInv ==
  /\ pc = "unmount" =>
       flushed > 0 /\ flushed = Len(emitted) /\ emitted[flushed] = "Unmounting"
  /\ detached => Announced("Unmounting", Record \ {"ValidatingImage"})
  /\ pc = "write" /\ ~cancelled /\ written > 0 => Announced("Writing", Later)
  /\ \A i \in Index \ {1} : card[Selected][i] # "old" => Announced("Writing", Later)

(* What is announced has begun, and has ended if it says so.               *)
EntryInv ==
  \A i \in 1 .. Len(emitted) :
    /\ emitted[i] \in Flashing => written > 0
    /\ emitted[i] = "Ejecting" => written = Chunks /\ ~dirty /\ pc \in PastWrite

(* Only the write loop changes the card, one chunk at a time, and written  *)
(* counts them.                                                            *)
LEMMA CardLocal ==
  ASSUME TypeOK, MediumInv, [Next]_vars
  PROVE  \/ UNCHANGED <<card, written>>
         \/ /\ pc = "write" /\ ~cancelled
            /\ pc' \in {"write", "afterFlash"}
            /\ written' \in {written, written + 1}
            /\ \A i \in Index \ {written + 1} : card'[Selected][i] = card[Selected][i]
  <1> DEFINE Same == UNCHANGED <<card, written>>
  <1>1. CASE Launch \/ RunJob \/ StageChunk \/ StageEnd \/ ValidateTarget \/ Unmount
    BY <1>1 DEF Launch, RunJob, StageChunk, StageEnd, ValidateTarget, Unmount, deviceVars,
                flashVars
  <1>2. CASE AfterUnmount \/ RevalidateTarget \/ OpenTarget \/ RevalidateOpened
    BY <1>2 DEF AfterUnmount, RevalidateTarget, OpenTarget, RevalidateOpened, deviceVars,
                flashVars
  <1>3. CASE WriteChunk
    BY <1>3 DEF WriteChunk, PutChunk, MediumInv, TypeOK, DeviceType, Index
  <1>4. CASE WriteFails
    <2>1. pc = "write" /\ ~cancelled /\ pc' = "afterFlash" /\ UNCHANGED written
      BY <1>4 DEF WriteFails, FlashEnds
    <2>2. UNCHANGED card \/ PutChunk("bad")
      BY <1>4 DEF WriteFails
    <2> QED
      BY <2>1, <2>2 DEF PutChunk, MediumInv, TypeOK, DeviceType, Index
  <1>5. CASE WriteCancelled \/ WriteEnd \/ PrepareVerification \/ ReopenForVerification
    BY <1>5 DEF WriteCancelled, WriteEnd, PrepareVerification, ReopenForVerification,
                FlashEnds, deviceVars
  <1>6. CASE VerifyChunk \/ VerifyStops \/ VerifyEnd \/ AfterFlash
    BY <1>6 DEF VerifyChunk, VerifyStops, VerifyEnd, AfterFlash, FlashEnds, deviceVars,
                flashVars
  <1>7. CASE SyncTarget \/ EjectTarget \/ CleanupEject \/ ReportFailure
    BY <1>7 DEF SyncTarget, EjectTarget, CleanupEject, ReportFailure, deviceVars, flashVars
  <1>8. CASE Environment \/ UNCHANGED vars
    BY <1>8 DEF Environment, TouchCancel, TouchSkip, RemoveMedium, InsertMedium, Automount,
                Kill, vars, workerVars, deviceVars, flashVars
  <1> QED
    BY <1>1, <1>2, <1>3, <1>4, <1>5, <1>6, <1>7, <1>8 DEF Next, WorkerStep

(* How the labels of run_job follow each other around the write loop.      *)
LEMMA LabelStep ==
  ASSUME TypeOK, [Next]_vars
  PROVE  /\ pc' \in Prewrite => pc \in Prewrite
         /\ pc' = "write" => pc \in {"opened", "write"}
         /\ pc' \in Detaching => pc \in Detaching \cup {"unmount"}
         /\ pc \in PastWrite => pc' \in PastWrite
  <1> USE DEF Prewrite, Early, Detaching, PastWrite, Stopped
  <1>1. CASE Launch \/ RunJob \/ StageChunk \/ StageEnd
    BY <1>1 DEF Launch, RunJob, StageChunk, StageEnd, Fail, Stop, EmitThen
  <1>2. CASE ValidateTarget \/ Unmount \/ AfterUnmount \/ RevalidateTarget
    BY <1>2 DEF ValidateTarget, Unmount, UnmountFailed, AfterUnmount, RevalidateTarget, Fail,
                Stop, EmitThen
  <1>3. CASE OpenTarget \/ RevalidateOpened \/ WriteChunk \/ WriteFails
    BY <1>3 DEF OpenTarget, RevalidateOpened, WriteChunk, WriteFails, FlashEnds, Fail
  <1>4. CASE WriteCancelled \/ WriteEnd \/ PrepareVerification \/ ReopenForVerification
    BY <1>4 DEF WriteCancelled, WriteEnd, PrepareVerification, ReopenForVerification, FlashEnds
  <1>5. CASE VerifyChunk \/ VerifyStops \/ VerifyEnd \/ AfterFlash
    BY <1>5 DEF VerifyChunk, VerifyStops, VerifyEnd, AfterFlash, AbortFlash, FlashEnds
  <1>6. CASE SyncTarget \/ EjectTarget
    BY <1>6 DEF SyncTarget, EjectTarget, EjectThenComplete, Fail, EmitThen
  <1>7. CASE CleanupEject \/ ReportFailure
    BY <1>7 DEF CleanupEject, ReportFailure
  <1>8. CASE Environment \/ UNCHANGED vars
    BY <1>8 DEF Environment, TouchCancel, TouchSkip, RemoveMedium, InsertMedium, Automount,
                Kill, vars, workerVars, Running
  <1> QED
    BY <1>1, <1>2, <1>3, <1>4, <1>5, <1>6, <1>7, <1>8 DEF Next, WorkerStep

(* Only Unmount detaches, and says nothing of its own.  After the write    *)
(* loop nothing is written any more.                                       *)
LEMMA DetachStep ==
  ASSUME TypeOK, [Next]_vars
  PROVE  /\ \/ UNCHANGED detached /\ pc # "unmount"
            \/ UNCHANGED detached /\ UNCHANGED workerVars
            \/ UNCHANGED detached /\ pc' = "killed"
            \/ detached' /\ pc = "unmount" /\ UNCHANGED <<emitted, flushed>>
         /\ pc \in PastWrite => UNCHANGED dirty
  <1> USE DEF PastWrite, Stopped
  <1>1. CASE Launch \/ RunJob \/ StageChunk \/ StageEnd
    BY <1>1 DEF Launch, RunJob, StageChunk, StageEnd, historyVars
  <1>2. CASE ValidateTarget \/ Unmount \/ AfterUnmount \/ RevalidateTarget
    BY <1>2 DEF ValidateTarget, Unmount, AfterUnmount, RevalidateTarget, NoRecord, historyVars
  <1>3. CASE OpenTarget \/ RevalidateOpened \/ WriteChunk \/ WriteFails
    BY <1>3 DEF OpenTarget, RevalidateOpened, WriteChunk, WriteFails, historyVars
  <1>4. CASE WriteCancelled \/ WriteEnd \/ PrepareVerification \/ ReopenForVerification
    BY <1>4 DEF WriteCancelled, WriteEnd, PrepareVerification, ReopenForVerification,
                historyVars
  <1>5. CASE VerifyChunk \/ VerifyStops \/ VerifyEnd \/ AfterFlash
    BY <1>5 DEF VerifyChunk, VerifyStops, VerifyEnd, AfterFlash, historyVars
  <1>6. CASE SyncTarget \/ EjectTarget \/ CleanupEject \/ ReportFailure
    BY <1>6 DEF SyncTarget, EjectTarget, CleanupEject, ReportFailure, deviceVars, historyVars
  <1>7. CASE Environment \/ UNCHANGED vars
    BY <1>7 DEF Environment, TouchCancel, TouchSkip, RemoveMedium, InsertMedium, Automount,
                Kill, vars, workerVars, deviceVars, historyVars, Running
  <1> QED
    BY <1>1, <1>2, <1>3, <1>4, <1>5, <1>6, <1>7 DEF Next, WorkerStep

LEMMA CardStep ==
  ASSUME TypeOK, MediumInv, OnlySelectedWritten, CardInv, [Next]_vars
  PROVE  CardInv'
  <1>1. pc' \in Detaching => detached'
    BY LabelStep, DetachStep DEF CardInv, Detaching, workerVars
  <1>2. pc = "write" => detached /\ pc \notin Prewrite
    BY DEF CardInv, Detaching, Prewrite, Early
  <1>3. pc' \in Prewrite => written' = 0
    BY <1>2, CardLocal, LabelStep DEF CardInv
  <1>4. ASSUME pc' \in Prewrite \/ ~detached' PROVE \A m \in Media : card'[m] = Untouched
    BY <1>2, <1>4, CardLocal, LabelStep, DetachStep DEF CardInv
  <1> QED
    BY <1>1, <1>3, <1>4 DEF CardInv, Untouched, Index

(* What the worker is doing when it emits a record.                        *)
Speaks(record) ==
  /\ record = "ValidatingImage" => pc \in {"runJob", "staging"}
  /\ record \notin Later => pc \in Prewrite
  /\ record \in Flashing => written' > 0
  /\ record = "Ejecting" => written' = Chunks /\ ~dirty' /\ pc' \in PastWrite

LEMMA EntryAdded ==
  ASSUME TypeOK, MediumInv, FlashInv, [Next]_vars
  PROVE  \/ UNCHANGED emitted
         \/ \E record \in Record : emitted' = Append(emitted, record) /\ Speaks(record)
  <1> DEFINE Added == \E record \in Record :
                        emitted' = Append(emitted, record) /\ Speaks(record)
  <1> USE DEF Later, Flashing, Finals, Record, Phases, Prewrite, Early, PastWrite
  <1>0. written \in Nat /\ reread \in Nat /\ Chunks \in Nat \ {0}
    BY WorkerAssumption DEF TypeOK, FlashType
  <1>1. CASE RunJob \/ StageChunk \/ StageEnd \/ ValidateTarget \/ AfterUnmount
    <2>1. \/ UNCHANGED emitted
          \/ emitted' = Append(emitted, "ValidatingImage") /\ pc \in {"runJob", "staging"}
          \/ emitted' = Append(emitted, "ValidatingTarget") /\ pc \in Prewrite
          \/ emitted' = Append(emitted, "Unmounting") /\ pc \in Prewrite
      BY <1>1 DEF RunJob, StageChunk, StageEnd, ValidateTarget, AfterUnmount, Fail, Stop,
                  EmitThen, Emit, EmitFails, NoRecord
    <2> QED
      BY <2>1 DEF Speaks
  <1>2. CASE Launch \/ Unmount \/ RevalidateTarget \/ OpenTarget \/ RevalidateOpened
    BY <1>2 DEF Launch, Unmount, RevalidateTarget, OpenTarget, RevalidateOpened, Fail, NoRecord
  <1>3. CASE WriteFails \/ WriteCancelled \/ WriteEnd \/ PrepareVerification
    BY <1>3 DEF WriteFails, WriteCancelled, WriteEnd, PrepareVerification, FlashEnds, NoRecord
  <1>4. CASE ReopenForVerification \/ VerifyStops \/ VerifyEnd
    BY <1>4 DEF ReopenForVerification, VerifyStops, VerifyEnd, FlashEnds, NoRecord
  <1>5. CASE WriteChunk \/ VerifyChunk
    <2>1. /\ UNCHANGED emitted \/ \E record \in Flashing : emitted' = Append(emitted, record)
          /\ written' > 0
      BY <1>0, <1>5 DEF WriteChunk, VerifyChunk, Callback, Emit, EmitFails, NoRecord
    <2> QED
      BY <2>1 DEF Speaks
  <1>6. CASE AfterFlash
    <2>1. \/ UNCHANGED emitted
          \/ /\ emitted' = Append(emitted, "Syncing") /\ ReportError = "none"
             /\ UNCHANGED written
      BY <1>6 DEF AfterFlash, AbortFlash, Emit, EmitFails, NoRecord, flashVars
    <2>2. ReportError = "none" => written = Chunks
      BY DEF ReportError, FlashInv, TypeOK, FlashType
    <2> QED
      BY <1>0, <2>1, <2>2 DEF Speaks
  <1>7. CASE SyncTarget
    <2>1. \/ UNCHANGED emitted
          \/ /\ emitted' = Append(emitted, "Ejecting") /\ ~dirty'
             /\ pc' \in {"eject", "cleanup"} /\ UNCHANGED written
      BY <1>7 DEF SyncTarget, Fail, EmitThen, Emit, EmitFails, NoRecord, flashVars
    <2>2. written = Chunks
      BY <1>7 DEF SyncTarget, FlashInv
    <2> QED
      BY <2>1, <2>2 DEF Speaks
  <1>8. CASE EjectTarget \/ CleanupEject \/ ReportFailure
    <2>1. UNCHANGED emitted \/ \E record \in Finals : emitted' = Append(emitted, record)
      BY <1>8 DEF EjectTarget, EjectThenComplete, CompletedRecord, CleanupEject,
                  ReportFailure, Fail, EmitThen, Emit, EmitFails, NoRecord
    <2> QED
      BY <2>1 DEF Speaks
  <1>9. CASE Environment \/ UNCHANGED vars
    BY <1>9 DEF Environment, TouchCancel, TouchSkip, RemoveMedium, InsertMedium, Automount,
                Kill, vars, workerVars
  <1> QED
    BY <1>1, <1>2, <1>3, <1>4, <1>5, <1>6, <1>7, <1>8, <1>9 DEF Next, WorkerStep

(* What was announced stays so while the records that follow allow it.     *)
LEMMA AnnouncedStays ==
  ASSUME TypeOK, [Next]_vars, NEW record, NEW after, Announced(record, after),
         UNCHANGED emitted \/ \E r \in Record \cap after : emitted' = Append(emitted, r)
  PROVE  Announced(record, after)'
  <1>1. PICK i \in 1 .. flushed :
          emitted[i] = record /\ \A j \in i + 1 .. Len(emitted) : emitted[j] \in after
    BY DEF Announced
  <1>2. Grows /\ Len(emitted) \in Nat /\ flushed \in 0 .. Len(emitted)
    BY LogGrows DEF TypeOK, LogType
  <1>3. i \in 1 .. flushed' /\ emitted'[i] = record
    BY <1>1, <1>2 DEF Grows
  <1>4. ASSUME NEW j \in i + 1 .. Len(emitted') PROVE emitted'[j] \in after
    <2>1. CASE UNCHANGED emitted
      BY <1>1, <1>4, <2>1
    <2>2. ASSUME NEW r \in Record \cap after, emitted' = Append(emitted, r)
          PROVE  emitted'[j] \in after
      <3>1. j \in 1 .. Len(emitted')
        BY <1>2, <1>4
      <3> QED
        BY <1>1, <1>4, <2>2, <3>1, AppendedEntry DEF TypeOK
    <2> QED
      BY <2>1, <2>2
  <1> QED
    BY <1>3, <1>4 DEF Announced

(* The two records the card depends on come with the labels they announce. *)
LEMMA UnmountComes ==
  ASSUME [Next]_vars, pc' = "unmount"
  PROVE  \/ pc = "unmount" /\ UNCHANGED <<emitted, flushed>>
         \/ Emit("Unmounting")
  <1>1. CASE Launch \/ RunJob \/ StageChunk \/ StageEnd
    BY <1>1 DEF Launch, RunJob, StageChunk, StageEnd, Fail, Stop, EmitThen
  <1>2. CASE ValidateTarget \/ Unmount \/ AfterUnmount \/ RevalidateTarget
    BY <1>2 DEF ValidateTarget, Unmount, UnmountFailed, AfterUnmount, RevalidateTarget, Fail,
                Stop, EmitThen
  <1>3. CASE OpenTarget \/ RevalidateOpened \/ WriteChunk \/ WriteFails
    BY <1>3 DEF OpenTarget, RevalidateOpened, WriteChunk, WriteFails, FlashEnds, Fail
  <1>4. CASE WriteCancelled \/ WriteEnd \/ PrepareVerification \/ ReopenForVerification
    BY <1>4 DEF WriteCancelled, WriteEnd, PrepareVerification, ReopenForVerification, FlashEnds
  <1>5. CASE VerifyChunk \/ VerifyStops \/ VerifyEnd \/ AfterFlash
    BY <1>5 DEF VerifyChunk, VerifyStops, VerifyEnd, AfterFlash, AbortFlash, FlashEnds
  <1>6. CASE SyncTarget \/ EjectTarget \/ CleanupEject \/ ReportFailure
    BY <1>6 DEF SyncTarget, EjectTarget, EjectThenComplete, CleanupEject, ReportFailure, Fail,
                EmitThen
  <1>7. CASE Environment \/ UNCHANGED vars
    BY <1>7 DEF Environment, TouchCancel, TouchSkip, RemoveMedium, InsertMedium, Automount,
                Kill, vars, workerVars
  <1> QED
    BY <1>1, <1>2, <1>3, <1>4, <1>5, <1>6, <1>7 DEF Next, WorkerStep

LEMMA WritingComes ==
  ASSUME [Next]_vars, pc \in {"opened", "write"}, pc' = "write", ~cancelled'
  PROVE  \/ pc = "write" /\ ~cancelled /\ UNCHANGED written
         \/ Emit("Writing")
         \/ pc = "opened" /\ UNCHANGED written
  <1>1. CASE WriteChunk
    BY <1>1 DEF WriteChunk, Callback
  <1>2. CASE RevalidateOpened
    BY <1>2 DEF RevalidateOpened, flashVars
  <1>3. CASE WriteFails \/ WriteCancelled \/ WriteEnd
    BY <1>3 DEF WriteFails, WriteCancelled, WriteEnd, FlashEnds
  <1>4. CASE Environment \/ UNCHANGED vars
    BY <1>4 DEF Environment, TouchCancel, TouchSkip, RemoveMedium, InsertMedium, Automount,
                Kill, vars, workerVars
  <1>5. CASE WorkerStep /\ ~ WriteChunk /\ ~ RevalidateOpened /\ ~ WriteFails /\ ~ WriteCancelled /\ ~ WriteEnd
    BY <1>5 DEF WorkerStep, Launch, RunJob, StageChunk, StageEnd, ValidateTarget, Unmount,
                AfterUnmount, RevalidateTarget, OpenTarget, PrepareVerification,
                ReopenForVerification, VerifyChunk, VerifyStops, VerifyEnd, AfterFlash,
                SyncTarget, EjectTarget, CleanupEject, ReportFailure
  <1> QED
    BY <1>1, <1>2, <1>3, <1>4, <1>5 DEF Next

LEMMA EntryStep ==
  ASSUME TypeOK, MediumInv, FlashInv, EntryInv, [Next]_vars
  PROVE  EntryInv'
  <1>1. /\ written \in Nat
        /\ \/ UNCHANGED written
           \/ pc = "write" /\ written' \in Nat /\ written' >= written
    BY CardLocal DEF TypeOK, FlashType
  <1>2. pc \in PastWrite => pc' \in PastWrite /\ UNCHANGED <<dirty, written>>
    BY <1>1, LabelStep, DetachStep DEF PastWrite, Stopped
  <1>3. ASSUME NEW i \in 1 .. Len(emitted), emitted'[i] = emitted[i]
        PROVE  /\ emitted'[i] \in Flashing => written' > 0
               /\ emitted'[i] = "Ejecting" =>
                    written' = Chunks /\ ~dirty' /\ pc' \in PastWrite
    BY <1>1, <1>2, <1>3 DEF EntryInv
  <1>4. CASE UNCHANGED emitted
    BY <1>3, <1>4 DEF EntryInv
  <1>5. ASSUME NEW r \in Record, emitted' = Append(emitted, r), Speaks(r) PROVE EntryInv'
    <2>1. \A i \in 1 .. Len(emitted') :
             (i \in 1 .. Len(emitted) /\ emitted'[i] = emitted[i]) \/ emitted'[i] = r
      BY <1>5, AppendedEntry DEF TypeOK
    <2> QED
      BY <1>3, <1>5, <2>1 DEF Speaks, EntryInv
  <1> QED
    BY <1>4, <1>5, EntryAdded

LEMMA AnnouncedStep ==
  ASSUME TypeOK, MediumInv, OnlySelectedWritten, EjectInv, FlashInv, CardInv, AnnouncedInv,
         [Next]_vars
  PROVE  AnnouncedInv'
  <1> DEFINE Unmounted == Announced("Unmounting", Record \ {"ValidatingImage"})
             Wrote     == Announced("Writing", Later)
  <1>0. Grows /\ Len(emitted) \in Nat /\ flushed \in 0 .. Len(emitted)
    BY LogGrows DEF TypeOK, LogType
  <1>1. ASSUME pc' = "unmount"
        PROVE  flushed' > 0 /\ flushed' = Len(emitted') /\ emitted'[flushed'] = "Unmounting"
    <2>1. \/ pc = "unmount" /\ UNCHANGED <<emitted, flushed>>
          \/ Emit("Unmounting")
      BY <1>1, UnmountComes
    <2> QED
      BY <1>0, <2>1 DEF AnnouncedInv, Emit
  <1>2. ASSUME detached' PROVE Unmounted'
    <2>1. CASE detached
      <3>1. pc \notin {"runJob", "staging"}
        BY <2>1 DEF EjectInv, Early
      <3>2. \/ UNCHANGED emitted
            \/ \E r \in Record \cap (Record \ {"ValidatingImage"}) : emitted' = Append(emitted, r)
        BY <3>1, EntryAdded DEF Speaks
      <3> QED
        BY <2>1, <3>2, AnnouncedStays DEF AnnouncedInv
    <2>2. CASE ~detached
      <3>1. pc = "unmount" /\ UNCHANGED <<emitted, flushed>>
        BY <1>2, <2>2, DetachStep
      <3> QED
        BY <1>0, <3>1 DEF AnnouncedInv, Announced
    <2> QED
      BY <2>1, <2>2
  <1>3. ASSUME Wrote, pc \notin Prewrite PROVE Wrote'
    <2>1. UNCHANGED emitted \/ \E r \in Record \cap Later : emitted' = Append(emitted, r)
      BY <1>3, EntryAdded DEF Speaks
    <2> QED
      BY <1>3, <2>1, AnnouncedStays
  <1>4. ASSUME pc' = "write", ~cancelled', written' > 0 PROVE Wrote'
    <2>1. pc \in {"opened", "write"} => \/ pc = "write" /\ ~cancelled /\ UNCHANGED written
                                        \/ Emit("Writing")
                                        \/ pc = "opened" /\ UNCHANGED written
      BY <1>4, WritingComes
    <2>2. CASE pc = "write" /\ ~cancelled /\ UNCHANGED written
      BY <1>3, <1>4, <2>2 DEF AnnouncedInv, Prewrite, Early
    <2>3. CASE Emit("Writing")
      BY <1>0, <2>3 DEF Emit, Announced
    <2> QED
      BY <1>4, <2>1, <2>2, <2>3, LabelStep DEF CardInv, Prewrite
  <1>5. ASSUME NEW i \in Index \ {1}, card'[Selected][i] # "old" PROVE Wrote'
    <2>1. CASE card[Selected][i] # "old"
      <3>1. pc \notin Prewrite
        BY <2>1, WorkerAssumption DEF CardInv, Untouched
      <3> QED
        BY <1>3, <2>1, <3>1 DEF AnnouncedInv
    <2>2. CASE card[Selected][i] = "old"
      <3>1. pc = "write" /\ ~cancelled /\ i = written + 1
        BY <1>5, <2>2, CardLocal
      <3>2. written > 0
        BY <3>1 DEF TypeOK, FlashType, Index
      <3> QED
        BY <1>3, <3>1, <3>2 DEF AnnouncedInv, Prewrite, Early
    <2> QED
      BY <2>1, <2>2
  <1> QED
    BY <1>1, <1>2, <1>4, <1>5 DEF AnnouncedInv

LEMMA AnnouncesTruly == Spec => [](CardInv /\ AnnouncedInv /\ EntryInv)
  <1>1. Init => CardInv /\ AnnouncedInv /\ EntryInv
    <2> SUFFICES ASSUME Init PROVE CardInv /\ AnnouncedInv /\ EntryInv
      OBVIOUS
    <2>1. pc = "launch" /\ ~detached /\ written = 0 /\ Len(emitted) = 0
      BY DEF Init
    <2>2. card = [m \in Media |-> Untouched]
      BY DEF Init
    <2>3. CardInv
      BY <2>1, <2>2 DEF CardInv, Detaching
    <2>4. AnnouncedInv
      BY <2>1, <2>2, WorkerAssumption DEF AnnouncedInv, Untouched
    <2> QED
      BY <2>1, <2>3, <2>4 DEF EntryInv
  <1>2. /\ IndInv /\ CardInv /\ AnnouncedInv /\ EntryInv /\ [Next]_vars
        => (CardInv /\ AnnouncedInv /\ EntryInv)'
    BY CardStep, AnnouncedStep, EntryStep DEF IndInv
  <1> QED
    BY <1>1, <1>2, Inductive, PTL DEF Spec

(* Where the phase the window shows stands in the log.                     *)
LEMMA ShownAfter ==
  ASSUME TypeOK, consumed = flushed, NEW phase, Shows(phase), NEW record, NEW after,
         Announced(record, after), record \notin Silent \cup Success
  PROVE  phase = record \/ \E r \in after \ Silent : phase = PhaseOf(r)
  <1>1. PICK i \in 1 .. flushed :
          emitted[i] = record /\ \A j \in i + 1 .. Len(emitted) : emitted[j] \in after
    BY DEF Announced
  <1>2. flushed \in Nat /\ Len(emitted) \in Nat /\ flushed <= Len(emitted)
    BY DEF TypeOK, LogType
  <1>3. PICK k \in 1 .. flushed :
          /\ emitted[k] \notin Silent /\ phase = PhaseOf(emitted[k])
          /\ \A j \in k + 1 .. flushed : emitted[j] \in Silent
    BY <1>1 DEF Shows
  <1>4. CASE k = i
    BY <1>1, <1>3, <1>4 DEF PhaseOf, Success
  <1>5. CASE k > i
    <2>1. emitted[k] \in after
      BY <1>1, <1>2, <1>5
    <2> QED
      BY <1>3, <2>1
  <1>6. CASE k < i
    <2>1. emitted[i] \in Silent
      BY <1>2, <1>3, <1>6
    <2> QED
      BY <1>1, <2>1
  <1> QED
    BY <1>4, <1>5, <1>6

LEMMA SaidOfTheCard ==
  ASSUME IndInv, RunnerInv, CardInv, AnnouncedInv, EntryInv
  PROVE  WordingIsTrue
  <1> SUFFICES ASSUME NEW phase \in Phases \cup {"Authorizing"}, Shows(phase),
                      NEW failure \in {"cancelled", "error"},
                      outcome \in {"Cancelled", "Error"}
               PROVE  ClaimsHold(failure, phase)
    BY DEF WordingIsTrue
  <1> DEFINE says == Says(failure, phase)
  <1>0. TypeOK /\ OnlySelectedWritten /\ RecordInv /\ Returned
    BY DEF IndInv, RunnerInv
  <1>1. ASSUME says = "ready" \/ says = "incomplete"
        PROVE  /\ phase \in Flashing \cup {"Ejecting"}
               /\ says = "ready" => phase = "Ejecting"
    BY <1>1 DEF Says, Flashing, BeforeTarget
  <1>2. ASSUME phase \in Flashing \cup {"Ejecting"}
        PROVE  written > 0 /\ (phase = "Ejecting" => written = Chunks /\ ~dirty)
    <2>1. consumed \in 0 .. flushed /\ flushed \in 0 .. Len(emitted)
      BY <1>0 DEF RunnerInv, RunnerTypeOK, TypeOK, LogType
    <2>2. PICK i \in 1 .. consumed : phase = PhaseOf(emitted[i])
      BY <1>2 DEF Shows, Flashing
    <2>3. i \in 1 .. Len(emitted) /\ emitted[i] \in {phase} \cup Success
      BY <2>1, <2>2 DEF PhaseOf, Success
    <2>4. phase = "Ejecting" => written = Chunks /\ ~dirty
      BY <1>0, <2>3 DEF EntryInv, RecordInv, Success
    <2>5. phase \in Flashing => written > 0
      BY <2>2, <2>3 DEF EntryInv, PhaseOf, Flashing, Success
    <2> QED
      BY <1>2, <2>4, <2>5, WorkerAssumption
  <1>3. ASSUME result \in {"ok", "failed"}, says = "not written" \/ CanRetry(failure, phase)
        PROVE  ~detached /\ \A m \in Media : card[m] = Untouched
    <2>1. consumed = flushed
      BY <1>0, <1>3 DEF Returned
    <2>2. phase \in {"Authorizing", "ValidatingImage"}
      BY <1>3 DEF Says, CanRetry, BeforeTarget, Flashing, Phases
    <2>3. ~detached
      <3>1. ASSUME detached PROVE FALSE
        <4>1. Announced("Unmounting", Record \ {"ValidatingImage"})
          BY <3>1 DEF AnnouncedInv
        <4>2. "Unmounting" \notin Silent \cup Success
          BY DEF Silent, Success
        <4>3. \/ phase = "Unmounting"
              \/ \E r \in (Record \ {"ValidatingImage"}) \ Silent : phase = PhaseOf(r)
          BY <1>0, <2>1, <4>1, <4>2, ShownAfter
        <4> QED
          BY <2>2, <4>3 DEF PhaseOf, Record, Phases, Finals, Silent
      <3> QED
        BY <3>1
    <2> QED
      BY <2>3 DEF CardInv
  <1>4. ASSUME result \in {"ok", "failed"}, says = "no further changes"
        PROVE  pc \in Stopped /\ \A i \in Index \ {1} : card[Selected][i] = "old"
    <2>1. consumed = flushed /\ pc \in Stopped
      BY <1>0, <1>4 DEF Returned
    <2>2. phase \notin Flashing \cup {"Ejecting"}
      BY <1>4 DEF Says
    <2>3. ASSUME NEW i \in Index \ {1}, card[Selected][i] # "old" PROVE FALSE
      <3>1. Announced("Writing", Later)
        BY <2>3 DEF AnnouncedInv
      <3>2. "Writing" \notin Silent \cup Success
        BY DEF Silent, Success
      <3>3. phase = "Writing" \/ \E r \in Later \ Silent : phase = PhaseOf(r)
        BY <1>0, <2>1, <3>1, <3>2, ShownAfter
      <3> QED
        BY <2>2, <3>3 DEF PhaseOf, Later, Flashing, Finals, Silent
    <2> QED
      BY <2>1, <2>3
  <1> QED
    BY <1>1, <1>2, <1>3, <1>4 DEF ClaimsHold

(* What the screen of a failed or cancelled run claims of the card is true *)
(* of the card, for every image, platform and fault, within the two limits *)
(* that ClaimsHold names: failure_copy and failure_screen, told the phases *)
(* that the progress tail hands over.                                      *)
THEOREM WordingIsTrueAlways == RunnerSpec => []WordingIsTrue
  BY RunnerImplementsWorker, AnnouncesTruly, RunnerInvariant, SaidOfTheCard, PTL
=============================================================================
