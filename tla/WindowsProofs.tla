----------------------------- MODULE WindowsProofs -----------------------------
(***************************************************************************)
(* What WindowsTarget promises, for any disks and volumes, any sector and  *)
(* buffer size, and however often the environment interferes.              *)
(***************************************************************************)
EXTENDS WindowsTarget, AlignedReaderProofs

LEMMA InitInv == Init => IndInv
  <1> SUFFICES ASSUME Init PROVE IndInv
    OBVIOUS
  <1> USE WindowsAssumption DEF Init, Open, Exclusive, Slot
  <1>1. ReadInOrder
    <2>1. SubSeq(Disk, 1, 0) = <<>>
      BY SubSeqEmpty
    <2> QED
      BY <2>1 DEF ReadInOrder
  <1>2. TypeOK
    <2>1. handed \in Seq(Nat) /\ position \in Nat /\ events \in Nat
      OBVIOUS
    <2>2. /\ {pin, prepared, postWritePin, writer, verifier, openIdentity,
             rollbackSnapshot, at, proven} \subseteq Slot
          /\ locked \subseteq Volumes \cup NewVolumes /\ written \subseteq Disks
          /\ mounted \subseteq Volumes \cup NewVolumes /\ fresh \subseteq Disks
      OBVIOUS
    <2>3. /\ held \in BOOLEAN /\ volumesDismounted \in BOOLEAN
          /\ writeMayHaveStarted \in BOOLEAN /\ flashed \in BOOLEAN
          /\ alive \in BOOLEAN /\ foreign \in BOOLEAN
      BY Zenon
    <2> QED
      BY <2>1, <2>2, <2>3 DEF TypeOK
  <1>3. OnlyTheCard /\ OpenWhen
    BY DEF OnlyTheCard, OpenWhen
  <1>4. LockedWhen /\ EjectedWhen
    BY DEF LockedWhen, EjectedWhen
  <1> QED
    BY <1>1, <1>2, <1>3, <1>4 DEF IndInv

-----------------------------------------------------------------------------
(* unmount *)

LEMMA ValidateTargetInv == ASSUME IndInv, ValidateTarget PROVE IndInv'
  <1> USE WindowsAssumption DEF IndInv, ValidateTarget, Validate, Goto, Still, Validated,
        handles, flags, reading, world, Open, Exclusive, Slot
  <1>1. TypeOK'
    BY DEF TypeOK, OnlyTheCard
  <1>2. OnlyTheCard'
    BY DEF TypeOK, OnlyTheCard, OpenWhen
  <1>3. OpenWhen'
    BY DEF OpenWhen, OnlyTheCard, LockedWhen, Released
  <1>4. LockedWhen'
    BY DEF LockedWhen, Released, OpenWhen, OnlyTheCard
  <1>5. EjectedWhen'
    BY DEF EjectedWhen, Released, OpenWhen, OnlyTheCard, LockedWhen
  <1>6. ReadInOrder'
    BY DEF ReadInOrder, Disk
  <1> QED
    BY <1>1, <1>2, <1>3, <1>4, <1>5, <1>6

LEMMA StartUnmountInv == ASSUME IndInv, StartUnmount PROVE IndInv'
  <1> USE WindowsAssumption DEF IndInv, StartUnmount, Validate, Unused, Goto, Still, Validated,
        handles, flags, reading, world, Open, Exclusive, Slot
  <1>1. TypeOK'
    BY DEF TypeOK, OnlyTheCard
  <1>2. OnlyTheCard'
    BY DEF TypeOK, OnlyTheCard, OpenWhen
  <1>3. OpenWhen'
    BY DEF OpenWhen, OnlyTheCard, LockedWhen, Released
  <1>4. LockedWhen'
    BY DEF LockedWhen, Released, OpenWhen, OnlyTheCard
  <1>5. EjectedWhen'
    BY DEF EjectedWhen, Released, OpenWhen, OnlyTheCard, LockedWhen
  <1>6. ReadInOrder'
    BY DEF ReadInOrder, Disk
  <1> QED
    BY <1>1, <1>2, <1>3, <1>4, <1>5, <1>6

LEMMA PinDeviceInv == ASSUME IndInv, PinDevice PROVE IndInv'
  <1> USE WindowsAssumption DEF IndInv, PinDevice, Goto, Still,
        handles, flags, reading, world, Open, Exclusive, Slot
  <1>1. TypeOK'
    BY DEF TypeOK, OnlyTheCard
  <1>2. OnlyTheCard'
    BY DEF TypeOK, OnlyTheCard, OpenWhen
  <1>3. OpenWhen'
    BY DEF OpenWhen, OnlyTheCard, LockedWhen, Released
  <1>4. LockedWhen'
    BY DEF LockedWhen, Released, OpenWhen, OnlyTheCard
  <1>5. EjectedWhen'
    BY DEF EjectedWhen, Released, OpenWhen, OnlyTheCard, LockedWhen
  <1>6. ReadInOrder'
    BY DEF ReadInOrder, Disk
  <1> QED
    BY <1>1, <1>2, <1>3, <1>4, <1>5, <1>6

LEMMA IdentifyPinnedInv == ASSUME IndInv, IdentifyPinned PROVE IndInv'
  <1> USE WindowsAssumption DEF IndInv, IdentifyPinned, Goto, Still, Validated,
        handles, flags, reading, world, Open, Exclusive, Slot
  <1>1. TypeOK'
    BY DEF TypeOK, OnlyTheCard
  <1>2. OnlyTheCard'
    BY DEF TypeOK, OnlyTheCard, OpenWhen
  <1>3. OpenWhen'
    BY DEF OpenWhen, OnlyTheCard, LockedWhen, Released
  <1>4. LockedWhen'
    BY DEF LockedWhen, Released, OpenWhen, OnlyTheCard
  <1>5. EjectedWhen'
    BY DEF EjectedWhen, Released, OpenWhen, OnlyTheCard, LockedWhen
  <1>6. ReadInOrder'
    BY DEF ReadInOrder, Disk
  <1> QED
    BY <1>1, <1>2, <1>3, <1>4, <1>5, <1>6

LEMMA LockVolumeInv == ASSUME IndInv, LockVolume PROVE IndInv'
  <1> USE WindowsAssumption DEF IndInv, LockVolume, VolumesOf,
        handles, flags, reading, world, Open, Exclusive, Slot
  <1>1. TypeOK'
    BY DEF TypeOK, OnlyTheCard
  <1>2. OnlyTheCard'
    BY DEF TypeOK, OnlyTheCard, OpenWhen
  <1>3. OpenWhen'
    BY DEF OpenWhen, OnlyTheCard, LockedWhen, Released
  <1>4. LockedWhen'
    BY DEF LockedWhen, Released, OpenWhen, OnlyTheCard
  <1>5. EjectedWhen'
    BY DEF EjectedWhen, Released, OpenWhen, OnlyTheCard, LockedWhen
  <1>6. ReadInOrder'
    BY DEF ReadInOrder, Disk
  <1> QED
    BY <1>1, <1>2, <1>3, <1>4, <1>5, <1>6

LEMMA LockFailsInv == ASSUME IndInv, LockFails PROVE IndInv'
  <1> USE WindowsAssumption DEF IndInv, LockFails, Goto, Still,
        handles, flags, reading, world, Open, Exclusive, Slot
  <1>1. TypeOK'
    BY DEF TypeOK, OnlyTheCard
  <1>2. OnlyTheCard'
    BY DEF TypeOK, OnlyTheCard, OpenWhen
  <1>3. OpenWhen'
    BY DEF OpenWhen, OnlyTheCard, LockedWhen, Released
  <1>4. LockedWhen'
    BY DEF LockedWhen, Released, OpenWhen, OnlyTheCard
  <1>5. EjectedWhen'
    BY DEF EjectedWhen, Released, OpenWhen, OnlyTheCard, LockedWhen
  <1>6. ReadInOrder'
    BY DEF ReadInOrder, Disk
  <1> QED
    BY <1>1, <1>2, <1>3, <1>4, <1>5, <1>6

LEMMA AllLockedInv == ASSUME IndInv, AllLocked PROVE IndInv'
  <1> USE WindowsAssumption DEF IndInv, AllLocked, Goto, Still, DropPin,
        handles, flags, reading, world, Open, Exclusive, Slot
  <1>1. TypeOK'
    BY DEF TypeOK, OnlyTheCard
  <1>2. OnlyTheCard'
    BY DEF TypeOK, OnlyTheCard, OpenWhen
  <1>3. OpenWhen'
    BY DEF OpenWhen, OnlyTheCard, LockedWhen, Released
  <1>4. LockedWhen'
    BY DEF LockedWhen, Released, OpenWhen, OnlyTheCard
  <1>5. EjectedWhen'
    BY DEF EjectedWhen, Released, OpenWhen, OnlyTheCard, LockedWhen
  <1>6. ReadInOrder'
    BY DEF ReadInOrder, Disk
  <1> QED
    BY <1>1, <1>2, <1>3, <1>4, <1>5, <1>6

LEMMA TakeExclusiveInv == ASSUME IndInv, TakeExclusive PROVE IndInv'
  <1> USE WindowsAssumption DEF IndInv, TakeExclusive, Goto, Still, ExclusiveOpen, SameObject, Prepared,
        handles, flags, reading, world, Open, Exclusive, Slot
  <1>1. TypeOK'
    BY DEF TypeOK, OnlyTheCard
  <1>2. OnlyTheCard'
    BY DEF TypeOK, OnlyTheCard, OpenWhen
  <1>3. OpenWhen'
    BY DEF OpenWhen, OnlyTheCard, LockedWhen, Released
  <1>4. LockedWhen'
    <2>1. CASE pc' = "revalidate"
      BY <2>1 DEF LockedWhen, OpenWhen
    <2>2. CASE pc' = "rollback"
      BY <2>2 DEF LockedWhen, OpenWhen
    <2> QED
      BY <2>1, <2>2
  <1>5. EjectedWhen'
    BY DEF EjectedWhen, Released, OpenWhen, OnlyTheCard, LockedWhen
  <1>6. ReadInOrder'
    BY DEF ReadInOrder, Disk
  <1> QED
    BY <1>1, <1>2, <1>3, <1>4, <1>5, <1>6

LEMMA RollbackOfUnmountInv == ASSUME IndInv, RollbackOfUnmount PROVE IndInv'
  <1> USE WindowsAssumption DEF IndInv, RollbackOfUnmount, RollbackUnmount, ReleaseLocks, Goto, Validated, SameObject,
        handles, flags, reading, world, Open, Exclusive, Slot
  <1>1. TypeOK'
    BY ZenonT(60) DEF TypeOK, OnlyTheCard
  <1>2. OnlyTheCard'
    BY DEF TypeOK, OnlyTheCard, OpenWhen
  <1>3. OpenWhen'
    BY DEF OpenWhen, OnlyTheCard, LockedWhen, Released
  <1>4. LockedWhen'
    BY DEF LockedWhen, Released, OpenWhen, OnlyTheCard
  <1>5. EjectedWhen'
    BY DEF EjectedWhen, Released, OpenWhen, OnlyTheCard, LockedWhen
  <1>6. ReadInOrder'
    BY DEF ReadInOrder, Disk
  <1> QED
    BY <1>1, <1>2, <1>3, <1>4, <1>5, <1>6

-----------------------------------------------------------------------------
(* open_target, write, prepare_verification *)

LEMMA RevalidateInv == ASSUME IndInv, Revalidate PROVE IndInv'
  <1> USE WindowsAssumption DEF IndInv, Revalidate, Validate, Goto, Still, Validated,
        handles, flags, reading, world, Open, Exclusive, Slot
  <1>1. TypeOK'
    BY DEF TypeOK, OnlyTheCard
  <1>2. OnlyTheCard'
    BY DEF TypeOK, OnlyTheCard, OpenWhen
  <1>3. OpenWhen'
    BY DEF OpenWhen, OnlyTheCard, LockedWhen, Released
  <1>4. LockedWhen'
    BY DEF LockedWhen, Released, OpenWhen, OnlyTheCard
  <1>5. EjectedWhen'
    BY DEF EjectedWhen, Released, OpenWhen, OnlyTheCard, LockedWhen
  <1>6. ReadInOrder'
    BY DEF ReadInOrder, Disk
  <1> QED
    BY <1>1, <1>2, <1>3, <1>4, <1>5, <1>6

LEMMA OpenTargetInv == ASSUME IndInv, OpenTarget PROVE IndInv'
  <1> USE WindowsAssumption DEF IndInv, OpenTarget, Goto, Still, SameObject,
        handles, flags, reading, world, Open, Exclusive, Slot
  <1>1. TypeOK'
    BY ZenonT(60) DEF TypeOK, OnlyTheCard
  <1>2. OnlyTheCard'
    BY DEF TypeOK, OnlyTheCard, OpenWhen
  <1>3. OpenWhen'
    BY DEF OpenWhen, OnlyTheCard, LockedWhen, Released
  <1>4. LockedWhen'
    BY DEF LockedWhen, Released, OpenWhen, OnlyTheCard
  <1>5. EjectedWhen'
    BY DEF EjectedWhen, Released, OpenWhen, OnlyTheCard, LockedWhen
  <1>6. ReadInOrder'
    BY DEF ReadInOrder, Disk
  <1> QED
    BY <1>1, <1>2, <1>3, <1>4, <1>5, <1>6

LEMMA WriteInv == ASSUME IndInv, Write PROVE IndInv'
  <1> USE WindowsAssumption DEF IndInv, Write, Goto,
        handles, flags, reading, world, Open, Exclusive, Slot
  <1>1. TypeOK'
    BY DEF TypeOK, OnlyTheCard
  <1>2. OnlyTheCard'
    BY DEF TypeOK, OnlyTheCard, OpenWhen
  <1>3. OpenWhen'
    BY DEF OpenWhen, OnlyTheCard, LockedWhen, Released
  <1>4. LockedWhen'
    BY DEF LockedWhen, Released, OpenWhen, OnlyTheCard
  <1>5. EjectedWhen'
    BY DEF EjectedWhen, Released, OpenWhen, OnlyTheCard, LockedWhen
  <1>6. ReadInOrder'
    BY DEF ReadInOrder, Disk
  <1> QED
    BY <1>1, <1>2, <1>3, <1>4, <1>5, <1>6

LEMMA PrepareVerificationInv == ASSUME IndInv, PrepareVerification PROVE IndInv'
  <1> USE WindowsAssumption DEF IndInv, PrepareVerification, Goto, Still, SameObject, CloseClones,
        handles, flags, reading, world, Open, Exclusive, Slot
  <1>1. TypeOK'
    BY DEF TypeOK, OnlyTheCard
  <1>2. OnlyTheCard'
    BY DEF TypeOK, OnlyTheCard, OpenWhen
  <1>3. OpenWhen'
    BY DEF OpenWhen, OnlyTheCard, LockedWhen, Released
  <1>4. LockedWhen'
    BY DEF LockedWhen, Released, OpenWhen, OnlyTheCard
  <1>5. EjectedWhen'
    BY DEF EjectedWhen, Released, OpenWhen, OnlyTheCard, LockedWhen
  <1>6. ReadInOrder'
    BY DEF ReadInOrder, Disk
  <1> QED
    BY <1>1, <1>2, <1>3, <1>4, <1>5, <1>6

LEMMA ReopenUnbufferedInv == ASSUME IndInv, ReopenUnbuffered PROVE IndInv'
  <1> USE WindowsAssumption DEF IndInv, ReopenUnbuffered, Goto, Still, ExclusiveOpen, SameObject,
        handles, flags, reading, world, Open, Exclusive, Slot
  <1>1. TypeOK'
    BY DEF TypeOK, OnlyTheCard
  <1>2. OnlyTheCard'
    BY DEF TypeOK, OnlyTheCard, OpenWhen
  <1>3. OpenWhen'
    BY DEF OpenWhen, OnlyTheCard, LockedWhen, Released
  <1>4. LockedWhen'
    BY DEF LockedWhen, Released, OpenWhen, OnlyTheCard
  <1>5. EjectedWhen'
    BY DEF EjectedWhen, Released, OpenWhen, OnlyTheCard, LockedWhen
  <1>6. ReadInOrder'
    BY DEF ReadInOrder, Disk
  <1> QED
    BY <1>1, <1>2, <1>3, <1>4, <1>5, <1>6

(* A read appends what SliceIsExact says it returns. *)
LEMMA VerifyInv == ASSUME IndInv, Verify PROVE IndInv'
  <1> USE WindowsAssumption DEF IndInv, Verify, Goto, handles, flags, reading, world,
        Open, Exclusive, Slot
  <1>1. Disk \in Seq(Nat) /\ Len(Disk) = Capacity
    BY DEF Disk
  <1>2. position \in Nat /\ position <= Len(Disk) /\ Sector \in Nat \ {0}
    BY <1>1 DEF TypeOK, ReadInOrder
  <1>3. ASSUME ~UNCHANGED reading
        PROVE  /\ position' \in Nat /\ position' <= Len(Disk)
               /\ handed' = SubSeq(Disk, 1, position')
    <2>1. PICK output \in 1 .. Buffer :
            \E count \in 1 .. AlignedLength(position, Capacity, Sector, output) :
              LET bytes == Slice(Disk, position, Sector, output, count) IN
              /\ bytes # <<>>
              /\ position' = position + Len(bytes) /\ handed' = handed \o bytes
      BY <1>3
    <2>2. PICK count \in 1 .. AlignedLength(position, Capacity, Sector, output) :
            LET bytes == Slice(Disk, position, Sector, output, count) IN
            /\ bytes # <<>>
            /\ position' = position + Len(bytes) /\ handed' = handed \o bytes
      BY <2>1
    <2>3. handed = SubSeq(Disk, 1, position) /\ output \in Nat /\ count \in Nat
      BY DEF ReadInOrder
    <2> DEFINE bytes == Slice(Disk, position, Sector, output, count)
    <2> HIDE DEF Verify, IndInv
    <2>4. /\ bytes # <<>> /\ position' = position + Len(bytes)
          /\ handed' = handed \o bytes
      BY <2>2
    <2>5. Returned(Disk, position, Sector, output, count)
      BY <1>1, <1>2, <2>3, <2>4 DEF Returned
    <2>6. Continues(Disk, position, bytes)
      BY <2>5, ReadsOn
    <2> HIDE DEF bytes
    <2> QED
      BY <1>2, <2>3, <2>4, <2>6 DEF Continues
  <1>4. Disk' = Disk
    BY DEF Disk
  <1>5. /\ position' \in Nat /\ position' <= Len(Disk)
        /\ handed' = SubSeq(Disk, 1, position')
    <2>1. CASE UNCHANGED reading
      BY <1>1, <2>1 DEF TypeOK, ReadInOrder
    <2> QED
      BY <1>3, <2>1
  <1>6. ReadInOrder'
    BY <1>1, <1>4, <1>5 DEF ReadInOrder
  <1>7. handed' \in Seq(Nat)
    <2> HIDE DEF Verify, IndInv
    <2> QED
      BY <1>1, <1>5, PrefixIsSeq
  <1>8. UNCHANGED <<handles, flags, ejected, flashed, world>> /\ pc' \in {pc, "drop"} /\ pc = "read"
    OBVIOUS
  <1> HIDE DEF Verify
  <1>9. TypeOK'
    BY <1>5, <1>7, <1>8 DEF TypeOK
  <1>10. OnlyTheCard' /\ OpenWhen'
    BY <1>8 DEF OnlyTheCard, OpenWhen
  <1>11. LockedWhen' /\ EjectedWhen'
    BY <1>8 DEF LockedWhen, EjectedWhen, Released
  <1> QED
    BY <1>6, <1>9, <1>10, <1>11

-----------------------------------------------------------------------------
(* The end of the write, and eject *)

LEMMA DropTargetInv == ASSUME IndInv, DropTarget PROVE IndInv'
  <1> USE WindowsAssumption DEF IndInv, DropTarget, Goto,
        handles, flags, reading, world, Open, Exclusive, Slot
  <1>1. TypeOK'
    BY DEF TypeOK, OnlyTheCard
  <1>2. OnlyTheCard'
    BY DEF TypeOK, OnlyTheCard, OpenWhen
  <1>3. OpenWhen'
    BY DEF OpenWhen, OnlyTheCard, LockedWhen, Released
  <1>4. LockedWhen'
    BY DEF LockedWhen, Released, OpenWhen, OnlyTheCard
  <1>5. EjectedWhen'
    BY DEF EjectedWhen, Released, OpenWhen, OnlyTheCard, LockedWhen
  <1>6. ReadInOrder'
    BY DEF ReadInOrder, Disk
  <1> QED
    BY <1>1, <1>2, <1>3, <1>4, <1>5, <1>6

LEMMA EjectBeforeWriteInv == ASSUME IndInv, EjectBeforeWrite PROVE IndInv'
  <1> USE WindowsAssumption DEF IndInv, EjectBeforeWrite, RollbackUnmount, ReleaseLocks, Goto, Validated, SameObject, Ends,
        handles, flags, reading, world, Open, Exclusive, Slot
  <1>1. TypeOK'
    BY DEF TypeOK, OnlyTheCard
  <1>2. OnlyTheCard'
    BY DEF TypeOK, OnlyTheCard, OpenWhen
  <1>3. OpenWhen'
    BY DEF OpenWhen, OnlyTheCard, LockedWhen, Released
  <1>4. LockedWhen'
    BY DEF LockedWhen, Released, OpenWhen, OnlyTheCard
  <1>5. EjectedWhen'
    BY DEF EjectedWhen, Released, OpenWhen, OnlyTheCard, LockedWhen
  <1>6. ReadInOrder'
    BY DEF ReadInOrder, Disk
  <1> QED
    BY <1>1, <1>2, <1>3, <1>4, <1>5, <1>6

LEMMA EjectAfterWriteInv == ASSUME IndInv, EjectAfterWrite PROVE IndInv'
  <1> USE WindowsAssumption DEF IndInv, EjectAfterWrite, Goto, SameObject, Ends,
        handles, flags, reading, world, Open, Exclusive, Slot
  <1>1. TypeOK'
    BY ZenonT(60) DEF TypeOK, OnlyTheCard
  <1>2. OnlyTheCard'
    BY DEF TypeOK, OnlyTheCard, OpenWhen
  <1>3. OpenWhen'
    BY DEF OpenWhen, OnlyTheCard, LockedWhen, Released
  <1>4. LockedWhen'
    BY DEF LockedWhen, Released, OpenWhen, OnlyTheCard
  <1>5. EjectedWhen'
    BY DEF EjectedWhen, Released, OpenWhen, OnlyTheCard, LockedWhen
  <1>6. ReadInOrder'
    BY DEF ReadInOrder, Disk
  <1> QED
    BY <1>1, <1>2, <1>3, <1>4, <1>5, <1>6

LEMMA ProveExclusiveInv == ASSUME IndInv, ProveExclusive PROVE IndInv'
  <1> USE WindowsAssumption DEF IndInv, ProveExclusive, ExclusiveOpen, IsTheCard, SameObject, Ends, ReleaseLocks,
        handles, flags, reading, world, Open, Exclusive, Slot
  <1>1. TypeOK'
    BY ZenonT(60) DEF TypeOK, OnlyTheCard
  <1>2. OnlyTheCard'
    BY DEF TypeOK, OnlyTheCard, OpenWhen
  <1>3. OpenWhen'
    BY DEF OpenWhen, OnlyTheCard, LockedWhen, Released
  <1>4. LockedWhen'
    BY DEF LockedWhen, Released, OpenWhen, OnlyTheCard
  <1>5. EjectedWhen'
    BY DEF EjectedWhen, Released, OpenWhen, OnlyTheCard, LockedWhen
  <1>6. ReadInOrder'
    BY DEF ReadInOrder, Disk
  <1> QED
    BY <1>1, <1>2, <1>3, <1>4, <1>5, <1>6

-----------------------------------------------------------------------------
(* The environment *)

LEMMA UnplugInv == ASSUME IndInv, Unplug PROVE IndInv'
  <1> USE WindowsAssumption DEF IndInv, Unplug, Act,
        handles, flags, reading, world, Open, Exclusive, Slot
  <1>1. TypeOK'
    <2>1. alive' \in BOOLEAN
      BY Zenon
    <2>2. events' \in Nat
      BY DEF TypeOK
    <2> QED
      BY <2>1, <2>2, ZenonT(60) DEF TypeOK
  <1>2. OnlyTheCard'
    BY DEF TypeOK, OnlyTheCard, OpenWhen
  <1>3. OpenWhen'
    BY DEF OpenWhen, OnlyTheCard, LockedWhen, Released
  <1>4. LockedWhen'
    BY DEF LockedWhen, Released, OpenWhen, OnlyTheCard
  <1>5. EjectedWhen'
    BY DEF EjectedWhen, Released, OpenWhen, OnlyTheCard, LockedWhen
  <1>6. ReadInOrder'
    BY DEF ReadInOrder, Disk
  <1> QED
    BY <1>1, <1>2, <1>3, <1>4, <1>5, <1>6

LEMMA PlugInv == ASSUME IndInv, Plug PROVE IndInv'
  <1> USE WindowsAssumption DEF IndInv, Plug, Act,
        handles, flags, reading, world, Open, Exclusive, Slot
  <1>1. TypeOK'
    BY DEF TypeOK, OnlyTheCard
  <1>2. OnlyTheCard'
    BY DEF TypeOK, OnlyTheCard, OpenWhen
  <1>3. OpenWhen'
    BY DEF OpenWhen, OnlyTheCard, LockedWhen, Released
  <1>4. LockedWhen'
    BY DEF LockedWhen, Released, OpenWhen, OnlyTheCard
  <1>5. EjectedWhen'
    BY DEF EjectedWhen, Released, OpenWhen, OnlyTheCard, LockedWhen
  <1>6. ReadInOrder'
    BY DEF ReadInOrder, Disk
  <1> QED
    BY <1>1, <1>2, <1>3, <1>4, <1>5, <1>6

LEMMA MountInv == ASSUME IndInv, Mount PROVE IndInv'
  <1> USE WindowsAssumption DEF IndInv, Mount, Act, VolumesOf,
        handles, flags, reading, world, Open, Exclusive, Slot
  <1>1. TypeOK'
    BY DEF TypeOK, OnlyTheCard
  <1>2. OnlyTheCard'
    BY DEF TypeOK, OnlyTheCard, OpenWhen
  <1>3. OpenWhen'
    BY DEF OpenWhen, OnlyTheCard, LockedWhen, Released
  <1>4. LockedWhen'
    BY DEF LockedWhen, Released, OpenWhen, OnlyTheCard
  <1>5. EjectedWhen'
    BY DEF EjectedWhen, Released, OpenWhen, OnlyTheCard, LockedWhen
  <1>6. ReadInOrder'
    BY DEF ReadInOrder, Disk
  <1> QED
    BY <1>1, <1>2, <1>3, <1>4, <1>5, <1>6

LEMMA ForeignOpenInv == ASSUME IndInv, ForeignOpen PROVE IndInv'
  <1> USE WindowsAssumption DEF IndInv, ForeignOpen, Act,
        handles, flags, reading, world, Open, Exclusive, Slot
  <1>1. TypeOK'
    BY DEF TypeOK, OnlyTheCard
  <1>2. OnlyTheCard'
    BY DEF TypeOK, OnlyTheCard, OpenWhen
  <1>3. OpenWhen'
    BY DEF OpenWhen, OnlyTheCard, LockedWhen, Released
  <1>4. LockedWhen'
    BY DEF LockedWhen, Released, OpenWhen, OnlyTheCard
  <1>5. EjectedWhen'
    BY DEF EjectedWhen, Released, OpenWhen, OnlyTheCard, LockedWhen
  <1>6. ReadInOrder'
    BY DEF ReadInOrder, Disk
  <1> QED
    BY <1>1, <1>2, <1>3, <1>4, <1>5, <1>6

LEMMA ForeignCloseInv == ASSUME IndInv, ForeignClose PROVE IndInv'
  <1> USE WindowsAssumption DEF IndInv, ForeignClose, Act,
        handles, flags, reading, world, Open, Exclusive, Slot
  <1>1. TypeOK'
    <2>1. foreign' \in BOOLEAN
      BY Zenon
    <2>2. events' \in Nat
      BY DEF TypeOK
    <2> QED
      BY <2>1, <2>2, ZenonT(60) DEF TypeOK
  <1>2. OnlyTheCard'
    BY DEF TypeOK, OnlyTheCard, OpenWhen
  <1>3. OpenWhen'
    BY DEF OpenWhen, OnlyTheCard, LockedWhen, Released
  <1>4. LockedWhen'
    BY DEF LockedWhen, Released, OpenWhen, OnlyTheCard
  <1>5. EjectedWhen'
    BY DEF EjectedWhen, Released, OpenWhen, OnlyTheCard, LockedWhen
  <1>6. ReadInOrder'
    BY DEF ReadInOrder, Disk
  <1> QED
    BY <1>1, <1>2, <1>3, <1>4, <1>5, <1>6

-----------------------------------------------------------------------------
(* The system *)

LEMMA StutterInv == ASSUME IndInv, UNCHANGED vars PROVE IndInv'
  <1> USE DEF IndInv, vars, handles, flags, reading, world, Open, Exclusive
  <1>1. TypeOK'
    BY DEF TypeOK, Slot
  <1>2. OnlyTheCard' /\ OpenWhen'
    BY DEF OnlyTheCard, OpenWhen
  <1>3. LockedWhen' /\ EjectedWhen'
    BY DEF LockedWhen, EjectedWhen, Released
  <1>4. ReadInOrder'
    BY DEF ReadInOrder, Disk
  <1> QED
    BY <1>1, <1>2, <1>3, <1>4

LEMMA NextInv == IndInv /\ [Next]_vars => IndInv'
  <1> SUFFICES ASSUME IndInv, [Next]_vars PROVE IndInv'
    OBVIOUS
  <1>1. ASSUME Worker PROVE IndInv'
    BY <1>1,
       ValidateTargetInv, StartUnmountInv, PinDeviceInv, IdentifyPinnedInv,
       LockVolumeInv, LockFailsInv, AllLockedInv, TakeExclusiveInv,
       RollbackOfUnmountInv, RevalidateInv, OpenTargetInv, WriteInv,
       PrepareVerificationInv, ReopenUnbufferedInv, VerifyInv, DropTargetInv,
       EjectBeforeWriteInv, EjectAfterWriteInv, ProveExclusiveInv DEF Worker
  <1>2. ASSUME Environment PROVE IndInv'
    BY <1>2, UnplugInv, PlugInv, MountInv, ForeignOpenInv, ForeignCloseInv DEF Environment
  <1> QED
    BY <1>1, <1>2, StutterInv DEF Next

(* The Windows backend opens, writes and reads back the selected disk      *)
(* only, whichever disk gets its number, with its old volumes locked and   *)
(* unmounted, and the verifier hands out its bytes in order.               *)
THEOREM WindowsInvariant == Spec => []IndInv
  <1> QED
    BY InitInv, NextInv, PTL DEF Spec

(* No exclusive open of lock_and_dismount, the verifier or eject fails on  *)
(* a handle that the worker has left open itself.                          *)
THEOREM NeverSelfBlockedAlways == Spec => []NeverSelfBlocked
  <1>1. IndInv => NeverSelfBlocked
    BY DEF IndInv, OpenWhen, NeverSelfBlocked, Open, Exclusive
  <1> QED
    BY <1>1, WindowsInvariant, PTL

(* A successful eject after a write has proven that the written disk is    *)
(* the one behind the number, and that nothing has mounted it.             *)
THEOREM EjectProvesTheCardAlways == Spec => []EjectProvesTheCard
  <1>1. IndInv => EjectProvesTheCard
    BY DEF IndInv, EjectedWhen, EjectProvesTheCard
  <1> QED
    BY <1>1, WindowsInvariant, PTL

(* A job that wrote nothing, or ejected, leaves no handle and no lock.     *)
THEOREM BackToUserAlways == Spec => []BackToUser
  <1>1. IndInv => BackToUser
    BY DEF IndInv, LockedWhen, EjectedWhen, BackToUser
  <1> QED
    BY <1>1, WindowsInvariant, PTL
================================================================================
