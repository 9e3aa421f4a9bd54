----------------------------- MODULE WindowsTarget -----------------------------
(***************************************************************************)
(* The Windows worker backend, src/src/worker/windows.rs and the storage   *)
(* calls of src/src/windows_native.rs: locking and dismounting the volumes *)
(* of the selected disk, the exclusive handle that is kept from unmount to *)
(* the write, its replacement by an unbuffered one, rollback and eject.    *)
(*                                                                         *)
(* A physical-drive number stands for a device object.  A disk that is     *)
(* pulled keeps its number while a handle to its object is open; then the  *)
(* number may be given to another disk.  An exclusive (zero-share) open    *)
(* succeeds only when no other handle is open and nothing is mounted.      *)
(***************************************************************************)
EXTENDS AlignedReader, FiniteSets

CONSTANTS
  Disks,      \* device objects that take the drive number during a job
  Selected,   \* the one the job's fingerprint belongs to
  NoDisk,
  Volumes,    \* the volumes of a disk before it is written
  NewVolumes, \* the volumes of the partition table that is written
  Sector, Capacity, Buffer,
  MaxEvents   \* bound: what the environment does during one job

ASSUME WindowsAssumption ==
  /\ Selected \in Disks /\ NoDisk \notin Disks
  /\ Sector \in Nat \ {0} /\ Capacity \in Nat /\ Capacity % Sector = 0
  /\ Buffer \in Nat \ {0} /\ MaxEvents \in Nat

VARIABLES
  pc,
  pin,           \* device_pin of unmount, or the identity read from it
  prepared, postWritePin, openIdentity, rollbackSnapshot,
  locked,        \* locked_volumes, and the handles on the way to it
  held,          \* locked_volumes is Some
  volumesDismounted, writeMayHaveStarted,
  flashed,       \* run_after_unmount ejects, and not yet run_job after an error
  writer, verifier, \* WindowsTarget
  position, handed, \* UnbufferedVerifier; history: bytes handed out
  ejected        \* "none", or what the calls of eject returned: "ok" once

VARIABLES
  at, alive,     \* the object behind the number; whether its disk is there
  fresh,         \* disks that were not plugged in yet
  mounted,       \* volumes of the object with a mounted filesystem
  foreign,       \* another process has the disk open
  written,       \* disks that were written
  proven,        \* history: the disk eject had for itself after the write
  events

handles  == <<pin, prepared, postWritePin, writer, verifier>>
flags    == <<openIdentity, rollbackSnapshot, locked, held,
              volumesDismounted, writeMayHaveStarted>>
reading  == <<position, handed>>
world    == <<at, alive, fresh, mounted, foreign, written, proven, events>>
vars     == <<pc, handles, flags, reading, ejected, flashed, world>>

Slot  == Disks \cup {NoDisk}
Disk  == [i \in 1 .. Capacity |-> i]
Exclusive == {prepared, postWritePin, writer, verifier} \ {NoDisk}
Open  == Exclusive \cup ({pin} \ {NoDisk})
VolumesOf(disk) == IF disk \in written THEN NewVolumes ELSE Volumes

Init ==
  /\ pc = "validate"
  /\ pin = NoDisk /\ prepared = NoDisk /\ postWritePin = NoDisk
  /\ writer = NoDisk /\ verifier = NoDisk
  /\ openIdentity = NoDisk /\ rollbackSnapshot = NoDisk
  /\ locked = {} /\ held = FALSE
  /\ volumesDismounted = FALSE /\ writeMayHaveStarted = FALSE
  /\ position = 0 /\ handed = <<>> /\ ejected = "none" /\ flashed = FALSE
  /\ at = Selected /\ alive = TRUE /\ fresh = Disks \ {Selected}
  /\ mounted \in {{}, Volumes} /\ foreign \in BOOLEAN
  /\ written = {} /\ proven = NoDisk /\ events = 0

-----------------------------------------------------------------------------
(* Storage queries *)

(* query_disk and validate_snapshot: the fingerprint of the disk that      *)
(* Windows lists under the number.  Any of it may fail, also for a boot,   *)
(* system, offline or read-only disk or one that is no card.               *)
Validated == alive /\ at = Selected

(* query_open_disk and validate_open_identity on a handle. *)
SameObject(handle, expected) == handle # NoDisk /\ handle = expected

ExclusiveOpen(taken) == alive /\ taken = {} /\ ~foreign /\ mounted = {}

Goto(label) == pc' = label
Still == UNCHANGED <<reading, ejected, flashed, world>>

Validate(here, next, otherwise) ==
  /\ pc = here /\ Still /\ UNCHANGED <<handles, flags>>
  /\ \/ Validated /\ Goto(next)
     \/ Goto(otherwise)

-----------------------------------------------------------------------------
(* unmount *)

ValidateTarget == Validate("validate", "unmount", "done")

Unused ==
  prepared = NoDisk /\ ~volumesDismounted /\ ~writeMayHaveStarted /\ ~held

StartUnmount ==
  /\ Validate("unmount", "pin", "eject")
  /\ Unused \/ pc' = "eject"

PinDevice ==
  /\ pc = "pin" /\ Still /\ UNCHANGED flags
  /\ \/ /\ alive /\ Exclusive = {} /\ pin' = at /\ Goto("pinned")
     \/ pin' = NoDisk /\ Goto("eject")
  /\ UNCHANGED <<prepared, postWritePin, writer, verifier>>

(* The disk is identified again now that its object is pinned. *)
IdentifyPinned ==
  /\ pc = "pinned" /\ Still
  /\ UNCHANGED <<prepared, postWritePin, writer, verifier, openIdentity,
                 locked, held, volumesDismounted, writeMayHaveStarted>>
  /\ \/ Validated /\ rollbackSnapshot' = at /\ Goto("lock") /\ UNCHANGED pin
     \/ pin' = NoDisk /\ Goto("eject") /\ UNCHANGED rollbackSnapshot

(* lock_and_dismount_volumes, one volume at a time.  A volume in use, a    *)
(* spanned volume or an I/O error closes the handles of the others.        *)
LockVolume ==
  /\ pc = "lock" /\ alive
  /\ \E v \in VolumesOf(at) \ locked :
       locked' = locked \cup {v} /\ mounted' = mounted \ {v}
  /\ UNCHANGED <<pc, handles, openIdentity, rollbackSnapshot, held, volumesDismounted,
                 writeMayHaveStarted, reading, ejected, flashed, at, alive, fresh, foreign,
                 written, proven, events>>

LockFails ==
  /\ pc = "lock" /\ Still
  /\ locked' = {} /\ openIdentity' = NoDisk /\ rollbackSnapshot' = NoDisk
  /\ pin' = NoDisk /\ Goto("eject")
  /\ UNCHANGED <<prepared, postWritePin, writer, verifier, held,
                 volumesDismounted, writeMayHaveStarted>>

DropPin_Kept == UNCHANGED pin

DropPin == pin' = NoDisk

(* A disk that was pulled has no volumes to list.  The pin is closed, or   *)
(* the exclusive open that follows would fail.               *)
AllLocked ==
  /\ pc = "lock" /\ Still /\ (alive => VolumesOf(at) \subseteq locked)
  /\ held' = TRUE /\ volumesDismounted' = TRUE
  /\ DropPin /\ Goto("exclusive")
  /\ UNCHANGED <<prepared, postWritePin, writer, verifier, openIdentity,
                 rollbackSnapshot, locked, writeMayHaveStarted>>

Prepared_ByPath == at

(* What the exclusive handle has to be: the object that was pinned.        *)
Prepared == rollbackSnapshot

(* The pinned identity is a local of unmount; the snapshot names it too. *)
TakeExclusive ==
  /\ pc = "exclusive" /\ Still
  /\ \/ /\ ExclusiveOpen(Open) /\ SameObject(at, Prepared)
        /\ prepared' = at /\ openIdentity' = at /\ Goto("revalidate")
        /\ UNCHANGED <<pin, postWritePin, writer, verifier, rollbackSnapshot,
                       locked, held, volumesDismounted, writeMayHaveStarted>>
     \/ Goto("rollback") /\ UNCHANGED <<handles, flags>>

ReleaseLocks_HeldOnly == held' = FALSE /\ UNCHANGED locked

ReleaseLocks == locked' = {} /\ held' = FALSE

(* rollback_unmount: everything is closed first, whatever comes of it.     *)
RollbackUnmount(next) ==
  /\ prepared' = NoDisk /\ postWritePin' = NoDisk /\ ReleaseLocks
  /\ UNCHANGED <<pin, writer, verifier, writeMayHaveStarted, flashed, reading, world>>
  /\ Goto(next)
  /\ \/ /\ rollbackSnapshot # NoDisk /\ Validated /\ SameObject(at, rollbackSnapshot)
        /\ rollbackSnapshot' = NoDisk /\ openIdentity' = NoDisk
        /\ volumesDismounted' = FALSE
        /\ ejected' = IF next = "done" THEN "ok" ELSE ejected
     \/ /\ UNCHANGED <<rollbackSnapshot, openIdentity, volumesDismounted>>
        /\ ejected' = IF next = "done" THEN "failed" ELSE ejected

RollbackOfUnmount == pc = "rollback" /\ RollbackUnmount("eject")

-----------------------------------------------------------------------------
(* open_target, write, prepare_verification *)

(* run_after_unmount validates the target once more. *)
Revalidate == Validate("revalidate", "open", "eject")

(* The handle prepared by unmount becomes the writer, and a clone of it    *)
(* the pin; on an error it is closed.                                      *)
OpenTarget ==
  /\ pc = "open" /\ Still /\ volumesDismounted
  /\ prepared' = NoDisk
  /\ UNCHANGED <<pin, verifier, openIdentity, locked, held, volumesDismounted>>
  /\ \/ /\ SameObject(prepared, openIdentity)
        /\ writer' = prepared /\ postWritePin' = prepared
        /\ writeMayHaveStarted' = TRUE /\ rollbackSnapshot' = NoDisk
        /\ Goto("write")
     \/ /\ Goto("eject")
        /\ UNCHANGED <<writer, postWritePin, writeMayHaveStarted, rollbackSnapshot>>

Write ==
  /\ pc = "write" /\ UNCHANGED <<handles, flags, reading, ejected, flashed>>
  /\ \/ /\ alive /\ writer = at
        /\ written' = written \cup {writer} /\ proven' = NoDisk
        /\ pc' \in {"write", "flush", "drop"}
        /\ UNCHANGED <<at, alive, fresh, mounted, foreign, events>>
     \/ Goto("drop") /\ UNCHANGED world

CloseClones_WriterOnly == writer' = NoDisk /\ UNCHANGED postWritePin

CloseClones == postWritePin' = NoDisk /\ writer' = NoDisk

(* The identity of the open writer is checked and its bytes are flushed;   *)
(* then every clone of the zero-share handle is closed.                    *)
PrepareVerification ==
  /\ pc = "flush" /\ Still /\ UNCHANGED <<flags, pin, prepared, verifier>>
  /\ \/ SameObject(writer, openIdentity) /\ CloseClones /\ Goto("reopen")
     \/ Goto("drop") /\ UNCHANGED <<postWritePin, writer>>
     \/ Goto("drop") /\ postWritePin' = NoDisk /\ UNCHANGED writer

(* begin_verification, and the pin of the reader. *)
ReopenUnbuffered ==
  /\ pc = "reopen" /\ Still /\ UNCHANGED <<flags, pin, prepared, writer>>
  /\ \/ /\ ExclusiveOpen(Open) /\ SameObject(at, openIdentity)
        /\ verifier' = at
        /\ \/ postWritePin' = at /\ Goto("read")
           \/ UNCHANGED postWritePin /\ Goto("drop")
     \/ Goto("drop") /\ UNCHANGED <<verifier, postWritePin>>

(* UnbufferedVerifier.read; a transfer past the end of the disk, or one    *)
(* that is no whole number of sectors, is an error.                        *)
Verify ==
  /\ pc = "read" /\ UNCHANGED <<handles, flags, ejected, flashed, world>>
  /\ \/ /\ alive /\ position < Capacity /\ UNCHANGED pc
        /\ \E output \in 1 .. Buffer :
           \E count \in 1 .. AlignedLength(position, Capacity, Sector, output) :
             LET bytes == Slice(Disk, position, Sector, output, count) IN
             /\ bytes # <<>>
             /\ position' = position + Len(bytes) /\ handed' = handed \o bytes
     \/ Goto("drop") /\ UNCHANGED reading

(* run_after_unmount syncs and drops the target before every eject. *)
DropTarget ==
  /\ pc = "drop" /\ UNCHANGED <<flags, reading, ejected, world>>
  /\ flashed' \in BOOLEAN /\ writer' = NoDisk /\ verifier' = NoDisk /\ Goto("eject")
  /\ UNCHANGED <<pin, prepared, postWritePin>>

-----------------------------------------------------------------------------
(* eject *)

(* run_job ejects once more when the eject of run_after_unmount fails, or  *)
(* the record of success that comes after it.                              *)
Ends(how) ==
  /\ ejected' = IF ejected = "ok" THEN "ok" ELSE how
  /\ \/ flashed /\ pc' = "eject" /\ flashed' = FALSE
     \/ (flashed => how = "ok") /\ pc' = "done" /\ UNCHANGED flashed

EjectBeforeWrite ==
  /\ pc = "eject" /\ ~writeMayHaveStarted
  /\ \/ volumesDismounted /\ RollbackUnmount("done")
     \/ /\ ~volumesDismounted /\ Ends("ok")
        /\ UNCHANGED <<handles, flags, reading, world>>

EjectAfterWrite ==
  /\ pc = "eject" /\ writeMayHaveStarted
  /\ prepared' = NoDisk /\ UNCHANGED <<pin, writer, verifier, flags, reading, world>>
  /\ \/ /\ SameObject(postWritePin, openIdentity)
        /\ postWritePin' = NoDisk
        /\ IF held THEN Goto("proof") /\ UNCHANGED <<ejected, flashed>> ELSE Ends("failed")
     \/ UNCHANGED postWritePin /\ Ends("failed")

IsTheCard_ByPath(disk) == disk # NoDisk

IsTheCard(disk) == SameObject(disk, openIdentity)

(* The exclusive handle proves that nothing has mounted the new volumes;   *)
(* it is synced and closed, and the volume locks are released.             *)
ProveExclusive ==
  /\ pc = "proof" /\ UNCHANGED <<handles, reading>>
  /\ UNCHANGED <<at, alive, fresh, mounted, foreign, written, events>>
  /\ \/ /\ ExclusiveOpen(Open) /\ IsTheCard(at)
        /\ proven' = at /\ Ends("ok")
        /\ ReleaseLocks
        /\ volumesDismounted' = TRUE /\ writeMayHaveStarted' = TRUE
        /\ UNCHANGED <<openIdentity, rollbackSnapshot>>
     \/ Ends("failed") /\ UNCHANGED <<flags, proven>>

Worker ==
  \/ ValidateTarget \/ StartUnmount \/ PinDevice \/ IdentifyPinned \/ LockVolume
  \/ LockFails \/ AllLocked \/ TakeExclusive \/ RollbackOfUnmount \/ Revalidate
  \/ OpenTarget \/ Write \/ PrepareVerification \/ ReopenUnbuffered \/ Verify
  \/ DropTarget \/ EjectBeforeWrite \/ EjectAfterWrite \/ ProveExclusive

-----------------------------------------------------------------------------
(* The environment *)

Act ==
  /\ events < MaxEvents /\ pc # "done" /\ events' = events + 1
  /\ UNCHANGED <<pc, handles, flags, reading, ejected, flashed, written, proven>>

Unplug == alive /\ Act /\ alive' = FALSE /\ mounted' = {} /\ UNCHANGED <<at, fresh, foreign>>

(* The number is free once the last handle to the old object is closed.    *)
Plug ==
  /\ ~alive /\ Open = {} /\ ~foreign /\ Act
  /\ \E disk \in fresh : at' = disk /\ fresh' = fresh \ {disk}
  /\ alive' = TRUE /\ UNCHANGED <<mounted, foreign>>

Mount ==
  /\ alive /\ Exclusive = {} /\ Act
  /\ \E v \in VolumesOf(at) \ (mounted \cup locked) : mounted' = mounted \cup {v}
  /\ UNCHANGED <<at, alive, fresh, foreign>>

ForeignOpen ==
  /\ alive /\ ~foreign /\ Exclusive = {} /\ Act
  /\ foreign' = TRUE /\ UNCHANGED <<at, alive, fresh, mounted>>

ForeignClose == foreign /\ Act /\ foreign' = FALSE /\ UNCHANGED <<at, alive, fresh, mounted>>

Environment == Unplug \/ Plug \/ Mount \/ ForeignOpen \/ ForeignClose

Next == Worker \/ Environment

Spec == Init /\ [][Next]_vars

-----------------------------------------------------------------------------
(* Properties *)

TypeOK ==
  /\ pc \in {"validate", "unmount", "pin", "pinned", "lock", "exclusive", "rollback",
             "revalidate", "open", "write", "flush", "reopen", "read", "drop",
             "eject", "proof", "done"}
  /\ {pin, prepared, postWritePin, writer, verifier, openIdentity,
      rollbackSnapshot, at, proven} \subseteq Slot
  /\ locked \subseteq Volumes \cup NewVolumes /\ mounted \subseteq Volumes \cup NewVolumes
  /\ held \in BOOLEAN /\ volumesDismounted \in BOOLEAN /\ writeMayHaveStarted \in BOOLEAN
  /\ flashed \in BOOLEAN /\ alive \in BOOLEAN /\ foreign \in BOOLEAN
  /\ position \in Nat /\ handed \in Seq(Nat) /\ ejected \in {"none", "ok", "failed"}
  /\ fresh \subseteq Disks /\ written \subseteq Disks /\ events \in Nat

(* The number of the drive leads to another disk only while no handle of   *)
(* ours is open, and only the selected disk is ever opened or written.     *)
OnlyTheCard ==
  /\ at \in Disks /\ Selected \notin fresh
  /\ Open \subseteq {at}
  /\ {prepared, postWritePin, writer, verifier, openIdentity,
      rollbackSnapshot} \subseteq {NoDisk, Selected}
  /\ pc = "lock" => pin = Selected
  /\ written \subseteq {Selected}
  /\ written # {} \/ postWritePin # NoDisk => writeMayHaveStarted

(* Which handle is open at which point. *)
OpenWhen ==
  /\ pin # NoDisk <=> pc \in {"pinned", "lock"}
  /\ prepared # NoDisk => pc \in {"revalidate", "open", "eject"}
  /\ writer # NoDisk => pc \in {"write", "flush", "drop"}
  /\ verifier # NoDisk => pc \in {"read", "drop"}
  /\ postWritePin # NoDisk => pc \in {"write", "flush", "read", "drop", "eject", "done"}
  /\ pc \in {"write", "flush", "reopen", "read", "drop", "proof"} => writeMayHaveStarted

Released == Open = {} /\ locked = {} /\ ~held

(* The locks of the old volumes are held, and nothing is mounted, for as   *)
(* long as the disk is open; they are gone when the job has let it go.     *)
LockedWhen ==
  /\ pc \in {"exclusive", "rollback", "revalidate", "open", "write", "flush", "reopen",
            "read", "drop", "proof"} => held /\ volumesDismounted
  /\ Exclusive # {} => mounted = {}
  /\ pc \in {"validate", "unmount", "pin", "pinned", "lock"} =>
       ~held /\ ~volumesDismounted
  /\ pc \in {"validate", "unmount", "pin", "pinned", "lock", "exclusive", "rollback",
            "revalidate", "open"} => ~writeMayHaveStarted
  /\ pc \in {"validate", "unmount", "pin", "pinned"} => locked = {}
  /\ pc \in {"eject", "done"} /\ ~volumesDismounted => Released /\ ~writeMayHaveStarted
  /\ pc = "done" /\ ~writeMayHaveStarted => Released

(* What a successful eject stands for. *)
EjectedWhen ==
  /\ ejected # "none" => pc \in {"eject", "proof", "done"}
  /\ ejected = "ok" => pc # "proof" /\ Released
  /\ ejected = "ok" /\ written # {} => proven = Selected

(* The verifier hands out the bytes of the disk in order. *)
ReadInOrder == position <= Capacity /\ handed = SubSeq(Disk, 1, position)

(* Nothing but the selected disk is opened for writing, written or read    *)
(* back, its old volumes stay locked and unmounted meanwhile, and the      *)
(* verifier hands out its bytes in order.                                  *)
IndInv == TypeOK /\ OnlyTheCard /\ OpenWhen /\ LockedWhen /\ EjectedWhen /\ ReadInOrder

(* No exclusive open of the worker is refused because of a handle that the *)
(* worker itself has forgotten to close.                                   *)
NeverSelfBlocked == pc \in {"exclusive", "reopen", "proof"} => Open = {}

(* When eject reports success after a write, the worker has had the        *)
(* written disk for itself after the last write: no volume of the new      *)
(* partition table was mounted, and it was not another disk that got the   *)
(* number in the meantime.                                                 *)
EjectProvesTheCard == ejected = "ok" /\ written # {} => proven = Selected

(* However a job ends, the card is given back: without a write, or after a *)
(* successful eject, no handle and no volume lock is left.                 *)
BackToUser ==
  pc = "done" /\ (~writeMayHaveStarted \/ ejected = "ok") => Released
=============================================================================
