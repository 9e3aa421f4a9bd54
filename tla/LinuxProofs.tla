------------------------------ MODULE LinuxProofs ------------------------------
(***************************************************************************)
(* What LinuxTarget promises, for any media, partitions and mappings, any  *)
(* sector and buffer size, and however often the environment interferes.   *)
(***************************************************************************)
EXTENDS LinuxTarget, AlignedReaderProofs, FiniteSetTheorems

-----------------------------------------------------------------------------
(* sysfs *)

(* Every device related to the card is its own or above one that is. *)
LEMMA RelatedDevices == Own \subseteq Related /\ Related \subseteq Own \cup Maps
  BY DEF Related

LEMMA RelatedClosed ==
  ASSUME NEW d \in Related, NEW h \in Maps, <<d, h>> \in stack
  PROVE  h \in Related
  <1>1. h \in Lower(d)
    BY DEF Lower
  <1>2. ASSUME NEW set \in SUBSET Maps, \A e \in Own \cup set : Lower(e) \subseteq set
        PROVE  h \in set
    <2>1. d \in Own \cup set
      BY <1>2 DEF Related
    <2> QED
      BY <1>1, <1>2, <2>1
  <1> QED
    BY <1>2 DEF Related

(* Related is the least set that is closed under holders. *)
LEMMA RelatedLeast ==
  ASSUME NEW set \in SUBSET Maps, \A e \in Own \cup set : Lower(e) \subseteq set
  PROVE  Related \subseteq Own \cup set
  BY DEF Related

LEMMA SameStack == ASSUME UNCHANGED stack PROVE Related' = Related
  BY DEF Related, Lower

(* A mapping that is closed, or a card that is pulled, relates nothing new. *)
LEMMA ClosingRelatesNothing ==
  ASSUME stack' \subseteq stack
  PROVE  Related' \subseteq Related
  <1> DEFINE set == Related \cap Maps
  <1>1. \A e \in Own \cup set : \A h \in Maps : <<e, h>> \in stack' => h \in set
    BY RelatedDevices, RelatedClosed
  <1>2. ASSUME NEW e \in Own \cup set PROVE Lower(e)' \subseteq set
    BY <1>1 DEF Lower
  <1> HIDE DEF set
  <1>3. set \in SUBSET Maps
    BY DEF set
  <1>4. Related' \subseteq Own \cup set
    BY <1>2, <1>3 DEF Related
  <1> QED
    BY <1>4, RelatedDevices DEF set

(* A mapping that is opened relates itself, if anything. *)
LEMMA OpeningRelatesItself ==
  ASSUME Placed, NEW d, NEW h \in Maps, d # h, ~ Present(h), h \in Devices,
         stack' = stack \cup {<<d, h>>}, stack \subseteq Devices \X Maps
  PROVE  Related' \subseteq Related \cup {h}
  <1> DEFINE set == (Related \cap Maps) \cup {h}
  <1>1. \A x : <<h, x>> \notin stack'
    BY DEF Placed
  <1>2. \A e \in Own \cup set : \A x \in Maps : <<e, x>> \in stack' => x \in set
    <2> TAKE e \in Own \cup set
    <2> TAKE x \in Maps
    <2> HAVE <<e, x>> \in stack'
    <2>1. e # h
      BY <1>1
    <2>2. e \in Related
      BY <2>1, RelatedDevices
    <2>3. <<e, x>> \in stack \/ x = h
      OBVIOUS
    <2> QED
      BY <2>2, <2>3, RelatedClosed
  <1>3. ASSUME NEW e \in Own \cup set PROVE Lower(e)' \subseteq set
    BY <1>2 DEF Lower
  <1> HIDE DEF set
  <1>4. set \in SUBSET Maps
    BY DEF set
  <1>5. Related' \subseteq Own \cup set
    BY <1>3, <1>4 DEF Related
  <1> QED
    BY <1>5, RelatedDevices DEF set

(* What is written and what is known of the running system.                *)
Safe == TypeOK /\ OnlyTheMedium /\ Placed /\ SystemSeen

LEMMA SamePlaced == ASSUME Placed, UNCHANGED <<slot, stack, mounts, swaps>> PROVE Placed'
  BY DEF Placed, Present

-----------------------------------------------------------------------------
(* Steps of the worker that look, wait or open *)

(* A step that fails leaves the world alone. *)
Failed == Fails /\ UNCHANGED world

LEMMA FailsInv ==
  ASSUME Safe, Fails, UNCHANGED world, since' \subseteq Since
  PROVE  Safe'
  <1> USE DEF Safe, Fails, Fail, End, Cleanup, world
  <1>1. TypeOK'
    BY LinuxAssumption DEF TypeOK
  <1>2. OnlyTheMedium'
    BY LinuxAssumption DEF TypeOK, OnlyTheMedium, Validating, Vouched
  <1>3. Placed'
    BY SamePlaced
  <1>4. SystemSeen'
    BY SameStack DEF SystemSeen, HoldsSystem, SystemMounts
  <1> QED
    BY <1>1, <1>2, <1>3, <1>4

LEMMA InspectInv == ASSUME Safe, Inspect, ~ Failed PROVE Safe'
  <1> USE DEF Failed, Safe, Inspect, Goto, Validate, End, Quiet, Still, worker, world
  <1>1. UNCHANGED world /\ Related' = Related
    BY SameStack
  <1>2. TypeOK'
    BY RelatedDevices, ZenonT(60) DEF TypeOK, Since, Own, Devices
  <1>3. OnlyTheMedium'
    BY LinuxAssumption DEF TypeOK, OnlyTheMedium, Validating, Vouched
  <1>4. Placed'
    BY SamePlaced
  <1>5. SystemSeen'
    BY <1>1 DEF SystemSeen, HoldsSystem, SystemMounts, Placed
  <1> QED
    BY <1>2, <1>3, <1>4, <1>5

LEMMA CollectInv == ASSUME Safe, Collect, ~ Failed PROVE Safe'
  <1> USE DEF Failed, Safe, Collect, Goto, Validate, End, Quiet, Still, worker, world
  <1>1. UNCHANGED world /\ Related' = Related
    BY SameStack
  <1>2. TypeOK'
    BY RelatedDevices DEF TypeOK, Since, Own, Devices
  <1>3. OnlyTheMedium'
    BY LinuxAssumption DEF TypeOK, OnlyTheMedium, Validating, Vouched
  <1>4. Placed'
    BY SamePlaced
  <1>5. SystemSeen'
    BY <1>1 DEF SystemSeen, HoldsSystem, SystemMounts, Placed
  <1> QED
    BY <1>2, <1>3, <1>4, <1>5

LEMMA RejectProtectedMountsInv == ASSUME Safe, RejectProtectedMounts, ~ Failed PROVE Safe'
  <1> USE DEF Failed, Safe, RejectProtectedMounts,
        Goto, Validate, End, Quiet, Still, worker, world
  <1>1. UNCHANGED world /\ Related' = Related
    BY SameStack
  <1>2. TypeOK'
    BY RelatedDevices DEF TypeOK, Since, Own, Devices
  <1>3. OnlyTheMedium'
    BY LinuxAssumption DEF TypeOK, OnlyTheMedium, Validating, Vouched
  <1>4. Placed'
    BY SamePlaced
  <1>5. SystemSeen'
    BY <1>1 DEF SystemSeen, HoldsSystem, SystemMounts, Placed
  <1> QED
    BY <1>2, <1>3, <1>4, <1>5

LEMMA RejectRelatedSwapInv == ASSUME Safe, RejectRelatedSwap, ~ Failed PROVE Safe'
  <1> USE DEF Failed, Safe, RejectRelatedSwap,
        Goto, Validate, End, Quiet, Still, worker, world
  <1>1. UNCHANGED world /\ Related' = Related
    BY SameStack
  <1>2. TypeOK'
    BY RelatedDevices, ZenonT(60) DEF TypeOK, Since, Own, Devices
  <1>3. OnlyTheMedium'
    BY LinuxAssumption DEF TypeOK, OnlyTheMedium, Validating, Vouched
  <1>4. Placed'
    BY SamePlaced
  <1>5. SystemSeen'
    <2>1. /\ pc = "swaps" /\ UNCHANGED <<fd, mounts, swaps>> /\ swaps \cap checked = {}
          /\ pc' \notin {"mounts", "swaps"}
      BY DEF TypeOK
    <2>2. \A d \in swaps : d \notin Related
      BY <2>1 DEF SystemSeen
    <2>3. SystemMounts' = SystemMounts /\ HoldsSystem' = HoldsSystem
      BY <1>1, <2>1 DEF SystemMounts, HoldsSystem
    <2> HIDE DEF RejectRelatedSwap
    <2> QED
      BY <1>1, <2>1, <2>2, <2>3 DEF SystemSeen
  <1> QED
    BY <1>2, <1>3, <1>4, <1>5

LEMMA ValidatedInv == ASSUME Safe, Validated, ~ Failed PROVE Safe'
  <1> USE DEF Failed, Safe, Validated, Goto, Validate, End, Quiet, Still, worker, world
  <1>1. UNCHANGED world /\ Related' = Related
    BY SameStack
  <1>2. TypeOK'
    BY RelatedDevices DEF TypeOK, Since, Own, Devices
  <1>3. OnlyTheMedium'
    BY LinuxAssumption DEF TypeOK, OnlyTheMedium, Validating, Vouched
  <1>4. Placed'
    BY SamePlaced
  <1>5. SystemSeen'
    BY <1>1 DEF SystemSeen, HoldsSystem, SystemMounts, Placed
  <1> QED
    BY <1>2, <1>3, <1>4, <1>5

LEMMA CollectForUnmountInv == ASSUME Safe, CollectForUnmount, ~ Failed PROVE Safe'
  <1> USE DEF Failed, Safe, CollectForUnmount,
        Goto, Validate, End, Quiet, Still, worker, world
  <1>1. UNCHANGED world /\ Related' = Related
    BY SameStack
  <1>2. TypeOK'
    BY RelatedDevices DEF TypeOK, Since, Own, Devices
  <1>3. OnlyTheMedium'
    BY LinuxAssumption DEF TypeOK, OnlyTheMedium, Validating, Vouched
  <1>4. Placed'
    BY SamePlaced
  <1>5. SystemSeen'
    BY <1>1 DEF SystemSeen, HoldsSystem, SystemMounts, Placed
  <1> QED
    BY <1>2, <1>3, <1>4, <1>5

LEMMA ReadMountsInv == ASSUME Safe, ReadMounts, ~ Failed PROVE Safe'
  <1> USE DEF Failed, Safe, ReadMounts, Goto, Validate, End, Quiet, Still, worker, world
  <1>1. UNCHANGED world /\ Related' = Related
    BY SameStack
  <1>2. TypeOK'
    BY RelatedDevices DEF TypeOK, Since, Own, Devices
  <1>3. OnlyTheMedium'
    BY LinuxAssumption DEF TypeOK, OnlyTheMedium, Validating, Vouched
  <1>4. Placed'
    BY SamePlaced
  <1>5. SystemSeen'
    BY <1>1 DEF SystemSeen, HoldsSystem, SystemMounts, Placed
  <1> QED
    BY <1>2, <1>3, <1>4, <1>5

LEMMA RemainingInv == ASSUME Safe, Remaining, ~ Failed PROVE Safe'
  <1> USE DEF Failed, Safe, Remaining, Goto, Validate, End, Quiet, Still, worker, world
  <1>1. UNCHANGED world /\ Related' = Related
    BY SameStack
  <1>2. TypeOK'
    BY RelatedDevices DEF TypeOK, Since, Own, Devices
  <1>3. OnlyTheMedium'
    BY LinuxAssumption DEF TypeOK, OnlyTheMedium, Validating, Vouched
  <1>4. Placed'
    BY SamePlaced
  <1>5. SystemSeen'
    BY <1>1 DEF SystemSeen, HoldsSystem, SystemMounts, Placed
  <1> QED
    BY <1>2, <1>3, <1>4, <1>5

LEMMA RevalidatedInv == ASSUME Safe, Revalidated, ~ Failed PROVE Safe'
  <1> USE DEF Failed, Safe, Revalidated, Goto, Validate, End, Quiet, Still, worker, world
  <1>1. UNCHANGED world /\ Related' = Related
    BY SameStack
  <1>2. TypeOK'
    BY RelatedDevices DEF TypeOK, Since, Own, Devices
  <1>3. OnlyTheMedium'
    BY LinuxAssumption DEF TypeOK, OnlyTheMedium, Validating, Vouched
  <1>4. Placed'
    BY SamePlaced
  <1>5. SystemSeen'
    BY <1>1 DEF SystemSeen, HoldsSystem, SystemMounts, Placed
  <1> QED
    BY <1>2, <1>3, <1>4, <1>5

LEMMA OpenTargetInv == ASSUME Safe, OpenTarget, ~ Failed PROVE Safe'
  <1> USE DEF Failed, Safe, OpenTarget, OpenDevice, Claimed,
        Goto, Validate, End, Quiet, Still, worker, world
  <1>1. UNCHANGED world /\ Related' = Related
    BY SameStack
  <1>2. TypeOK'
    BY RelatedDevices DEF TypeOK, Since, Own, Devices
  <1>3. OnlyTheMedium'
    BY LinuxAssumption DEF TypeOK, OnlyTheMedium, Validating, Vouched
  <1>4. Placed'
    BY SamePlaced
  <1>5. SystemSeen'
    BY <1>1 DEF SystemSeen, HoldsSystem, SystemMounts, Placed
  <1> QED
    BY <1>2, <1>3, <1>4, <1>5

LEMMA CloseWriterInv == ASSUME Safe, CloseWriter, ~ Failed PROVE Safe'
  <1> USE DEF Failed, Safe, CloseWriter, Goto, Validate, End, Quiet, Still, worker, world
  <1>1. UNCHANGED world /\ Related' = Related
    BY SameStack
  <1>2. TypeOK'
    BY RelatedDevices DEF TypeOK, Since, Own, Devices
  <1>3. OnlyTheMedium'
    BY LinuxAssumption DEF TypeOK, OnlyTheMedium, Validating, Vouched
  <1>4. Placed'
    BY SamePlaced
  <1>5. SystemSeen'
    BY <1>1 DEF SystemSeen, HoldsSystem, SystemMounts, Placed
  <1> QED
    BY <1>2, <1>3, <1>4, <1>5

LEMMA ReopenDirectInv == ASSUME Safe, ReopenDirect, ~ Failed PROVE Safe'
  <1> USE DEF Failed, Safe, ReopenDirect, OpenDevice, Claimed,
        Goto, Validate, End, Quiet, Still, worker, world
  <1>1. UNCHANGED world /\ Related' = Related
    BY SameStack
  <1>2. TypeOK'
    BY RelatedDevices DEF TypeOK, Since, Own, Devices
  <1>3. OnlyTheMedium'
    BY LinuxAssumption DEF TypeOK, OnlyTheMedium, Validating, Vouched
  <1>4. Placed'
    BY SamePlaced
  <1>5. SystemSeen'
    BY <1>1 DEF SystemSeen, HoldsSystem, SystemMounts, Placed
  <1> QED
    BY <1>2, <1>3, <1>4, <1>5

LEMMA DropTargetInv == ASSUME Safe, DropTarget, ~ Failed PROVE Safe'
  <1> USE DEF Failed, Safe, DropTarget, Goto, Validate, End, Quiet, Still, worker, world
  <1>1. UNCHANGED world /\ Related' = Related
    BY SameStack
  <1>2. TypeOK'
    BY RelatedDevices DEF TypeOK, Since, Own, Devices
  <1>3. OnlyTheMedium'
    BY LinuxAssumption DEF TypeOK, OnlyTheMedium, Validating, Vouched
  <1>4. Placed'
    BY SamePlaced
  <1>5. SystemSeen'
    BY <1>1 DEF SystemSeen, HoldsSystem, SystemMounts, Placed
  <1> QED
    BY <1>2, <1>3, <1>4, <1>5

LEMMA FindDriveInv == ASSUME Safe, FindDrive, ~ Failed PROVE Safe'
  <1> USE DEF Failed, Safe, FindDrive, Goto, Validate, End, Quiet, Still, worker, world
  <1>1. UNCHANGED world /\ Related' = Related
    BY SameStack
  <1>2. TypeOK'
    BY RelatedDevices DEF TypeOK, Since, Own, Devices
  <1>3. OnlyTheMedium'
    BY LinuxAssumption DEF TypeOK, OnlyTheMedium, Validating, Vouched
  <1>4. Placed'
    BY SamePlaced
  <1>5. SystemSeen'
    BY <1>1 DEF SystemSeen, HoldsSystem, SystemMounts, Placed
  <1> QED
    BY <1>2, <1>3, <1>4, <1>5

-----------------------------------------------------------------------------
(* Steps of the worker that write, read, unmount or detach *)

LEMMA WriteInv == ASSUME Safe, Write, ~ Failed PROVE Safe'
  <1> USE DEF Safe
  <1>0. /\ pc = "write" /\ written' = written \cup {fd}
        /\ \/ pc' = "inspect" /\ ret' = "close"
           \/ pc' = "drop" /\ ret' = ret
        /\ UNCHANGED <<ejecting, flashed, result, checked, related, todo, fd, position,
                       handed, slot, fresh, stack, mounts, swaps, events, since>>
    BY DEF Write, Goto, Validate, Quiet, Failed, Still, world
  <1> USE <1>0
  <1>1. Related' = Related
    BY SameStack
  <1>2. TypeOK'
    <2>1. written' \subseteq Media
      BY LinuxAssumption DEF TypeOK, OnlyTheMedium, Vouched
    <2> QED
      BY <2>1 DEF TypeOK
  <1>3. OnlyTheMedium'
    BY LinuxAssumption DEF TypeOK, OnlyTheMedium, Validating, Vouched
  <1>4. Placed'
    BY SamePlaced
  <1>5. SystemSeen'
    BY <1>1 DEF SystemSeen, HoldsSystem, SystemMounts
  <1> QED
    BY <1>2, <1>3, <1>4, <1>5

(* A read appends what ReadsOn says, or nothing. *)
LEMMA VerifyReads ==
  ASSUME Safe, VerifierIsExact, Verify
  PROVE  /\ position' \in Nat /\ handed' \in Seq(Nat) /\ VerifierIsExact'
         /\ \/ UNCHANGED <<position, handed>> /\ (Fails \/ Goto("drop"))
            \/ position < position' /\ position' <= Capacity
  <1>1. Disk \in Seq(Nat) /\ Len(Disk) = Capacity /\ Disk' = Disk
    BY LinuxAssumption DEF Disk
  <1>2. position \in Nat /\ handed \in Seq(Nat) /\ handed = SubSeq(Disk, 1, position)
    BY DEF Safe, TypeOK, VerifierIsExact
  <1>3. CASE Fails \/ (Goto("drop") /\ Quiet)
    BY <1>1, <1>2, <1>3 DEF VerifierIsExact, Fails, Quiet
  <1>4. CASE ~ Fails /\ ~ (Goto("drop") /\ Quiet)
    <2>1. position < Capacity
      BY <1>4 DEF Verify
    <2>2. PICK output \in 1 .. Buffer :
            \E count \in 1 .. AlignedLength(position, Capacity, Sector, output) :
              LET bytes == Slice(Disk, position, Sector, output, count) IN
              bytes # <<>> /\ position' = position + Len(bytes) /\ handed' = handed \o bytes
      BY <1>4 DEF Verify
    <2>3. PICK count \in 1 .. AlignedLength(position, Capacity, Sector, output) :
            LET bytes == Slice(Disk, position, Sector, output, count) IN
            bytes # <<>> /\ position' = position + Len(bytes) /\ handed' = handed \o bytes
      BY <2>2
    <2>4. /\ position <= Len(Disk) /\ output \in Nat /\ count \in Nat
          /\ Sector \in Nat \ {0}
      BY <1>1, <1>2, <2>1, LinuxAssumption
    <2> DEFINE bytes == Slice(Disk, position, Sector, output, count)
    <2>5. bytes # <<>> /\ position' = position + Len(bytes) /\ handed' = handed \o bytes
      BY <2>3
    <2>6. Returned(Disk, position, Sector, output, count)
      BY <1>1, <1>2, <2>4, <2>5 DEF Returned
    <2>7. Continues(Disk, position, bytes)
      BY <2>6, ReadsOn
    <2> HIDE DEF bytes
    <2>8. /\ position' \in Nat /\ position' <= Len(Disk)
          /\ position < position' /\ handed' = SubSeq(Disk, 1, position')
      BY <1>2, <2>5, <2>7 DEF Continues
    <2>9. SubSeq(Disk, 1, position') \in Seq(Nat)
      BY <1>1, <2>8, PrefixIsSeq
    <2> QED
      BY <1>1, <2>8, <2>9 DEF VerifierIsExact
  <1> QED
    BY <1>3, <1>4

LEMMA VerifyInv ==
  ASSUME Safe, Verify, ~ Failed, position' \in Nat, handed' \in Seq(Nat)
  PROVE  Safe'
  <1>1. /\ UNCHANGED <<ret, ejecting, flashed, result, checked, related, todo, fd, world, since>>
        /\ pc = "read" /\ pc' \in {"read", "drop"}
    BY DEF Verify, Goto, Quiet, Still, Failed, world
  <1> USE <1>1 DEF Safe, world
  <1>2. Related' = Related
    BY SameStack
  <1>3. TypeOK'
    BY DEF TypeOK
  <1>4. OnlyTheMedium'
    BY DEF OnlyTheMedium, Validating, Vouched
  <1>5. Placed'
    BY SamePlaced
  <1>6. SystemSeen'
    BY <1>2 DEF SystemSeen, HoldsSystem, SystemMounts
  <1> QED
    BY <1>3, <1>4, <1>5, <1>6

LEMMA UnmountCallInv == ASSUME Safe, UnmountCall, ~ Failed PROVE Safe'
  <1> USE DEF Failed, Safe, UnmountCall, Validate, Still, world
  <1>1. Related' = Related
    BY SameStack
  <1>2. TypeOK'
    BY DEF TypeOK, Since
  <1>3. OnlyTheMedium'
    BY DEF TypeOK, OnlyTheMedium, Validating, Vouched
  <1>4. Placed'
    BY DEF Placed, Present
  <1>5. SystemSeen'
    BY <1>1 DEF SystemSeen, HoldsSystem, SystemMounts
  <1> QED
    BY <1>2, <1>3, <1>4, <1>5

(* When the card goes, so does what was related to it. *)
LEMMA Detached ==
  ASSUME TypeOK, Placed, slot' \in {NoMedium, slot},
         \/ UNCHANGED <<slot, stack, mounts, swaps>>
         \/ /\ stack' = {pair \in stack : pair[2] \notin Related} /\ swaps' = swaps \ Related
            /\ mounts' \subseteq {m \in mounts : m.on \notin Related}
  PROVE  Placed'
  <1>1. CASE UNCHANGED <<slot, stack, mounts, swaps>>
    BY <1>1, SamePlaced
  <1>2. CASE /\ stack' = {pair \in stack : pair[2] \notin Related} /\ swaps' = swaps \ Related
             /\ mounts' \subseteq {m \in mounts : m.on \notin Related}
    <2>1. ASSUME NEW d \in Devices, Present(d), d \notin Related PROVE Present(d)'
      <3>1. CASE d = System
        BY <3>1 DEF Present
      <3>2. CASE d \in Own
        BY <2>1, <3>2, RelatedDevices
      <3>3. CASE \E e \in Devices : <<e, d>> \in stack
        BY <1>2, <2>1, <3>3 DEF Present
      <3> QED
        BY <2>1, <3>1, <3>2, <3>3 DEF Present
    <2>2. \A pair \in stack' : pair[1] \in Devices /\ pair[1] \notin Related
      <3> TAKE pair \in stack'
      <3>1. pair \in stack /\ pair = <<pair[1], pair[2]>> /\ pair[1] \in Devices /\ pair[2] \in Maps
        BY <1>2 DEF TypeOK
      <3> QED
        BY <1>2, <3>1, RelatedClosed
    <2>3. \A pair \in stack' : Present(pair[1])'
      BY <1>2, <2>1, <2>2 DEF Placed
    <2>4. \A m \in mounts' : Present(m.on)' /\ m.reported \in {m.on, Anonymous}
      BY <1>2, <2>1 DEF Placed, TypeOK, Mounts
    <2>5. \A d \in swaps' : Present(d)'
      BY <1>2, <2>1 DEF Placed, TypeOK
    <2> QED
      BY <2>3, <2>4, <2>5 DEF Placed
  <1> QED
    BY <1>1, <1>2

LEMMA PowerOffOrEjectInv == ASSUME Safe, PowerOffOrEject PROVE Safe'
  <1> USE DEF Safe, PowerOffOrEject, Goto, Fail, End, Cleanup, Detach, Quiet, Still, world
  <1>1. Related' \subseteq Related
    BY ClosingRelatesNothing
  <1>2. TypeOK'
    <2>1. /\ slot' \in {NoMedium, slot} /\ fresh' = fresh /\ written' = written
          /\ stack' \subseteq stack /\ swaps' \subseteq swaps /\ mounts' = mounts
          /\ events' = events /\ since' \subseteq since \cup {"call"}
      OBVIOUS
    <2>2. /\ pc' \in {"inspect", "eject", "done"} /\ ret' \in {ret, "collected"}
          /\ ejecting' \in BOOLEAN /\ flashed' \in BOOLEAN
          /\ result' \in {result, "ok", "failed"}
      BY DEF TypeOK
    <2>3. UNCHANGED <<checked, related, todo, fd, position, handed>>
      BY DEF TypeOK
    <2> QED
      BY <2>1, <2>2, <2>3, LinuxAssumption DEF TypeOK, Since
  <1>3. OnlyTheMedium'
    BY LinuxAssumption DEF TypeOK, OnlyTheMedium, Validating, Vouched
  <1>4. Placed'
    BY Detached DEF Gone
  <1>5. SystemSeen'
    BY <1>1 DEF SystemSeen, HoldsSystem, SystemMounts
  <1> QED
    BY <1>2, <1>3, <1>4, <1>5

-----------------------------------------------------------------------------
(* The environment *)

LEMMA PullCardInv == ASSUME Safe, PullCard PROVE Safe'
  <1> USE DEF Safe, PullCard, Act, worker
  <1>1. Related' \subseteq Related
    BY ClosingRelatesNothing
  <1>2. TypeOK'
    BY LinuxAssumption DEF TypeOK, Since
  <1>3. OnlyTheMedium'
    BY LinuxAssumption DEF TypeOK, OnlyTheMedium, Validating, Vouched
  <1>4. Placed'
    BY Detached DEF Gone
  <1>5. SystemSeen'
    BY <1>1 DEF SystemSeen, HoldsSystem, SystemMounts
  <1> QED
    BY <1>2, <1>3, <1>4, <1>5

LEMMA InsertCardInv == ASSUME Safe, InsertCard PROVE Safe'
  <1> USE DEF Safe, InsertCard, Act, worker
  <1>1. Related' = Related
    BY SameStack
  <1>2. TypeOK'
    BY LinuxAssumption DEF TypeOK, Since
  <1>3. OnlyTheMedium'
    BY LinuxAssumption DEF TypeOK, OnlyTheMedium, Validating, Vouched
  <1>4. Placed'
    BY LinuxAssumption DEF Placed, Present, TypeOK
  <1>5. SystemSeen'
    BY <1>1 DEF SystemSeen, HoldsSystem, SystemMounts
  <1> QED
    BY <1>2, <1>3, <1>4, <1>5

LEMMA AutomountInv == ASSUME Safe, Automount PROVE Safe'
  <1> USE DEF Safe, Automount, Act, worker
  <1>1. Related' = Related
    BY SameStack
  <1>2. TypeOK'
    <2>1. mounts' \subseteq Mounts
      BY DEF TypeOK, Mounts
    <2>2. events' \in 0 .. MaxEvents
      BY LinuxAssumption DEF TypeOK
    <2> QED
      BY <2>1, <2>2 DEF TypeOK, Since
  <1>3. OnlyTheMedium'
    BY DEF TypeOK, OnlyTheMedium, Validating, Vouched
  <1>4. Placed'
    BY DEF Placed, Present
  <1>5. SystemSeen'
    BY <1>1 DEF SystemSeen, HoldsSystem, SystemMounts
  <1> QED
    BY <1>2, <1>3, <1>4, <1>5

LEMMA OpenMappingInv == ASSUME Safe, OpenMapping PROVE Safe'
  <1> USE DEF Safe
  <1>1. PICK d \in Devices \ {Whole}, h \in Maps :
          /\ Present(d) /\ ~ Present(h) /\ d # h /\ stack' = stack \cup {<<d, h>>}
    BY DEF OpenMapping
  <1>2. /\ UNCHANGED <<worker, slot, fresh, mounts, swaps, written>>
        /\ events' \in 0 .. MaxEvents /\ since' \subseteq Since
    BY LinuxAssumption DEF OpenMapping, Act, TypeOK, Since
  <1> USE <1>2 DEF worker
  <1>3. Related' \subseteq Related \cup {h}
    BY <1>1, OpeningRelatesItself DEF TypeOK, Devices
  <1>4. TypeOK'
    BY <1>1 DEF TypeOK
  <1>5. OnlyTheMedium'
    BY DEF OnlyTheMedium
  <1>6. Placed'
    BY <1>1 DEF Placed, Present
  <1>7. /\ \A e \in swaps : e \in Related' => e \in Related
        /\ \A m \in mounts : m.on \in Related' => m.on \in Related
    BY <1>1, <1>3 DEF Placed
  <1>8. SystemSeen'
    BY <1>7 DEF SystemSeen, HoldsSystem, SystemMounts
  <1> QED
    BY <1>4, <1>5, <1>6, <1>8

LEMMA CloseMappingInv == ASSUME Safe, CloseMapping PROVE Safe'
  <1> USE DEF Safe
  <1>1. PICK pair \in stack :
          /\ Lower(pair[2]) = {} /\ pair[2] \notin swaps
          /\ ~ \E m \in mounts : m.on = pair[2]
          /\ stack' = stack \ {pair}
    BY DEF CloseMapping
  <1>2. /\ UNCHANGED <<worker, slot, fresh, mounts, swaps, written>>
        /\ events' \in 0 .. MaxEvents /\ since' \subseteq Since
    BY LinuxAssumption DEF CloseMapping, Act, TypeOK, Since
  <1> USE <1>2 DEF worker
  <1>3. Related' \subseteq Related
    BY <1>1, ClosingRelatesNothing
  <1>4. TypeOK'
    BY <1>1 DEF TypeOK
  <1>5. OnlyTheMedium'
    BY DEF OnlyTheMedium
  <1>6. Placed'
    <2>1. \A e \in Devices : Present(e) /\ e # pair[2] => Present(e)'
      <3> SUFFICES ASSUME NEW e \in Devices, Present(e), e # pair[2] PROVE Present(e)'
        OBVIOUS
      <3>1. \A x : <<x, e>> \in stack => <<x, e>> \in stack'
        BY <1>1
      <3> QED
        BY <3>1 DEF Present
    <2>2. \A other \in stack : other[1] # pair[2]
      BY <1>1 DEF Lower, TypeOK
    <2> QED
      BY <1>1, <2>1, <2>2 DEF Placed, TypeOK, Mounts
  <1>7. SystemSeen'
    BY <1>3 DEF SystemSeen, HoldsSystem, SystemMounts
  <1> QED
    BY <1>4, <1>5, <1>6, <1>7

-----------------------------------------------------------------------------
(* The system *)

LEMMA InitInv == Init => Safe /\ VerifierIsExact
  <1> SUFFICES ASSUME Init PROVE Safe /\ VerifierIsExact
    OBVIOUS
  <1>1. VerifierIsExact
    <2>1. SubSeq(Disk, 1, 0) = <<>>
      BY SubSeqEmpty
    <2> QED
      BY <2>1 DEF VerifierIsExact, Init
  <1>2. stack \subseteq Devices \X Maps
    <2>1. CASE stack = {}
      BY <2>1
    <2>2. CASE stack # {}
      <3>1. PICK d \in Parts, h \in Maps, chain \in SUBSET Maps :
              stack = {<<d, h>>} \cup ({h} \X chain)
        BY <2>2 DEF Init
      <3> QED
        BY <3>1 DEF Devices, Own
    <2> QED
      BY <2>1, <2>2
  <1>3. \A pair \in stack : Present(pair[1])
    <2>1. CASE stack = {}
      BY <2>1
    <2>2. CASE stack # {}
      <3>1. PICK d \in Parts, h \in Maps, chain \in SUBSET Maps :
              stack = {<<d, h>>} \cup ({h} \X chain)
        BY <2>2 DEF Init
      <3>2. Present(d)
        BY LinuxAssumption DEF Init, Present, Own
      <3>3. Present(h)
        BY <3>1 DEF Present, Devices, Own
      <3> QED
        BY <3>1, <3>2, <3>3
    <2> QED
      BY <2>1, <2>2
  <1>4. mounts \subseteq Mounts
        /\ \A m \in mounts : Present(m.on) /\ m.reported \in {m.on, Anonymous}
    <2>1. PICK root \in Devices, number \in Devices \cup {Anonymous} :
            LET system == [on |-> root, reported |-> number, path |-> "/"] IN
            /\ Present(root) /\ number \in {root, Anonymous}
            /\ \/ mounts = {system}
               \/ \E upper, lower \in Parts :
                     mounts = {system} \cup AutomountedPair(upper, lower)
      BY DEF Init
    <2>2. \A d \in Parts : d \in Devices /\ Present(d)
      BY LinuxAssumption DEF Init, Present, Own, Devices
    <2> DEFINE system == [on |-> root, reported |-> number, path |-> "/"]
    <2>3. system \in Mounts /\ Present(system.on) /\ system.reported \in {system.on, Anonymous}
      BY <2>1 DEF Mounts, Paths
    <2>4. CASE mounts = {system}
      BY <2>3, <2>4
    <2>5. ASSUME NEW upper \in Parts, NEW lower \in Parts,
                 mounts = {system} \cup AutomountedPair(upper, lower)
          PROVE  mounts \subseteq Mounts
                 /\ \A m \in mounts : Present(m.on) /\ m.reported \in {m.on, Anonymous}
      <3>1. \A m \in AutomountedPair(upper, lower) :
              /\ m \in Mounts /\ Present(m.on) /\ m.reported \in {m.on, Anonymous}
        BY <2>2 DEF AutomountedPair, Mounts, Paths
      <3> HIDE DEF system
      <3> QED
        BY <2>3, <2>5, <3>1
    <2> QED
      BY <2>1, <2>4, <2>5
  <1>5. Placed
    BY <1>3, <1>4 DEF Init, Placed
  <1>6. TypeOK
    <2>1. ejecting \in BOOLEAN /\ flashed \in BOOLEAN
      BY Zenon DEF Init
    <2>2. handed \in Seq(Nat) /\ position \in Nat /\ events \in 0 .. MaxEvents
      BY LinuxAssumption DEF Init
    <2>3. /\ fd \in Media \cup {NoMedium} /\ slot \in Media \cup {NoMedium}
          /\ fresh \subseteq Media \ {slot} /\ written \subseteq Media /\ swaps \subseteq Devices
      BY LinuxAssumption DEF Init
    <2> QED
      BY <1>2, <1>4, <2>1, <2>2, <2>3 DEF Init, TypeOK
  <1>7. OnlyTheMedium
    BY LinuxAssumption DEF Init, OnlyTheMedium, Validating, Vouched
  <1>8. SystemSeen
    BY DEF Init, SystemSeen
  <1> QED
    BY <1>1, <1>5, <1>6, <1>7, <1>8 DEF Safe

LEMMA StutterInv == ASSUME Safe, UNCHANGED vars PROVE Safe'
  <1> USE DEF Safe, vars, worker, world
  <1>1. TypeOK'
    BY DEF TypeOK
  <1>2. OnlyTheMedium'
    BY DEF OnlyTheMedium
  <1>3. Placed'
    BY SamePlaced
  <1>4. SystemSeen'
    BY SameStack DEF SystemSeen, HoldsSystem, SystemMounts
  <1> QED
    BY <1>1, <1>2, <1>3, <1>4

(* Only the verifier moves its position. *)
LEMMA OthersReadNothing ==
  ASSUME Next, ~ Verify
  PROVE  UNCHANGED <<position, handed>>
  <1> USE DEF Quiet, Fails
  <1>1. CASE ValidateTarget
    BY <1>1 DEF ValidateTarget, Inspect, Collect, RejectProtectedMounts, RejectRelatedSwap,
                Validated
  <1>2. CASE UnmountSteps
    BY <1>2 DEF UnmountSteps, CollectForUnmount, ReadMounts, UnmountCall, Remaining
  <1>3. CASE Revalidated \/ OpenTarget \/ Write \/ CloseWriter \/ ReopenDirect
    BY <1>3 DEF Revalidated, OpenTarget, Write, CloseWriter, ReopenDirect, OpenDevice
  <1>4. CASE DropTarget \/ FindDrive \/ PowerOffOrEject
    BY <1>4 DEF DropTarget, FindDrive, PowerOffOrEject
  <1>5. CASE Environment
    BY <1>5 DEF Environment, PullCard, InsertCard, Automount, OpenMapping, CloseMapping, Act,
                worker
  <1> QED
    BY <1>1, <1>2, <1>3, <1>4, <1>5 DEF Next, Worker

LEMMA NextInv == Safe /\ VerifierIsExact /\ [Next]_vars => Safe' /\ VerifierIsExact'
  <1> SUFFICES ASSUME Safe, VerifierIsExact, [Next]_vars PROVE Safe' /\ VerifierIsExact'
    OBVIOUS
  <1>1. VerifierIsExact' /\ (Verify => position' \in Nat /\ handed' \in Seq(Nat))
    <2>1. CASE Verify
      BY <2>1, VerifyReads
    <2>2. CASE ~ Verify
      <3>1. UNCHANGED <<position, handed>>
        BY <2>2, OthersReadNothing DEF vars, worker
      <3> QED
        BY <2>2, <3>1 DEF VerifierIsExact, Disk
    <2> QED
      BY <2>1, <2>2
  <1>2. CASE Failed /\ since' \subseteq Since
    BY <1>1, <1>2, FailsInv DEF Failed
  <1>3. CASE Worker /\ ~ Failed
    <2>1. CASE ValidateTarget
      BY <1>1, <1>3, <2>1, InspectInv, CollectInv, RejectProtectedMountsInv, RejectRelatedSwapInv,
         ValidatedInv DEF ValidateTarget
    <2>2. CASE UnmountSteps
      BY <1>1, <1>3, <2>2, CollectForUnmountInv, ReadMountsInv, UnmountCallInv, RemainingInv
         DEF UnmountSteps
    <2>3. CASE Revalidated \/ OpenTarget \/ Write \/ CloseWriter \/ ReopenDirect
      BY <1>1, <1>3, <2>3, RevalidatedInv, OpenTargetInv, WriteInv, CloseWriterInv,
         ReopenDirectInv
    <2>4. CASE Verify \/ DropTarget \/ FindDrive \/ PowerOffOrEject
      BY <1>1, <1>3, <2>4, VerifyInv, DropTargetInv, FindDriveInv, PowerOffOrEjectInv
    <2> QED
      BY <1>3, <2>1, <2>2, <2>3, <2>4 DEF Worker
  <1>4. CASE Environment
    BY <1>1, <1>4, PullCardInv, InsertCardInv, AutomountInv, OpenMappingInv, CloseMappingInv
       DEF Environment
  <1>5. Worker => since' \subseteq Since
    <2> SUFFICES ASSUME Worker PROVE since' \subseteq Since
      OBVIOUS
    <2>0. since \subseteq Since
      BY DEF Safe, TypeOK
    <2> USE <2>0 DEF Since
    <2>1. CASE ValidateTarget
      BY <2>1 DEF ValidateTarget, Inspect, Collect, RejectProtectedMounts,
                  RejectRelatedSwap, Validated
    <2>2. CASE UnmountSteps
      BY <2>2 DEF UnmountSteps, CollectForUnmount, ReadMounts, UnmountCall, Remaining
    <2>3. CASE Revalidated \/ OpenTarget \/ Write \/ CloseWriter \/ ReopenDirect
      BY <2>3 DEF Revalidated, OpenTarget, Write, CloseWriter, ReopenDirect, OpenDevice
    <2>4. CASE Verify \/ DropTarget \/ FindDrive \/ PowerOffOrEject
      BY <2>4 DEF Verify, DropTarget, FindDrive, PowerOffOrEject
    <2> QED
      BY <2>1, <2>2, <2>3, <2>4 DEF Worker
  <1>6. CASE UNCHANGED vars
    BY <1>1, <1>6, StutterInv
  <1> QED
    BY <1>2, <1>3, <1>4, <1>5, <1>6 DEF Next

-----------------------------------------------------------------------------
(* What the worker has checked and collected, and how old that is          *)

LEMMA CheckedStep ==
  ASSUME Safe, Checked, [Next]_vars
  PROVE  Checked'
  <1> USE DEF Checked, Fails, Fail, End, Cleanup, Quiet, Still, Goto, Validate, Validating, world
  <1>1. CASE ValidateTarget
    <2>1. CASE Inspect
      BY <2>1 DEF Inspect
    <2>2. CASE Collect \/ RejectProtectedMounts \/ Validated
      BY <2>2 DEF Collect, RejectProtectedMounts, Validated
    <2>3. CASE RejectRelatedSwap
      BY <2>3 DEF RejectRelatedSwap
    <2> QED
      BY <1>1, <2>1, <2>2, <2>3 DEF ValidateTarget
  <1>2. CASE UnmountSteps
    BY <1>2 DEF UnmountSteps, CollectForUnmount, ReadMounts, UnmountCall, Remaining
  <1>3. CASE Revalidated \/ OpenTarget \/ CloseWriter \/ ReopenDirect
    BY <1>3 DEF Revalidated, OpenTarget, CloseWriter, ReopenDirect, OpenDevice
  <1>4. CASE Write \/ Verify \/ DropTarget \/ FindDrive
    BY <1>4 DEF Write, Verify, DropTarget, FindDrive
  <1>5. CASE PowerOffOrEject
    BY <1>5 DEF PowerOffOrEject, Detach
  <1>6. CASE Environment
    BY <1>6 DEF Environment, PullCard, InsertCard, Automount, OpenMapping, CloseMapping, Act,
                worker
  <1>7. CASE UNCHANGED vars
    BY <1>7 DEF vars, worker
  <1> QED
    BY <1>1, <1>2, <1>3, <1>4, <1>5, <1>6, <1>7 DEF Next, Worker

Unmounting == {"listed", "unmount", "remaining"}

(* A validation keeps what is known of the collected numbers.              *)
LEMMA ValidationKeeps ==
  ASSUME ValidateTarget, NEW labels \in SUBSET Unmounting
  PROVE  /\ UNCHANGED <<world, related, todo>> /\ since \ {"swap", "call"} \subseteq since'
         /\ Within(labels)' => Within(labels)
  <1> USE DEF Fails, Fail, End, Cleanup, Quiet, Still, Goto, Validate, Validating, Within,
              Unmounting
  <1>1. CASE Inspect
    BY <1>1 DEF Inspect
  <1>2. CASE Collect
    BY <1>2 DEF Collect
  <1>3. CASE RejectProtectedMounts
    BY <1>3 DEF RejectProtectedMounts
  <1>4. CASE RejectRelatedSwap
    BY <1>4 DEF RejectRelatedSwap
  <1>5. CASE Validated
    BY <1>5 DEF Validated
  <1> QED
    BY <1>1, <1>2, <1>3, <1>4, <1>5 DEF ValidateTarget

(* Every step that opens, writes, reads or ejects leaves unmount behind.   *)
LEMMA Leaves ==
  ASSUME Revalidated \/ OpenTarget \/ Write \/ CloseWriter \/ ReopenDirect \/ Verify
         \/ DropTarget \/ FindDrive \/ PowerOffOrEject \/ Remaining,
         NEW labels \in SUBSET Unmounting
  PROVE  ~ Within(labels)' /\ mounts' = mounts
  <1> USE DEF Fails, Fail, End, Cleanup, Quiet, Still, Goto, Validate, Validating, Within,
              Unmounting, world
  <1>1. CASE Revalidated \/ OpenTarget \/ CloseWriter \/ ReopenDirect
    BY <1>1 DEF Revalidated, OpenTarget, CloseWriter, ReopenDirect, OpenDevice
  <1>2. CASE Write \/ DropTarget \/ FindDrive \/ Remaining
    BY <1>2 DEF Write, DropTarget, FindDrive, Remaining
  <1>3. CASE Verify
    BY <1>3 DEF Verify
  <1>4. CASE PowerOffOrEject
    BY <1>4 DEF PowerOffOrEject, Detach
  <1> QED
    BY <1>1, <1>2, <1>3, <1>4

LEMMA FailedLeaves ==
  ASSUME Fails, NEW labels \in SUBSET Unmounting
  PROVE  ~ Within(labels)'
  BY DEF Fails, Fail, End, Cleanup, Within, Validating, Unmounting

(* What is related to the card stays related when a mapping is opened.     *)
LEMMA OpeningKeepsRelated ==
  ASSUME stack \subseteq stack'
  PROVE  Related \subseteq Related'
  <1> SUFFICES ASSUME NEW d \in Related, NEW set \in SUBSET Maps, d \in Maps,
                      \A e \in Own \cup set : Lower(e)' \subseteq set
               PROVE  d \in set
    BY RelatedDevices DEF Related
  <1>1. \A e \in Own \cup set : Lower(e) \subseteq set
    BY DEF Lower
  <1>2. Related \subseteq Own \cup set
    BY <1>1, RelatedLeast
  <1> QED
    BY <1>2, LinuxAssumption

LEMMA EnvironmentKeeps ==
  ASSUME Environment
  PROVE  /\ UNCHANGED worker /\ "stir" \in since' /\ since \subseteq since'
         /\ "close" \notin since' => stack \subseteq stack'
  BY DEF Environment, PullCard, InsertCard, Automount, OpenMapping, CloseMapping, Act

LEMMA CollectedStep ==
  ASSUME Safe, Collected, [Next]_vars
  PROVE  Collected'
  <1> DEFINE here == Within(Unmounting)
  <1>0. ASSUME UNCHANGED <<stack, related>>, since \ {"swap", "call"} \subseteq since',
               here' => here
        PROVE  Collected'
    BY <1>0, SameStack DEF Collected, Unmounting
  <1>1. ASSUME ~ here' PROVE Collected'
    BY <1>1 DEF Collected, Unmounting
  <1>2. CASE ValidateTarget
    BY <1>0, <1>2, ValidationKeeps DEF world
  <1>3. CASE CollectForUnmount
    <2>1. CASE Fails
      BY <1>1, <2>1, FailedLeaves
    <2>2. CASE ~ Fails
      <3>1. related' = Related /\ UNCHANGED stack
        BY <1>3, <2>2 DEF CollectForUnmount, Still, world
      <3> QED
        BY <3>1, SameStack DEF Collected
    <2> QED
      BY <2>1, <2>2
  <1>4. CASE ReadMounts \/ UnmountCall
    <2>1. UNCHANGED <<stack, related>> /\ since \subseteq since'
      BY <1>4 DEF ReadMounts, UnmountCall, Fails, Still, world
    <2>2. here
      BY <1>4 DEF ReadMounts, UnmountCall, Within, Unmounting
    <2> QED
      BY <1>0, <2>1, <2>2
  <1>5. CASE Revalidated \/ OpenTarget \/ Write \/ CloseWriter \/ ReopenDirect \/ Verify
             \/ DropTarget \/ FindDrive \/ PowerOffOrEject \/ Remaining
    BY <1>1, <1>5, Leaves
  <1>6. CASE Environment
    <2>1. UNCHANGED <<pc, ret, related>> /\ "stir" \in since' /\ since \subseteq since'
      BY <1>6, EnvironmentKeeps DEF worker
    <2>2. "close" \notin since' => Related \subseteq Related'
      BY <1>6, EnvironmentKeeps, OpeningKeepsRelated
    <2> QED
      BY <2>1, <2>2 DEF Collected, Within
  <1>7. CASE UNCHANGED vars
    BY <1>0, <1>7 DEF vars, worker, world, Within
  <1> QED
    BY <1>2, <1>3, <1>4, <1>5, <1>6, <1>7 DEF Next, Worker, UnmountSteps

Apart == \A m, n \in mounts : m.path = n.path => m = n

LEMMA ApartStep ==
  ASSUME Apart, [Next]_vars
  PROVE  Apart'
  <1>1. ASSUME mounts' \subseteq mounts PROVE Apart'
    BY <1>1 DEF Apart
  <1> USE DEF Fails, Still, world
  <1>2. CASE ValidateTarget
    BY <1>1, <1>2, ValidationKeeps DEF Unmounting
  <1>3. CASE CollectForUnmount \/ ReadMounts \/ UnmountCall
    BY <1>1, <1>3 DEF CollectForUnmount, ReadMounts, UnmountCall
  <1>4. CASE Revalidated \/ OpenTarget \/ Write \/ CloseWriter \/ ReopenDirect \/ Verify
             \/ DropTarget \/ FindDrive \/ PowerOffOrEject \/ Remaining
    BY <1>1, <1>4, Leaves DEF Unmounting
  <1>5. CASE PullCard \/ InsertCard \/ OpenMapping \/ CloseMapping
    BY <1>1, <1>5 DEF PullCard, InsertCard, OpenMapping, CloseMapping
  <1>6. CASE Automount
    BY <1>6 DEF Automount, Apart
  <1>7. CASE UNCHANGED vars
    BY <1>1, <1>7 DEF vars
  <1> QED
    BY <1>2, <1>3, <1>4, <1>5, <1>6, <1>7 DEF Next, Worker, UnmountSteps, Environment

LEMMA DepthOrder ==
  /\ ~ (Depth["/media/a/b"] <= Depth["/media/a"])
  /\ \A path \in Paths : Depth["/media/a/b"] <= Depth[path] => path = "/media/a/b"
  <1>1. Depth["/"] = 0 /\ Depth["/media/a"] = 2 /\ Depth["/media/a/b"] = 3
    BY DEF Depth, Paths
  <1> QED
    BY <1>1 DEF Paths

(* The mounts beneath others go first, and only what was unmounted is      *)
(* struck off the list with its device number.                             *)
LEMMA UnmountCallListed ==
  ASSUME Safe, Listed, UnmountCall, ~ Fails
  PROVE  /\ \A n \in todo' : n.reported \in related
         /\ Within({"unmount"})' => todo' # {}
         /\ "stir" \notin since' =>
              /\ todo' \subseteq mounts'
              /\ \A n \in mounts' : n.path = "/media/a/b" /\ n.reported \in related => n \in todo'
         /\ UNCHANGED related
  <1>0. PICK m \in Deepest(todo) :
          \E gone \in Unmountable(m.reported) :
            /\ mounts' = mounts \ {gone}
            /\ todo' = {n \in todo : n.reported # m.reported}
            /\ since' = since \cup {"call"} /\ UNCHANGED related
            /\ Validate(IF todo' = {} THEN "remaining" ELSE "unmount")
    BY DEF UnmountCall
  <1>1. PICK gone \in Unmountable(m.reported) :
          /\ mounts' = mounts \ {gone}
          /\ todo' = {n \in todo : n.reported # m.reported}
          /\ since' = since \cup {"call"} /\ UNCHANGED related
          /\ Validate(IF todo' = {} THEN "remaining" ELSE "unmount")
    BY <1>0
  <1>2. /\ \A n \in todo : n.reported \in related
        /\ "stir" \notin since =>
             /\ todo \subseteq mounts
             /\ \A n \in mounts : n.path = "/media/a/b" /\ n.reported \in related => n \in todo
    BY DEF Listed, UnmountCall, Within
  <1>3. SUFFICES ASSUME "stir" \notin since
                 PROVE  /\ todo' \subseteq mounts'
                        /\ \A n \in mounts' : n.path = "/media/a/b" /\ n.reported \in related
                             => n \in todo'
    <2>1. Within({"unmount"})' => todo' # {}
      BY <1>1 DEF Within, Validate
    <2> QED
      BY <1>1, <1>2, <2>1
  <1>4. /\ m \in todo /\ m \in mounts /\ gone \in mounts /\ gone.on = m.reported
        /\ gone.path # "/" /\ \A n \in mounts : ~ Beneath(n, gone)
        /\ \A n \in todo : Depth[n.path] <= Depth[m.path]
    BY <1>2, <1>3 DEF Deepest, Unmountable
  <1>5. \A n \in mounts : n \in Mounts /\ n.reported \in {n.on, Anonymous}
    BY DEF Safe, TypeOK, Placed
  <1>6. todo' \subseteq mounts'
    <2>1. gone.reported = m.reported \/ gone.reported = Anonymous
      BY <1>4, <1>5
    <2>2. gone \notin todo'
      <3>1. Anonymous \notin related
        BY LinuxAssumption DEF Safe, TypeOK
      <3> QED
        BY <1>1, <1>2, <2>1, <3>1
    <2> QED
      BY <1>1, <1>2, <1>3, <2>2
  <1>7. ASSUME NEW n \in mounts', n.path = "/media/a/b", n.reported \in related
        PROVE  n \in todo'
    <2>1. n \in mounts /\ n \in todo /\ n # gone
      BY <1>1, <1>2, <1>3, <1>7
    <2>2. SUFFICES ASSUME n.reported = m.reported PROVE FALSE
      BY <1>1, <2>1
    <2>3. m.path \in Paths /\ gone.path \in Paths
      BY <1>4, <1>5 DEF Mounts
    <2>4. m.path = "/media/a/b"
      BY <1>4, <1>7, <2>1, <2>3, DepthOrder
    <2>5. gone.path = "/media/a"
      BY <1>4, <1>7, <2>1, <2>3 DEF Listed, Paths
    <2> QED
      BY <1>4, <1>7, <2>1, <2>5 DEF Beneath
  <1> QED
    BY <1>6, <1>7

LEMMA ListedStep ==
  ASSUME Safe, Listed, [Next]_vars
  PROVE  Listed'
  <1> DEFINE here == Within({"unmount"})
  <1>1. Apart'
    BY ApartStep DEF Apart, Listed
  <1>2. ASSUME UNCHANGED <<mounts, related, todo>>, since \ {"swap", "call"} \subseteq since',
               here' => here
        PROVE  Listed'
    BY <1>1, <1>2 DEF Listed, Apart
  <1>3. ASSUME ~ here' PROVE Listed'
    BY <1>1, <1>3 DEF Listed, Apart
  <1>4. CASE ValidateTarget
    BY <1>2, <1>4, ValidationKeeps DEF world, Unmounting
  <1>5. CASE CollectForUnmount
    BY <1>3, <1>5, FailedLeaves DEF CollectForUnmount, Validate, Within, Validating, Unmounting
  <1>6. CASE ReadMounts
    <2>1. CASE Fails
      BY <1>3, <2>1, FailedLeaves DEF Unmounting
    <2>2. CASE ~ Fails
      <3>1. /\ todo' = {m \in mounts : m.reported \in related} /\ UNCHANGED <<related, mounts>>
            /\ Within({"unmount"})' => todo' # {}
        BY <1>6, <2>2 DEF ReadMounts, Still, Within, Validate, world
      <3> QED
        BY <1>1, <3>1 DEF Listed, Apart
    <2> QED
      BY <2>1, <2>2
  <1>7. CASE UnmountCall
    <2>1. CASE Fails
      BY <1>3, <2>1, FailedLeaves DEF Unmounting
    <2>2. CASE ~ Fails
      BY <1>1, <1>7, <2>2, UnmountCallListed DEF Listed, Apart
    <2> QED
      BY <2>1, <2>2
  <1>8. CASE Revalidated \/ OpenTarget \/ Write \/ CloseWriter \/ ReopenDirect \/ Verify
             \/ DropTarget \/ FindDrive \/ PowerOffOrEject \/ Remaining
    BY <1>3, <1>8, Leaves DEF Unmounting
  <1>9. CASE Environment
    BY <1>1, <1>9, EnvironmentKeeps DEF Listed, Apart, worker, Within
  <1>10. CASE UNCHANGED vars
    BY <1>2, <1>10 DEF vars, worker, world, Within
  <1> QED
    BY <1>4, <1>5, <1>6, <1>7, <1>8, <1>9, <1>10 DEF Next, Worker, UnmountSteps

LEMMA CleansUpStep ==
  ASSUME Safe, CleansUp, [Next]_vars
  PROVE  CleansUp'
  <1> USE DEF CleansUp, Fails, Fail, End, Cleanup, Goto, Validate, Within, Validating
  <1>1. CASE Inspect \/ Collect \/ RejectProtectedMounts
    BY <1>1 DEF Inspect, Collect, RejectProtectedMounts
  <1>2. CASE RejectRelatedSwap
    BY <1>2 DEF RejectRelatedSwap, Safe, TypeOK
  <1>3. CASE Validated
    BY <1>3 DEF Validated
  <1>4. CASE UnmountSteps
    BY <1>4 DEF UnmountSteps, CollectForUnmount, ReadMounts, UnmountCall, Remaining
  <1>5. CASE Revalidated \/ OpenTarget \/ Write \/ CloseWriter \/ ReopenDirect
    BY <1>5 DEF Revalidated, OpenTarget, Write, CloseWriter, ReopenDirect, OpenDevice
  <1>6. CASE Verify \/ DropTarget
    BY <1>6 DEF Verify, DropTarget
  <1>7. CASE FindDrive \/ PowerOffOrEject
    BY <1>7 DEF FindDrive, PowerOffOrEject
  <1>8. CASE Environment \/ UNCHANGED vars
    BY <1>8, EnvironmentKeeps DEF vars, worker
  <1> QED
    BY <1>1, <1>2, <1>3, <1>4, <1>5, <1>6, <1>7, <1>8 DEF Next, Worker, ValidateTarget

LEMMA InitTraced == Init => Checked /\ Collected /\ Listed /\ CleansUp
  <1> SUFFICES ASSUME Init PROVE Checked /\ Collected /\ Listed /\ CleansUp
    OBVIOUS
  <1>1. Checked /\ Collected
    BY DEF Init, Checked, Collected, Within, Validating
  <1>2. \A m, n \in mounts : m.path = n.path => m = n
    <2>1. PICK root \in Devices, number \in Devices \cup {Anonymous} :
            LET system == [on |-> root, reported |-> number, path |-> "/"] IN
            \/ mounts = {system}
            \/ \E upper, lower \in Parts : mounts = {system} \cup AutomountedPair(upper, lower)
      BY DEF Init
    <2> QED
      BY <2>1 DEF AutomountedPair
  <1> QED
    BY <1>1, <1>2 DEF Init, Listed, CleansUp, Within, Validating

LEMMA InductiveStep == IndInv /\ VerifierIsExact /\ [Next]_vars => (IndInv /\ VerifierIsExact)'
  <1> SUFFICES ASSUME IndInv, VerifierIsExact, [Next]_vars
               PROVE  (IndInv /\ VerifierIsExact)'
    OBVIOUS
  <1>1. Safe' /\ VerifierIsExact'
    BY NextInv DEF IndInv, Safe
  <1>2. Checked' /\ Collected' /\ Listed' /\ CleansUp'
    BY CheckedStep, CollectedStep, ListedStep, CleansUpStep DEF IndInv, Safe
  <1> QED
    BY <1>1, <1>2 DEF IndInv, Safe

(* Whatever takes the place of a device path or number, the Linux backend  *)
(* opens, writes and reads back the selected medium only, and never one    *)
(* that carries the running system; and unmount works on what is related   *)
(* to the card unless that has changed since it was collected.             *)
THEOREM LinuxInvariant == Spec => []IndInv
  <1>1. Init => IndInv /\ VerifierIsExact
    BY InitInv, InitTraced DEF IndInv, Safe
  <1> QED
    BY <1>1, InductiveStep, PTL DEF Spec

(* DirectVerifier hands out the bytes of the medium in order, for every    *)
(* sector size, request and short read.                                    *)
THEOREM VerifierIsExactAlways == Spec => []VerifierIsExact
  <1>1. Init => IndInv /\ VerifierIsExact
    BY InitInv, InitTraced DEF IndInv, Safe
  <1> QED
    BY <1>1, InductiveStep, PTL DEF Spec

-----------------------------------------------------------------------------
(* The running system *)

Untouched ==
  /\ slot' = slot /\ fd' = NoMedium
  /\ mounts' = mounts \/ \E m \in mounts : m.reported = Anonymous

LEMMA SystemStep ==
  ASSUME Safe, HoldsSystem, [Next]_vars, pc' # pc
  PROVE  Untouched
  <1>1. fd = NoMedium
    BY DEF Safe, SystemSeen
  <1>2. Claimed
    BY DEF HoldsSystem, Claimed
  <1> USE <1>1 DEF Untouched, Quiet, Fails, Still, world
  <1>3. CASE ValidateTarget
    BY <1>3 DEF ValidateTarget, Inspect, Collect, RejectProtectedMounts, RejectRelatedSwap,
                Validated
  <1>4. CASE CollectForUnmount \/ ReadMounts \/ Remaining
    BY <1>4 DEF CollectForUnmount, ReadMounts, Remaining
  <1>5. CASE UnmountCall
    <2>1. pc = "unmount" /\ slot' = slot /\ fd' = NoMedium
      BY <1>5 DEF UnmountCall
    <2>2. PICK m \in SystemMounts : TRUE
      BY <2>1 DEF HoldsSystem, SystemMounts, Safe, SystemSeen
    <2>3. m \in mounts /\ m.reported = Anonymous
      BY <2>1, <2>2 DEF Safe, SystemSeen, SystemMounts
    <2> QED
      BY <2>1, <2>3
  <1>6. CASE Revalidated \/ OpenTarget \/ CloseWriter \/ ReopenDirect
    BY <1>2, <1>6 DEF Revalidated, OpenTarget, CloseWriter, ReopenDirect, OpenDevice
  <1>7. CASE Write \/ Verify \/ DropTarget \/ FindDrive
    BY <1>7 DEF Write, Verify, DropTarget, FindDrive
  <1>8. CASE PowerOffOrEject
    <2>1. \E m \in mounts : Gone(m)
      BY <1>8 DEF PowerOffOrEject, HoldsSystem, Safe, SystemSeen, Gone
    <2> QED
      BY <1>8, <2>1 DEF PowerOffOrEject, Detach
  <1>9. ~ Environment /\ ~ UNCHANGED vars
    BY DEF Environment, PullCard, InsertCard, Automount, OpenMapping, CloseMapping, Act,
           worker, vars
  <1> QED
    BY <1>3, <1>4, <1>5, <1>6, <1>7, <1>8, <1>9 DEF Next, Worker, UnmountSteps

(* A card with the running system on it, under any stack of mappings, is   *)
(* not opened, unmounted or ejected.                                       *)
THEOREM SystemUntouchedAlways == Spec => SystemUntouched
  <1>1. IndInv /\ [Next]_vars =>
          [HoldsSystem /\ pc' # pc =>
             /\ slot' = slot /\ fd' = NoMedium
             /\ mounts' = mounts \/ \E m \in mounts : m.reported = Anonymous]_vars
    BY SystemStep DEF Untouched, IndInv, Safe
  <1> QED
    BY <1>1, LinuxInvariant, PTL DEF Spec, SystemUntouched

-----------------------------------------------------------------------------
(* unmount and eject *)

(* UDisks2 takes down a mount, or nothing but a card is detached.          *)
LEMMA DestructiveCalls ==
  ASSUME [Next]_vars, pc' # pc, mounts' # mounts \/ slot' # slot
  PROVE  \/ /\ UnmountCall /\ ~ Fails
         \/ pc \in {"powerOff", "eject"} /\ mounts' = mounts
  <1> USE DEF Still, Fails, world
  <1>1. ~ ValidateTarget
    BY ValidationKeeps DEF Unmounting
  <1>2. ~ (CollectForUnmount \/ ReadMounts \/ Remaining)
    BY DEF CollectForUnmount, ReadMounts, Remaining
  <1>3. ~ (Revalidated \/ OpenTarget \/ Write \/ CloseWriter \/ ReopenDirect)
    BY DEF Revalidated, OpenTarget, Write, CloseWriter, ReopenDirect, OpenDevice
  <1>4. ~ (Verify \/ DropTarget \/ FindDrive)
    BY DEF Verify, DropTarget, FindDrive
  <1>5. CASE UnmountCall
    BY <1>5 DEF UnmountCall, Validate, Fail, End, Cleanup
  <1>6. CASE PowerOffOrEject
    BY <1>6 DEF PowerOffOrEject, Detach
  <1>7. ~ Environment /\ ~ UNCHANGED vars
    BY EnvironmentKeeps DEF worker, vars
  <1> QED
    BY <1>1, <1>2, <1>3, <1>4, <1>5, <1>6, <1>7 DEF Next, Worker, UnmountSteps

LEMMA CallStep ==
  ASSUME IndInv, [Next]_vars, pc' # pc, mounts' # mounts \/ slot' # slot
  PROVE  /\ slot = Selected \/ "swap" \in since
         /\ "call" \notin since
         /\ \A m \in mounts \ mounts' : m.on \in Related \/ since \cap {"swap", "close"} # {}
  <1>1. pc \in {"unmount", "powerOff", "eject"}
    BY DestructiveCalls DEF UnmountCall
  <1>2. (slot = Selected \/ "swap" \in since) /\ "call" \notin since
    BY <1>1 DEF IndInv, Checked, Validating
  <1>3. CASE mounts' = mounts
    BY <1>2, <1>3
  <1>4. CASE UnmountCall /\ ~ Fails
    <2>1. PICK m \in Deepest(todo) :
            \E gone \in Unmountable(m.reported) : mounts' = mounts \ {gone}
      BY <1>4 DEF UnmountCall
    <2>2. m.reported \in related /\ (related \subseteq Related \/ "close" \in since)
      BY <1>4, <2>1 DEF IndInv, Listed, Collected, Within, UnmountCall, Deepest
    <2>3. \A n \in mounts \ mounts' : n.on = m.reported
      BY <2>1 DEF Unmountable
    <2> QED
      BY <1>2, <2>1, <2>2, <2>3
  <1> QED
    BY <1>3, <1>4, DestructiveCalls

(* Every unmount, power off and eject that UDisks2 carries out is of the   *)
(* selected card and what is stacked on it, unless the card or a mapping   *)
(* went away after the look that preceded it, and follows a validation.    *)
THEOREM CallsHitTheCardAlways == Spec => CallsHitTheCard
  <1>1. IndInv /\ [Next]_vars =>
          [pc' # pc /\ (mounts' # mounts \/ slot' # slot) =>
             /\ slot = Selected \/ "swap" \in since
             /\ "call" \notin since
             /\ \A m \in mounts \ mounts' :
                  m.on \in Related \/ since \cap {"swap", "close"} # {}]_vars
    BY CallStep
  <1> QED
    BY <1>1, LinuxInvariant, PTL DEF Spec, CallsHitTheCard

(* When nobody interferes, the order of unmount is one that UDisks2 can    *)
(* follow, and what it leaves mounted is hidden by mountinfo: for every    *)
(* stack of mappings, every mount table and any number of volumes.         *)
THEOREM UnmountIsExactAlways == Spec => []UnmountIsExact
  <1>1. ASSUME IndInv PROVE UnmountIsExact
    <2> SUFFICES ASSUME "stir" \notin since PROVE UnmountIsExact
      BY DEF UnmountIsExact
    <2>1. ASSUME pc = "unmount", NEW m \in Deepest(todo), NEW n \in mounts, Beneath(n, m)
          PROVE  n.reported \notin related
      <3>1. n.reported \in related => n \in todo
        BY <1>1, <2>1 DEF IndInv, Listed, Within, Beneath
      <3> QED
        BY <2>1, <3>1, DepthOrder DEF Deepest, Beneath
    <2>2. ASSUME pc = "remaining", NothingRemains, NEW m \in mounts, m.on \in Related
          PROVE  m.reported = Anonymous
      <3>1. related = Related
        BY <1>1, <2>2 DEF IndInv, Collected, Within
      <3> QED
        BY <1>1, <2>2, <3>1 DEF IndInv, Placed, NothingRemains
    <2> QED
      BY <2>1, <2>2 DEF UnmountIsExact
  <1> QED
    BY <1>1, LinuxInvariant, PTL
-----------------------------------------------------------------------------
(* The job gets on *)

LEMMA AheadOfEnd ==
  ASSUME TypeOK
  PROVE  /\ Left \in 0 .. 45 /\ InValidation \in 0 .. 4
         /\ pc # "done" => Left > 15 * Cleanups
  <1>1. Here # "done" => Ahead[Here] \in 1 .. 15
    BY DEF TypeOK, Here, Validating, Ahead
  <1>2. Here = "done" <=> pc = "done"
    BY DEF TypeOK, Here, Validating
  <1>3. Ahead["done"] = 0
    BY DEF Ahead
  <1>4. Cleanups \in 0 .. 2
    BY DEF Cleanups
  <1> QED
    BY <1>1, <1>2, <1>3, <1>4 DEF Left, InValidation

(* A call that fails leads to the cleanup, or from the cleanup to the end. *)
LEMMA FailureGetsOn ==
  ASSUME TypeOK, CleansUp, Fails, pc # "done"
  PROVE  Left' < Left
  <1>1. CASE pc' = "done"
    BY <1>1, AheadOfEnd DEF Left, Here, Validating, Ahead, Cleanups
  <1>2. CASE pc' # "done"
    <2>1. Cleanup /\ (~ ejecting \/ flashed)
      BY <1>2 DEF Fails, Fail, End
    <2>2. Left' = 14
      BY <2>1 DEF Cleanup, Left, Here, Validating, Ahead, Cleanups
    <2>3. Cleanups >= 1
      BY <2>1 DEF Cleanups, TypeOK
    <2> QED
      BY <2>2, <2>3, AheadOfEnd DEF Cleanups
  <1> QED
    BY <1>1, <1>2

LEMMA ValidationGetsOn ==
  ASSUME TypeOK, CleansUp, ValidateTarget, ~ Fails
  PROVE  Nearer
  <1> USE DEF Goto, Validate, Quiet, Left, Here, Validating, Cleanups
  <1>1. CASE Inspect \/ Collect \/ RejectProtectedMounts
    <2>1. UNCHANGED <<ret, ejecting, flashed, todo>>
      BY <1>1 DEF Inspect, Collect, RejectProtectedMounts
    <2>2. \/ pc = "inspect" /\ pc' = "collect"
          \/ pc = "collect" /\ pc' = "mounts"
          \/ pc = "mounts" /\ pc' = "swaps"
      BY <1>1 DEF Inspect, Collect, RejectProtectedMounts
    <2> QED
      BY <2>1, <2>2 DEF Nearer, InValidation
  <1>2. CASE RejectRelatedSwap
    <2>1. UNCHANGED <<ret, ejecting, flashed, todo>> /\ pc = "swaps" /\ pc' = ret
      BY <1>2 DEF RejectRelatedSwap
    <2>2. ret \notin {"inspect", "collect", "mounts", "swaps", "done"}
      BY DEF TypeOK
    <2> QED
      BY <2>1, <2>2 DEF Nearer, InValidation
  <1>3. CASE Validated
    <2>1. UNCHANGED <<ejecting, flashed>> /\ Here = "job" /\ Here' = "collected"
          /\ pc # "done" /\ pc' # "done"
      BY <1>3 DEF Validated
    <2>2. Left' < Left
      BY <2>1 DEF Ahead, TypeOK
    <2> QED
      BY <2>2 DEF Nearer
  <1> QED
    BY <1>1, <1>2, <1>3 DEF ValidateTarget

(* From one call to a later one of the same pass.                          *)
LEMMA GoesOn ==
  ASSUME TypeOK, UNCHANGED <<ejecting, flashed>>, Ahead[Here'] < Ahead[Here],
         pc # "done", pc' # "done", Ahead[Here'] \in Nat, Ahead[Here] \in Nat
  PROVE  Left' < Left
  <1>1. Ahead' = Ahead
    BY DEF Ahead
  <1> QED
    BY <1>1 DEF Left, Cleanups

LEMMA UnmountGetsOn ==
  ASSUME TypeOK, CleansUp, UnmountSteps, ~ Fails
  PROVE  Nearer
  <1> USE DEF Goto, Validate, Quiet, Here, Validating
  <1>1. CASE CollectForUnmount
    <2>1. UNCHANGED <<ejecting, flashed>> /\ pc = "collected" /\ pc' = "inspect" /\ ret' = "listed"
      BY <1>1 DEF CollectForUnmount
    <2> QED
      BY <2>1, GoesOn DEF Ahead, Nearer
  <1>2. CASE ReadMounts
    <2>1. UNCHANGED <<ejecting, flashed>> /\ pc = "listed" /\ pc' = "inspect"
          /\ ret' \in {"remaining", "unmount"}
      BY <1>2 DEF ReadMounts
    <2> QED
      BY <2>1, GoesOn DEF Ahead, Nearer
  <1>3. CASE UnmountCall
    <2>1. PICK m \in todo :
            /\ todo' = {n \in todo : n.reported # m.reported}
            /\ Validate(IF todo' = {} THEN "remaining" ELSE "unmount")
      BY <1>3 DEF UnmountCall, Deepest
    <2>2. UNCHANGED <<ejecting, flashed>> /\ pc = "unmount" /\ pc' = "inspect"
      BY <1>3, <2>1 DEF UnmountCall
    <2>3. CASE ret' = "remaining"
      BY <2>2, <2>3, GoesOn DEF Ahead, Nearer
    <2>4. CASE ret' = "unmount"
      <3>1. todo' \subseteq todo /\ m \notin todo'
        BY <2>1
      <3>2. Left' = Left
        BY <2>2, <2>4 DEF Left, Cleanups
      <3> QED
        BY <2>1, <3>1, <3>2 DEF Nearer
    <2> QED
      BY <2>1, <2>3, <2>4
  <1>4. CASE Remaining
    <2>1. UNCHANGED <<ejecting, flashed>> /\ pc = "remaining" /\ pc' = "inspect"
          /\ ret' \in {"drive", "revalidated"}
      BY <1>4 DEF Remaining
    <2> QED
      BY <2>1, GoesOn DEF Ahead, Nearer
  <1> QED
    BY <1>1, <1>2, <1>3, <1>4 DEF UnmountSteps

LEMMA TargetGetsOn ==
  ASSUME TypeOK, CleansUp, ~ Fails,
         Revalidated \/ OpenTarget \/ Write \/ CloseWriter \/ ReopenDirect \/ FindDrive
  PROVE  Nearer
  <1> USE DEF Goto, Validate, Quiet, Here, Validating
  <1>1. UNCHANGED <<ejecting, flashed>>
    BY DEF Revalidated, OpenTarget, Write, CloseWriter, ReopenDirect, OpenDevice, FindDrive
  <1>2. \/ pc = "revalidated" /\ pc' = "inspect" /\ ret' = "open"
        \/ pc = "open" /\ pc' = "inspect" /\ ret' = "write"
        \/ pc = "write" /\ pc' = "inspect" /\ ret' = "close"
        \/ pc = "write" /\ pc' = "drop"
        \/ pc = "close" /\ pc' = "reopen"
        \/ pc = "reopen" /\ pc' = "inspect" /\ ret' = "read"
        \/ pc = "drive" /\ pc' = "powerOff"
    BY DEF Revalidated, OpenTarget, Write, CloseWriter, ReopenDirect, OpenDevice, FindDrive
  <1> QED
    BY <1>1, <1>2, GoesOn DEF Ahead, Nearer

(* Slice is not empty when the verifier counts it.                         *)
LEMMA ReadingGetsOn ==
  ASSUME Safe, VerifierIsExact, Verify, ~ Fails
  PROVE  Nearer
  <1>1. CASE pc' = "drop"
    <2>1. pc = "read" /\ UNCHANGED <<ejecting, flashed>>
      BY <1>1 DEF Verify, Goto
    <2> QED
      BY <1>1, <2>1, GoesOn DEF Ahead, Here, Validating, Nearer, Safe
  <1>2. CASE pc' # "drop"
    <2>1. /\ UNCHANGED <<pc, ret, ejecting, flashed, todo>>
          /\ position < position'
      <3>1. UNCHANGED <<pc, ret, ejecting, flashed, todo>>
        BY <1>2 DEF Verify, Goto
      <3> QED
        BY <1>2, <3>1, VerifyReads DEF Goto
    <2> QED
      BY <2>1 DEF Nearer, Left, Here, Cleanups, InValidation
  <1> QED
    BY <1>1, <1>2

LEMMA EjectGetsOn ==
  ASSUME TypeOK, CleansUp, DropTarget \/ PowerOffOrEject
  PROVE  Nearer
  <1>1. CASE DropTarget
    <2>1. ~ ejecting /\ pc = "drop" /\ Here = "drop"
      BY <1>1 DEF DropTarget, CleansUp, Within, Validating, Here
    <2>2. pc' # "done" /\ ejecting' /\ Here' = "collected"
      BY <1>1 DEF DropTarget, Here, Validating
    <2>3. Left = 34 /\ Left' \in {14, 29}
      BY <2>1, <2>2 DEF Left, Ahead, Cleanups
    <2> QED
      BY <2>3 DEF Nearer
  <1>2. CASE PowerOffOrEject
    <2>0. pc \in {"powerOff", "eject"} /\ ejecting /\ Here = pc
      BY <1>2 DEF PowerOffOrEject, CleansUp, Here, Validating
    <2>1. CASE pc' = "done"
      BY <2>0, <2>1, AheadOfEnd DEF Left, Here, Validating, Ahead, Cleanups, Nearer
    <2>2. CASE Cleanup /\ flashed
      <3>1. Left' = 14
        BY <2>2 DEF Cleanup, Left, Here, Validating, Ahead, Cleanups
      <3>2. Left \in {16, 17}
        BY <2>0, <2>2 DEF Left, Ahead, Cleanups
      <3> QED
        BY <3>1, <3>2 DEF Nearer
    <2>3. CASE Goto("eject") /\ pc = "powerOff"
      BY <2>3, GoesOn DEF Goto, Ahead, Here, Validating, Nearer
    <2> QED
      BY <1>2, <2>0, <2>1, <2>2, <2>3 DEF PowerOffOrEject, End, Fail
  <1> QED
    BY <1>1, <1>2

LEMMA WorkerGetsOn ==
  ASSUME IndInv, VerifierIsExact, Worker
  PROVE  Nearer
  <1>1. Safe /\ TypeOK /\ CleansUp
    BY DEF IndInv, Safe
  <1>2. CASE Fails
    <2>1. pc # "done"
      BY DEF Worker, ValidateTarget, Inspect, Collect, RejectProtectedMounts, RejectRelatedSwap,
             Validated, UnmountSteps, CollectForUnmount, ReadMounts, UnmountCall, Remaining,
             Revalidated, OpenTarget, Write, CloseWriter, ReopenDirect, OpenDevice, Verify,
             DropTarget, FindDrive, PowerOffOrEject
    <2> QED
      BY <1>1, <1>2, <2>1, FailureGetsOn DEF Nearer
  <1>3. CASE ~ Fails
    BY <1>1, <1>3, ValidationGetsOn, UnmountGetsOn, TargetGetsOn, ReadingGetsOn, EjectGetsOn
       DEF Worker
  <1> QED
    BY <1>2, <1>3

(* There is an end to every list and to the medium.                        *)
Bounded == IsFiniteSet(mounts) /\ IsFiniteSet(todo) /\ position \in 0 .. Capacity

LEMMA InitBounded == Init => Bounded
  <1> SUFFICES ASSUME Init PROVE Bounded
    OBVIOUS
  <1>1. IsFiniteSet(todo) /\ position \in 0 .. Capacity
    BY FS_EmptySet, LinuxAssumption DEF Init
  <1>2. PICK root \in Devices, number \in Devices \cup {Anonymous} :
          LET system == [on |-> root, reported |-> number, path |-> "/"] IN
          \/ mounts = {system}
          \/ \E upper, lower \in Parts : mounts = {system} \cup AutomountedPair(upper, lower)
    BY DEF Init
  <1> DEFINE system == [on |-> root, reported |-> number, path |-> "/"]
  <1>3. CASE mounts = {system}
    BY <1>1, <1>3, FS_Singleton DEF Bounded
  <1>4. ASSUME NEW upper, NEW lower, mounts = {system} \cup AutomountedPair(upper, lower)
        PROVE  Bounded
    <2>1. PICK a, b : AutomountedPair(upper, lower) = {a} \cup {b}
      BY DEF AutomountedPair
    <2>2. IsFiniteSet({a} \cup {b})
      BY FS_Singleton, FS_Union
    <2> QED
      BY <1>1, <1>4, <2>1, <2>2, FS_Singleton, FS_Union DEF Bounded
  <1> QED
    BY <1>2, <1>3, <1>4

LEMMA BoundedStep ==
  ASSUME Safe, VerifierIsExact, Bounded, [Next]_vars
  PROVE  Bounded'
  <1>1. position' \in 0 .. Capacity
    <2>1. CASE Verify
      BY <2>1, VerifyReads DEF Bounded
    <2>2. CASE ~ Verify
      BY <2>2, OthersReadNothing DEF Bounded, vars, worker
    <2> QED
      BY <2>1, <2>2
  <1>2. ASSUME mounts' \subseteq mounts, todo' \subseteq todo \/ todo' \subseteq mounts
        PROVE  Bounded'
    BY <1>1, <1>2, FS_Subset DEF Bounded
  <1> USE DEF Fails, Quiet, Still, world
  <1>3. CASE ValidateTarget
    BY <1>2, <1>3, ValidationKeeps DEF Unmounting
  <1>4. CASE CollectForUnmount \/ ReadMounts \/ UnmountCall \/ Remaining
    BY <1>2, <1>4 DEF CollectForUnmount, ReadMounts, UnmountCall, Remaining
  <1>5. CASE Revalidated \/ OpenTarget \/ Write \/ CloseWriter \/ ReopenDirect
    BY <1>2, <1>5 DEF Revalidated, OpenTarget, Write, CloseWriter, ReopenDirect, OpenDevice
  <1>6. CASE Verify \/ DropTarget \/ FindDrive \/ PowerOffOrEject
    BY <1>2, <1>6 DEF Verify, DropTarget, FindDrive, PowerOffOrEject, Detach
  <1>7. CASE Environment /\ ~ Automount
    BY <1>2, <1>7 DEF Environment, PullCard, InsertCard, OpenMapping, CloseMapping, Act, worker
  <1>8. CASE Automount
    <2>1. PICK new : mounts' = mounts \cup {new}
      BY <1>8 DEF Automount
    <2>2. UNCHANGED todo
      BY <1>8 DEF Automount, Act, worker
    <2> QED
      BY <1>1, <2>1, <2>2, FS_Singleton, FS_Union DEF Bounded
  <1>9. CASE UNCHANGED vars
    BY <1>2, <1>9 DEF vars, worker
  <1> QED
    BY <1>3, <1>4, <1>5, <1>6, <1>7, <1>8, <1>9 DEF Next, Worker, UnmountSteps

(* Nothing brings a job back that the worker has brought on: the steps of  *)
(* the job and of its one or two cleanups, and within one the mounts still *)
(* listed, the checks still to make and the bytes still to read, become    *)
(* fewer with every call, whatever fails and whatever happens to the card. *)
(* Each of these numbers is finite, so a worker whose calls return ends.   *)
THEOREM GetsOnAlways ==
  Spec => /\ [](Left \in 0 .. 45 /\ IsFiniteSet(todo) /\ position \in 0 .. Capacity)
          /\ GetsOn
  <1>1. Init => IndInv /\ VerifierIsExact /\ Bounded
    BY InitInv, InitTraced, InitBounded DEF IndInv, Safe
  <1>2. IndInv /\ VerifierIsExact /\ Bounded /\ [Next]_vars
          => (IndInv /\ VerifierIsExact /\ Bounded)'
    BY InductiveStep, BoundedStep DEF IndInv, Safe
  <1>3. IndInv /\ Bounded => Left \in 0 .. 45 /\ IsFiniteSet(todo) /\ position \in 0 .. Capacity
    BY AheadOfEnd DEF IndInv, Bounded
  <1>4. IndInv /\ VerifierIsExact /\ [Next]_vars =>
          [IF Worker THEN Nearer ELSE UNCHANGED worker]_vars
    <2>1. ASSUME IndInv, VerifierIsExact, Worker PROVE Nearer
      BY <2>1, WorkerGetsOn
    <2>2. ASSUME [Next]_vars, ~ Worker PROVE UNCHANGED worker
      BY <2>2, EnvironmentKeeps DEF Next, vars
    <2> QED
      BY <2>1, <2>2
  <1> QED
    BY <1>1, <1>2, <1>3, <1>4, PTL DEF Spec, GetsOn
=============================================================================
