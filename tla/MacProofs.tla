------------------------------- MODULE MacProofs -------------------------------
(***************************************************************************)
(* What MacTarget promises, for any media and cards, any number of lookup  *)
(* attempts and any gap that is shorter than they are.                     *)
(***************************************************************************)
EXTENDS MacTarget, TLAPS

-----------------------------------------------------------------------------
(* Where a lookup goes on *)

Lookups == {"validate", "unmount", "unmounted", "revalidate", "opened", "eject"}

LEMMA FoundDomain == DOMAIN Found = Lookups
  BY DEF Found, Lookups

LEMMA FoundNext ==
  /\ Found["validate"] = "unmount" /\ Found["unmount"] = "callUnmount"
  /\ Found["unmounted"] = "revalidate" /\ Found["revalidate"] = "connect"
  /\ Found["opened"] = "write" /\ Found["eject"] = "callEject"
  BY DEF Found

LEMMA NoTriesYet == ASSUME NEW g \in 0 .. Gap, NEW t, t = 0 PROVE g + t <= Gap
  BY MacAssumption

-----------------------------------------------------------------------------
(* The inductive invariant, step by step *)

LEMMA LookUpInv == ASSUME IndInv, LookUp PROVE IndInv'
  <1> USE MacAssumption, FoundDomain, FoundNext
      DEF IndInv, LookUp, Missing, RegistryDrive, QueryRemovableMedia, CallFails, Ends,
          Ejecting, worker, serving, medium, calls, history, Lookups
  <1>1. TypeOK'
    <2>1. flashed' \in BOOLEAN
      BY Zenon DEF TypeOK
    <2>2. missing' \in BOOLEAN
      BY Zenon DEF TypeOK
    <2>3. tries' \in 0 .. Attempts - 1 /\ gap' \in 0 .. Gap
      BY DEF TypeOK
    <2>4. pc' \in Lookups \cup {"callUnmount", "connect", "write", "callEject", "done"}
      BY DEF TypeOK
    <2>5. fd' \in {fd, NoMedium} /\ since' \in {since, {}}
      OBVIOUS
    <2>6. UNCHANGED <<serving, at, fresh, calls, written, unsynced>>
      OBVIOUS
    <2> QED
      BY <2>1, <2>2, <2>3, <2>4, <2>5, <2>6 DEF TypeOK
  <1>2. DescriptorIsSelected'
    BY DEF TypeOK, DescriptorIsSelected
  <1>3. Settles'
    BY DEF TypeOK, Settles
  <1>4. Asked'
    BY DEF TypeOK, Asked
  <1>5. written' \subseteq {Selected} /\ ~unsynced'
    BY DEF DescriptorIsSelected
  <1>6. HandOver'
    BY DEF TypeOK, HandOver
  <1> QED
    BY <1>1, <1>2, <1>3, <1>4, <1>5, <1>6

LEMMA CallUnmountInv == ASSUME IndInv, CallUnmount PROVE IndInv'
  <1> USE MacAssumption, FoundDomain
      DEF IndInv, CallUnmount, Ask, NoRequest, Requests, CallFails, Ends, Ejecting, worker,
          serving, medium, calls, history, Lookups
  <1>1. TypeOK'
    <2>1. flashed' \in BOOLEAN
      BY Zenon DEF TypeOK
    <2>2. request' \in Requests \cup {NoRequest} /\ answer' \in {"none", "done", "refused"}
      BY DEF TypeOK
    <2>3. /\ pc' \in {"waitUnmount", "waitEject", "eject", "done"}
          /\ tries' \in {tries, 0} /\ fd' \in {fd, NoMedium}
      OBVIOUS
    <2>4. UNCHANGED <<missing, serving, medium, abandoned, history>>
      OBVIOUS
    <2> QED
      BY <2>1, <2>2, <2>3, <2>4 DEF TypeOK
  <1>2. DescriptorIsSelected'
    BY DEF TypeOK, DescriptorIsSelected
  <1>3. Settles'
    BY DEF TypeOK, Settles
  <1>4. Asked'
    BY DEF TypeOK, Asked
  <1>5. written' \subseteq {Selected} /\ ~unsynced'
    BY DEF DescriptorIsSelected
  <1>6. HandOver'
    BY DEF TypeOK, HandOver
  <1> QED
    BY <1>1, <1>2, <1>3, <1>4, <1>5, <1>6

LEMMA CallEjectInv == ASSUME IndInv, CallEject PROVE IndInv'
  <1> USE MacAssumption, FoundDomain
      DEF IndInv, CallEject, Ask, NoRequest, Requests, CallFails, Ends, Ejecting, worker,
          serving, medium, calls, history, Lookups
  <1>1. TypeOK'
    <2>1. flashed' \in BOOLEAN
      BY Zenon DEF TypeOK
    <2>2. request' \in Requests \cup {NoRequest} /\ answer' \in {"none", "done", "refused"}
      BY DEF TypeOK
    <2>3. /\ pc' \in {"waitUnmount", "waitEject", "eject", "done"}
          /\ tries' \in {tries, 0} /\ fd' \in {fd, NoMedium}
      OBVIOUS
    <2>4. UNCHANGED <<missing, serving, medium, abandoned, history>>
      OBVIOUS
    <2> QED
      BY <2>1, <2>2, <2>3, <2>4 DEF TypeOK
  <1>2. DescriptorIsSelected'
    BY DEF TypeOK, DescriptorIsSelected
  <1>3. Settles'
    BY DEF TypeOK, Settles
  <1>4. Asked'
    BY DEF TypeOK, Asked
  <1>5. written' \subseteq {Selected} /\ ~unsynced'
    BY DEF DescriptorIsSelected
  <1>6. HandOver'
    BY DEF TypeOK, HandOver
  <1> QED
    BY <1>1, <1>2, <1>3, <1>4, <1>5, <1>6

LEMMA FinishCallInv == ASSUME IndInv, FinishCall PROVE IndInv'
  <1> USE MacAssumption, FoundDomain
      DEF IndInv, FinishCall, Await, NoRequest, Requests, CallFails, Ends, Ejecting, worker,
          serving, medium, calls, history, Lookups
  <1>1. TypeOK'
    <2>1. flashed' \in BOOLEAN
      BY Zenon DEF TypeOK
    <2>2. request \in Requests \cup {NoRequest} /\ request' = NoRequest
          /\ abandoned' \in {abandoned, abandoned \cup {request}}
      BY DEF TypeOK
    <2>3. request # NoRequest
      BY DEF Asked
    <2>4. /\ pc' \in {"unmounted", "eject", "done"}
          /\ tries' \in {tries, 0} /\ fd' \in {fd, NoMedium}
      OBVIOUS
    <2>5. UNCHANGED <<missing, serving, medium, answer, history>>
      OBVIOUS
    <2> QED
      BY <2>1, <2>2, <2>3, <2>4, <2>5 DEF TypeOK
  <1>2. DescriptorIsSelected'
    BY DEF TypeOK, DescriptorIsSelected
  <1>3. Settles'
    BY DEF TypeOK, Settles
  <1>4. Asked'
    BY DEF TypeOK, Asked
  <1>5. written' \subseteq {Selected} /\ ~unsynced'
    BY DEF DescriptorIsSelected
  <1>6. HandOver'
    BY DEF TypeOK, HandOver
  <1> QED
    BY <1>1, <1>2, <1>3, <1>4, <1>5, <1>6

LEMMA ConnectInv == ASSUME IndInv, Connect PROVE IndInv'
  <1> USE MacAssumption, FoundDomain
      DEF IndInv, Connect, CallFails, Ends, Ejecting, worker, serving, medium, calls, history,
          Lookups
  <1>1. TypeOK'
    BY DEF TypeOK
  <1>2. DescriptorIsSelected'
    BY DEF TypeOK, DescriptorIsSelected
  <1>3. Settles'
    BY DEF TypeOK, Settles
  <1>4. Asked'
    BY DEF TypeOK, Asked
  <1>5. written' \subseteq {Selected} /\ ~unsynced'
    BY DEF DescriptorIsSelected
  <1>6. HandOver'
    BY DEF TypeOK, HandOver
  <1> QED
    BY <1>1, <1>2, <1>3, <1>4, <1>5, <1>6

LEMMA SendRequestInv == ASSUME IndInv, SendRequest PROVE IndInv'
  <1> USE MacAssumption, FoundDomain
      DEF IndInv, SendRequest, CallFails, Ends, Ejecting, worker, serving, medium, calls,
          history, Lookups
  <1>1. TypeOK'
    BY DEF TypeOK
  <1>2. DescriptorIsSelected'
    BY DEF TypeOK, DescriptorIsSelected
  <1>3. Settles'
    BY DEF TypeOK, Settles
  <1>4. Asked'
    BY DEF TypeOK, Asked
  <1>5. written' \subseteq {Selected} /\ ~unsynced'
    BY DEF DescriptorIsSelected
  <1>6. HandOver'
    BY DEF TypeOK, HandOver
  <1> QED
    BY <1>1, <1>2, <1>3, <1>4, <1>5, <1>6

LEMMA ReceiveInv == ASSUME IndInv, Receive PROVE IndInv'
  <1> USE MacAssumption, FoundDomain
      DEF IndInv, Receive, CallFails, Ends, Ejecting, worker, serving, medium, calls, history,
          Lookups
  <1>1. TypeOK'
    BY DEF TypeOK
  <1>2. DescriptorIsSelected'
    BY DEF TypeOK, DescriptorIsSelected
  <1>3. Settles'
    BY DEF TypeOK, Settles
  <1>4. Asked'
    BY DEF TypeOK, Asked
  <1>5. written' \subseteq {Selected} /\ ~unsynced'
    BY DEF DescriptorIsSelected
  <1>6. HandOver'
    BY DEF TypeOK, HandOver
  <1> QED
    BY <1>1, <1>2, <1>3, <1>4, <1>5, <1>6

LEMMA CheckDescriptorInv == ASSUME IndInv, CheckDescriptor PROVE IndInv'
  <1> USE MacAssumption, FoundDomain
      DEF IndInv, CheckDescriptor, CallFails, Ends, Ejecting, worker, serving, medium, calls,
          history, Lookups
  <1>1. TypeOK'
    BY DEF TypeOK
  <1>2. DescriptorIsSelected'
    BY DEF TypeOK, DescriptorIsSelected
  <1>3. Settles'
    BY DEF TypeOK, Settles
  <1>4. Asked'
    BY DEF TypeOK, Asked
  <1>5. written' \subseteq {Selected} /\ ~unsynced'
    BY DEF DescriptorIsSelected
  <1>6. HandOver'
    BY DEF TypeOK, HandOver
  <1> QED
    BY <1>1, <1>2, <1>3, <1>4, <1>5, <1>6

LEMMA WriteAndVerifyInv == ASSUME IndInv, WriteAndVerify PROVE IndInv'
  <1> USE MacAssumption, FoundDomain
      DEF IndInv, WriteAndVerify, RawFlags, worker, serving, medium, calls, history, Lookups
  <1>1. TypeOK'
    <2>1. flashed' \in BOOLEAN
      BY Zenon
    <2>2. unsynced' \in BOOLEAN
      BY Zenon DEF TypeOK
    <2>3. pc' = "eject" /\ fd' = NoMedium /\ written' \subseteq written \cup {Selected}
      BY DEF DescriptorIsSelected
    <2>4. UNCHANGED <<tries, missing, serving, medium, calls, since>>
      OBVIOUS
    <2> QED
      BY <2>1, <2>2, <2>3, <2>4 DEF TypeOK
  <1>2. DescriptorIsSelected'
    BY DEF TypeOK, DescriptorIsSelected
  <1>3. Settles'
    BY DEF TypeOK, Settles
  <1>4. Asked'
    BY DEF TypeOK, Asked
  <1>5. written' \subseteq {Selected} /\ ~unsynced'
    <2>1. written' \subseteq {Selected}
      BY DEF DescriptorIsSelected
    <2>2. ~unsynced'
      BY Zenon
    <2> QED
      BY <2>1, <2>2
  <1>6. HandOver'
    BY DEF TypeOK, HandOver
  <1> QED
    BY <1>1, <1>2, <1>3, <1>4, <1>5, <1>6

LEMMA GuiInv == ASSUME IndInv, Gui PROVE IndInv'
  <1> USE MacAssumption, FoundDomain
      DEF IndInv, Gui, Accept, ReadRequest, AuthOpen, SendDescriptor, ServeFails, worker,
          serving, medium, calls, history, Lookups
  <1>1. TypeOK'
    <2>1. /\ gui' \in {"read", "authorize", "send", "served", "failed"}
          /\ stream' \in {stream, "answered", "closed"} /\ passed' \in {passed, at}
      OBVIOUS
    <2>2. UNCHANGED <<worker, medium, calls, history>>
      OBVIOUS
    <2> QED
      BY <2>1, <2>2 DEF TypeOK
  <1>2. DescriptorIsSelected'
    BY DEF TypeOK, DescriptorIsSelected
  <1>3. Settles'
    BY DEF TypeOK, Settles
  <1>4. Asked'
    BY DEF TypeOK, Asked
  <1>5. written' \subseteq {Selected} /\ ~unsynced'
    BY DEF DescriptorIsSelected
  <1>6. HandOver'
    BY DEF TypeOK, HandOver
  <1> QED
    BY <1>1, <1>2, <1>3, <1>4, <1>5, <1>6

LEMMA ArbitrateInv == ASSUME IndInv, Arbitrate PROVE IndInv'
  <1> USE MacAssumption, FoundDomain
      DEF IndInv, Arbitrate, CarryOut, NoRequest, worker, serving, medium, calls, history,
          Lookups
  <1>1. TypeOK'
    BY DEF TypeOK
  <1>2. DescriptorIsSelected'
    BY DEF TypeOK, DescriptorIsSelected
  <1>3. Settles'
    <2>1. tries = 0 /\ pc' = pc /\ tries' = tries /\ since' = since
      BY DEF Settles, Asked
    <2>2. gap' \in 0 .. Gap
      BY DEF TypeOK
    <2>3. at' = Selected => at = Selected
      BY DEF TypeOK
    <2> HIDE DEF IndInv, Arbitrate
    <2>4. gap' + tries' <= Gap
      BY <2>1, <2>2, NoTriesYet
    <2> QED
      BY <2>1, <2>3, <2>4 DEF Settles
  <1>4. Asked'
    BY DEF TypeOK, Asked
  <1>5. written' \subseteq {Selected} /\ ~unsynced'
    BY DEF DescriptorIsSelected
  <1>6. HandOver'
    BY DEF TypeOK, HandOver
  <1> QED
    BY <1>1, <1>2, <1>3, <1>4, <1>5, <1>6

LEMMA ArbitrateLateInv == ASSUME IndInv, ArbitrateLate PROVE IndInv'
  <1> USE MacAssumption, FoundDomain
      DEF IndInv, ArbitrateLate, CarryOut, NoRequest, worker, serving, medium, calls, history,
          Lookups
  <1>1. TypeOK'
    BY DEF TypeOK
  <1>2. DescriptorIsSelected'
    BY DEF TypeOK, DescriptorIsSelected
  <1>3. Settles'
    BY DEF TypeOK, Settles
  <1>4. Asked'
    BY DEF TypeOK, Asked
  <1>5. written' \subseteq {Selected} /\ ~unsynced'
    BY DEF DescriptorIsSelected
  <1>6. HandOver'
    BY DEF TypeOK, HandOver
  <1> QED
    BY <1>1, <1>2, <1>3, <1>4, <1>5, <1>6

LEMMA StopWorkerInv == ASSUME IndInv, StopWorker PROVE IndInv'
  <1> USE MacAssumption, FoundDomain
      DEF IndInv, StopWorker, NoRequest, worker, serving, medium, calls, history, Lookups
  <1>1. TypeOK'
    BY DEF TypeOK
  <1>2. DescriptorIsSelected'
    BY DEF TypeOK, DescriptorIsSelected
  <1>3. Settles'
    BY DEF TypeOK, Settles
  <1>4. Asked'
    BY DEF TypeOK, Asked
  <1>5. written' \subseteq {Selected} /\ ~unsynced'
    BY DEF DescriptorIsSelected
  <1>6. HandOver'
    BY DEF TypeOK, HandOver
  <1> QED
    BY <1>1, <1>2, <1>3, <1>4, <1>5, <1>6

LEMMA PullInv == ASSUME IndInv, Pull PROVE IndInv'
  <1> USE MacAssumption, FoundDomain
      DEF IndInv, Pull, worker, serving, medium, calls, history, Lookups
  <1>1. TypeOK'
    BY DEF TypeOK
  <1>2. DescriptorIsSelected'
    BY DEF TypeOK, DescriptorIsSelected
  <1>3. Settles'
    BY DEF TypeOK, Settles
  <1>4. Asked'
    BY DEF TypeOK, Asked
  <1>5. written' \subseteq {Selected} /\ ~unsynced'
    BY DEF DescriptorIsSelected
  <1>6. HandOver'
    BY DEF TypeOK, HandOver
  <1> QED
    BY <1>1, <1>2, <1>3, <1>4, <1>5, <1>6

LEMMA InsertInv == ASSUME IndInv, Insert PROVE IndInv'
  <1> USE MacAssumption, FoundDomain
      DEF IndInv, Insert, worker, serving, medium, calls, history, Lookups
  <1>1. TypeOK'
    BY DEF TypeOK
  <1>2. DescriptorIsSelected'
    BY DEF TypeOK, DescriptorIsSelected
  <1>3. Settles'
    BY DEF TypeOK, DescriptorIsSelected, Settles
  <1>4. Asked'
    BY DEF TypeOK, Asked
  <1>5. written' \subseteq {Selected} /\ ~unsynced'
    BY DEF DescriptorIsSelected
  <1>6. HandOver'
    BY DEF TypeOK, HandOver
  <1> QED
    BY <1>1, <1>2, <1>3, <1>4, <1>5, <1>6

LEMMA InitInv == Init => IndInv
  <1> SUFFICES ASSUME Init PROVE IndInv
    OBVIOUS
  <1> USE MacAssumption, FoundDomain DEF Init, Lookups
  <1>1. TypeOK
    <2>1. {flashed, missing, unsynced} \subseteq BOOLEAN
      BY Zenon
    <2> QED
      BY <2>1 DEF TypeOK
  <1>2. DescriptorIsSelected
    BY DEF DescriptorIsSelected
  <1>3. Settles /\ Asked /\ HandOver
    BY DEF Settles, Asked, HandOver
  <1> QED
    BY <1>1, <1>2, <1>3, Zenon DEF IndInv

LEMMA NextInv == IndInv /\ [Next]_vars => IndInv'
  <1> SUFFICES ASSUME IndInv, [Next]_vars PROVE IndInv'
    OBVIOUS
  <1>1. CASE Worker
    BY <1>1, LookUpInv, CallUnmountInv, CallEjectInv, FinishCallInv, ConnectInv, SendRequestInv,
       ReceiveInv, CheckDescriptorInv, WriteAndVerifyInv DEF Worker
  <1>2. CASE Gui
    BY <1>2, GuiInv
  <1>3. CASE Environment
    BY <1>3, ArbitrateInv, ArbitrateLateInv, StopWorkerInv, PullInv, InsertInv DEF Environment
  <1>4. CASE UNCHANGED vars
    BY <1>4 DEF IndInv, TypeOK, DescriptorIsSelected, Settles, Asked, HandOver, vars,
                worker, serving, medium, calls, history
  <1> QED
    BY <1>1, <1>2, <1>3, <1>4 DEF Next

(* Whatever gets the BSD name of the card, when authopen opens it and when *)
(* Disk Arbitration answers, only the selected medium is written, and each *)
(* write is durable when it returns.                                       *)
THEOREM MacInvariant == Spec => []IndInv
  <1> QED
    BY InitInv, NextInv, PTL DEF Spec

-----------------------------------------------------------------------------
(* What is asked of Disk Arbitration *)

LEMMA AskStep ==
  ASSUME IndInv, [Next]_vars, request' # request, request' # NoRequest
  PROVE  request'.on = Selected \/ "gone" \in since
  <1>1. ~ Gui /\ ~ LookUp /\ ~ FinishCall /\ ~ Connect /\ ~ SendRequest /\ ~ Receive
    BY DEF Gui, Accept, ReadRequest, AuthOpen, SendDescriptor, LookUp, FinishCall, Await, Connect,
           SendRequest, Receive, calls
  <1>2. ~ CheckDescriptor /\ ~ WriteAndVerify /\ ~ Environment /\ ~ UNCHANGED vars
    BY DEF CheckDescriptor, WriteAndVerify, Environment, Arbitrate, ArbitrateLate, StopWorker,
           Pull, Insert, calls, vars
  <1>3. CallUnmount \/ CallEject
    BY <1>1, <1>2 DEF Next, Worker
  <1>4. pc \in {"callUnmount", "callEject"} /\ request'.on = at
    BY <1>3 DEF CallUnmount, CallEject, Ask
  <1> QED
    BY <1>4 DEF IndInv, Asked

(* Disk Arbitration unmounts and ejects by BSD name, and yet it is only    *)
(* asked for the selected medium, unless that left after the lookup.       *)
THEOREM CallsHitTheCardAlways == Spec => CallsHitTheCard
  <1>1. IndInv /\ [Next]_vars =>
          [request' # request /\ request' # NoRequest =>
             request'.on = Selected \/ "gone" \in since]_vars
    BY AskStep
  <1> QED
    BY <1>1, MacInvariant, PTL DEF Spec, CallsHitTheCard

-----------------------------------------------------------------------------
(* What is reported missing *)

(* The last attempt finds a medium that is there and was not unmounted     *)
(* again.                                                                  *)
LEMMA LastAttempt ==
  ASSUME IndInv, at = Selected, "late" \notin since, tries + 1 >= Attempts
  PROVE  RegistryDrive
  <1>1. tries \in Nat /\ gap \in Nat /\ gap + tries <= Gap
    BY MacAssumption DEF IndInv, TypeOK, Settles
  <1>2. gap = 0
    BY <1>1, MacAssumption
  <1> QED
    BY <1>2, MacAssumption DEF RegistryDrive, QueryRemovableMedia

LEMMA MissingStep ==
  ASSUME IndInv, MissingMeansGone, [Next]_vars
  PROVE  MissingMeansGone'
  <1>1. at # Selected => at' # Selected
    <2> SUFFICES ASSUME at' # at PROVE at' \in fresh \cup {NoMedium}
      BY MacAssumption DEF IndInv, DescriptorIsSelected
    <2>1. ~ Worker /\ ~ Gui /\ ~ StopWorker /\ ~ UNCHANGED vars
      BY DEF Worker, LookUp, CallUnmount, CallEject, Ask, FinishCall, Connect, SendRequest, Receive,
             CheckDescriptor, WriteAndVerify, Gui, Accept, ReadRequest, AuthOpen, SendDescriptor,
             StopWorker, vars, medium
    <2>2. CASE Arbitrate \/ ArbitrateLate
      BY <2>2 DEF Arbitrate, ArbitrateLate, CarryOut
    <2>3. CASE Pull \/ Insert
      BY <2>3 DEF Pull, Insert
    <2> QED
      BY <2>1, <2>2, <2>3 DEF Next, Environment
  <1>2. CASE LookUp
    <2> USE DEF LookUp
    <2>1. at' = at
      BY <1>2
    <2>2. missing' = missing \/ (missing' = (missing \/ "late" \notin since)
                                 /\ tries + 1 >= Attempts /\ ~RegistryDrive)
      BY <1>2 DEF Missing
    <2>3. CASE missing' = missing
      BY <2>1, <2>3 DEF MissingMeansGone
    <2>4. CASE missing' = (missing \/ "late" \notin since)
                /\ tries + 1 >= Attempts /\ ~RegistryDrive
      <3>1. at = Selected => "late" \in since
        BY <2>4, LastAttempt
      <3> QED
        BY <2>1, <2>4, <3>1 DEF MissingMeansGone
    <2> QED
      BY <2>2, <2>3, <2>4
  <1>3. ~ LookUp => missing' = missing
    BY DEF Next, Worker, CallUnmount, CallEject, Ask, FinishCall, Connect, SendRequest, Receive,
           CheckDescriptor, WriteAndVerify, Gui, Accept, ReadRequest, AuthOpen, SendDescriptor,
           Environment, Arbitrate, ArbitrateLate, StopWorker, Pull, Insert, vars, worker
  <1> QED
    BY <1>1, <1>2, <1>3 DEF MissingMeansGone

(* A card that settles within TARGET_SETTLE_ATTEMPTS lookups is not        *)
(* reported missing while it is in the reader.                             *)
THEOREM MissingMeansGoneAlways == Spec => []MissingMeansGone
  <1>1. Init => MissingMeansGone
    BY Zenon DEF Init, MissingMeansGone
  <1>2. IndInv /\ MissingMeansGone /\ [Next]_vars => MissingMeansGone'
    BY MissingStep
  <1> QED
    BY <1>1, <1>2, MacInvariant, PTL DEF Spec

-----------------------------------------------------------------------------
(* The job gets on *)

(* A failing call leads to the cleanup, or from the cleanup to its end.    *)
LEMMA FailureGetsOn ==
  ASSUME TypeOK, CallFails, pc \notin {"done", "killed"}
  PROVE  Left' < Left
  <1> USE DEF Left, Ahead, Ejecting
  <1>1. CASE pc = "validate"
    BY <1>1 DEF CallFails
  <1>2. CASE pc \in Ejecting
    BY <1>2 DEF CallFails, Ends
  <1>3. CASE pc # "validate" /\ pc \notin Ejecting
    <2>1. pc' = "eject"
      BY <1>3 DEF CallFails
    <2>2. Ahead[pc] \in 7 .. 18 /\ Left = Ahead[pc]
      BY <1>3, FoundDomain DEF TypeOK, Lookups
    <2>3. Left' \in 0 .. 6
      BY <2>1
    <2> QED
      BY <2>2, <2>3
  <1> QED
    BY <1>1, <1>2, <1>3

LEMMA LookUpGetsOn ==
  ASSUME TypeOK, LookUp
  PROVE  Left' < Left \/ (Left' = Left /\ tries' = tries + 1)
  <1>1. pc \in Lookups
    BY FoundDomain DEF LookUp
  <1>2. CASE CallFails
    BY <1>1, <1>2, FailureGetsOn DEF Lookups
  <1>3. CASE tries' = tries + 1 /\ UNCHANGED <<pc, flashed>>
    BY <1>3 DEF Left
  <1>4. CASE pc' = Found[pc] /\ UNCHANGED flashed
    BY <1>1, <1>4, FoundNext DEF Left, Ahead, Ejecting, Lookups
  <1> QED
    BY <1>2, <1>3, <1>4 DEF LookUp, Missing

LEMMA CallGetsOn ==
  ASSUME TypeOK, CallUnmount \/ CallEject \/ FinishCall
  PROVE  Left' < Left
  <1>1. CASE CallFails
    BY <1>1, FailureGetsOn DEF CallUnmount, CallEject, FinishCall
  <1>2. CASE ~ CallFails /\ (CallUnmount \/ CallEject)
    BY <1>2 DEF CallUnmount, CallEject, Ask, Left, Ahead, Ejecting
  <1>3. CASE ~ CallFails /\ FinishCall
    BY <1>3 DEF FinishCall, Await, Ends, Left, Ahead, Ejecting
  <1> QED
    BY <1>1, <1>2, <1>3

LEMMA TargetGetsOn ==
  ASSUME TypeOK, Connect \/ SendRequest \/ Receive \/ CheckDescriptor \/ WriteAndVerify
  PROVE  Left' < Left
  <1>1. CASE CallFails /\ ~ WriteAndVerify
    BY <1>1, FailureGetsOn DEF Connect, SendRequest, Receive, CheckDescriptor
  <1>2. CASE ~ CallFails /\ ~ WriteAndVerify
    BY <1>2 DEF Connect, SendRequest, Receive, CheckDescriptor, Left, Ahead, Ejecting
  <1>3. CASE WriteAndVerify
    <2>1. Left = 7
      BY <1>3 DEF WriteAndVerify, Left, Ahead, Ejecting
    <2>2. Left' \in 0 .. 6
      BY <1>3 DEF WriteAndVerify, Left, Ahead, Ejecting
    <2> QED
      BY <2>1, <2>2
  <1> QED
    BY <1>1, <1>2, <1>3

LEMMA LeftIsNat == ASSUME TypeOK PROVE Left \in 0 .. 18
  <1>1. Ahead[pc] \in 0 .. 18 /\ (pc \in Ejecting => Ahead[pc] <= 3)
    BY FoundDomain DEF TypeOK, Lookups, Ahead, Ejecting
  <1> QED
    BY <1>1 DEF Left

LEMMA OthersHoldNothingUp ==
  ASSUME TypeOK, Gui \/ Environment \/ UNCHANGED vars
  PROVE  Left' <= Left
  <1>1. CASE StopWorker
    <2>1. Left' = 0
      BY <1>1 DEF StopWorker, Left, Ahead, Ejecting
    <2> QED
      BY <2>1, LeftIsNat
  <1>2. CASE ~ StopWorker
    <2>1. UNCHANGED <<pc, flashed>>
      BY <1>2 DEF Gui, Accept, ReadRequest, AuthOpen, SendDescriptor, Environment, Arbitrate,
                  ArbitrateLate, Pull, Insert, vars, worker
    <2> QED
      BY <2>1, LeftIsNat DEF Left
  <1> QED
    BY <1>1, <1>2

(* Each of the 18 steps of the job, and of the at most Attempts rounds of  *)
(* each lookup, is left behind for good, whatever the desktop process,     *)
(* Disk Arbitration and the user do.  With HandOver of IndInv, by which no *)
(* process waits for one that waits for it, this is what JobEnds rests on. *)
THEOREM GetsOnAlways == Spec => [](Left \in 0 .. 18 /\ tries \in 0 .. Attempts - 1) /\ GetsOn
  <1>1. IndInv => Left \in 0 .. 18 /\ tries \in 0 .. Attempts - 1
    BY LeftIsNat DEF IndInv, TypeOK
  <1>2. IndInv /\ [Next]_vars =>
          [IF Worker THEN Left' < Left \/ (Left' = Left /\ tries' = tries + 1)
                     ELSE Left' <= Left]_vars
    <2> SUFFICES ASSUME IndInv, [Next]_vars
                 PROVE  IF Worker THEN Left' < Left \/ (Left' = Left /\ tries' = tries + 1)
                                  ELSE Left' <= Left
      OBVIOUS
    <2>1. TypeOK
      BY DEF IndInv
    <2>2. Worker => Left' < Left \/ (Left' = Left /\ tries' = tries + 1)
      BY <2>1, LookUpGetsOn, CallGetsOn, TargetGetsOn DEF Worker
    <2>3. ~ Worker => Left' <= Left
      BY <2>1, OthersHoldNothingUp DEF Next
    <2> QED
      BY <2>2, <2>3
  <1> QED
    BY <1>1, <1>2, MacInvariant, PTL DEF Spec, GetsOn
================================================================================
