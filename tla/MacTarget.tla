------------------------------- MODULE MacTarget -------------------------------
(***************************************************************************)
(* The macOS worker backend, src/src/worker/macos.rs, with the lookups of  *)
(* drives.rs, the calls of macos_native.rs to Disk Arbitration, and the    *)
(* socket over which the desktop process (src/src/pipeline/macos.rs) hands *)
(* the raw descriptor to the worker.                                       *)
(*                                                                         *)
(* A medium names one insertion of a card: its IORegistryEntryID.  The BSD *)
(* name is that of the selected one; another medium may come to have it.   *)
(***************************************************************************)
EXTENDS Integers, FiniteSets

CONSTANTS
  Media,      \* what gets the BSD name during one job
  Selected,
  NoMedium,
  Cards,      \* those marked whole, writable, removable, ejectable, physical
  Attempts,   \* TARGET_SETTLE_ATTEMPTS
  Gap         \* lookups for which a medium that settles is not listed

ASSUME MacAssumption ==
  /\ Selected \in Cards /\ Cards \subseteq Media /\ NoMedium \notin Media
  /\ Attempts \in Nat /\ Gap \in Nat /\ Gap < Attempts

VARIABLES
  pc,         \* the worker
  tries,      \* attempts of the lookup in progress
  fd,         \* the medium of the descriptor, MacOsTarget
  flashed,    \* run_after_unmount ejects, and not yet run_job after an error
  missing,    \* history: a lookup that nothing late disturbed found nothing
  gui,        \* AuthorizedTargetListener.try_serve
  stream,     \* the connection between the two
  passed      \* the descriptor authopen has opened

VARIABLES
  at,         \* the medium that has the BSD name
  fresh,      \* media that were not inserted yet
  gap,        \* lookups for which the medium is still not listed
  request,    \* what Disk Arbitration was asked for by the call in progress
  answer,     \* what the callback was told
  abandoned,  \* requests whose caller has given up
  written,    \* media that were written
  unsynced,   \* a write has returned before it was durable
  since       \* history: what happened since the last good lookup

worker  == <<pc, tries, fd, flashed, missing>>
serving == <<gui, stream, passed>>
medium  == <<at, fresh, gap>>
calls   == <<request, answer, abandoned>>
history == <<written, unsynced, since>>
vars    == <<worker, serving, medium, calls, history>>

NoRequest == [kind |-> "none", on |-> NoMedium]
Requests  == [kind: {"unmount", "eject"}, on: Media]

Init ==
  /\ pc = "validate" /\ tries = 0 /\ fd = NoMedium
  /\ flashed = FALSE /\ missing = FALSE
  /\ gui = "listen" /\ stream = "none" /\ passed = NoMedium
  /\ at = Selected /\ fresh = Media \ {Selected} /\ gap = 0
  /\ request = NoRequest /\ answer = "none" /\ abandoned = {}
  /\ written = {} /\ unsynced = FALSE /\ since = {}

-----------------------------------------------------------------------------
(* Looking up the selected medium *)

(* query_removable_media: what IOKit lists with all five marks and Disk    *)
(* Arbitration describes in the same way.                                  *)
QueryRemovableMedia == IF gap > 0 THEN {} ELSE {at} \cap Cards

(* registry_drive: the entry under the BSD name has the selected id.       *)
RegistryDrive_ByName == QueryRemovableMedia # {}

RegistryDrive == Selected \in QueryRemovableMedia

(* Where a job that has found its target goes on. *)
Found ==
  [validate   |-> "unmount",       \* run_job
   unmount    |-> "callUnmount",   \* before and after the call
   unmounted  |-> "revalidate",
   revalidate |-> "connect",       \* run_after_unmount
   opened     |-> "write",         \* after the raw open
   eject      |-> "callEject"]

(* run_job ejects once more when the eject of run_after_unmount fails.     *)
Ends(how) ==
  \/ flashed /\ pc' = "eject" /\ flashed' = FALSE
  \/ (flashed => how = "ok") /\ pc' = "done" /\ UNCHANGED flashed

Ejecting == {"eject", "callEject", "waitEject"}

(* A platform call fails: before the unmount the job ends, after it comes  *)
(* the cleanup.  An open descriptor is dropped.                            *)
CallFails ==
  /\ fd' = NoMedium /\ tries' = 0
  /\ CASE pc = "validate"  -> pc' = "done" /\ UNCHANGED flashed
       [] pc \in Ejecting   -> Ends("failed")
       [] OTHER             -> pc' = "eject" /\ UNCHANGED flashed

Missing_LastIsSkipped ==
  \/ /\ tries + 2 < Attempts
     /\ tries' = tries + 1
     /\ UNCHANGED <<pc, fd, flashed, missing>>
  \/ tries + 2 >= Attempts /\ CallFails /\ missing' = (missing \/ "late" \notin since)

(* The medium is not listed: look again after a while, or give it up.      *)
Missing ==
  \/ /\ tries + 1 < Attempts
     /\ tries' = tries + 1
     /\ UNCHANGED <<pc, fd, flashed, missing>>
  \/ tries + 1 >= Attempts /\ CallFails /\ missing' = (missing \/ "late" \notin since)

(* One round of retry_target_lookup.  An error of IOKit, or a disagreement *)
(* with Disk Arbitration about any card, ends the lookup at once.          *)
LookUp ==
  /\ pc \in DOMAIN Found
  /\ \/ /\ RegistryDrive
        /\ pc' = Found[pc] /\ tries' = 0 /\ since' = {}
        /\ UNCHANGED <<fd, flashed, missing, gap>>
     \/ /\ ~RegistryDrive
        /\ Missing
        /\ gap' = IF gap > 0 THEN gap - 1 ELSE 0
        /\ UNCHANGED since
     \/ CallFails /\ UNCHANGED <<missing, gap, since>>
  /\ UNCHANGED <<serving, at, fresh, calls, written, unsynced>>

-----------------------------------------------------------------------------
(* Disk Arbitration *)

(* perform_disk_action asks by BSD name, for whatever has it now.          *)
Ask(kind, wait) ==
  /\ \/ /\ at # NoMedium
        /\ request' = [kind |-> kind, on |-> at] /\ answer' = "none"
        /\ pc' = wait
        /\ UNCHANGED <<tries, fd, flashed>>
     \/ CallFails /\ UNCHANGED <<request, answer>>
  /\ UNCHANGED <<missing, serving, medium, abandoned, history>>

CallUnmount == pc = "callUnmount" /\ Ask("unmount", "waitUnmount")
CallEject   == pc = "callEject" /\ Ask("eject", "waitEject")

Await_NoDeadline ==
  /\ answer # "none"
  /\ \/ /\ answer = "done"
        /\ IF pc = "waitUnmount"
             THEN pc' = "unmounted" /\ UNCHANGED flashed
             ELSE Ends("ok")
        /\ UNCHANGED <<tries, fd>>
     \/ answer = "refused" /\ CallFails
  /\ request' = NoRequest /\ UNCHANGED abandoned

(* The run loop turns until the callback was called, or for 30 seconds;    *)
(* then the request is left to itself.                                     *)
Await ==
  /\ \/ /\ answer = "done"
        /\ IF pc = "waitUnmount"
             THEN pc' = "unmounted" /\ UNCHANGED flashed
             ELSE Ends("ok")
        /\ UNCHANGED <<tries, fd, abandoned>>
     \/ answer = "refused" /\ CallFails /\ UNCHANGED abandoned
     \/ answer = "none" /\ CallFails /\ abandoned' = abandoned \cup {request}
  /\ request' = NoRequest

FinishCall ==
  /\ pc \in {"waitUnmount", "waitEject"}
  /\ Await
  /\ UNCHANGED <<missing, serving, medium, answer, history>>

(* What the daemon does for a request, in its own time.  A medium may take *)
(* a while to be listed again after an unmount.                            *)
CarryOut(r) ==
  /\ r.on = at
  /\ \/ r.kind = "unmount" /\ gap' \in 0 .. Gap /\ UNCHANGED at
     \/ r.kind = "eject" /\ at' = NoMedium /\ gap' = 0

Arbitrate ==
  /\ request # NoRequest /\ answer = "none"
  /\ \/ CarryOut(request) /\ answer' = "done"
     \/ answer' = "refused" /\ UNCHANGED <<at, gap>>
  /\ UNCHANGED <<worker, serving, fresh, request, abandoned, history>>

ArbitrateLate ==
  /\ \E r \in abandoned : CarryOut(r) /\ abandoned' = abandoned \ {r}
  /\ since' = since \cup {IF at' = at THEN "late" ELSE "gone"}
  /\ UNCHANGED <<worker, serving, fresh, request, answer, written, unsynced>>

-----------------------------------------------------------------------------
(* The raw descriptor *)

(* receive_authorized_target, up to its blocking recv_fds.                 *)
Connect ==
  /\ pc = "connect"
  /\ \/ /\ stream' = "connected" /\ pc' = "request"
        /\ UNCHANGED <<tries, fd, flashed>>
     \/ CallFails /\ UNCHANGED stream
  /\ UNCHANGED <<missing, gui, passed, medium, calls, history>>

SendRequest ==
  /\ pc = "request"
  /\ \/ /\ stream = "connected" /\ stream' = "requested" /\ pc' = "receive"
        /\ UNCHANGED <<tries, fd, flashed>>
     \/ CallFails /\ stream' = "closed"
  /\ UNCHANGED <<missing, gui, passed, medium, calls, history>>

Receive ==
  /\ pc = "receive"
  /\ \/ /\ stream = "answered" /\ fd' = passed /\ pc' = "descriptor"
        /\ UNCHANGED <<tries, flashed>>
     \/ stream \in {"answered", "closed"} /\ CallFails
  /\ UNCHANGED <<missing, serving, medium, calls, history>>

CheckDescriptor_IsEnough ==
  /\ pc = "descriptor"
  /\ \/ at # NoMedium /\ pc' = "write" /\ UNCHANGED <<tries, fd, flashed>>
     \/ CallFails
  /\ UNCHANGED <<missing, serving, medium, calls, history>>

(* validate_authorized_descriptor compares device and inode numbers with   *)
(* those of the path.  They may have been given to another medium.         *)
CheckDescriptor ==
  /\ pc = "descriptor"
  /\ \/ at # NoMedium /\ pc' = "opened" /\ UNCHANGED <<tries, fd, flashed>>
     \/ CallFails
  /\ UNCHANGED <<missing, serving, medium, calls, history>>

(* AUTHOPEN_RAW_FLAGS.  MacOsTarget.sync_all does nothing.                 *)
RawFlags == {"readwrite", "sync"}

(* The writes through the descriptor, and the verification.                *)
WriteAndVerify ==
  /\ pc = "write"
  /\ \/ /\ fd = at
        /\ written' = written \cup {fd}
        /\ unsynced' = (unsynced \/ "sync" \notin RawFlags)
     \/ UNCHANGED <<written, unsynced>>
  /\ fd' = NoMedium /\ flashed' \in BOOLEAN /\ pc' = "eject"
  /\ UNCHANGED <<tries, missing, serving, medium, calls, since>>

Worker ==
  \/ LookUp \/ CallUnmount \/ CallEject \/ FinishCall
  \/ Connect \/ SendRequest \/ Receive \/ CheckDescriptor \/ WriteAndVerify

-----------------------------------------------------------------------------
(* try_serve, in the desktop process *)

(* An error drops the stream, and the worker's recv_fds returns. *)
ServeFails == gui' = "failed" /\ stream' = "closed"

Accept ==
  /\ gui = "listen" /\ stream # "none"
  /\ \/ gui' = "read" /\ UNCHANGED stream
     \/ ServeFails
  /\ UNCHANGED <<worker, passed, medium, calls, history>>

ReadRequest ==
  /\ gui = "read"
  /\ \/ stream = "requested" /\ gui' = "authorize" /\ UNCHANGED stream
     \/ stream \in {"requested", "closed"} /\ ServeFails
  /\ UNCHANGED <<worker, passed, medium, calls, history>>

(* authorized_raw_target: authopen asks the user, and opens the path then. *)
AuthOpen ==
  /\ gui = "authorize"
  /\ \/ at # NoMedium /\ passed' = at /\ gui' = "send" /\ UNCHANGED stream
     \/ ServeFails /\ UNCHANGED passed
  /\ UNCHANGED <<worker, medium, calls, history>>

SendDescriptor ==
  /\ gui = "send"
  /\ \/ stream' = "answered" /\ gui' = "served"
     \/ ServeFails
  /\ UNCHANGED <<worker, passed, medium, calls, history>>

Gui == Accept \/ ReadRequest \/ AuthOpen \/ SendDescriptor

(* request_stop after an error of try_serve. *)
StopWorker ==
  /\ gui = "failed" /\ pc \notin {"done", "killed"}
  /\ pc' = "killed" /\ fd' = NoMedium
  /\ abandoned' = abandoned \cup ({request} \ {NoRequest}) /\ request' = NoRequest
  /\ UNCHANGED <<tries, flashed, missing, serving, medium, answer, history>>

-----------------------------------------------------------------------------
(* The environment *)

Pull ==
  /\ at # NoMedium /\ at' = NoMedium /\ gap' = 0 /\ since' = since \cup {"gone"}
  /\ UNCHANGED <<worker, serving, fresh, calls, written, unsynced>>

Insert ==
  /\ at = NoMedium
  /\ \E m \in fresh : at' = m /\ fresh' = fresh \ {m}
  /\ UNCHANGED <<worker, serving, gap, calls, history>>

Environment == Arbitrate \/ ArbitrateLate \/ StopWorker \/ Pull \/ Insert

Next == Worker \/ Gui \/ Environment

Spec == Init /\ [][Next]_vars

(* Both processes run, and the user answers the dialog of authopen.  Disk  *)
(* Arbitration owes no answer.                                             *)
FairSpec == Spec /\ WF_vars(Worker) /\ WF_vars(Gui)

-----------------------------------------------------------------------------
(* Properties *)

TypeOK ==
  /\ pc \in DOMAIN Found \cup {"callUnmount", "waitUnmount", "connect", "request", "receive",
                               "descriptor", "write", "callEject", "waitEject", "done", "killed"}
  /\ tries \in 0 .. Attempts - 1 /\ gap \in 0 .. Gap
  /\ {fd, passed, at} \subseteq Media \cup {NoMedium}
  /\ {flashed, missing, unsynced} \subseteq BOOLEAN /\ since \subseteq {"gone", "late"}
  /\ answer \in {"none", "done", "refused"}
  /\ gui \in {"listen", "read", "authorize", "send", "served", "failed"}
  /\ stream \in {"none", "connected", "requested", "answered", "closed"}
  /\ request \in Requests \cup {NoRequest} /\ abandoned \subseteq Requests
  /\ fresh \subseteq Media \ {at} /\ written \subseteq Media

(* A descriptor that was opened under the BSD name, here or on its way     *)
(* from authopen, is that of the selected medium, or the selected medium   *)
(* has left; and the worker holds one only while it uses it.               *)
DescriptorIsSelected ==
  /\ Selected \notin fresh
  /\ fd \notin {NoMedium, Selected} => at # Selected
  /\ passed \notin {NoMedium, Selected} => at # Selected
  /\ gui \in {"send", "served"} \/ stream = "answered" => passed # NoMedium
  /\ pc = "write" => fd = Selected
  /\ (pc \in {"descriptor", "opened", "write"}) = (fd # NoMedium)

(* A lookup has attempts left for as long as a medium that was unmounted   *)
(* in time is still not listed.                                            *)
Settles ==
  /\ pc \notin DOMAIN Found \cup {"killed"} => tries = 0
  /\ at = Selected /\ "late" \notin since => gap + tries <= Gap

(* Disk Arbitration works for the call in progress only, and a call is     *)
(* made for the medium that the last lookup has seen.                      *)
Asked ==
  /\ (request # NoRequest) = (pc \in {"waitUnmount", "waitEject"})
  /\ pc \in {"callUnmount", "callEject"} => at = Selected \/ "gone" \in since

(* While the worker waits in recv_fds the desktop process still has to     *)
(* answer or to hang up, and while that waits for the request the worker   *)
(* has still to send it: neither waits for the other.                      *)
HandOver ==
  /\ pc \in {"validate", "unmount", "callUnmount", "waitUnmount", "unmounted", "revalidate",
            "connect"} \/ stream = "none" => stream = "none" /\ gui = "listen"
  /\ pc = "request" => stream \in {"connected", "closed"}
  /\ pc = "receive" => stream \in {"requested", "answered", "closed"}
  /\ stream = "connected" => pc = "request" /\ gui \in {"listen", "read"}
  /\ stream = "requested" => pc = "receive" /\ gui \in {"listen", "read", "authorize", "send"}
  /\ gui \in {"authorize", "send"} => stream = "requested"
  /\ gui = "failed" => stream = "closed"

(* Whatever gets the BSD name, and also when authopen opens another medium *)
(* under numbers that were reused, only the selected one is written, and   *)
(* what was written is durable although sync_all does nothing.             *)
IndInv ==
  /\ TypeOK /\ DescriptorIsSelected /\ Settles /\ Asked /\ HandOver
  /\ written \subseteq {Selected} /\ ~unsynced

(* Disk Arbitration is asked by name.  It is asked for the selected medium *)
(* unless that has gone after the last lookup, which was of its id.        *)
CallsHitTheCard ==
  [][request' # request /\ request' # NoRequest =>
       request'.on = Selected \/ "gone" \in since]_vars

(* A card that is still there is not reported missing because it takes a   *)
(* while to be listed again after an unmount; unless Disk Arbitration      *)
(* unmounts once more for a call that has given up.                        *)
MissingMeansGone == missing => at # Selected

(* How far the job is from its end.  The eject of run_after_unmount may be *)
(* followed by that of run_job.                                            *)
Ahead ==
  [validate |-> 18, unmount |-> 17, callUnmount |-> 16, waitUnmount |-> 15, unmounted |-> 14,
   revalidate |-> 13, connect |-> 12, request |-> 11, receive |-> 10, descriptor |-> 9,
   opened |-> 8, write |-> 7, eject |-> 3, callEject |-> 2, waitEject |-> 1,
   done |-> 0, killed |-> 0]

Left == Ahead[pc] + IF flashed /\ pc \in Ejecting THEN 3 ELSE 0

(* A step of the worker brings the job nearer to its end, or is one of the *)
(* Attempts rounds of a lookup; and nothing takes the job back.            *)
GetsOn ==
  [][IF Worker THEN Left' < Left \/ (Left' = Left /\ tries' = tries + 1)
               ELSE Left' <= Left]_vars

(* The job ends, though Disk Arbitration may never answer.                 *)
JobEnds == <>(pc \in {"done", "killed"})
=============================================================================
