------------------------------ MODULE LinuxTarget ------------------------------
(***************************************************************************)
(* The Linux worker backend, src/src/worker/linux.rs, system call by       *)
(* system call: how one job validates, unmounts, opens, reads back and     *)
(* ejects the selected card while the user, the desktop and the kernel     *)
(* change what its device numbers stand for.                               *)
(*                                                                         *)
(* A device number names whatever is there at the moment: every card put   *)
(* into the reader is Whole with partitions Parts, and a device-mapper     *)
(* number of Maps can be closed and given to another stack.  Only the      *)
(* diskseq (the medium itself) is never given out twice.  One walk of      *)
(* sysfs, one read of a /proc file and one D-Bus call are one step each.   *)
(***************************************************************************)
EXTENDS AlignedReader, FiniteSets

CONSTANTS
  Media,      \* the diskseq of every medium that is inserted
  Selected,   \* the medium the job names
  NoMedium,   \* the empty reader; also no open descriptor
  Whole,      \* the device number of the disk in the reader
  Parts,      \* the device numbers of its partitions
  Maps,       \* device-mapper numbers
  System,     \* the device number of a disk that is not in the reader
  Anonymous,  \* what mountinfo reports for a btrfs mount
  Sector,     \* KERNEL_SECTOR_SIZE
  Capacity,   \* the capacity of a medium
  Buffer,     \* the largest read of the verification loop
  MaxEvents   \* bound: what the environment does during one job

Own     == {Whole} \cup Parts
Devices == Own \cup Maps \cup {System}
Paths   == {"/", "/media/a", "/media/a/b"}
Depth   == [path \in Paths |-> CASE path = "/" -> 0
                                 [] path = "/media/a" -> 2 [] OTHER -> 3]
Mounts  == [on: Devices, reported: Devices \cup {Anonymous}, path: Paths]

ASSUME LinuxAssumption ==
  /\ Selected \in Media /\ NoMedium \notin Media
  /\ Anonymous \notin Devices /\ Own \cap Maps = {} /\ System \notin Own \cup Maps
  /\ Sector \in Nat \ {0} /\ Capacity \in Nat /\ Capacity % Sector = 0
  /\ Buffer \in Nat \ {0} /\ MaxEvents \in Nat

VARIABLES
  pc, ret,    \* where the worker is; where a running validation returns to
  ejecting,   \* eject called unmount
  flashed,    \* run_after_unmount ejects, and not yet run_job after an error
  related,    \* device_numbers of unmount
  checked,    \* related of the running validation
  todo,       \* mounts that unmount has still to take down
  fd,         \* the medium of the open descriptor
  position,   \* DirectVerifier.position
  handed,     \* history: the bytes the verifier handed out
  result      \* "none", or how the job ended

VARIABLES
  slot, fresh,  \* the medium in the reader; media not inserted yet
  stack,        \* <<lower, holder>> pairs of sysfs
  mounts,       \* the mount table
  swaps,        \* devices with active swap
  written,      \* history: media that were written
  events,       \* bound
  since         \* history: what happened after the last check (see below)

worker == <<pc, ret, ejecting, flashed, checked, related, todo, fd, position, handed, result>>
world  == <<slot, fresh, stack, mounts, swaps, written, events>>
vars   == <<worker, world, since>>

(* since: "swap" after the last look at the diskseq the medium changed,    *)
(* "close" and "stir" after the device numbers were collected a mapping    *)
(* was closed, or anything changed; "call" a destructive call was made     *)
(* after the last validation.                                              *)
Since == {"swap", "close", "stir", "call"}

-----------------------------------------------------------------------------
(* sysfs *)

Lower(d) == {h \in Maps : <<d, h>> \in stack}

(* The disk, its partitions, and every holder above them. *)
Related ==
  Own \cup {d \in Maps : \A set \in SUBSET Maps :
     (\A e \in Own \cup set : Lower(e) \subseteq set) => d \in set}

Present(d) ==
  \/ d \in Own /\ slot # NoMedium
  \/ d = System
  \/ \E e \in Devices : <<e, d>> \in stack

(* What the kernel's exclusive claim of the whole disk collides with. *)
Claimed ==
  \/ \E m \in mounts : m.on \in Related
  \/ \E d \in swaps : d \in Related
  \/ Related # Own

HoldsSystem ==
  \/ \E m \in mounts : m.path = "/" /\ m.on \in Related
  \/ \E d \in swaps : d \in Related

(* Two volumes of the card, one mounted beneath the other. *)
AutomountedPair(upper, lower) ==
  {[on |-> upper, reported |-> upper, path |-> "/media/a"],
   [on |-> lower, reported |-> lower, path |-> "/media/a/b"]}

Init ==
  /\ pc = "inspect" /\ ret = "job" /\ ejecting = FALSE /\ flashed = FALSE
  /\ checked = {} /\ related = {} /\ todo = {} /\ fd = NoMedium
  /\ position = 0 /\ handed = <<>> /\ result = "none"
  /\ slot = Selected /\ fresh = Media \ {Selected}
  /\ stack \in {{}} \cup {{<<d, h>>} \cup ({h} \X chain) :
                            d \in Parts, h \in Maps, chain \in SUBSET Maps}
  /\ \A pair \in stack : pair[1] # pair[2]
  /\ \E root \in Devices, number \in Devices \cup {Anonymous} :
       LET system == [on |-> root, reported |-> number, path |-> "/"] IN
       /\ Present(root) /\ number \in {root, Anonymous}
       /\ \/ mounts = {system}
          \/ /\ root = System /\ stack = {}
             /\ \E upper, lower \in Parts :
                  upper # lower /\ mounts = {system} \cup AutomountedPair(upper, lower)
  /\ swaps \in {{}} \cup {{d} : d \in {e \in Devices : Present(e)}}
  /\ written = {} /\ events = 0 /\ since = {}

-----------------------------------------------------------------------------
(* Control *)

Goto(label) == pc' = label /\ UNCHANGED <<ret, ejecting, flashed, result>>

Validate(next) ==
  pc' = "inspect" /\ ret' = next /\ UNCHANGED <<ejecting, flashed, result>>

End(how) == pc' = "done" /\ result' = how /\ UNCHANGED <<ret, ejecting, flashed>>

Cleanup ==
  /\ pc' = "inspect" /\ ret' = "collected" /\ ejecting' = TRUE /\ flashed' = FALSE
  /\ UNCHANGED result

(* An error before the first unmount, or of the cleanup itself, ends the   *)
(* job; any other one makes run_job eject the card, also one of eject.     *)
Fail == IF ret = "job" \/ (ejecting /\ ~flashed) THEN End("failed") ELSE Cleanup

Fails ==
  Fail /\ fd' = NoMedium /\ checked' = {} /\ UNCHANGED <<related, todo, position, handed>>
Quiet == UNCHANGED <<checked, related, todo, fd, position, handed>>
Still == UNCHANGED world

Inspect_ByPath ==
  /\ pc = "inspect" /\ Still
  /\ \/ /\ slot # NoMedium /\ Goto("collect") /\ Quiet
        /\ since' = since \ {"swap"}
     \/ Fails /\ UNCHANGED since

(* validate_target_at.  Any of the reads may fail, also for a medium that  *)
(* is not removable, is read-only, or whose device node is not its own.    *)
Inspect ==
  /\ pc = "inspect" /\ Still
  /\ \/ /\ slot = Selected /\ Goto("collect") /\ Quiet
        /\ since' = since \ {"swap"}
     \/ Fails /\ UNCHANGED since

Collect_DirectOnly ==
  /\ pc = "collect" /\ Still /\ UNCHANGED since
  /\ \/ /\ slot # NoMedium /\ Goto("mounts")
        /\ checked' = Own \cup UNION {Lower(d) : d \in Own}
        /\ UNCHANGED <<related, todo, fd, position, handed>>
     \/ Fails

Collect ==
  /\ pc = "collect" /\ Still /\ UNCHANGED since
  /\ \/ /\ slot # NoMedium /\ checked' = Related /\ Goto("mounts")
        /\ UNCHANGED <<related, todo, fd, position, handed>>
     \/ Fails

RejectProtectedMounts ==
  /\ pc = "mounts" /\ Still /\ UNCHANGED since
  /\ \/ /\ ~ \E m \in mounts : m.reported \in checked /\ m.path = "/"
        /\ Goto("swaps") /\ Quiet
     \/ Fails

RejectRelatedSwap ==
  /\ pc = "swaps" /\ Still
  /\ \/ /\ swaps \cap checked = {} /\ Goto(ret)
        /\ checked' = {} /\ since' = since \ {"call"}
        /\ UNCHANGED <<related, todo, fd, position, handed>>
     \/ Fails /\ UNCHANGED since

Validated == ret = "job" /\ pc = "job" /\ Validate("collected") /\ Quiet /\ Still /\ UNCHANGED since

ValidateTarget ==
  \/ Inspect \/ Collect \/ RejectProtectedMounts \/ RejectRelatedSwap \/ Validated

-----------------------------------------------------------------------------
(* unmount *)

CollectForUnmount ==
  /\ pc = "collected" /\ Still
  /\ \/ /\ slot # NoMedium /\ related' = Related /\ Validate("listed")
        /\ since' = since \ {"close", "stir"}
        /\ UNCHANGED <<checked, todo, fd, position, handed>>
     \/ Fails /\ UNCHANGED since

Deepest_Shallowest(set) == {m \in set : \A n \in set : Depth[m.path] <= Depth[n.path]}

Deepest(set) == {m \in set : \A n \in set : Depth[n.path] <= Depth[m.path]}

ReadMounts ==
  /\ pc = "listed" /\ Still /\ UNCHANGED since
  /\ \/ /\ todo' = {m \in mounts : m.reported \in related}
        /\ Validate(IF todo' = {} THEN "remaining" ELSE "unmount")
        /\ UNCHANGED <<checked, related, fd, position, handed>>
     \/ Fails

(* UDisks2 takes down one mount of the device now behind that number, and  *)
(* refuses while something is mounted beneath it.                          *)
Beneath(n, m) == m.path = "/media/a" /\ n.path = "/media/a/b"

Unmountable(d) == {m \in mounts : m.on = d /\ m.path # "/" /\ ~ \E n \in mounts : Beneath(n, m)}

UnmountCall_Unchecked ==
  /\ pc = "unmount"
  /\ \E m \in Deepest(todo) :
       \/ \E gone \in Unmountable(m.reported) :
            /\ mounts' = mounts \ {gone}
            /\ todo' = {n \in todo : n.reported # m.reported}
            /\ IF todo' = {} THEN Validate("remaining") ELSE Goto("unmount")
            /\ since' = since \cup {"call"}
            /\ UNCHANGED <<checked, related, fd, position, handed,
                           slot, fresh, stack, swaps, written, events>>
       \/ Fails /\ Still /\ since' = since \cup {"stir"}

(* One Unmount per device number, for its deepest mount. *)
UnmountCall ==
  /\ pc = "unmount"
  /\ \E m \in Deepest(todo) :
       \/ \E gone \in Unmountable(m.reported) :
            /\ mounts' = mounts \ {gone}
            /\ todo' = {n \in todo : n.reported # m.reported}
            /\ Validate(IF todo' = {} THEN "remaining" ELSE "unmount")
            /\ since' = since \cup {"call"}
            /\ UNCHANGED <<checked, related, fd, position, handed,
                           slot, fresh, stack, swaps, written, events>>
       \/ Fails /\ Still /\ since' = since \cup {"stir"}

NothingRemains == \A m \in mounts : m.reported \notin related

Remaining ==
  /\ pc = "remaining" /\ Still /\ UNCHANGED since
  /\ \/ /\ NothingRemains /\ Quiet
        /\ Validate(IF ejecting THEN "drive" ELSE "revalidated")
     \/ Fails

UnmountSteps == CollectForUnmount \/ ReadMounts \/ UnmountCall \/ Remaining

-----------------------------------------------------------------------------
(* open_target, the writer, prepare_verification *)

(* run_after_unmount validates, and open_target validates again. *)
Revalidated ==
  pc = "revalidated" /\ Validate("open") /\ Quiet /\ Still /\ UNCHANGED since

(* OpenDevice with O_EXCL, and the device numbers read before and after. *)
OpenDevice(here, next) ==
  /\ pc = here /\ Still
  /\ \/ /\ slot # NoMedium /\ ~ Claimed
        /\ fd' = slot /\ since' = since \cup {"call"}
        /\ Validate(next)
        /\ UNCHANGED <<checked, related, todo, position, handed>>
     \/ Fails /\ UNCHANGED since

OpenTarget_Trusted ==
  /\ pc = "open" /\ Still
  /\ \/ /\ slot # NoMedium /\ ~ Claimed
        /\ fd' = slot /\ since' = since \cup {"call"}
        /\ Goto("write")
        /\ UNCHANGED <<checked, related, todo, position, handed>>
     \/ Fails /\ UNCHANGED since

OpenTarget == OpenDevice("open", "write")

Write ==
  /\ pc = "write" /\ UNCHANGED since
  /\ \/ /\ slot = fd /\ written' = written \cup {fd}
        /\ \/ Validate("close")
           \/ Goto("drop")
        /\ Quiet /\ UNCHANGED <<slot, fresh, stack, mounts, swaps, events>>
     \/ Fails /\ Still

(* The descriptor is closed before the direct one is opened: a desktop     *)
(* automounter may come in between.                                        *)
CloseWriter ==
  /\ pc = "close" /\ Still /\ UNCHANGED since
  /\ \/ fd' = NoMedium /\ Goto("reopen")
        /\ UNCHANGED <<checked, related, todo, position, handed>>
     \/ Fails

ReopenDirect == OpenDevice("reopen", "read")

(* The disk holds the byte i at offset i - 1. *)
Disk == [i \in 1 .. Capacity |-> i]

Verify ==
  /\ pc = "read" /\ UNCHANGED since
  /\ \/ /\ position < Capacity /\ slot = fd
        /\ \E output \in 1 .. Buffer :
           \E count \in 1 .. AlignedLength(position, Capacity, Sector, output) :
             LET bytes == Slice(Disk, position, Sector, output, count) IN
             /\ bytes # <<>>
             /\ position' = position + Len(bytes)
             /\ handed' = handed \o bytes
        /\ UNCHANGED <<pc, ret, ejecting, flashed, result, checked, related, todo, fd, world>>
     \/ Goto("drop") /\ Quiet /\ Still
     \/ Fails /\ Still

(* run_after_unmount drops the target before it ejects. *)
DropTarget ==
  /\ pc = "drop" /\ Still /\ UNCHANGED since
  /\ fd' = NoMedium
  /\ pc' = "inspect" /\ ret' = "collected" /\ ejecting' = TRUE
  /\ flashed' \in BOOLEAN
  /\ UNCHANGED <<result, checked, related, todo, position, handed>>

-----------------------------------------------------------------------------
(* eject *)

FindDrive ==
  /\ pc = "drive" /\ Still /\ UNCHANGED since
  /\ \/ slot # NoMedium /\ Goto("powerOff") /\ Quiet
     \/ Fails

Gone(m) == m.on \in Related

(* PowerOff, and Eject when it was refused.  The job has succeeded when    *)
(* the record that says so is written; without it run_job ejects again.    *)
(* UDisks2 refuses either while something of the drive is mounted.  The    *)
(* reader takes the next card under the same drive object.                 *)
Detach ==
  /\ slot # NoMedium /\ ~ \E m \in mounts : Gone(m)
  /\ slot' = NoMedium
  /\ stack' = {pair \in stack : pair[2] \notin Related}
  /\ swaps' = swaps \ Related
  /\ UNCHANGED <<fresh, mounts, written, events>>

PowerOffOrEject ==
  /\ pc \in {"powerOff", "eject"} /\ Quiet
  /\ \/ /\ Detach /\ since' = since \cup {"call"}
        /\ End(IF flashed THEN "ok" ELSE "failed") \/ (flashed /\ Cleanup)
     \/ /\ Still /\ UNCHANGED since
        /\ IF pc = "powerOff" THEN Goto("eject") ELSE Fail

Worker ==
  \/ ValidateTarget \/ UnmountSteps \/ Revalidated \/ OpenTarget \/ Write
  \/ CloseWriter \/ ReopenDirect \/ Verify \/ DropTarget \/ FindDrive
  \/ PowerOffOrEject

-----------------------------------------------------------------------------
(* The environment.  A descriptor of ours holds the exclusive claim. *)

Act(what) ==
  /\ events < MaxEvents /\ pc # "done"
  /\ events' = events + 1
  /\ since' = since \cup what
  /\ UNCHANGED worker

Held == fd # NoMedium /\ fd = slot

PullCard ==
  /\ slot # NoMedium /\ Act({"swap", "close", "stir"})
  /\ slot' = NoMedium
  /\ stack' = {pair \in stack : pair[2] \notin Related}
  /\ mounts' = {m \in mounts : ~ Gone(m)}
  /\ swaps' = swaps \ Related
  /\ UNCHANGED <<fresh, written>>

InsertCard ==
  /\ slot = NoMedium /\ Act({"swap", "stir"})
  /\ \E m \in fresh : slot' = m /\ fresh' = fresh \ {m}
  /\ UNCHANGED <<stack, mounts, swaps, written>>

Automount ==
  /\ Act({"stir"})
  /\ \E d \in Devices \ {Whole}, number \in Devices \cup {Anonymous}, path \in Paths \ {"/"} :
       /\ Present(d) /\ number \in {d, Anonymous}
       /\ Lower(d) = {} /\ d \notin swaps
       /\ ~ (Held /\ d \in Related)
       /\ ~ \E m \in mounts : m.path = path
       /\ mounts' = mounts \cup {[on |-> d, reported |-> number, path |-> path]}
  /\ UNCHANGED <<slot, fresh, stack, swaps, written>>

OpenMapping ==
  /\ Act({"stir"})
  /\ \E d \in Devices \ {Whole}, h \in Maps :
       /\ Present(d) /\ ~ Present(h) /\ Lower(d) = {} /\ d # h /\ d \notin swaps
       /\ ~ \E m \in mounts : m.on = d
       /\ ~ (Held /\ d \in Related)
       /\ stack' = stack \cup {<<d, h>>}
  /\ UNCHANGED <<slot, fresh, mounts, swaps, written>>

CloseMapping ==
  /\ Act({"close", "stir"})
  /\ \E pair \in stack :
       /\ Lower(pair[2]) = {} /\ pair[2] \notin swaps
       /\ ~ \E m \in mounts : m.on = pair[2]
       /\ stack' = stack \ {pair}
  /\ UNCHANGED <<slot, fresh, mounts, swaps, written>>

Environment == PullCard \/ InsertCard \/ Automount \/ OpenMapping \/ CloseMapping

Next == Worker \/ Environment

Spec == Init /\ [][Next]_vars

-----------------------------------------------------------------------------
(* Properties *)

TypeOK ==
  /\ pc \in {"inspect", "collect", "mounts", "swaps", "job", "collected", "listed",
             "unmount", "remaining", "revalidated", "open", "write", "close",
             "reopen", "read", "drop", "drive", "powerOff", "eject", "done"}
  /\ ret \in {"job", "collected", "listed", "unmount", "remaining",
              "revalidated", "open", "write", "close", "read", "drive"}
  /\ ejecting \in BOOLEAN /\ flashed \in BOOLEAN /\ result \in {"none", "ok", "failed"}
  /\ checked \subseteq Devices /\ related \subseteq Devices /\ todo \subseteq Mounts
  /\ fd \in Media \cup {NoMedium} /\ slot \in Media \cup {NoMedium}
  /\ fresh \subseteq Media \ {slot} /\ written \subseteq Media
  /\ stack \subseteq Devices \X Maps /\ mounts \subseteq Mounts
  /\ swaps \subseteq Devices /\ events \in 0 .. MaxEvents /\ since \subseteq Since
  /\ position \in Nat /\ handed \in Seq(Nat)

Validating == {"inspect", "collect", "mounts", "swaps"}
Vouched    == {"write", "close", "read"}

(* Only the selected medium is written, and a descriptor that is written   *)
(* to or read back is the selected medium's.  A card is never given the    *)
(* selected identity again, so a descriptor of another medium means that   *)
(* the selected one has left the reader.                                   *)
OnlyTheMedium ==
  /\ Selected \notin fresh /\ fd \notin fresh
  /\ fd \notin {NoMedium, Selected} => slot # Selected
  /\ pc \in Vouched => fd = Selected
  /\ pc \in {"collect", "mounts", "swaps"} => fd \in {NoMedium, Selected}
  /\ pc \in Validating /\ ret \in Vouched => fd # NoMedium
  /\ written \subseteq {Selected}

(* What is mounted, swapped on or mapped is there. *)
Placed ==
  /\ \A m \in mounts : Present(m.on) /\ m.reported \in {m.on, Anonymous}
  /\ \A d \in swaps : Present(d)
  /\ \A pair \in stack : Present(pair[1])

SystemMounts == {m \in mounts : m.path = "/" /\ m.on \in Related}

(* What the validation has seen of a card that carries the running system. *)
SystemSeen ==
  /\ fd # NoMedium => ~ HoldsSystem
  /\ pc \in {"mounts", "swaps"} =>
       (\A d \in swaps : d \in Related => d \in checked) /\ \A m \in SystemMounts : m.on \in checked
  /\ pc \in {"swaps", "unmount"} => \A m \in SystemMounts : m.reported = Anonymous
  /\ pc \in {"unmount", "drive", "powerOff", "eject"} => \A d \in swaps : d \notin Related

(* At one of the labels, or in a validation that returns to one.           *)
Within(labels) == pc \in labels \/ (pc \in Validating /\ ret \in labels)

(* Past its checks the worker has seen the diskseq of the card, and past a *)
(* validation it has made no destructive call.                             *)
Checked ==
  /\ pc \notin {"inspect", "done"} => slot = Selected \/ "swap" \in since
  /\ pc \notin Validating \cup {"done"} => "call" \notin since

(* What unmount has collected is still related to the card.                *)
Collected ==
  Within({"listed", "unmount", "remaining"}) =>
    /\ related \subseteq Related \/ "close" \in since
    /\ related = Related \/ "stir" \in since

(* What unmount has still to do is something, was mounted, of a collected  *)
(* device, and misses no mount that another one may be waiting for.        *)
Listed ==
  /\ \A m, n \in mounts : m.path = n.path => m = n
  /\ Within({"unmount"}) =>
       /\ todo # {} /\ \A m \in todo : m.reported \in related
       /\ "stir" \notin since =>
            /\ todo \subseteq mounts
            /\ \A n \in mounts : n.path = "/media/a/b" /\ n.reported \in related => n \in todo

(* The cleanup goes through unmount and then to the drive, at most twice:  *)
(* by run_after_unmount, and by run_job.                                   *)
CleansUp ==
  /\ flashed => ejecting
  /\ pc \in {"powerOff", "eject"} \/ Within({"drive"}) => ejecting
  /\ ejecting => \/ pc \in {"powerOff", "eject", "done"}
                 \/ Within({"collected", "listed", "unmount", "remaining", "drive"})
  /\ ret = "job" => pc \in Validating \cup {"job", "done"}
  /\ pc = "job" => ret = "job"

(* A device path or number that now names another card redirects nothing,  *)
(* and a descriptor is never that of a card with the running system.       *)
IndInv ==
  /\ TypeOK /\ OnlyTheMedium /\ Placed /\ SystemSeen
  /\ Checked /\ Collected /\ Listed /\ CleansUp

(* A card that carries the running system, directly or under any stack of  *)
(* mappings, or holds its swap, is never opened or ejected; and nothing of *)
(* it is unmounted, unless mountinfo hides the system's device number.     *)
SystemUntouched ==
  [][HoldsSystem /\ pc' # pc =>
       /\ slot' = slot /\ fd' = NoMedium
       /\ mounts' = mounts \/ \E m \in mounts : m.reported = Anonymous]_vars

(* A destructive call hits the selected card or something of it, unless    *)
(* the card was changed after the last look at its diskseq, or a mapping   *)
(* was closed after the numbers were collected; and no call is made        *)
(* without a validation after the call before it.                          *)
CallsHitTheCard ==
  [][pc' # pc /\ (mounts' # mounts \/ slot' # slot) =>
       /\ slot = Selected \/ "swap" \in since
       /\ "call" \notin since
       /\ \A m \in mounts \ mounts' : m.on \in Related \/ since \cap {"swap", "close"} # {}]_vars

(* When nobody interferes, unmount never asks for a volume that has        *)
(* another volume of the card mounted beneath it, and its success leaves   *)
(* nothing of the card mounted but what mountinfo reports under an         *)
(* anonymous number.                                                       *)
UnmountIsExact ==
  "stir" \notin since =>
    /\ pc = "unmount" =>
         \A m \in Deepest(todo), n \in mounts : Beneath(n, m) => n.reported \notin related
    /\ pc = "remaining" /\ NothingRemains =>
         \A m \in mounts : m.on \in Related => m.reported = Anonymous

(* The verifier hands out the bytes of the disk in order, whatever the     *)
(* size of the request and however short the aligned reads fall.           *)
VerifierIsExact == handed = SubSeq(Disk, 1, position)

(* Where the job is, or where the running validation goes back to; and how *)
(* far it is from its end.  A cleanup goes through unmount once more.      *)
Here == IF pc \in Validating THEN ret ELSE pc

Ahead ==
  [job |-> 15, collected |-> 14, listed |-> 13, unmount |-> 12, remaining |-> 11,
   revalidated |-> 10, open |-> 9, write |-> 8, close |-> 7, reopen |-> 6, read |-> 5,
   drop |-> 4, drive |-> 3, powerOff |-> 2, eject |-> 1, done |-> 0]

Cleanups == IF ~ejecting THEN 2 ELSE IF flashed THEN 1 ELSE 0

Left == Ahead[Here] + IF pc = "done" THEN 0 ELSE 15 * Cleanups

InValidation ==
  CASE pc = "inspect" -> 4 [] pc = "collect" -> 3 [] pc = "mounts" -> 2
    [] pc = "swaps" -> 1 [] OTHER -> 0

Nearer ==
  \/ Left' < Left
  \/ /\ Left' = Left
     /\ \/ todo' \subseteq todo /\ todo' # todo
        \/ todo' = todo /\ InValidation' < InValidation
        \/ todo' = todo /\ InValidation' = InValidation /\ position < position'

(* Every call of the worker brings the job nearer to its end, or takes one *)
(* of the listed mounts off the list, or makes one check of a validation,  *)
(* or reads on; and nothing that happens to the card takes the job back.   *)
GetsOn == [][IF Worker THEN Nearer ELSE UNCHANGED worker]_vars
=============================================================================
