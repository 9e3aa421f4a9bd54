------------------------------- MODULE Download -------------------------------
(***************************************************************************)
(* From the URL to the image file of a worker job: DownloadClient.download *)
(* and PartialDownload (src/src/download.rs), prepare_gzip                 *)
(* (src/src/flash.rs), and the steps of run_pipeline (src/src/pipeline.rs) *)
(* up to the launch of the worker.                                         *)
(*                                                                         *)
(* Either several downloads share one destination, while another program   *)
(* may put a file there (the promise DownloadClient makes to any caller),  *)
(* or one pipeline runs in its own temporary directory.  Sizes count read  *)
(* buffers; a body is good when its digest is the requested one.           *)
(***************************************************************************)
EXTENDS Integers, FiniteSets

CONSTANTS
  Downloads,  \* concurrent calls of DownloadClient.download
  Nobody,
  Foreign,    \* the program that creates the destination itself
  Size,       \* the length of the requested image, in buffers
  NoSize      \* a request or a response that does not tell a size

ASSUME DownloadAssumption ==
  /\ Foreign \notin Downloads /\ Nobody \notin Downloads \cup {Foreign}
  /\ Size \in Nat \ {0} /\ NoSize \notin Nat

VARIABLES
  pc,         \* [Downloads -> where the call is]
  request,    \* [size, digest, rawSize, rawDigest]: what the caller requires
  downloaded, \* [Downloads -> buffers written to the partial file]
  good,       \* [Downloads -> the digest of the body is the requested one]
  cancelled,  \* [Downloads -> the cancel flag]
  holder,     \* whose partial file exists, or Nobody
  destination,\* whose file is at the destination, or Nobody
  late,       \* history: who had found the destination free just before
              \* the other program put its file there
  refused     \* history: what the file system would not remove

VARIABLES
  stage,      \* where run_pipeline is; "none" when downloads are shared
  raw,        \* the raw image file: its length, or NoSize without a file
  rawGood,    \* its digest is the requested one
  capacity,   \* of the selected drive
  job         \* the job file: [size, good, written]

download == <<pc, downloaded, good, cancelled, holder, destination, late, refused>>
pipeline == <<stage, raw, rawGood, job>>
vars     == <<download, pipeline, request, capacity>>

Removable == {"partial", "archive", "image", "job"}

Absent == [size |-> 0, good |-> FALSE, written |-> FALSE]
Limits == {NoSize, Size}
Sizes  == 0 .. Size + 1

Init ==
  /\ stage \in {"none", "download"}
  /\ request \in [size: Limits, digest: BOOLEAN, rawSize: Limits, rawDigest: BOOLEAN]
  /\ stage = "none" => request.rawSize = NoSize /\ ~request.rawDigest
  /\ \E first \in Downloads : pc =
       [d \in Downloads |-> IF stage = "none" \/ d = first THEN "start" ELSE "unused"]
  /\ downloaded = [d \in Downloads |-> 0]
  /\ good = [d \in Downloads |-> FALSE]
  /\ cancelled = [d \in Downloads |-> FALSE]
  /\ holder = Nobody /\ destination = Nobody /\ late = {} /\ refused = {}
  /\ raw = NoSize /\ rawGood = FALSE /\ job = Absent
  /\ capacity \in IF stage = "none" THEN {Size} ELSE {Size - 1, Size}

-----------------------------------------------------------------------------
(* DownloadClient.download and download_from_reader *)

At(d, here) == pc[d] = here
Go(d, next) == pc' = [pc EXCEPT ![d] = next]
Files == UNCHANGED <<holder, destination, late, refused>>
Rest  == UNCHANGED <<cancelled, pipeline, request, capacity>>
Body  == UNCHANGED <<downloaded, good>>

(* Every error drops the PartialDownload, when there is one.               *)
Fail(d) == Go(d, "drop")

(* ensure_destination_available *)
FindFree(d, here, next) ==
  /\ At(d, here)
  /\ \/ destination = Nobody /\ Go(d, next)
     \/ Fail(d)
  /\ Files /\ Body /\ Rest

CheckCancelled(d, here, next) ==
  /\ At(d, here)
  /\ IF cancelled[d] THEN Fail(d) ELSE Go(d, next)
  /\ Files /\ Body /\ Rest

Start(d)     == CheckCancelled(d, "start", "available")
Available(d) == FindFree(d, "available", "send")

(* The response may announce a length, which has to be the requested one.  *)
Send(d) ==
  /\ At(d, "send")
  /\ \/ \E announced \in Sizes \cup {NoSize} :
          IF NoSize \notin {announced, request.size} /\ announced # request.size
            THEN Fail(d)
            ELSE Go(d, "received")
     \/ Fail(d)
  /\ Files /\ Body /\ Rest

Received(d) == CheckCancelled(d, "received", "free")
StillFree(d) == FindFree(d, "free", "partial")

(* PartialDownload.create *)
LookForPartial(d) ==
  /\ At(d, "partial")
  /\ IF holder # Nobody THEN Fail(d) ELSE Go(d, "create")
  /\ Files /\ Body /\ Rest

CreatePartial_Truncate(d) ==
  /\ At(d, "create")
  /\ \/ Go(d, "loop") /\ holder' = d
     \/ Fail(d) /\ UNCHANGED holder
  /\ UNCHANGED <<destination, late, refused>> /\ Body /\ Rest

(* create_new refuses a partial file that appeared meanwhile. *)
CreatePartial(d) ==
  /\ At(d, "create")
  /\ \/ holder = Nobody /\ Go(d, "loop") /\ holder' = d
     \/ Fail(d) /\ UNCHANGED holder
  /\ UNCHANGED <<destination, late, refused>> /\ Body /\ Rest

Loop(d) == CheckCancelled(d, "loop", "read")

TooLong(d) == request.size # NoSize /\ downloaded[d] + 1 > request.size

(* One read of the body: an error, its end, or a buffer, which is written  *)
(* unless the flag was raised during the read or the body is too long.     *)
ReadBody(d) ==
  /\ At(d, "read")
  /\ \/ /\ Go(d, "complete") /\ UNCHANGED downloaded
        /\ \E same \in BOOLEAN : good' = [good EXCEPT ![d] = same /\ downloaded[d] = Size]
     \/ /\ ~cancelled[d] /\ ~TooLong(d) /\ downloaded[d] + 1 \in Sizes
        /\ downloaded' = [downloaded EXCEPT ![d] = @ + 1]
        /\ Go(d, "loop") /\ UNCHANGED good
     \/ Fail(d) /\ Body
  /\ Files /\ Rest

Expected_NoLowerBound(d) == request.digest => good[d] \/ downloaded[d] < Size

(* The final comparison of size and digest with the request. *)
Expected(d) ==
  /\ request.size # NoSize => downloaded[d] = request.size
  /\ request.digest => good[d]

Complete(d) ==
  /\ At(d, "complete")
  /\ IF Expected(d) THEN Go(d, "sync") ELSE Fail(d)
  /\ Files /\ Body /\ Rest

SyncPartial(d) ==
  At(d, "sync") /\ (Go(d, "recheck") \/ Fail(d)) /\ Files /\ Body /\ Rest

Recheck_Skipped(d) == At(d, "recheck") /\ Go(d, "rename") /\ Files /\ Body /\ Rest

Recheck(d) == FindFree(d, "recheck", "rename")

(* fs::rename replaces whatever is there by now. *)
Rename(d) ==
  /\ At(d, "rename")
  /\ \/ Go(d, "published") /\ destination' = d /\ holder' = Nobody
     \/ Fail(d) /\ UNCHANGED <<destination, holder>>
  /\ UNCHANGED <<late, refused>> /\ Body /\ Rest

Removed_OnCancel(d) == IF holder = d /\ cancelled[d] THEN Nobody ELSE holder

(* What a successful removal by an unpublished PartialDownload leaves.     *)
Removed(d) == IF holder = d THEN Nobody ELSE holder

(* The drop of a PartialDownload.  remove_file may fail: that is logged,   *)
(* and the partial file stays.                                             *)
Drop(d) ==
  /\ At(d, "drop") /\ Go(d, "failed")
  /\ \/ holder' = Removed(d) /\ UNCHANGED refused
     \/ holder = d /\ refused' = refused \cup {"partial"} /\ UNCHANGED holder
  /\ UNCHANGED <<destination, late>> /\ Body /\ Rest

DownloadStep(d) ==
  \/ Start(d) \/ Available(d) \/ Send(d) \/ Received(d) \/ StillFree(d)
  \/ LookForPartial(d) \/ CreatePartial(d) \/ Loop(d) \/ ReadBody(d) \/ Complete(d)
  \/ SyncPartial(d) \/ Recheck(d) \/ Rename(d) \/ Drop(d)

-----------------------------------------------------------------------------
(* run_pipeline and prepare_gzip *)

Cancelled == \E d \in Downloads : pc[d] # "unused" /\ cancelled[d]

(* The drop of the temporary directory removes what is in it, a partial    *)
(* file that stayed included.  It ignores errors, as prepare_gzip does     *)
(* when it removes the raw image first: any of the files may stay.         *)
EndRun(how) ==
  /\ stage' = how
  /\ \E left \in SUBSET Removable :
       /\ refused' = refused \cup left
       /\ holder' = IF "partial" \in left THEN holder ELSE Nobody
       /\ destination' = IF "archive" \in left THEN destination ELSE Nobody
       /\ raw' = IF "image" \in left THEN raw ELSE NoSize
       /\ job' = IF "job" \in left THEN job ELSE Absent
  /\ UNCHANGED <<pc, downloaded, good, cancelled, late, rawGood, request, capacity>>

Keep == UNCHANGED <<download, request, capacity>>

Downloaded ==
  /\ stage = "download"
  /\ \/ /\ \E d \in Downloads : pc[d] = "published"
        /\ ~Cancelled /\ stage' = "prepare" /\ raw' = 0 /\ UNCHANGED <<rawGood, job>> /\ Keep
     \/ /\ \E d \in Downloads : pc[d] \in {"failed", "published"}
        /\ EndRun("ended")

(* One buffer of the decoder, or its end.                                  *)
Decompress ==
  /\ stage = "prepare"
  /\ \/ /\ ~Cancelled /\ raw + 1 \in Sizes
        /\ ~(request.rawSize # NoSize /\ raw + 1 > request.rawSize)
        /\ raw' = raw + 1 /\ UNCHANGED <<stage, rawGood, job>> /\ Keep
     \/ /\ ~Cancelled /\ stage' = "prepared"
        /\ \E same \in BOOLEAN : rawGood' = (same /\ raw = Size)
        /\ UNCHANGED <<raw, job>> /\ Keep
     \/ EndRun("ended")

RawExpected_DigestIgnored == request.rawSize # NoSize => raw = request.rawSize

RawExpected ==
  /\ request.rawSize # NoSize => raw = request.rawSize
  /\ request.rawDigest => rawGood

PrepareEnds ==
  /\ stage = "prepared"
  /\ \/ RawExpected /\ ~Cancelled /\ raw <= capacity /\ stage' = "files"
        /\ UNCHANGED <<raw, rawGood, job>> /\ Keep
     \/ EndRun("ended")

(* sync_private_file, create_empty_file, build_worker_job and write_json.  *)
WriteJob ==
  /\ stage = "files"
  /\ \/ /\ job' = [size |-> raw, good |-> rawGood, written |-> TRUE]
        /\ stage' = "register" /\ UNCHANGED <<raw, rawGood>> /\ Keep
     \/ EndRun("ended")

Launch ==
  /\ stage = "register"
  /\ \/ ~Cancelled /\ stage' = "launched" /\ UNCHANGED <<raw, rawGood, job>> /\ Keep
     \/ EndRun("ended")

PipelineStep == Downloaded \/ Decompress \/ PrepareEnds \/ WriteJob \/ Launch

-----------------------------------------------------------------------------
(* The user, and another program at a destination it does not own alone.   *)

Cancel(d) ==
  /\ pc[d] \notin {"unused", "failed"} /\ stage \notin {"launched", "ended"}
  /\ ~cancelled[d] /\ cancelled' = [cancelled EXCEPT ![d] = TRUE]
  /\ UNCHANGED <<pc, downloaded, good, holder, destination, late, refused, pipeline, request, capacity>>

CreateForeign ==
  /\ stage = "none" /\ destination = Nobody /\ destination' = Foreign
  /\ late' = {d \in Downloads : pc[d] = "rename"}
  /\ UNCHANGED <<pc, downloaded, good, cancelled, holder, refused, pipeline, request, capacity>>

Next ==
  \/ \E d \in Downloads : DownloadStep(d) \/ Cancel(d)
  \/ PipelineStep \/ CreateForeign

Spec == Init /\ [][Next]_vars

-----------------------------------------------------------------------------
(* Properties *)

Active == {"loop", "read", "complete", "sync", "recheck", "rename"}

TypeOK ==
  /\ pc \in [Downloads -> Active \cup {"unused", "start", "available", "send", "received",
                                       "free", "partial", "create", "published", "drop", "failed"}]
  /\ request \in [size: Limits, digest: BOOLEAN, rawSize: Limits, rawDigest: BOOLEAN]
  /\ downloaded \in [Downloads -> Sizes] /\ good \in [Downloads -> BOOLEAN]
  /\ cancelled \in [Downloads -> BOOLEAN] /\ late \subseteq Downloads
  /\ holder \in Downloads \cup {Nobody} /\ refused \subseteq Removable
  /\ destination \in Downloads \cup {Foreign, Nobody}
  /\ stage \in {"none", "download", "prepare", "prepared", "files", "register",
                "launched", "ended"}
  /\ raw \in Sizes \cup {NoSize} /\ rawGood \in BOOLEAN /\ capacity \in {Size - 1, Size}
  /\ job \in [size: Sizes, good: BOOLEAN, written: BOOLEAN]

(* Only the owner of the partial file writes, publishes or removes it.     *)
OwnFile ==
  \A d \in Downloads :
    /\ pc[d] \in Active => holder = d
    /\ holder = d => \/ pc[d] \in Active \cup {"drop"}
                     \/ pc[d] = "failed" /\ "partial" \in refused

Checked ==
  \A d \in Downloads :
    /\ pc[d] \in {"sync", "recheck", "rename", "published"} => Expected(d)
    /\ destination = d => pc[d] = "published"

Watched ==
  \A d \in Downloads : pc[d] = "rename" =>
    destination = Nobody \/ (destination = Foreign /\ d \in late)

(* A pipeline makes one download, which has ended when it goes on.         *)
OneDownload ==
  /\ stage # "none" =>
       \A d, e \in Downloads : pc[d] # "unused" /\ pc[e] # "unused" => d = e
  /\ stage \notin {"none", "download"} =>
       \A d \in Downloads : pc[d] \in {"unused", "published", "failed"}

Prepared ==
  /\ stage \in {"prepare", "prepared", "files", "register", "launched"} => raw \in Sizes
  /\ stage \in {"files", "register", "launched"} => RawExpected /\ raw <= capacity
  /\ stage \in {"register", "launched"} => job = [size |-> raw, good |-> rawGood, written |-> TRUE]
  /\ stage = "ended" =>
       /\ raw = NoSize \/ "image" \in refused
       /\ destination = Nobody \/ "archive" \in refused

(* At most one download writes the partial file of a destination, and it   *)
(* is its own, checked file that it publishes, over nothing it could see;  *)
(* the pipeline goes on with the image it has checked.                     *)
DownloadInv == TypeOK /\ OwnFile /\ Checked /\ Watched /\ OneDownload /\ Prepared

(* What is published, and what a worker is launched with, is what was      *)
(* asked for: the size and the digest where the request has them.          *)
OnlyRequestedBytes ==
  /\ \A d \in Downloads : destination = d =>
       /\ request.size # NoSize => downloaded[d] = request.size
       /\ request.digest => good[d]
  /\ stage = "launched" =>
       /\ request.rawSize # NoSize => raw = request.rawSize
       /\ request.rawDigest => rawGood
       /\ raw <= capacity
       /\ job.written /\ job.size = raw

(* A download replaces nothing at its destination: not what another        *)
(* download has published, and another program's file only if it appeared  *)
(* between the last look at the destination and the rename.                *)
PublishReplacesNothing ==
  [][\A d \in Downloads : destination' = d /\ destination # d =>
       destination = Nobody \/ (destination = Foreign /\ d \in late)]_vars

(* Whatever fails, and whenever it is cancelled: when every download has   *)
(* ended a partial file is left, and when a run has ended before the       *)
(* launch an archive or an image, only if the file system refused to       *)
(* remove it.  A partial file that stays is left alone for good: no later  *)
(* download of this destination writes to it or publishes anything.        *)
NothingLeftBehind ==
  /\ (\A d \in Downloads : pc[d] \in {"unused", "published", "failed"}) =>
       holder = Nobody \/ "partial" \in refused
  /\ stage = "ended" =>
       /\ holder = Nobody \/ "partial" \in refused
       /\ destination = Nobody \/ "archive" \in refused
       /\ raw = NoSize \/ "image" \in refused
  /\ \A d \in Downloads : holder = d /\ pc[d] = "failed" =>
       \A e \in Downloads : pc[e] \notin Active
=============================================================================
