---------------------------- MODULE WorkerRefines ----------------------------
(***************************************************************************)
(* Worker implements FlashPromise.  The outcome is what run_pipeline makes *)
(* of the progress file: the last terminal record among the visible ones.  *)
(***************************************************************************)
EXTENDS Worker

(* i is the last visible terminal record.                                  *)
LastFinal(i) ==
  /\ emitted[i] \in Finals
  /\ \A j \in 1 .. flushed : j > i => emitted[j] \notin Finals

reported ==
  IF \E i \in 1 .. flushed : emitted[i] \in Finals
    THEN emitted[CHOOSE i \in 1 .. flushed : LastFinal(i)]
    ELSE "none"

Promise == INSTANCE FlashPromise WITH
  verify      <- job.verify,
  cancelAsked <- cancelMarker,
  skipAsked   <- skipMarker,
  filled      <- written,
  contents    <- card[Selected],
  outcome     <- reported

(* The promise, kept through removed cards, failing writes, syncs, ejects  *)
(* and progress files, and a worker killed between any two steps.          *)
KeepsPromise == Promise!Spec
=============================================================================
