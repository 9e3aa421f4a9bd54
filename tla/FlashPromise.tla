----------------------------- MODULE FlashPromise -----------------------------
(***************************************************************************)
(* What the installer promises about the card the user confirmed, in terms *)
(* of nothing but the card, what the user asked for, and the one outcome   *)
(* the GUI process is told.  No processes, handles, markers or records:    *)
(* Worker implements it.                                                   *)
(***************************************************************************)
EXTENDS Integers

CONSTANT Chunks   \* length of the image, in write buffers

VARIABLES
  verify,         \* the job asks for verification
  cancelAsked,    \* the user cancelled
  skipAsked,      \* the user skipped the verification
  filled,         \* the card's chunks that hold what was written
  contents,       \* the card, chunk by chunk
  outcome         \* what the GUI process is told, or "none"

vars == <<verify, cancelAsked, skipAsked, filled, contents, outcome>>

Init ==
  /\ verify \in BOOLEAN
  /\ cancelAsked = FALSE
  /\ skipAsked = FALSE
  /\ filled = 0
  /\ contents = [i \in 1 .. Chunks |-> "old"]
  /\ outcome = "none"

AskCancel ==
  /\ ~cancelAsked
  /\ cancelAsked' = TRUE
  /\ UNCHANGED <<verify, skipAsked, filled, contents, outcome>>

AskSkip ==
  /\ ~skipAsked
  /\ skipAsked' = TRUE
  /\ UNCHANGED <<verify, cancelAsked, filled, contents, outcome>>

(* The card is filled from its first chunk to its last, with the image or  *)
(* with what a faulty card makes of it, and never after an outcome was     *)
(* told.  A write that fails may spoil the chunk it was at.                *)
Fill ==
  /\ outcome = "none"
  /\ filled < Chunks
  /\ \E content \in {"image", "bad"} :
       contents' = [contents EXCEPT ![filled + 1] = content]
  /\ filled' = filled + 1
  /\ UNCHANGED <<verify, cancelAsked, skipAsked, outcome>>

Spoil ==
  /\ outcome = "none"
  /\ filled < Chunks
  /\ contents' = [contents EXCEPT ![filled + 1] = "bad"]
  /\ UNCHANGED <<verify, cancelAsked, skipAsked, filled, outcome>>

(* One outcome, told once.  A verified success means that the card holds   *)
(* the image; an unverified one that all of it was written and that the    *)
(* verification was not wanted; a cancellation was asked for.              *)
Tell ==
  /\ outcome = "none"
  /\ \/ outcome' = "Completed" /\ \A i \in 1 .. Chunks : contents[i] = "image"
     \/ outcome' = "CompletedUnverified" /\ filled = Chunks /\ (skipAsked \/ ~verify)
     \/ outcome' = "Cancelled" /\ cancelAsked
     \/ outcome' = "Failed"
  /\ UNCHANGED <<verify, cancelAsked, skipAsked, filled, contents>>

Next == AskCancel \/ AskSkip \/ Fill \/ Spoil \/ Tell

Spec == Init /\ [][Next]_vars
=============================================================================
