-------------------------------- MODULE Screen --------------------------------
(***************************************************************************)
(* What the window says and offers after a failed operation                *)
(* (failure_screen and failure_copy in src/src/app.rs), from the phase it  *)
(* was told last and the kind of failure: "cancelled", "unsigned" (the     *)
(* application bundle is not signed) or any other "error".                 *)
(***************************************************************************)

BeforeTarget == {"Downloading", "Decompressing", "Authorizing", "ValidatingImage"}
Flashing     == {"Writing", "Verifying", "Syncing"}

CanRetry(failure, phase) == failure = "error" /\ phase \in BeforeTarget

EjectOnly(failure, phase) == failure # "cancelled" /\ phase = "Ejecting"

(* What the guidance claims about the card.                                *)
Says(failure, phase) ==
  CASE failure = "cancelled" /\ phase \in Flashing \cup {"Ejecting"} -> "incomplete"
    [] failure = "cancelled" /\ phase \notin Flashing \cup {"Ejecting"} -> "no further changes"
    [] failure = "unsigned" -> "nothing"
    [] failure = "error" /\ phase = "Ejecting" -> "ready"
    [] failure = "error" /\ phase \in Flashing -> "incomplete"
    [] failure = "error" /\ phase \in BeforeTarget \ {"Downloading"} -> "not written"
    [] OTHER -> "nothing"
=============================================================================
