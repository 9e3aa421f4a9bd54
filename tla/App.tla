--------------------------------- MODULE App ---------------------------------
(***************************************************************************)
(* The window: SnapDogInstallerApp (src/src/app.rs), its catalog loader    *)
(* and the thread that runs execute_pipeline.                              *)
(*                                                                         *)
(* A frame is one call of ui(): Receive is what happens before anything is *)
(* drawn, and then at most one widget is used.  A widget can be used when  *)
(* it was there in the frame before, so not in the frame in which an       *)
(* operation ends.  An open overlay is modal.  The window closes at the    *)
(* end of a frame that saw the request and did not hold it.                *)
(*                                                                         *)
(* What the pipeline does to the card is not modelled here, only what it   *)
(* tells the window.  The two may differ: Runner relates the words of the  *)
(* last screen to the card.                                                *)
(***************************************************************************)
EXTENDS Catalog, FiniteSets, Screen

CONSTANTS
  Drives,
  TooSmall,     \* the drives that are smaller than the image
  Answers,      \* what the release service may answer
  None,
  MaxRequests   \* bound: catalog requests, the first one included

Overlays == {"TargetPicker", "EraseConfirmation", "SkipConfirmation", "Settings",
             "ThirdPartyNotices", "CloseConfirmation"}
Results  == {"verified", "unverified", "cancelled", "unsigned", "error"}

ASSUME AppAssumption ==
  /\ TooSmall \subseteq Drives /\ None \notin Drives \cup Boards \cup Overlays \cup Results
  /\ \A answer \in Answers :
       /\ answer.kind = "catalog" => answer.catalog.releases \in Seq(Manifests)
       /\ answer.kind = "latest" => answer.manifest \in Manifests

VARIABLES
  catalogs,         \* [Channels -> None or [request, releases]]: stable, beta
  catalogError,     \* catalog_error is set
  loader,           \* [request, left, sent]: the thread of fetch_catalog_async
                    \* whose receiver is catalog_rx, and its unread events
  board, channel, selectedVersion,
  confirmed,        \* [board, manifest] or None
  drives, selectedDrive,
  operation,        \* the operation state, with its request once started
  background,       \* the pipeline thread of the latest operation
  overlay, verifyAfterWrite, quitAfterOperation,
  pc,               \* where the frame is
  closeRequested,   \* "now": this frame sees it, "next": the next one does
  closed

network == <<catalogs, loader>>
choice  == <<board, channel, selectedVersion, confirmed, drives, selectedDrive, catalogError>>
run     == <<operation, background>>
flags   == <<verifyAfterWrite, quitAfterOperation>>
window  == <<pc, closeRequested, closed>>
vars    == <<network, choice, run, flags, window, overlay>>

Channels == {"release", "beta"}
Stages   == <<"Downloading", "Decompressing", "Authorizing", "ValidatingImage",
              "ValidatingTarget", "Unmounting", "ValidatingTarget",
              "Writing", "Verifying", "Syncing", "Ejecting">>
Phases   == {Stages[i] : i \in DOMAIN Stages}
Writing  == 8
Verifying == 9
Syncing  == 10
Ejecting == 11

Loader(request) ==
  [request |-> request, left |-> <<"release", "beta">>, sent |-> [c \in Channels |-> None]]
Idle == [kind |-> "idle"]
Ended == [stage |-> 1, cancelled |-> FALSE, skip |-> FALSE, verified |-> FALSE,
          result |-> None]

Init ==
  /\ catalogs = [c \in Channels |-> None] /\ catalogError = FALSE /\ loader = Loader(1)
  /\ board = None /\ channel = "release" /\ selectedVersion = None
  /\ confirmed = None /\ drives = {} /\ selectedDrive = None
  /\ operation = Idle /\ background = Ended
  /\ overlay = None /\ verifyAfterWrite = TRUE /\ quitAfterOperation = FALSE
  /\ pc = "receive" /\ closeRequested = "no" /\ closed = FALSE

-----------------------------------------------------------------------------
(* The loader: one event per channel, stable first *)

Answered(releases) == [request |-> loader.request, releases |-> releases]

LoadChannel ==
  /\ ~closed /\ loader.left # <<>>
  /\ \E answer \in Answers : LET c == Head(loader.left) IN
       loader' = [loader EXCEPT !.left = Tail(@),
                                !.sent[c] = Answered(FetchCatalog(answer, c))]
  /\ UNCHANGED <<catalogs, choice, run, flags, window, overlay>>

-----------------------------------------------------------------------------
(* The pipeline thread, as the window meets it *)

(* The stage is that of the last event the thread has posted.  The worker  *)
(* may be further on than that: its first Writing record follows the first *)
(* buffer, and after a monitor error no record is read any more.  Only the *)
(* first two stages, posted before the worker is launched, tell where the  *)
(* pipeline is.                                                            *)
Post(stage) == background' = [background EXCEPT !.stage = stage]

Return(result) == background' = [background EXCEPT !.result = result]

(* Without verification the records go from Writing to Syncing; a skip may *)
(* come too late to stop the verification.                                 *)
Advance ==
  LET next == background.stage + 1 IN
    /\ background.stage < Ejecting
    /\ IF background.stage = Writing /\ (~operation.request.verify \/ background.skip)
         THEN Post(Syncing)
         ELSE IF background.stage # Verifying
           THEN Post(next)
           ELSE \E done \in BOOLEAN :
                  /\ done \/ background.skip
                  /\ background' = [background EXCEPT !.stage = next, !.verified = done]

(* A success is returned after its last record was posted, a failure or a  *)
(* cancellation after any.  Nothing returns AuthorizationDenied.           *)
Finish ==
  \/ background.stage = Ejecting
     /\ Return(IF background.verified THEN "verified" ELSE "unverified")
  \/ background.cancelled /\ Return("cancelled")
  \/ background.stage = 1 /\ Return("unsigned")
  \/ Return("error")

Pipeline ==
  /\ ~closed /\ operation.kind = "running" /\ background.result = None
  /\ Advance \/ Finish
  /\ UNCHANGED <<network, choice, flags, window, overlay, operation>>

-----------------------------------------------------------------------------
(* What is shown *)

(* selected_catalog, selected_manifest *)
SelectedManifest ==
  IF catalogs[channel] = None THEN None
  ELSE LET releases == catalogs[channel].releases
           chosen   == {i \in DOMAIN releases : releases[i].version = selectedVersion}
       IN  releases[IF chosen = {} THEN 1 ELSE CHOOSE i \in chosen : TRUE]

(* pipeline_request *)
Request ==
  [board |-> confirmed.board, manifest |-> confirmed.manifest,
   drive |-> selectedDrive, verify |-> verifyAfterWrite]

Ready ==
  /\ confirmed # None /\ selectedDrive # None
  /\ Installable(confirmed.manifest, confirmed.board)
  /\ selectedDrive \notin TooSmall

CanCancel(phase) == phase \notin {"Syncing", "Ejecting"}

-----------------------------------------------------------------------------
(* The start of a frame *)

(* receive_catalog: a loader sends one event per channel, so the events do *)
(* not disturb each other and are taken together.                          *)
ReceiveCatalog ==
  LET loaded(c) == loader.sent[c] # None /\ loader.sent[c].releases # <<>> IN
    /\ catalogs' = [c \in Channels |-> IF loaded(c) THEN loader.sent[c] ELSE catalogs[c]]
    /\ selectedVersion' = IF loaded(channel) /\ selectedVersion = None
                            THEN loader.sent[channel].releases[1].version
                            ELSE selectedVersion
    /\ catalogError' = IF loader.sent[channel] = None THEN catalogError
                       ELSE ~loaded(channel)
    /\ loader' = [loader EXCEPT !.sent = [c \in Channels |-> None]]
    /\ UNCHANGED <<board, channel, confirmed, drives, selectedDrive>>

Success(verified) ==
  [kind |-> "succeeded", request |-> operation.request, verified |-> verified]
Failure(phase, result) ==
  [kind |-> "failed", request |-> operation.request, phase |-> phase, result |-> result]

(* apply_pipeline_event for every event up to the result, which is told    *)
(* with the last phase; a report of failure keeps the phase it met.        *)
Transition ==
  IF background.result \in {"verified", "unverified"}
    THEN Success(background.result = "verified")
    ELSE Failure(Stages[background.stage], background.result)

HoldClose_UnlessQuitting ==
  IF closeRequested = "now" /\ ~quitAfterOperation
    THEN overlay' = "CloseConfirmation" /\ closeRequested' = "no"
    ELSE UNCHANGED <<overlay, closeRequested>>

(* ui: a running operation holds every close request, and asks once.       *)
HoldClose ==
  IF closeRequested = "now"
    THEN /\ closeRequested' = "no"
         /\ overlay' = IF quitAfterOperation THEN overlay ELSE "CloseConfirmation"
    ELSE UNCHANGED <<overlay, closeRequested>>

CloseIfAsked_Succeeded ==
  closeRequested' = IF /\ quitAfterOperation /\ closeRequested = "no"
                       /\ operation'.kind = "succeeded"
                      THEN "next" ELSE closeRequested

CloseIfAsked ==
  closeRequested' = IF quitAfterOperation /\ closeRequested = "no"
                      THEN "next" ELSE closeRequested

(* receive_operation *)
ReceiveOperation ==
  CASE operation.kind # "running" -> UNCHANGED <<operation, overlay, closeRequested>>
    [] operation.kind = "running" /\ background.result = None ->
         operation' = [operation EXCEPT !.phase = Stages[background.stage]] /\ HoldClose
    [] OTHER ->
         operation' = Transition /\ overlay' = None /\ CloseIfAsked

Receive ==
  /\ ~closed /\ pc = "receive"
  /\ ReceiveCatalog /\ ReceiveOperation
  /\ pc' = IF operation'.kind = operation.kind THEN "input" ELSE "settle"
  /\ UNCHANGED <<background, flags, closed>>

EndFrame ==
  /\ pc' = "receive"
  /\ closed' = (closeRequested = "now")
  /\ closeRequested' = IF closeRequested = "next" THEN "now" ELSE "no"

(* Nothing is used.  The question whether to skip goes away by itself.     *)
NoInput ==
  /\ ~closed /\ pc \in {"input", "settle"}
  /\ EndFrame
  /\ overlay' = IF overlay = "SkipConfirmation" /\ operation.phase # "Verifying"
                  THEN None ELSE overlay
  /\ UNCHANGED <<network, choice, run, flags>>

(* The title bar, at any time between two frames.                          *)
RequestClose ==
  /\ ~closed /\ pc = "receive" /\ closeRequested = "no"
  /\ closeRequested' = "now"
  /\ UNCHANGED <<network, choice, run, flags, overlay, pc, closed>>

-----------------------------------------------------------------------------
(* The setup screen *)

Use(kind, on) ==
  /\ ~closed /\ pc = "input" /\ operation.kind = kind /\ overlay = on
  /\ EndFrame

ImageDependants == <<confirmed, drives, selectedDrive>>

(* clear_image_dependants *)
ClearImageDependants == confirmed' = None /\ drives' = {} /\ selectedDrive' = None

ChooseBoard ==
  /\ Use("idle", None)
  /\ board' \in Boards
  /\ ClearImageDependants
  /\ UNCHANGED <<channel, selectedVersion, catalogError, network, run, flags, overlay>>

ChooseChannel ==
  /\ Use("idle", None) /\ board # None
  /\ channel' \in Channels
  /\ selectedVersion' = IF catalogs[channel'] = None THEN None
                        ELSE catalogs[channel'].releases[1].version
  /\ ClearImageDependants
  /\ catalogError' = FALSE
  /\ UNCHANGED <<board, network, run, flags, overlay>>

ChooseVersion_KeepConfirmed ==
  /\ Use("idle", None) /\ board # None /\ catalogs[channel] # None
  /\ \E i \in DOMAIN catalogs[channel].releases :
       selectedVersion' = catalogs[channel].releases[i].version
  /\ UNCHANGED <<ImageDependants, board, channel, catalogError, network, run, flags, overlay>>

(* version_picker *)
ChooseVersion ==
  /\ Use("idle", None) /\ board # None /\ catalogs[channel] # None
  /\ \E i \in DOMAIN catalogs[channel].releases :
       selectedVersion' = catalogs[channel].releases[i].version
  /\ IF selectedVersion' # selectedVersion THEN ClearImageDependants
                                           ELSE UNCHANGED ImageDependants
  /\ UNCHANGED <<board, channel, catalogError, network, run, flags, overlay>>

(* release_confirmation, confirm_selection *)
ConfirmSelection ==
  /\ Use("idle", None)
  /\ board # None /\ SelectedManifest # None /\ Installable(SelectedManifest, board)
  /\ confirmed' = [board |-> board, manifest |-> SelectedManifest]
  /\ selectedDrive' = None /\ drives' = {} /\ catalogError' = FALSE
  /\ UNCHANGED <<board, channel, selectedVersion, network, run, flags, overlay>>

CanReload ==
  /\ board # None /\ SelectedManifest # None /\ Pending(SelectedManifest)
  /\ loader.request < MaxRequests

ReloadCatalog_SameChannel ==
  /\ Use("idle", None) /\ CanReload
  /\ loader' = [Loader(loader.request + 1) EXCEPT !.sent = loader.sent]
  /\ catalogs' = [c \in Channels |-> None]
  /\ selectedVersion' = None /\ catalogError' = FALSE
  /\ ClearImageDependants
  /\ UNCHANGED <<board, channel, run, flags, overlay>>

(* The Retry button of a pending release, reload_catalog: the new receiver *)
(* drops the old one with all it holds, and the old loader stops.          *)
ReloadCatalog ==
  /\ Use("idle", None) /\ CanReload
  /\ loader' = Loader(loader.request + 1)
  /\ catalogs' = [c \in Channels |-> None]
  /\ selectedVersion' = None /\ catalogError' = FALSE
  /\ ClearImageDependants
  /\ UNCHANGED <<board, channel, run, flags, overlay>>

(* refresh_drives: the drives found, or an error, which shows none.        *)
RefreshDrives ==
  /\ drives' \in SUBSET Drives
  /\ selectedDrive' = IF selectedDrive \in drives' THEN selectedDrive ELSE None
  /\ UNCHANGED <<board, channel, selectedVersion, confirmed, catalogError>>

(* target_step; Refresh in show_target_picker *)
SelectTarget ==
  /\ \/ Use("idle", None) /\ confirmed # None
     \/ Use("idle", "TargetPicker")
  /\ RefreshDrives
  /\ overlay' = "TargetPicker"
  /\ UNCHANGED <<network, run, flags>>

ChooseDrive ==
  /\ Use("idle", "TargetPicker")
  /\ selectedDrive' \in drives
  /\ overlay' = None
  /\ UNCHANGED <<board, channel, selectedVersion, confirmed, drives, catalogError,
                 network, run, flags>>

Overlay(to) == overlay' = to /\ UNCHANGED <<network, choice, run, flags>>

AskToErase   == Use("idle", None) /\ Ready /\ Overlay("EraseConfirmation")
OpenSettings == Use("idle", None) /\ Overlay("Settings")
ShowNotices  == Use("idle", "Settings") /\ Overlay("ThirdPartyNotices")
LeaveNotices == Use("idle", "ThirdPartyNotices") /\ Overlay("Settings")

(* Cancel, Done, Keep verifying, Keep working, Escape, a click beside it.  *)
CloseOverlay ==
  /\ \/ overlay \in {"TargetPicker", "EraseConfirmation", "Settings"} /\ Use("idle", overlay)
     \/ overlay = "SkipConfirmation" /\ Use("running", overlay) /\ operation.phase = "Verifying"
     \/ Use("running", "CloseConfirmation")
  /\ Overlay(None)

ToggleVerify ==
  /\ Use("idle", "Settings")
  /\ verifyAfterWrite' = ~verifyAfterWrite
  /\ UNCHANGED <<network, choice, run, overlay, quitAfterOperation>>

-----------------------------------------------------------------------------
(* The operation *)

(* start_operation *)
StartOperation ==
  /\ Ready
  /\ operation' = [kind |-> "running", request |-> Request, phase |-> "Downloading",
                   cancelRequested |-> FALSE, skipRequested |-> FALSE]
  /\ background' = Ended
  /\ overlay' = None
  /\ UNCHANGED <<network, choice, flags>>

EraseAndFlash == Use("idle", "EraseConfirmation") /\ StartOperation

(* running_screen: its buttons go away once either was asked for.          *)
Unasked == ~operation.cancelRequested /\ ~operation.skipRequested

(* PipelineControl.cancel and skip_verification store the flag first, and  *)
(* may then fail on the marker file.                                       *)
Cancel ==
  /\ Use("running", None) /\ CanCancel(operation.phase) /\ Unasked
  /\ background' = [background EXCEPT !.cancelled = TRUE]
  /\ \E ok \in BOOLEAN : operation' = [operation EXCEPT !.cancelRequested = ok]
  /\ UNCHANGED <<network, choice, flags, overlay>>

AskToSkip ==
  /\ Use("running", None) /\ operation.phase = "Verifying" /\ Unasked
  /\ Overlay("SkipConfirmation")

(* show_skip_confirmation *)
SkipVerification ==
  /\ Use("running", "SkipConfirmation") /\ operation.phase = "Verifying"
  /\ background' = [background EXCEPT !.skip = TRUE]
  /\ \E ok \in BOOLEAN : operation' = [operation EXCEPT !.skipRequested = ok]
  /\ overlay' = None
  /\ UNCHANGED <<network, choice, flags>>

(* show_close_confirmation *)
StopAndQuit ==
  /\ Use("running", "CloseConfirmation")
  /\ quitAfterOperation' = TRUE
  /\ IF CanCancel(operation.phase)
       THEN /\ background' = [background EXCEPT !.cancelled = TRUE]
            /\ operation' = [operation EXCEPT !.cancelRequested = TRUE]
       ELSE UNCHANGED <<operation, background>>
  /\ overlay' = None
  /\ UNCHANGED <<network, choice, verifyAfterWrite>>

(* failure_actions: the buttons of a failed operation.                     *)
OffersRetry == CanRetry(operation.result, operation.phase)
OffersDone  == EjectOnly(operation.result, operation.phase)

(* reset_for_another: Flash another, and Done of a failed eject            *)
ResetForAnother ==
  /\ \/ Use("succeeded", None)
     \/ Use("failed", None) /\ OffersDone
  /\ operation' = Idle /\ background' = Ended
  /\ board' = None /\ channel' = "release"
  /\ selectedVersion' = IF catalogs["release"] = None THEN None
                        ELSE catalogs["release"].releases[1].version
  /\ ClearImageDependants
  /\ catalogError' = FALSE
  /\ UNCHANGED <<network, flags, overlay>>

(* return_to_setup: the image stays confirmed, the drive does not.         *)
ReturnToSetup ==
  /\ Use("failed", None) /\ ~OffersDone
  /\ operation' = Idle /\ background' = Ended
  /\ selectedDrive' = None /\ drives' = {}
  /\ UNCHANGED <<board, channel, selectedVersion, confirmed, catalogError,
                 network, flags, overlay>>

Retry == Use("failed", None) /\ OffersRetry /\ StartOperation

Frame ==
  \/ Receive \/ NoInput
  \/ ChooseBoard \/ ChooseChannel \/ ChooseVersion \/ ConfirmSelection \/ ReloadCatalog
  \/ SelectTarget \/ ChooseDrive \/ AskToErase \/ OpenSettings \/ ShowNotices
  \/ LeaveNotices \/ CloseOverlay \/ ToggleVerify
  \/ EraseAndFlash \/ Cancel \/ AskToSkip \/ SkipVerification \/ StopAndQuit
  \/ ResetForAnother \/ ReturnToSetup \/ Retry

Next == Frame \/ RequestClose \/ LoadChannel \/ Pipeline

Spec == Init /\ [][Next]_vars

(* The window is repainted while an operation runs and after a command to  *)
(* close it; the pipeline comes to an end (RunEnds of Runner).             *)
FairSpec ==
  /\ Spec
  /\ WF_vars(Frame /\ (operation.kind = "running" \/ closeRequested # "no"))
  /\ WF_vars(Pipeline)

-----------------------------------------------------------------------------
(* Properties *)

Lists == {<<>>} \cup {releases \in Seq(Manifests) : releases # <<>> /\ NewestFirst(releases)}
Loaded == [request: Nat, releases: Lists]
FlashRequests == [board: Boards, manifest: Manifests, drive: Drives, verify: BOOLEAN]
Operations ==
  {Idle}
  \cup [kind: {"running"}, request: FlashRequests, phase: Phases,
        cancelRequested: BOOLEAN, skipRequested: BOOLEAN]
  \cup [kind: {"succeeded"}, request: FlashRequests, verified: BOOLEAN]
  \cup [kind: {"failed"}, request: FlashRequests, phase: Phases, result: Results]
Backgrounds ==
  [stage: DOMAIN Stages, cancelled: BOOLEAN, skip: BOOLEAN, verified: BOOLEAN,
   result: Results \cup {None}]

NetworkType ==
  /\ catalogs \in [Channels -> Loaded \cup {None}]
  /\ loader \in [request: Nat, left: {<<"release", "beta">>, <<"beta">>, <<>>},
                 sent: [Channels -> Loaded \cup {None}]]

ChoiceType ==
  /\ board \in Boards \cup {None} /\ channel \in Channels /\ catalogError \in BOOLEAN
  /\ confirmed \in [board: Boards, manifest: Manifests] \cup {None}
  /\ drives \subseteq Drives /\ selectedDrive \in Drives \cup {None}

RunType ==
  /\ operation \in Operations
  /\ background \in Backgrounds

WindowType ==
  /\ overlay \in Overlays \cup {None}
  /\ verifyAfterWrite \in BOOLEAN /\ quitAfterOperation \in BOOLEAN
  /\ pc \in {"receive", "input", "settle"} /\ closeRequested \in {"no", "now", "next"}
  /\ closed \in BOOLEAN

TypeOK == NetworkType /\ ChoiceType /\ RunType /\ WindowType

(* What is shown comes from the newest loader, which answers a channel     *)
(* once; its first release, labelled "Latest", is the newest.              *)
Fresh ==
  /\ \A c \in Channels : catalogs[c] # None =>
       catalogs[c].request = loader.request /\ catalogs[c].releases # <<>>
  /\ \A c \in Channels : loader.sent[c] # None =>
       loader.sent[c].request = loader.request /\ catalogs[c] = None
  /\ \A i \in DOMAIN loader.left :
       catalogs[loader.left[i]] = None /\ loader.sent[loader.left[i]] = None

(* The confirmed image is the one the setup screen names, and a drive is   *)
(* only selected, or looked for, for a confirmed image.                    *)
Confirmed ==
  /\ confirmed # None =>
       /\ catalogs[channel] # None
       /\ confirmed = [board |-> board, manifest |-> SelectedManifest]
       /\ Installable(confirmed.manifest, board)
  /\ selectedDrive # None \/ overlay = "TargetPicker" => confirmed # None

(* What a running or a failed operation was started with is still what the *)
(* erase dialog named, so that a retry repeats it; and the last screen     *)
(* tells the phase that was posted last and whether the card was verified. *)
Told ==
  /\ operation.kind \in {"running", "failed"} => Ready /\ operation.request = Request
  /\ background.result \in {"verified", "unverified"} =>
       background.verified = (background.result = "verified")
  /\ operation.kind = "succeeded" => operation.verified = background.verified
  /\ operation.kind = "failed" => operation.phase = Stages[background.stage]

(* A frame in which the pipeline works does not close the window.          *)
HeldOpen ==
  operation.kind = "running" =>
    /\ ~closed /\ pc # "receive" => closeRequested # "now"
    /\ closed => background.stage = 1

(* The wish to quit is not lost when the operation ends: the window closes *)
(* then, or has been asked to.                                             *)
QuitKept == quitAfterOperation => operation.kind = "running" \/ closeRequested # "no" \/ closed

AppInv == TypeOK /\ Fresh /\ Confirmed /\ Told /\ HeldOpen /\ QuitKept

(* The process never ends under a pipeline that has got anywhere.          *)
NeverLeavesWriter ==
  closed /\ operation.kind = "running" => background.stage = 1

(* "Stop & Quit" quits, however the operation ends.                        *)
QuitEnds == quitAfterOperation ~> closed
=============================================================================
