------------------------------- MODULE AppProofs -------------------------------
(***************************************************************************)
(* What App promises, for any boards, drives and answers of the release    *)
(* service, and however often the catalog is requested.                    *)
(***************************************************************************)
EXTENDS App, WellFoundedInduction, TLAPS

-----------------------------------------------------------------------------
(* Catalogs *)

(* Induction by the least counterexample: it needs no operator parameter.  *)
LEMMA LeastNumber ==
  ASSUME NEW set \in SUBSET Nat, set # {}
  PROVE  \E x \in set : \A y \in set : x <= y
  <1>1. \E x \in set : \A y \in set : <<y, x>> \notin OpToRel(<, Nat)
    BY NatLessThanWellFounded, WFMin, Zenon
  <1>2. \A x, y \in Nat : <<y, x>> \notin OpToRel(<, Nat) => ~ (y < x)
    BY Zenon DEF OpToRel
  <1>3. \A x, y \in Nat : ~ (y < x) => x <= y
    OBVIOUS
  <1> QED
    BY <1>1, <1>2, <1>3

(* Where each element is below the one before it, each is below all that   *)
(* stand before it: a least counterexample j has a smaller one, j - 1.     *)
LEMMA Descends ==
  ASSUME NEW releases \in Seq(Manifests),
         \A i \in DOMAIN releases : i > 1 => releases[i].version < releases[i - 1].version
  PROVE  \A i, j \in DOMAIN releases : i < j => releases[j].version < releases[i].version
  <1>1. DOMAIN releases = 1 .. Len(releases) /\ Len(releases) \in Nat
    OBVIOUS
  <1>2. \A i \in DOMAIN releases : releases[i].version \in Nat
    <2> TAKE i \in DOMAIN releases
    <2>1. releases[i] \in Manifests
      BY <1>1
    <2> QED
      BY <2>1 DEF Manifests
  <1> TAKE first \in DOMAIN releases
  <1> DEFINE high == {j \in DOMAIN releases :
                        first < j /\ ~ (releases[j].version < releases[first].version)}
  <1>3. SUFFICES ASSUME high # {} PROVE FALSE
    OBVIOUS
  <1>4. PICK least \in high : \A j \in high : least <= j
    <2>1. high \in SUBSET Nat
      BY <1>1
    <2> QED
      BY <1>3, <2>1, LeastNumber
  <1>5. least \in 1 .. Len(releases) /\ least > first /\ first \in 1 .. Len(releases)
    BY <1>1
  <1>6. least - 1 \in DOMAIN releases /\ least - 1 \notin high
    BY <1>1, <1>4, <1>5
  <1>7. releases[least].version < releases[least - 1].version
    BY <1>1, <1>5
  <1>8. CASE least - 1 = first
    BY <1>7, <1>8
  <1>9. CASE least - 1 # first
    <2>1. releases[least - 1].version < releases[first].version
      BY <1>5, <1>6, <1>9
    <2> QED
      BY <1>1, <1>2, <1>5, <1>6, <1>7, <2>1
  <1> QED
    BY <1>8, <1>9

(* validate_catalog compares neighbours only: yet in a catalog it accepts, *)
(* whatever the server answers, no version stands twice, the list falls    *)
(* from the first to the last, and all of it is of the channel asked for.  *)
THEOREM SortedCatalog ==
  ASSUME NEW c, NEW asked, c.releases \in Seq(Manifests), ValidCatalog(c, asked)
  PROVE  /\ \A i, j \in DOMAIN c.releases :
              i < j => c.releases[j].version < c.releases[i].version
         /\ \A i, j \in DOMAIN c.releases :
              c.releases[i].version = c.releases[j].version => i = j
         /\ \A i \in DOMAIN c.releases : c.releases[i].channel = asked
  <1> DEFINE releases == c.releases
  <1>1. /\ releases \in Seq(Manifests)
        /\ \A i \in DOMAIN releases : i > 1 => releases[i].version < releases[i - 1].version
        /\ \A i \in DOMAIN releases : releases[i].channel = asked
    BY DEF ValidCatalog
  <1> SUFFICES /\ \A i, j \in DOMAIN releases :
                    i < j => releases[j].version < releases[i].version
               /\ \A i, j \in DOMAIN releases :
                    releases[i].version = releases[j].version => i = j
    BY <1>1
  <1> HIDE DEF releases
  <1>2. \A i, j \in DOMAIN releases : i < j => releases[j].version < releases[i].version
    BY <1>1, Descends
  <1>3. ASSUME NEW i \in DOMAIN releases, NEW j \in DOMAIN releases,
               releases[i].version = releases[j].version
        PROVE  i = j
    <2>1. i \in Nat /\ j \in Nat /\ releases[i] \in Manifests
      BY <1>1
    <2>2. releases[i].version \in Nat
      BY <2>1 DEF Manifests
    <2>3. ~ (releases[i].version < releases[j].version)
      BY <1>3, <2>2
    <2> QED
      BY <1>2, <1>3, <2>1, <2>2, <2>3
  <1> QED
    BY <1>2, <1>3

(* And so the first is the newest.                                         *)
LEMMA FirstIsNewest ==
  ASSUME NEW releases \in Seq(Manifests),
         \A i \in DOMAIN releases : i > 1 => releases[i].version < releases[i - 1].version
  PROVE  NewestFirst(releases)
  <1> SUFFICES ASSUME NEW i \in DOMAIN releases
               PROVE  releases[i].version <= releases[1].version
    BY DEF NewestFirst
  <1>1. i \in 1 .. Len(releases) /\ 1 \in DOMAIN releases /\ DOMAIN releases = 1 .. Len(releases)
    OBVIOUS
  <1>2. releases[i].version \in Nat /\ releases[1].version \in Nat
    <2>1. releases[i] \in Manifests /\ releases[1] \in Manifests
      BY <1>1
    <2> QED
      BY <2>1 DEF Manifests
  <1>3. CASE i = 1
    BY <1>2, <1>3
  <1>4. CASE 1 < i
    <2>1. releases[i].version < releases[1].version
      BY <1>1, <1>4, Descends
    <2> QED
      BY <1>2, <2>1
  <1> QED
    BY <1>1, <1>3, <1>4

LEMMA FetchedList ==
  ASSUME NEW answer \in Answers, NEW c \in Channels
  PROVE  FetchCatalog(answer, c) \in Lists
  <1>1. CASE answer.kind = "catalog" /\ ValidCatalog(answer.catalog, c)
    <2> DEFINE releases == answer.catalog.releases
    <2>1. releases \in Seq(Manifests)
      BY <1>1, AppAssumption
    <2>2. /\ Len(releases) \in 1 .. MaxReleases
          /\ \A i \in DOMAIN releases : i > 1 => releases[i].version < releases[i - 1].version
      BY <1>1 DEF ValidCatalog
    <2>3. releases # <<>>
      BY <2>1, <2>2
    <2>4. NewestFirst(releases)
      BY <2>1, <2>2, FirstIsNewest
    <2>5. FetchCatalog(answer, c) = releases
      BY <1>1 DEF FetchCatalog
    <2> HIDE DEF releases
    <2> QED
      BY <2>1, <2>3, <2>4, <2>5 DEF Lists
  <1>2. CASE answer.kind = "latest" /\ ValidManifest(answer.manifest)
    <2>1. answer.manifest \in Manifests
      BY <1>2, AppAssumption
    <2>2. FetchCatalog(answer, c) = <<answer.manifest>>
      BY <1>2 DEF FetchCatalog
    <2>3. answer.manifest.version \in Nat
      BY <2>1 DEF Manifests
    <2>4. <<answer.manifest>> \in Seq(Manifests) /\ <<answer.manifest>> # <<>>
      BY <2>1
    <2>5. NewestFirst(<<answer.manifest>>)
      BY <2>3 DEF NewestFirst
    <2> QED
      BY <2>2, <2>4, <2>5 DEF Lists
  <1>3. CASE ~ (answer.kind = "catalog" /\ ValidCatalog(answer.catalog, c))
             /\ ~ (answer.kind = "latest" /\ ValidManifest(answer.manifest))
    BY <1>3 DEF FetchCatalog, Lists
  <1> QED
    BY <1>1, <1>2, <1>3

-----------------------------------------------------------------------------
(* What a step leaves alone *)

(* AppInv without the wish to quit, which has an argument of its own.      *)
Core == TypeOK /\ Fresh /\ Confirmed /\ Told /\ HeldOpen

LEMMA NoneIsNothing ==
  None # "TargetPicker" /\ None # "CloseConfirmation" /\ None \notin Drives /\ None \notin Results
  BY AppAssumption DEF Overlays

LEMMA SameNetwork == ASSUME NetworkType, Fresh, UNCHANGED network PROVE NetworkType' /\ Fresh'
  BY DEF network, NetworkType, Fresh

LEMMA SameChoice == ASSUME ChoiceType, UNCHANGED choice PROVE ChoiceType'
  BY DEF choice, ChoiceType

LEMMA SameConfirmed ==
  ASSUME Confirmed, UNCHANGED catalogs, UNCHANGED choice,
         overlay' = "TargetPicker" => overlay = "TargetPicker" \/ confirmed # None
  PROVE  Confirmed'
  BY DEF Confirmed, SelectedManifest, choice

LEMMA SameRun == ASSUME RunType, UNCHANGED run PROVE RunType'
  BY DEF run, RunType

LEMMA SameTold ==
  ASSUME Told, UNCHANGED run,
         \/ operation.kind \notin {"running", "failed"}
         \/ UNCHANGED <<confirmed, selectedDrive, verifyAfterWrite>>
  PROVE  Told'
  BY DEF run, Told, Ready, Request

(* A frame closes the window only on a request it saw.                     *)
LEMMA EndFrameTypes ==
  ASSUME EndFrame
  PROVE  /\ pc' = "receive" /\ closeRequested' \in {"no", "now"}
         /\ closed' \in BOOLEAN /\ (closed' => closeRequested = "now")
  <1>1. closed' \in BOOLEAN
    BY Zenon DEF EndFrame
  <1> QED
    BY <1>1 DEF EndFrame

(* No frame that ends while the pipeline works was asked to close.         *)
LEMMA EndHeldOpen ==
  ASSUME HeldOpen, pc # "receive", ~closed, EndFrame,
         operation'.kind = "running" => operation.kind = "running" \/ background'.stage = 1
  PROVE  HeldOpen'
  <1>1. pc' = "receive" /\ (closed' => closeRequested = "now")
    BY EndFrameTypes
  <1> QED
    BY <1>1 DEF HeldOpen

-----------------------------------------------------------------------------
(* The setup screen *)

LEMMA SetupFrame ==
  ASSUME Core, NEW on, Use("idle", on), UNCHANGED <<network, run>>, ChoiceType', Confirmed',
         overlay' \in Overlays \cup {None}, verifyAfterWrite' \in BOOLEAN,
         UNCHANGED quitAfterOperation
  PROVE  Core'
  <1> USE DEF Core, TypeOK, Use
  <1>1. NetworkType' /\ Fresh'
    BY SameNetwork
  <1>2. RunType'
    BY SameRun
  <1>3. WindowType'
    BY EndFrameTypes DEF WindowType, Overlays
  <1>4. Told'
    BY SameTold
  <1>5. HeldOpen'
    BY EndHeldOpen DEF run
  <1> QED
    BY <1>1, <1>2, <1>3, <1>4, <1>5

LEMMA ChooseBoardInv == ASSUME Core, ChooseBoard PROVE Core'
  <1> USE DEF ChooseBoard, ClearImageDependants, flags
  <1>1. ChoiceType'
    BY DEF Core, TypeOK, ChoiceType
  <1>2. Confirmed'
    BY NoneIsNothing DEF Confirmed, Use
  <1> QED
    BY <1>1, <1>2, SetupFrame DEF Core, TypeOK, WindowType, Overlays

LEMMA ChooseChannelInv == ASSUME Core, ChooseChannel PROVE Core'
  <1> USE DEF ChooseChannel, ClearImageDependants, flags
  <1>1. ChoiceType'
    BY DEF Core, TypeOK, ChoiceType
  <1>2. Confirmed'
    BY NoneIsNothing DEF Confirmed, Use
  <1> QED
    BY <1>1, <1>2, SetupFrame DEF Core, TypeOK, WindowType, Overlays

(* Naming the version that is selected already keeps the confirmation.     *)
LEMMA ChooseVersionInv == ASSUME Core, ChooseVersion PROVE Core'
  <1> USE DEF ChooseVersion, ClearImageDependants, ImageDependants, flags
  <1>1. ChoiceType'
    BY DEF Core, TypeOK, ChoiceType
  <1>2. Confirmed'
    <2>1. CASE selectedVersion' = selectedVersion
      BY <2>1, SameConfirmed DEF Core, network, choice
    <2>2. CASE selectedVersion' # selectedVersion
      BY <2>2, NoneIsNothing DEF Confirmed, Use
    <2> QED
      BY <2>1, <2>2
  <1> QED
    BY <1>1, <1>2, SetupFrame DEF Core, TypeOK, WindowType, Overlays

(* selected_manifest names a release of the list that is shown.            *)
LEMMA SelectedIsListed ==
  ASSUME NetworkType, Fresh, ChoiceType, SelectedManifest # None
  PROVE  catalogs[channel] # None /\ SelectedManifest \in Manifests
  <1>1. catalogs[channel] # None
    BY DEF SelectedManifest
  <1> DEFINE releases == catalogs[channel].releases
             chosen == {i \in DOMAIN releases : releases[i].version = selectedVersion}
  <1>2. releases \in Seq(Manifests) /\ releases # <<>>
    BY <1>1 DEF NetworkType, Fresh, ChoiceType, Loaded, Lists
  <1>3. PICK i \in DOMAIN releases : SelectedManifest = releases[i]
    <2>1. 1 \in DOMAIN releases
      BY <1>2
    <2>2. chosen # {} => (CHOOSE i \in chosen : TRUE) \in DOMAIN releases
      OBVIOUS
    <2> QED
      BY <1>1, <2>1, <2>2 DEF SelectedManifest
  <1> QED
    BY <1>1, <1>2, <1>3

LEMMA ConfirmSelectionInv == ASSUME Core, ConfirmSelection PROVE Core'
  <1> USE DEF ConfirmSelection, flags, network
  <1>1. catalogs[channel] # None /\ SelectedManifest \in Manifests
    BY SelectedIsListed DEF Core, TypeOK
  <1>2. ChoiceType'
    BY <1>1 DEF Core, TypeOK, ChoiceType
  <1>3. SelectedManifest' = SelectedManifest
    BY DEF SelectedManifest
  <1>4. Confirmed'
    BY <1>1, <1>3, NoneIsNothing DEF Confirmed, Use
  <1> QED
    BY <1>2, <1>4, SetupFrame DEF Core, TypeOK, WindowType, Overlays

LEMMA SelectTargetInv == ASSUME Core, SelectTarget PROVE Core'
  <1> USE DEF SelectTarget, RefreshDrives, flags, network
  <1>1. ChoiceType'
    BY DEF Core, TypeOK, ChoiceType
  <1>2. SelectedManifest' = SelectedManifest
    BY DEF SelectedManifest
  <1>3. Confirmed'
    BY <1>2, NoneIsNothing DEF Core, Confirmed, Use
  <1>4. \E on : Use("idle", on)
    OBVIOUS
  <1> QED
    BY <1>1, <1>3, <1>4, SetupFrame DEF Core, TypeOK, WindowType, Overlays

(* The target picker opens over a confirmed image only.                    *)
LEMMA ChooseDriveInv == ASSUME Core, ChooseDrive PROVE Core'
  <1> USE DEF ChooseDrive, flags, network
  <1>1. ChoiceType'
    BY DEF Core, TypeOK, ChoiceType
  <1>2. SelectedManifest' = SelectedManifest
    BY DEF SelectedManifest
  <1>3. Confirmed'
    BY <1>2, NoneIsNothing DEF Core, Confirmed, Use
  <1> QED
    BY <1>1, <1>3, SetupFrame DEF Core, TypeOK, WindowType, Overlays

(* Opening, leaving and closing the overlays of the setup screen.          *)
SetupOverlay ==
  \/ AskToErase \/ OpenSettings \/ ShowNotices \/ LeaveNotices
  \/ CloseOverlay /\ operation.kind = "idle"

LEMMA SetupOverlayInv == ASSUME Core, SetupOverlay PROVE Core'
  <1> USE DEF SetupOverlay, AskToErase, OpenSettings, ShowNotices, LeaveNotices, CloseOverlay,
              Overlay
  <1>1. /\ overlay' \in Overlays \cup {None} /\ overlay' # "TargetPicker"
        /\ UNCHANGED <<network, choice, run, flags>>
    BY NoneIsNothing DEF Overlays
  <1>2. PICK on : Use("idle", on)
    BY DEF Use
  <1>3. ChoiceType'
    BY <1>1, SameChoice DEF Core, TypeOK
  <1>4. Confirmed'
    BY <1>1, SameConfirmed DEF Core, network
  <1> HIDE DEF SetupOverlay
  <1> QED
    BY <1>1, <1>2, <1>3, <1>4, SetupFrame DEF Core, TypeOK, WindowType, flags

LEMMA ToggleVerifyInv == ASSUME Core, ToggleVerify PROVE Core'
  <1> USE DEF ToggleVerify
  <1>1. ChoiceType'
    BY SameChoice DEF Core, TypeOK
  <1>2. Confirmed'
    BY SameConfirmed DEF Core, network
  <1>3. verifyAfterWrite' \in BOOLEAN
    BY Zenon
  <1> QED
    BY <1>1, <1>2, <1>3, SetupFrame DEF Core, TypeOK, WindowType, Overlays

(* The new receiver drops what the old loader has sent or may still send.  *)
LEMMA ReloadCatalogInv == ASSUME Core, ReloadCatalog PROVE Core'
  <1> USE DEF Core, TypeOK, ReloadCatalog, Use
  <1>1. NetworkType'
    <2>1. loader'.request \in Nat /\ loader' = Loader(loader'.request)
      BY DEF NetworkType, Loader
    <2> QED
      BY <2>1 DEF NetworkType, Loader
  <1>2. Fresh'
    <2>1. loader'.left = <<"release", "beta">>
          /\ \A c \in Channels : catalogs'[c] = None /\ loader'.sent[c] = None
      BY DEF Loader
    <2> QED
      BY <2>1 DEF Fresh, Channels
  <1>3. ChoiceType'
    BY Zenon DEF ChoiceType, ClearImageDependants
  <1>4. Confirmed'
    BY NoneIsNothing DEF Confirmed, ClearImageDependants
  <1>5. RunType' /\ Told' /\ HeldOpen'
    BY SameRun, SameTold, EndHeldOpen DEF run
  <1>6. WindowType'
    BY EndFrameTypes DEF WindowType, flags
  <1> QED
    BY <1>1, <1>2, <1>3, <1>4, <1>5, <1>6

-----------------------------------------------------------------------------
(* The operation *)

USE DEF Backgrounds

LEMMA RunningRecord ==
  ASSUME operation \in Operations, operation.kind = "running"
  PROVE  operation \in [kind: {"running"}, request: FlashRequests, phase: Phases,
                        cancelRequested: BOOLEAN, skipRequested: BOOLEAN]
  BY DEF Operations, Idle

LEMMA StagesAre == DOMAIN Stages = 1 .. 11 /\ \A i \in DOMAIN Stages : Stages[i] \in Phases
  BY DEF Stages, Phases

LEMMA EndedType ==
  /\ Ended \in Backgrounds
  /\ Ended.stage = 1 /\ Ended.result = None
  <1>1. 1 \in DOMAIN Stages
    BY StagesAre
  <1> QED
    BY <1>1 DEF Ended

(* What was confirmed and selected becomes the request.                    *)
LEMMA StartInv ==
  ASSUME Core, ~closed, pc # "receive", EndFrame, StartOperation
  PROVE  Core'
  <1> USE DEF Core, TypeOK, StartOperation
  <1>1. NetworkType' /\ Fresh' /\ ChoiceType'
    BY SameNetwork, SameChoice
  <1>2. Confirmed'
    BY SameConfirmed, NoneIsNothing DEF network
  <1>3. Request \in FlashRequests
    BY DEF Ready, Request, FlashRequests, ChoiceType, WindowType
  <1>4. RunType'
    <2>1. "Downloading" \in Phases
      BY StagesAre DEF Stages
    <2>2. operation' \in Operations
      BY <1>3, <2>1 DEF Operations
    <2> QED
      BY <2>2, EndedType DEF RunType
  <1>5. WindowType'
    BY EndFrameTypes DEF WindowType, flags
  <1>6. Told'
    <2>1. Ready' /\ Request' = Request
      BY DEF Ready, Request, choice, flags
    <2>2. operation'.kind = "running" /\ operation'.request = Request
      OBVIOUS
    <2>3. background'.result \notin {"verified", "unverified"}
      BY EndedType, NoneIsNothing DEF Results
    <2> QED
      BY <2>1, <2>2, <2>3 DEF Told
  <1>7. HeldOpen'
    BY EndHeldOpen, EndedType
  <1> QED
    BY <1>1, <1>2, <1>4, <1>5, <1>6, <1>7

LEMMA EraseAndFlashInv == ASSUME Core, EraseAndFlash PROVE Core'
  BY StartInv DEF EraseAndFlash, Use

LEMMA RetryInv == ASSUME Core, Retry PROVE Core'
  BY StartInv DEF Retry, Use

(* Cancelling and skipping raise flags; the pipeline and its request stay. *)
Asks ==
  /\ operation.kind = "running" /\ operation' \in Operations /\ operation'.kind = "running"
  /\ operation'.request = operation.request
  /\ background' \in Backgrounds
  /\ background'.stage = background.stage
  /\ background'.verified = background.verified /\ background'.result = background.result

LEMMA AsksTold ==
  ASSUME Told, Asks, UNCHANGED choice, UNCHANGED verifyAfterWrite
  PROVE  Told'
  <1>1. Ready' = Ready /\ Request' = Request
    BY DEF Ready, Request, choice
  <1> QED
    BY <1>1 DEF Told, Asks

LEMMA AsksInv ==
  ASSUME Core, Asks, ~closed, pc # "receive", EndFrame,
         UNCHANGED network, UNCHANGED choice, UNCHANGED verifyAfterWrite,
         quitAfterOperation' \in BOOLEAN, overlay' \in {overlay, None}
  PROVE  Core'
  <1> USE DEF Core, TypeOK
  <1>1. NetworkType' /\ Fresh' /\ ChoiceType'
    BY SameNetwork, SameChoice
  <1>2. Confirmed'
    BY SameConfirmed, NoneIsNothing DEF network
  <1>3. RunType'
    BY DEF RunType, Asks
  <1>4. WindowType'
    BY EndFrameTypes DEF WindowType
  <1>5. Told'
    BY AsksTold
  <1>6. HeldOpen'
    BY EndHeldOpen DEF Asks
  <1> QED
    BY <1>1, <1>2, <1>3, <1>4, <1>5, <1>6

LEMMA CancelInv == ASSUME Core, Cancel PROVE Core'
  <1> USE DEF Core, TypeOK, RunType, Cancel, Use
  <1>1. Asks
    BY RunningRecord DEF Operations, Asks
  <1> QED
    BY <1>1, AsksInv DEF WindowType, flags

LEMMA SkipVerificationInv == ASSUME Core, SkipVerification PROVE Core'
  <1> USE DEF Core, TypeOK, RunType, SkipVerification, Use
  <1>1. Asks
    BY RunningRecord DEF Operations, Asks
  <1> QED
    BY <1>1, AsksInv DEF WindowType, flags

LEMMA StopAndQuitInv == ASSUME Core, StopAndQuit PROVE Core'
  <1>1. Asks
    <2> USE DEF Core, TypeOK, RunType, StopAndQuit, Use
    <2>1. CASE CanCancel(operation.phase)
      <3>1. /\ operation' = [operation EXCEPT !.cancelRequested = TRUE]
            /\ background' = [background EXCEPT !.cancelled = TRUE]
        BY <2>1
      <3>2. operation' \in Operations /\ operation'.kind = "running"
            /\ operation'.request = operation.request
        BY <3>1, RunningRecord DEF Operations
      <3>3. operation.kind = "running"
            /\ background \in Backgrounds
        OBVIOUS
      <3> HIDE DEF Core, TypeOK, RunType, StopAndQuit, Use
      <3>4. background' \in Backgrounds
        BY <3>1, <3>3
      <3>5. /\ background'.stage = background.stage
            /\ background'.verified = background.verified
            /\ background'.result = background.result
        BY <3>1, <3>3
      <3> QED
        BY <3>2, <3>3, <3>4, <3>5 DEF Asks
    <2>2. CASE ~ CanCancel(operation.phase)
      BY <2>2 DEF Asks
    <2> QED
      BY <2>1, <2>2
  <1>2. /\ ~closed /\ pc # "receive" /\ EndFrame /\ UNCHANGED <<network, choice, verifyAfterWrite>>
        /\ quitAfterOperation' = TRUE /\ overlay' = None
    BY DEF StopAndQuit, Use
  <1> QED
    BY <1>1, <1>2, AsksInv

(* Questions over a running operation, and a frame without input.          *)
LEMMA QuietFrameInv ==
  ASSUME Core, ~closed, pc # "receive", EndFrame, UNCHANGED <<network, choice, run, flags>>,
         overlay' \in Overlays \cup {None}, overlay' # "TargetPicker" \/ overlay' = overlay
  PROVE  Core'
  <1> USE DEF Core, TypeOK
  <1>1. NetworkType' /\ Fresh' /\ ChoiceType' /\ RunType'
    BY SameNetwork, SameChoice, SameRun
  <1>2. Confirmed'
    BY SameConfirmed DEF network
  <1>3. WindowType'
    BY EndFrameTypes DEF WindowType, flags
  <1>4. Told'
    BY SameTold DEF choice, flags
  <1>5. HeldOpen'
    BY EndHeldOpen DEF run
  <1> QED
    BY <1>1, <1>2, <1>3, <1>4, <1>5

LEMMA AskToSkipInv == ASSUME Core, AskToSkip PROVE Core'
  BY QuietFrameInv DEF AskToSkip, Use, Overlay, Overlays

LEMMA CloseOverlayInv == ASSUME Core, CloseOverlay PROVE Core'
  BY QuietFrameInv, NoneIsNothing DEF CloseOverlay, Use, Overlay

LEMMA NoInputInv == ASSUME Core, NoInput PROVE Core'
  BY QuietFrameInv, NoneIsNothing DEF NoInput, Core, TypeOK, WindowType

(* The screens of an operation that has ended lead back to the setup.      *)
LEMMA BackToSetup ==
  ASSUME Core, ~closed, pc # "receive", EndFrame, operation' = Idle, background' = Ended,
         UNCHANGED <<network, flags, overlay>>, ChoiceType', Confirmed'
  PROVE  Core'
  <1> USE DEF Core, TypeOK
  <1>1. NetworkType' /\ Fresh'
    BY SameNetwork
  <1>2. operation'.kind = "idle" /\ operation' \in Operations
    BY DEF Idle, Operations
  <1>3. RunType'
    BY <1>2, EndedType DEF RunType
  <1>4. WindowType'
    BY EndFrameTypes DEF WindowType, flags
  <1>5. Told'
    BY <1>2, EndedType, NoneIsNothing DEF Told, Results
  <1>6. HeldOpen'
    BY <1>2 DEF HeldOpen
  <1> QED
    BY <1>1, <1>3, <1>4, <1>5, <1>6

LEMMA ResetForAnotherInv == ASSUME Core, ResetForAnother PROVE Core'
  <1> USE DEF ResetForAnother, ClearImageDependants, Use
  <1>1. ChoiceType'
    BY DEF Core, TypeOK, ChoiceType, Channels
  <1>2. Confirmed'
    BY NoneIsNothing DEF Confirmed
  <1> QED
    BY <1>1, <1>2, BackToSetup

LEMMA ReturnToSetupInv == ASSUME Core, ReturnToSetup PROVE Core'
  <1> USE DEF ReturnToSetup, Use
  <1>1. ChoiceType'
    BY DEF Core, TypeOK, ChoiceType
  <1>2. SelectedManifest' = SelectedManifest
    BY DEF SelectedManifest, network
  <1>3. Confirmed'
    BY <1>2, NoneIsNothing DEF Core, Confirmed, network
  <1> QED
    BY <1>1, <1>3, BackToSetup

-----------------------------------------------------------------------------
(* The start of a frame *)

LEMMA ReceivedNetwork ==
  ASSUME NetworkType, Fresh, ReceiveCatalog
  PROVE  NetworkType' /\ Fresh'
  <1> USE DEF ReceiveCatalog
  <1>1. /\ loader'.request = loader.request /\ loader'.left = loader.left
        /\ loader'.sent = [c \in Channels |-> None]
    BY DEF NetworkType
  <1>2. \A c \in Channels : catalogs'[c] \in {catalogs[c], loader.sent[c]}
        /\ (catalogs'[c] # catalogs[c] => loader.sent[c] # None /\ loader.sent[c].releases # <<>>)
    OBVIOUS
  <1>3. NetworkType'
    <2>1. catalogs' \in [Channels -> Loaded \cup {None}]
      BY <1>2 DEF NetworkType
    <2>2. loader' \in [request: Nat, left: {<<"release", "beta">>, <<"beta">>, <<>>},
                       sent: [Channels -> Loaded \cup {None}]]
      BY <1>1 DEF NetworkType
    <2> QED
      BY <2>1, <2>2 DEF NetworkType
  <1>4. Fresh'
    <2>1. \A c \in Channels : catalogs'[c] # None =>
            catalogs'[c].request = loader'.request /\ catalogs'[c].releases # <<>>
      BY <1>1, <1>2 DEF Fresh
    <2>2. \A c \in Channels : loader'.sent[c] = None
      BY <1>1
    <2>3. \A i \in DOMAIN loader.left : loader.left[i] \in Channels
      BY DEF NetworkType, Channels
    <2>4. \A i \in DOMAIN loader.left : catalogs'[loader.left[i]] = None
      BY <1>2, <2>3 DEF Fresh
    <2> QED
      BY <1>1, <2>1, <2>2, <2>3, <2>4 DEF Fresh
  <1> QED
    BY <1>3, <1>4

(* A channel that is shown is not told again: what is confirmed stays.     *)
LEMMA ReceivedConfirmed ==
  ASSUME Fresh, ChoiceType, Confirmed, ReceiveCatalog,
         overlay' = "TargetPicker" => overlay = "TargetPicker"
  PROVE  Confirmed'
  <1> USE DEF ReceiveCatalog
  <1>1. ASSUME confirmed # None
        PROVE  catalogs'[channel] = catalogs[channel] /\ selectedVersion' = selectedVersion
    <2>1. channel \in Channels /\ catalogs[channel] # None
      BY <1>1 DEF Confirmed, ChoiceType
    <2>2. loader.sent[channel] = None
      BY <2>1 DEF Fresh
    <2> QED
      BY <2>1, <2>2
  <1>2. UNCHANGED <<board, channel, confirmed, selectedDrive>>
    OBVIOUS
  <1> HIDE DEF ReceiveCatalog
  <1>3. ASSUME confirmed # None PROVE SelectedManifest' = SelectedManifest
    <2> DEFINE named(catalog, version) ==
          IF catalog = None THEN None
          ELSE LET releases == catalog.releases
                   chosen   == {i \in DOMAIN releases : releases[i].version = version}
               IN  releases[IF chosen = {} THEN 1 ELSE CHOOSE i \in chosen : TRUE]
    <2>1. SelectedManifest = named(catalogs[channel], selectedVersion)
      BY DEF SelectedManifest
    <2>2. SelectedManifest' = named(catalogs'[channel'], selectedVersion')
      BY DEF SelectedManifest
    <2> HIDE DEF named
    <2> QED
      BY <1>1, <1>2, <1>3, <2>1, <2>2
  <1> QED
    BY <1>1, <1>2, <1>3 DEF Confirmed

LEMMA ReceivedChoice ==
  ASSUME ChoiceType, ReceiveCatalog PROVE ChoiceType'
  <1>1. catalogError' \in BOOLEAN
    BY Zenon DEF ReceiveCatalog, ChoiceType
  <1> QED
    BY <1>1 DEF ReceiveCatalog, ChoiceType

(* The cases of receive_operation: no operation, a report, the result.     *)
Reported ==
  /\ operation.kind = "running"
  /\ operation' = [operation EXCEPT !.phase = Stages[background.stage]]
  /\ HoldClose
Ends ==
  /\ operation.kind = "running" /\ background.result # None
  /\ operation' = Transition /\ overlay' = None /\ CloseIfAsked

LEMMA ReceiveOperationCases ==
  ASSUME ReceiveOperation
  PROVE  \/ operation.kind # "running" /\ UNCHANGED <<operation, overlay, closeRequested>>
         \/ Reported
         \/ Ends
  BY DEF ReceiveOperation, Reported, Ends

LEMMA ReportedOperation ==
  ASSUME RunType, Reported
  PROVE  /\ operation' \in Operations /\ operation'.kind = "running"
         /\ operation'.request = operation.request
  <1>1. operation' \in [kind: {"running"}, request: FlashRequests, phase: Phases,
                        cancelRequested: BOOLEAN, skipRequested: BOOLEAN]
    BY RunningRecord, StagesAre DEF RunType, Reported
  <1>2. operation'.request = operation.request
    BY RunningRecord DEF RunType, Reported
  <1> QED
    BY <1>1, <1>2 DEF Operations

LEMMA EndedOperation ==
  ASSUME RunType, Ends
  PROVE  /\ operation' \in Operations /\ operation'.kind \in {"succeeded", "failed"}
         /\ operation'.request = operation.request
         /\ operation'.kind = "succeeded" =>
              /\ background.result \in {"verified", "unverified"}
              /\ operation'.verified = (background.result = "verified")
         /\ operation'.kind = "failed" => operation'.phase = Stages[background.stage]
  <1>1. operation.request \in FlashRequests
    BY RunningRecord DEF RunType, Ends
  <1>2. background.result \in Results /\ Stages[background.stage] \in Phases
    BY StagesAre DEF RunType, Ends
  <1>3. CASE background.result \in {"verified", "unverified"}
    <2>1. operation' = Success(background.result = "verified")
      BY <1>3 DEF Ends, Transition
    <2>2. (background.result = "verified") \in BOOLEAN
      OBVIOUS
    <2> QED
      BY <1>1, <1>3, <2>1, <2>2 DEF Success, Operations
  <1>4. CASE background.result \notin {"verified", "unverified"}
    <2>1. operation' = Failure(Stages[background.stage], background.result)
      BY <1>4 DEF Ends, Transition
    <2> QED
      BY <1>1, <1>2, <2>1 DEF Failure, Operations
  <1> QED
    BY <1>3, <1>4

LEMMA ReceiveInv == ASSUME Core, Receive PROVE Core'
  <1> USE DEF Core, TypeOK, Receive
  <1>1. NetworkType' /\ Fresh' /\ ChoiceType'
    BY ReceivedNetwork, ReceivedChoice
  <1>2. /\ overlay' \in {overlay, None, "CloseConfirmation"}
        /\ closeRequested' \in {"no", "now", "next"}
    BY ReceiveOperationCases
    DEF Reported, Ends, HoldClose, CloseIfAsked, WindowType
  <1>3. Confirmed'
    BY <1>2, ReceivedConfirmed, NoneIsNothing
  <1>4. RunType'
    BY ReceiveOperationCases, ReportedOperation, EndedOperation DEF RunType
  <1>5. WindowType'
    BY <1>2 DEF WindowType, Overlays, flags
  <1>6. Ready' = Ready /\ Request' = Request
    BY DEF ReceiveCatalog, Ready, Request, flags
  <1>7. Told'
    <2>1. CASE operation' = operation
      BY <1>6, <2>1 DEF Told
    <2>2. CASE Reported
      BY <1>6, <2>2, ReportedOperation DEF Told, Reported
    <2>3. CASE Ends
      <3>1. operation.kind = "running"
        BY <2>3 DEF Ends
      <3> QED
        BY <1>6, <2>3, <3>1, EndedOperation DEF Told
    <2> QED
      BY <2>1, <2>2, <2>3, ReceiveOperationCases
  <1>8. HeldOpen'
    <2>1. CASE operation.kind # "running"
      BY <2>1, ReceiveOperationCases DEF HeldOpen, Reported, Ends
    <2>2. CASE Reported
      BY <2>2 DEF HeldOpen, Reported, HoldClose
    <2>3. CASE Ends
      BY <2>3, EndedOperation DEF HeldOpen
    <2> QED
      BY <2>1, <2>2, <2>3, ReceiveOperationCases
  <1> QED
    BY <1>1, <1>3, <1>4, <1>5, <1>7, <1>8

LEMMA RequestCloseInv == ASSUME Core, RequestClose PROVE Core'
  <1> USE DEF Core, TypeOK, RequestClose
  <1>1. NetworkType' /\ Fresh' /\ ChoiceType' /\ RunType'
    BY SameNetwork, SameChoice, SameRun
  <1>2. Confirmed'
    BY SameConfirmed DEF network
  <1>3. WindowType'
    BY DEF WindowType, flags
  <1>4. Told'
    BY SameTold DEF choice, flags
  <1>5. HeldOpen'
    BY DEF HeldOpen, run
  <1> QED
    BY <1>1, <1>2, <1>3, <1>4, <1>5

-----------------------------------------------------------------------------
(* The other threads *)

(* The loader answers the channels that are left, each once.               *)
LEMMA LoadChannelInv == ASSUME Core, LoadChannel PROVE Core'
  <1> USE DEF Core, TypeOK, LoadChannel
  <1>1. /\ UNCHANGED <<catalogs, choice, run, flags, window, overlay>>
        /\ loader.left # <<>> /\ Head(loader.left) \in Channels
        /\ Tail(loader.left) \in {<<"beta">>, <<>>}
    <2>1. loader.left \in {<<"release", "beta">>, <<"beta">>} /\ loader.left # <<>>
      BY DEF NetworkType
    <2>2. Head(loader.left) \in Channels /\ Tail(loader.left) \in {<<"beta">>, <<>>}
      <3>1. CASE loader.left = <<"release", "beta">>
        BY <3>1 DEF Channels
      <3>2. CASE loader.left = <<"beta">>
        BY <3>2 DEF Channels
      <3> QED
        BY <2>1, <3>1, <3>2
    <2> QED
      BY <2>1, <2>2
  <1>2. PICK list \in Lists :
          loader' = [loader EXCEPT !.left = Tail(@), !.sent[Head(loader.left)] = Answered(list)]
    BY <1>1, FetchedList
  <1>3. Answered(list) \in Loaded /\ Answered(list).request = loader.request
    BY DEF Answered, Loaded, NetworkType
  <1> HIDE DEF LoadChannel
  <1>4. /\ loader'.request = loader.request
        /\ loader'.left = Tail(loader.left)
        /\ loader'.sent = [loader.sent EXCEPT ![Head(loader.left)] = Answered(list)]
    BY <1>2 DEF NetworkType
  <1>5. NetworkType'
    <2>1. loader'.sent \in [Channels -> Loaded \cup {None}]
      BY <1>3, <1>4 DEF NetworkType
    <2>2. DOMAIN loader' = {"request", "left", "sent"}
      BY <1>2 DEF NetworkType
    <2>3. loader' \in [request: Nat, left: {<<"release", "beta">>, <<"beta">>, <<>>},
                       sent: [Channels -> Loaded \cup {None}]]
      BY <1>1, <1>2, <1>4, <2>1, <2>2 DEF NetworkType
    <2> QED
      BY <1>1, <2>3 DEF NetworkType
  <1>6. Fresh'
    <2>1. catalogs[Head(loader.left)] = None
      <3>1. 1 \in DOMAIN loader.left /\ Head(loader.left) = loader.left[1]
        BY <1>1 DEF NetworkType
      <3> QED
        BY <3>1 DEF Fresh
    <2>2. \A i \in DOMAIN Tail(loader.left) :
            /\ Tail(loader.left)[i] # Head(loader.left) /\ Tail(loader.left)[i] \in Channels
            /\ catalogs[Tail(loader.left)[i]] = None /\ loader.sent[Tail(loader.left)[i]] = None
      <3>1. CASE loader.left = <<"release", "beta">>
        BY <3>1 DEF Fresh, Channels
      <3>2. CASE loader.left = <<"beta">>
        BY <3>2
      <3> QED
        BY <3>1, <3>2 DEF NetworkType
    <2> QED
      BY <1>1, <1>3, <1>4, <2>1, <2>2 DEF Fresh, NetworkType
  <1>7. ChoiceType' /\ RunType'
    BY <1>1, SameChoice, SameRun
  <1>8. Confirmed'
    BY <1>1, SameConfirmed
  <1>9. WindowType'
    BY <1>1 DEF WindowType, flags, window
  <1>10. Told'
    BY <1>1, SameTold DEF choice, flags
  <1>11. HeldOpen'
    BY <1>1 DEF HeldOpen, run, window
  <1> QED
    BY <1>5, <1>6, <1>7, <1>8, <1>9, <1>10, <1>11

(* A result tells of the verification.                                     *)
LEMMA PipelineBackground ==
  ASSUME Core, Pipeline
  PROVE  /\ background' \in Backgrounds
         /\ background'.result \in {"verified", "unverified"} =>
              background'.verified = (background'.result = "verified")
  <1>0. background \in Backgrounds /\ background.result = None
    BY DEF Core, TypeOK, RunType, Told, Pipeline
  <1> USE <1>0
  <1>1. CASE Advance
    <2>1. background.stage + 1 \in DOMAIN Stages /\ Syncing \in DOMAIN Stages
      <3>1. background.stage \in 1 .. 11 /\ background.stage < 11
        BY <1>1, StagesAre DEF Advance, Ejecting
      <3> QED
        BY <3>1, StagesAre DEF Syncing
    <2>2. \/ \E stage \in DOMAIN Stages : Post(stage)
          \/ \E done \in BOOLEAN :
               background' = [background EXCEPT !.stage = background.stage + 1, !.verified = done]
      BY <1>1, <2>1 DEF Advance
    <2>3. background' \in Backgrounds /\ background'.result = None
      <3>1. ASSUME NEW stage \in DOMAIN Stages, Post(stage)
            PROVE  background' \in Backgrounds /\ background'.result = None
        BY <3>1 DEF Post
      <3>2. ASSUME NEW done \in BOOLEAN,
                   background' = [background EXCEPT !.stage = background.stage + 1,
                                                    !.verified = done]
            PROVE  background' \in Backgrounds /\ background'.result = None
        BY <2>1, <3>2
      <3> QED
        BY <2>2, <3>1, <3>2
    <2> QED
      BY <2>3, NoneIsNothing DEF Results
  <1>2. CASE Finish
    <2>1. PICK result \in Results :
            /\ background' = [background EXCEPT !.result = result]
            /\ result \in {"verified", "unverified"} =>
                 result = (IF background.verified THEN "verified" ELSE "unverified")
      BY <1>2 DEF Finish, Return, Results
    <2> QED
      BY <2>1
  <1> QED
    BY <1>1, <1>2 DEF Pipeline

LEMMA PipelineInv == ASSUME Core, Pipeline PROVE Core'
  <1> USE DEF Core, TypeOK, Pipeline
  <1>1. NetworkType' /\ Fresh' /\ ChoiceType'
    BY SameNetwork, SameChoice
  <1>2. Confirmed'
    BY SameConfirmed DEF network
  <1>3. RunType'
    BY PipelineBackground DEF RunType
  <1>4. WindowType'
    BY DEF WindowType, flags, window
  <1>5. Told'
    <2>1. Ready' = Ready /\ Request' = Request
      BY DEF Ready, Request, choice, flags
    <2> QED
      BY <2>1, PipelineBackground DEF Told
  <1>6. HeldOpen'
    BY DEF HeldOpen, window
  <1> QED
    BY <1>1, <1>2, <1>3, <1>4, <1>5, <1>6

-----------------------------------------------------------------------------
(* The window as a whole *)

LEMMA InitInv == Init => Core
  <1> SUFFICES ASSUME Init PROVE Core
    OBVIOUS
  <1> USE DEF Init
  <1>1. NetworkType /\ Fresh
    BY DEF Loader, NetworkType, Fresh, Channels
  <1>2. ChoiceType /\ Confirmed
    BY NoneIsNothing DEF ChoiceType, Channels, Confirmed
  <1>3. operation.kind = "idle" /\ operation \in Operations
    BY DEF Idle, Operations
  <1>4. RunType
    BY <1>3, EndedType DEF RunType
  <1>5. WindowType
    BY DEF WindowType
  <1>6. Told /\ HeldOpen
    BY <1>3, EndedType, NoneIsNothing DEF Told, HeldOpen, Results
  <1> QED
    BY <1>1, <1>2, <1>4, <1>5, <1>6 DEF Core, TypeOK

LEMMA StutterInv == ASSUME Core, UNCHANGED vars PROVE Core'
  <1> USE DEF Core, TypeOK, vars
  <1>1. NetworkType' /\ Fresh' /\ ChoiceType' /\ RunType'
    BY SameNetwork, SameChoice, SameRun
  <1>2. Confirmed'
    BY SameConfirmed DEF network
  <1>3. WindowType'
    BY DEF WindowType, flags, window
  <1>4. Told'
    BY SameTold DEF choice, flags
  <1>5. HeldOpen'
    BY DEF HeldOpen, run, window
  <1> QED
    BY <1>1, <1>2, <1>3, <1>4, <1>5

LEMMA NextInv == ASSUME Core, [Next]_vars PROVE Core'
  <1>1. CASE Receive
    BY <1>1, ReceiveInv
  <1>2. CASE NoInput
    BY <1>2, NoInputInv
  <1>3. CASE ChooseBoard \/ ChooseChannel \/ ChooseVersion \/ ConfirmSelection \/ ReloadCatalog
    BY <1>3, ChooseBoardInv, ChooseChannelInv, ChooseVersionInv, ConfirmSelectionInv,
       ReloadCatalogInv
  <1>4. CASE SelectTarget \/ ChooseDrive \/ ToggleVerify
    BY <1>4, SelectTargetInv, ChooseDriveInv, ToggleVerifyInv
  <1>5. CASE AskToErase \/ OpenSettings \/ ShowNotices \/ LeaveNotices
    BY <1>5, SetupOverlayInv DEF SetupOverlay
  <1>6. CASE CloseOverlay \/ AskToSkip
    BY <1>6, CloseOverlayInv, AskToSkipInv
  <1>7. CASE EraseAndFlash \/ Cancel \/ SkipVerification \/ StopAndQuit
    BY <1>7, EraseAndFlashInv, CancelInv, SkipVerificationInv, StopAndQuitInv
  <1>8. CASE ResetForAnother \/ ReturnToSetup \/ Retry
    BY <1>8, ResetForAnotherInv, ReturnToSetupInv, RetryInv
  <1>9. CASE RequestClose \/ LoadChannel \/ Pipeline
    BY <1>9, RequestCloseInv, LoadChannelInv, PipelineInv
  <1>10. CASE UNCHANGED vars
    BY <1>10, StutterInv
  <1> QED
    BY <1>1, <1>2, <1>3, <1>4, <1>5, <1>6, <1>7, <1>8, <1>9, <1>10 DEF Next, Frame

-----------------------------------------------------------------------------
(* The wish to quit *)

(* A frame that keeps the operation going, or was asked to close.          *)
LEMMA EndKeepsQuit ==
  ASSUME Core, QuitKept, ~closed, EndFrame,
         operation.kind = "running" => operation'.kind = "running",
         UNCHANGED quitAfterOperation \/ operation'.kind = "running"
  PROVE  QuitKept'
  <1>1. closeRequested = "now" => closed'
    BY Zenon DEF EndFrame
  <1>2. closeRequested = "next" => closeRequested' = "now"
    BY DEF EndFrame
  <1>3. closeRequested \in {"no", "now", "next"}
    BY DEF Core, TypeOK, WindowType
  <1>4. CASE operation'.kind = "running"
    BY <1>4 DEF QuitKept
  <1>5. CASE operation'.kind # "running"
    <2>1. quitAfterOperation' = quitAfterOperation /\ operation.kind # "running"
      BY <1>5
    <2> QED
      BY <1>1, <1>2, <1>3, <2>1 DEF QuitKept
  <1> QED
    BY <1>4, <1>5

LEMMA QuietQuit ==
  ASSUME QuitKept, UNCHANGED <<operation, quitAfterOperation, closeRequested, closed>>
  PROVE  QuitKept'
  BY DEF QuitKept

(* The setup screen and the last one have no operation that could end.     *)
LEMMA IdleKeepsQuit ==
  ASSUME Core, QuitKept,
         \/ ChooseBoard \/ ChooseChannel \/ ChooseVersion \/ ConfirmSelection \/ ReloadCatalog
         \/ SelectTarget \/ ChooseDrive \/ AskToErase \/ OpenSettings \/ ShowNotices
         \/ LeaveNotices \/ ToggleVerify \/ EraseAndFlash
         \/ ResetForAnother \/ ReturnToSetup \/ Retry
  PROVE  QuitKept'
  <1>1. ~closed /\ EndFrame /\ operation.kind # "running" /\ UNCHANGED quitAfterOperation
    BY DEF ChooseBoard, ChooseChannel, ChooseVersion, ConfirmSelection, ReloadCatalog, SelectTarget,
           RefreshDrives, ChooseDrive, AskToErase, OpenSettings, ShowNotices, LeaveNotices, Overlay,
           ToggleVerify, EraseAndFlash, StartOperation, ResetForAnother, ReturnToSetup, Retry, Use,
           flags
  <1> QED
    BY <1>1, EndKeepsQuit

LEMMA RunningKeepsQuit ==
  ASSUME Core, QuitKept,
         NoInput \/ CloseOverlay \/ Cancel \/ AskToSkip \/ SkipVerification \/ StopAndQuit
  PROVE  QuitKept'
  <1>1. operation \in Operations
    BY DEF Core, TypeOK, RunType
  <1>2. ~closed /\ EndFrame
    BY DEF NoInput, CloseOverlay, Cancel, AskToSkip, SkipVerification, StopAndQuit, Use
  <1>3. CASE NoInput \/ CloseOverlay \/ AskToSkip
    <2>1. UNCHANGED <<operation, quitAfterOperation>>
      BY <1>3 DEF NoInput, CloseOverlay, AskToSkip, Overlay, run, flags
    <2> QED
      BY <1>2, <2>1, EndKeepsQuit
  <1>4. CASE Cancel \/ SkipVerification \/ StopAndQuit
    <2>1. operation.kind = "running"
      BY <1>4 DEF Cancel, SkipVerification, StopAndQuit, Use
    <2>2. \/ operation' = operation
          \/ \E ok \in BOOLEAN : \/ operation' = [operation EXCEPT !.cancelRequested = ok]
                                \/ operation' = [operation EXCEPT !.skipRequested = ok]
      BY <1>4 DEF Cancel, SkipVerification, StopAndQuit
    <2>3. operation'.kind = "running"
      BY <1>1, <2>1, <2>2, RunningRecord
    <2> QED
      BY <1>2, <2>3, EndKeepsQuit
  <1> QED
    BY <1>3, <1>4

(* An operation that ends closes the window if that was asked for.         *)
LEMMA ReceiveKeepsQuit ==
  ASSUME Core, QuitKept, Receive
  PROVE  QuitKept'
  <1>1. ReceiveOperation /\ UNCHANGED <<quitAfterOperation, closed>>
    BY DEF Receive, flags
  <1>2. CASE operation.kind # "running"
    BY <1>1, <1>2, QuietQuit DEF ReceiveOperation
  <1>3. CASE operation.kind = "running" /\ background.result = None
    <2>1. operation' = [operation EXCEPT !.phase = Stages[background.stage]]
      BY <1>1, <1>3 DEF ReceiveOperation
    <2>2. operation'.kind = "running"
      BY <1>3, <2>1, RunningRecord DEF Core, TypeOK, RunType
    <2> QED
      BY <2>2 DEF QuitKept
  <1>4. CASE operation.kind = "running" /\ background.result # None
    <2>1. CloseIfAsked
      BY <1>1, <1>4 DEF ReceiveOperation
    <2> QED
      BY <1>1, <2>1 DEF CloseIfAsked, QuitKept
  <1> QED
    BY <1>2, <1>3, <1>4

LEMMA QuitStep ==
  ASSUME Core, QuitKept, [Next]_vars
  PROVE  QuitKept'
  <1>1. CASE Frame
    BY <1>1, IdleKeepsQuit, RunningKeepsQuit, ReceiveKeepsQuit DEF Frame
  <1>2. CASE RequestClose
    BY <1>2 DEF RequestClose, QuitKept
  <1>3. CASE LoadChannel \/ Pipeline \/ UNCHANGED vars
    <2>1. UNCHANGED <<operation, quitAfterOperation, closeRequested, closed>>
      BY <1>3 DEF LoadChannel, Pipeline, run, flags, window, vars
    <2> QED
      BY <2>1, QuietQuit
  <1> QED
    BY <1>1, <1>2, <1>3 DEF Next

(* Whatever the release service answers and the user does, in any order    *)
(* with the loader and the pipeline thread: a confirmed image is the one   *)
(* the setup screen names, a running or a failed operation is still the    *)
(* one the erase dialog named, and its screen tells the phase that the     *)
(* pipeline has posted last.                                               *)
THEOREM AppInvariant == Spec => []AppInv
  <1>1. Init => AppInv
    BY InitInv DEF Init, AppInv, Core, QuitKept
  <1>2. AppInv /\ [Next]_vars => AppInv'
    BY NextInv, QuitStep DEF AppInv, Core
  <1> QED
    BY <1>1, <1>2, PTL DEF Spec

(* The close handler of ui() and HoldClose: the process cannot go away     *)
(* under a pipeline that has left its first stage.                         *)
THEOREM NeverLeavesWriterAlways == Spec => []NeverLeavesWriter
  <1>1. AppInv => NeverLeavesWriter
    BY DEF AppInv, HeldOpen, NeverLeavesWriter
  <1> QED
    BY <1>1, AppInvariant, PTL
================================================================================
