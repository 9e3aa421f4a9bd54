---------------------------- MODULE DownloadProofs ----------------------------
(***************************************************************************)
(* What Download promises, for any number of downloads and any size.       *)
(***************************************************************************)
EXTENDS Download, TLAPS

Over    == {"unused", "published", "failed"}
Verdict == {"sync", "recheck", "rename", "published"}
Places  == Active \cup {"unused", "start", "available", "send", "received", "free",
                        "partial", "create", "published", "drop", "failed"}

LEMMA InitInv == Init => DownloadInv
  <1> SUFFICES ASSUME Init PROVE DownloadInv
    OBVIOUS
  <1> USE DownloadAssumption DEF Init, Active
  <1>1. PICK first \in Downloads : pc =
          [d \in Downloads |-> IF stage = "none" \/ d = first THEN "start" ELSE "unused"]
    BY DEF Init
  <1>2. capacity \in {Size - 1, Size}
    OBVIOUS
  <1>3. TypeOK
    <2>1. 0 \in Sizes
      BY DEF Sizes
    <2>2. job \in [size: Sizes, good: BOOLEAN, written: BOOLEAN]
      BY <2>1 DEF Absent
    <2>3. pc \in [Downloads -> {"start", "unused"}]
      BY <1>1
    <2>4. /\ pc \in [Downloads -> Places]
          /\ downloaded \in [Downloads -> Sizes] /\ good \in [Downloads -> BOOLEAN]
          /\ cancelled \in [Downloads -> BOOLEAN]
      BY <2>1, <2>3 DEF Places
    <2>5. /\ late \subseteq Downloads /\ holder \in Downloads \cup {Nobody}
          /\ destination \in Downloads \cup {Foreign, Nobody}
          /\ raw \in Sizes \cup {NoSize} /\ rawGood \in BOOLEAN
      OBVIOUS
    <2> QED
      BY <1>2, <2>2, <2>4, <2>5 DEF TypeOK, Places
  <1>4. OwnFile /\ Checked /\ Watched
    BY <1>1 DEF OwnFile, Checked, Watched
  <1>5. OneDownload /\ Prepared
    BY <1>1 DEF OneDownload, Prepared
  <1> QED
    BY <1>3, <1>4, <1>5 DEF DownloadInv

-----------------------------------------------------------------------------
(* A step of one download that touches no file of another.                 *)
LEMMA Walks ==
  ASSUME DownloadInv, NEW d \in Downloads, NEW next \in Places \ Over,
         Go(d, next), Files, Rest, pc[d] \notin Over \cup {"drop"},
         next \in Active => pc[d] \in Active,
         pc[d] \in Active => next \in Active \cup {"drop"},
         downloaded' \in [Downloads -> Sizes], good' \in [Downloads -> BOOLEAN],
         \A e \in Downloads \ {d} : downloaded'[e] = downloaded[e] /\ good'[e] = good[e],
         next \in Verdict => Expected(d)',
         next = "rename" => destination = Nobody
  PROVE  DownloadInv'
  <1> USE DEF DownloadInv, Go, Files, Rest, pipeline, Over
  <1>1. TypeOK'
    <2>1. pc' \in [Downloads -> Places]
      BY DEF TypeOK, Places
    <2>2. UNCHANGED <<request, cancelled, late, holder, destination, stage, raw, rawGood,
                      capacity, job>>
      OBVIOUS
    <2> QED
      BY <2>1, <2>2 DEF TypeOK, Places
  <1>2. pc' \in [Downloads -> Places] /\ pc'[d] = next
        /\ \A e \in Downloads \ {d} : pc'[e] = pc[e]
    BY DEF TypeOK, Places
  <1>3. OwnFile'
    BY <1>2 DEF OwnFile
  <1>4. Checked'
    BY <1>2 DEF Checked, Expected, Verdict
  <1>5. Watched'
    BY <1>2 DEF Watched
  <1>6. OneDownload' /\ Prepared'
    BY <1>2 DEF OneDownload, Prepared, RawExpected
  <1> QED
    BY <1>1, <1>3, <1>4, <1>5, <1>6

LEMMA QuietWalks ==
  ASSUME DownloadInv, NEW d \in Downloads, NEW next \in Places \ Over,
         Go(d, next), Files, Rest, Body, pc[d] \notin Over \cup {"drop"},
         next \in Active => pc[d] \in Active,
         pc[d] \in Active => next \in Active \cup {"drop"},
         next \in Verdict => Expected(d),
         next = "rename" => destination = Nobody
  PROVE  DownloadInv'
  <1>1. Expected(d)' = Expected(d)
    BY DEF Expected, Body, Rest
  <1>2. downloaded' \in [Downloads -> Sizes] /\ good' \in [Downloads -> BOOLEAN]
    BY DEF DownloadInv, TypeOK, Body
  <1> QED
    BY <1>1, <1>2, Walks DEF Body

(* Every step that only looks, waits or compares.                          *)
LEMMA LooksInv ==
  ASSUME DownloadInv, NEW d \in Downloads,
         \/ Start(d) \/ Available(d) \/ Send(d) \/ Received(d) \/ StillFree(d)
         \/ LookForPartial(d) \/ Loop(d) \/ Complete(d) \/ SyncPartial(d) \/ Recheck(d)
  PROVE  DownloadInv'
  <1> USE DEF At, Fail, Places, Over, Active, Verdict, FindFree, CheckCancelled
  <1>0. pc[d] \in Verdict => Expected(d)
    BY DEF DownloadInv, Checked
  <1>1. CASE Start(d) \/ Received(d) \/ Loop(d)
    BY <1>1, QuietWalks DEF Start, Received, Loop
  <1>2. CASE Available(d) \/ StillFree(d)
    BY <1>2, QuietWalks DEF Available, StillFree
  <1>3. CASE Recheck(d)
    BY <1>0, <1>3, QuietWalks DEF Recheck
  <1>4. CASE Send(d)
    <2>1. Go(d, "received") \/ Go(d, "drop")
      BY <1>4 DEF Send
    <2> QED
      BY <1>4, <2>1, QuietWalks DEF Send
  <1>5. CASE LookForPartial(d)
    BY <1>5, QuietWalks DEF LookForPartial
  <1>6. CASE Complete(d)
    BY <1>6, QuietWalks DEF Complete
  <1>7. CASE SyncPartial(d)
    BY <1>0, <1>7, QuietWalks DEF SyncPartial
  <1> QED
    BY <1>1, <1>2, <1>3, <1>4, <1>5, <1>6, <1>7

LEMMA ReadBodyInv ==
  ASSUME DownloadInv, NEW d \in Downloads, ReadBody(d)
  PROVE  DownloadInv'
  <1> USE DEF At, Fail, Places, Over, Active, Verdict
  <1>1. CASE Go(d, "complete") /\ UNCHANGED downloaded
             /\ \E same \in BOOLEAN : good' = [good EXCEPT ![d] = same /\ downloaded[d] = Size]
    <2>1. good' \in [Downloads -> BOOLEAN] /\ \A e \in Downloads \ {d} : good'[e] = good[e]
      BY <1>1 DEF DownloadInv, TypeOK
    <2>2. downloaded' \in [Downloads -> Sizes]
      BY <1>1 DEF DownloadInv, TypeOK
    <2> QED
      BY <1>1, <2>1, <2>2, Walks DEF ReadBody
  <1>2. CASE downloaded[d] + 1 \in Sizes /\ downloaded' = [downloaded EXCEPT ![d] = @ + 1]
             /\ Go(d, "loop") /\ UNCHANGED good
    <2>1. good' \in [Downloads -> BOOLEAN]
      BY <1>2 DEF DownloadInv, TypeOK
    <2>2. /\ downloaded' \in [Downloads -> Sizes]
          /\ \A e \in Downloads \ {d} : downloaded'[e] = downloaded[e]
      BY <1>2 DEF DownloadInv, TypeOK
    <2> QED
      BY <1>2, <2>1, <2>2, Walks DEF ReadBody
  <1>3. CASE Fail(d) /\ Body
    BY <1>3, QuietWalks DEF ReadBody
  <1> QED
    BY <1>1, <1>2, <1>3 DEF ReadBody

-----------------------------------------------------------------------------
(* The partial file appears, becomes the destination, and is removed.      *)

LEMMA CreatePartialInv ==
  ASSUME DownloadInv, NEW d \in Downloads, CreatePartial(d)
  PROVE  DownloadInv'
  <1> USE DEF At, Places, Over, Active, Verdict
  <1>1. CASE Fail(d) /\ UNCHANGED holder
    BY <1>1, QuietWalks DEF CreatePartial, Fail, Files
  <1>2. CASE holder = Nobody /\ Go(d, "loop") /\ holder' = d
    <2> USE <1>2 DEF CreatePartial, DownloadInv, Body, Rest, Go, pipeline
    <2>1. pc' \in [Downloads -> Places] /\ pc[d] = "create" /\ pc'[d] = "loop"
          /\ \A e \in Downloads \ {d} : pc'[e] = pc[e]
      BY DEF TypeOK
    <2>2. TypeOK'
      BY <2>1 DEF TypeOK
    <2>3. \A e \in Downloads : pc[e] \notin Active
      BY DownloadAssumption DEF OwnFile
    <2>4. OwnFile'
      BY <2>1, <2>3 DEF OwnFile
    <2>5. Checked' /\ Watched'
      BY <2>1 DEF Checked, Watched, Expected
    <2>6. OneDownload' /\ Prepared'
      BY <2>1 DEF OneDownload, Prepared, RawExpected
    <2> QED
      BY <2>2, <2>4, <2>5, <2>6
  <1> QED
    BY <1>1, <1>2 DEF CreatePartial

(* Two downloads are never at the rename of one partial file.              *)
LEMMA RenameInv ==
  ASSUME DownloadInv, NEW d \in Downloads, Rename(d)
  PROVE  DownloadInv'
  <1> USE DEF At, Places, Over, Active, Verdict
  <1>1. CASE Fail(d) /\ UNCHANGED <<destination, holder>>
    BY <1>1, QuietWalks DEF Rename, Fail, Files
  <1>2. CASE Go(d, "published") /\ destination' = d /\ holder' = Nobody
    <2> USE <1>2 DEF Rename, DownloadInv, Body, Rest, Go, pipeline
    <2>1. pc' \in [Downloads -> Places] /\ pc[d] = "rename" /\ pc'[d] = "published"
          /\ \A e \in Downloads \ {d} : pc'[e] = pc[e]
      BY DEF TypeOK
    <2>2. TypeOK'
      BY <2>1 DEF TypeOK
    <2>3. \A e \in Downloads \ {d} : pc[e] \notin Active
      BY <2>1 DEF OwnFile
    <2>4. OwnFile'
      BY <2>1, <2>3, DownloadAssumption DEF OwnFile
    <2>5. Checked' /\ Watched'
      BY <2>1, <2>3 DEF Checked, Watched, Expected
    <2>6. OneDownload' /\ Prepared'
      BY <2>1 DEF OneDownload, Prepared, RawExpected
    <2> QED
      BY <2>2, <2>4, <2>5, <2>6
  <1> QED
    BY <1>1, <1>2 DEF Rename

LEMMA DropInv ==
  ASSUME DownloadInv, NEW d \in Downloads, Drop(d)
  PROVE  DownloadInv'
  <1> USE DEF At, Places, Over, Active, Verdict, Drop, DownloadInv, Body, Rest, Go, pipeline
  <1>1. pc' \in [Downloads -> Places] /\ pc[d] = "drop" /\ pc'[d] = "failed"
        /\ \A e \in Downloads \ {d} : pc'[e] = pc[e]
    BY DEF TypeOK
  <1>2. /\ holder' \in Downloads \cup {Nobody} /\ (holder # d => holder' = holder)
        /\ refused \subseteq refused' /\ refused' \subseteq Removable
        /\ holder' = d => "partial" \in refused'
    <2>1. Nobody \notin Downloads /\ holder \in Downloads \cup {Nobody} /\ refused \subseteq Removable
      BY DownloadAssumption DEF TypeOK
    <2>2. CASE holder' = Removed(d) /\ UNCHANGED refused
      BY <2>1, <2>2 DEF Removed
    <2>3. CASE holder = d /\ refused' = refused \cup {"partial"} /\ UNCHANGED holder
      <3>1. "partial" \in Removable
        BY DEF Removable
      <3> QED
        BY <2>1, <2>3, <3>1
    <2> QED
      BY <2>2, <2>3
  <1>3. TypeOK'
    BY <1>1, <1>2 DEF TypeOK
  <1>4. OwnFile'
    BY <1>1, <1>2, DownloadAssumption DEF OwnFile, Removed
  <1>5. Checked' /\ Watched'
    BY <1>1 DEF Checked, Watched, Expected
  <1>6. OneDownload' /\ Prepared'
    BY <1>1, <1>2 DEF OneDownload, Prepared, RawExpected
  <1> QED
    BY <1>3, <1>4, <1>5, <1>6

LEMMA DownloadStepInv ==
  ASSUME DownloadInv, NEW d \in Downloads, DownloadStep(d)
  PROVE  DownloadInv'
  BY LooksInv, ReadBodyInv, CreatePartialInv, RenameInv, DropInv DEF DownloadStep

-----------------------------------------------------------------------------
(* The pipeline goes on when its download has ended.                       *)

LEMMA EndRunInv ==
  ASSUME DownloadInv, stage # "none", EndRun("ended"),
         \A d \in Downloads : pc[d] \in Over
  PROVE  DownloadInv'
  <1> USE DEF EndRun, DownloadInv
  <1>1. 0 \in Sizes
    BY DownloadAssumption DEF Sizes
  <1>2. PICK left \in SUBSET Removable :
          /\ refused' = refused \cup left
          /\ holder' = IF "partial" \in left THEN holder ELSE Nobody
          /\ destination' = IF "archive" \in left THEN destination ELSE Nobody
          /\ raw' = IF "image" \in left THEN raw ELSE NoSize
          /\ job' = IF "job" \in left THEN job ELSE Absent
    OBVIOUS
  <1>3. TypeOK'
    BY <1>1, <1>2 DEF TypeOK, Absent
  <1>4. OwnFile' /\ Watched'
    BY <1>2, DownloadAssumption DEF OwnFile, Watched, Over, Active
  <1>5. Checked'
    BY <1>2, DownloadAssumption DEF Checked, Expected
  <1>6. OneDownload' /\ Prepared'
    BY <1>2 DEF OneDownload, Prepared, Over
  <1> QED
    BY <1>3, <1>4, <1>5, <1>6

LEMMA PipelineInv ==
  ASSUME DownloadInv, PipelineStep
  PROVE  DownloadInv'
  <1> USE DEF DownloadInv, Over
  <1>1. stage # "none" /\ \A d \in Downloads : pc[d] \in Over
    BY DEF PipelineStep, Downloaded, Decompress, PrepareEnds, WriteJob, Launch, OneDownload
  <1>2. CASE EndRun("ended")
    BY <1>1, <1>2, EndRunInv
  <1>3. CASE Keep /\ ~EndRun("ended")
    <2> USE <1>3 DEF Keep, download
    <2>1. 0 \in Sizes
      BY DownloadAssumption DEF Sizes
    <2>2. /\ stage' \in {"prepare", "prepared", "files", "register", "launched"}
          /\ raw' \in Sizes /\ rawGood' \in BOOLEAN
          /\ stage' \in {"files", "register", "launched"} => RawExpected' /\ raw' <= capacity
          /\ stage' \in {"register", "launched"} =>
               job' = [size |-> raw', good |-> rawGood', written |-> TRUE]
          /\ \/ job' = job
             \/ raw \in Sizes /\ job' = [size |-> raw, good |-> rawGood, written |-> TRUE]
      <3> USE DEF TypeOK, Prepared, RawExpected
      <3>1. CASE Downloaded
        <4>1. stage' = "prepare" /\ raw' = 0 /\ rawGood' = rawGood /\ job' = job
          BY <3>1 DEF Downloaded
        <4> QED
          BY <2>1, <4>1
      <3>2. CASE Decompress
        BY <3>2 DEF Decompress
      <3>3. CASE PrepareEnds
        BY <3>3 DEF PrepareEnds
      <3>4. CASE WriteJob
        BY <3>4 DEF WriteJob
      <3>5. CASE Launch
        BY <3>5 DEF Launch
      <3> QED
        BY <3>1, <3>2, <3>3, <3>4, <3>5 DEF PipelineStep
    <2>3. TypeOK'
      <3>1. job' \in [size: Sizes, good: BOOLEAN, written: BOOLEAN]
        <4>1. rawGood \in BOOLEAN /\ job \in [size: Sizes, good: BOOLEAN, written: BOOLEAN]
          BY DEF TypeOK
        <4>2. CASE job' = job
          BY <4>1, <4>2
        <4>3. CASE job' = [size |-> raw, good |-> rawGood, written |-> TRUE] /\ raw \in Sizes
          BY <4>1, <4>3
        <4> QED
          BY <2>2, <4>2, <4>3
      <3> QED
        BY <2>2, <3>1 DEF TypeOK
    <2>4. OwnFile' /\ Checked' /\ Watched'
      BY DEF OwnFile, Checked, Watched, Expected
    <2>5. OneDownload' /\ Prepared'
      BY <1>1, <2>2 DEF OneDownload, Prepared
    <2> QED
      BY <2>3, <2>4, <2>5
  <1> QED
    BY <1>2, <1>3 DEF PipelineStep, Downloaded, Decompress, PrepareEnds, WriteJob, Launch

LEMMA OthersInv ==
  ASSUME DownloadInv, (\E d \in Downloads : Cancel(d)) \/ CreateForeign \/ UNCHANGED vars
  PROVE  DownloadInv'
  <1> USE DEF DownloadInv, pipeline
  <1>1. CASE \E d \in Downloads : Cancel(d)
    <2>1. TypeOK'
      BY <1>1 DEF Cancel, TypeOK
    <2> QED
      BY <1>1, <2>1 DEF Cancel, OwnFile, Checked, Watched, OneDownload, Prepared, Expected, RawExpected
  <1>2. CASE CreateForeign
    <2>1. TypeOK'
      BY <1>2 DEF CreateForeign, TypeOK
    <2>2. Checked' /\ Watched'
      BY <1>2, DownloadAssumption DEF CreateForeign, Checked, Watched, Expected
    <2> QED
      BY <1>2, <2>1, <2>2 DEF CreateForeign, OwnFile, OneDownload, Prepared, RawExpected
  <1>3. CASE UNCHANGED vars
    BY <1>3 DEF vars, download, TypeOK, OwnFile, Checked, Watched, OneDownload, Prepared,
                Expected, RawExpected
  <1> QED
    BY <1>1, <1>2, <1>3

LEMMA NextInv == DownloadInv /\ [Next]_vars => DownloadInv'
  BY DownloadStepInv, PipelineInv, OthersInv DEF Next

(* At most one call writes the partial file of a destination, and what it  *)
(* publishes is its own, checked file (PartialDownload, run_pipeline).     *)
THEOREM DownloadInvariant == Spec => []DownloadInv
  BY InitInv, NextInv, PTL DEF Spec

(* What is published, and what a worker is launched with, has the size and *)
(* the digest that were asked for (download_from_reader, prepare_gzip).    *)
THEOREM OnlyRequestedBytesAlways == Spec => []OnlyRequestedBytes
  <1>1. DownloadInv => OnlyRequestedBytes
    BY DEF DownloadInv, Checked, Prepared, Expected, RawExpected, OnlyRequestedBytes
  <1> QED
    BY <1>1, DownloadInvariant, PTL

(* However the calls and the run end, a partial file, an archive or an    *)
(* image of a run that did not launch is left only if the file system      *)
(* refused to remove it, and a partial file that stays is written and      *)
(* published by nobody (the drops of PartialDownload and of the temporary  *)
(* directory, the look for a partial file in PartialDownload::create).     *)
THEOREM NothingLeftBehindAlways == Spec => []NothingLeftBehind
  <1>1. DownloadInv => NothingLeftBehind
    <2> SUFFICES ASSUME DownloadInv PROVE NothingLeftBehind
      OBVIOUS
    <2>1. (\A d \in Downloads : pc[d] \in Over) => holder = Nobody \/ "partial" \in refused
      BY DEF DownloadInv, TypeOK, OwnFile, Active, Over
    <2>2. stage = "ended" => \A d \in Downloads : pc[d] \in Over
      BY DEF DownloadInv, OneDownload, Over
    <2>3. ASSUME NEW d \in Downloads, holder = d, pc[d] = "failed", NEW e \in Downloads
          PROVE  pc[e] \notin Active
      BY <2>3 DEF DownloadInv, OwnFile, Active
    <2> QED
      BY <2>1, <2>2, <2>3 DEF DownloadInv, Prepared, NothingLeftBehind, Over
  <1> QED
    BY <1>1, DownloadInvariant, PTL

(* A download never replaces what another download has published, and a    *)
(* foreign file only if it appeared after the last look (publish).         *)
THEOREM PublishReplacesNothingAlways == Spec => PublishReplacesNothing
  <1>1. ASSUME DownloadInv, [Next]_vars, NEW d \in Downloads,
               destination' = d, destination # d
        PROVE  destination = Nobody \/ (destination = Foreign /\ d \in late)
    <2>1. PICK e \in Downloads : DownloadStep(e)
      BY <1>1, DownloadAssumption
         DEF Next, vars, download, Cancel, CreateForeign, PipelineStep, Downloaded, Decompress,
             PrepareEnds, WriteJob, Launch, EndRun, Keep
    <2>2. Rename(e) /\ e = d
      BY <1>1, <2>1 DEF DownloadStep, Start, Available, Send, Received, StillFree, LookForPartial,
         CreatePartial, Loop, ReadBody, Complete, SyncPartial, Recheck, Rename, Drop,
         FindFree, CheckCancelled, Files
    <2> QED
      BY <1>1, <2>2 DEF DownloadInv, Watched, Rename, At
  <1>2. DownloadInv /\ [Next]_vars =>
          [\A d \in Downloads : destination' = d /\ destination # d =>
             destination = Nobody \/ (destination = Foreign /\ d \in late)]_vars
    BY <1>1
  <1> QED
    BY <1>2, DownloadInvariant, PTL DEF Spec, PublishReplacesNothing
=============================================================================
