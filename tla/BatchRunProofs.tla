--------------------------- MODULE BatchRunProofs ---------------------------
(***************************************************************************)
(* Theorems about BatchRun, for any number of files, contents, pages,      *)
(* requests per file, rewrites and runs: what its rows look like, that it  *)
(* implements AttemptLedger, and what a batch leaves behind.               *)
(*                                                                         *)
(* The argument.  Each property follows from one inductive invariant,      *)
(* IInv: the types, what every row satisfies at any time (RowOK), and what *)
(* the position of the worker says of the newest row (PhaseOK): it is the  *)
(* row being written, open, and holds exactly the facts the steps before   *)
(* this position have committed.  HasHighest makes get_highest_file_id     *)
(* meaningful: file_ids may have gaps, but there is always a highest one.  *)
(*                                                                         *)
(* HInv, which rests on IInv, ties the rows to what happened: to the       *)
(* versions of the source files (VersionsOK), to what the worker knows of  *)
(* the file it is at (SourceOK), to the attempts of earlier runs           *)
(* (CompletedOK, SkipsOK), to the files this run has been through          *)
(* (CoverageOK) and to the verdicts so far (CountersOK).  A modification   *)
(* time is never used twice, so a fingerprint with the time of the file as *)
(* it is now describes the file as it is now, and whatever the converter   *)
(* read since is that version: this is what makes the re-check after the   *)
(* conversion enough.                                                      *)
(***************************************************************************)
EXTENDS BatchRun, FiniteSetTheorems, SequenceTheorems, TLAPS

\* Positions of the worker inside one attempt, and those where requests are planned.
Busy == {"extract", "verify", "frames", "request", "reply", "drain", "settle", "interrupt"}
Asking == {"request", "reply", "drain", "settle"}

Frames(a) == IF a.ai THEN a.pages["ok"] ELSE 0

RowOK(a) ==
  /\ Numbered(a)
  /\ "interrupted" \notin ReplyStatuses(a)
  /\ a.complete =>
       /\ a.range # "" /\ FewestCovering(Len(a.reqs), Frames(a))
       /\ ReplyStatuses(a) \cap UnfinishedStatuses = {}

RowsOK == \A id \in DOMAIN registry : RowOK(registry[id])

\* What the newest row a looks like when the worker is at label with n requests planned.
RowPhase(a, label, n) ==
  /\ a.ai = ai_enabled
  /\ ~ a.complete /\ ~ a.error
  /\ label = "extract" => a.range = ""
  /\ label \in {"extract", "verify", "frames"} => a.reqs = << >>
  /\ label \in {"verify", "frames"} \cup Asking => a.range # ""
  /\ label \in Asking => n = Ceiling(Frames(a)) /\ Len(a.reqs) <= n
  /\ label = "reply" => Len(a.reqs) < n
  /\ label = "settle" => Len(a.reqs) = n

\* No row has a higher file_id.
Newest == \A id \in DOMAIN registry : id <= current_id

HasHighest ==
  DOMAIN registry # {} =>
    \E top \in DOMAIN registry : \A id \in DOMAIN registry : id <= top

PhaseOK ==
  /\ pc # "idle" => Newest
  /\ pc \notin {"idle", "loop"} => index \in Files
  /\ pc \in Busy => current_id \in DOMAIN registry /\ RowPhase(current, pc, expected)

IInv == TypeOK /\ RowsOK /\ HasHighest /\ PhaseOK

-----------------------------------------------------------------------------
(* Arithmetic, and the highest file_id *)

\* Rounding up gives the fewest requests that cover the frames.
LEMMA CeilingCovers ==
  ASSUME NEW frames \in Nat
  PROVE  Ceiling(frames) \in Nat /\ FewestCovering(Ceiling(frames), frames)
  BY SizesAssumption, SMTT(30) DEF Ceiling, FewestCovering

LEMMA CeilingZero == Ceiling(0) = 0
  BY SizesAssumption, SMTT(30) DEF Ceiling

LEMMA HighestIsHighest ==
  ASSUME TypeOK, HasHighest
  PROVE  /\ HighestFileId \in Nat
         /\ \A id \in DOMAIN registry : id <= HighestFileId
  <1>1. CASE DOMAIN registry = {}
    BY <1>1 DEF HighestFileId
  <1>2. CASE DOMAIN registry # {}
    BY <1>2 DEF HighestFileId, HasHighest, TypeOK
  <1> QED BY <1>1, <1>2

-----------------------------------------------------------------------------
(* The newest row *)

LEMMA CurrentRow ==
  ASSUME IInv, pc \in Busy
  PROVE  /\ current_id \in DOMAIN registry /\ Newest
         /\ current \in Attempt /\ RowOK(current) /\ RowPhase(current, pc, expected)
         /\ index \in Files
  <1>1. /\ current_id \in DOMAIN registry /\ Newest /\ index \in Files
        /\ RowPhase(current, pc, expected)
    BY DEF IInv, PhaseOK, Busy
  <1>2. current \in Attempt
    BY <1>1 DEF IInv, TypeOK, current
  <1> QED BY <1>1, <1>2 DEF IInv, RowsOK, current

\* A commit to the newest row changes that row and no other.
LEMMA RowUpdate ==
  ASSUME IInv, pc \in Busy, NEW row \in Attempt,
         registry' = [registry EXCEPT ![current_id] = row]
  PROVE  /\ DOMAIN registry' = DOMAIN registry
         /\ registry' \in [DOMAIN registry -> Attempt]
         /\ registry'[current_id] = row
         /\ \A id \in DOMAIN registry : id # current_id => registry'[id] = registry[id]
         /\ RowOK(row) => RowsOK'
         /\ HasHighest'
  <1>1. current_id \in DOMAIN registry /\ registry \in [DOMAIN registry -> Attempt]
    BY CurrentRow DEF IInv, TypeOK
  <1>2. /\ DOMAIN registry' = DOMAIN registry
        /\ registry' \in [DOMAIN registry -> Attempt]
        /\ registry'[current_id] = row
        /\ \A id \in DOMAIN registry : id # current_id => registry'[id] = registry[id]
    BY <1>1
  <1>3. RowOK(row) => RowsOK'
    BY <1>1, <1>2 DEF RowsOK, IInv
  <1>4. HasHighest'
    BY <1>2 DEF HasHighest, IInv
  <1> QED BY <1>2, <1>3, <1>4

\* What a step must leave behind in the registry.
RegistryKept ==
  /\ DOMAIN registry' \subseteq Nat \ {0} /\ registry' \in [DOMAIN registry' -> Attempt]
  /\ RowsOK' /\ HasHighest'

LEMMA RegistryUntouched == ASSUME IInv, UNCHANGED registry PROVE RegistryKept
  BY DEF IInv, TypeOK, RowsOK, HasHighest, RegistryKept

\* The end of a run leaves only the rows to be looked at.
LEMMA RunEndKeeps ==
  ASSUME IInv, NEW how \in Results, EndRun(how),
         disk' \in [Files -> SourceFile], RegistryKept,
         skips' = skips, judged' \in Seq(SUBSET RequestStatuses)
  PROVE  IInv'
  <1>1. TypeOK'
    <2>1. 1 \in 1..(NumFiles + 1)
      BY SizesAssumption
    <2>2. [f \in Files |-> {}] \in [Files -> SUBSET Fingerprint]
      OBVIOUS
    <2> QED BY <2>1, <2>2 DEF IInv, TypeOK, EndRun, Labels, Continuations, Results, RegistryKept
  <1>2. PhaseOK'
    BY DEF EndRun, PhaseOK, Busy
  <1> QED BY <1>1, <1>2 DEF IInv, RegistryKept

\* So does going on to the next file, if the newest row is the one the worker knows.
LEMMA NextFileKeeps ==
  ASSUME IInv, index \in Files, NextFile, Newest',
         disk' \in [Files -> SourceFile], RegistryKept,
         skips' \in SUBSET (Files \X Contents), judged' \in Seq(SUBSET RequestStatuses),
         failures' \in [network : Nat, content : Nat]
  PROVE  IInv'
  <1>1. TypeOK'
    <2>1. index + 1 \in 1..(NumFiles + 1)
      BY SizesAssumption DEF Files
    <2> QED BY <2>1 DEF IInv, TypeOK, NextFile, Labels, Continuations, runVars, RegistryKept
  <1>2. PhaseOK'
    BY DEF NextFile, PhaseOK, Busy
  <1> QED BY <1>1, <1>2 DEF IInv, RegistryKept

\* The requests of the row being written end in one of the ways there are.
LEMMA CurrentStatuses ==
  ASSUME IInv, pc \in Busy
  PROVE  ReplyStatuses(current) \in SUBSET RequestStatuses
  <1>1. current \in Attempt
    BY CurrentRow DEF IInv, TypeOK
  <1>2. current.reqs \in Seq(Request)
    BY <1>1 DEF Attempt
  <1>3. \A i \in DOMAIN current.reqs : current.reqs[i] \in Request
    BY <1>2
  <1> QED BY <1>3 DEF ReplyStatuses, Request

\* What a file means to the circuit breakers.
Verdicts == {"ok", "network", "content", "neutral"}

\* Judging a file whose row has just been written.
LEMMA JudgeKeeps ==
  ASSUME IInv, pc \in Busy, JudgeFile, UNCHANGED <<disk, skips>>,
         RegistryKept, DOMAIN registry' = DOMAIN registry
  PROVE  IInv'
  <1> DEFINE verdict == Verdict(ReplyStatuses(current))
  <1>1. verdict \in Verdicts
    BY DEF Verdict, Verdicts
  <1>2. judged' \in Seq(SUBSET RequestStatuses)
    BY CurrentStatuses, AppendProperties DEF JudgeFile, IInv, TypeOK
  <1>3. Count(verdict) \in [network : Nat, content : Nat]
    BY DEF Count, IInv, TypeOK
  <1>4. CASE EndRun("network_breaker") \/ EndRun("content_breaker")
    BY <1>2, <1>4, RunEndKeeps DEF IInv, TypeOK, Results
  <1>5. CASE NextFile /\ failures' = Count(verdict)
    <2>1. Newest'
      BY <1>5, CurrentRow DEF NextFile, Newest
    <2> QED BY <1>2, <1>3, <1>5, <2>1, NextFileKeeps, CurrentRow DEF IInv, TypeOK
  <1> QED BY <1>4, <1>5 DEF JudgeFile

\* A commit that takes the worker from one position inside an attempt to another.
LEMMA CommitKeeps ==
  ASSUME IInv, pc \in Busy, NEW row \in Attempt, NEW label \in Busy, Commit(row, label),
         expected' = expected, after' \in Continuations,
         RowOK(row), RowPhase(row, label, expected)
  PROVE  IInv'
  <1>1. /\ DOMAIN registry' = DOMAIN registry /\ registry' \in [DOMAIN registry -> Attempt]
        /\ registry'[current_id] = row /\ RowsOK' /\ HasHighest'
    BY RowUpdate DEF Commit
  <1>2. TypeOK'
    BY <1>1 DEF IInv, TypeOK, Commit, Goto, fileVars, runVars, historyVars, Busy, Labels
  <1>3. PhaseOK'
    <2>1. current' = row
      BY <1>1 DEF Commit, Goto, fileVars, current
    <2> QED BY <1>1, <2>1, CurrentRow
            DEF IInv, PhaseOK, Newest, Commit, Goto, fileVars, runVars, RowPhase
  <1> QED BY <1>1, <1>2, <1>3 DEF IInv

\* A step that commits nothing and stays inside the attempt.
LEMMA GotoKeeps ==
  ASSUME IInv, pc \in Busy, NEW label \in Busy, Goto(label), UNCHANGED <<disk, registry>>,
         expected' \in Nat, after' \in Continuations, RowPhase(current, label, expected')
  PROVE  IInv'
  <1>1. TypeOK'
    BY DEF IInv, TypeOK, Goto, fileVars, runVars, historyVars, Busy, Labels
  <1>2. RowsOK' /\ HasHighest'
    BY DEF IInv, RowsOK, HasHighest
  <1>3. PhaseOK'
    <2>1. current' = current
      BY DEF Goto, fileVars, current
    <2> QED BY <2>1, CurrentRow DEF IInv, PhaseOK, Newest, Goto, fileVars, runVars, RowPhase
  <1> QED BY <1>1, <1>2, <1>3 DEF IInv

-----------------------------------------------------------------------------
(* IInv is inductive: one lemma per part of the worker *)

LEMMA InitOK == ASSUME Init PROVE IInv
  <1>1. /\ DOMAIN registry = {} /\ registry \in [DOMAIN registry -> Attempt]
        /\ judged \in Seq(SUBSET RequestStatuses)
    BY EmptySeq DEF Init
  <1>2. TypeOK
    <2>1. 1 \in 1..(NumFiles + 1) /\ 0 \in 0..MaxEdits
      BY SizesAssumption
    <2>2. completed \in [Files -> SUBSET Fingerprint]
      BY DEF Init
    <2>3. ai_enabled \in BOOLEAN
      BY DataAssumption DEF Init
    <2> QED BY <1>1, <2>1, <2>2, <2>3 DEF Init, TypeOK, SourceFile, Labels, Continuations, Results
  <1>3. RowsOK /\ HasHighest /\ PhaseOK
    BY <1>1 DEF Init, RowsOK, HasHighest, PhaseOK, Busy
  <1> QED BY <1>2, <1>3 DEF IInv

LEMMA StartKeeps == ASSUME IInv, NEW noRetry, StartRun(noRetry) PROVE IInv'
  <1>1. HighestFileId \in Nat /\ \A id \in DOMAIN registry : id <= HighestFileId
    BY HighestIsHighest DEF IInv
  <1>2. NoRetrySources(noRetry) \in [Files -> SUBSET Fingerprint]
    <2>1. \A id \in DOMAIN registry : registry[id].source \in SUBSET Fingerprint
      <3> SUFFICES ASSUME NEW id \in DOMAIN registry
                   PROVE  registry[id].source \in SUBSET Fingerprint
        OBVIOUS
      <3>1. registry[id] \in Attempt
        BY DEF IInv, TypeOK
      <3> QED BY <3>1 DEF Attempt
    <2> QED BY <2>1 DEF NoRetrySources, NoRetryIds
  <1>3. judged' \in Seq(SUBSET RequestStatuses)
    BY EmptySeq DEF StartRun
  <1>4. TypeOK'
    BY <1>1, <1>2, <1>3 DEF IInv, TypeOK, StartRun, Labels, Results
  <1>5. RowsOK' /\ HasHighest' /\ PhaseOK'
    BY <1>1 DEF IInv, RowsOK, HasHighest, PhaseOK, Newest, StartRun, Busy
  <1> QED BY <1>4, <1>5 DEF IInv

LEMMA SkipKeeps == ASSUME IInv, pc # "idle", index \in Files, SkipFile PROVE IInv'
  <1>1. disk[index].data \in Contents
    BY DEF IInv, TypeOK, SourceFile
  <1>2. skips' \in SUBSET (Files \X Contents)
    BY <1>1 DEF SkipFile, IInv, TypeOK
  <1>3. NextFile /\ UNCHANGED <<disk, registry, failures, judged>>
    BY DEF SkipFile
  <1>4. RegistryKept
    BY <1>3, RegistryUntouched
  <1>5. Newest'
    BY <1>3 DEF IInv, PhaseOK, Newest, NextFile
  <1> QED BY <1>2, <1>3, <1>4, <1>5, NextFileKeeps DEF IInv, TypeOK

\* The decision whether to process the file.
LEMMA DecisionKeeps ==
  ASSUME IInv, LoopEnds \/ StatFails \/ StatSource \/ HashStopped \/ HashSource PROVE IInv'
  <1>1. CASE LoopEnds \/ HashStopped
    <2>1. RegistryKept /\ UNCHANGED <<disk, historyVars>>
      BY <1>1, RegistryUntouched DEF LoopEnds, HashStopped
    <2>2. EndRun("aborted") \/ EndRun("done")
      BY <1>1 DEF LoopEnds, HashStopped
    <2> QED BY <2>1, <2>2, RunEndKeeps DEF IInv, TypeOK, Results, historyVars
  <1>2. CASE StatFails
    <2>1. index \in Files
      BY <1>2, SizesAssumption DEF IInv, TypeOK, StatFails, Files
    <2> QED BY <1>2, <2>1
            DEF StatFails, Goto, IInv, TypeOK, RowsOK, HasHighest, PhaseOK, Newest, Labels, Busy, fileVars,
                runVars, historyVars
  <1>3. CASE StatSource
    <2>1. index \in Files /\ pc # "idle"
      BY <1>3, SizesAssumption DEF IInv, TypeOK, StatSource, Files
    <2>2. source_state(index) \in [size : Nat, mtime : Nat]
      BY <2>1, SizesAssumption, DataAssumption DEF source_state, IInv, TypeOK, SourceFile
    <2>3. CASE SkipFile
      BY <2>1, <2>3, SkipKeeps
    <2>4. CASE ~ SkipFile
      <3> DEFINE st == source_state(index)
      <3>1. /\ pc' = "hash" /\ source' = {[size |-> st.size, mtime |-> st.mtime,
                                            sha |-> NoDigest]}
            /\ UNCHANGED <<disk, registry, index, current_id, completed, expected, after,
                           failures, runVars, historyVars>>
        BY <1>3, <2>4 DEF StatSource
      <3>2. source' \in SUBSET Fingerprint
        BY <3>1, <2>2 DEF Fingerprint
      <3> QED BY <3>1, <3>2, <2>1
              DEF IInv, TypeOK, RowsOK, HasHighest, PhaseOK, Newest, Labels, Busy, runVars, historyVars
    <2> QED BY <2>3, <2>4
  <1>4. CASE HashSource
    <2>1. index \in Files /\ pc # "idle"
      BY <1>4 DEF HashSource, IInv, PhaseOK
    <2>2. PICK digest \in {NoDigest, disk[index].data} :
            \/ SkipFile
            \/ /\ source' = {[fp EXCEPT !.sha = digest] : fp \in source}
               /\ pc' = "start"
               /\ UNCHANGED <<disk, registry, index, current_id, completed, expected, after,
                              failures, runVars, historyVars>>
      BY <1>4 DEF HashSource
    <2>3. CASE SkipFile
      BY <2>1, <2>3, SkipKeeps
    <2>4. CASE ~ SkipFile
      <3>1. digest \in Contents \cup {NoDigest}
        BY <2>1, <2>2 DEF IInv, TypeOK, SourceFile
      <3>2. source' \in SUBSET Fingerprint
        <4>1. source \subseteq Fingerprint
          BY DEF IInv, TypeOK
        <4>2. \A fp \in source : [fp EXCEPT !.sha = digest] \in Fingerprint
          BY <3>1, <4>1 DEF Fingerprint
        <4>3. source' = {[fp EXCEPT !.sha = digest] : fp \in source}
          BY <2>2, <2>4
        <4> QED BY <4>2, <4>3
      <3>3. /\ pc' = "start"
            /\ UNCHANGED <<disk, registry, index, current_id, completed, expected, after,
                           failures, runVars, historyVars>>
        BY <2>2, <2>4
      <3>4. TypeOK'
        BY <3>2, <3>3 DEF IInv, TypeOK, Labels, runVars, historyVars
      <3>5. RowsOK' /\ HasHighest' /\ PhaseOK'
        BY <2>1, <3>3 DEF IInv, RowsOK, HasHighest, PhaseOK, Newest, Busy
      <3> QED BY <3>4, <3>5 DEF IInv
    <2> QED BY <2>3, <2>4
  <1> QED BY <1>1, <1>2, <1>3, <1>4

LEMMA FileStartedKeeps == ASSUME IInv, HandleFileStarted PROVE IInv'
  <1> DEFINE id == current_id + 1
  <1>1. index \in Files /\ Newest /\ current_id \in Nat
    BY DEF HandleFileStarted, IInv, TypeOK, PhaseOK
  <1>2. NewRow(index) \in Attempt
    BY <1>1, EmptySeq, DataAssumption
       DEF NewRow, Attempt, IInv, TypeOK, RangeStatuses, PageStatuses
  <1>3. /\ DOMAIN registry' = DOMAIN registry \cup {id}
        /\ registry' \in [DOMAIN registry' -> Attempt]
        /\ registry'[id] = NewRow(index)
        /\ \A i \in DOMAIN registry : registry'[i] = registry[i]
    BY <1>2 DEF HandleFileStarted, IInv, TypeOK
  <1>4. current_id' = id /\ current' = NewRow(index) /\ id \in Nat \ {0}
    BY <1>1, <1>3 DEF HandleFileStarted, current
  <1>5. RowOK(NewRow(index))
    BY DEF RowOK, NewRow, Numbered, ReplyStatuses
  <1>6. RowsOK'
    BY <1>3, <1>5 DEF IInv, RowsOK
  <1>7. Newest' /\ HasHighest'
    <2>1. DOMAIN registry \subseteq Nat
      BY DEF IInv, TypeOK
    <2>2. \A i \in DOMAIN registry' : i <= id
      BY <1>1, <1>3, <2>1 DEF Newest
    <2> QED BY <1>3, <1>4, <2>2 DEF Newest, HasHighest
  <1>8. TypeOK'
    BY <1>1, <1>3, <1>4 DEF HandleFileStarted, IInv, TypeOK, Labels, runVars, historyVars
  <1>9. PhaseOK'
    BY <1>1, <1>3, <1>4, <1>7
       DEF HandleFileStarted, PhaseOK, RowPhase, NewRow, Busy, Asking, runVars
  <1> QED BY <1>6, <1>7, <1>8, <1>9 DEF IInv

LEMMA StartRefusedKeeps == ASSUME IInv, StartRefused PROVE IInv'
  <1>1. index \in Files /\ Newest /\ current_id \in Nat
    BY DEF StartRefused, IInv, TypeOK, PhaseOK
  <1>2. index + 1 \in 1..(NumFiles + 1) /\ current_id + 1 \in Nat
    BY <1>1, SizesAssumption DEF Files
  <1>3. TypeOK'
    BY <1>2 DEF StartRefused, IInv, TypeOK, Labels, runVars, historyVars
  <1>4. RowsOK' /\ HasHighest'
    BY DEF StartRefused, IInv, RowsOK, HasHighest
  <1>5. Newest'
    <2>1. DOMAIN registry \subseteq Nat
      BY DEF IInv, TypeOK
    <2> QED BY <1>1, <2>1 DEF StartRefused, Newest
  <1>6. PhaseOK'
    BY <1>5 DEF StartRefused, PhaseOK, Busy
  <1> QED BY <1>3, <1>4, <1>6 DEF IInv

LEMMA FrameSavedKeeps ==
  ASSUME IInv, NEW s \in PageStatuses, HandleFrameSaved(s) PROVE IInv'
  <1> DEFINE row == [current EXCEPT !.pages[s] = @ + 1, !.bytes = @ \cup {disk[index].data}]
  <1>1. pc = "extract" /\ Commit(row, "extract") /\ UNCHANGED <<expected, after>>
    BY DEF HandleFrameSaved
  <1>2. /\ current \in Attempt /\ RowOK(current) /\ RowPhase(current, "extract", expected)
        /\ index \in Files
    BY <1>1, CurrentRow DEF Busy
  <1>3. row \in Attempt
    <2>1. disk[index].data \in Contents
      BY <1>2 DEF IInv, TypeOK, SourceFile
    <2>2. [current.pages EXCEPT ![s] = @ + 1] \in [PageStatuses -> Nat]
      BY <1>2 DEF Attempt
    <2> QED BY <1>2, <2>1, <2>2 DEF Attempt
  <1>4. RowOK(row) /\ RowPhase(row, "extract", expected)
    <2>1. /\ row.reqs = current.reqs /\ row.range = current.range /\ row.ai = current.ai
          /\ row.complete = current.complete /\ row.error = current.error
      BY <1>2 DEF Attempt
    <2> QED BY <1>2, <2>1 DEF RowOK, RowPhase, Numbered, ReplyStatuses, Asking
  <1> QED BY <1>1, <1>3, <1>4, CommitKeeps DEF Busy, IInv, TypeOK

LEMMA ConvertedKeeps ==
  ASSUME IInv, NEW range \in RangeStatuses \ {""},
         HandleFileCompleted(range) \/ (ConversionCrashes /\ range = "failure")
  PROVE  IInv'
  <1> DEFINE row == [current EXCEPT !.range = range]
  <1>1. /\ pc = "extract" /\ expected' = expected /\ after' \in Continuations
        /\ Commit(row, "verify") \/ Commit(row, "interrupt")
    BY DEF HandleFileCompleted, ConversionCrashes, IInv, TypeOK, Continuations
  <1>2. current \in Attempt /\ RowOK(current) /\ RowPhase(current, "extract", expected)
    BY <1>1, CurrentRow DEF Busy
  <1>3. row \in Attempt
    BY <1>2 DEF Attempt
  <1>4. RowOK(row) /\ RowPhase(row, "verify", expected) /\ RowPhase(row, "interrupt", expected)
    <2>1. /\ row.reqs = current.reqs /\ row.range = range /\ row.ai = current.ai
          /\ row.complete = current.complete /\ row.error = current.error
      BY <1>2 DEF Attempt
    <2> QED BY <1>2, <2>1 DEF RowOK, RowPhase, Numbered, ReplyStatuses, Asking
  <1> QED BY <1>1, <1>3, <1>4, CommitKeeps DEF Busy

LEMMA VerifyKeeps == ASSUME IInv, VerifySource \/ RestatFails PROVE IInv'
  <1>1. /\ pc = "verify"
        /\ UNCHANGED <<disk, registry, expected, after>>
        /\ expected' \in Nat /\ after' \in Continuations
        /\ Goto("frames") \/ Goto("interrupt")
    BY DEF VerifySource, RestatFails, Goto, IInv, TypeOK
  <1>2. pc \in Busy /\ RowPhase(current, "verify", expected)
    BY <1>1, CurrentRow DEF Busy
  <1>3. RowPhase(current, "frames", expected') /\ RowPhase(current, "interrupt", expected')
    BY <1>1, <1>2 DEF RowPhase, Asking
  <1>4. "frames" \in Busy /\ "interrupt" \in Busy
    BY DEF Busy
  <1>5. CASE Goto("frames")
    BY <1>1, <1>2, <1>3, <1>4, <1>5, GotoKeeps
  <1>6. CASE Goto("interrupt")
    BY <1>1, <1>2, <1>3, <1>4, <1>6, GotoKeeps
  <1> QED BY <1>1, <1>5, <1>6

-----------------------------------------------------------------------------
(* The requests *)

LEMMA FramesCounted ==
  ASSUME IInv, pc \in Busy
  PROVE  /\ Frames(current) \in Nat /\ current.ai = ai_enabled
         /\ Len(current.reqs) \in Nat
  <1>1. current \in Attempt /\ RowPhase(current, pc, expected)
    BY CurrentRow
  <1>2. current.pages["ok"] \in Nat /\ current.reqs \in Seq(Request)
    BY <1>1 DEF Attempt, PageStatuses
  <1> QED BY <1>1, <1>2, LenProperties DEF Frames, RowPhase

LEMMA PlanKeeps == ASSUME IInv, PlanRequests PROVE IInv'
  <1> DEFINE frames == Frames(current)
  <1>1. pc = "frames" /\ UNCHANGED <<disk, registry, after>>
        /\ frames = IF ai_enabled THEN current.pages["ok"] ELSE 0
    BY FramesCounted DEF PlanRequests, Frames, Busy
  <1>2. RowPhase(current, "frames", expected) /\ frames \in Nat
    BY <1>1, CurrentRow, FramesCounted DEF Busy
  <1>3. /\ Len(current.reqs) = 0 /\ current.range # ""
        /\ ~ current.complete /\ ~ current.error /\ current.ai = ai_enabled
    BY <1>2, EmptySeq DEF RowPhase
  <1>4. CASE ai_enabled /\ abort
    <2>1. expected' = 0 /\ Goto("interrupt")
      BY <1>4 DEF PlanRequests
    <2>2. RowPhase(current, "interrupt", 0)
      BY <1>3 DEF RowPhase, Asking
    <2> QED BY <1>1, <2>1, <2>2, GotoKeeps DEF Busy, IInv, TypeOK
  <1>5. CASE ~ (ai_enabled /\ abort)
    <2>1. expected' = Ceiling(frames) /\ expected' \in Nat /\ 0 <= expected'
      BY <1>1, <1>2, <1>5, CeilingCovers DEF PlanRequests
    <2>2. CASE frames = 0
      <3>1. expected' = Ceiling(Frames(current)) /\ expected' = 0
        BY <2>1, <2>2, CeilingZero
      <3>2. Goto("settle")
        BY <1>1, <1>5, <2>2 DEF PlanRequests, Goto
      <3>3. Len(current.reqs) = expected' /\ Len(current.reqs) <= expected'
        <4>1. expected' = 0
          BY <3>1
        <4>2. Len(current.reqs) = 0
          BY <1>3
        <4> QED BY <4>1, <4>2
      <3>4. RowPhase(current, "settle", expected')
        BY <1>3, <3>1, <3>3 DEF RowPhase, Asking
      <3> QED BY <1>1, <2>1, <3>2, <3>4, GotoKeeps DEF Busy, IInv, TypeOK
    <2>3. CASE frames # 0
      <3>1. Goto("request")
        BY <1>1, <1>5, <2>3 DEF PlanRequests, Goto
      <3>2. RowPhase(current, "request", expected')
        BY <1>3, <2>1 DEF RowPhase, Asking
      <3> QED BY <1>1, <2>1, <3>1, <3>2, GotoKeeps DEF Busy, IInv, TypeOK
    <2> QED BY <2>2, <2>3
  <1> QED BY <1>4, <1>5

LEMMA NextRequestKeeps == ASSUME IInv, NextRequest PROVE IInv'
  <1>1. /\ pc = "request" /\ pc \in Busy
        /\ UNCHANGED <<disk, registry, expected, after>>
        /\ expected' \in Nat /\ after' \in Continuations
    BY DEF NextRequest, Busy, IInv, TypeOK
  <1>2. /\ RowPhase(current, "request", expected) /\ Len(current.reqs) \in Nat
        /\ expected \in Nat
    BY <1>1, CurrentRow, FramesCounted DEF IInv, TypeOK
  <1>3. CASE Len(current.reqs) = expected
    <2>1. Goto("settle") /\ RowPhase(current, "settle", expected')
      BY <1>1, <1>2, <1>3 DEF NextRequest, Goto, RowPhase, Asking
    <2> QED BY <1>1, <2>1, GotoKeeps DEF Busy
  <1>4. CASE Len(current.reqs) # expected /\ abort
    <2>1. Goto("drain") /\ RowPhase(current, "drain", expected')
      BY <1>1, <1>2, <1>4 DEF NextRequest, Goto, RowPhase, Asking
    <2> QED BY <1>1, <2>1, GotoKeeps DEF Busy
  <1>5. CASE Len(current.reqs) # expected /\ ~ abort
    <2>1. Len(current.reqs) < expected
      <3>1. Len(current.reqs) <= expected
        BY <1>2 DEF RowPhase, Asking
      <3> QED BY <1>2, <1>5, <3>1
    <2>2. Goto("reply") /\ RowPhase(current, "reply", expected')
      BY <1>1, <1>2, <1>5, <2>1 DEF NextRequest, Goto, RowPhase, Asking
    <2> QED BY <1>1, <2>2, GotoKeeps DEF Busy
  <1> QED BY <1>3, <1>4, <1>5

\* One more outcome, numbered after those before it.
LEMMA OutcomeKeepsRow ==
  ASSUME IInv, pc \in {"reply", "drain"}, Len(current.reqs) < expected,
         NEW status \in RequestStatuses \ {"interrupted"}, NEW flawed \in BOOLEAN
  PROVE  LET row == WithOutcome(status, flawed) IN
           /\ row \in Attempt /\ RowOK(row)
           /\ RowPhase(row, "request", expected) /\ RowPhase(row, "drain", expected)
  <1> DEFINE row == WithOutcome(status, flawed)
             outcome == [number |-> Len(current.reqs) + 1, status |-> status,
                         flawed |-> flawed]
  <1>1. /\ current \in Attempt /\ RowOK(current) /\ RowPhase(current, pc, expected)
        /\ current.reqs \in Seq(Request) /\ Len(current.reqs) \in Nat /\ expected \in Nat
    BY CurrentRow, FramesCounted DEF Busy, Attempt, IInv, TypeOK
  <1>2. outcome \in Request
    BY <1>1 DEF Request
  <1>3. /\ Append(current.reqs, outcome) \in Seq(Request)
        /\ Len(Append(current.reqs, outcome)) = Len(current.reqs) + 1
        /\ \A i \in 1..Len(current.reqs) :
             Append(current.reqs, outcome)[i] = current.reqs[i]
        /\ Append(current.reqs, outcome)[Len(current.reqs) + 1] = outcome
    BY <1>1, <1>2, AppendProperties
  <1>4. /\ row = [current EXCEPT !.reqs = Append(current.reqs, outcome)]
        /\ row.reqs = Append(current.reqs, outcome)
        /\ row.range = current.range /\ row.ai = current.ai /\ row.pages = current.pages
        /\ row.complete = current.complete /\ row.error = current.error
    BY <1>1 DEF WithOutcome, Attempt
  <1>5. row \in Attempt
    BY <1>1, <1>3, <1>4 DEF Attempt
  <1>6. RowOK(row)
    <2>1. /\ DOMAIN row.reqs = 1..(Len(current.reqs) + 1)
          /\ DOMAIN current.reqs = 1..Len(current.reqs)
      BY <1>1, <1>3, <1>4, LenProperties
    <2>2. \A i \in DOMAIN row.reqs :
            row.reqs[i].number = i /\ row.reqs[i].status # "interrupted"
      <3> SUFFICES ASSUME NEW i \in DOMAIN row.reqs
                   PROVE  row.reqs[i].number = i /\ row.reqs[i].status # "interrupted"
        OBVIOUS
      <3>1. CASE i = Len(current.reqs) + 1
        BY <1>3, <1>4, <3>1
      <3>2. CASE i # Len(current.reqs) + 1
        <4>1. i \in DOMAIN current.reqs /\ row.reqs[i] = current.reqs[i]
          BY <1>1, <1>3, <1>4, <2>1, <3>2
        <4> QED BY <1>1, <4>1 DEF RowOK, Numbered, ReplyStatuses
      <3> QED BY <3>1, <3>2
    <2>3. Numbered(row) /\ "interrupted" \notin ReplyStatuses(row)
      BY <2>2 DEF Numbered, ReplyStatuses
    <2>4. ~ row.complete /\ row.ai = ai_enabled
      BY <1>1, <1>4 DEF RowPhase, RowOK
    <2> QED BY <2>3, <2>4 DEF RowOK
  <1>7. RowPhase(row, "request", expected) /\ RowPhase(row, "drain", expected)
    <2>1. Len(row.reqs) <= expected
      BY <1>1, <1>3, <1>4
    <2>2. Frames(row) = Frames(current)
      BY <1>4 DEF Frames
    <2> QED BY <1>1, <1>4, <2>1, <2>2 DEF RowPhase, Asking
  <1> QED BY <1>5, <1>6, <1>7

LEMMA ReplyKeeps ==
  ASSUME IInv, NEW status \in RequestStatuses, NEW flawed \in BOOLEAN,
         Reply(status, flawed) \/ (FatalReply /\ status = "network_failure" /\ flawed = FALSE)
  PROVE  IInv'
  <1>1. /\ pc = "reply" /\ pc \in Busy /\ expected' = expected /\ after' \in Continuations
        /\ status # "interrupted"
        /\ \/ Commit(WithOutcome(status, flawed), "request")
           \/ Commit(WithOutcome(status, flawed), "drain")
    BY DataAssumption
       DEF Reply, FatalReply, IInv, TypeOK, Continuations, UnfinishedStatuses, Busy, Commit, Goto
  <1>2. Len(current.reqs) < expected
    BY <1>1, CurrentRow DEF RowPhase
  <1>3. /\ WithOutcome(status, flawed) \in Attempt /\ RowOK(WithOutcome(status, flawed))
        /\ RowPhase(WithOutcome(status, flawed), "request", expected)
        /\ RowPhase(WithOutcome(status, flawed), "drain", expected)
    BY <1>1, <1>2, OutcomeKeepsRow
  <1> QED BY <1>1, <1>3, CommitKeeps DEF Busy

LEMMA DrainKeeps == ASSUME IInv, RecordNotAttempted \/ DrainEnds PROVE IInv'
  <1>1. pc = "drain" /\ pc \in Busy /\ expected \in Nat /\ after \in Continuations
    BY DEF RecordNotAttempted, DrainEnds, Busy, IInv, TypeOK
  <1>2. CASE RecordNotAttempted
    <2> DEFINE row == WithOutcome("not_attempted", FALSE)
    <2>1. /\ Len(current.reqs) < expected /\ Commit(row, "drain")
          /\ expected' = expected /\ after' = after
      BY <1>2 DEF RecordNotAttempted
    <2>2. "not_attempted" \in RequestStatuses \ {"interrupted"}
      BY DEF RequestStatuses, UnfinishedStatuses
    <2>3. row \in Attempt /\ RowOK(row) /\ RowPhase(row, "drain", expected)
      BY <1>1, <2>1, <2>2, OutcomeKeepsRow
    <2> QED BY <1>1, <2>1, <2>3, CommitKeeps DEF Busy
  <1>3. CASE DrainEnds
    <2>1. /\ Len(current.reqs) = expected /\ UNCHANGED <<disk, registry, expected, after>>
          /\ Goto("interrupt") \/ Goto("settle")
      BY <1>3 DEF DrainEnds, Goto
    <2>2. RowPhase(current, "drain", expected)
      BY <1>1, CurrentRow
    <2>3. RowPhase(current, "interrupt", expected') /\ RowPhase(current, "settle", expected')
      BY <2>1, <2>2 DEF RowPhase, Asking
    <2> QED BY <1>1, <2>1, <2>3, GotoKeeps DEF Busy
  <1> QED BY <1>2, <1>3

LEMMA CrashKeeps == ASSUME IInv, RequestCrashes \/ LeaveUnfinished PROVE IInv'
  <1>1. /\ pc \in {"frames", "request", "reply", "settle"} /\ pc \in Busy
        /\ Goto("interrupt") /\ UNCHANGED <<disk, registry, expected>>
        /\ expected' \in Nat /\ after' \in Continuations
    BY DEF RequestCrashes, LeaveUnfinished, Busy, IInv, TypeOK, Continuations
  <1>2. RowPhase(current, "interrupt", expected')
    BY <1>1, CurrentRow DEF RowPhase, Asking
  <1> QED BY <1>1, <1>2, GotoKeeps DEF Busy

-----------------------------------------------------------------------------
(* Closing a file *)

\* When the worker wants to close a file, everything finalize_file demands is there.
LEMMA SettledIsWhole ==
  ASSUME IInv, pc = "settle", ~ CutShort
  PROVE  /\ FinalizeAllowed(current, expected)
         /\ FewestCovering(Len(current.reqs), Frames(current))
         /\ ReplyStatuses(current) \cap UnfinishedStatuses = {}
  <1>1. /\ current \in Attempt /\ RowOK(current) /\ RowPhase(current, "settle", expected)
        /\ current.reqs \in Seq(Request) /\ expected \in Nat
    BY CurrentRow DEF Busy, Attempt, IInv, TypeOK
  <1>2. Len(current.reqs) = expected /\ current.range # "" /\ expected = Ceiling(Frames(current))
    BY <1>1 DEF RowPhase, Asking
  <1>3. FewestCovering(Len(current.reqs), Frames(current))
    BY <1>2, FramesCounted, CeilingCovers DEF Busy
  <1>4. ReplyStatuses(current) \cap UnfinishedStatuses = {}
    BY <1>1 DEF CutShort, RowOK, UnfinishedStatuses
  <1>5. DOMAIN current.reqs = 1..expected
    BY <1>1, <1>2, LenProperties
  <1>6. \A i \in DOMAIN current.reqs : current.reqs[i].number = i
    BY <1>1 DEF RowOK, Numbered
  <1>7. expected > 0 => 1 \in DOMAIN current.reqs /\ expected \in DOMAIN current.reqs
    BY <1>1, <1>5
  <1>8. \A i \in DOMAIN current.reqs : current.reqs[i].status \notin UnfinishedStatuses
    BY <1>4 DEF ReplyStatuses
  <1>9. FinalizeAllowed(current, expected)
    BY <1>2, <1>5, <1>6, <1>7, <1>8 DEF FinalizeAllowed
  <1> QED BY <1>3, <1>4, <1>9

LEMMA FinalizeKeeps == ASSUME IInv, FinalizeFile PROVE IInv'
  <1> DEFINE row == [current EXCEPT !.complete = TRUE, !.error = FALSE]
  <1>1. pc = "settle" /\ pc \in Busy /\ ~ CutShort
    BY DEF FinalizeFile, Busy
  <1>2. /\ registry' = [registry EXCEPT ![current_id] = row]
        /\ JudgeFile /\ UNCHANGED <<disk, skips>>
    BY <1>1, SettledIsWhole DEF FinalizeFile
  <1>3. current \in Attempt /\ RowOK(current) /\ RowPhase(current, "settle", expected)
    BY <1>1, CurrentRow
  <1>4. /\ row \in Attempt /\ row.reqs = current.reqs /\ row.range = current.range
        /\ row.ai = current.ai /\ row.pages = current.pages
    BY <1>3 DEF Attempt
  <1>5. RowOK(row)
    <2>1. FewestCovering(Len(row.reqs), Frames(row))
      BY <1>1, <1>4, SettledIsWhole DEF Frames
    <2>2. ReplyStatuses(row) \cap UnfinishedStatuses = {} /\ row.range # ""
      BY <1>1, <1>3, <1>4, SettledIsWhole DEF ReplyStatuses, RowPhase, Asking
    <2> QED BY <1>3, <1>4, <2>1, <2>2 DEF RowOK, Numbered, ReplyStatuses
  <1>6. RegistryKept /\ DOMAIN registry' = DOMAIN registry
    BY <1>1, <1>2, <1>4, <1>5, RowUpdate DEF RegistryKept, IInv, TypeOK
  <1> QED BY <1>1, <1>2, <1>6, JudgeKeeps

LEMMA InterruptionKeeps == ASSUME IInv, RecordInterruption PROVE IInv'
  <1> DEFINE row == [current EXCEPT !.error = @ \/ ~ current.complete]
  <1>1. /\ pc = "interrupt" /\ pc \in Busy /\ UNCHANGED <<disk, skips>>
        /\ registry' = [registry EXCEPT ![current_id].error = @ \/ ~ current.complete]
    BY DEF RecordInterruption, Busy
  <1>2. /\ current \in Attempt /\ RowOK(current) /\ index \in Files
        /\ current_id \in DOMAIN registry /\ Newest
    BY <1>1, CurrentRow
  <1>3. registry' = [registry EXCEPT ![current_id] = row]
    BY <1>1, <1>2 DEF current
  <1>4. /\ row \in Attempt /\ row.reqs = current.reqs /\ row.range = current.range
        /\ row.ai = current.ai /\ row.pages = current.pages /\ row.complete = current.complete
    BY <1>2 DEF Attempt
  <1>5. RowOK(row)
    BY <1>2, <1>4 DEF RowOK, Numbered, ReplyStatuses, Frames
  <1>6. RegistryKept /\ DOMAIN registry' = DOMAIN registry
    BY <1>1, <1>3, <1>4, <1>5, RowUpdate DEF RegistryKept, IInv, TypeOK
  <1>7. CASE JudgeFile
    BY <1>1, <1>6, <1>7, JudgeKeeps
  <1>8. CASE NextFile /\ UNCHANGED <<failures, judged>>
    <2>1. Newest'
      BY <1>2, <1>6, <1>8 DEF NextFile, Newest
    <2> QED BY <1>1, <1>2, <1>6, <1>8, <2>1, NextFileKeeps DEF IInv, TypeOK
  <1>9. CASE EndRun("failed") /\ UNCHANGED judged
    BY <1>1, <1>6, <1>9, RunEndKeeps DEF IInv, TypeOK, Results
  <1> QED BY <1>7, <1>8, <1>9 DEF RecordInterruption

-----------------------------------------------------------------------------
(* The surroundings, and everything together *)

LEMMA SurroundingsKeep ==
  ASSUME IInv, \/ Stop \/ DatabaseFails \/ Kill
               \/ \E f \in Files, data \in Contents : RewriteSource(f, data)
  PROVE  IInv'
  <1>1. CASE Stop
    BY <1>1 DEF Stop, IInv, TypeOK, RowsOK, HasHighest, PhaseOK, Newest, RowPhase, current, fileVars, historyVars
  <1>2. CASE DatabaseFails \/ Kill
    <2>1. RegistryKept /\ UNCHANGED <<disk, historyVars>>
      BY <1>2, RegistryUntouched DEF DatabaseFails, Kill
    <2>2. EndRun("database_error") \/ EndRun("killed")
      BY <1>2 DEF DatabaseFails, Kill
    <2> QED BY <2>1, <2>2, RunEndKeeps DEF IInv, TypeOK, Results, historyVars
  <1>3. ASSUME NEW f \in Files, NEW data \in Contents, RewriteSource(f, data)
        PROVE  IInv'
    <2>1. [mtime |-> disk[f].mtime + 1, data |-> data] \in SourceFile
      BY <1>3, SizesAssumption DEF RewriteSource, IInv, TypeOK, SourceFile
    <2>2. disk' \in [Files -> SourceFile]
      BY <1>3, <2>1 DEF RewriteSource, IInv, TypeOK
    <2> QED BY <1>3, <2>2
            DEF RewriteSource, IInv, TypeOK, RowsOK, HasHighest, PhaseOK, Newest, RowPhase, current, fileVars,
                runVars, historyVars
  <1> QED BY <1>1, <1>2, <1>3

LEMMA StepKeeps == ASSUME IInv, [Next]_vars PROVE IInv'
  <1>1. CASE \E noRetry \in NoRetryChoices : StartRun(noRetry)
    BY <1>1, StartKeeps
  <1>2. CASE Converting
    <2>1. CASE LoopEnds \/ StatFails \/ StatSource \/ HashStopped \/ HashSource
      BY <2>1, DecisionKeeps
    <2>2. CASE HandleFileStarted \/ StartRefused
      BY <2>2, FileStartedKeeps, StartRefusedKeeps
    <2>3. CASE ConversionCrashes
      BY <2>3, ConvertedKeeps DEF RangeStatuses
    <2>4. CASE VerifySource \/ RestatFails
      BY <2>4, VerifyKeeps
    <2>5. CASE \E s \in PageStatuses : HandleFrameSaved(s)
      BY <2>5, FrameSavedKeeps
    <2>6. CASE \E range \in RangeStatuses \ {""} : HandleFileCompleted(range)
      BY <2>6, ConvertedKeeps
    <2> QED BY <1>2, <2>1, <2>2, <2>3, <2>4, <2>5, <2>6 DEF Converting
  <1>3. CASE Answering
    <2>1. CASE PlanRequests \/ NextRequest
      BY <2>1, PlanKeeps, NextRequestKeeps
    <2>2. CASE FatalReply
      BY <2>2, ReplyKeeps DEF RequestStatuses
    <2>3. CASE RecordNotAttempted \/ DrainEnds
      BY <2>3, DrainKeeps
    <2>4. CASE RequestCrashes \/ LeaveUnfinished
      BY <2>4, CrashKeeps
    <2>5. CASE FinalizeFile \/ RecordInterruption
      BY <2>5, FinalizeKeeps, InterruptionKeeps
    <2>6. CASE \E status \in RequestStatuses, flawed \in BOOLEAN : Reply(status, flawed)
      BY <2>6, ReplyKeeps
    <2> QED BY <1>3, <2>1, <2>2, <2>3, <2>4, <2>5, <2>6 DEF Answering
  <1>4. CASE \/ Stop \/ DatabaseFails \/ Kill
             \/ \E f \in Files, data \in Contents : RewriteSource(f, data)
    BY <1>4, SurroundingsKeep
  <1>5. CASE UNCHANGED vars
    BY <1>5 DEF vars, IInv, TypeOK, RowsOK, HasHighest, PhaseOK, Newest, RowPhase, current, fileVars, runVars,
                historyVars
  <1> QED BY <1>1, <1>2, <1>3, <1>4, <1>5 DEF Next, Worker

\* The inductive invariant holds in every state of every behaviour.
THEOREM Invariance == Spec => []IInv
  <1>1. Init => IInv
    BY InitOK
  <1>2. IInv /\ [Next]_vars => IInv'
    BY StepKeeps
  <1> QED BY <1>1, <1>2, PTL DEF Spec

\* Every variable keeps its type; in particular no row ever holds a status the database
\* does not know, and no file_id is left out.
THEOREM TypeCorrect == Spec => []TypeOK
  <1>1. IInv => TypeOK
    BY DEF IInv
  <1> QED BY <1>1, Invariance, PTL

\* A row marked processing_complete is whole, whatever was stopped, killed or halted
\* (finalize_file and the expected_requests of _process_file).
THEOREM Wholeness == Spec => []CompleteIsWhole
  <1>1. IInv => CompleteIsWhole
    BY DEF IInv, RowsOK, RowOK, CompleteIsWhole, Frames
  <1> QED BY <1>1, Invariance, PTL

\* The checks of finalize_file never refuse a file the loop wants to close.
THEOREM NeverRefused == Spec => []FinalizeNeverRefused
  <1>1. IInv => FinalizeNeverRefused
    BY SettledIsWhole DEF FinalizeNeverRefused
  <1> QED BY <1>1, Invariance, PTL

-----------------------------------------------------------------------------
(* BatchRun implements AttemptLedger: seen as a ledger, each step of the   *)
(* program leaves every attempt alone, appends an open one, adds one fact  *)
(* to the newest, or closes it.  IInv says which attempt a commit goes to  *)
(* (the newest) and that it is still open.                                 *)

\* The ledger BatchRun implements.
AsLedger == [id \in DOMAIN registry |-> Entry(registry[id])]

-----------------------------------------------------------------------------
(* The mapping *)

\* A commit to the newest row changes the newest entry and no other.
LEMMA EntryUpdate ==
  ASSUME IInv, pc \in Busy, NEW row \in Attempt,
         registry' = [registry EXCEPT ![current_id] = row]
  PROVE  /\ AsLedger' = [AsLedger EXCEPT ![current_id] = Entry(row)]
         /\ AsLedger[current_id] = Entry(current)
         /\ current_id \in DOMAIN AsLedger
         /\ \A other \in DOMAIN AsLedger : other <= current_id
  <1>1. current_id \in DOMAIN registry /\ Newest
    BY CurrentRow
  <1>2. /\ DOMAIN registry' = DOMAIN registry /\ registry'[current_id] = row
        /\ \A id \in DOMAIN registry : id # current_id => registry'[id] = registry[id]
    BY RowUpdate
  <1>3. AsLedger' = [AsLedger EXCEPT ![current_id] = Entry(row)]
    BY <1>1, <1>2 DEF AsLedger
  <1> QED BY <1>1, <1>3 DEF AsLedger, current, Newest

\* A commit that adds one fact to an open row is RecordFact.
LEMMA FactIsRecorded ==
  ASSUME IInv, pc \in Busy, NEW row \in Attempt, NEW label, Commit(row, label),
         row.path = current.path, row.complete = current.complete, row.error = current.error,
         Facts(row) = Facts(current) + 1
  PROVE  Ledger!RecordFact(current_id) /\ current_id \in DOMAIN AsLedger
  <1>1. registry' = [registry EXCEPT ![current_id] = row]
    BY DEF Commit
  <1>2. RowPhase(current, pc, expected)
    BY CurrentRow
  <1>3. Entry(current) = [path |-> current.path, facts |-> Facts(current), standing |-> "open"]
    BY <1>2 DEF Entry, RowPhase
  <1>4. Entry(row) = [path |-> current.path, facts |-> Facts(current) + 1, standing |-> "open"]
    BY <1>2 DEF Entry, RowPhase
  <1>5. Entry(row) = [Entry(current) EXCEPT !.facts = @ + 1]
    BY <1>3, <1>4
  <1>6. /\ AsLedger' = [AsLedger EXCEPT ![current_id] = Entry(row)]
        /\ AsLedger[current_id] = Entry(current) /\ current_id \in DOMAIN AsLedger
        /\ \A other \in DOMAIN AsLedger : other <= current_id
    BY <1>1, EntryUpdate
  <1>7. AsLedger' = [AsLedger EXCEPT ![current_id].facts = @ + 1]
    BY <1>5, <1>6
  <1> QED BY <1>3, <1>6, <1>7 DEF Ledger!RecordFact, Ledger!NewestOpen, AsLedger

\* A commit that only marks an open row is Close.
LEMMA MarkIsClose ==
  ASSUME IInv, pc \in Busy, NEW row \in Attempt, NEW standing,
         registry' = [registry EXCEPT ![current_id] = row],
         row.path = current.path, Facts(row) = Facts(current),
         Entry(row).standing = standing
  PROVE  Ledger!Close(current_id, standing) /\ current_id \in DOMAIN AsLedger
  <1>1. RowPhase(current, pc, expected)
    BY CurrentRow
  <1>2. Entry(current) = [path |-> current.path, facts |-> Facts(current), standing |-> "open"]
    BY <1>1 DEF Entry, RowPhase
  <1>3. Entry(row) = [Entry(current) EXCEPT !.standing = standing]
    BY <1>2 DEF Entry
  <1>4. /\ AsLedger' = [AsLedger EXCEPT ![current_id] = Entry(row)]
        /\ AsLedger[current_id] = Entry(current) /\ current_id \in DOMAIN AsLedger
        /\ \A other \in DOMAIN AsLedger : other <= current_id
    BY EntryUpdate
  <1>5. AsLedger' = [AsLedger EXCEPT ![current_id].standing = standing]
    BY <1>3, <1>4
  <1> QED BY <1>2, <1>4, <1>5 DEF Ledger!Close, Ledger!NewestOpen, AsLedger

LEMMA StartIsBegin ==
  ASSUME IInv, HandleFileStarted
  PROVE  Ledger!Begin(current_id + 1, index) /\ current_id + 1 \in DOMAIN AsLedger'
  <1> DEFINE id == current_id + 1
             entry == [path |-> index, facts |-> 0, standing |-> "open"]
  <1>1. Newest /\ index \in Files /\ current_id \in Nat /\ DOMAIN registry \subseteq Nat
    BY DEF HandleFileStarted, IInv, PhaseOK, TypeOK
  <1>2. registry' = [i \in DOMAIN registry \cup {id} |->
                       IF i = id THEN NewRow(index) ELSE registry[i]]
    BY DEF HandleFileStarted
  <1>3. Entry(NewRow(index)) = entry
    BY EmptySeq DEF Entry, Facts, NewRow, PageCount, PageStatuses
  <1>4. AsLedger' = [i \in DOMAIN AsLedger \cup {id} |->
                       IF i = id THEN entry ELSE AsLedger[i]]
    <2>1. AsLedger' = [i \in DOMAIN registry \cup {id} |-> Entry(registry'[i])]
      BY <1>2 DEF AsLedger
    <2>2. \A i \in DOMAIN registry \cup {id} :
            Entry(registry'[i]) = IF i = id THEN Entry(NewRow(index)) ELSE AsLedger[i]
      BY <1>2 DEF AsLedger
    <2>3. DOMAIN AsLedger = DOMAIN registry
      BY DEF AsLedger
    <2> QED BY <1>3, <2>1, <2>2, <2>3
  <1>5. id \in Nat /\ \A old \in DOMAIN AsLedger : old < id
    BY <1>1 DEF Newest, AsLedger
  <1> QED BY <1>4, <1>5 DEF Ledger!Begin, AsLedger

-----------------------------------------------------------------------------
(* Each action of BatchRun is a step of the ledger, or none *)

LEMMA CurrentCounts ==
  ASSUME IInv, pc \in Busy
  PROVE  PageCount(current) \in Nat /\ Len(current.reqs) \in Nat
  <1>1. current \in Attempt
    BY CurrentRow
  <1>2. current.pages \in [PageStatuses -> Nat]
    BY <1>1 DEF Attempt
  <1>3. PageCount(current) \in Nat
    BY <1>2 DEF PageCount, PageStatuses
  <1> QED BY <1>3, FramesCounted

LEMMA OneMore ==
  ASSUME NEW n \in Nat, NEW m \in Nat
  PROVE  /\ (n + 1) + m + 0 = (n + m + 0) + 1 /\ (n + 1) + m + 1 = (n + m + 1) + 1
         /\ n + (m + 1) + 0 = (n + m + 0) + 1 /\ n + (m + 1) + 1 = (n + m + 1) + 1
         /\ n + m + 1 = (n + m + 0) + 1
  OBVIOUS

\* A page, an outcome or the range status: one fact each.
LEMMA OneMoreFact ==
  ASSUME NEW a, NEW b, PageCount(a) \in Nat, Len(a.reqs) \in Nat,
         \/ /\ PageCount(b) = PageCount(a) + 1
            /\ Len(b.reqs) = Len(a.reqs) /\ b.range = a.range
         \/ /\ PageCount(b) = PageCount(a)
            /\ Len(b.reqs) = Len(a.reqs) + 1 /\ b.range = a.range
         \/ /\ PageCount(b) = PageCount(a)
            /\ Len(b.reqs) = Len(a.reqs) /\ a.range = "" /\ b.range # ""
  PROVE  Facts(b) = Facts(a) + 1
  <1>1. CASE PageCount(b) = PageCount(a) + 1 /\ Len(b.reqs) = Len(a.reqs) /\ b.range = a.range
    BY OneMore, <1>1, Zenon DEF Facts
  <1>2. CASE PageCount(b) = PageCount(a) /\ Len(b.reqs) = Len(a.reqs) + 1 /\ b.range = a.range
    BY OneMore, <1>2, Zenon DEF Facts
  <1>3. CASE /\ PageCount(b) = PageCount(a) /\ Len(b.reqs) = Len(a.reqs)
             /\ a.range = "" /\ b.range # ""
    BY OneMore, <1>3, Zenon DEF Facts
  <1> QED BY <1>1, <1>2, <1>3

LEMMA SavingAFrame ==
  ASSUME IInv, NEW s \in PageStatuses, HandleFrameSaved(s)
  PROVE  Ledger!RecordFact(current_id) /\ current_id \in DOMAIN AsLedger
  <1> DEFINE row == [current EXCEPT !.pages[s] = @ + 1, !.bytes = @ \cup {disk[index].data}]
  <1>1. pc = "extract" /\ pc \in Busy /\ Commit(row, "extract")
    BY DEF HandleFrameSaved, Busy
  <1>2. current \in Attempt /\ index \in Files
    BY <1>1, CurrentRow
  <1>3. /\ disk[index].data \in Contents
        /\ [current.pages EXCEPT ![s] = @ + 1] \in [PageStatuses -> Nat]
    BY <1>2 DEF IInv, TypeOK, SourceFile, Attempt
  <1>4. /\ row \in Attempt /\ row.path = current.path /\ row.reqs = current.reqs
        /\ row.complete = current.complete /\ row.error = current.error
        /\ row.range = current.range
        /\ row.pages = [current.pages EXCEPT ![s] = @ + 1]
    BY <1>2, <1>3 DEF Attempt
  <1>5. PageCount(row) = PageCount(current) + 1
    <2>1. current.pages \in [{"ok", "skipped", "failure"} -> Nat] /\ s \in PageStatuses
      BY <1>2 DEF Attempt, PageStatuses
    <2> QED BY <1>4, <2>1 DEF PageCount, PageStatuses
  <1>6. PageCount(current) \in Nat /\ Len(current.reqs) \in Nat
    BY <1>1, CurrentCounts
  <1>7. Facts(row) = Facts(current) + 1
    BY <1>4, <1>5, <1>6, OneMoreFact
  <1> QED BY <1>1, <1>4, <1>7, FactIsRecorded

LEMMA RecordingTheConversion ==
  ASSUME IInv, NEW range \in RangeStatuses \ {""},
         HandleFileCompleted(range) \/ (ConversionCrashes /\ range = "failure")
  PROVE  Ledger!RecordFact(current_id) /\ current_id \in DOMAIN AsLedger
  <1> DEFINE row == [current EXCEPT !.range = range]
  <1>1. /\ pc = "extract" /\ pc \in Busy
        /\ Commit(row, "verify") \/ Commit(row, "interrupt")
    BY DEF HandleFileCompleted, ConversionCrashes, Busy
  <1>2. current \in Attempt /\ current.range = ""
    BY <1>1, CurrentRow DEF RowPhase
  <1>3. /\ row \in Attempt /\ row.path = current.path /\ row.reqs = current.reqs
        /\ row.complete = current.complete /\ row.error = current.error
        /\ row.range = range /\ row.pages = current.pages
    BY <1>2 DEF Attempt
  <1>4. PageCount(current) \in Nat /\ Len(current.reqs) \in Nat
    BY <1>1, CurrentCounts
  <1>5. PageCount(row) = PageCount(current)
    BY <1>3 DEF PageCount
  <1>6. Facts(row) = Facts(current) + 1
    BY <1>2, <1>3, <1>4, <1>5, OneMoreFact
  <1> QED BY <1>1, <1>3, <1>6, FactIsRecorded

LEMMA RecordingAnOutcome ==
  ASSUME IInv, pc \in {"reply", "drain"}, Len(current.reqs) < expected,
         NEW status \in RequestStatuses \ {"interrupted"}, NEW flawed \in BOOLEAN,
         NEW label, Commit(WithOutcome(status, flawed), label)
  PROVE  Ledger!RecordFact(current_id) /\ current_id \in DOMAIN AsLedger
  <1> DEFINE row == WithOutcome(status, flawed)
             outcome == [number |-> Len(current.reqs) + 1, status |-> status,
                         flawed |-> flawed]
  <1>1. /\ pc \in Busy /\ current \in Attempt /\ current.reqs \in Seq(Request)
        /\ row \in Attempt /\ Len(current.reqs) \in Nat
    BY CurrentRow, OutcomeKeepsRow, FramesCounted DEF Busy, Attempt
  <1>2. outcome \in Request
    BY <1>1 DEF Request
  <1>3. Len(Append(current.reqs, outcome)) = Len(current.reqs) + 1
    BY <1>1, <1>2, AppendProperties
  <1>4. /\ row.path = current.path /\ row.complete = current.complete
        /\ row.error = current.error /\ row.range = current.range
        /\ row.pages = current.pages /\ row.reqs = Append(current.reqs, outcome)
    BY <1>1 DEF WithOutcome, Attempt
  <1>5. PageCount(current) \in Nat
    BY <1>1, CurrentCounts
  <1>6. PageCount(row) = PageCount(current)
    BY <1>4 DEF PageCount
  <1>7. Facts(row) = Facts(current) + 1
    BY <1>1, <1>3, <1>4, <1>5, <1>6, OneMoreFact
  <1> QED BY <1>1, <1>4, <1>7, FactIsRecorded

LEMMA Answered ==
  ASSUME IInv, \/ FatalReply \/ RecordNotAttempted
               \/ \E status \in RequestStatuses, flawed \in BOOLEAN : Reply(status, flawed)
  PROVE  Ledger!RecordFact(current_id) /\ current_id \in DOMAIN AsLedger
  <1>1. CASE FatalReply
    <2>1. pc = "reply" /\ Commit(WithOutcome("network_failure", FALSE), "drain")
      BY <1>1 DEF FatalReply
    <2>2. Len(current.reqs) < expected
      BY <2>1, CurrentRow DEF RowPhase, Busy
    <2>3. "network_failure" \in RequestStatuses \ {"interrupted"}
      BY DEF RequestStatuses
    <2> QED BY <2>1, <2>2, <2>3, RecordingAnOutcome
  <1>2. CASE RecordNotAttempted
    <2>1. "not_attempted" \in RequestStatuses \ {"interrupted"}
      BY DEF RequestStatuses, UnfinishedStatuses
    <2> QED BY <1>2, <2>1, RecordingAnOutcome DEF RecordNotAttempted
  <1>3. ASSUME NEW status \in RequestStatuses, NEW flawed \in BOOLEAN, Reply(status, flawed)
        PROVE  Ledger!RecordFact(current_id) /\ current_id \in DOMAIN AsLedger
    <2>1. /\ pc = "reply" /\ status # "interrupted"
          /\ \/ Commit(WithOutcome(status, flawed), "request")
             \/ Commit(WithOutcome(status, flawed), "drain")
      BY <1>3, DataAssumption DEF Reply, UnfinishedStatuses, Commit, Goto
    <2>2. Len(current.reqs) < expected
      BY <2>1, CurrentRow DEF RowPhase, Busy
    <2> QED BY <2>1, <2>2, RecordingAnOutcome
  <1> QED BY <1>1, <1>2, <1>3

LEMMA Closing ==
  ASSUME IInv, FinalizeFile \/ RecordInterruption
  PROVE  /\ \E standing \in {"complete", "given_up"} : Ledger!Close(current_id, standing)
         /\ current_id \in DOMAIN AsLedger
  <1>1. CASE FinalizeFile
    <2> DEFINE row == [current EXCEPT !.complete = TRUE, !.error = FALSE]
    <2>1. pc = "settle" /\ pc \in Busy /\ ~ CutShort
      BY <1>1 DEF FinalizeFile, Busy
    <2>2. registry' = [registry EXCEPT ![current_id] = row]
      BY <1>1, <2>1, SettledIsWhole DEF FinalizeFile
    <2>3. current \in Attempt
      BY <2>1, CurrentRow
    <2>4. /\ row \in Attempt /\ row.path = current.path /\ row.reqs = current.reqs
          /\ row.range = current.range /\ row.pages = current.pages /\ row.complete
      BY <2>3 DEF Attempt
    <2>5. Facts(row) = Facts(current) /\ Entry(row).standing = "complete"
      BY <2>4 DEF Facts, PageCount, Entry
    <2> QED BY <2>1, <2>2, <2>4, <2>5, MarkIsClose
  <1>2. CASE RecordInterruption
    <2> DEFINE row == [current EXCEPT !.error = TRUE]
    <2>1. pc = "interrupt" /\ pc \in Busy
      BY <1>2 DEF RecordInterruption, Busy
    <2>2. /\ current \in Attempt /\ current_id \in DOMAIN registry
          /\ ~ current.complete /\ ~ current.error
      BY <2>1, CurrentRow DEF RowPhase
    <2>3. registry' = [registry EXCEPT ![current_id] = row]
      BY <1>2, <2>2 DEF RecordInterruption, current
    <2>4. /\ row \in Attempt /\ row.path = current.path /\ row.reqs = current.reqs
          /\ row.range = current.range /\ row.pages = current.pages
          /\ ~ row.complete /\ row.error
      BY <2>2 DEF Attempt
    <2>5. Facts(row) = Facts(current) /\ Entry(row).standing = "given_up"
      BY <2>4 DEF Facts, PageCount, Entry
    <2> QED BY <2>1, <2>3, <2>4, <2>5, MarkIsClose
  <1> QED BY <1>1, <1>2

LEMMA StepIsLedgerStep ==
  ASSUME IInv, [Next]_vars PROVE [Ledger!Next]_AsLedger
  <1>1. CASE UNCHANGED registry
    BY <1>1 DEF AsLedger
  <1>2. CASE HandleFileStarted
    <2>1. index \in Files
      BY <1>2 DEF HandleFileStarted, IInv, PhaseOK
    <2> QED BY <1>2, <2>1, StartIsBegin DEF Ledger!Next, AsLedger
  <1>3. CASE \/ \E s \in PageStatuses : HandleFrameSaved(s)
             \/ \E range \in RangeStatuses \ {""} : HandleFileCompleted(range)
             \/ ConversionCrashes
    BY <1>3, SavingAFrame, RecordingTheConversion DEF Ledger!Next, AsLedger, RangeStatuses
  <1>4. CASE \/ FatalReply \/ RecordNotAttempted
             \/ \E status \in RequestStatuses, flawed \in BOOLEAN : Reply(status, flawed)
    BY <1>4, Answered DEF Ledger!Next, AsLedger
  <1>5. CASE FinalizeFile \/ RecordInterruption
    BY <1>5, Closing DEF Ledger!Next, Ledger!Standing, AsLedger
  <1>6. CASE \/ LoopEnds \/ StatFails \/ StatSource \/ HashStopped \/ HashSource
             \/ StartRefused \/ VerifySource \/ RestatFails
             \/ PlanRequests \/ NextRequest \/ DrainEnds \/ RequestCrashes \/ LeaveUnfinished
             \/ \E noRetry \in NoRetryChoices : StartRun(noRetry)
             \/ Stop \/ DatabaseFails \/ Kill
             \/ \E f \in Files, data \in Contents : RewriteSource(f, data)
             \/ UNCHANGED vars
    <2>1. UNCHANGED registry
      BY <1>6 DEF LoopEnds, StatFails, StatSource, HashStopped, HashSource, SkipFile,
                  StartRefused, VerifySource, RestatFails, PlanRequests, NextRequest, DrainEnds, RequestCrashes,
                  LeaveUnfinished, StartRun, Stop, DatabaseFails, Kill, RewriteSource, vars
    <2> QED BY <1>1, <2>1
  <1> QED BY <1>2, <1>3, <1>4, <1>5, <1>6 DEF Next, Worker, Converting, Answering

\* The database is an append-only ledger of attempts, for any number of files, pages,
\* requests and runs and any timing of Stop, kill and failed commits.
THEOREM LedgerRefinement == Spec => LedgerSpec
  <1>1. Init => Ledger!Init
    <2>1. ASSUME registry = << >> PROVE AsLedger = << >>
      BY <2>1 DEF AsLedger
    <2> QED BY <2>1 DEF Init, Ledger!Init, AsLedger
  <1>2. IInv /\ [Next]_vars => [Ledger!Next]_AsLedger
    BY StepIsLedgerStep
  <1> QED BY <1>1, <1>2, Invariance, PTL DEF Spec, LedgerSpec, Ledger!Spec, AsLedger

-----------------------------------------------------------------------------
(* The invariant *)

Sizes == {SizeOf[c] : c \in Contents}
\* Positions after the re-check of the source, where requests are planned and made.
Sealed == {"frames"} \cup Asking
Underway == {"start"} \cup Busy

\* A fingerprint of file f is never from the future, and as long as the file has the
\* modification time it had then, it describes what is on disk.
Describes(fp, f) ==
  /\ fp.size \in Sizes
  /\ fp.mtime <= disk[f].mtime
  /\ fp.mtime = disk[f].mtime => /\ fp.size = SizeOf[disk[f].data]
                                 /\ fp.sha \in {NoDigest, disk[f].data}

\* The digest, if there is one, is that of everything the converter read.
Faithful(fp, bytes) ==
  fp.sha # NoDigest => bytes \subseteq {fp.sha} /\ fp.size = SizeOf[fp.sha]

RowVersion(a) ==
  \A fp \in a.source :
    /\ Describes(fp, a.path)
    /\ fp.mtime = disk[a.path].mtime => a.bytes \subseteq {disk[a.path].data}
    /\ a.complete => Faithful(fp, a.bytes)

VersionsOK == \A id \in DOMAIN registry : RowVersion(registry[id])

\* What the worker knows of the file it is at.
SourceOK ==
  /\ pc \in {"idle", "loop"} => source = {}
  /\ pc # "idle" => current_id >= first_id
  /\ \A fp \in source : index \in Files /\ Describes(fp, index)
  /\ pc \in Underway =>
       \A fp \in source : \A old \in completed[index] :
         fp.sha # NoDigest /\ old.size = fp.size => old.sha # fp.sha
  /\ pc \in Busy =>
       /\ current_id > first_id
       /\ current.source = source /\ current.path = index
  /\ pc \in Sealed => \A fp \in source : Faithful(fp, current.bytes)

\* An attempt of an earlier run, with a result that is not retried.
Settled(id, f) ==
  /\ id \in DOMAIN registry /\ id <= first_id
  /\ registry[id].path = f /\ overall_result(registry[id]) \in UNION NoRetryChoices

CompletedOK ==
  \A f \in Files : \A fp \in completed[f] :
    \E id \in DOMAIN registry : Settled(id, f) /\ fp \in registry[id].source

SkipsOK ==
  \A skip \in skips :
    \E id \in DOMAIN registry :
      Settled(id, skip[1]) /\ (registry[id].complete => registry[id].bytes \subseteq {skip[2]})

\* What DoneCoversEveryFile says of one file.
OnlyAttempt(id, f) ==
  /\ id > first_id /\ registry[id].path = f
  /\ registry[id].complete \/ registry[id].error
  /\ \A other \in DOMAIN registry :
       other > first_id /\ registry[other].path = f => other = id

Covered(f) ==
  \/ \E skip \in skips : skip[1] = f
  \/ \E id \in DOMAIN registry : OnlyAttempt(id, f)

CoverageOK ==
  /\ pc = "idle" => index = 1
  /\ pc # "idle" =>
       /\ \A f \in Files : f < index => f \in Unstorable \/ Covered(f)
       /\ \A id \in DOMAIN registry :
            id > first_id => registry[id].path < index \/ (pc \in Busy /\ id = current_id)
  /\ result = "done" =>
       pc = "idle" /\ \A f \in Files : f \in Unstorable \/ Covered(f)

CountersOK ==
  /\ pc = "idle" => failures.network = 0 /\ failures.content = 0
  /\ BreakersCountSinceSuccess

HInv == VersionsOK /\ SourceOK /\ CompletedOK /\ SkipsOK /\ CoverageOK /\ CountersOK

-----------------------------------------------------------------------------
(* What a step does to the files and to the rows *)

\* A file that is rewritten gets a modification time it never had.
DiskStep == \A f \in Files : disk'[f] = disk[f] \/ disk[f].mtime < disk'[f].mtime

\* A commit to the newest row; only the settled one can become complete.
Written(row) ==
  /\ pc \in Busy /\ registry' = [registry EXCEPT ![current_id] = row]
  /\ row \in Attempt /\ row.source = current.source /\ row.path = current.path
  /\ row.bytes = current.bytes
       \/ (pc = "extract" /\ row.bytes = current.bytes \cup {disk[index].data})
  /\ row.complete => pc = "settle" /\ row.bytes = current.bytes

Begun ==
  /\ pc = "start"
  /\ registry' = [i \in DOMAIN registry \cup {current_id + 1} |->
                    IF i = current_id + 1 THEN NewRow(index) ELSE registry[i]]

RegistryStep == UNCHANGED registry \/ Begun \/ \E row \in Attempt : Written(row)

LEMMA CommitWrites ==
  ASSUME IInv, pc \in Busy, NEW row, NEW label, Commit(row, label),
         row \in Attempt, row.source = current.source, row.path = current.path,
         row.bytes = current.bytes
           \/ (pc = "extract" /\ row.bytes = current.bytes \cup {disk[index].data}),
         ~ row.complete
  PROVE  RegistryStep
  BY DEF Commit, RegistryStep, Written

LEMMA OutcomeIsWritten ==
  ASSUME IInv, pc \in {"reply", "drain"}, Len(current.reqs) < expected,
         NEW status \in RequestStatuses \ {"interrupted"}, NEW flawed \in BOOLEAN
  PROVE  LET row == WithOutcome(status, flawed) IN
           /\ row \in Attempt /\ row.source = current.source /\ row.path = current.path
           /\ row.bytes = current.bytes /\ ~ row.complete
  <1>1. current \in Attempt /\ RowPhase(current, pc, expected)
    BY CurrentRow DEF Busy
  <1>2. WithOutcome(status, flawed) \in Attempt
    BY OutcomeKeepsRow
  <1>3. ~ current.complete
    BY <1>1 DEF RowPhase
  <1> QED BY <1>1, <1>2, <1>3 DEF WithOutcome, Attempt

LEMMA ConvertingWrites == ASSUME IInv, Converting PROVE RegistryStep
  <1>1. CASE \/ LoopEnds \/ StatFails \/ StatSource \/ HashStopped \/ HashSource
             \/ StartRefused \/ VerifySource \/ RestatFails
    BY <1>1 DEF LoopEnds, StatFails, StatSource, HashStopped, HashSource, StartRefused,
                VerifySource, RestatFails, SkipFile, RegistryStep
  <1>2. CASE HandleFileStarted
    BY <1>2 DEF HandleFileStarted, RegistryStep, Begun
  <1>3. ASSUME NEW s \in PageStatuses, HandleFrameSaved(s)
        PROVE  RegistryStep
    <2> DEFINE row == [current EXCEPT !.pages[s] = @ + 1, !.bytes = @ \cup {disk[index].data}]
    <2>1. pc = "extract" /\ Commit(row, "extract")
      BY <1>3 DEF HandleFrameSaved
    <2>2. /\ current \in Attempt /\ RowPhase(current, "extract", expected)
          /\ index \in Files
      BY <2>1, CurrentRow DEF Busy
    <2>3. row \in Attempt
      <3>1. disk[index].data \in Contents
        BY <2>2 DEF IInv, TypeOK, SourceFile
      <3>2. [current.pages EXCEPT ![s] = @ + 1] \in [PageStatuses -> Nat]
        BY <2>2 DEF Attempt
      <3> QED BY <2>2, <3>1, <3>2 DEF Attempt
    <2>4. /\ row.source = current.source /\ row.path = current.path
          /\ row.bytes = current.bytes \cup {disk[index].data} /\ ~ row.complete
      BY <2>2 DEF Attempt, RowPhase
    <2> QED BY <2>1, <2>3, <2>4, CommitWrites DEF Busy
  <1>4. ASSUME NEW range \in RangeStatuses \ {""},
               HandleFileCompleted(range) \/ (ConversionCrashes /\ range = "failure")
        PROVE  RegistryStep
    <2> DEFINE row == [current EXCEPT !.range = range]
    <2>1. pc = "extract" /\ (Commit(row, "verify") \/ Commit(row, "interrupt"))
      BY <1>4 DEF HandleFileCompleted, ConversionCrashes
    <2>2. current \in Attempt /\ RowPhase(current, "extract", expected)
      BY <2>1, CurrentRow DEF Busy
    <2>3. /\ row \in Attempt /\ row.source = current.source /\ row.path = current.path
          /\ row.bytes = current.bytes /\ ~ row.complete
      BY <2>2 DEF Attempt, RowPhase
    <2> QED BY <2>1, <2>3, CommitWrites DEF Busy
  <1> QED BY <1>1, <1>2, <1>3, <1>4 DEF Converting, RangeStatuses

LEMMA AnsweringWrites == ASSUME IInv, Answering PROVE RegistryStep
  <1>1. CASE \/ PlanRequests \/ NextRequest \/ DrainEnds \/ RequestCrashes \/ LeaveUnfinished
    BY <1>1 DEF PlanRequests, NextRequest, DrainEnds, RequestCrashes, LeaveUnfinished,
                RegistryStep
  <1>2. ASSUME NEW status \in RequestStatuses, NEW flawed \in BOOLEAN,
               \/ Reply(status, flawed)
               \/ FatalReply /\ status = "network_failure" /\ flawed = FALSE
               \/ RecordNotAttempted /\ status = "not_attempted" /\ flawed = FALSE
        PROVE  RegistryStep
    <2> DEFINE row == WithOutcome(status, flawed)
    <2>1. /\ pc \in {"reply", "drain"} /\ status # "interrupted"
          /\ \/ Commit(row, "request") \/ Commit(row, "drain")
      BY <1>2, DataAssumption
         DEF Reply, FatalReply, RecordNotAttempted, UnfinishedStatuses, Commit, Goto
    <2>2. Len(current.reqs) < expected
      BY <1>2, <2>1, CurrentRow DEF RowPhase, Busy, RecordNotAttempted, Reply, FatalReply
    <2>3. /\ row \in Attempt /\ row.source = current.source /\ row.path = current.path
          /\ row.bytes = current.bytes /\ ~ row.complete
      BY <1>2, <2>1, <2>2, OutcomeIsWritten
    <2> QED BY <2>1, <2>3, CommitWrites DEF Busy
  <1>3. CASE FinalizeFile
    <2> DEFINE row == [current EXCEPT !.complete = TRUE, !.error = FALSE]
    <2>1. pc = "settle" /\ pc \in Busy /\ registry' = [registry EXCEPT ![current_id] = row]
      BY <1>3, SettledIsWhole DEF FinalizeFile, Busy
    <2>2. current \in Attempt
      BY <2>1, CurrentRow
    <2>3. /\ row \in Attempt /\ row.source = current.source /\ row.path = current.path
          /\ row.bytes = current.bytes
      BY <2>2 DEF Attempt
    <2> QED BY <2>1, <2>3 DEF RegistryStep, Written
  <1>4. CASE RecordInterruption
    <2> DEFINE row == [current EXCEPT !.error = @ \/ ~ current.complete]
    <2>1. /\ pc = "interrupt" /\ pc \in Busy
          /\ registry' = [registry EXCEPT ![current_id].error = @ \/ ~ current.complete]
      BY <1>4 DEF RecordInterruption, Busy
    <2>2. current \in Attempt /\ RowPhase(current, pc, expected) /\ current_id \in DOMAIN registry
      BY <2>1, CurrentRow
    <2>3. registry' = [registry EXCEPT ![current_id] = row]
      BY <2>1, <2>2 DEF current
    <2>4. /\ row \in Attempt /\ row.source = current.source /\ row.path = current.path
          /\ row.bytes = current.bytes /\ ~ row.complete
      BY <2>2 DEF Attempt, RowPhase
    <2> QED BY <2>1, <2>3, <2>4 DEF RegistryStep, Written
  <1> QED BY <1>1, <1>2, <1>3, <1>4 DEF Answering, RequestStatuses, UnfinishedStatuses

LEMMA WorkerWrites ==
  ASSUME IInv, Worker
  PROVE  RegistryStep /\ disk' = disk /\ first_id' = first_id
  <1>1. RegistryStep
    BY ConvertingWrites, AnsweringWrites DEF Worker
  <1>2. ASSUME Converting PROVE disk' = disk /\ first_id' = first_id
    BY <1>2 DEF Converting, LoopEnds, StatFails, StatSource, HashStopped, HashSource,
                HandleFileStarted, StartRefused, ConversionCrashes, VerifySource, RestatFails,
                HandleFrameSaved, HandleFileCompleted, SkipFile, NextFile, EndRun, Goto, Commit,
                runVars
  <1>3. ASSUME FinalizeFile \/ RecordInterruption PROVE disk' = disk /\ first_id' = first_id
    BY <1>3 DEF FinalizeFile, RecordInterruption, JudgeFile, NextFile, EndRun, Goto, runVars
  <1>4. ASSUME Answering PROVE disk' = disk /\ first_id' = first_id
    BY <1>3, <1>4
       DEF Answering, PlanRequests, NextRequest, FatalReply, RecordNotAttempted, DrainEnds,
           RequestCrashes, LeaveUnfinished, Reply, Goto, Commit, runVars
  <1> QED BY <1>1, <1>2, <1>4 DEF Worker
-----------------------------------------------------------------------------
(* Versions of the source files *)

LEMMA SourceFiles ==
  ASSUME IInv, NEW f \in Files
  PROVE  /\ disk[f].mtime \in Nat /\ disk[f].data \in Contents
         /\ SizeOf[disk[f].data] \in Sizes /\ SizeOf[disk[f].data] \in Nat
  <1>1. disk[f] \in SourceFile
    BY DEF IInv, TypeOK
  <1> QED BY <1>1, SizesAssumption, DataAssumption DEF SourceFile, Sizes

\* A fingerprint goes on describing its file, and has the file's time only if nothing was
\* rewritten.
LEMMA DescribesStays ==
  ASSUME IInv, IInv', DiskStep, NEW f \in Files, NEW fp \in Fingerprint, Describes(fp, f)
  PROVE  /\ Describes(fp, f)'
         /\ fp.mtime = disk'[f].mtime => disk'[f] = disk[f]
  <1>1. disk[f].mtime \in Nat /\ disk'[f].mtime \in Nat /\ fp.mtime \in Nat
    <2>1. disk[f] \in SourceFile /\ disk'[f] \in SourceFile
      BY DEF IInv, TypeOK
    <2> QED BY <2>1, SizesAssumption DEF SourceFile, Fingerprint
  <1>2. CASE disk'[f] = disk[f]
    BY <1>2 DEF Describes
  <1>3. CASE disk[f].mtime < disk'[f].mtime
    <2>1. fp.mtime <= disk'[f].mtime /\ fp.mtime # disk'[f].mtime
      BY <1>1, <1>3 DEF Describes
    <2> QED BY <2>1 DEF Describes
  <1> QED BY <1>2, <1>3 DEF DiskStep

LEMMA RowVersionStays ==
  ASSUME IInv, IInv', DiskStep, NEW a \in Attempt, RowVersion(a)
  PROVE  RowVersion(a)'
  <1> SUFFICES ASSUME NEW fp \in a.source
               PROVE  /\ Describes(fp, a.path)'
                      /\ fp.mtime = disk'[a.path].mtime => a.bytes \subseteq {disk'[a.path].data}
                      /\ a.complete => Faithful(fp, a.bytes)
    BY DEF RowVersion, Faithful
  <1>1. a.path \in Files /\ fp \in Fingerprint
    BY DEF Attempt
  <1>2. /\ Describes(fp, a.path)
        /\ fp.mtime = disk[a.path].mtime => a.bytes \subseteq {disk[a.path].data}
        /\ a.complete => Faithful(fp, a.bytes)
    BY DEF RowVersion
  <1>3. /\ Describes(fp, a.path)'
        /\ fp.mtime = disk'[a.path].mtime => disk'[a.path] = disk[a.path]
    BY <1>1, <1>2, DescribesStays
  <1> QED BY <1>2, <1>3

\* A row that is written or begun, with the files as they are.
LEMMA WrittenVersion ==
  ASSUME IInv, VersionsOK, SourceOK, NEW row \in Attempt, Written(row)
  PROVE  RowVersion(row)
  <1> SUFFICES ASSUME NEW fp \in row.source
               PROVE  /\ Describes(fp, row.path)
                      /\ fp.mtime = disk[row.path].mtime => row.bytes \subseteq {disk[row.path].data}
                      /\ row.complete => Faithful(fp, row.bytes)
    BY DEF RowVersion
  <1>1. pc \in Busy /\ current_id \in DOMAIN registry
    BY CurrentRow DEF Written
  <1>2. /\ fp \in current.source /\ row.path = current.path /\ current.path = index
        /\ fp \in source
    BY <1>1 DEF Written, SourceOK
  <1>3. /\ Describes(fp, row.path)
        /\ fp.mtime = disk[row.path].mtime => current.bytes \subseteq {disk[row.path].data}
    BY <1>1, <1>2 DEF VersionsOK, RowVersion, current
  <1>4. row.complete => Faithful(fp, row.bytes)
    BY <1>2 DEF Written, SourceOK, Sealed, Asking
  <1> QED BY <1>2, <1>3, <1>4 DEF Written

LEMMA NewRowVersion ==
  ASSUME IInv, SourceOK, pc = "start"
  PROVE  RowVersion(NewRow(index))
  BY DEF RowVersion, NewRow, SourceOK

LEMMA VersionsKeep ==
  ASSUME IInv, IInv', DiskStep, VersionsOK, SourceOK, RegistryStep
  PROVE  VersionsOK'
  <1> SUFFICES ASSUME NEW id \in DOMAIN registry'
               PROVE  RowVersion(registry[id])'
    BY DEF VersionsOK
  <1>1. PICK a : a = registry'[id]
    OBVIOUS
  <1>2. a \in Attempt
    BY <1>1 DEF IInv, TypeOK
  <1>3. RowVersion(a)
    <2>1. CASE id \in DOMAIN registry /\ registry'[id] = registry[id]
      BY <1>1, <2>1 DEF VersionsOK
    <2>2. CASE Begun
      <3>1. a = NewRow(index) \/ (id \in DOMAIN registry /\ registry'[id] = registry[id])
        BY <1>1, <2>2 DEF Begun
      <3> QED BY <2>1, <2>2, <3>1, NewRowVersion DEF Begun
    <2>3. ASSUME NEW row \in Attempt, Written(row)
          PROVE  RowVersion(a)
      <3>1. a = row \/ (id \in DOMAIN registry /\ registry'[id] = registry[id])
        BY <1>1, <2>3 DEF Written, IInv, TypeOK
      <3> QED BY <2>1, <2>3, <3>1, WrittenVersion
    <2> QED BY <2>1, <2>2, <2>3 DEF RegistryStep
  <1>4. RowVersion(a)'
    BY <1>2, <1>3, RowVersionStays
  <1> QED BY <1>1, <1>4 DEF RowVersion, Describes, Faithful

-----------------------------------------------------------------------------
(* The attempts of earlier runs *)

LEMMA OldRowsStay ==
  ASSUME IInv, SourceOK, RegistryStep, NEW id \in DOMAIN registry, id <= first_id
  PROVE  id \in DOMAIN registry' /\ registry'[id] = registry[id]
  <1>1. id \in Nat /\ first_id \in Nat /\ current_id \in Nat
    BY DEF IInv, TypeOK
  <1>2. CASE Begun
    <2>1. current_id >= first_id
      BY <1>2 DEF Begun, SourceOK
    <2>2. id # current_id + 1
      BY <1>1, <2>1
    <2> QED BY <1>2, <2>2 DEF Begun
  <1>3. ASSUME NEW row \in Attempt, Written(row)
        PROVE  id \in DOMAIN registry' /\ registry'[id] = registry[id]
    <2>1. current_id > first_id
      BY <1>3 DEF Written, SourceOK
    <2>2. id # current_id
      BY <1>1, <2>1
    <2> QED BY <1>3, <2>2 DEF Written
  <1> QED BY <1>2, <1>3 DEF RegistryStep

LEMMA SettledStays ==
  ASSUME IInv, SourceOK, RegistryStep, first_id' = first_id, NEW f, NEW id, Settled(id, f)
  PROVE  Settled(id, f)' /\ id \in DOMAIN registry' /\ registry'[id] = registry[id]
  <1>1. id \in DOMAIN registry' /\ registry'[id] = registry[id]
    BY OldRowsStay DEF Settled
  <1>2. overall_result(registry[id])' = overall_result(registry[id])
    BY <1>1 DEF overall_result, file_to_jpegs_status, file_to_llm_status, Usable, SomeRequestOk,
                EveryRequestOk, NoAnswerError
  <1> QED BY <1>1, <1>2 DEF Settled

LEMMA CompletedKeeps ==
  ASSUME IInv, SourceOK, CompletedOK, RegistryStep, first_id' = first_id,
         completed' = completed \/ completed' = [f \in Files |-> {}]
  PROVE  CompletedOK'
  <1> SUFFICES ASSUME NEW f \in Files, NEW fp \in completed'[f]
               PROVE  \E id \in DOMAIN registry' : Settled(id, f)' /\ fp \in registry'[id].source
    BY DEF CompletedOK
  <1>1. fp \in completed[f]
    OBVIOUS
  <1>2. PICK id \in DOMAIN registry : Settled(id, f) /\ fp \in registry[id].source
    BY <1>1 DEF CompletedOK
  <1> QED BY <1>2, SettledStays

SkipStands(skip) ==
  \E id \in DOMAIN registry :
    Settled(id, skip[1]) /\ (registry[id].complete => registry[id].bytes \subseteq {skip[2]})

LEMMA SkipsKeep ==
  ASSUME IInv, SourceOK, SkipsOK, RegistryStep, first_id' = first_id,
         \A skip \in skips' : skip \in skips \/ SkipStands(skip)
  PROVE  SkipsOK'
  <1> SUFFICES ASSUME NEW skip \in skips'
               PROVE  \E id \in DOMAIN registry' :
                        /\ Settled(id, skip[1])'
                        /\ registry'[id].complete => registry'[id].bytes \subseteq {skip[2]}
    BY DEF SkipsOK
  <1>1. SkipStands(skip)
    BY DEF SkipsOK, SkipStands
  <1>2. PICK id \in DOMAIN registry :
          /\ Settled(id, skip[1])
          /\ registry[id].complete => registry[id].bytes \subseteq {skip[2]}
    BY <1>1 DEF SkipStands
  <1> QED BY <1>2, SettledStays
-----------------------------------------------------------------------------
(* What the worker knows of the file it is at *)

\* The end of a run, or going on to the next file, leaves nothing to be known.
LEMMA LeavingKeepsSource ==
  ASSUME IInv, IInv', pc' \in {"idle", "loop"}, source' = {},
         pc' # "idle" => current_id' >= first_id'
  PROVE  SourceOK'
  BY DEF SourceOK, Underway, Busy, Sealed, Asking

LEMMA CurrentVersion == ASSUME IInv, VersionsOK, pc \in Busy PROVE RowVersion(current)
  BY CurrentRow DEF VersionsOK, current

\* A step inside an attempt: what was read is settled before the pages are sent.
LEMMA InsideKeepsSource ==
  ASSUME IInv, SourceOK, pc \in Busy, NEW label \in Busy, Goto(label),
         disk' = disk, RegistryStep,
         label \in Sealed => pc # "extract",
         label \in Sealed => pc \in Sealed \/ \A fp \in source : Faithful(fp, current.bytes)
  PROVE  SourceOK'
  <1>1. /\ source' = source /\ index' = index /\ disk' = disk /\ current_id' = current_id
        /\ first_id' = first_id /\ completed' = completed /\ pc' = label
    BY DEF Goto, fileVars, runVars
  <1>2. PICK row : row = current'
    OBVIOUS
  <1>3. /\ row.source = current.source /\ row.path = current.path
        /\ label \in Sealed => row.bytes = current.bytes
    <2>1. CASE UNCHANGED registry
      BY <1>1, <1>2, <2>1 DEF current
    <2>2. ASSUME NEW new \in Attempt, Written(new)
          PROVE  /\ row.source = current.source /\ row.path = current.path
                 /\ label \in Sealed => row.bytes = current.bytes
      <3>1. current' = new
        BY <1>1, <2>2, CurrentRow DEF Written, current, IInv, TypeOK
      <3> QED BY <1>2, <2>2, <3>1 DEF Written
    <2> QED BY <2>1, <2>2 DEF RegistryStep, Begun, Busy
  <1>4. label \in Sealed => \A fp \in source : Faithful(fp, row.bytes)
    BY <1>3 DEF SourceOK
  <1>5. pc # "idle" /\ label \notin {"idle", "loop"} /\ pc \in Underway
    BY DEF Busy, Underway
  <1>6. \A fp \in source : Faithful(fp, row.bytes) <=> Faithful(fp, current.bytes)'
    BY <1>2 DEF Faithful
  <1> QED BY <1>1, <1>2, <1>3, <1>4, <1>5, <1>6 DEF SourceOK, Describes

\* A file that is rewritten is described no less.
LEMMA RewriteKeepsSource ==
  ASSUME IInv, IInv', SourceOK, DiskStep,
         UNCHANGED <<registry, pc, index, current_id, completed, source, first_id>>
  PROVE  SourceOK'
  <1>1. source \subseteq Fingerprint /\ current' = current
    BY DEF IInv, TypeOK, current
  <1>3. PICK f : f = index
    OBVIOUS
  <1>4. \A fp \in source : (index \in Files /\ Describes(fp, index))'
    <2>1. \A fp \in source : f \in Files /\ Describes(fp, f)
      BY <1>3 DEF SourceOK
    <2>2. \A fp \in source : Describes(fp, f)'
      BY <1>1, <2>1, DescribesStays
    <2> QED BY <1>3, <2>1, <2>2 DEF Describes
  <1>5. \A fp \in source : Faithful(fp, current.bytes) <=> Faithful(fp, current.bytes)'
    BY <1>1 DEF Faithful
  <1> QED BY <1>1, <1>4, <1>5 DEF SourceOK
\* Taking a file up: stat, digest, and the row.
LEMMA StatKeepsSource ==
  ASSUME IInv, SourceOK, StatFails \/ (StatSource /\ ~ SkipFile)
  PROVE  SourceOK'
  <1>1. index \in Files /\ pc = "loop" /\ source = {} /\ current_id >= first_id
    BY SizesAssumption DEF SourceOK, StatFails, StatSource, IInv, TypeOK, Files
  <1>2. CASE StatFails
    BY <1>1, <1>2 DEF StatFails, Goto, fileVars, runVars, SourceOK, Busy, Sealed, Asking, Underway
  <1>3. CASE StatSource /\ ~ SkipFile
    <2> DEFINE fp == [size |-> source_state(index).size, mtime |-> source_state(index).mtime,
                      sha |-> NoDigest]
    <2>1. /\ pc' = "hash" /\ source' = {fp}
          /\ UNCHANGED <<disk, index, current_id, completed, first_id>>
      BY <1>3 DEF StatSource, runVars
    <2>2. fp.size = SizeOf[disk[index].data] /\ fp.mtime = disk[index].mtime /\ fp.sha = NoDigest
      BY DEF source_state
    <2>3. fp.size \in Sizes /\ fp.mtime \in Nat
      BY <1>1, <2>2, SourceFiles
    <2>4. Describes(fp, index)
      BY <2>2, <2>3 DEF Describes
    <2> QED BY <1>1, <2>1, <2>4 DEF SourceOK, Describes, Busy, Sealed, Asking, Underway
  <1> QED BY <1>2, <1>3

LEMMA HashKeepsSource ==
  ASSUME IInv, SourceOK, HashSource, ~ SkipFile
  PROVE  SourceOK'
  <1>1. pc = "hash" /\ index \in Files
    BY DEF HashSource, IInv, PhaseOK
  <1>2. PICK digest \in {NoDigest, disk[index].data} :
          /\ digest \notin SameSizeDigests
          /\ source' = {[fp EXCEPT !.sha = digest] : fp \in source}
          /\ pc' = "start"
          /\ UNCHANGED <<disk, index, current_id, completed, first_id>>
    BY DEF HashSource, runVars
  <1>3. source \subseteq Fingerprint
    BY DEF IInv, TypeOK
  <1>4. ASSUME NEW new \in source'
        PROVE  /\ Describes(new, index)
               /\ \A old \in completed[index] :
                    new.sha # NoDigest /\ old.size = new.size => old.sha # new.sha
    <2>1. PICK fp \in source : new = [fp EXCEPT !.sha = digest]
      BY <1>2
    <2>2. new.size = fp.size /\ new.mtime = fp.mtime /\ new.sha = digest
      BY <1>3, <2>1 DEF Fingerprint
    <2>3. Describes(fp, index)
      BY DEF SourceOK
    <2>4. ASSUME NEW old \in completed[index], digest # NoDigest, old.size = fp.size
          PROVE  old.sha # digest
      <3>1. old.sha = digest => old.sha \in SameSizeDigests
        BY <2>4 DEF SameSizeDigests
      <3> QED BY <1>2, <3>1
    <2> QED BY <2>2, <2>3, <2>4 DEF Describes
  <1>5. pc' = "start" /\ UNCHANGED <<disk, index, current_id, completed, first_id>>
    BY <1>2
  <1>6. current_id >= first_id
    BY <1>1 DEF SourceOK
  <1> QED BY <1>1, <1>4, <1>5, <1>6 DEF SourceOK, Describes, Busy, Sealed, Asking, Underway

LEMMA BeginKeepsSource == ASSUME IInv, SourceOK, HandleFileStarted PROVE SourceOK'
  <1>1. /\ pc = "start" /\ pc' = "extract" /\ current_id' = current_id + 1
        /\ registry'[current_id + 1] = NewRow(index)
        /\ UNCHANGED <<disk, index, completed, source, first_id>>
    BY DEF HandleFileStarted, runVars
  <1>2. current'.source = source /\ current'.path = index
    <2>1. current' = NewRow(index)
      BY <1>1 DEF current
    <2>2. NewRow(index).source = source /\ NewRow(index).path = index
      BY DEF NewRow
    <2> QED BY <2>1, <2>2
  <1>3. current_id' >= first_id /\ current_id' > first_id
    BY <1>1 DEF SourceOK, IInv, TypeOK
  <1> QED BY <1>1, <1>2, <1>3 DEF SourceOK, Describes, Busy, Sealed, Asking, Underway

LEMMA JudgeLeaves ==
  ASSUME IInv, SourceOK, pc \in Busy, JudgeFile
  PROVE  /\ pc' \in {"idle", "loop"} /\ source' = {} /\ first_id' = first_id
         /\ pc' # "idle" => current_id' >= first_id'
         /\ completed' = completed \/ completed' = [f \in Files |-> {}]
  <1>1. current_id >= first_id
    BY DEF SourceOK, Busy
  <1> QED BY <1>1 DEF JudgeFile, EndRun, NextFile, runVars

LEMMA ConvertingKeepsSource ==
  ASSUME IInv, IInv', VersionsOK, SourceOK, Converting
  PROVE  SourceOK'
  <1>0. RegistryStep /\ disk' = disk
    BY WorkerWrites DEF Worker
  <1>1. CASE LoopEnds \/ HashStopped
    BY <1>1, LeavingKeepsSource DEF LoopEnds, HashStopped, EndRun
  <1>2. CASE (StatSource \/ HashSource) /\ SkipFile
    <2>1. pc \in {"loop", "hash"} /\ current_id >= first_id
      BY <1>2 DEF StatSource, HashSource, SourceOK
    <2> QED BY <1>2, <2>1, LeavingKeepsSource DEF SkipFile, NextFile, runVars
  <1>3. CASE StartRefused
    <2>1. current_id >= first_id
      BY <1>3 DEF StartRefused, SourceOK
    <2>2. current_id + 1 >= first_id
      BY <2>1 DEF IInv, TypeOK
    <2> QED BY <1>3, <2>2, LeavingKeepsSource DEF StartRefused, runVars
  <1>4. CASE HandleFileStarted
    BY <1>4, BeginKeepsSource
  <1>5. CASE VerifySource \/ RestatFails
    <2>1. /\ pc = "verify" /\ pc \in Busy /\ UNCHANGED <<disk, registry>>
          /\ (Goto("frames") /\ SourceUnchanged) \/ Goto("interrupt")
      BY <1>5 DEF VerifySource, RestatFails, Busy, Goto
    <2>2. CASE Goto("frames") /\ SourceUnchanged
      <3>1. index \in Files /\ current.source = source /\ current.path = index
        BY <2>1, CurrentRow DEF SourceOK
      <3>2. ASSUME NEW fp \in source
            PROVE  Faithful(fp, current.bytes)
        <4>1. fp.mtime = disk[index].mtime
          BY <2>2 DEF SourceUnchanged, SameState, source_state
        <4>2. Describes(fp, index)
          BY DEF SourceOK
        <4>3. current.bytes \subseteq {disk[index].data}
          BY <2>1, <3>1, <4>1, CurrentVersion DEF RowVersion
        <4> QED BY <4>1, <4>2, <4>3 DEF Describes, Faithful
      <3> QED BY <1>0, <2>1, <2>2, <3>2, InsideKeepsSource DEF Busy
    <2>3. CASE Goto("interrupt")
      BY <1>0, <2>1, <2>3, InsideKeepsSource DEF Busy, Sealed, Asking
    <2> QED BY <2>1, <2>2, <2>3
  <1>6. CASE \/ ConversionCrashes
             \/ \E s \in PageStatuses : HandleFrameSaved(s)
             \/ \E range \in RangeStatuses \ {""} : HandleFileCompleted(range)
    <2>1. pc = "extract" /\ (Goto("extract") \/ Goto("verify") \/ Goto("interrupt"))
      BY <1>6 DEF ConversionCrashes, HandleFrameSaved, HandleFileCompleted, Commit
    <2> QED BY <1>0, <2>1, InsideKeepsSource DEF Busy, Sealed, Asking
  <1> QED BY <1>1, <1>2, <1>3, <1>4, <1>5, <1>6, StatKeepsSource, HashKeepsSource DEF Converting

LEMMA AnsweringKeepsSource ==
  ASSUME IInv, IInv', SourceOK, Answering
  PROVE  SourceOK'
  <1>1. RegistryStep /\ disk' = disk
    BY WorkerWrites DEF Worker
  <1>2. CASE (FinalizeFile \/ RecordInterruption) /\ pc' \in {"idle", "loop"}
    <2>1. pc \in Busy /\ current_id >= first_id
      BY <1>2 DEF FinalizeFile, RecordInterruption, Busy, SourceOK
    <2>2. JudgeFile \/ NextFile \/ EndRun("failed")
      BY <1>2, <2>1, SettledIsWhole DEF FinalizeFile, RecordInterruption
    <2> QED BY <1>2, <2>1, <2>2, JudgeLeaves, LeavingKeepsSource DEF NextFile, EndRun, runVars
  <1>3. CASE (FinalizeFile \/ RecordInterruption) /\ pc' \notin {"idle", "loop"}
    BY <1>3, SettledIsWhole DEF FinalizeFile, RecordInterruption, JudgeFile, NextFile, EndRun
  <1>4. CASE ~ (FinalizeFile \/ RecordInterruption)
    <2>1. /\ pc \in Sealed
          /\ \E label \in {"request", "reply", "drain", "settle", "interrupt"} : Goto(label)
      BY <1>4 DEF Answering, PlanRequests, NextRequest, FatalReply, RecordNotAttempted, DrainEnds,
                  RequestCrashes, LeaveUnfinished, Reply, Commit, Sealed, Asking
    <2> QED BY <1>1, <2>1, InsideKeepsSource DEF Busy, Sealed, Asking
  <1> QED BY <1>2, <1>3, <1>4

-----------------------------------------------------------------------------
(* Skipping a file *)

\* The bytes the file has now are those a complete attempt with its time and size, or with
\* its digest, was made from.
LEMMA SkipIsJustified ==
  ASSUME IInv, VersionsOK, CompletedOK, index \in Files, NEW old \in completed[index],
         \/ SameState(old, source_state(index))
         \/ old.sha # NoDigest /\ old.sha = disk[index].data
  PROVE  SkipStands(<<index, disk[index].data>>)
  <1>1. PICK id \in DOMAIN registry : Settled(id, index) /\ old \in registry[id].source
    BY DEF CompletedOK
  <1>2. RowVersion(registry[id]) /\ registry[id].path = index
    BY <1>1 DEF VersionsOK, Settled
  <1>3. CASE SameState(old, source_state(index))
    <2>1. old.mtime = disk[index].mtime
      BY <1>3 DEF SameState, source_state
    <2> QED BY <1>1, <1>2, <2>1 DEF SkipStands, RowVersion
  <1>4. CASE old.sha # NoDigest /\ old.sha = disk[index].data
    BY <1>1, <1>2, <1>4 DEF SkipStands, RowVersion, Faithful
  <1> QED BY <1>3, <1>4

LEMMA SkippingKeepsSkips ==
  ASSUME IInv, VersionsOK, SourceOK, CompletedOK, SkipsOK, RegistryStep,
         (StatSource \/ HashSource) /\ SkipFile
  PROVE  SkipsOK'
  <1>1. index \in Files /\ disk[index].data \in Contents
    BY SizesAssumption, SourceFiles
       DEF StatSource, HashSource, IInv, TypeOK, PhaseOK, Files
  <1>2. PICK old \in completed[index] :
          \/ SameState(old, source_state(index))
          \/ old.sha # NoDigest /\ old.sha = disk[index].data
    <2>1. CASE StatSource
      BY <2>1 DEF StatSource, SkipFile, NextFile
    <2>2. CASE HashSource
      <3>1. PICK digest \in {NoDigest, disk[index].data} : digest \in SameSizeDigests
        BY <2>2 DEF HashSource, SkipFile, NextFile
      <3>2. PICK old \in completed[index] : old.sha = digest /\ old.sha # NoDigest
        BY <3>1 DEF SameSizeDigests
      <3> QED BY <3>1, <3>2
    <2> QED BY <2>1, <2>2
  <1>3. SkipStands(<<index, disk[index].data>>)
    BY <1>1, <1>2, SkipIsJustified
  <1>4. skips' = skips \cup {<<index, disk[index].data>>} /\ first_id' = first_id
    BY DEF SkipFile, NextFile, runVars
  <1> QED BY <1>3, <1>4, SkipsKeep

\* A new run compares with the attempts that are there when it starts.
LEMMA StartKeepsCompleted ==
  ASSUME IInv, IInv', NEW noRetry \in NoRetryChoices, StartRun(noRetry)
  PROVE  CompletedOK'
  <1>1. /\ registry' = registry /\ first_id' = HighestFileId
        /\ completed' = NoRetrySources(noRetry)
    BY DEF StartRun
  <1>2. \A id \in DOMAIN registry : id <= HighestFileId
    BY HighestIsHighest DEF IInv
  <1> SUFFICES ASSUME NEW f \in Files, NEW fp \in completed'[f]
               PROVE  \E id \in DOMAIN registry' : Settled(id, f)' /\ fp \in registry'[id].source
    BY DEF CompletedOK
  <1>3. PICK id \in NoRetryIds(noRetry) : registry[id].path = f /\ fp \in registry[id].source
    BY <1>1 DEF NoRetrySources
  <1>4. id \in DOMAIN registry /\ overall_result(registry[id]) \in UNION NoRetryChoices
    BY <1>3 DEF NoRetryIds
  <1>5. overall_result(registry[id])' = overall_result(registry[id])
    BY <1>1 DEF overall_result, file_to_jpegs_status, file_to_llm_status, Usable, SomeRequestOk,
                EveryRequestOk, NoAnswerError
  <1> QED BY <1>1, <1>2, <1>3, <1>4, <1>5 DEF Settled
-----------------------------------------------------------------------------
(* The files a run has been through *)

\* The path of the attempt that is written is the file the worker is at.
LEMMA WrittenPath ==
  ASSUME IInv, SourceOK, NEW row, Written(row)
  PROVE  /\ row.path = index /\ current_id \in DOMAIN registry /\ current_id > first_id
         /\ registry'[current_id] = row /\ DOMAIN registry' = DOMAIN registry
         /\ \A id \in DOMAIN registry : id # current_id => registry'[id] = registry[id]
  BY CurrentRow DEF Written, SourceOK, IInv, TypeOK

LEMMA CoveredStays ==
  ASSUME IInv, SourceOK, RegistryStep, first_id' = first_id, skips \subseteq skips',
         NEW f \in Files, f # index, Covered(f)
  PROVE  Covered(f)'
  <1>1. CASE \E skip \in skips : skip[1] = f
    BY <1>1 DEF Covered
  <1>2. ASSUME NEW id \in DOMAIN registry, OnlyAttempt(id, f)
        PROVE  Covered(f)'
    <2>1. CASE UNCHANGED registry
      BY <1>2, <2>1 DEF OnlyAttempt, Covered
    <2>2. CASE Begun
      <3>1. id # current_id + 1
        <4>1. id <= current_id /\ id \in Nat /\ current_id \in Nat
          BY <2>2 DEF Begun, IInv, PhaseOK, Newest, TypeOK
        <4> QED BY <4>1
      <3>2. NewRow(index).path # f
        BY DEF NewRow
      <3> QED BY <1>2, <2>2, <3>1, <3>2 DEF Begun, OnlyAttempt, Covered
    <2>3. ASSUME NEW row \in Attempt, Written(row)
          PROVE  Covered(f)'
      <3>1. id # current_id
        BY <1>2, <2>3 DEF OnlyAttempt, Written, SourceOK, current
      <3> QED BY <1>2, <2>3, <3>1, WrittenPath DEF OnlyAttempt, Covered
    <2> QED BY <2>1, <2>2, <2>3 DEF RegistryStep
  <1> QED BY <1>1, <1>2 DEF Covered

\* Every other attempt of this run is at a file before the one the worker is at.
LEMMA RowsBehind ==
  ASSUME IInv, SourceOK, CoverageOK, RegistryStep, pc # "idle",
         NEW id \in DOMAIN registry', id > first_id
  PROVE  \/ registry'[id].path < index
         \/ registry'[id].path = index /\ pc \in Busy /\ id = current_id
         \/ registry'[id].path = index /\ Begun /\ id = current_id + 1
  <1>1. \A i \in DOMAIN registry :
          i > first_id => registry[i].path < index \/ (pc \in Busy /\ i = current_id)
    BY DEF CoverageOK
  <1>2. pc \in Busy => registry[current_id].path = index
    BY DEF SourceOK, current
  <1>3. CASE UNCHANGED registry
    BY <1>1, <1>2, <1>3
  <1>4. CASE Begun
    <2>1. NewRow(index).path = index
      BY DEF NewRow
    <2> QED BY <1>1, <1>2, <1>4, <2>1 DEF Begun
  <1>5. ASSUME NEW row \in Attempt, Written(row)
        PROVE  \/ registry'[id].path < index
               \/ registry'[id].path = index /\ pc \in Busy /\ id = current_id
    BY <1>1, <1>2, <1>5, WrittenPath DEF Written
  <1> QED BY <1>3, <1>4, <1>5 DEF RegistryStep

\* The end of a run that does not say done.
LEMMA EndKeepsCoverage ==
  ASSUME NEW how, EndRun(how), how # "done"
  PROVE  CoverageOK'
  BY DEF EndRun, CoverageOK, Busy

\* Going on, once the file the worker is at is covered.
LEMMA NextKeepsCoverage ==
  ASSUME IInv, SourceOK, CoverageOK, RegistryStep, pc # "idle", ~ Begun,
         NEW i \in Files, i = index, pc' = "loop", index' = index + 1, first_id' = first_id, result' = result,
         skips \subseteq skips', i \in Unstorable \/ Covered(i)', TypeOK'
  PROVE  CoverageOK'
  <1>1. \A f \in Files : f < index' => f \in Unstorable \/ Covered(f)'
    <2> SUFFICES ASSUME NEW f \in Files, f < index + 1
                 PROVE  f \in Unstorable \/ Covered(f)'
      OBVIOUS
    <2>1. f \in Nat /\ index \in Nat
      BY SizesAssumption DEF Files
    <2>2. CASE f = index
      BY <2>2
    <2>3. CASE f < index
      <3>1. f \in Unstorable \/ Covered(f)
        BY <2>3 DEF CoverageOK
      <3>2. f # index
        BY <2>1, <2>3
      <3> QED BY <3>1, <3>2, CoveredStays
    <2> QED BY <2>1, <2>2, <2>3
  <1>2. \A id \in DOMAIN registry' : id > first_id' => registry'[id].path < index'
    <2> SUFFICES ASSUME NEW id \in DOMAIN registry', id > first_id
                 PROVE  registry'[id].path < index + 1
      OBVIOUS
    <2>1. registry'[id].path < index \/ registry'[id].path = index
      BY RowsBehind
    <2>2. PICK p : p = registry'[id].path
      OBVIOUS
    <2>3. p \in Nat \/ p = index
      <3>1. registry' \in [DOMAIN registry' -> Attempt]
        BY DEF TypeOK
      <3> QED BY <2>2, <3>1, SizesAssumption DEF Attempt, Files
    <2>4. index \in Nat
      BY SizesAssumption DEF Files
    <2> QED BY <2>1, <2>2, <2>3, <2>4
  <1>3. result' # "done"
    BY DEF CoverageOK
  <1> QED BY <1>1, <1>2, <1>3 DEF CoverageOK

\* Staying at the same file.
LEMMA StayKeepsCoverage ==
  ASSUME IInv, SourceOK, CoverageOK, RegistryStep, pc \notin {"idle"}, pc' # "idle",
         pc \in Busy => pc' \in Busy, Begun => pc' \in Busy /\ current_id' = current_id + 1,
         ~ Begun => current_id' = current_id,
         index' = index, first_id' = first_id, result' = result, skips' = skips
  PROVE  CoverageOK'
  <1>1. \A f \in Files : f < index' => f \in Unstorable \/ Covered(f)'
    <2> SUFFICES ASSUME NEW f \in Files, f < index
                 PROVE  f \in Unstorable \/ Covered(f)'
      OBVIOUS
    <2>1. f # index
      BY SizesAssumption DEF Files
    <2>2. f \in Unstorable \/ Covered(f)
      BY DEF CoverageOK
    <2> QED BY <2>1, <2>2, CoveredStays
  <1>2. \A id \in DOMAIN registry' :
          id > first_id' => registry'[id].path < index' \/ (pc' \in Busy /\ id = current_id')
    <2> SUFFICES ASSUME NEW id \in DOMAIN registry', id > first_id
                 PROVE  registry'[id].path < index \/ (pc' \in Busy /\ id = current_id')
      OBVIOUS
    <2> QED BY RowsBehind DEF Begun, Busy
  <1>3. result' # "done"
    BY DEF CoverageOK
  <1> QED BY <1>1, <1>2, <1>3 DEF CoverageOK
LEMMA IndexRange ==
  ASSUME IInv
  PROVE  /\ index \in Nat /\ NumFiles \in Nat
         /\ StatSource \/ HashSource => index \in Files /\ pc \in {"loop", "hash"}
  <1>1. index \in 1..(NumFiles + 1) /\ NumFiles \in Nat
    BY SizesAssumption DEF IInv, TypeOK
  <1>2. StatSource => index \in Files
    BY <1>1 DEF StatSource, Files
  <1>3. HashSource => index \in Files
    BY DEF HashSource, IInv, PhaseOK
  <1> QED BY <1>1, <1>2, <1>3 DEF StatSource, HashSource

LEMMA ConvertingKeepsCoverage ==
  ASSUME IInv, IInv', SourceOK, CoverageOK, Converting
  PROVE  CoverageOK'
  <1>0. RegistryStep /\ first_id' = first_id
    BY WorkerWrites DEF Worker
  <1>1. CASE LoopEnds /\ ~ abort
    <2>1. /\ index > NumFiles /\ EndRun("done") /\ UNCHANGED <<registry, skips>>
      BY <1>1 DEF LoopEnds, historyVars
    <2>2. \A f \in Files : f < index
      BY <2>1, IndexRange DEF Files
    <2>3. \A f \in Files : f \in Unstorable \/ Covered(f)
      BY <1>1, <2>2 DEF LoopEnds, CoverageOK
    <2> QED BY <1>0, <2>1, <2>3 DEF EndRun, CoverageOK, Covered, OnlyAttempt
  <1>2. CASE (LoopEnds /\ abort) \/ HashStopped
    <2>1. EndRun("aborted")
      BY <1>2 DEF LoopEnds, HashStopped
    <2> QED BY <2>1, EndKeepsCoverage
  <1>3. CASE (StatSource \/ HashSource) /\ SkipFile
    <2>1. index \in Files /\ pc \in {"loop", "hash"}
      BY <1>3, IndexRange
    <2>2. PICK i \in Files : i = index
      BY <2>1
    <2>3. <<i, disk[i].data>> \in skips' /\ skips \subseteq skips' /\ NextFile
      BY <1>3, <2>2 DEF SkipFile
    <2>4. Covered(i)'
      <3>1. <<i, disk[i].data>>[1] = i
        OBVIOUS
      <3> QED BY <2>3, <3>1 DEF Covered
    <2>5. TypeOK'
      BY DEF IInv
    <2> QED BY <1>0, <2>1, <2>2, <2>3, <2>4, <2>5, NextKeepsCoverage DEF NextFile, runVars, Begun
  <1>4. CASE StartRefused
    <2>1. TypeOK' /\ \A id \in DOMAIN registry : id <= current_id
      BY <1>4 DEF StartRefused, IInv, PhaseOK, Newest
    <2>2. registry' = registry /\ current_id \in Nat
      BY <1>4 DEF StartRefused, IInv, TypeOK
    <2>3. ~ Begun
      BY <2>1, <2>2 DEF Begun
    <2>4. PICK i \in Files : i = index
      BY <1>4 DEF StartRefused, IInv, PhaseOK
    <2>5. /\ pc' = "loop" /\ pc = "start" /\ index' = index + 1 /\ result' = result
          /\ skips' = skips /\ i \in Unstorable
      BY <1>4, <2>4 DEF StartRefused, runVars, historyVars
    <2> QED BY <1>0, <2>1, <2>3, <2>4, <2>5, NextKeepsCoverage
  <1>5. CASE (StatFails \/ StatSource \/ HashSource) /\ ~ SkipFile
    BY <1>0, <1>5, StayKeepsCoverage
       DEF StatFails, StatSource, HashSource, Goto, fileVars, runVars, historyVars, Begun, Busy
  <1>6. CASE HandleFileStarted
    BY <1>0, <1>6, StayKeepsCoverage DEF HandleFileStarted, runVars, historyVars, Begun, Busy
  <1>7. CASE \/ ConversionCrashes \/ VerifySource \/ RestatFails
             \/ \E s \in PageStatuses : HandleFrameSaved(s)
             \/ \E range \in RangeStatuses \ {""} : HandleFileCompleted(range)
    <2>1. /\ pc \in {"extract", "verify"}
          /\ \E label \in {"extract", "verify", "frames", "interrupt"} : Goto(label)
      BY <1>7 DEF ConversionCrashes, VerifySource, RestatFails, HandleFrameSaved,
                  HandleFileCompleted, Commit
    <2> QED BY <1>0, <2>1, StayKeepsCoverage
            DEF Goto, fileVars, runVars, historyVars, Begun, Busy
  <1>8. SkipFile \/ ~ SkipFile
    OBVIOUS
  <1> QED BY <1>1, <1>2, <1>3, <1>4, <1>5, <1>6, <1>7, <1>8
          DEF Converting, StatFails, SkipFile, NextFile, Goto

\* The row of the file being left is complete or says why not.
LEMMA LeftRowCovers ==
  ASSUME IInv, SourceOK, CoverageOK, NEW row \in Attempt, Written(row), row.complete \/ row.error,
         first_id' = first_id, NEW i, i = index
  PROVE  Covered(i)'
  <1>1. /\ current_id \in DOMAIN registry' /\ current_id > first_id
        /\ registry'[current_id] = row /\ row.path = i
    BY WrittenPath
  <1>2. ASSUME NEW other \in DOMAIN registry', other > first_id, registry'[other].path = i
        PROVE  other = current_id
    <2>1. index \in Files /\ ~ Begun /\ pc # "idle"
      BY CurrentRow DEF Written, Begun, Busy
    <2>2. ~ (i < i)
      BY <2>1, SizesAssumption DEF Files
    <2> QED BY <1>2, <2>1, <2>2, RowsBehind DEF RegistryStep
  <1>3. PICK id : id = current_id
    OBVIOUS
  <1>4. OnlyAttempt(id, i)'
    BY <1>1, <1>2, <1>3 DEF OnlyAttempt
  <1> QED BY <1>1, <1>3, <1>4 DEF Covered

LEMMA JudgeKeepsCoverage ==
  ASSUME IInv, IInv', SourceOK, CoverageOK, pc \in Busy, RegistryStep, first_id' = first_id,
         NEW row \in Attempt, Written(row), row.complete \/ row.error, skips' = skips,
         JudgeFile \/ NextFile \/ EndRun("failed")
  PROVE  CoverageOK'
  <1>1. PICK i \in Files : i = index
    BY CurrentRow
  <1>2. Covered(i)'
    BY <1>1, LeftRowCovers
  <1>3. CASE NextFile
    BY <1>1, <1>2, <1>3, NextKeepsCoverage DEF NextFile, runVars, Begun, Busy, IInv
  <1>4. CASE \E how \in {"failed", "network_breaker", "content_breaker"} : EndRun(how)
    BY <1>4, EndKeepsCoverage
  <1> QED BY <1>3, <1>4 DEF JudgeFile

LEMMA AnsweringKeepsCoverage ==
  ASSUME IInv, IInv', SourceOK, CoverageOK, Answering
  PROVE  CoverageOK'
  <1>0. RegistryStep /\ first_id' = first_id
    BY WorkerWrites DEF Worker
  <1>1. CASE FinalizeFile
    <2> DEFINE row == [current EXCEPT !.complete = TRUE, !.error = FALSE]
    <2>1. /\ pc = "settle" /\ pc \in Busy /\ JudgeFile /\ skips' = skips
          /\ registry' = [registry EXCEPT ![current_id] = row]
      BY <1>1, SettledIsWhole DEF FinalizeFile, Busy
    <2>2. current \in Attempt
      BY <2>1, CurrentRow
    <2>3. row \in Attempt /\ Written(row) /\ row.complete
      BY <2>1, <2>2 DEF Written, Attempt
    <2> QED BY <1>0, <2>1, <2>3, JudgeKeepsCoverage
  <1>2. CASE RecordInterruption
    <2> DEFINE row == [current EXCEPT !.error = @ \/ ~ current.complete]
    <2>1. /\ pc = "interrupt" /\ pc \in Busy
          /\ JudgeFile \/ NextFile \/ EndRun("failed")
          /\ registry' = [registry EXCEPT ![current_id].error = @ \/ ~ current.complete]
          /\ skips' = skips
      BY <1>2 DEF RecordInterruption, Busy
    <2>2. current \in Attempt /\ RowPhase(current, pc, expected) /\ current_id \in DOMAIN registry
      BY <2>1, CurrentRow
    <2>3. registry' = [registry EXCEPT ![current_id] = row]
      BY <2>1, <2>2 DEF current
    <2>4. row \in Attempt /\ Written(row) /\ row.error
      BY <2>1, <2>2, <2>3 DEF Written, Attempt, RowPhase
    <2> QED BY <1>0, <2>1, <2>4, JudgeKeepsCoverage
  <1>3. CASE ~ (FinalizeFile \/ RecordInterruption)
    <2>1. /\ pc \in Sealed
          /\ \E label \in {"request", "reply", "drain", "settle", "interrupt"} : Goto(label)
      BY <1>3 DEF Answering, PlanRequests, NextRequest, FatalReply, RecordNotAttempted, DrainEnds,
                  RequestCrashes, LeaveUnfinished, Reply, Commit, Sealed, Asking
    <2> QED BY <1>0, <2>1, StayKeepsCoverage
            DEF Goto, fileVars, runVars, historyVars, Begun, Busy, Sealed, Asking
  <1> QED BY <1>1, <1>2, <1>3

-----------------------------------------------------------------------------
(* The circuit breakers *)

\* What each kind of failure means is what Verdict makes of it, when no reply succeeded.
LEMMA VerdictMeans ==
  ASSUME NEW statuses
  PROVE  /\ Verdict(statuses) \in Verdicts
         /\ Verdict(statuses) = "ok" <=> "ok" \in statuses
         /\ "ok" \notin statuses => \A kind \in {"network", "content"} :
                                      Verdict(statuses) = kind <=> FailedBy(kind, statuses)
BY DEF Verdict, Verdicts, FailedBy, ServerFailed, AnswerFailed

\* One more file: a success ends every count, a failure adds to its own.
LEMMA SinceOkAppended ==
  ASSUME judged \in Seq(SUBSET RequestStatuses), NEW statuses \in SUBSET RequestStatuses,
         NEW kind \in {"network", "content"}, judged' = Append(judged, statuses)
  PROVE  /\ "ok" \in statuses => SinceOk(kind)' = {}
         /\ "ok" \notin statuses /\ ~ FailedBy(kind, statuses) => SinceOk(kind)' = SinceOk(kind)
         /\ "ok" \notin statuses /\ FailedBy(kind, statuses)
              => SinceOk(kind)' = SinceOk(kind) \cup {Len(judged) + 1}
  <1> DEFINE n == Len(judged)
             Good(i) == "ok" \in judged[i]
             NowGood(i) == "ok" \in judged'[i]
             Bad(i) == FailedBy(kind, judged[i])
             NowBad(i) == FailedBy(kind, judged'[i])
  <1>1. /\ n \in Nat /\ Len(judged') = n + 1 /\ DOMAIN judged = 1..n
        /\ DOMAIN judged' = 1..(n + 1) /\ judged'[n + 1] = statuses
        /\ \A i \in 1..n : judged'[i] = judged[i]
    BY AppendProperties, LenProperties
  <1>2. \A i \in 1..(n + 1) : i..Len(judged') = (i..n) \cup {n + 1}
    BY <1>1
  <1>3. SinceOk(kind)' = {i \in 1..(n + 1) : NowBad(i) /\ \A j \in i..(n + 1) : ~ NowGood(j)}
    BY <1>1 DEF SinceOk, FailedBy, ServerFailed, AnswerFailed
  <1>4. SinceOk(kind) = {i \in 1..n : Bad(i) /\ \A j \in i..n : ~ Good(j)}
    BY <1>1 DEF SinceOk
  <1>5. /\ \A i \in 1..n : (NowGood(i) <=> Good(i)) /\ (NowBad(i) <=> Bad(i))
        /\ NowGood(n + 1) <=> "ok" \in statuses
        /\ NowBad(n + 1) <=> FailedBy(kind, statuses)
    BY <1>1
  <1> HIDE DEF n, Good, NowGood, Bad, NowBad
  <1>6. \A i \in 1..n : (\A j \in i..(n + 1) : ~ NowGood(j))
                         <=> ("ok" \notin statuses /\ \A j \in i..n : ~ Good(j))
    BY <1>1, <1>2, <1>5
  <1>7. (\A j \in (n + 1)..(n + 1) : ~ NowGood(j)) <=> "ok" \notin statuses
    BY <1>1, <1>5
  <1> QED BY <1>1, <1>3, <1>4, <1>5, <1>6, <1>7 DEF n

LEMMA SinceOkFinite ==
  ASSUME judged \in Seq(SUBSET RequestStatuses), NEW kind
  PROVE  /\ IsFiniteSet(SinceOk(kind)) /\ Cardinality(SinceOk(kind)) \in Nat
         /\ Len(judged) + 1 \notin SinceOk(kind)
  <1>1. Len(judged) \in Nat /\ DOMAIN judged = 1..Len(judged)
    BY LenProperties
  <1>2. IsFiniteSet(1..Len(judged))
    BY <1>1, FS_Interval
  <1>3. SinceOk(kind) \subseteq 1..Len(judged)
    BY <1>1 DEF SinceOk
  <1>4. IsFiniteSet(SinceOk(kind))
    BY <1>2, <1>3, FS_Subset
  <1> QED BY <1>1, <1>3, <1>4, FS_CardinalityType

\* The number of failures of a kind since the last success, after one more file.
LEMMA SinceOkCounted ==
  ASSUME judged \in Seq(SUBSET RequestStatuses), NEW statuses \in SUBSET RequestStatuses,
         NEW kind \in {"network", "content"}, judged' = Append(judged, statuses)
  PROVE  Cardinality(SinceOk(kind)') =
           IF Verdict(statuses) = "ok" THEN 0
           ELSE Cardinality(SinceOk(kind)) + (IF Verdict(statuses) = kind THEN 1 ELSE 0)
  <1>1. /\ IsFiniteSet(SinceOk(kind)) /\ Cardinality(SinceOk(kind)) \in Nat
        /\ Len(judged) + 1 \notin SinceOk(kind)
    BY SinceOkFinite
  <1>2. CASE "ok" \in statuses
    BY <1>2, SinceOkAppended, VerdictMeans, FS_EmptySet
  <1>3. CASE "ok" \notin statuses /\ FailedBy(kind, statuses)
    <2>1. Cardinality(SinceOk(kind) \cup {Len(judged) + 1}) = Cardinality(SinceOk(kind)) + 1
      BY <1>1, FS_AddElement
    <2> QED BY <1>3, <2>1, SinceOkAppended, VerdictMeans
  <1>4. CASE "ok" \notin statuses /\ ~ FailedBy(kind, statuses)
    BY <1>1, <1>4, SinceOkAppended, VerdictMeans
  <1> QED BY <1>2, <1>3, <1>4

\* The counters the run goes on with are those, and none has reached the limit.
LEMMA CountCounts ==
  ASSUME IInv, CountersOK, pc # "idle", NEW statuses \in SUBSET RequestStatuses,
         NEW verdict \in Verdicts, verdict = Verdict(statuses),
         judged' = Append(judged, statuses), failures' = Count(verdict),
         ~ Tripped(verdict, Count(verdict)), pc' # "idle"
  PROVE  CountersOK'
  <1> DEFINE network == Cardinality(SinceOk("network"))
             content == Cardinality(SinceOk("content"))
  <1>1. /\ failures.network = network /\ failures.network < MaxFailures
        /\ failures.content = content /\ failures.content < MaxFailures
    BY DEF CountersOK, BreakersCountSinceSuccess
  <1>2. network \in Nat /\ content \in Nat /\ MaxFailures \in Nat /\ 0 < MaxFailures
    BY SinceOkFinite, SizesAssumption DEF IInv, TypeOK
  <1>3. /\ Cardinality(SinceOk("network")') =
              IF verdict = "ok" THEN 0 ELSE network + (IF verdict = "network" THEN 1 ELSE 0)
        /\ Cardinality(SinceOk("content")') =
              IF verdict = "ok" THEN 0 ELSE content + (IF verdict = "content" THEN 1 ELSE 0)
    BY SinceOkCounted DEF IInv, TypeOK
  <1> HIDE DEF network, content
  <1>4. /\ failures'.network = Cardinality(SinceOk("network")')
        /\ failures'.content = Cardinality(SinceOk("content")')
    BY <1>1, <1>2, <1>3 DEF Count
  <1>5. failures'.network < MaxFailures /\ failures'.content < MaxFailures
    <2>1. CASE verdict = "ok"
      BY <1>2, <2>1 DEF Count
    <2>2. CASE verdict = "network"
      <3>1. failures' = [network |-> failures.network + 1, content |-> failures.content + 0]
        BY <2>2 DEF Count
      <3>2. ~ (failures'.network >= MaxFailures)
        BY <2>2 DEF Tripped
      <3> QED BY <1>1, <1>2, <3>1, <3>2
    <2>3. CASE verdict = "content"
      <3>1. failures' = [network |-> failures.network + 0, content |-> failures.content + 1]
        BY <2>3 DEF Count
      <3>2. ~ (failures'.content >= MaxFailures)
        BY <2>3 DEF Tripped
      <3> QED BY <1>1, <1>2, <3>1, <3>2
    <2>4. CASE verdict = "neutral"
      <3>1. failures' = [network |-> failures.network + 0, content |-> failures.content + 0]
        BY <2>4 DEF Count
      <3> QED BY <1>1, <1>2, <3>1
    <2> QED BY <2>1, <2>2, <2>3, <2>4 DEF Verdicts
  <1> QED BY <1>4, <1>5 DEF CountersOK, BreakersCountSinceSuccess

LEMMA EndKeepsCounters == ASSUME NEW how, EndRun(how) PROVE CountersOK'
  BY DEF EndRun, CountersOK, BreakersCountSinceSuccess

\* A step that judges nothing.
LEMMA StayKeepsCounters ==
  ASSUME CountersOK, pc # "idle", pc' # "idle", UNCHANGED <<failures, judged>>
  PROVE  CountersOK'
  <1>1. SinceOk("network")' = SinceOk("network") /\ SinceOk("content")' = SinceOk("content")
    BY DEF SinceOk
  <1> QED BY <1>1 DEF CountersOK, BreakersCountSinceSuccess

LEMMA WorkerKeepsCounters == ASSUME IInv, CountersOK, Worker PROVE CountersOK'
  <1>1. CASE Converting
    <2>1. \/ \E how \in Results : EndRun(how)
          \/ pc # "idle" /\ pc' # "idle" /\ UNCHANGED <<failures, judged>>
      BY <1>1 DEF Converting, LoopEnds, StatFails, StatSource, HashStopped, HashSource,
                  HandleFileStarted, StartRefused, ConversionCrashes, VerifySource, RestatFails,
                  HandleFrameSaved, HandleFileCompleted, SkipFile, NextFile, Goto, Commit,
                  historyVars, Results
    <2> QED BY <2>1, EndKeepsCounters, StayKeepsCounters
  <1>2. CASE JudgeFile /\ pc \in Busy
    <2>1. PICK statuses : statuses = ReplyStatuses(current)
      OBVIOUS
    <2>2. statuses \in SUBSET RequestStatuses
      BY <1>2, <2>1, CurrentStatuses
    <2>3. CASE \E how \in Results : EndRun(how)
      BY <2>3, EndKeepsCounters
    <2>4. CASE ~ \E how \in Results : EndRun(how)
      <3>1. PICK v : v = Verdict(statuses)
        OBVIOUS
      <3>2. /\ judged' = Append(judged, statuses) /\ failures' = Count(v)
            /\ ~ Tripped(v, Count(v)) /\ NextFile
        BY <1>2, <2>1, <2>4, <3>1 DEF JudgeFile, Results
      <3>3. v \in Verdicts
        BY <3>1, VerdictMeans
      <3> QED BY <1>2, <2>2, <3>1, <3>2, <3>3, CountCounts DEF NextFile, Busy
    <2> QED BY <2>3, <2>4
  <1>3. CASE Answering /\ ~ (JudgeFile /\ pc \in Busy)
    <2>1. \/ EndRun("failed")
          \/ pc # "idle" /\ pc' # "idle" /\ UNCHANGED <<failures, judged>>
      BY <1>3, SettledIsWhole
         DEF Answering, PlanRequests, NextRequest, FatalReply, RecordNotAttempted, DrainEnds,
             RequestCrashes, FinalizeFile, LeaveUnfinished, RecordInterruption, Reply, NextFile,
             Goto, Commit, historyVars, Busy
    <2> QED BY <2>1, EndKeepsCounters, StayKeepsCounters
  <1> QED BY <1>1, <1>2, <1>3 DEF Worker
-----------------------------------------------------------------------------
(* HInv is inductive *)

LEMMA HistoryBegins == ASSUME Init PROVE HInv
  <1>1. /\ DOMAIN registry = {} /\ source = {} /\ pc = "idle" /\ index = 1 /\ skips = {}
        /\ result = "none" /\ failures = [network |-> 0, content |-> 0]
        /\ completed = [f \in Files |-> {}]
    BY DEF Init
  <1>2. VersionsOK /\ CompletedOK /\ SkipsOK
    BY <1>1 DEF VersionsOK, CompletedOK, SkipsOK
  <1>3. SourceOK
    BY <1>1 DEF SourceOK, Underway, Busy, Sealed, Asking
  <1>4. CoverageOK /\ CountersOK
    BY <1>1 DEF CoverageOK, CountersOK, BreakersCountSinceSuccess
  <1> QED BY <1>2, <1>3, <1>4 DEF HInv

\* Whatever the worker does, it skips only what it may and forgets what it compared with
\* only when the run ends.
LEMMA WorkerKeepsRecords ==
  ASSUME IInv, HInv, Worker
  PROVE  CompletedOK' /\ SkipsOK'
  <1>0. RegistryStep /\ first_id' = first_id
    BY WorkerWrites
  <1>1. completed' = completed \/ completed' = [f \in Files |-> {}]
    <2>1. ASSUME Converting PROVE completed' = completed \/ completed' = [f \in Files |-> {}]
      BY <2>1 DEF Converting, LoopEnds, StatFails, StatSource, HashStopped, HashSource,
                  HandleFileStarted, StartRefused, ConversionCrashes, VerifySource, RestatFails,
                  HandleFrameSaved, HandleFileCompleted, SkipFile, NextFile, EndRun, Goto, Commit,
                  fileVars
    <2>2. ASSUME Answering PROVE completed' = completed \/ completed' = [f \in Files |-> {}]
      BY <2>2 DEF Answering, PlanRequests, NextRequest, FatalReply, RecordNotAttempted, DrainEnds,
                  RequestCrashes, FinalizeFile, LeaveUnfinished, RecordInterruption, Reply,
                  JudgeFile, NextFile, EndRun, Goto, Commit, fileVars
    <2> QED BY <2>1, <2>2 DEF Worker
  <1>2. CASE (StatSource \/ HashSource) /\ SkipFile
    BY <1>0, <1>1, <1>2, SkippingKeepsSkips, CompletedKeeps DEF HInv
  <1>3. CASE ~ ((StatSource \/ HashSource) /\ SkipFile)
    <2>1. ASSUME Converting PROVE skips' = skips
      BY <1>3, <2>1 DEF Converting, LoopEnds, StatFails, StatSource, HashStopped, HashSource,
                  HandleFileStarted, StartRefused, ConversionCrashes, VerifySource, RestatFails,
                  HandleFrameSaved, HandleFileCompleted, Goto, Commit, historyVars
    <2>2. ASSUME Answering PROVE skips' = skips
      BY <2>2 DEF Answering, PlanRequests, NextRequest, FatalReply, RecordNotAttempted, DrainEnds,
                  RequestCrashes, FinalizeFile, LeaveUnfinished, RecordInterruption, Reply,
                  Goto, Commit, historyVars
    <2>3. skips' = skips
      BY <2>1, <2>2 DEF Worker
    <2> QED BY <1>0, <1>1, <2>3, SkipsKeep, CompletedKeeps DEF HInv
  <1> QED BY <1>2, <1>3

LEMMA WorkerKeepsHistory == ASSUME IInv, IInv', HInv, Worker PROVE HInv'
  <1>1. RegistryStep /\ disk' = disk
    BY WorkerWrites
  <1>2. VersionsOK'
    BY <1>1, VersionsKeep DEF HInv, DiskStep
  <1>3. SourceOK'
    BY ConvertingKeepsSource, AnsweringKeepsSource DEF HInv, Worker
  <1>4. CompletedOK' /\ SkipsOK'
    BY WorkerKeepsRecords
  <1>5. CoverageOK'
    BY ConvertingKeepsCoverage, AnsweringKeepsCoverage DEF HInv, Worker
  <1>6. CountersOK'
    BY WorkerKeepsCounters DEF HInv
  <1> QED BY <1>2, <1>3, <1>4, <1>5, <1>6 DEF HInv

LEMMA StartKeepsHistory ==
  ASSUME IInv, IInv', HInv, NEW noRetry \in NoRetryChoices, StartRun(noRetry)
  PROVE  HInv'
  <1>1. /\ pc = "idle" /\ pc' = "loop" /\ source' = source /\ source = {} /\ index' = index
        /\ index = 1 /\ current_id' = HighestFileId /\ first_id' = HighestFileId
        /\ UNCHANGED <<disk, registry, failures>> /\ skips' = {} /\ judged' = << >>
        /\ result' = "none"
    BY DEF StartRun, HInv, SourceOK, CoverageOK
  <1>2. VersionsOK'
    BY <1>1, VersionsKeep DEF HInv, DiskStep, RegistryStep
  <1>3. HighestFileId \in Nat /\ \A id \in DOMAIN registry : id <= HighestFileId
    BY HighestIsHighest DEF IInv
  <1>4. SourceOK'
    BY <1>1, <1>3, LeavingKeepsSource
  <1>5. CompletedOK' /\ SkipsOK'
    BY <1>1, StartKeepsCompleted DEF SkipsOK
  <1>6. CoverageOK'
    <2>1. \A f \in Files : ~ (f < 1)
      BY SizesAssumption DEF Files
    <2>2. \A id \in DOMAIN registry : ~ (id > HighestFileId)
      BY <1>3 DEF IInv, TypeOK
    <2> QED BY <1>1, <2>1, <2>2 DEF CoverageOK
  <1>7. CountersOK'
    <2>1. SinceOk("network")' = {} /\ SinceOk("content")' = {}
      BY <1>1 DEF SinceOk
    <2>2. failures.network = 0 /\ failures.content = 0
      BY <1>1 DEF HInv, CountersOK
    <2>3. Cardinality({}) = 0 /\ 0 < MaxFailures
      BY FS_EmptySet, SizesAssumption
    <2>4. failures' = failures /\ pc' # "idle"
      BY <1>1
    <2>5. /\ failures'.network = Cardinality(SinceOk("network")') /\ failures'.network < MaxFailures
          /\ failures'.content = Cardinality(SinceOk("content")') /\ failures'.content < MaxFailures
      BY <2>1, <2>2, <2>3, <2>4
    <2> QED BY <2>4, <2>5 DEF CountersOK, BreakersCountSinceSuccess
  <1> QED BY <1>2, <1>4, <1>5, <1>6, <1>7 DEF HInv

\* A step that leaves the rows and the worker alone.
LEMMA AsideKeepsHistory ==
  ASSUME IInv, IInv', HInv, DiskStep,
         UNCHANGED <<registry, pc, index, current_id, completed, source, failures, result,
                     first_id, skips, judged>>
  PROVE  HInv'
  <1>1. RegistryStep
    BY DEF RegistryStep
  <1>2. VersionsOK'
    BY <1>1, VersionsKeep DEF HInv
  <1>3. SourceOK'
    BY RewriteKeepsSource DEF HInv
  <1>4. CompletedOK' /\ SkipsOK'
    BY <1>1, CompletedKeeps, SkipsKeep DEF HInv
  <1>5. CoverageOK'
    BY DEF HInv, CoverageOK, Covered, OnlyAttempt
  <1>6. CountersOK'
    BY DEF HInv, CountersOK, BreakersCountSinceSuccess, SinceOk
  <1> QED BY <1>2, <1>3, <1>4, <1>5, <1>6 DEF HInv

LEMMA EndKeepsHistory ==
  ASSUME IInv, IInv', HInv, NEW how, EndRun(how), how # "done",
         UNCHANGED <<disk, registry, historyVars>>
  PROVE  HInv'
  <1>1. RegistryStep /\ first_id' = first_id /\ skips' = skips
    BY DEF RegistryStep, EndRun, historyVars
  <1>2. VersionsOK'
    BY <1>1, VersionsKeep DEF HInv, DiskStep
  <1>3. SourceOK'
    BY LeavingKeepsSource DEF EndRun
  <1>4. CompletedOK' /\ SkipsOK'
    BY <1>1, CompletedKeeps, SkipsKeep DEF HInv, EndRun
  <1>5. CoverageOK' /\ CountersOK'
    BY EndKeepsCoverage, EndKeepsCounters
  <1> QED BY <1>2, <1>3, <1>4, <1>5 DEF HInv

LEMMA StepKeepsHistory == ASSUME IInv, IInv', HInv, [Next]_vars PROVE HInv'
  <1>1. CASE \E noRetry \in NoRetryChoices : StartRun(noRetry)
    BY <1>1, StartKeepsHistory
  <1>2. CASE Worker
    BY <1>2, WorkerKeepsHistory
  <1>3. CASE DatabaseFails \/ Kill
    <2>1. UNCHANGED <<disk, registry, historyVars>> /\ (EndRun("database_error") \/ EndRun("killed"))
      BY <1>3 DEF DatabaseFails, Kill
    <2> QED BY <2>1, EndKeepsHistory
  <1>4. CASE Stop
    BY <1>4, AsideKeepsHistory DEF Stop, fileVars, historyVars, DiskStep
  <1>5. ASSUME NEW f \in Files, NEW data \in Contents, RewriteSource(f, data)
        PROVE  HInv'
    <2>1. DiskStep
      <3>1. disk \in [Files -> SourceFile] /\ disk[f].mtime \in Nat
        BY SourceFiles DEF IInv, TypeOK
      <3>2. disk'[f].mtime = disk[f].mtime + 1 /\ \A g \in Files : g # f => disk'[g] = disk[g]
        BY <1>5, <3>1 DEF RewriteSource
      <3> QED BY <3>1, <3>2 DEF DiskStep
    <2> QED BY <1>5, <2>1, AsideKeepsHistory DEF RewriteSource, fileVars, runVars, historyVars
  <1>6. CASE UNCHANGED vars
    BY <1>6, AsideKeepsHistory DEF vars, fileVars, runVars, historyVars, DiskStep
  <1> QED BY <1>1, <1>2, <1>3, <1>4, <1>5, <1>6 DEF Next

\* What the rows say of the past holds in every state of every behaviour.
THEOREM HistoryInvariance == Spec => []HInv
  <1>1. Init => HInv
    BY HistoryBegins
  <1>2. IInv /\ IInv' /\ HInv /\ [Next]_vars => HInv'
    BY StepKeepsHistory
  <1> QED BY <1>1, <1>2, Invariance, PTL DEF Spec

-----------------------------------------------------------------------------
(* The properties *)

\* The pages of a complete attempt with a digest all come from the bytes that have that
\* digest, however the file was rewritten (_source_decision, _source_unchanged).
THEOREM OneVersion == Spec => []CompleteFromOneVersion
  <1>1. HInv => CompleteFromOneVersion
    BY DEF HInv, VersionsOK, RowVersion, Faithful, CompleteFromOneVersion
  <1> QED BY <1>1, HistoryInvariance, PTL

\* A file is skipped only for an earlier attempt with a result that is not retried, and a
\* complete one converted the very bytes the file held then (_source_decision).
THEOREM SkippedConverted == Spec => []SkippedWasConverted
  <1>1. HInv => SkippedWasConverted
    BY DEF HInv, SkipsOK, Settled, SkippedWasConverted
  <1> QED BY <1>1, HistoryInvariance, PTL

\* The breaker counters are the failures of each kind since the last success, and a run never
\* goes on with one at the limit (the circuit breakers of _process_all_files).
THEOREM BreakersCount == Spec => []BreakersCountSinceSuccess
  <1>1. HInv => BreakersCountSinceSuccess
    BY DEF HInv, CountersOK
  <1> QED BY <1>1, HistoryInvariance, PTL

\* A run that says done left no file behind, as long as the database can store every name
\* (the loop of _process_all_files; without the hypothesis the run lost_file refutes it).
THEOREM DoneCovers ==
  ASSUME Unstorable = {}
  PROVE  Spec => []DoneCoversEveryFile
  <1>1. HInv => DoneCoversEveryFile
    BY DEF HInv, CoverageOK, Covered, OnlyAttempt, DoneCoversEveryFile
  <1> QED BY <1>1, HistoryInvariance, PTL

\* A digest is compared with those of attempts that recorded the same size.  The size is
\* that of the digested bytes in every complete attempt, but an attempt whose source was
\* rewritten between stat and digest may hold another one.
DigestsComparable ==
  \/ UNION NoRetryChoices \subseteq {"ok", "skipped"}
  \/ \A c, d \in Contents : SizeOf[c] = SizeOf[d]

LEMMA OkIsComplete == ASSUME NEW a \in Attempt, overall_result(a) \in {"ok", "skipped"} PROVE a.complete
  BY DEF overall_result, Attempt

\* Bytes that an attempt with a result that is not retried has covered are never sent to the
\* provider again (_source_decision).
THEOREM SentOnce ==
  ASSUME DigestsComparable
  PROVE  Spec => []NothingSentTwice
  <1>1. ASSUME IInv, HInv, pc = "reply", NEW fp \in source, fp.sha # NoDigest,
               NEW old \in completed[index], old.sha \in current.bytes
        PROVE  FALSE
    <2>1. /\ Faithful(fp, current.bytes) /\ Describes(fp, index) /\ index \in Files
          /\ old.size = fp.size => old.sha # fp.sha
      BY <1>1 DEF HInv, SourceOK, Sealed, Asking, Underway, Busy
    <2>2. old.sha = fp.sha /\ fp.size = SizeOf[fp.sha] /\ old.size # fp.size
      BY <1>1, <2>1 DEF Faithful
    <2>3. PICK id \in DOMAIN registry : Settled(id, index) /\ old \in registry[id].source
      BY <1>1, <2>1 DEF HInv, CompletedOK
    <2>4. registry[id] \in Attempt /\ RowVersion(registry[id])
      BY <1>1 DEF HInv, VersionsOK, IInv, TypeOK
    <2>5. ~ registry[id].complete
      BY <1>1, <2>2, <2>3, <2>4 DEF RowVersion, Faithful
    <2>6. ~ (UNION NoRetryChoices \subseteq {"ok", "skipped"})
      BY <2>3, <2>4, <2>5, OkIsComplete DEF Settled
    <2>7. old.size \in Sizes /\ fp.size \in Sizes
      BY <2>1, <2>3, <2>4 DEF RowVersion, Describes
    <2> QED BY <2>2, <2>6, <2>7 DEF DigestsComparable, Sizes
  <1>2. IInv /\ HInv => NothingSentTwice
    BY <1>1 DEF NothingSentTwice
  <1> QED BY <1>2, Invariance, HistoryInvariance, PTL


=============================================================================
