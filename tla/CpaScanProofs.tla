---------------------------- MODULE CpaScanProofs ----------------------------
(***************************************************************************)
(* Proofs about CpaScan, for any set of accounts, any number of scan       *)
(* threads and any bounds.                                                  *)
(***************************************************************************)
EXTENDS CpaScan, FiniteSetTheorems, TLAPS

-----------------------------------------------------------------------------
\* Parts of a step that several actions share.

LEMMA CardType == ASSUME NEW S, S \subseteq Items PROVE Cardinality(S) \in Nat
  BY ItemsAssumption, FS_Subset, FS_CardinalityType

LEMMA NewScanType ==
  NoScan \in Scan /\ \A s \in 0 .. MaxScans : NewScan(s) \in Scan
<1>1. 0 \in 0 .. MaxScans
  BY BoundsAssumption
<1>2. NoScan \in Scan
  BY <1>1 DEF NoScan, Scan
<1>3. QED
  BY <1>2 DEF NewScan, Scan

LEMMA EmptyJournalType ==
  EmptyJournal \in [rows : SUBSET ((0 .. MaxScans) \X Items), torn : BOOLEAN]
  BY DEF EmptyJournal

LEMMA SpendType ==
  ASSUME budget \in Budget
  PROVE  /\ budget.save > 0 => [budget EXCEPT !.save = @ - 1] \in Budget
         /\ budget.journal > 0 => [budget EXCEPT !.journal = @ - 1] \in Budget
         /\ budget.stop > 0 => [budget EXCEPT !.stop = @ - 1] \in Budget
         /\ budget.crash > 0 => [budget EXCEPT !.crash = @ - 1] \in Budget
  BY DEF Budget

LEMMA SaveType ==
  ASSUME TypeOK, SaveOk \/ SaveFail
  PROVE  FilesOK' /\ budget' \in Budget
<1>1. budget' \in Budget
  BY SpendType DEF TypeOK, OthersOK, SaveOk, SaveFail
<1>2. FilesOK'
  BY DEF TypeOK, MemoryOK, FilesOK, SaveOk, SaveFail, Payload, files
<1>3. QED
  BY <1>1, <1>2

LEMMA ClearType ==
  ASSUME TypeOK, ClearJournal
  PROVE  FilesOK' /\ budget' \in Budget
<1>1. budget' \in Budget
  BY SpendType DEF TypeOK, OthersOK, ClearJournal
<1>2. FilesOK'
  BY EmptyJournalType DEF TypeOK, FilesOK, ClearJournal, files
<1>3. QED
  BY <1>1, <1>2

LEMMA AppendType ==
  ASSUME MemoryOK, AppendHistory
  PROVE  history' \in [ScanIds -> Report]
  BY DEF MemoryOK, AppendHistory, Tally, Report

LEMMA RecoveredType ==
  ASSUME FilesOK
  PROVE  Recovered(disk, journal) \subseteq Items
  BY DEF FilesOK, Recovered, Scan

\* A thread moves to a place where it has no row in hand.
LEMMA MoveHand ==
  ASSUME HandsOK, NEW t \in Threads, NEW l \in Labels \ Holding, Goto(t, l), cur' = cur
  PROVE  HandsOK'
  BY DEF HandsOK, Goto

-----------------------------------------------------------------------------
\* Every action keeps the types.

LEMMA StartType ==
  ASSUME TypeOK, NEW t \in Threads, Start(t)
  PROVE  TypeOK'
<1>1. MemoryOK'
  <2>1. nScans' \in 0 .. MaxScans /\ NewScan(nScans') \in Scan
    BY NewScanType, BoundsAssumption DEF Start, TypeOK, OthersOK
  <2>2. QED
    BY <2>1 DEF Start, TypeOK, MemoryOK, Tally
<1>2. FilesOK'
  BY DEF Start, TypeOK, FilesOK, files
<1>3. HandsOK'
  BY MoveHand DEF Start, TypeOK, HandsOK, Labels, Holding
<1>4. LocalsOK'
  BY DEF Start, TypeOK, LocalsOK
<1>5. OthersOK'
  BY BoundsAssumption DEF Start, TypeOK, OthersOK, Unwinding
<1>6. QED
  BY <1>1, <1>2, <1>3, <1>4, <1>5 DEF TypeOK

LEMMA StartClearType ==
  ASSUME TypeOK, NEW t \in Threads, StartClear(t)
  PROVE  TypeOK'
<1>1. MemoryOK'
  BY DEF StartClear, TypeOK, MemoryOK, memory
<1>2. FilesOK'
  BY ClearType DEF StartClear, TypeOK, FilesOK
<1>3. HandsOK'
  BY MoveHand DEF StartClear, TypeOK, HandsOK, Labels, Holding
<1>4. LocalsOK'
  BY DEF StartClear, TypeOK, LocalsOK
<1>5. OthersOK'
  BY ClearType DEF StartClear, TypeOK, OthersOK, ghosts
<1>6. QED
  BY <1>1, <1>2, <1>3, <1>4, <1>5 DEF TypeOK

LEMMA StartSaveType ==
  ASSUME TypeOK, NEW t \in Threads, StartSave(t)
  PROVE  TypeOK'
<1>1. MemoryOK'
  BY NewScanType DEF StartSave, TypeOK, MemoryOK, memory
<1>2. FilesOK'
  BY SaveType DEF StartSave, TypeOK, FilesOK
<1>3. HandsOK'
  BY MoveHand DEF StartSave, TypeOK, HandsOK, Labels, Holding
<1>4. LocalsOK'
  BY DEF StartSave, TypeOK, LocalsOK
<1>5. OthersOK'
  BY SaveType DEF StartSave, TypeOK, OthersOK, ghosts
<1>6. QED
  BY <1>1, <1>2, <1>3, <1>4, <1>5 DEF TypeOK

LEMMA RecoverType ==
  ASSUME TypeOK, NEW t \in Threads, Recover(t)
  PROVE  TypeOK'
<1>1. MemoryOK'
  BY DEF Recover, Resumable, TypeOK, MemoryOK, Scan
<1>2. FilesOK'
  BY DEF Recover, Resumable, TypeOK, FilesOK, files
<1>3. HandsOK'
  BY MoveHand DEF Recover, Resumable, TypeOK, HandsOK, Labels, Holding
<1>4. LocalsOK'
  BY DEF Recover, Resumable, TypeOK, LocalsOK
<1>5. OthersOK'
  BY DEF Recover, Resumable, TypeOK, OthersOK, Unwinding
<1>6. QED
  BY <1>1, <1>2, <1>3, <1>4, <1>5 DEF TypeOK

LEMMA ResumeSaveType ==
  ASSUME TypeOK, NEW t \in Threads, ResumeSave(t)
  PROVE  TypeOK'
<1>1. MemoryOK'
  BY DEF ResumeSave, TypeOK, MemoryOK, memory
<1>2. FilesOK'
  BY SaveType DEF ResumeSave, TypeOK, FilesOK, Save
<1>3. HandsOK'
  BY MoveHand DEF ResumeSave, TypeOK, HandsOK, Labels, Holding
<1>4. LocalsOK'
  BY DEF ResumeSave, TypeOK, LocalsOK
<1>5. OthersOK'
  BY SaveType DEF ResumeSave, TypeOK, OthersOK, ghosts, Save
<1>6. QED
  BY <1>1, <1>2, <1>3, <1>4, <1>5 DEF TypeOK

LEMMA ScanInitType ==
  ASSUME TypeOK, NEW t \in Threads, ScanInit(t)
  PROVE  TypeOK'
<1>1. MemoryOK'
  BY DEF ScanInit, TypeOK, MemoryOK, memory
<1>2. FilesOK'
  BY DEF ScanInit, TypeOK, FilesOK, files
<1>3. HandsOK'
  BY MoveHand DEF ScanInit, TypeOK, HandsOK, Labels, Holding
<1>4. LocalsOK'
  BY DEF ScanInit, TypeOK, LocalsOK, MemoryOK, Scan
<1>5. OthersOK'
  BY DEF ScanInit, TypeOK, OthersOK, ghosts
<1>6. QED
  BY <1>1, <1>2, <1>3, <1>4, <1>5 DEF TypeOK

LEMMA ScanSnapshotType ==
  ASSUME TypeOK, NEW t \in Threads, ScanSnapshot(t)
  PROVE  TypeOK'
<1>1. MemoryOK'
  <2>1. PICK S \in Selections :
          active' = IF active.id = job[t]
                    THEN [active EXCEPT !.ready = TRUE, !.items = S] ELSE active
    BY DEF ScanSnapshot
  <2>2. S \in SUBSET Items
    BY <2>1, SelectionsAssumption
  <2>3. active' \in Scan
    BY <2>1, <2>2 DEF TypeOK, MemoryOK, Scan
  <2>4. QED
    BY <2>3 DEF ScanSnapshot, TypeOK, MemoryOK
<1>2. FilesOK'
  BY DEF ScanSnapshot, TypeOK, FilesOK, files
<1>3. HandsOK'
  BY MoveHand DEF ScanSnapshot, TypeOK, HandsOK, Labels, Holding
<1>4. LocalsOK'
  BY SelectionsAssumption DEF ScanSnapshot, TypeOK, LocalsOK
<1>5. OthersOK'
  BY DEF ScanSnapshot, TypeOK, OthersOK, ghosts
<1>6. QED
  BY <1>1, <1>2, <1>3, <1>4, <1>5 DEF TypeOK

LEMMA ScanSnapshotSaveType ==
  ASSUME TypeOK, NEW t \in Threads, ScanSnapshotSave(t)
  PROVE  TypeOK'
<1>1. MemoryOK'
  BY DEF ScanSnapshotSave, TypeOK, MemoryOK
<1>2. FilesOK'
  BY SaveType DEF ScanSnapshotSave, TypeOK, FilesOK
<1>3. HandsOK'
  BY MoveHand DEF ScanSnapshotSave, TypeOK, HandsOK, Labels, Holding
<1>4. LocalsOK'
  BY DEF ScanSnapshotSave, TypeOK, LocalsOK
<1>5. OthersOK'
  BY SaveType DEF ScanSnapshotSave, TypeOK, OthersOK, ghosts
<1>6. QED
  BY <1>1, <1>2, <1>3, <1>4, <1>5 DEF TypeOK

LEMMA ScanPlanType ==
  ASSUME TypeOK, NEW t \in Threads, ScanPlan(t)
  PROVE  TypeOK'
<1>1. MemoryOK'
  BY CardType DEF ScanPlan, Planned, TypeOK, MemoryOK, Scan, Tally, LocalsOK
<1>2. FilesOK'
  BY DEF ScanPlan, TypeOK, FilesOK, files
<1>3. HandsOK'
  BY MoveHand DEF ScanPlan, TypeOK, HandsOK, Labels, Holding
<1>4. LocalsOK'
  BY DEF ScanPlan, Planned, TypeOK, LocalsOK, MemoryOK, Scan
<1>5. OthersOK'
  BY DEF ScanPlan, TypeOK, OthersOK, ghosts
<1>6. QED
  BY <1>1, <1>2, <1>3, <1>4, <1>5 DEF TypeOK

LEMMA ScanPlanSaveType ==
  ASSUME TypeOK, NEW t \in Threads, ScanPlanSave(t)
  PROVE  TypeOK'
<1>1. MemoryOK'
  BY DEF ScanPlanSave, Pending, TypeOK, MemoryOK
<1>2. FilesOK'
  BY SaveType DEF ScanPlanSave, Pending, TypeOK, FilesOK
<1>3. HandsOK'
  BY MoveHand DEF ScanPlanSave, Pending, TypeOK, HandsOK, Labels, Holding
<1>4. LocalsOK'
  BY DEF ScanPlanSave, Pending, TypeOK, LocalsOK
<1>5. OthersOK'
  BY SaveType DEF ScanPlanSave, Pending, TypeOK, OthersOK, ghosts
<1>6. QED
  BY <1>1, <1>2, <1>3, <1>4, <1>5 DEF TypeOK

LEMMA ProbeType ==
  ASSUME TypeOK, NEW t \in Threads, NEW i \in Items, Probe(t, i)
  PROVE  TypeOK'
<1>1. MemoryOK'
  BY DEF Probe, TypeOK, MemoryOK, memory
<1>2. FilesOK'
  BY DEF Probe, TypeOK, FilesOK, files
<1>3. HandsOK'
  BY DEF Probe, TypeOK, HandsOK
<1>4. LocalsOK'
  BY DEF Probe, TypeOK, LocalsOK
<1>5. OthersOK'
  BY DEF Probe, TypeOK, OthersOK, ghosts
<1>6. QED
  BY <1>1, <1>2, <1>3, <1>4, <1>5 DEF TypeOK

LEMMA MergeType ==
  ASSUME TypeOK, NEW t \in Threads, NEW i \in Items, Merge(t, i)
  PROVE  TypeOK'
<1>1. MemoryOK'
  BY DEF Merge, MayMerge, TypeOK, MemoryOK, memory
<1>2. FilesOK'
  BY DEF Merge, MayMerge, TypeOK, FilesOK, files
<1>3. HandsOK'
  BY MoveHand DEF Merge, MayMerge, TypeOK, HandsOK, Labels, Holding, Goto
<1>4. LocalsOK'
  BY DEF Merge, MayMerge, TypeOK, LocalsOK
<1>5. OthersOK'
  BY DEF Merge, MayMerge, TypeOK, OthersOK, ghosts
<1>6. QED
  BY <1>1, <1>2, <1>3, <1>4, <1>5 DEF TypeOK

LEMMA BreakLoopType ==
  ASSUME TypeOK, NEW t \in Threads, BreakLoop(t)
  PROVE  TypeOK'
<1>1. MemoryOK'
  BY DEF BreakLoop, TypeOK, MemoryOK, memory
<1>2. FilesOK'
  BY DEF BreakLoop, TypeOK, FilesOK, files
<1>3. HandsOK'
  BY MoveHand DEF BreakLoop, TypeOK, HandsOK, Labels, Holding
<1>4. LocalsOK'
  BY DEF BreakLoop, TypeOK, LocalsOK
<1>5. OthersOK'
  BY DEF BreakLoop, TypeOK, OthersOK, ghosts
<1>6. QED
  BY <1>1, <1>2, <1>3, <1>4, <1>5 DEF TypeOK

LEMMA EndLoopType ==
  ASSUME TypeOK, NEW t \in Threads, EndLoop(t)
  PROVE  TypeOK'
<1>1. MemoryOK'
  BY DEF EndLoop, TypeOK, MemoryOK, memory
<1>2. FilesOK'
  BY DEF EndLoop, TypeOK, FilesOK, files
<1>3. HandsOK'
  BY MoveHand DEF EndLoop, TypeOK, HandsOK, Labels, Holding
<1>4. LocalsOK'
  BY DEF EndLoop, TypeOK, LocalsOK
<1>5. OthersOK'
  BY DEF EndLoop, TypeOK, OthersOK, ghosts
<1>6. QED
  BY <1>1, <1>2, <1>3, <1>4, <1>5 DEF TypeOK

LEMMA JournalType ==
  ASSUME TypeOK, NEW t \in Threads, Journal(t)
  PROVE  TypeOK'
<1>1. MemoryOK'
  BY DEF Journal, TypeOK, MemoryOK, memory
<1>2. FilesOK'
  <2> DEFINE R == (0 .. MaxScans) \X Items
             r == <<job[t], cur[t]>>
  <2>1. r \in R
    BY DEF Journal, TypeOK, HandsOK, LocalsOK, Holding
  <2>2. journal' \in [rows : SUBSET R, torn : BOOLEAN]
    <3>1. \/ journal' = [journal EXCEPT !.torn = FALSE]
          \/ journal' = [journal EXCEPT !.rows = @ \cup {r}]
          \/ journal' = journal
      BY DEF Journal, files
    <3>2. journal \in [rows : SUBSET R, torn : BOOLEAN]
      BY DEF TypeOK, FilesOK
    <3> HIDE DEF r, R
    <3>3. QED
      BY <2>1, <3>1, <3>2
  <2>3. disk' = disk
    BY DEF Journal, files
  <2>4. QED
    BY <2>2, <2>3 DEF TypeOK, FilesOK
<1>3. HandsOK'
  BY DEF Journal, Goto, TypeOK, HandsOK, Labels, Holding
<1>4. LocalsOK'
  BY DEF Journal, TypeOK, LocalsOK
<1>5. OthersOK'
  BY DEF Journal, TypeOK, OthersOK, Budget, HandsOK, LocalsOK, Holding
<1>6. QED
  BY <1>1, <1>2, <1>3, <1>4, <1>5 DEF TypeOK

LEMMA RecordType ==
  ASSUME TypeOK, NEW t \in Threads, Record(t)
  PROVE  TypeOK'
<1>1. MemoryOK'
  BY CardType DEF Record, TypeOK, MemoryOK, Scan, Tally, LocalsOK, HandsOK, Holding
<1>2. FilesOK'
  BY DEF Record, TypeOK, FilesOK, files
<1>3. HandsOK'
  BY MoveHand DEF Record, TypeOK, HandsOK, Labels, Holding, Goto
<1>4. LocalsOK'
  BY DEF Record, TypeOK, LocalsOK, HandsOK, Holding
<1>5. OthersOK'
  BY DEF Record, TypeOK, OthersOK, ghosts
<1>6. QED
  BY <1>1, <1>2, <1>3, <1>4, <1>5 DEF TypeOK

LEMMA FallbackType ==
  ASSUME TypeOK, NEW t \in Threads, Fallback(t)
  PROVE  TypeOK'
<1>1. MemoryOK'
  BY DEF Fallback, TypeOK, MemoryOK, memory
<1>2. FilesOK'
  BY SaveType DEF Fallback, TypeOK, FilesOK
<1>3. HandsOK'
  BY MoveHand DEF Fallback, TypeOK, HandsOK, Labels, Holding
<1>4. LocalsOK'
  BY DEF Fallback, TypeOK, LocalsOK
<1>5. OthersOK'
  BY SaveType DEF Fallback, TypeOK, OthersOK, MemoryOK, Scan
<1>6. QED
  BY <1>1, <1>2, <1>3, <1>4, <1>5 DEF TypeOK

LEMMA TailType ==
  ASSUME TypeOK, NEW t \in Threads, Tail(t)
  PROVE  TypeOK'
<1>1. MemoryOK'
  BY DEF Tail, TypeOK, MemoryOK, memory
<1>2. FilesOK'
  BY SaveType DEF Tail, TypeOK, FilesOK, files, Save
<1>3. HandsOK'
  BY MoveHand DEF Tail, TypeOK, HandsOK, Labels, Holding
<1>4. LocalsOK'
  BY DEF Tail, TypeOK, LocalsOK
<1>5. OthersOK'
  BY SaveType DEF Tail, TypeOK, OthersOK, ghosts, Save
<1>6. QED
  BY <1>1, <1>2, <1>3, <1>4, <1>5 DEF TypeOK

LEMMA SummaryCutType ==
  ASSUME TypeOK, NEW t \in Threads, SummaryCut(t)
  PROVE  TypeOK'
<1>1. MemoryOK'
  BY DEF SummaryCut, TypeOK, MemoryOK
<1>2. FilesOK'
  BY DEF SummaryCut, TypeOK, FilesOK, files
<1>3. HandsOK'
  BY MoveHand DEF SummaryCut, TypeOK, HandsOK, Labels, Holding
<1>4. LocalsOK'
  BY DEF SummaryCut, TypeOK, LocalsOK
<1>5. OthersOK'
  BY DEF SummaryCut, TypeOK, OthersOK, ghosts
<1>6. QED
  BY <1>1, <1>2, <1>3, <1>4, <1>5 DEF TypeOK

LEMMA ScanHistoryType ==
  ASSUME TypeOK, NEW t \in Threads, ScanHistory(t)
  PROVE  TypeOK'
<1>1. MemoryOK'
  BY AppendType DEF ScanHistory, TypeOK, MemoryOK
<1>2. FilesOK'
  BY DEF ScanHistory, TypeOK, FilesOK, files
<1>3. HandsOK'
  BY MoveHand DEF ScanHistory, TypeOK, HandsOK, Labels, Holding
<1>4. LocalsOK'
  BY DEF ScanHistory, TypeOK, LocalsOK
<1>5. OthersOK'
  BY DEF ScanHistory, TypeOK, OthersOK, ghosts
<1>6. QED
  BY <1>1, <1>2, <1>3, <1>4, <1>5 DEF TypeOK

LEMMA ReleaseType ==
  ASSUME TypeOK, NEW t \in Threads, Release(t)
  PROVE  TypeOK'
<1>1. MemoryOK'
  BY NewScanType DEF Release, Closed, TypeOK, MemoryOK
<1>2. FilesOK'
  BY DEF Release, Closed, TypeOK, FilesOK, files
<1>3. HandsOK'
  BY MoveHand DEF Release, Closed, TypeOK, HandsOK, Labels, Holding
<1>4. LocalsOK'
  BY DEF Release, Closed, TypeOK, LocalsOK
<1>5. OthersOK'
  BY DEF Release, Closed, TypeOK, OthersOK, ghosts
<1>6. QED
  BY <1>1, <1>2, <1>3, <1>4, <1>5 DEF TypeOK

LEMMA FinalSaveType ==
  ASSUME TypeOK, NEW t \in Threads, FinalSave(t)
  PROVE  TypeOK'
<1>1. MemoryOK'
  BY DEF FinalSave, TypeOK, MemoryOK, memory
<1>2. FilesOK'
  BY SaveType DEF FinalSave, TypeOK, FilesOK
<1>3. HandsOK'
  BY MoveHand DEF FinalSave, TypeOK, HandsOK, Exit, Labels, Holding
<1>4. LocalsOK'
  BY BoundsAssumption DEF FinalSave, TypeOK, LocalsOK, Exit
<1>5. OthersOK'
  BY SaveType DEF FinalSave, TypeOK, OthersOK, ghosts
<1>6. QED
  BY <1>1, <1>2, <1>3, <1>4, <1>5 DEF TypeOK

LEMMA FinalClearType ==
  ASSUME TypeOK, NEW t \in Threads, FinalClear(t)
  PROVE  TypeOK'
<1>1. MemoryOK'
  BY DEF FinalClear, TypeOK, MemoryOK, memory
<1>2. FilesOK'
  BY ClearType DEF FinalClear, TypeOK, FilesOK
<1>3. HandsOK'
  BY MoveHand DEF FinalClear, TypeOK, HandsOK, Exit, Labels, Holding
<1>4. LocalsOK'
  BY BoundsAssumption DEF FinalClear, TypeOK, LocalsOK, Exit
<1>5. OthersOK'
  BY ClearType DEF FinalClear, TypeOK, OthersOK, ghosts
<1>6. QED
  BY <1>1, <1>2, <1>3, <1>4, <1>5 DEF TypeOK

LEMMA StopType ==
  ASSUME TypeOK, Stop
  PROVE  TypeOK'
<1>1. MemoryOK'
  BY DEF Stop, TypeOK, MemoryOK, Scan
<1>2. FilesOK'
  BY DEF Stop, TypeOK, FilesOK, files
<1>3. HandsOK'
  BY DEF Stop, TypeOK, HandsOK, threads
<1>4. LocalsOK'
  BY DEF Stop, TypeOK, LocalsOK, threads
<1>5. OthersOK'
  BY DEF Stop, TypeOK, OthersOK, ghosts, Budget, MemoryOK
<1>6. QED
  BY <1>1, <1>2, <1>3, <1>4, <1>5 DEF TypeOK

LEMMA StopSaveType ==
  ASSUME TypeOK, StopSave
  PROVE  TypeOK'
<1>1. MemoryOK'
  BY DEF StopSave, TypeOK, MemoryOK, memory
<1>2. FilesOK'
  BY SaveType DEF StopSave, TypeOK, FilesOK
<1>3. HandsOK'
  BY DEF StopSave, TypeOK, HandsOK, threads
<1>4. LocalsOK'
  BY DEF StopSave, TypeOK, LocalsOK, threads
<1>5. OthersOK'
  <2>1. stopper' \in 0 .. MaxScans /\ stopAcked' \subseteq ScanIds
    <3>1. 0 \in 0 .. MaxScans
      BY BoundsAssumption
    <3>2. stopper \in ScanIds
      BY BoundsAssumption DEF StopSave, TypeOK, OthersOK, ScanIds
    <3>3. stopAcked' = stopAcked \cup {stopper} \/ stopAcked' = stopAcked
      BY DEF StopSave
    <3>4. QED
      BY <3>1, <3>2, <3>3 DEF StopSave, TypeOK, OthersOK
  <2>2. QED
    BY <2>1, SaveType DEF StopSave, TypeOK, OthersOK
<1>6. QED
  BY <1>1, <1>2, <1>3, <1>4, <1>5 DEF TypeOK

LEMMA FinalizeType ==
  ASSUME TypeOK, Finalize
  PROVE  TypeOK'
<1>1. MemoryOK'
  BY NewScanType DEF Finalize, Cancelled, TypeOK, MemoryOK, Scan
<1>2. FilesOK'
  BY DEF Finalize, Cancelled, TypeOK, FilesOK, files
<1>3. HandsOK'
  BY DEF Finalize, Cancelled, TypeOK, HandsOK, threads
<1>4. LocalsOK'
  BY DEF Finalize, Cancelled, TypeOK, LocalsOK, threads
<1>5. OthersOK'
  BY DEF Finalize, Cancelled, TypeOK, OthersOK, ghosts
<1>6. QED
  BY <1>1, <1>2, <1>3, <1>4, <1>5 DEF TypeOK

LEMMA FinalizeHistoryType ==
  ASSUME TypeOK, FinalizeHistory
  PROVE  TypeOK'
<1>1. MemoryOK'
  BY AppendType DEF FinalizeHistory, TypeOK, MemoryOK
<1>2. FilesOK'
  BY DEF FinalizeHistory, TypeOK, FilesOK, files
<1>3. HandsOK'
  BY DEF FinalizeHistory, TypeOK, HandsOK, threads
<1>4. LocalsOK'
  BY DEF FinalizeHistory, TypeOK, LocalsOK, threads
<1>5. OthersOK'
  BY DEF FinalizeHistory, TypeOK, OthersOK, ghosts
<1>6. QED
  BY <1>1, <1>2, <1>3, <1>4, <1>5 DEF TypeOK

LEMMA FinalizeSaveType ==
  ASSUME TypeOK, FinalizeSave
  PROVE  TypeOK'
<1>1. MemoryOK'
  BY DEF FinalizeSave, TypeOK, MemoryOK, memory
<1>2. FilesOK'
  BY SaveType DEF FinalizeSave, TypeOK, FilesOK
<1>3. HandsOK'
  BY DEF FinalizeSave, TypeOK, HandsOK, threads
<1>4. LocalsOK'
  BY DEF FinalizeSave, TypeOK, LocalsOK, threads
<1>5. OthersOK'
  BY SaveType DEF FinalizeSave, TypeOK, OthersOK, ghosts
<1>6. QED
  BY <1>1, <1>2, <1>3, <1>4, <1>5 DEF TypeOK

LEMMA FinalizeClearType ==
  ASSUME TypeOK, FinalizeClear
  PROVE  TypeOK'
<1>1. MemoryOK'
  BY DEF FinalizeClear, TypeOK, MemoryOK, memory
<1>2. FilesOK'
  BY ClearType DEF FinalizeClear, TypeOK, FilesOK
<1>3. HandsOK'
  BY DEF FinalizeClear, TypeOK, HandsOK, threads
<1>4. LocalsOK'
  BY DEF FinalizeClear, TypeOK, LocalsOK, threads
<1>5. OthersOK'
  BY ClearType DEF FinalizeClear, TypeOK, OthersOK, ghosts
<1>6. QED
  BY <1>1, <1>2, <1>3, <1>4, <1>5 DEF TypeOK

LEMMA ServeType ==
  ASSUME TypeOK, Serve
  PROVE  TypeOK'
<1>1. MemoryOK'
  BY DEF Serve, TypeOK, MemoryOK, memory
<1>2. FilesOK'
  BY DEF Serve, TypeOK, FilesOK, files
<1>3. HandsOK'
  BY DEF Serve, TypeOK, HandsOK, threads
<1>4. LocalsOK'
  BY DEF Serve, TypeOK, LocalsOK, threads
<1>5. OthersOK'
  BY DEF Serve, TypeOK, OthersOK, ghosts, Unwinding
<1>6. QED
  BY <1>1, <1>2, <1>3, <1>4, <1>5 DEF TypeOK

LEMMA SchedulerSaveType ==
  ASSUME TypeOK, SchedulerSave
  PROVE  TypeOK'
<1>1. MemoryOK'
  BY DEF SchedulerSave, TypeOK, MemoryOK, memory
<1>2. FilesOK'
  BY SaveType DEF SchedulerSave
<1>3. HandsOK'
  BY DEF SchedulerSave, TypeOK, HandsOK, threads
<1>4. LocalsOK'
  BY DEF SchedulerSave, TypeOK, LocalsOK, threads
<1>5. OthersOK'
  BY SaveType DEF SchedulerSave, TypeOK, OthersOK, ghosts
<1>6. QED
  BY <1>1, <1>2, <1>3, <1>4, <1>5 DEF TypeOK

LEMMA CrashType ==
  ASSUME TypeOK, Crash
  PROVE  TypeOK'
<1>1. MemoryOK'
  BY CardType, RecoveredType
     DEF Crash, TypeOK, MemoryOK, Scan, Tally, LocalsOK, FilesOK
<1>2. FilesOK'
  BY DEF Crash, TypeOK, FilesOK
<1>3. HandsOK'
  BY DEF Crash, TypeOK, HandsOK, Labels, Holding
<1>4. LocalsOK'
  BY BoundsAssumption DEF Crash, TypeOK, LocalsOK
<1>5. OthersOK'
  <2>1. budget' \in Budget /\ stopper' \in 0 .. MaxScans
    BY SpendType, BoundsAssumption DEF Crash, TypeOK, OthersOK
  <2>2. QED
    BY <2>1 DEF Crash, TypeOK, OthersOK, ghosts
<1>6. QED
  BY <1>1, <1>2, <1>3, <1>4, <1>5 DEF TypeOK

LEMMA InitType == Init => TypeOK
<1> SUFFICES ASSUME Init PROVE TypeOK
  OBVIOUS
<1>1. 0 \in 0 .. MaxScans
  BY BoundsAssumption
<1>2. MemoryOK
  BY <1>1, NewScanType DEF Init, MemoryOK, Tally, Report, NoRecord
<1>3. FilesOK
  BY <1>2, EmptyJournalType DEF Init, FilesOK, MemoryOK, Payload
<1>4. HandsOK
  BY DEF Init, HandsOK, Labels, Holding
<1>5. LocalsOK
  BY <1>1 DEF Init, LocalsOK
<1>6. OthersOK
  BY <1>1, BoundsAssumption DEF Init, OthersOK, Budget
<1>7. QED
  BY <1>2, <1>3, <1>4, <1>5, <1>6 DEF TypeOK

LEMMA ScanThreadType ==
  ASSUME TypeOK, NEW t \in Threads, ScanThread(t)
  PROVE  TypeOK'
<1>1. CASE StartClear(t) \/ StartSave(t) \/ ResumeSave(t)
  BY <1>1, StartClearType, StartSaveType, ResumeSaveType
<1>2. CASE ScanInit(t) \/ ScanSnapshot(t) \/ ScanSnapshotSave(t)
  BY <1>2, ScanInitType, ScanSnapshotType, ScanSnapshotSaveType
<1>3. CASE ScanPlan(t) \/ ScanPlanSave(t)
  BY <1>3, ScanPlanType, ScanPlanSaveType
<1>4. CASE \E i \in Items : Probe(t, i) \/ Merge(t, i)
  BY <1>4, ProbeType, MergeType
<1>5. CASE BreakLoop(t) \/ EndLoop(t) \/ Journal(t) \/ Record(t) \/ Fallback(t)
  BY <1>5, BreakLoopType, EndLoopType, JournalType, RecordType, FallbackType
<1>6. CASE Tail(t) \/ SummaryCut(t) \/ ScanHistory(t) \/ Release(t)
  BY <1>6, TailType, SummaryCutType, ScanHistoryType, ReleaseType
<1>7. CASE FinalSave(t) \/ FinalClear(t)
  BY <1>7, FinalSaveType, FinalClearType
<1>8. QED
  BY <1>1, <1>2, <1>3, <1>4, <1>5, <1>6, <1>7 DEF ScanThread

LEMMA NextType == TypeOK /\ [Next]_vars => TypeOK'
<1> SUFFICES ASSUME TypeOK, [Next]_vars PROVE TypeOK'
  OBVIOUS
<1>1. CASE \E t \in Threads : Start(t) \/ Recover(t) \/ ScanThread(t)
  BY <1>1, StartType, RecoverType, ScanThreadType
<1>2. CASE Stop \/ StopSave \/ Serve \/ SchedulerSave \/ Crash
  BY <1>2, StopType, StopSaveType, ServeType, SchedulerSaveType, CrashType
<1>3. CASE Finalizer
  BY <1>3, FinalizeType, FinalizeHistoryType, FinalizeSaveType, FinalizeClearType
     DEF Finalizer
<1>4. CASE UNCHANGED vars
  <2>1. MemoryOK' /\ FilesOK'
    BY <1>4 DEF vars, memory, files, TypeOK, MemoryOK, FilesOK
  <2>2. HandsOK' /\ LocalsOK'
    BY <1>4 DEF vars, threads, TypeOK, HandsOK, LocalsOK
  <2>3. OthersOK'
    BY <1>4 DEF vars, ghosts, TypeOK, OthersOK
  <2>4. QED
    BY <2>1, <2>2, <2>3 DEF TypeOK
<1>5. QED
  BY <1>1, <1>2, <1>3, <1>4 DEF Next

\* The types of the monitor's memory, of its two files and of the scan threads'
\* locals hold throughout, for any accounts, threads, snapshots and bounds, and with
\* every kind of failure: crashes, failed saves and failed appends.
THEOREM TypeCorrect == Spec => []TypeOK
  BY InitType, NextType, PTL DEF Spec

-----------------------------------------------------------------------------
(***************************************************************************)
(* The inductive invariant behind HistoryHonest and CancelledRowsNotMerged. *)
(* As long as no two scans have overlapped, one scan thread at most is at   *)
(* work, and a cancellation it has seen is never taken back under its feet. *)
(***************************************************************************)

InHand(t) == IF pc[t] \in Holding THEN {cur[t]} ELSE {}

\* What one scan thread may rely on.
Orderly(t) ==
  /\ pc[t] \notin Looping => queue[t] = {} /\ rows[t] = {} /\ skipped[t] = {}
  /\ skipped[t] # {} => cancel
  \* The accounts of the snapshot are all accounted for, unless it is cancelled.
  /\ pc[t] \in Looping =>
       /\ queue[t] \cup rows[t] \cup skipped[t] \cup InHand(t) \subseteq items[t]
       /\ \/ cancel
          \/ items[t] \subseteq
               done[t] \cup queue[t] \cup rows[t] \cup skipped[t] \cup InHand(t)
  /\ pc[t] \in Looping \cup {"planSave"} =>
       /\ done[t] \subseteq items[t]
       /\ summary = [done |-> Cardinality(done[t]), total |-> Cardinality(items[t])]
  /\ pc[t] = "tail" => cancel \/ summary.done = summary.total
  /\ pc[t] = "summaryCut" => cancel
  /\ pc[t] = "history" => cancel \/ lastError \/ summary.done = summary.total

Serialized ==
  /\ \A t, u \in Threads : Live(t) /\ Live(u) => t = u
  /\ fin = "history" => cancel
  /\ \A t \in Threads : Orderly(t)
  /\ Honest(history) /\ Honest(disk.history)

ScanInv == TypeOK /\ (overlapped \/ Serialized)

-----------------------------------------------------------------------------
\* What a step of one scan thread leaves alone: the cancellation, the finalizer
\* and the other threads.
Frame(t) ==
  /\ cancel' = cancel /\ fin' = fin
  /\ \A u \in Threads \ {t} :
       /\ pc'[u] = pc[u] /\ queue'[u] = queue[u]
       /\ rows'[u] = rows[u] /\ skipped'[u] = skipped[u]

\* The other threads are idle, and an idle thread is orderly.
LEMMA StepSerialized ==
  ASSUME TypeOK, Serialized, NEW t \in Threads, Live(t), Frame(t), Orderly(t)',
         Honest(history)', Honest(disk.history)'
  PROVE  Serialized'
<1>1. ASSUME NEW u \in Threads \ {t} PROVE pc[u] = "idle" /\ pc'[u] = "idle"
  BY DEF Serialized, Live, Frame
<1>2. ASSUME NEW u \in Threads \ {t} PROVE Orderly(u)'
  <2>1. queue'[u] = {} /\ rows'[u] = {} /\ skipped'[u] = {}
    BY <1>1 DEF Serialized, Orderly, Frame, Looping, Holding
  <2>2. QED
    BY <1>1, <2>1 DEF Orderly, Looping, Holding
<1>3. \A u, w \in Threads : Live(u)' /\ Live(w)' => u = w
  BY <1>1 DEF Live
<1>4. fin' = "history" => cancel'
  BY DEF Serialized, Frame
<1>5. \A u \in Threads : Orderly(u)'
  BY <1>2
<1>6. QED
  BY <1>3, <1>4, <1>5 DEF Serialized

LEMMA SaveHonest ==
  ASSUME TypeOK, Honest(history), Honest(disk.history), SaveOk \/ SaveFail
  PROVE  Honest(disk.history)'
  BY DEF SaveOk, SaveFail, Payload, Honest, files

LEMMA ClearHonest ==
  ASSUME Honest(disk.history), ClearJournal
  PROVE  Honest(disk.history)'
  BY DEF ClearJournal, Honest, files

-----------------------------------------------------------------------------
\* Every step of a scan thread keeps the threads in order.

LEMMA StartClearSerialized ==
  ASSUME TypeOK, Serialized, NEW t \in Threads, StartClear(t)
  PROVE  Serialized'
<1>1. Live(t) /\ Frame(t)
  BY DEF StartClear, Goto, memory, Live, Frame, TypeOK, HandsOK, LocalsOK
<1>2. Orderly(t)'
  BY DEF StartClear, Goto, memory, Serialized, Orderly, Looping, Holding, InHand,
         TypeOK, HandsOK, LocalsOK
<1>3. Honest(history)'
  BY DEF StartClear, memory, Serialized, Honest
<1>4. Honest(disk.history)'
  BY ClearHonest DEF StartClear, Serialized
<1>5. QED
  BY <1>1, <1>2, <1>3, <1>4, StepSerialized

LEMMA StartSaveSerialized ==
  ASSUME TypeOK, Serialized, NEW t \in Threads, StartSave(t)
  PROVE  Serialized'
<1>1. Live(t) /\ Frame(t)
  BY DEF StartSave, Goto, memory, Live, Frame, TypeOK, HandsOK, LocalsOK
<1>2. Orderly(t)'
  BY DEF StartSave, Goto, memory, Serialized, Orderly, Looping, Holding, InHand,
         TypeOK, HandsOK, LocalsOK
<1>3. Honest(history)'
  BY DEF StartSave, memory, Serialized, Honest
<1>4. Honest(disk.history)'
  BY SaveHonest DEF StartSave, Serialized
<1>5. QED
  BY <1>1, <1>2, <1>3, <1>4, StepSerialized

LEMMA ResumeSaveSerialized ==
  ASSUME TypeOK, Serialized, NEW t \in Threads, ResumeSave(t)
  PROVE  Serialized'
<1>1. Live(t) /\ Frame(t)
  BY DEF ResumeSave, Goto, memory, Live, Frame, TypeOK, HandsOK, LocalsOK
<1>2. Orderly(t)'
  BY DEF ResumeSave, Goto, memory, Serialized, Orderly, Looping, Holding, InHand,
         TypeOK, HandsOK, LocalsOK
<1>3. Honest(history)'
  BY DEF ResumeSave, memory, Serialized, Honest
<1>4. Honest(disk.history)'
  BY SaveHonest DEF ResumeSave, Save, Serialized
<1>5. QED
  BY <1>1, <1>2, <1>3, <1>4, StepSerialized

LEMMA ScanInitSerialized ==
  ASSUME TypeOK, Serialized, NEW t \in Threads, ScanInit(t)
  PROVE  Serialized'
<1>1. Live(t) /\ Frame(t)
  BY DEF ScanInit, Goto, memory, Live, Frame, TypeOK, HandsOK, LocalsOK
<1>2. Orderly(t)'
  BY DEF ScanInit, Goto, memory, Serialized, Orderly, Looping, Holding, InHand,
         TypeOK, HandsOK, LocalsOK
<1>3. Honest(history)'
  BY DEF ScanInit, memory, Serialized, Honest
<1>4. Honest(disk.history)'
  BY DEF ScanInit, files, Serialized, Honest
<1>5. QED
  BY <1>1, <1>2, <1>3, <1>4, StepSerialized

LEMMA ScanSnapshotSerialized ==
  ASSUME TypeOK, Serialized, NEW t \in Threads, ScanSnapshot(t)
  PROVE  Serialized'
<1>1. Live(t) /\ Frame(t)
  BY DEF ScanSnapshot, Goto, Live, Frame, TypeOK, HandsOK, LocalsOK
<1>2. Orderly(t)'
  BY DEF ScanSnapshot, Goto, Serialized, Orderly, Looping, Holding, InHand, TypeOK,
         HandsOK, LocalsOK
<1>3. Honest(history)'
  BY DEF ScanSnapshot, Serialized, Honest
<1>4. Honest(disk.history)'
  BY DEF ScanSnapshot, files, Serialized, Honest
<1>5. QED
  BY <1>1, <1>2, <1>3, <1>4, StepSerialized

LEMMA ScanSnapshotSaveSerialized ==
  ASSUME TypeOK, Serialized, NEW t \in Threads, ScanSnapshotSave(t)
  PROVE  Serialized'
<1>1. Live(t) /\ Frame(t)
  BY DEF ScanSnapshotSave, Goto, Live, Frame, TypeOK, HandsOK, LocalsOK
<1>2. Orderly(t)'
  BY DEF ScanSnapshotSave, Goto, Serialized, Orderly, Looping, Holding, InHand,
         TypeOK, HandsOK, LocalsOK
<1>3. Honest(history)'
  BY DEF ScanSnapshotSave, Serialized, Honest
<1>4. Honest(disk.history)'
  BY SaveHonest DEF ScanSnapshotSave, Serialized
<1>5. QED
  BY <1>1, <1>2, <1>3, <1>4, StepSerialized

LEMMA ScanPlanSerialized ==
  ASSUME TypeOK, Serialized, NEW t \in Threads, ScanPlan(t)
  PROVE  Serialized'
<1>1. Live(t) /\ Frame(t)
  BY DEF ScanPlan, Goto, Live, Frame, TypeOK, HandsOK, LocalsOK
<1>2. Orderly(t)'
  BY DEF ScanPlan, Planned, Goto, Serialized, Orderly, Looping, Holding, InHand, TypeOK,
         HandsOK, LocalsOK
<1>3. Honest(history)'
  BY DEF ScanPlan, Serialized, Honest
<1>4. Honest(disk.history)'
  BY DEF ScanPlan, files, Serialized, Honest
<1>5. QED
  BY <1>1, <1>2, <1>3, <1>4, StepSerialized

LEMMA ScanPlanSaveSerialized ==
  ASSUME TypeOK, Serialized, NEW t \in Threads, ScanPlanSave(t)
  PROVE  Serialized'
<1>1. Live(t) /\ Frame(t)
  BY DEF ScanPlanSave, Pending, Goto, Live, Frame, TypeOK, HandsOK, LocalsOK
<1>2. Orderly(t)'
  BY DEF ScanPlanSave, Pending, Goto, Serialized, Orderly, Looping, Holding, InHand, TypeOK,
         HandsOK, LocalsOK
<1>3. Honest(history)'
  BY DEF ScanPlanSave, Pending, Serialized, Honest
<1>4. Honest(disk.history)'
  BY SaveHonest DEF ScanPlanSave, Pending, Serialized
<1>5. QED
  BY <1>1, <1>2, <1>3, <1>4, StepSerialized

LEMMA ProbeSerialized ==
  ASSUME TypeOK, Serialized, NEW t \in Threads, NEW i \in Items, Probe(t, i)
  PROVE  Serialized'
<1>1. Live(t) /\ Frame(t)
  BY DEF Probe, memory, Live, Frame, TypeOK, HandsOK, LocalsOK, Looping, Holding
<1>2. Orderly(t)'
  BY DEF Probe, memory, Serialized, Orderly, Looping, Holding, InHand, TypeOK,
         HandsOK, LocalsOK
<1>3. Honest(history)'
  BY DEF Probe, memory, Serialized, Honest
<1>4. Honest(disk.history)'
  BY DEF Probe, files, Serialized, Honest
<1>5. QED
  BY <1>1, <1>2, <1>3, <1>4, StepSerialized

LEMMA MergeSerialized ==
  ASSUME TypeOK, Serialized, NEW t \in Threads, NEW i \in Items, Merge(t, i)
  PROVE  Serialized'
<1>1. Live(t) /\ Frame(t)
  BY DEF Merge, MayMerge, Goto, memory, Live, Frame, TypeOK, HandsOK, LocalsOK
<1>2. Orderly(t)'
  BY DEF Merge, MayMerge, Goto, memory, Serialized, Orderly, Looping, Holding, InHand, TypeOK,
         HandsOK, LocalsOK
<1>3. Honest(history)'
  BY DEF Merge, MayMerge, memory, Serialized, Honest
<1>4. Honest(disk.history)'
  BY DEF Merge, MayMerge, files, Serialized, Honest
<1>5. QED
  BY <1>1, <1>2, <1>3, <1>4, StepSerialized

LEMMA BreakLoopSerialized ==
  ASSUME TypeOK, Serialized, NEW t \in Threads, BreakLoop(t)
  PROVE  Serialized'
<1>1. Live(t) /\ Frame(t)
  BY DEF BreakLoop, Goto, memory, Live, Frame, TypeOK, HandsOK, LocalsOK
<1>2. Orderly(t)'
  BY DEF BreakLoop, Goto, memory, Serialized, Orderly, Looping, Holding, InHand,
         TypeOK, HandsOK, LocalsOK
<1>3. Honest(history)'
  BY DEF BreakLoop, memory, Serialized, Honest
<1>4. Honest(disk.history)'
  BY DEF BreakLoop, files, Serialized, Honest
<1>5. QED
  BY <1>1, <1>2, <1>3, <1>4, StepSerialized

LEMMA EndLoopSerialized ==
  ASSUME TypeOK, Serialized, NEW t \in Threads, EndLoop(t)
  PROVE  Serialized'
<1>1. Live(t) /\ Frame(t)
  BY DEF EndLoop, Goto, memory, Live, Frame, TypeOK, HandsOK, LocalsOK
<1>2. Orderly(t)'
  <2>1. /\ queue' = queue /\ rows' = rows /\ skipped' = skipped
        /\ queue[t] = {} /\ rows[t] = {} /\ skipped[t] = {} /\ pc'[t] = "tail"
    BY DEF EndLoop, Goto, TypeOK, HandsOK
  <2>2. cancel \/ done[t] = items[t]
    BY <2>1 DEF EndLoop, Serialized, Orderly, Looping, Holding, InHand
  <2>3. cancel' \/ summary'.done = summary'.total
    BY <2>2 DEF EndLoop, memory, Serialized, Orderly, Looping
  <2>4. QED
    BY <2>1, <2>3 DEF Orderly, Looping, Holding
<1>3. Honest(history)'
  BY DEF EndLoop, memory, Serialized, Honest
<1>4. Honest(disk.history)'
  BY DEF EndLoop, files, Serialized, Honest
<1>5. QED
  BY <1>1, <1>2, <1>3, <1>4, StepSerialized

LEMMA JournalSerialized ==
  ASSUME TypeOK, Serialized, NEW t \in Threads, Journal(t)
  PROVE  Serialized'
<1>1. Live(t) /\ Frame(t)
  BY DEF Journal, Goto, memory, Live, Frame, TypeOK, HandsOK, LocalsOK
<1>2. Orderly(t)'
  BY DEF Journal, Goto, memory, Serialized, Orderly, Looping, Holding, InHand,
         TypeOK, HandsOK, LocalsOK
<1>3. Honest(history)'
  BY DEF Journal, memory, Serialized, Honest
<1>4. Honest(disk.history)'
  BY DEF Journal, files, Serialized, Honest
<1>5. QED
  BY <1>1, <1>2, <1>3, <1>4, StepSerialized

LEMMA RecordSerialized ==
  ASSUME TypeOK, Serialized, NEW t \in Threads, Record(t)
  PROVE  Serialized'
<1>1. Live(t) /\ Frame(t)
  BY DEF Record, Goto, Live, Frame, TypeOK, HandsOK, LocalsOK
<1>2. Orderly(t)'
  BY DEF Record, Goto, Serialized, Orderly, Looping, Holding, InHand, TypeOK,
         HandsOK, LocalsOK
<1>3. Honest(history)'
  BY DEF Record, Serialized, Honest
<1>4. Honest(disk.history)'
  BY DEF Record, files, Serialized, Honest
<1>5. QED
  BY <1>1, <1>2, <1>3, <1>4, StepSerialized

LEMMA FallbackSerialized ==
  ASSUME TypeOK, Serialized, NEW t \in Threads, Fallback(t)
  PROVE  Serialized'
<1>1. Live(t) /\ Frame(t)
  BY DEF Fallback, Goto, memory, Live, Frame, TypeOK, HandsOK, LocalsOK
<1>2. Orderly(t)'
  BY DEF Fallback, Goto, memory, Serialized, Orderly, Looping, Holding, InHand,
         TypeOK, HandsOK, LocalsOK
<1>3. Honest(history)'
  BY DEF Fallback, memory, Serialized, Honest
<1>4. Honest(disk.history)'
  BY SaveHonest DEF Fallback, Serialized
<1>5. QED
  BY <1>1, <1>2, <1>3, <1>4, StepSerialized

LEMMA TailSerialized ==
  ASSUME TypeOK, Serialized, NEW t \in Threads, Tail(t)
  PROVE  Serialized'
<1>1. Live(t) /\ Frame(t)
  BY DEF Tail, Goto, memory, Live, Frame, TypeOK, HandsOK, LocalsOK
<1>2. Orderly(t)'
  BY DEF Tail, Goto, memory, Serialized, Orderly, Looping, Holding, InHand, TypeOK,
         HandsOK, LocalsOK
<1>3. Honest(history)'
  BY DEF Tail, memory, Serialized, Honest
<1>4. Honest(disk.history)'
  BY SaveHonest DEF Tail, files, Save, Serialized, Honest
<1>5. QED
  BY <1>1, <1>2, <1>3, <1>4, StepSerialized

LEMMA SummaryCutSerialized ==
  ASSUME TypeOK, Serialized, NEW t \in Threads, SummaryCut(t)
  PROVE  Serialized'
<1>1. Live(t) /\ Frame(t)
  BY DEF SummaryCut, Goto, Live, Frame, TypeOK, HandsOK, LocalsOK
<1>2. Orderly(t)'
  BY DEF SummaryCut, Goto, Serialized, Orderly, Looping, Holding, InHand, TypeOK,
         HandsOK, LocalsOK
<1>3. Honest(history)'
  BY DEF SummaryCut, Serialized, Honest
<1>4. Honest(disk.history)'
  BY DEF SummaryCut, files, Serialized, Honest
<1>5. QED
  BY <1>1, <1>2, <1>3, <1>4, StepSerialized

LEMMA ScanHistorySerialized ==
  ASSUME TypeOK, Serialized, NEW t \in Threads, ScanHistory(t)
  PROVE  Serialized'
<1>1. Live(t) /\ Frame(t)
  BY DEF ScanHistory, Goto, Live, Frame, TypeOK, HandsOK, LocalsOK
<1>2. Orderly(t)'
  BY DEF ScanHistory, Goto, Serialized, Orderly, Looping, Holding, InHand, TypeOK,
         HandsOK, LocalsOK
<1>3. Honest(history)'
  BY DEF ScanHistory, AppendHistory, Serialized, Orderly, Honest, TypeOK, MemoryOK
<1>4. Honest(disk.history)'
  BY DEF ScanHistory, files, Serialized, Honest
<1>5. QED
  BY <1>1, <1>2, <1>3, <1>4, StepSerialized

LEMMA ReleaseSerialized ==
  ASSUME TypeOK, Serialized, NEW t \in Threads, Release(t)
  PROVE  Serialized'
<1>1. Live(t) /\ Frame(t)
  BY DEF Release, Closed, Goto, Live, Frame, TypeOK, HandsOK, LocalsOK
<1>2. Orderly(t)'
  BY DEF Release, Closed, Goto, Serialized, Orderly, Looping, Holding, InHand, TypeOK,
         HandsOK, LocalsOK
<1>3. Honest(history)'
  BY DEF Release, Closed, Serialized, Honest
<1>4. Honest(disk.history)'
  BY DEF Release, Closed, files, Serialized, Honest
<1>5. QED
  BY <1>1, <1>2, <1>3, <1>4, StepSerialized

LEMMA FinalSaveSerialized ==
  ASSUME TypeOK, Serialized, NEW t \in Threads, FinalSave(t)
  PROVE  Serialized'
<1>1. Live(t) /\ Frame(t)
  BY DEF FinalSave, Goto, Exit, memory, Live, Frame, TypeOK, HandsOK, LocalsOK
<1>2. Orderly(t)'
  BY DEF FinalSave, Goto, Exit, memory, Serialized, Orderly, Looping, Holding,
         InHand, TypeOK, HandsOK, LocalsOK
<1>3. Honest(history)'
  BY DEF FinalSave, memory, Serialized, Honest
<1>4. Honest(disk.history)'
  BY SaveHonest DEF FinalSave, Serialized
<1>5. QED
  BY <1>1, <1>2, <1>3, <1>4, StepSerialized

LEMMA FinalClearSerialized ==
  ASSUME TypeOK, Serialized, NEW t \in Threads, FinalClear(t)
  PROVE  Serialized'
<1>1. Live(t) /\ Frame(t)
  BY DEF FinalClear, Goto, Exit, memory, Live, Frame, TypeOK, HandsOK, LocalsOK
<1>2. Orderly(t)'
  BY DEF FinalClear, Goto, Exit, memory, Serialized, Orderly, Looping, Holding,
         InHand, TypeOK, HandsOK, LocalsOK
<1>3. Honest(history)'
  BY DEF FinalClear, memory, Serialized, Honest
<1>4. Honest(disk.history)'
  BY ClearHonest DEF FinalClear, Serialized
<1>5. QED
  BY <1>1, <1>2, <1>3, <1>4, StepSerialized

-----------------------------------------------------------------------------
\* A scan that is started or resumed while nothing unwinds is alone.

LEMMA BeginSerialized ==
  ASSUME TypeOK, Serialized, ~Unwinding, NEW t \in Threads,
         NEW l \in {"clear", "resumeSave"}, Goto(t, l),
         UNCHANGED <<fin, queue, rows, skipped, history, disk>>
  PROVE  Serialized'
<1>1. \A u \in Threads : pc[u] = "idle"
  BY DEF Unwinding, Live
<1>2. \A u \in Threads : pc'[u] \in {"idle", "clear", "resumeSave"}
  BY <1>1 DEF Goto, TypeOK, HandsOK
<1>3. \A u \in Threads : Live(u)' => u = t
  BY <1>1 DEF Goto, Live, TypeOK, HandsOK
<1>4. \A u \in Threads : queue[u] = {} /\ rows[u] = {} /\ skipped[u] = {}
  BY <1>1 DEF Serialized, Orderly, Looping, Holding
<1>5. ASSUME NEW u \in Threads PROVE Orderly(u)'
  BY <1>2, <1>4 DEF Orderly, Looping, Holding
<1>6. fin' # "history"
  BY DEF Unwinding
<1>7. QED
  BY <1>3, <1>5, <1>6 DEF Serialized, Honest

LEMMA StartSerialized ==
  ASSUME TypeOK, Serialized, NEW t \in Threads, Start(t), ~overlapped'
  PROVE  Serialized'
  BY BeginSerialized DEF Start, files

LEMMA RecoverSerialized ==
  ASSUME TypeOK, Serialized, NEW t \in Threads, Recover(t), ~overlapped'
  PROVE  Serialized'
  BY BeginSerialized DEF Recover, Resumable, files

-----------------------------------------------------------------------------
\* A handler or the finalizer may cancel the scan, and never takes that back.

LEMMA HandlerSerialized ==
  ASSUME TypeOK, Serialized, cancel => cancel', fin' = "history" => cancel',
         UNCHANGED <<pc, queue, rows, skipped, cur, items, done, summary, lastError>>,
         Honest(history)', Honest(disk.history)'
  PROVE  Serialized'
<1>1. \A t, u \in Threads : Live(t)' /\ Live(u)' => t = u
  BY DEF Serialized, Live
<1>2. ASSUME NEW t \in Threads PROVE Orderly(t)'
  <2>1. Orderly(t)
    BY DEF Serialized
  <2>2. InHand(t)' = InHand(t)
    BY DEF InHand
  <2>3. QED
    BY <2>1, <2>2 DEF Orderly
<1>3. QED
  BY <1>1, <1>2 DEF Serialized

LEMMA StopSerialized ==
  ASSUME TypeOK, Serialized, Stop
  PROVE  Serialized'
<1>1. Honest(history)' /\ Honest(disk.history)'
  BY DEF Stop, files, Serialized, Honest
<1>2. QED
  BY <1>1, HandlerSerialized DEF Stop, threads, Serialized

LEMMA StopSaveSerialized ==
  ASSUME TypeOK, Serialized, StopSave
  PROVE  Serialized'
<1>1. Honest(history)' /\ Honest(disk.history)'
  BY SaveHonest DEF StopSave, memory, Serialized, Honest
<1>2. QED
  BY <1>1, HandlerSerialized DEF StopSave, memory, threads, Serialized

LEMMA ServeSerialized ==
  ASSUME TypeOK, Serialized, Serve
  PROVE  Serialized'
<1>1. Honest(history)' /\ Honest(disk.history)'
  BY DEF Serve, memory, files, Serialized, Honest
<1>2. QED
  BY <1>1, HandlerSerialized DEF Serve, memory, threads, Serialized

LEMMA SchedulerSaveSerialized ==
  ASSUME TypeOK, Serialized, SchedulerSave
  PROVE  Serialized'
<1>1. Honest(history)' /\ Honest(disk.history)'
  BY SaveHonest DEF SchedulerSave, memory, Serialized, Honest
<1>2. QED
  BY <1>1, HandlerSerialized DEF SchedulerSave, memory, threads, Serialized

LEMMA FinalizerSerialized ==
  ASSUME TypeOK, Serialized, Finalizer
  PROVE  Serialized'
<1>1. CASE Finalize
  <2>1. Honest(history)' /\ Honest(disk.history)'
    BY <1>1 DEF Finalize, files, Serialized, Honest
  <2>2. QED
    BY <1>1, <2>1, HandlerSerialized DEF Finalize, threads
<1>2. CASE FinalizeHistory
  \* The record says "cancelled" or "error", as the scan is cancelled.
  <2>1. cancel
    BY <1>2 DEF FinalizeHistory, Serialized
  <2>2. Honest(history)'
    BY <1>2, <2>1 DEF FinalizeHistory, AppendHistory, Serialized, Honest, TypeOK, MemoryOK
  <2>3. Honest(disk.history)'
    BY <1>2 DEF FinalizeHistory, files, Serialized, Honest
  <2>4. QED
    BY <1>2, <2>2, <2>3, HandlerSerialized DEF FinalizeHistory, threads
<1>3. CASE FinalizeSave
  <2>1. Honest(history)' /\ Honest(disk.history)'
    BY <1>3, SaveHonest DEF FinalizeSave, memory, Serialized, Honest
  <2>2. QED
    BY <1>3, <2>1, HandlerSerialized DEF FinalizeSave, memory, threads
<1>4. CASE FinalizeClear
  <2>1. Honest(history)' /\ Honest(disk.history)'
    BY <1>4, ClearHonest DEF FinalizeClear, memory, Serialized, Honest
  <2>2. QED
    BY <1>4, <2>1, HandlerSerialized DEF FinalizeClear, memory, threads
<1>5. QED
  BY <1>1, <1>2, <1>3, <1>4 DEF Finalizer

\* A restart begins with the history the state file holds.
LEMMA CrashSerialized ==
  ASSUME TypeOK, Serialized, Crash
  PROVE  Serialized'
<1>1. \A t \in Threads : pc'[t] = "idle" /\ queue'[t] = {} /\ rows'[t] = {} /\ skipped'[t] = {}
  BY DEF Crash
<1>2. \A t \in Threads : Orderly(t)' /\ ~Live(t)'
  BY <1>1 DEF Orderly, Live, Looping, Holding
<1>3. Honest(history)' /\ Honest(disk.history)'
  BY DEF Crash, Serialized, Honest
<1>4. fin' # "history"
  BY DEF Crash
<1>5. QED
  BY <1>2, <1>3, <1>4 DEF Serialized

-----------------------------------------------------------------------------
LEMMA ScanThreadSerialized ==
  ASSUME TypeOK, Serialized, NEW t \in Threads, ScanThread(t)
  PROVE  Serialized'
<1>1. CASE StartClear(t) \/ StartSave(t) \/ ResumeSave(t)
  BY <1>1, StartClearSerialized, StartSaveSerialized, ResumeSaveSerialized
<1>2. CASE ScanInit(t) \/ ScanSnapshot(t) \/ ScanSnapshotSave(t)
  BY <1>2, ScanInitSerialized, ScanSnapshotSerialized, ScanSnapshotSaveSerialized
<1>3. CASE ScanPlan(t) \/ ScanPlanSave(t)
  BY <1>3, ScanPlanSerialized, ScanPlanSaveSerialized
<1>4. CASE \E i \in Items : Probe(t, i) \/ Merge(t, i)
  BY <1>4, ProbeSerialized, MergeSerialized
<1>5. CASE BreakLoop(t) \/ EndLoop(t) \/ Journal(t) \/ Record(t) \/ Fallback(t)
  BY <1>5, BreakLoopSerialized, EndLoopSerialized, JournalSerialized,
     RecordSerialized, FallbackSerialized
<1>6. CASE Tail(t) \/ SummaryCut(t) \/ ScanHistory(t) \/ Release(t)
  BY <1>6, TailSerialized, SummaryCutSerialized, ScanHistorySerialized,
     ReleaseSerialized
<1>7. CASE FinalSave(t) \/ FinalClear(t)
  BY <1>7, FinalSaveSerialized, FinalClearSerialized
<1>8. QED
  BY <1>1, <1>2, <1>3, <1>4, <1>5, <1>6, <1>7 DEF ScanThread

LEMMA OverlapSticks ==
  ASSUME TypeOK, [Next]_vars, overlapped
  PROVE  overlapped'
<1>1. CASE \E t \in Threads : Start(t) \/ Recover(t)
  BY <1>1 DEF Start, Recover
<1>2. CASE \E t \in Threads : ScanThread(t)
  <2>1. PICK t \in Threads : ScanThread(t)
    BY <1>2
  <2>2. CASE \E i \in Items : Probe(t, i) \/ Merge(t, i)
    BY <2>2 DEF Probe, Merge, ghosts
  <2>3. CASE ~\E i \in Items : Probe(t, i) \/ Merge(t, i)
    BY <2>1, <2>3
       DEF ScanThread, StartClear, StartSave, ResumeSave, ScanInit, ScanSnapshot,
           ScanSnapshotSave, ScanPlan, ScanPlanSave, BreakLoop, EndLoop, Journal,
           Record, Fallback, Tail, SummaryCut, ScanHistory, Release, FinalSave,
           FinalClear, ghosts
  <2>4. QED
    BY <2>2, <2>3
<1>3. CASE Stop \/ StopSave \/ Serve \/ SchedulerSave \/ Crash
  BY <1>3 DEF Stop, StopSave, Serve, SchedulerSave, Crash, ghosts
<1>4. CASE Finalizer
  BY <1>4 DEF Finalizer, Finalize, FinalizeHistory, FinalizeSave, FinalizeClear, ghosts
<1>5. CASE UNCHANGED vars
  BY <1>5 DEF vars, ghosts
<1>6. QED
  BY <1>1, <1>2, <1>3, <1>4, <1>5 DEF Next

LEMMA InitSerialized == Init => Serialized
<1> SUFFICES ASSUME Init PROVE Serialized
  OBVIOUS
<1>1. \A t \in Threads : Orderly(t) /\ ~Live(t)
  BY DEF Init, Orderly, Live, Looping, Holding
<1>2. Honest(history) /\ Honest(disk.history)
  BY DEF Init, Honest, NoRecord, Payload
<1>3. QED
  BY <1>1, <1>2 DEF Init, Serialized

LEMMA NextInv == ScanInv /\ [Next]_vars => ScanInv'
<1> SUFFICES ASSUME ScanInv, [Next]_vars, ~overlapped' PROVE Serialized'
  BY NextType DEF ScanInv
<1>0. TypeOK /\ Serialized
  BY OverlapSticks DEF ScanInv
<1>1. CASE \E t \in Threads : Start(t) \/ Recover(t)
  BY <1>0, <1>1, StartSerialized, RecoverSerialized
<1>2. CASE \E t \in Threads : ScanThread(t)
  BY <1>0, <1>2, ScanThreadSerialized
<1>3. CASE Stop \/ StopSave \/ Serve \/ SchedulerSave \/ Crash
  BY <1>0, <1>3, StopSerialized, StopSaveSerialized, ServeSerialized,
     SchedulerSaveSerialized, CrashSerialized
<1>4. CASE Finalizer
  BY <1>0, <1>4, FinalizerSerialized
<1>5. CASE UNCHANGED vars
  <2>1. Honest(history)' /\ Honest(disk.history)'
    BY <1>0, <1>5 DEF vars, memory, files, Serialized, Honest
  <2>2. QED
    BY <1>0, <1>5, <2>1, HandlerSerialized DEF vars, memory, threads, Serialized
<1>6. QED
  BY <1>1, <1>2, <1>3, <1>4, <1>5 DEF Next

LEMMA ScanInvAlways == Spec => []ScanInv
<1>1. Init => ScanInv
  BY InitType, InitSerialized DEF ScanInv
<1>2. QED
  BY <1>1, NextInv, PTL DEF Spec

\* A scan that the history reports as neither failed nor cancelled has finished every
\* account of its snapshot, through any number of crashes, resumes, failed saves and
\* failed appends, as long as no scan was started while another was unwinding.
THEOREM HistoryHonestAlways == Spec => []HistoryHonest
<1>1. ScanInv => HistoryHonest
  BY DEF ScanInv, Serialized, HistoryHonest
<1>2. QED
  BY <1>1, ScanInvAlways, PTL

\* The row a worker makes up for an account it skips never reaches the account's
\* health state: a worker skips only when the scan is cancelled, and from then on the
\* loop merges nothing, because no step takes the cancellation back while the
\* thread is at work.
THEOREM CancelledNeverMerged == Spec => CancelledRowsNotMerged
<1> DEFINE A == \A t \in Threads : (pc[t] = "loop" /\ pc'[t] = "journal") =>
                  overlapped \/ cur'[t] \notin skipped[t]
<1>1. ScanInv /\ [Next]_vars => [A]_vars
  <2> SUFFICES ASSUME ScanInv, Next, ~overlapped, NEW t \in Threads,
                      pc[t] = "loop", pc'[t] = "journal"
               PROVE  cur'[t] \notin skipped[t]
    OBVIOUS
  <2>1. TypeOK /\ Orderly(t)
    BY DEF ScanInv, Serialized
  <2>2. PICK i \in Items : Merge(t, i)
    <3>1. CASE \E u \in Threads : Start(u) \/ Recover(u)
      BY <2>1, <3>1 DEF Start, Recover, Goto, TypeOK, HandsOK
    <3>2. CASE \E u \in Threads : ScanThread(u)
      <4>1. PICK u \in Threads : ScanThread(u)
        BY <3>2
      <4>2. CASE \E i \in Items : Merge(u, i)
        BY <2>1, <4>2 DEF Merge, MayMerge, Goto, TypeOK, HandsOK
      <4>3. CASE \E i \in Items : Probe(u, i)
        BY <4>3 DEF Probe
      <4>4. CASE ~\E i \in Items : Probe(u, i) \/ Merge(u, i)
        <5>1. pc'[u] # "journal" \/ pc'[u] = pc[u]
          BY <2>1, <4>1, <4>4
             DEF ScanThread, StartClear, StartSave, ResumeSave, ScanInit,
                 ScanSnapshot, ScanSnapshotSave, ScanPlan, ScanPlanSave, BreakLoop,
                 EndLoop, Journal, Record, Fallback, Tail, SummaryCut, ScanHistory,
                 Release, FinalSave, FinalClear, Exit, Goto, TypeOK, HandsOK
        <5>2. u # t => pc'[t] = pc[t]
          BY <2>1, <4>1, <4>4
             DEF ScanThread, StartClear, StartSave, ResumeSave, ScanInit,
                 ScanSnapshot, ScanSnapshotSave, ScanPlan, ScanPlanSave, BreakLoop,
                 EndLoop, Journal, Record, Fallback, Tail, SummaryCut, ScanHistory,
                 Release, FinalSave, FinalClear, Exit, Goto, TypeOK, HandsOK
        <5>3. QED
          BY <5>1, <5>2
      <4>5. QED
        BY <4>1, <4>2, <4>3, <4>4
    <3>3. CASE Stop \/ StopSave \/ Finalizer \/ Serve \/ SchedulerSave
      BY <3>3 DEF Stop, StopSave, Finalizer, Finalize, FinalizeHistory, FinalizeSave,
                  FinalizeClear, Serve, SchedulerSave, threads
    <3>4. CASE Crash
      BY <3>4 DEF Crash
    <3>5. QED
      BY <3>1, <3>2, <3>3, <3>4 DEF Next
  <2>3. ~cancel
    BY <2>2 DEF Merge, MayMerge
  <2>4. skipped[t] = {}
    BY <2>1, <2>3 DEF Orderly
  <2>5. QED
    BY <2>4
<1>2. QED
  BY <1>1, ScanInvAlways, PTL DEF Spec, CancelledRowsNotMerged
-----------------------------------------------------------------------------
(* Stopping. *)

\* Where a thread has not yet looked at the active scan.
Early == {"idle", "clear", "startSave", "resumeSave", "init"}

\* The scans somebody asked to stop: the request is written, or about to be.
Stopped == (stopAcked \cup {stopper}) \ {0}

Numbered ==
  /\ scanId <= nScans /\ stopper <= nScans
  /\ disk.active.id <= nScans /\ disk.scanId <= nScans
  /\ \A s \in stopAcked : s <= nScans

\* A request that reaches the active scan is in it, also on disk, and cancels the thread.
StopKept ==
  /\ active.id \in {0, scanId}
  /\ active.id \in Stopped => active.cancelReq
  /\ disk.active.id \in stopAcked => disk.active.cancelReq
  /\ \A t \in Threads :
       /\ pc[t] \in Early => job[t] = 0
       /\ Live(t) => job[t] \in {0, scanId} /\ (scanId \in Stopped => cancel)

\* What a step of a scan thread does to all this.
Advances(t) ==
  /\ Live(t)
  /\ UNCHANGED <<scanId, cancel, stopper, stopAcked, nScans>>
  /\ active'.id = 0 \/ (active'.id = active.id /\ active'.cancelReq = active.cancelReq)
  /\ \/ disk' = disk
     \/ active' = active /\ disk'.active = active /\ disk'.scanId = scanId
  /\ \A u \in Threads \ {t} : pc'[u] = pc[u] /\ job'[u] = job[u]
  /\ job'[t] \in {job[t], 0, scanId, active.id}
  /\ pc'[t] \in Early => job'[t] = 0 \/ (pc[t] \in Early /\ job'[t] = job[t])

LEMMA ThreadAdvances ==
  ASSUME TypeOK, NEW t \in Threads, ScanThread(t)
  PROVE  Advances(t)
<1> USE DEF Advances, Live, Early, Goto, TypeOK, HandsOK, LocalsOK, MemoryOK, Scan
<1>1. CASE StartClear(t) \/ StartSave(t) \/ ResumeSave(t)
  BY <1>1 DEF StartClear, ClearJournal, StartSave, ResumeSave, Save, SaveOk, SaveFail, Payload,
     NoScan, memory, files, ghosts
<1>2. CASE ScanInit(t) \/ ScanSnapshot(t) \/ ScanSnapshotSave(t)
  <2>1. CASE ScanInit(t)
    <3>1. /\ job' = [job EXCEPT ![t] = IF active.id # 0 THEN active.id ELSE scanId]
          /\ pc'[t] \in {"plan", "snapshot"}
      BY <2>1 DEF ScanInit
    <3> QED
      BY <2>1, <3>1 DEF ScanInit, memory, files, ghosts
  <2>2. CASE ScanSnapshot(t)
    <3>1. active'.id = active.id /\ active'.cancelReq = active.cancelReq
      BY <2>2 DEF ScanSnapshot
    <3> QED
      BY <2>2, <3>1 DEF ScanSnapshot, files, ghosts
  <2>3. CASE ScanSnapshotSave(t)
    BY <2>3 DEF ScanSnapshotSave, SaveOk, SaveFail, Payload, files, ghosts
  <2> QED
    BY <1>2, <2>1, <2>2, <2>3
<1>3. CASE ScanPlan(t) \/ ScanPlanSave(t)
  BY <1>3 DEF ScanPlan, ScanPlanSave, SaveOk, SaveFail, Payload, memory, files, ghosts
<1>4. CASE \E i \in Items : Probe(t, i) \/ Merge(t, i)
  BY <1>4 DEF Probe, Looping, Holding, Merge, MayMerge, memory, files, ghosts
<1>5. CASE BreakLoop(t) \/ EndLoop(t) \/ Journal(t) \/ Fallback(t)
  BY <1>5 DEF BreakLoop, EndLoop, Journal, Fallback, SaveOk, SaveFail, Payload, memory, files,
     ghosts
<1>6. CASE Record(t)
  BY <1>6 DEF Record, memory, files, ghosts
<1>7. CASE Tail(t) \/ SummaryCut(t) \/ ScanHistory(t) \/ Release(t)
  BY <1>7 DEF Tail, SummaryCut, ScanHistory, Release, Closed, NoScan, Save, SaveOk, SaveFail,
     Payload, memory, files, ghosts
<1>8. CASE FinalSave(t) \/ FinalClear(t)
  BY <1>8 DEF FinalSave, FinalClear, ClearJournal, Exit, SaveOk, SaveFail, Payload, memory,
     files, ghosts
<1> QED
  BY <1>1, <1>2, <1>3, <1>4, <1>5, <1>6, <1>7, <1>8 DEF ScanThread

StopInv == Numbered /\ StopKept

LEMMA AdvanceStops ==
  ASSUME TypeOK, StopInv, NEW t \in Threads, Advances(t)
  PROVE  StopInv'
<1>1. Numbered'
  BY DEF StopInv, Numbered, StopKept, Advances, TypeOK, MemoryOK, OthersOK
<1>2. /\ active'.id \in {0, scanId'}
      /\ active'.id \in Stopped' => active'.cancelReq
      /\ disk'.active.id \in stopAcked' => disk'.active.cancelReq
  BY DEF StopInv, StopKept, Advances, Stopped, TypeOK, OthersOK, ScanIds
<1>3. ASSUME NEW u \in Threads
      PROVE  /\ pc'[u] \in Early => job'[u] = 0
             /\ Live(u)' => job'[u] \in {0, scanId'} /\ (scanId' \in Stopped' => cancel')
  BY DEF StopInv, StopKept, Advances, Stopped, Live
<1> QED
  BY <1>1, <1>2, <1>3 DEF StopInv, StopKept

LEMMA StartStops ==
  ASSUME TypeOK, StopInv, Serialized, NEW t \in Threads, Start(t), ~overlapped'
  PROVE  StopInv'
<1>1. nScans' = nScans + 1 /\ nScans \in Nat /\ nScans' \in 1 .. MaxScans
  BY BoundsAssumption DEF Start, TypeOK, OthersOK
<1>2. /\ scanId' = nScans' /\ active'.id = nScans' /\ UNCHANGED <<stopper, stopAcked, disk>>
  BY DEF Start, NewScan, NoScan, files
<1>3. Numbered'
  BY <1>1, <1>2 DEF StopInv, Numbered, TypeOK, OthersOK, ScanIds, FilesOK, Scan
<1>4. nScans' \notin Stopped' /\ Stopped' = Stopped
  BY <1>1, <1>2 DEF Stopped, StopInv, Numbered, TypeOK, OthersOK, ScanIds
<1>5. \A u \in Threads : pc[u] = "idle" /\ job[u] = 0 /\ job'[u] = 0
  BY DEF Start, Unwinding, Live, StopInv, StopKept, Early
<1> QED
  BY <1>2, <1>3, <1>4, <1>5 DEF StopInv, StopKept

LEMMA RecoverStops ==
  ASSUME TypeOK, StopInv, Serialized, NEW t \in Threads, Recover(t), ~overlapped'
  PROVE  StopInv'
<1>1. /\ UNCHANGED <<active, disk, stopper, stopAcked, nScans, job>>
      /\ scanId' = active.id /\ active.id # 0 /\ ~active.cancelReq
  BY DEF Recover, Resumable, files
<1>2. scanId' = scanId /\ Stopped' = Stopped
  BY <1>1 DEF StopInv, StopKept, Stopped
<1>3. scanId' \notin Stopped'
  BY <1>1, <1>2 DEF StopInv, StopKept
<1>4. \A u \in Threads : pc[u] = "idle" /\ job[u] = 0 /\ job'[u] = 0
  BY <1>1 DEF Recover, Unwinding, Live, StopInv, StopKept, Early
<1> QED
  BY <1>1, <1>2, <1>3, <1>4 DEF StopInv, Numbered, StopKept

\* Those who have no thread of their own.
LEMMA HandlersStop ==
  ASSUME TypeOK, StopInv, Stop \/ StopSave \/ Finalizer \/ Serve \/ SchedulerSave \/ UNCHANGED vars
  PROVE  StopInv'
<1>1. CASE Stop
  <2>1. /\ UNCHANGED <<scanId, disk, stopAcked, nScans, pc, job>> /\ cancel' /\ stopper' = scanId
        /\ active'.id = active.id /\ (active.id # 0 => active'.cancelReq)
    BY <1>1 DEF Stop, files, threads, ghosts, TypeOK, MemoryOK, Scan
  <2>2. Numbered'
    BY <2>1 DEF StopInv, Numbered
  <2> QED
    BY <2>1, <2>2 DEF StopInv, StopKept, Stopped, Live
<1>2. CASE StopSave
  <2>1. /\ UNCHANGED <<scanId, active, cancel, nScans, pc, job>>
        /\ \/ disk' = disk /\ stopAcked' = stopAcked
           \/ /\ disk'.active = active /\ disk'.scanId = scanId
              /\ stopAcked' = stopAcked \cup {stopper}
        /\ stopper' = 0 /\ stopper # 0
    BY <1>2 DEF StopSave, SaveOk, SaveFail, Payload, memory, files, threads
  <2>2. Numbered'
    BY <2>1 DEF StopInv, Numbered, StopKept, TypeOK, MemoryOK, OthersOK
  <2>3. Stopped' \subseteq Stopped /\ (stopAcked' # stopAcked => stopAcked' \subseteq Stopped)
    BY <2>1 DEF Stopped, TypeOK, OthersOK, ScanIds
  <2>4. disk'.active.id \in stopAcked' => disk'.active.cancelReq
    BY <2>1, <2>3 DEF StopInv, StopKept, Stopped, TypeOK, OthersOK, ScanIds
  <2> QED
    BY <2>1, <2>2, <2>3, <2>4 DEF StopInv, StopKept, Live
<1>3. CASE Finalize
  <2>1. /\ UNCHANGED <<disk, stopper, stopAcked, nScans, pc, job>>
        /\ scanId' = active.id /\ active.id # 0 /\ cancel' /\ active'.id = 0
    BY <1>3 DEF Finalize, Cancelled, NoScan, files, threads, ghosts
  <2>2. scanId' = scanId /\ 0 \notin Stopped'
    BY <2>1 DEF StopInv, StopKept, Stopped
  <2> QED
    BY <2>1, <2>2 DEF StopInv, Numbered, StopKept, Live, Stopped
<1>4. CASE FinalizeHistory \/ FinalizeSave \/ FinalizeClear \/ Serve \/ SchedulerSave
           \/ UNCHANGED vars
  <2>1. /\ UNCHANGED <<scanId, active, cancel, stopper, stopAcked, nScans, pc, job>>
        /\ disk' = disk \/ (disk'.active = active /\ disk'.scanId = scanId)
    BY <1>4 DEF FinalizeHistory, FinalizeSave, FinalizeClear, Serve, SchedulerSave, vars,
       ClearJournal, SaveOk, SaveFail, Payload, memory, files, threads, ghosts
  <2>2. Numbered'
    BY <2>1 DEF StopInv, Numbered, StopKept, TypeOK, MemoryOK, OthersOK
  <2> QED
    BY <2>1, <2>2 DEF StopInv, StopKept, Live, Stopped, TypeOK, OthersOK, ScanIds
<1> QED
  BY <1>1, <1>2, <1>3, <1>4 DEF Finalizer

LEMMA CrashStops ==
  ASSUME TypeOK, StopInv, Crash
  PROVE  StopInv'
<1>1. /\ UNCHANGED <<disk, stopAcked, nScans>> /\ stopper' = 0
      /\ active'.id = disk.active.id /\ active'.cancelReq = disk.active.cancelReq
      /\ scanId' = IF disk.active.id # 0 THEN disk.active.id ELSE disk.scanId
      /\ \A t \in Threads : pc'[t] = "idle" /\ job'[t] = 0
  BY DEF Crash, ghosts, TypeOK, FilesOK, Scan
<1>2. Numbered'
  BY <1>1 DEF StopInv, Numbered, TypeOK, OthersOK
<1>3. Stopped' \subseteq stopAcked
  BY <1>1 DEF Stopped
<1> QED
  BY <1>1, <1>2, <1>3 DEF StopInv, StopKept, Live

LEMMA InitStops == Init => StopInv
<1> SUFFICES ASSUME Init PROVE StopInv
  OBVIOUS
<1>1. disk.active.id = 0 /\ disk.scanId = 0 /\ active.id = 0
  BY DEF Init, Payload, NoScan
<1> QED
  BY <1>1 DEF Init, StopInv, Numbered, StopKept, Stopped, Live

\* All of it, as long as scans do not overlap.
StoppingInv == ScanInv /\ (overlapped \/ StopInv)

LEMMA NextStops == StoppingInv /\ [Next]_vars => StoppingInv'
<1> SUFFICES ASSUME StoppingInv, [Next]_vars, ~overlapped' PROVE StopInv'
  BY NextInv DEF StoppingInv
<1>0. TypeOK /\ Serialized /\ StopInv
  BY OverlapSticks DEF StoppingInv, ScanInv
<1>1. CASE \E t \in Threads : Start(t) \/ Recover(t)
  BY <1>0, <1>1, StartStops, RecoverStops
<1>2. CASE \E t \in Threads : ScanThread(t)
  BY <1>0, <1>2, ThreadAdvances, AdvanceStops
<1>3. CASE Crash
  BY <1>0, <1>3, CrashStops
<1> QED
  BY <1>0, <1>1, <1>2, <1>3, HandlersStop DEF Next

LEMMA StoppingAlways == Spec => []StoppingInv
<1>1. Init => StoppingInv
  BY InitType, InitSerialized, InitStops DEF StoppingInv, ScanInv
<1> QED
  BY <1>1, NextStops, PTL DEF Spec

\* Only a probe adds to the rows, and only in a scan that nobody has cancelled.
LEMMA RowsFromProbes ==
  ASSUME TypeOK, Next, NEW t \in Threads, ~(rows'[t] \subseteq rows[t])
  PROVE  ~cancel /\ Live(t) /\ \E i \in Items : Probe(t, i)
<1>1. ~\E u \in Threads : Start(u) \/ Recover(u)
  BY DEF Start, Recover
<1>2. ~(Stop \/ StopSave \/ Finalizer \/ Serve \/ SchedulerSave \/ Crash)
  BY DEF Stop, StopSave, Finalizer, Finalize, FinalizeHistory, FinalizeSave, FinalizeClear,
     Serve, SchedulerSave, Crash, threads
<1>3. PICK u \in Threads : ScanThread(u)
  BY <1>1, <1>2 DEF Next
<1>4. CASE \E i \in Items : Probe(u, i)
  BY <1>4 DEF Probe, TypeOK, LocalsOK, Live, Looping, Holding
<1>5. CASE ~\E i \in Items : Probe(u, i)
  <2>1. CASE \E i \in Items : Merge(u, i)
    BY <2>1 DEF Merge, TypeOK, LocalsOK
  <2>2. CASE BreakLoop(u)
    BY <2>2 DEF BreakLoop, TypeOK, LocalsOK
  <2>3. CASE ~BreakLoop(u) /\ ~\E i \in Items : Probe(u, i) \/ Merge(u, i)
    BY <1>3, <2>3
       DEF ScanThread, StartClear, StartSave, ResumeSave, ScanInit, ScanSnapshot,
           ScanSnapshotSave, ScanPlan, ScanPlanSave, EndLoop, Journal, Record, Fallback, Tail,
           SummaryCut, ScanHistory, Release, FinalSave, FinalClear
  <2> QED
    BY <1>5, <2>1, <2>2, <2>3
<1> QED
  BY <1>4, <1>5

\* A stop request that has been written is final for its scan, whatever crashes, resumes and
\* failed writes follow, as long as no scan was started while another was unwinding.
THEOREM StopSticksAlways == Spec => StopSticks
<1> DEFINE A == \A t \in Threads : rows'[t] \subseteq rows[t]
                                     \/ overlapped \/ job[t] \notin stopAcked
<1>1. StoppingInv /\ [Next]_vars => [A]_vars
  <2> SUFFICES ASSUME StoppingInv, Next, ~overlapped, NEW t \in Threads,
                      ~(rows'[t] \subseteq rows[t])
               PROVE  job[t] \notin stopAcked
    OBVIOUS
  <2>1. TypeOK /\ StopInv
    BY DEF StoppingInv, ScanInv
  <2>2. ~cancel /\ Live(t)
    BY <2>1, RowsFromProbes
  <2>3. 0 \notin stopAcked
    BY <2>1 DEF TypeOK, OthersOK, ScanIds
  <2> QED
    BY <2>1, <2>2, <2>3 DEF StopInv, StopKept, Stopped
<1> QED
  BY <1>1, StoppingAlways, PTL DEF Spec, StopSticks
-----------------------------------------------------------------------------
(* Checkpoints.  What follows asks of the files that a save does not fail, and that a crash *)
(* does not leave half a line.                                                              *)

SoundFiles == MaxSaveFaults = 0 /\ TornWrites = FALSE

\* No checkpoint was ever reported for scan s.
Blank(s) == \A i \in Items : <<s, i>> \notin acked

\* Whoever reads scan a and the journal finds what was reported.
Kept(a) == \A i \in Items : <<a.id, i>> \in acked =>
             i \in a.completed \/ (i \in a.items /\ <<a.id, i>> \in journal.rows)

Formed(a) ==
  /\ a.completed \subseteq a.items
  /\ ~a.ready => a.items = {}
  /\ a.id = 0 => ~a.ready

\* A finalizer has closed the active scan, and then the file.
Finalizing ==
  /\ fin # "idle" => active.id = 0
  /\ fin = "clear" => disk.active.id = 0

Issued == \A s \in 0 .. MaxScans, i \in Items : <<s, i>> \in acked => s <= nScans

Shared ==
  /\ SoundFiles /\ budget.save = 0 /\ ~journal.torn
  /\ Blank(0) /\ Issued /\ Finalizing
  /\ Kept(active) /\ Kept(disk.active) /\ Formed(active) /\ Formed(disk.active)

\* The active scan itself knows all of it, but for a row just written.
Known ==
  \A i \in Items : <<active.id, i>> \in acked =>
    i \in active.completed \/ \E t \in Threads : pc[t] = "record" /\ cur[t] = i

\* With nobody at work no scan is open, unless the service has just been restarted.
Resting ==
  ~Unwinding => IF serving THEN disk.active.id = 0 /\ active.id = 0
                ELSE active.id = disk.active.id

Planning == {"plan", "planSave"} \cup Looping

\* How a thread begins.
Begun(t) ==
  /\ Live(t) => scanId # 0
  /\ Live(t) /\ active.id = 0 => cancel \/ pc[t] \in {"finalSave", "finalClear"}
  /\ pc[t] = "clear" => Blank(active.id) /\ Blank(disk.active.id)
  /\ pc[t] = "init" => \/ active.id = 0
                       \/ disk.active.id = active.id /\ disk.active.items = active.items

\* Its scan is the active one, unless the finalizer has closed that; memory and file agree with
\* its locals.
Same(t) ==
  /\ pc[t] \notin Early => job[t] # 0 /\ active.id \in {0, job[t]}
  /\ pc[t] = "snapshot" => ~active.ready
  /\ pc[t] \in Planning \cup {"snapshotSave"} /\ active.id = job[t] => active.items = items[t]
  /\ pc[t] \in Planning /\ disk.active.id = job[t] => disk.active.items = items[t]
  /\ pc[t] \in Planning \ {"plan"} /\ active.id = job[t] => active.completed \subseteq done[t]
  /\ pc[t] \in {"finalSave", "finalClear"} => active.id = 0
  /\ pc[t] = "finalClear" => disk.active.id = 0

\* Its workers have nothing to probe that is done, in hand, or was ever reported.
Untouched(t) ==
  pc[t] \in Looping =>
    /\ queue[t] \cap (done[t] \cup rows[t] \cup skipped[t] \cup InHand(t)) = {}
    /\ cancel \/ \A i \in queue[t] : <<job[t], i>> \notin acked

Tied(t) == Begun(t) /\ Same(t) /\ Untouched(t)

Durable == Shared /\ Known /\ Resting /\ \A t \in Threads : Tied(t)

\* All that holds of a state in which scans have not overlapped.
Sound == TypeOK /\ Serialized /\ StopInv /\ Durable

LEMMA SavesSucceed ==
  ASSUME Shared, SaveOk \/ SaveFail
  PROVE  /\ disk' = Payload /\ disk'.active = active /\ UNCHANGED <<journal, budget>>
BY DEF Shared, SaveOk, SaveFail, Payload

LEMMA IdleTied == ASSUME NEW t, pc'[t] = "idle" PROVE Tied(t)'
BY DEF Tied, Begun, Same, Untouched, Live, Early, Planning, Looping, Holding

\* The steps of a thread.
LEMMA ThreadDurable ==
  ASSUME Sound, NEW t \in Threads, Advances(t), Shared', Known', Resting', Tied(t)'
  PROVE  Durable'
<1>1. \A u \in Threads \ {t} : pc'[u] = "idle"
  BY DEF Sound, Serialized, Advances, Live
<1>2. ASSUME NEW u \in Threads \ {t} PROVE Tied(u)'
  BY <1>1, IdleTied
<1> QED
  BY <1>2 DEF Durable

\* What files and memory promise, when nothing but the state file is written.
LEMMA SharedStays ==
  ASSUME Shared, UNCHANGED <<active, journal, acked, nScans, fin, budget>>,
         disk' = disk \/ disk'.active = active
  PROVE  Shared'
<1>1. Blank(0)' /\ Issued' /\ Kept(active)' /\ Formed(active)'
  BY DEF Shared, Blank, Issued, Kept, Formed
<1>2. Kept(disk.active)' /\ Formed(disk.active)'
  BY DEF Shared, Kept, Formed
<1>3. Finalizing'
  BY DEF Shared, Finalizing
<1> QED
  BY <1>1, <1>2, <1>3 DEF Shared, SoundFiles

LEMMA KnownStays ==
  ASSUME Sound, NEW t \in Threads, pc[t] # "record" \/ UNCHANGED <<pc, cur>>, Live(t),
         UNCHANGED <<active, acked>>
  PROVE  Known'
<1>1. CASE pc[t] # "record"
  <2>1. \A u \in Threads : pc[u] # "record"
    BY <1>1 DEF Sound, Serialized, Live
  <2> QED
    BY <2>1 DEF Sound, Durable, Known
<1>2. CASE UNCHANGED <<pc, cur>>
  BY <1>2 DEF Sound, Durable, Known
<1> QED
  BY <1>1, <1>2

LEMMA BusyRests == ASSUME NEW t \in Threads, Live(t)' PROVE Resting'
BY DEF Resting, Unwinding

\* A thread moves on, and writes at most the state file.
LEMMA MovesDurable ==
  ASSUME Sound, NEW t \in Threads, Advances(t), pc[t] # "record" \/ UNCHANGED <<pc, cur>>, Live(t)',
         UNCHANGED <<active, journal, acked, fin, budget>>, disk' = disk \/ disk'.active = active,
         Tied(t)'
  PROVE  Durable'
<1>1. Shared'
  BY SharedStays DEF Sound, Durable, Advances
<1>2. Known'
  BY KnownStays DEF Advances
<1> QED
  BY <1>1, <1>2, BusyRests, ThreadDurable

-----------------------------------------------------------------------------
(* Each step of a thread. *)

LEMMA EarlyTied ==
  ASSUME NEW t, pc'[t] \in {"startSave", "resumeSave"}, scanId' # 0, active'.id = 0 => cancel'
  PROVE  Tied(t)'
BY DEF Tied, Begun, Same, Untouched, Live, Early, Planning, Looping, Holding

LEMMA StartSaveDurable ==
  ASSUME Sound, NEW t \in Threads, StartSave(t) \/ ResumeSave(t)
  PROVE  Durable'
<1>1. SaveOk /\ pc'[t] = "init" /\ UNCHANGED <<active, acked, fin, cancel, scanId>>
  BY SavesSucceed DEF StartSave, ResumeSave, Save, Sound, Durable, Shared, SaveFail, Goto,
     TypeOK, HandsOK, memory, ghosts
<1>2. disk'.active = active /\ UNCHANGED <<journal, budget>>
  BY <1>1 DEF SaveOk, Payload
<1>3. Tied(t) /\ Live(t) /\ pc[t] \notin {"record", "finalSave", "finalClear"}
  BY DEF Sound, Durable, StartSave, ResumeSave, Live
<1>4. Tied(t)'
  BY <1>1, <1>2, <1>3 DEF Tied, Begun, Same, Untouched, Live, Early, Planning, Looping, Holding
<1>5. Advances(t)
  BY ThreadAdvances DEF Sound, ScanThread
<1> QED
  BY <1>1, <1>2, <1>3, <1>4, <1>5, MovesDurable DEF Live

LEMMA ScanInitDurable ==
  ASSUME Sound, NEW t \in Threads, ScanInit(t)
  PROVE  Durable'
<1>1. /\ UNCHANGED <<active, disk, journal, acked, fin, budget, cancel, scanId>>
      /\ job'[t] = (IF active.id # 0 THEN active.id ELSE scanId)
      /\ items'[t] = active.items
      /\ pc'[t] = (IF active.ready THEN "plan" ELSE "snapshot")
  BY DEF ScanInit, Goto, memory, files, ghosts, Sound, TypeOK, HandsOK, LocalsOK
<1>2. /\ Tied(t) /\ pc[t] = "init" /\ Formed(active)
  BY DEF Sound, Durable, Shared, ScanInit
<1>3. Begun(t)' /\ Untouched(t)'
  BY <1>1, <1>2 DEF Tied, Begun, Untouched, Live, Looping, Holding
<1>4. Same(t)'
  BY <1>1, <1>2 DEF Tied, Begun, Same, Formed, Live, Early, Planning, Looping, Holding
<1>5. Advances(t)
  BY ThreadAdvances DEF Sound, ScanThread
<1> QED
  BY <1>1, <1>2, <1>3, <1>4, <1>5, MovesDurable DEF Live, Tied

LEMMA SnapshotSaveDurable ==
  ASSUME Sound, NEW t \in Threads, ScanSnapshotSave(t)
  PROVE  Durable'
<1>1. SaveOk /\ pc'[t] = "plan" /\ UNCHANGED <<active, acked, fin, cancel, scanId, job, items>>
  BY SavesSucceed DEF ScanSnapshotSave, Sound, Durable, Shared, SaveFail, Goto, TypeOK, HandsOK,
     ghosts
<1>2. disk'.active = active /\ UNCHANGED <<journal, budget>>
  BY <1>1 DEF SaveOk, Payload
<1>3. Tied(t) /\ pc[t] = "snapshotSave"
  BY DEF Sound, Durable, ScanSnapshotSave
<1>4. Begun(t)' /\ Untouched(t)'
  BY <1>1, <1>3 DEF Tied, Begun, Untouched, Live, Looping, Holding
<1>5. Same(t)'
  BY <1>1, <1>2, <1>3 DEF Tied, Same, Early, Planning, Looping, Holding
<1>6. Advances(t)
  BY ThreadAdvances DEF Sound, ScanThread
<1> QED
  BY <1>1, <1>2, <1>3, <1>4, <1>5, <1>6, MovesDurable DEF Live, Tied

LEMMA PlanSaveDurable ==
  ASSUME Sound, NEW t \in Threads, ScanPlanSave(t)
  PROVE  Durable'
<1>1. /\ SaveOk /\ pc'[t] = "loop" /\ queue'[t] = (IF cancel THEN {} ELSE items[t] \ done[t])
      /\ UNCHANGED <<active, acked, fin, cancel, scanId, job, items, done, rows, skipped>>
  BY SavesSucceed DEF ScanPlanSave, Pending, Sound, Durable, Shared, SaveFail, Goto, TypeOK,
     HandsOK, LocalsOK, ghosts
<1>2. disk'.active = active /\ UNCHANGED <<journal, budget>>
  BY <1>1 DEF SaveOk, Payload
<1>3. Tied(t) /\ pc[t] = "planSave" /\ Orderly(t)
  BY DEF Sound, Durable, ScanPlanSave, Serialized
<1>4. Begun(t)'
  BY <1>1, <1>3 DEF Tied, Begun, Live
<1>5. Same(t)'
  BY <1>1, <1>2, <1>3 DEF Tied, Same, Early, Planning, Looping, Holding
<1>6. Untouched(t)'
  <2>1. rows[t] = {} /\ skipped[t] = {}
    BY <1>3 DEF Orderly, Looping, Holding
  <2>2. ASSUME ~cancel, NEW i \in items[t] \ done[t]
        PROVE  <<job[t], i>> \notin acked
    <3>1. active.id = job[t]
      BY <1>3, <2>2 DEF Tied, Begun, Same, Live, Early
    <3>2. active.completed \subseteq done[t]
      BY <1>3, <3>1 DEF Tied, Same, Planning, Looping, Holding
    <3>3. \A u \in Threads : pc[u] # "record"
      BY <1>3 DEF Sound, Serialized, Live
    <3>4. i \in Items
      BY DEF Sound, TypeOK, LocalsOK
    <3> QED
      BY <2>2, <3>1, <3>2, <3>3, <3>4 DEF Sound, Durable, Known
  <2> QED
    BY <1>1, <2>1, <2>2 DEF Untouched, InHand, Holding
<1>7. Advances(t)
  BY ThreadAdvances DEF Sound, ScanThread
<1> QED
  BY <1>1, <1>2, <1>3, <1>4, <1>5, <1>6, <1>7, MovesDurable DEF Live, Tied

\* Inside the loop only the hands of the thread change.
LEMMA LoopDurable ==
  ASSUME Sound, NEW t \in Threads, pc[t] \in Looping, pc'[t] \in Looping,
         pc[t] # "record" \/ UNCHANGED <<pc, cur>>, Advances(t), Untouched(t)',
         UNCHANGED <<active, disk, journal, acked, fin, budget, job, items, done>>
  PROVE  Durable'
<1>1. Tied(t)
  BY DEF Sound, Durable
<1>2. Begun(t)' /\ Same(t)'
  BY <1>1 DEF Tied, Begun, Same, Live, Advances, Early, Planning, Looping, Holding
<1> QED
  BY <1>1, <1>2, MovesDurable DEF Tied, Live, Looping, Holding

LEMMA ProbeDurable ==
  ASSUME Sound, NEW t \in Threads, NEW i \in Items, Probe(t, i)
  PROVE  Durable'
<1>1. Advances(t)
  BY ThreadAdvances DEF Sound, ScanThread
<1>2. Untouched(t)
  BY DEF Sound, Durable, Tied
<1>3. Untouched(t)'
  BY <1>2 DEF Untouched, Probe, memory, InHand, ghosts, Sound, TypeOK, LocalsOK
<1> QED
  BY <1>1, <1>3, LoopDurable DEF Probe, memory, files, ghosts

LEMMA MergeDurable ==
  ASSUME Sound, NEW t \in Threads, NEW i \in Items, Merge(t, i)
  PROVE  Durable'
<1>1. Advances(t)
  BY ThreadAdvances DEF Sound, ScanThread
<1>2. Untouched(t)
  BY DEF Sound, Durable, Tied
<1>3. pc[t] = "loop" /\ pc'[t] = "journal"
  BY DEF Merge, MayMerge, Goto, Sound, TypeOK, HandsOK
<1>4. Untouched(t)'
  BY <1>2, <1>3 DEF Untouched, Merge, memory, InHand, Holding, Looping, ghosts, Sound, TypeOK,
     HandsOK, LocalsOK
<1> QED
  BY <1>1, <1>3, <1>4, LoopDurable DEF Merge, memory, files, ghosts, Looping, Holding

\* Past the loop, up to the release.
LEMMA TailDurable ==
  ASSUME Sound, NEW t \in Threads,
         BreakLoop(t) \/ EndLoop(t) \/ Tail(t) \/ SummaryCut(t) \/ ScanHistory(t)
  PROVE  Durable'
<1>1. Advances(t) /\ Tied(t)
  BY ThreadAdvances DEF Sound, Durable, ScanThread
<1>2. /\ UNCHANGED <<active, acked, fin, job>>
      /\ SaveOk \/ UNCHANGED <<files, budget>>
      /\ pc[t] \in {"loop", "tail", "summaryCut", "history"}
      /\ pc'[t] \in {"tail", "summaryCut", "history", "release"}
  BY SavesSucceed
     DEF BreakLoop, EndLoop, Tail, SummaryCut, ScanHistory, Save, SaveFail, Sound, Durable, Shared,
         Goto, TypeOK, HandsOK, memory, ghosts
<1>3. UNCHANGED <<journal, budget>> /\ (disk' = disk \/ disk'.active = active)
  BY <1>2 DEF SaveOk, Payload, files
<1>4. Begun(t)'
  BY <1>1, <1>2 DEF Advances, Tied, Begun, Live
<1>5. job'[t] # 0 /\ active'.id \in {0, job'[t]}
  BY <1>1, <1>2 DEF Tied, Same, Early
<1>6. Tied(t)'
  BY <1>2, <1>4, <1>5 DEF Tied, Same, Untouched, Planning, Looping, Holding
<1> QED
  BY <1>1, <1>2, <1>3, <1>6, MovesDurable DEF Live

LEMMA FinalSaveDurable ==
  ASSUME Sound, NEW t \in Threads, FinalSave(t)
  PROVE  Durable'
<1>1. Advances(t) /\ Tied(t)
  BY ThreadAdvances DEF Sound, Durable, ScanThread
<1>2. /\ SaveOk /\ pc[t] = "finalSave" /\ pc'[t] = "finalClear"
      /\ UNCHANGED <<active, acked, fin, job>>
  BY SavesSucceed DEF FinalSave, SaveFail, Sound, Durable, Shared, Goto, TypeOK, HandsOK, memory,
     ghosts
<1>3. UNCHANGED <<journal, budget>> /\ disk'.active = active
  BY <1>2 DEF SaveOk, Payload
<1>4. active.id = 0 /\ job[t] # 0
  BY <1>1, <1>2 DEF Tied, Same, Early
<1>5. Begun(t)'
  BY <1>1, <1>2 DEF Advances, Tied, Begun, Live
<1>6. Tied(t)'
  BY <1>2, <1>3, <1>4, <1>5 DEF Tied, Same, Untouched, Planning, Looping, Holding
<1> QED
  BY <1>1, <1>2, <1>3, <1>6, MovesDurable DEF Live

\* The journal is removed when nothing depends on it.
LEMMA ClearShared ==
  ASSUME Shared, ClearJournal, UNCHANGED <<active, acked, nScans>>, Finalizing',
         Blank(active.id), Blank(disk.active.id)
  PROVE  Shared'
<1>1. budget'.save = 0 /\ disk' = disk /\ ~journal'.torn
  <2>1. CASE journal' = EmptyJournal /\ UNCHANGED <<disk, budget>>
    BY <2>1 DEF Shared, EmptyJournal
  <2>2. CASE budget' = [budget EXCEPT !.journal = @ - 1] /\ UNCHANGED files
    BY <2>2 DEF Shared, files
  <2> QED
    BY <2>1, <2>2 DEF ClearJournal
<1>2. Kept(active)' /\ Kept(disk.active)'
  BY <1>1 DEF Blank, Kept
<1>3. Formed(active)' /\ Formed(disk.active)' /\ Blank(0)' /\ Issued'
  BY <1>1 DEF Shared, Formed, Blank, Issued
<1> QED
  BY <1>1, <1>2, <1>3 DEF Shared, SoundFiles

LEMMA ClearDurable ==
  ASSUME Sound, NEW t \in Threads, StartClear(t) \/ FinalClear(t)
  PROVE  Durable'
<1>1. Advances(t) /\ Tied(t) /\ Shared
  BY ThreadAdvances DEF Sound, Durable, ScanThread
<1>2. ClearJournal /\ UNCHANGED <<active, acked, fin, serving>>
  BY DEF StartClear, FinalClear, memory, ghosts
<1>3. disk' = disk
  BY <1>2 DEF ClearJournal, files
<1>4. Blank(active.id) /\ Blank(disk.active.id)
  BY <1>1 DEF Tied, Begun, Same, Shared, StartClear, FinalClear
<1>5. Shared'
  BY <1>1, <1>2, <1>3, <1>4, ClearShared DEF Shared, Finalizing, Advances
<1>6. pc[t] \in {"clear", "finalClear"}
  BY DEF StartClear, FinalClear
<1>7. Known'
  BY <1>1, <1>2, <1>6, KnownStays DEF Advances
<1>8. CASE StartClear(t)
  <2>1. pc[t] = "clear" /\ pc'[t] = "startSave" /\ UNCHANGED <<cancel, scanId>>
    BY <1>8 DEF StartClear, Goto, memory, Sound, TypeOK, HandsOK
  <2>2. Tied(t)'
    BY <1>1, <1>2, <1>6, <2>1, EarlyTied DEF Tied, Begun, Live
  <2> QED
    BY <1>1, <1>5, <1>7, <2>1, <2>2, BusyRests, ThreadDurable DEF Live
<1>9. CASE FinalClear(t)
  <2>1. active.id = 0 /\ disk.active.id = 0
    BY <1>1, <1>9 DEF FinalClear, Tied, Same
  <2>2. Resting'
    BY <1>2, <1>3, <2>1 DEF Resting
  <2>3. pc'[t] = "idle"
    BY <1>9 DEF FinalClear, Exit, Goto, Sound, TypeOK, HandsOK
  <2>4. Tied(t)'
    BY <2>3, IdleTied
  <2> QED
    BY <1>1, <1>5, <1>7, <2>2, <2>4, ThreadDurable
<1> QED
  BY <1>8, <1>9

\* The journal had failed: the state file takes the completed accounts instead.
LEMMA FallbackDurable ==
  ASSUME Sound, NEW t \in Threads, Fallback(t)
  PROVE  Durable'
<1>1. Advances(t) /\ Tied(t) /\ Shared /\ Known
  BY ThreadAdvances DEF Sound, Durable, ScanThread
<1>2. /\ disk'.active = active /\ UNCHANGED <<journal, budget>>
      /\ acked' = acked \cup {<<active.id, i>> : i \in active.completed}
      /\ pc[t] = "fallback" /\ pc'[t] = "loop"
      /\ UNCHANGED <<active, fin, job, items, done, queue, rows, skipped, cancel, scanId, nScans>>
  BY SavesSucceed DEF Fallback, SaveFail, Sound, Durable, Shared, Goto, TypeOK, HandsOK, memory
<1>3. active.id = 0 => active.completed = {}
  BY <1>1 DEF Shared, Formed
<1>4. Shared'
  <2>1. Blank(0)'
    BY <1>1, <1>2, <1>3 DEF Shared, Blank
  <2>2. active.id \in Nat /\ active.id <= nScans
    BY <1>2 DEF Sound, StopInv, Numbered, StopKept, TypeOK, MemoryOK, OthersOK, Scan
  <2>3. Issued'
    BY <1>1, <1>2, <2>2 DEF Shared, Issued
  <2>4. Kept(active)' /\ Formed(active)'
    BY <1>1, <1>2 DEF Shared, Kept, Formed
  <2>5. Kept(disk.active)' /\ Formed(disk.active)' /\ Finalizing'
    BY <1>1, <1>2, <2>4 DEF Kept, Formed, Finalizing, Shared
  <2> QED
    BY <1>1, <1>2, <2>1, <2>3, <2>4, <2>5 DEF Shared, SoundFiles
<1>5. Known'
  <2>1. \A u \in Threads : pc[u] # "record"
    BY <1>2 DEF Sound, Serialized, Live
  <2> QED
    BY <1>1, <1>2, <2>1 DEF Known
<1>6. Tied(t)'
  <2>1. Begun(t)'
    BY <1>1, <1>2 DEF Tied, Begun, Live
  <2>2. Same(t)'
    BY <1>1, <1>2 DEF Tied, Same, Early, Planning, Looping, Holding
  <2>3. Untouched(t)'
    BY <1>1, <1>2 DEF Tied, Same, Untouched, InHand, Early, Planning, Looping, Holding
  <2> QED
    BY <2>1, <2>2, <2>3 DEF Tied
<1> QED
  BY <1>1, <1>2, <1>4, <1>5, <1>6, BusyRests, ThreadDurable DEF Live

\* A snapshot is taken only in a scan that had none, and of which nothing was reported.
LEMMA SnapshotDurable ==
  ASSUME Sound, NEW t \in Threads, ScanSnapshot(t)
  PROVE  Durable'
<1>1. Advances(t) /\ Tied(t) /\ Shared /\ Known
  BY ThreadAdvances DEF Sound, Durable, ScanThread
<1>2. /\ pc[t] = "snapshot" /\ pc'[t] = "snapshotSave"
      /\ UNCHANGED <<disk, journal, acked, fin, budget, job, cancel, scanId, nScans>>
  BY DEF ScanSnapshot, Goto, files, ghosts, Sound, TypeOK, HandsOK
<1>3. /\ active'.id = active.id /\ active'.completed = active.completed
      /\ active.id = job[t] => active'.ready /\ active'.items = items'[t]
      /\ active.id # job[t] => active' = active
  BY DEF ScanSnapshot, Sound, TypeOK, MemoryOK, LocalsOK, Scan
<1>4. /\ ~active.ready /\ active.items = {} /\ active.completed = {}
      /\ job[t] # 0 /\ active.id \in {0, job[t]}
  BY <1>1, <1>2 DEF Tied, Same, Shared, Formed, Early
<1>5. Blank(active.id)
  BY <1>1, <1>4 DEF Shared, Kept, Blank
<1>6. Shared'
  <2>1. Kept(active)' /\ Formed(active)'
    BY <1>1, <1>2, <1>3, <1>4, <1>5 DEF Kept, Formed, Blank, Shared
  <2>2. Kept(disk.active)' /\ Formed(disk.active)' /\ Blank(0)' /\ Issued'
    BY <1>1, <1>2 DEF Shared, Kept, Formed, Blank, Issued
  <2>3. Finalizing'
    BY <1>1, <1>2, <1>3 DEF Shared, Finalizing
  <2> QED
    BY <1>1, <1>2, <2>1, <2>2, <2>3 DEF Shared, SoundFiles
<1>7. Known'
  BY <1>2, <1>3, <1>5 DEF Known, Blank
<1>8. Tied(t)'
  <2>1. Begun(t)'
    BY <1>1, <1>2, <1>3 DEF Tied, Begun, Live
  <2>2. Same(t)'
    BY <1>2, <1>3, <1>4 DEF Same, Early, Planning, Looping, Holding
  <2>3. Untouched(t)'
    BY <1>2 DEF Untouched, Looping, Holding
  <2> QED
    BY <2>1, <2>2, <2>3 DEF Tied
<1> QED
  BY <1>1, <1>2, <1>6, <1>7, <1>8, BusyRests, ThreadDurable DEF Live

\* The thread takes over what the active scan has completed.
LEMMA PlanDurable ==
  ASSUME Sound, NEW t \in Threads, ScanPlan(t)
  PROVE  Durable'
<1>1. Advances(t) /\ Tied(t) /\ Shared /\ Known
  BY ThreadAdvances DEF Sound, Durable, ScanThread
<1>2. /\ pc[t] = "plan" /\ pc'[t] = "planSave" /\ done'[t] = active.completed \cap items[t]
      /\ UNCHANGED <<disk, journal, acked, fin, budget, job, items, cancel, scanId, nScans>>
  BY DEF ScanPlan, Planned, Goto, files, ghosts, Sound, TypeOK, HandsOK, LocalsOK
<1>3. /\ active'.id = active.id /\ active'.ready = active.ready /\ active'.items = active.items
      /\ active.id = job[t] => active'.completed = done'[t]
      /\ active.id # job[t] => active' = active
  BY DEF ScanPlan, Sound, TypeOK, MemoryOK, LocalsOK, Scan
<1>4. active'.completed = active.completed
  BY <1>1, <1>2, <1>3 DEF Tied, Same, Shared, Formed, Planning
<1>5. Shared'
  <2>1. Kept(active)' /\ Formed(active)'
    BY <1>1, <1>2, <1>3, <1>4 DEF Kept, Formed, Shared
  <2>2. Kept(disk.active)' /\ Formed(disk.active)' /\ Blank(0)' /\ Issued'
    BY <1>1, <1>2 DEF Shared, Kept, Formed, Blank, Issued
  <2>3. Finalizing'
    BY <1>1, <1>2, <1>3 DEF Shared, Finalizing
  <2> QED
    BY <1>1, <1>2, <2>1, <2>2, <2>3 DEF Shared, SoundFiles
<1>6. Known'
  <2>1. \A u \in Threads : pc[u] # "record"
    BY <1>2 DEF Sound, Serialized, Live
  <2> QED
    BY <1>1, <1>2, <1>3, <1>4, <2>1 DEF Known
<1>7. Tied(t)'
  <2>1. Begun(t)'
    BY <1>1, <1>2, <1>3 DEF Tied, Begun, Live
  <2>2. Same(t)'
    BY <1>1, <1>2, <1>3 DEF Tied, Same, Early, Planning, Looping, Holding
  <2>3. Untouched(t)'
    BY <1>2 DEF Untouched, Looping, Holding
  <2> QED
    BY <2>1, <2>2, <2>3 DEF Tied
<1> QED
  BY <1>1, <1>2, <1>5, <1>6, <1>7, BusyRests, ThreadDurable DEF Live

\* A checkpoint: the row is in the journal before anyone is told.
LEMMA JournalDurable ==
  ASSUME Sound, NEW t \in Threads, Journal(t)
  PROVE  Durable'
<1>1. Advances(t) /\ Tied(t) /\ Shared /\ Known /\ Orderly(t)
  BY ThreadAdvances DEF Sound, Durable, Serialized, ScanThread
<1>2. /\ pc[t] = "journal"
      /\ UNCHANGED <<active, disk, fin, job, items, done, queue, rows, skipped, cur, cancel,
                     scanId, nScans>>
  BY DEF Journal, memory, files, Sound
<1>3. /\ budget'.save = budget.save
      /\ \/ /\ acked' = acked /\ journal' = journal /\ pc'[t] = "recordUnsaved"
         \/ /\ acked' = acked \cup {<<job[t], cur[t]>>} /\ pc'[t] = "record"
            /\ journal' = [journal EXCEPT !.rows = @ \cup {<<job[t], cur[t]>>}]
  BY <1>1 DEF Journal, Shared, Goto, files, Sound, TypeOK, HandsOK, OthersOK, Budget
<1>4. /\ job[t] # 0 /\ job[t] \in Nat /\ job[t] <= nScans /\ active.id \in {0, job[t]}
      /\ active.id = job[t] => active.items = items[t]
      /\ disk.active.id = job[t] => disk.active.items = items[t]
      /\ cur[t] \in items[t] /\ cur[t] \in Items /\ cur[t] \notin queue[t]
  <2>1. /\ job[t] # 0 /\ active.id \in {0, job[t]}
        /\ active.id = job[t] => active.items = items[t]
        /\ disk.active.id = job[t] => disk.active.items = items[t]
    BY <1>1, <1>2 DEF Tied, Same, Early, Planning, Looping, Holding
  <2>2. cur[t] \in items[t] /\ cur[t] \in Items /\ cur[t] \notin queue[t]
    BY <1>1, <1>2 DEF Tied, Untouched, Orderly, InHand, Looping, Holding, Sound, TypeOK, HandsOK
  <2>3. job[t] \in Nat /\ job[t] <= nScans
    BY <1>2, <2>1 DEF Sound, StopInv, Numbered, StopKept, Live, TypeOK, LocalsOK
  <2> QED
    BY <2>1, <2>2, <2>3
<1>5. /\ journal.rows \subseteq journal'.rows /\ journal'.torn = journal.torn
      /\ acked' # acked => <<job[t], cur[t]>> \in journal'.rows
      /\ acked' \subseteq acked \cup {<<job[t], cur[t]>>}
  BY <1>3 DEF Sound, TypeOK, FilesOK
<1>6. Shared'
  <2>1. Blank(0)' /\ Issued'
    BY <1>1, <1>2, <1>4, <1>5 DEF Shared, Blank, Issued
  <2>2. Kept(active)' /\ Kept(disk.active)'
    BY <1>1, <1>2, <1>4, <1>5 DEF Shared, Blank, Kept
  <2>3. Formed(active)' /\ Formed(disk.active)' /\ Finalizing'
    BY <1>1, <1>2 DEF Shared, Formed, Finalizing
  <2> QED
    BY <1>1, <1>3, <1>5, <2>1, <2>2, <2>3 DEF Shared, SoundFiles
<1>7. Known'
  <2>1. \A u \in Threads : pc[u] # "record"
    BY <1>2 DEF Sound, Serialized, Live
  <2> QED
    BY <1>1, <1>2, <1>3, <2>1 DEF Known
<1>8. Tied(t)'
  <2>1. Begun(t)'
    BY <1>1, <1>2, <1>3 DEF Tied, Begun, Live
  <2>2. Same(t)'
    BY <1>1, <1>2, <1>3 DEF Tied, Same, Early, Planning, Looping, Holding
  <2>3. queue[t] \cap (done[t] \cup rows[t] \cup skipped[t] \cup {cur[t]}) = {}
    BY <1>1, <1>2 DEF Tied, Untouched, InHand, Looping, Holding
  <2>4. cancel \/ \A i \in queue[t] : <<job[t], i>> \notin acked'
    BY <1>1, <1>2, <1>4, <1>5 DEF Tied, Untouched, Looping, Holding
  <2>5. Untouched(t)'
    BY <1>2, <1>3, <2>3, <2>4 DEF Untouched, InHand, Holding, Looping
  <2> QED
    BY <2>1, <2>2, <2>5 DEF Tied
<1> QED
  BY <1>1, <1>2, <1>3, <1>6, <1>7, <1>8, BusyRests, ThreadDurable DEF Live

\* The active scan learns of the row, whether or not it was written.
LEMMA RecordDurable ==
  ASSUME Sound, NEW t \in Threads, Record(t)
  PROVE  Durable'
<1>1. Advances(t) /\ Tied(t) /\ Shared /\ Known /\ Orderly(t)
  BY ThreadAdvances DEF Sound, Durable, Serialized, ScanThread
<1>2. /\ pc[t] \in {"record", "recordUnsaved"} /\ pc'[t] \in {"loop", "fallback"}
      /\ done'[t] = done[t] \cup {cur[t]}
      /\ UNCHANGED <<disk, journal, acked, fin, budget, job, items, queue, rows, skipped, cancel,
                     scanId, nScans>>
  BY DEF Record, Goto, files, ghosts, Sound, TypeOK, HandsOK, LocalsOK
<1>3. /\ active'.id = active.id /\ active'.ready = active.ready /\ active'.items = active.items
      /\ active.id = job[t] => active'.completed = done'[t]
      /\ active.id # job[t] => active' = active
  BY DEF Record, Sound, TypeOK, MemoryOK, LocalsOK, Scan
<1>4. /\ job[t] # 0 /\ active.id \in {0, job[t]}
      /\ active.id = job[t] => active.items = items[t] /\ active.completed \subseteq done[t]
      /\ cur[t] \in items[t] /\ done[t] \subseteq items[t]
  <2>1. /\ job[t] # 0 /\ active.id \in {0, job[t]}
        /\ active.id = job[t] => active.items = items[t] /\ active.completed \subseteq done[t]
    BY <1>1, <1>2 DEF Tied, Same, Early, Planning, Looping, Holding
  <2>2. cur[t] \in items[t] /\ done[t] \subseteq items[t]
    BY <1>1, <1>2 DEF Orderly, InHand, Looping, Holding
  <2> QED
    BY <2>1, <2>2
<1>5. active.completed \subseteq active'.completed
  BY <1>2, <1>3, <1>4
<1>6. Shared'
  <2>1. Kept(active)'
    BY <1>1, <1>2, <1>3, <1>5 DEF Kept, Shared
  <2>2. Formed(active)'
    BY <1>1, <1>2, <1>3, <1>4 DEF Formed, Shared
  <2>3. Kept(disk.active)' /\ Formed(disk.active)' /\ Blank(0)' /\ Issued'
    BY <1>1, <1>2 DEF Shared, Kept, Formed, Blank, Issued
  <2>4. Finalizing'
    BY <1>1, <1>2, <1>3 DEF Shared, Finalizing
  <2> QED
    BY <1>1, <1>2, <2>1, <2>2, <2>3, <2>4 DEF Shared, SoundFiles
<1>7. Known'
  <2>1. \A u \in Threads \ {t} : pc[u] # "record"
    BY <1>2 DEF Sound, Serialized, Live
  <2>2. CASE active.id = job[t]
    BY <1>1, <1>2, <1>3, <1>4, <1>5, <2>1, <2>2 DEF Known
  <2>3. CASE active.id = 0
    BY <1>1, <1>2, <1>3, <2>3 DEF Known, Shared, Blank
  <2> QED
    BY <1>4, <2>2, <2>3
<1>8. Tied(t)'
  <2>1. Begun(t)'
    BY <1>1, <1>2, <1>3 DEF Tied, Begun, Live
  <2>2. Same(t)'
    BY <1>1, <1>2, <1>3 DEF Tied, Same, Early, Planning, Looping, Holding
  <2>3. queue[t] \cap (done[t] \cup rows[t] \cup skipped[t] \cup {cur[t]}) = {}
    BY <1>1, <1>2 DEF Tied, Untouched, InHand, Looping, Holding
  <2>4. cancel \/ \A i \in queue[t] : <<job[t], i>> \notin acked
    BY <1>1, <1>2 DEF Tied, Untouched, Looping, Holding
  <2>5. Untouched(t)'
    BY <1>2, <2>3, <2>4 DEF Untouched, InHand, Holding, Looping
  <2> QED
    BY <2>1, <2>2, <2>5 DEF Tied
<1> QED
  BY <1>1, <1>2, <1>6, <1>7, <1>8, BusyRests, ThreadDurable DEF Live

LEMMA ReleaseDurable ==
  ASSUME Sound, NEW t \in Threads, Release(t)
  PROVE  Durable'
<1>1. Advances(t) /\ Tied(t) /\ Shared /\ Known
  BY ThreadAdvances DEF Sound, Durable, ScanThread
<1>2. /\ pc[t] = "release" /\ pc'[t] = "finalSave" /\ active' = Closed(t)
      /\ UNCHANGED <<disk, journal, acked, fin, budget, job, scanId, nScans>>
  BY DEF Release, Goto, files, ghosts, Sound, TypeOK, HandsOK
<1>3. job[t] # 0 /\ active.id \in {0, job[t]}
  BY <1>1, <1>2 DEF Tied, Same, Early
<1>4. active'.id = 0 /\ (active' = active \/ active' = NoScan)
  BY <1>2, <1>3 DEF Closed, NoScan
<1>5. Shared'
  <2>1. Kept(active)'
    BY <1>1, <1>2, <1>4 DEF Shared, Kept, Blank
  <2>2. Formed(active)'
    BY <1>1, <1>4 DEF Shared, Formed, NoScan
  <2>3. Kept(disk.active)' /\ Formed(disk.active)' /\ Blank(0)' /\ Issued'
    BY <1>1, <1>2 DEF Shared, Kept, Formed, Blank, Issued
  <2>4. Finalizing'
    BY <1>1, <1>2, <1>4 DEF Shared, Finalizing
  <2> QED
    BY <1>1, <1>2, <2>1, <2>2, <2>3, <2>4 DEF Shared, SoundFiles
<1>6. Known'
  BY <1>2, <1>4, <1>5 DEF Known, Shared, Blank
<1>7. Begun(t)'
  BY <1>1, <1>2 DEF Tied, Begun, Live
<1>8. Tied(t)'
  BY <1>2, <1>3, <1>4, <1>7 DEF Tied, Same, Untouched, Planning, Looping, Holding
<1> QED
  BY <1>1, <1>2, <1>5, <1>6, <1>8, BusyRests, ThreadDurable DEF Live

LEMMA ScanThreadDurable ==
  ASSUME Sound, NEW t \in Threads, ScanThread(t)
  PROVE  Durable'
<1>1. CASE \E i \in Items : Probe(t, i) \/ Merge(t, i)
  BY <1>1, ProbeDurable, MergeDurable
<1>2. CASE ~\E i \in Items : Probe(t, i) \/ Merge(t, i)
  BY <1>2, ClearDurable, StartSaveDurable, ScanInitDurable, SnapshotDurable, SnapshotSaveDurable,
     PlanDurable, PlanSaveDurable, TailDurable, JournalDurable, RecordDurable, FallbackDurable,
     ReleaseDurable, FinalSaveDurable DEF ScanThread
<1> QED
  BY <1>1, <1>2

-----------------------------------------------------------------------------
(* Those who start a thread, the handlers, and a crash. *)

LEMMA BeginDurable ==
  ASSUME Sound, NEW t \in Threads, ~Unwinding, Live(t)', Shared', Known', Tied(t)',
         \A u \in Threads \ {t} : pc'[u] = pc[u]
  PROVE  Durable'
<1>1. ASSUME NEW u \in Threads \ {t} PROVE Tied(u)'
  BY IdleTied DEF Unwinding, Live
<1> QED
  BY <1>1, BusyRests DEF Durable

LEMMA StartDurable ==
  ASSUME Sound, NEW t \in Threads, Start(t), ~overlapped'
  PROVE  Durable'
<1>1. /\ ~Unwinding /\ serving /\ nScans' = nScans + 1 /\ nScans \in Nat /\ nScans' <= MaxScans
      /\ scanId' = nScans' /\ pc' = [pc EXCEPT ![t] = "clear"]
      /\ UNCHANGED <<disk, journal, acked, fin, budget>>
      /\ active'.id = nScans' /\ ~active'.ready /\ active'.items = {} /\ active'.completed = {}
  <2>1. /\ ~Unwinding /\ serving /\ nScans' = nScans + 1 /\ nScans < MaxScans
        /\ scanId' = nScans' /\ pc' = [pc EXCEPT ![t] = "clear"]
        /\ UNCHANGED <<disk, journal, acked, fin, budget>> /\ active' = NewScan(nScans')
    BY DEF Start, Goto, files
  <2>2. nScans \in Nat
    BY BoundsAssumption DEF Sound, TypeOK, OthersOK
  <2>3. /\ active'.id = nScans' /\ ~active'.ready
        /\ active'.items = {} /\ active'.completed = {}
    BY <2>1 DEF NewScan, NoScan
  <2> QED
    BY <2>1, <2>2, <2>3, BoundsAssumption
<1>2. Shared /\ Resting /\ disk.active.id = 0 /\ fin = "idle" /\ pc'[t] = "clear"
  BY <1>1 DEF Sound, Durable, Resting, Unwinding, TypeOK, HandsOK
<1>3. ASSUME NEW i \in Items PROVE <<nScans', i>> \notin acked
  <2>1. nScans' \in 0 .. MaxScans
    BY <1>1, BoundsAssumption
  <2>2. <<nScans', i>> \in acked => nScans' <= nScans
    BY <1>2, <2>1 DEF Shared, Issued
  <2> QED
    BY <1>1, <2>2
<1>4. Shared'
  <2>1. Kept(active)' /\ Formed(active)'
    BY <1>1, <1>3 DEF Kept, Formed
  <2>2. Kept(disk.active)' /\ Formed(disk.active)' /\ Blank(0)' /\ Finalizing'
    BY <1>1, <1>2 DEF Shared, Kept, Formed, Blank, Finalizing
  <2>3. Issued'
    <3>1. ASSUME NEW s \in 0 .. MaxScans, NEW i \in Items, <<s, i>> \in acked PROVE s <= nScans'
      BY <1>1, <1>2, <3>1 DEF Shared, Issued
    <3> QED
      BY <1>1, <3>1 DEF Issued
  <2> QED
    BY <1>1, <1>2, <2>1, <2>2, <2>3 DEF Shared, SoundFiles
<1>5. Known'
  BY <1>1, <1>3 DEF Known
<1>6. Tied(t)'
  <2>1. Begun(t)'
    BY <1>1, <1>2, <1>3 DEF Begun, Live, Blank, Shared
  <2>2. Same(t)' /\ Untouched(t)'
    BY <1>2 DEF Same, Untouched, Early, Planning, Looping, Holding
  <2> QED
    BY <2>1, <2>2 DEF Tied
<1>7. \A u \in Threads \ {t} : pc'[u] = pc[u]
  BY <1>1 DEF Sound, TypeOK, HandsOK
<1> QED
  BY <1>1, <1>2, <1>4, <1>5, <1>6, <1>7, BeginDurable DEF Live

LEMMA RecoverDurable ==
  ASSUME Sound, NEW t \in Threads, Recover(t), ~overlapped'
  PROVE  Durable'
<1>1. /\ ~Unwinding /\ active.id # 0 /\ scanId' = active.id /\ pc' = [pc EXCEPT ![t] = "resumeSave"]
      /\ UNCHANGED <<active, disk, journal, acked, nScans, fin, budget>>
  BY DEF Recover, Resumable, Goto, files
<1>2. pc'[t] = "resumeSave" /\ \A u \in Threads \ {t} : pc'[u] = pc[u]
  BY <1>1 DEF Sound, TypeOK, HandsOK
<1>3. Shared'
  BY <1>1, SharedStays DEF Sound, Durable
<1>4. Known'
  BY <1>1 DEF Sound, Durable, Known, Unwinding, Live
<1>5. Tied(t)'
  BY <1>1, <1>2, EarlyTied
<1> QED
  BY <1>1, <1>2, <1>3, <1>4, <1>5, BeginDurable DEF Live

\* A handler writes the state file, notes a stop request, or closes the active scan.
LEMMA HandlerDurable ==
  ASSUME Sound, UNCHANGED <<threads, acked, scanId>>, cancel => cancel',
         \/ /\ disk' = disk
            /\ \/ active'.id = 0 /\ ~active'.ready /\ cancel'
               \/ /\ active'.id = active.id /\ active'.completed = active.completed
                  /\ active'.items = active.items /\ active'.ready = active.ready
         \/ active' = active /\ disk'.active = active,
         Shared', Resting'
  PROVE  Durable'
<1>1. Known'
  BY DEF Sound, Durable, Known, Shared, Blank, threads
<1>2. ASSUME NEW u \in Threads PROVE Tied(u)'
  <2>1. Tied(u) /\ Shared
    BY DEF Sound, Durable
  <2>2. Begun(u)'
    BY <2>1 DEF Tied, Begun, Live, threads, Shared, Blank
  <2>3. Same(u)'
    BY <2>1 DEF Tied, Same, threads, Early, Planning, Looping, Holding
  <2>4. Untouched(u)'
    BY <2>1 DEF Tied, Untouched, InHand, threads
  <2> QED
    BY <2>2, <2>3, <2>4 DEF Tied
<1> QED
  BY <1>1, <1>2 DEF Durable

LEMMA StopDurable ==
  ASSUME Sound, Stop
  PROVE  Durable'
<1>1. /\ UNCHANGED <<threads, acked, scanId, disk, journal, fin, nScans, serving>> /\ cancel'
      /\ active'.id = active.id /\ active'.completed = active.completed
      /\ active'.items = active.items /\ active'.ready = active.ready
      /\ budget'.save = budget.save
  BY DEF Stop, files, ghosts, Sound, TypeOK, MemoryOK, OthersOK, Scan, Budget
<1>2. Shared /\ Resting
  BY DEF Sound, Durable
<1>3. Shared'
  <2>1. Kept(active)' /\ Formed(active)'
    BY <1>1, <1>2 DEF Shared, Kept, Formed
  <2>2. Kept(disk.active)' /\ Formed(disk.active)' /\ Blank(0)' /\ Issued'
    BY <1>1, <1>2 DEF Shared, Kept, Formed, Blank, Issued
  <2>3. Finalizing'
    BY <1>1, <1>2 DEF Shared, Finalizing
  <2> QED
    BY <1>1, <1>2, <2>1, <2>2, <2>3 DEF Shared, SoundFiles
<1>4. Resting'
  BY <1>1, <1>2 DEF Resting, Unwinding, Live, threads
<1> QED
  BY <1>1, <1>3, <1>4, HandlerDurable

LEMMA SavesDurable ==
  ASSUME Sound, StopSave \/ SchedulerSave \/ Serve \/ UNCHANGED vars
  PROVE  Durable'
<1>1. /\ UNCHANGED <<threads, acked, scanId, cancel, active, nScans, fin, journal, budget>>
      /\ disk' = disk \/ disk'.active = active
  BY SavesSucceed DEF Sound, Durable, StopSave, SchedulerSave, Serve, vars, memory, files, ghosts
<1>2. Shared /\ Resting
  BY DEF Sound, Durable
<1>3. Shared'
  BY <1>1, <1>2, SharedStays
<1>4. Resting'
  <2>1. serving' = serving \/ (serving' /\ active.id = 0)
    BY DEF StopSave, SchedulerSave, Serve, vars
  <2> QED
    BY <1>1, <1>2, <2>1 DEF Resting, Unwinding, Live, threads
<1> QED
  BY <1>1, <1>3, <1>4, HandlerDurable

LEMMA FinalizerDurable ==
  ASSUME Sound, Finalizer
  PROVE  Durable'
<1>0. Shared /\ Resting
  BY DEF Sound, Durable
<1>1. CASE Finalize
  <2>1. /\ UNCHANGED <<threads, acked, disk, journal, nScans, budget>> /\ cancel'
        /\ active.id # 0 /\ scanId' = active.id /\ active' = NoScan /\ fin' = "history"
    BY <1>1 DEF Finalize, Cancelled, files, ghosts
  <2>2. active'.id = 0 /\ ~active'.ready /\ active'.items = {} /\ active'.completed = {}
    BY <2>1 DEF NoScan
  <2>3. scanId' = scanId
    BY <2>1 DEF Sound, StopInv, StopKept
  <2>4. Shared'
    BY <1>0, <2>1, <2>2 DEF Shared, SoundFiles, Kept, Formed, Blank, Issued, Finalizing
  <2>5. Resting'
    BY <2>1 DEF Resting, Unwinding
  <2> QED
    BY <2>1, <2>2, <2>3, <2>4, <2>5, HandlerDurable
<1>2. CASE FinalizeHistory
  <2>1. /\ UNCHANGED <<threads, acked, scanId, cancel, active, disk, journal, nScans, budget>>
        /\ fin # "idle" /\ fin' = "save"
    BY <1>2 DEF FinalizeHistory, files, ghosts
  <2>2. Shared'
    BY <1>0, <2>1 DEF Shared, SoundFiles, Kept, Formed, Blank, Issued, Finalizing
  <2>3. Resting'
    BY <2>1 DEF Resting, Unwinding
  <2> QED
    BY <2>1, <2>2, <2>3, HandlerDurable
<1>3. CASE FinalizeSave
  <2>1. /\ UNCHANGED <<threads, acked, scanId, cancel, active, nScans, journal, budget>>
        /\ fin # "idle" /\ fin' = "clear" /\ disk'.active = active
    BY <1>0, <1>3, SavesSucceed DEF FinalizeSave, Shared, SaveFail, memory, ghosts
  <2>2. Shared'
    BY <1>0, <2>1 DEF Shared, SoundFiles, Kept, Formed, Blank, Issued, Finalizing
  <2>3. Resting'
    BY <2>1 DEF Resting, Unwinding
  <2> QED
    BY <2>1, <2>2, <2>3, HandlerDurable
<1>4. CASE FinalizeClear
  <2>1. /\ UNCHANGED <<threads, acked, scanId, cancel, active, nScans>> /\ ClearJournal
        /\ disk' = disk /\ fin = "clear" /\ fin' = "idle" /\ serving'
    BY <1>4 DEF FinalizeClear, ClearJournal, memory, files, ghosts
  <2>2. active.id = 0 /\ disk.active.id = 0
    BY <1>0, <2>1 DEF Shared, Finalizing
  <2>3. Shared'
    BY <1>0, <2>1, <2>2, ClearShared DEF Shared, Finalizing
  <2>4. Resting'
    BY <2>1, <2>2 DEF Resting
  <2> QED
    BY <2>1, <2>3, <2>4, HandlerDurable
<1> QED
  BY <1>1, <1>2, <1>3, <1>4 DEF Finalizer

\* A restart reads the state file and the journal.
LEMMA CrashDurable ==
  ASSUME Sound, Crash
  PROVE  Durable'
<1>0. Shared
  BY DEF Sound, Durable
<1>1. /\ UNCHANGED <<disk, journal, acked, nScans>> /\ budget'.save = budget.save
      /\ active' = [disk.active EXCEPT !.completed = Recovered(disk, journal)]
      /\ fin' = "idle" /\ ~serving' /\ \A t \in Threads : pc'[t] = "idle"
  BY <1>0 DEF Crash, ghosts, Shared, SoundFiles, Sound, TypeOK, OthersOK, Budget
<1>2. /\ active'.id = disk.active.id /\ active'.ready = disk.active.ready
      /\ active'.items = disk.active.items
      /\ active'.completed = Recovered(disk, journal)
  BY <1>1 DEF Sound, TypeOK, FilesOK, Scan
<1>3. \A i \in Items : <<disk.active.id, i>> \in acked => i \in Recovered(disk, journal)
  BY <1>0 DEF Shared, Kept, Recovered
<1>4. Shared'
  <2>1. Kept(active)' /\ Formed(active)'
    BY <1>0, <1>1, <1>2, <1>3 DEF Shared, Kept, Formed, Recovered
  <2>2. Kept(disk.active)' /\ Formed(disk.active)' /\ Blank(0)' /\ Issued' /\ Finalizing'
    BY <1>0, <1>1 DEF Shared, Kept, Formed, Blank, Issued, Finalizing
  <2> QED
    BY <1>0, <1>1, <2>1, <2>2 DEF Shared, SoundFiles
<1>5. Known'
  BY <1>1, <1>2, <1>3 DEF Known
<1>6. Resting'
  BY <1>1, <1>2 DEF Resting
<1> QED
  BY <1>1, <1>4, <1>5, <1>6, IdleTied DEF Durable

LEMMA InitDurable == Init /\ SoundFiles => Durable
<1> SUFFICES ASSUME Init, SoundFiles PROVE Durable
  OBVIOUS
<1>1. /\ active = NoScan /\ disk.active = NoScan /\ acked = {} /\ fin = "idle" /\ ~journal.torn
      /\ budget.save = 0 /\ \A t \in Threads : pc[t] = "idle"
  BY DEF Init, Payload, SoundFiles, EmptyJournal
<1>2. Shared
  BY <1>1 DEF Shared, Blank, Issued, Finalizing, Kept, Formed, NoScan
<1>3. Known /\ Resting
  BY <1>1 DEF Known, Resting, NoScan
<1>4. \A t \in Threads : Tied(t)
  BY <1>1 DEF Tied, Begun, Same, Untouched, Live, Early, Planning, Looping, Holding
<1> QED
  BY <1>2, <1>3, <1>4 DEF Durable

\* All of it, as long as scans do not overlap.
DurableInv == StoppingInv /\ (overlapped \/ Durable)

LEMMA NextDurable == DurableInv /\ [Next]_vars => DurableInv'
<1> SUFFICES ASSUME DurableInv, [Next]_vars, ~overlapped' PROVE Durable'
  BY NextStops DEF DurableInv
<1>0. Sound
  BY OverlapSticks DEF DurableInv, StoppingInv, ScanInv, Sound
<1>1. CASE \E t \in Threads : Start(t) \/ Recover(t)
  BY <1>0, <1>1, StartDurable, RecoverDurable
<1>2. CASE \E t \in Threads : ScanThread(t)
  BY <1>0, <1>2, ScanThreadDurable
<1>3. CASE Stop \/ StopSave \/ SchedulerSave \/ Serve \/ UNCHANGED vars
  BY <1>0, <1>3, StopDurable, SavesDurable
<1>4. CASE Finalizer \/ Crash
  BY <1>0, <1>4, FinalizerDurable, CrashDurable
<1> QED
  BY <1>1, <1>2, <1>3, <1>4 DEF Next

LEMMA DurableAlways == Spec /\ SoundFiles => []DurableInv
<1>1. Init /\ SoundFiles => DurableInv
  BY InitType, InitSerialized, InitStops, InitDurable DEF DurableInv, StoppingInv, ScanInv
<1> QED
  BY <1>1, NextDurable, PTL DEF Spec

\* What was reported written is found again by a restart at any moment, when the disk takes
\* every save and a crash leaves whole lines: failed appends, crashes, stops and resumes in
\* any order do not lose it, as long as no scan was started while another was unwinding.
THEOREM CheckpointsSurviveAlways == Spec /\ SoundFiles => []CheckpointsSurvive
<1>1. DurableInv => CheckpointsSurvive
  BY DEF DurableInv, Durable, Shared, Kept, Recovered, CheckpointsSurvive
<1> QED
  BY <1>1, DurableAlways, PTL

\* Under the same conditions no account is probed for a scan that has its checkpoint.
THEOREM CompletedNotProbedAgainAlways == Spec /\ SoundFiles => CompletedNotProbedAgain
<1> DEFINE A == \A t \in Threads, i \in Items :
                  (i \notin rows[t] /\ i \in rows'[t]) => overlapped \/ <<job[t], i>> \notin acked
<1>1. DurableInv /\ [Next]_vars => [A]_vars
  <2> SUFFICES ASSUME DurableInv, Next, ~overlapped, NEW t \in Threads, NEW i \in Items,
                      i \notin rows[t], i \in rows'[t]
               PROVE  <<job[t], i>> \notin acked
    OBVIOUS
  <2>1. TypeOK /\ Untouched(t)
    BY DEF DurableInv, StoppingInv, ScanInv, Durable, Tied
  <2>2. PICK j \in Items : ~cancel /\ Probe(t, j)
    BY <2>1, RowsFromProbes
  <2>3. i = j /\ i \in queue[t] /\ pc[t] \in Looping
    BY <2>1, <2>2 DEF Probe, TypeOK, LocalsOK
  <2> QED
    BY <2>1, <2>2, <2>3 DEF Untouched
<1> QED
  BY <1>1, DurableAlways, PTL DEF Spec, CompletedNotProbedAgain
-----------------------------------------------------------------------------
(* The files refine the ledger. *)

\* The file is never ahead of memory, and behind it by the opening of one scan at most.
Filed ==
  /\ disk.active.id \in {0, disk.scanId} /\ disk.scanId <= scanId
  /\ disk.scanId = scanId /\ disk.active.id = 0 => active.id = 0
  /\ disk.scanId # scanId => active.items = {} /\ active.completed = {}
  /\ disk.active.id = active.id => /\ disk.active.items \subseteq active.items
                                   /\ disk.active.completed \subseteq active.completed
  /\ \A t \in Threads :
       /\ pc[t] = "clear" => disk.active.items = {} /\ active.items = {}
       /\ Live(t) /\ pc[t] \notin {"clear", "startSave"} => disk.scanId = scanId

\* What a step does to the files: a save, or a change of the journal alone.
Writes ==
  \/ active' = active /\ disk'.active = active /\ disk'.scanId = scanId /\ journal' = journal
  \/ disk' = disk /\ journal.rows \subseteq journal'.rows
  \/ disk' = disk /\ disk.active.items = {}

\* What it does to the active scan.
Grows ==
  \/ active'.id = 0
  \/ /\ active'.id = active.id
     /\ active.items \subseteq active'.items /\ active.completed \subseteq active'.completed

\* Before the scan is first written its thread leaves the active scan alone.
Unwritten == {"clear", "startSave"}

LEMMA ThreadWrites ==
  ASSUME Sound, NEW t \in Threads, ScanThread(t), Filed
  PROVE  /\ Writes /\ Grows /\ pc'[t] # "clear"
         /\ pc[t] \in Unwritten => active' = active
         /\ Live(t)' /\ pc'[t] \notin Unwritten => pc[t] \notin Unwritten \/ disk'.scanId = scanId
<1> USE DEF Unwritten, Goto, Live
<1>0. /\ Shared /\ Tied(t) /\ Orderly(t)
      /\ pc \in [Threads -> Labels] /\ done \in [Threads -> SUBSET Items]
  BY DEF Sound, Durable, Serialized, TypeOK, HandsOK, LocalsOK
<1>1. CASE StartClear(t) \/ FinalClear(t)
  <2>1. disk.active.items = {}
    BY <1>0, <1>1 DEF StartClear, FinalClear, Filed, Tied, Same, Shared, Formed
  <2>2. disk' = disk /\ active' = active
    BY <1>1 DEF StartClear, FinalClear, ClearJournal, memory, files
  <2>3. pc'[t] \in {"startSave", "idle"} /\ (pc'[t] = "idle" => pc[t] = "finalClear")
    BY <1>0, <1>1 DEF StartClear, FinalClear, Exit
  <2> QED
    BY <2>1, <2>2, <2>3 DEF Writes, Grows
<1>2. CASE StartSave(t) \/ ResumeSave(t) \/ ScanSnapshotSave(t) \/ ScanPlanSave(t) \/ Fallback(t)
           \/ FinalSave(t)
  <2>1. SaveOk /\ active' = active /\ pc'[t] # "clear"
    BY <1>0, <1>2, SavesSucceed
       DEF StartSave, ResumeSave, Save, ScanSnapshotSave, ScanPlanSave, Fallback, FinalSave,
           SaveFail, Shared, memory
  <2>2. disk'.active = active /\ disk'.scanId = scanId /\ journal' = journal
    BY <2>1 DEF SaveOk, Payload
  <2> QED
    BY <2>1, <2>2 DEF Writes, Grows
<1>3. CASE Tail(t)
  <2>1. active' = active /\ pc[t] = "tail" /\ pc'[t] # "clear" /\ (SaveOk \/ UNCHANGED files)
    BY <1>0, <1>3, SavesSucceed DEF Tail, Save, SaveFail, Shared, memory
  <2>2. CASE SaveOk
    <3>1. disk'.active = active /\ disk'.scanId = scanId /\ journal' = journal
      BY <2>2 DEF SaveOk, Payload
    <3> QED
      BY <2>1, <3>1 DEF Writes, Grows
  <2>3. CASE UNCHANGED files
    BY <2>1, <2>3 DEF Writes, Grows, files
  <2> QED
    BY <2>1, <2>2, <2>3
<1>4. CASE \/ \E i \in Items : Probe(t, i) \/ Merge(t, i)
           \/ ScanInit(t) \/ BreakLoop(t) \/ EndLoop(t) \/ SummaryCut(t) \/ ScanHistory(t)
  <2>1. /\ active' = active /\ UNCHANGED files
        /\ pc'[t] # "clear" /\ pc[t] \notin {"clear", "startSave"}
    BY <1>0, <1>4 DEF Probe, Looping, Holding, Merge, MayMerge, ScanInit, BreakLoop, EndLoop,
       SummaryCut, ScanHistory, memory
  <2> QED
    BY <2>1 DEF Writes, Grows, files
<1>5. CASE Journal(t)
  <2>1. active' = active /\ pc[t] = "journal" /\ pc'[t] # "clear" /\ disk' = disk
    BY <1>0, <1>5 DEF Journal, memory, files
  <2>2. journal.rows \subseteq journal'.rows
    BY <1>5 DEF Journal, files, Sound, TypeOK, FilesOK
  <2> QED
    BY <2>1, <2>2 DEF Writes, Grows
<1>6. CASE ScanSnapshot(t) \/ ScanPlan(t) \/ Record(t) \/ Release(t)
  <2>1. /\ UNCHANGED files /\ pc'[t] # "clear"
        /\ pc[t] \in {"snapshot", "plan", "record", "recordUnsaved", "release"}
    BY <1>0, <1>6 DEF ScanSnapshot, ScanPlan, Record, Release
  <2>2. Grows
    <3>1. CASE ScanSnapshot(t)
      <4>1. ~active.ready /\ active.items = {}
        BY <1>0, <3>1 DEF ScanSnapshot, Tied, Same, Shared, Formed
      <4>2. active'.id = active.id /\ active'.completed = active.completed
        BY <3>1 DEF ScanSnapshot
      <4> QED
        BY <4>1, <4>2 DEF Grows
    <3>2. CASE ScanPlan(t)
      <4>1. done'[t] = active.completed \cap items[t] /\ pc[t] = "plan"
        BY <1>0, <3>2 DEF ScanPlan, Planned
      <4>2. active' = IF active.id = job[t] THEN [active EXCEPT !.completed = done'[t]] ELSE active
        BY <3>2 DEF ScanPlan
      <4>3. active.id = job[t] => active.completed \subseteq items[t]
        BY <1>0, <4>1 DEF Tied, Same, Shared, Formed, Planning
      <4> QED
        BY <4>1, <4>2, <4>3 DEF Grows, Sound, TypeOK, MemoryOK, Scan
    <3>3. CASE Record(t)
      <4>1. done'[t] = done[t] \cup {cur[t]} /\ pc[t] \in {"record", "recordUnsaved"}
        BY <1>0, <3>3 DEF Record
      <4>2. active' = IF active.id = job[t] THEN [active EXCEPT !.completed = done'[t]] ELSE active
        BY <3>3 DEF Record
      <4>3. active.id = job[t] => active.completed \subseteq done[t]
        BY <1>0, <4>1 DEF Tied, Same, Planning, Looping, Holding
      <4> QED
        BY <4>1, <4>2, <4>3 DEF Grows, Sound, TypeOK, MemoryOK, Scan
    <3>4. CASE Release(t)
      <4>1. active' = Closed(t) /\ active.id \in {0, job[t]}
        BY <1>0, <3>4 DEF Release, Tied, Same, Early
      <4> QED
        BY <4>1 DEF Closed, NoScan, Grows
    <3> QED
      BY <1>6, <3>1, <3>2, <3>3, <3>4
  <2> QED
    BY <2>1, <2>2 DEF Writes, files
<1> QED
  BY <1>1, <1>2, <1>3, <1>4, <1>5, <1>6 DEF ScanThread

\* The same of the handlers.
LEMMA HandlersWrite ==
  ASSUME Sound, Stop \/ StopSave \/ Finalizer \/ Serve \/ SchedulerSave \/ UNCHANGED vars
  PROVE  /\ Writes /\ Grows /\ UNCHANGED <<pc, scanId>>
         /\ active'.id = 0 \/ (active'.items = active.items /\ active'.completed = active.completed)
<1>0. Shared
  BY DEF Sound, Durable
<1>1. CASE StopSave \/ SchedulerSave \/ FinalizeSave
  <2>1. SaveOk /\ UNCHANGED <<active, pc, scanId>>
    BY <1>0, <1>1, SavesSucceed DEF StopSave, SchedulerSave, FinalizeSave, SaveFail, Shared, memory,
       threads
  <2>2. disk'.active = active /\ disk'.scanId = scanId /\ journal' = journal
    BY <2>1 DEF SaveOk, Payload
  <2> QED
    BY <2>1, <2>2 DEF Writes, Grows
<1>2. CASE FinalizeHistory \/ Serve \/ UNCHANGED vars
  <2>1. UNCHANGED <<active, pc, scanId>> /\ UNCHANGED files
    BY <1>2 DEF FinalizeHistory, Serve, vars, memory, threads
  <2> QED
    BY <2>1 DEF Writes, Grows, files
<1>3. CASE FinalizeClear
  <2>1. disk.active.items = {}
    BY <1>0, <1>3 DEF FinalizeClear, Shared, Finalizing, Formed
  <2>2. UNCHANGED <<active, pc, scanId, disk>>
    BY <1>3 DEF FinalizeClear, ClearJournal, memory, files, threads
  <2> QED
    BY <2>1, <2>2 DEF Writes, Grows
<1>4. CASE Stop
  <2>1. /\ UNCHANGED <<pc, scanId>> /\ UNCHANGED files
        /\ active'.id = active.id /\ active'.items = active.items
        /\ active'.completed = active.completed
    BY <1>4 DEF Stop, threads
  <2> QED
    BY <2>1 DEF Writes, Grows, files
<1>5. CASE Finalize
  <2>1. /\ UNCHANGED pc /\ UNCHANGED files /\ scanId' = active.id /\ active.id # 0 /\ active'.id = 0
    BY <1>5 DEF Finalize, Cancelled, NoScan, threads
  <2>2. scanId' = scanId
    BY <2>1 DEF Sound, StopInv, StopKept
  <2> QED
    BY <2>1, <2>2 DEF Writes, Grows, files
<1> QED
  BY <1>1, <1>2, <1>3, <1>4, <1>5 DEF Finalizer

\* Both kinds of steps keep the file where it is, relative to memory.
LEMMA FiledKept ==
  ASSUME Sound, Filed, Writes, Grows, scanId' = scanId, Formed(active)', Formed(disk.active)',
         disk.scanId # scanId =>
           active'.id = 0 \/ (active'.items = active.items /\ active'.completed = active.completed),
         \A t \in Threads :
           /\ pc'[t] = "clear" =>
                pc[t] = "clear" /\ (active'.id = 0 \/ active'.items = active.items)
           /\ Live(t)' /\ pc'[t] \notin Unwritten =>
                disk'.scanId = scanId \/ (Live(t) /\ pc[t] \notin Unwritten)
  PROVE  Filed'
<1>1. active'.id = 0 => active'.items = {} /\ active'.completed = {}
  BY DEF Formed
<1>2. disk.active.id = 0 => disk.active.items = {} /\ disk.active.completed = {}
  BY DEF Sound, Durable, Shared, Formed
<1>3. CASE active' = active /\ disk'.active = active /\ disk'.scanId = scanId
  BY <1>3 DEF Filed, Sound, StopInv, StopKept, TypeOK, MemoryOK
<1>4. CASE disk' = disk
  <2>1. /\ disk'.active.id \in {0, disk'.scanId} /\ disk'.scanId <= scanId'
        /\ disk'.scanId = scanId' /\ disk'.active.id = 0 => active'.id = 0
    BY <1>4 DEF Filed, Grows
  <2>2. disk'.scanId # scanId' => active'.items = {} /\ active'.completed = {}
    BY <1>1, <1>4 DEF Filed
  <2>3. disk'.active.id = active'.id => /\ disk'.active.items \subseteq active'.items
                                        /\ disk'.active.completed \subseteq active'.completed
    BY <1>2, <1>4 DEF Filed, Grows
  <2>4. ASSUME NEW t \in Threads
        PROVE  /\ pc'[t] = "clear" => disk'.active.items = {} /\ active'.items = {}
               /\ Live(t)' /\ pc'[t] \notin {"clear", "startSave"} => disk'.scanId = scanId'
    BY <1>1, <1>4 DEF Filed, Unwritten
  <2> QED
    BY <2>1, <2>2, <2>3, <2>4 DEF Filed
<1> QED
  BY <1>3, <1>4 DEF Writes

LEMMA NextFiled ==
  ASSUME Sound, Filed, Durable', [Next]_vars, ~overlapped'
  PROVE  Filed'
<1>0. Shared /\ Resting /\ Formed(active)' /\ Formed(disk.active)'
  BY DEF Sound, Durable, Shared
<1>1. ASSUME NEW t \in Threads, Start(t) PROVE Filed'
  <2>1. /\ ~Unwinding /\ serving /\ nScans' = nScans + 1
        /\ scanId' = nScans' /\ pc' = [pc EXCEPT ![t] = "clear"] /\ disk' = disk
        /\ active' = NewScan(nScans')
    BY <1>1 DEF Start, Goto, files
  <2>2. /\ active'.id = nScans' /\ active'.items = {} /\ active'.completed = {}
    BY <2>1 DEF NewScan, NoScan
  <2>3. disk.active.id = 0 /\ disk.active.items = {}
    BY <1>0, <2>1 DEF Resting, Shared, Formed
  <2>4. nScans \in Nat /\ disk.scanId \in Nat /\ disk.scanId <= nScans
    BY DEF Sound, TypeOK, FilesOK, OthersOK, StopInv, Numbered
  <2>5. \A u \in Threads : pc'[u] = (IF u = t THEN "clear" ELSE "idle")
    BY <2>1 DEF Unwinding, Live, Sound, TypeOK, HandsOK
  <2> QED
    BY <2>1, <2>2, <2>3, <2>4, <2>5 DEF Filed, Live
<1>2. ASSUME NEW t \in Threads, Recover(t) PROVE Filed'
  <2>1. /\ ~Unwinding /\ active.id # 0 /\ scanId' = active.id
        /\ pc' = [pc EXCEPT ![t] = "resumeSave"] /\ UNCHANGED <<active, disk>>
    BY <1>2 DEF Recover, Resumable, Goto, files
  <2>2. disk.active.id = active.id /\ scanId' = scanId
    BY <1>0, <2>1 DEF Resting, Sound, StopInv, StopKept
  <2>3. disk.scanId = scanId
    BY <2>1, <2>2 DEF Filed
  <2>4. \A u \in Threads : pc'[u] = (IF u = t THEN "resumeSave" ELSE "idle")
    BY <2>1 DEF Unwinding, Live, Sound, TypeOK, HandsOK
  <2> QED
    BY <2>1, <2>2, <2>3, <2>4 DEF Filed, Live
<1>3. ASSUME NEW t \in Threads, ScanThread(t) PROVE Filed'
  <2>1. Advances(t) /\ \A u \in Threads \ {t} : pc[u] = "idle" /\ pc'[u] = "idle"
    BY <1>3, ThreadAdvances DEF Sound, Serialized, Advances, Live
  <2>2. Live(t) /\ scanId' = scanId
    BY <2>1 DEF Advances
  <2>3. disk.scanId # scanId => pc[t] \in Unwritten
    BY <2>2 DEF Filed, Unwritten
  <2>4. /\ Writes /\ Grows /\ pc'[t] # "clear"
        /\ pc[t] \in Unwritten => active' = active
        /\ Live(t)' /\ pc'[t] \notin Unwritten => pc[t] \notin Unwritten \/ disk'.scanId = scanId
    BY <1>3, ThreadWrites
  <2>5. ASSUME NEW u \in Threads
        PROVE  /\ pc'[u] # "clear"
               /\ Live(u)' /\ pc'[u] \notin Unwritten =>
                    disk'.scanId = scanId \/ (Live(u) /\ pc[u] \notin Unwritten)
    BY <2>1, <2>2, <2>4 DEF Live
  <2> QED
    BY <1>0, <2>2, <2>3, <2>4, <2>5, FiledKept
<1>4. CASE Stop \/ StopSave \/ Finalizer \/ Serve \/ SchedulerSave \/ UNCHANGED vars
  <2>1. /\ Writes /\ Grows /\ UNCHANGED <<pc, scanId>>
        /\ active'.id = 0 \/ (active'.items = active.items /\ active'.completed = active.completed)
    BY <1>4, HandlersWrite
  <2> QED
    BY <1>0, <2>1, FiledKept DEF Live
<1>5. CASE Crash
  <2>1. /\ disk' = disk /\ active' = [disk.active EXCEPT !.completed = Recovered(disk, journal)]
        /\ scanId' = (IF disk.active.id # 0 THEN disk.active.id ELSE disk.scanId)
        /\ \A t \in Threads : pc'[t] = "idle"
    BY <1>5 DEF Crash
  <2>2. /\ active'.id = disk.active.id /\ active'.items = disk.active.items
        /\ disk.active.completed \subseteq active'.completed
    BY <2>1 DEF Recovered, Sound, TypeOK, FilesOK, Scan
  <2>3. scanId' = disk.scanId /\ disk.scanId \in Nat
    BY <2>1 DEF Filed, Sound, TypeOK, FilesOK
  <2> QED
    BY <2>1, <2>2, <2>3 DEF Filed, Live
<1> QED
  BY <1>1, <1>2, <1>3, <1>4, <1>5 DEF Next

LEMMA InitFiled == Init => Filed
<1> SUFFICES ASSUME Init PROVE Filed
  OBVIOUS
<1>1. active = NoScan /\ disk.active = NoScan /\ disk.scanId = 0 /\ scanId = 0
      /\ \A t \in Threads : pc[t] = "idle"
  BY DEF Init, Payload
<1> QED
  BY <1>1 DEF Filed, NoScan, Live

\* What each kind of write is to the ledger.
LEMMA WritesLedger ==
  ASSUME Sound, Filed, Formed(disk.active)', Writes
  PROVE  [Ledger!Next]_(Ledger!vars)
<1> USE DEF Ledger!vars
<1>0. /\ disk.scanId \in Nat /\ scanId \in Nat /\ Formed(disk.active)
      /\ active.id \in {0, scanId}
  BY DEF Sound, TypeOK, FilesOK, MemoryOK, Durable, Shared, StopInv, StopKept
<1>1. CASE disk' = disk /\ journal.rows \subseteq journal'.rows
  <2>1. Recovered(disk, journal) \subseteq Recovered(disk, journal)'
    BY <1>1 DEF Recovered
  <2>2. CASE disk.active.id = 0
    BY <1>0, <1>1, <2>2 DEF Recovered, Formed
  <2>3. CASE disk.active.id # 0
    BY <1>1, <2>1, <2>3 DEF Ledger!Next, Ledger!Checkpoint
  <2> QED
    BY <2>2, <2>3
<1>2. CASE disk' = disk /\ disk.active.items = {}
  BY <1>2 DEF Recovered
<1>3. CASE active' = active /\ disk'.active = active /\ disk'.scanId = scanId /\ journal' = journal
  <2>1. active.id = 0 => active.items = {} /\ active.completed = {}
    BY <1>3 DEF Formed
  <2>2. disk.active.id = 0 => disk.active.items = {} /\ disk.active.completed = {}
    BY <1>0 DEF Formed
  <2>3. CASE disk.scanId # scanId
    <3>1. Recovered(disk, journal)' = {}
      BY <1>3, <2>3 DEF Filed, Recovered
    <3>2. disk'.scanId > disk.scanId /\ disk'.active.id \in {0, disk'.scanId}
      BY <1>0, <1>3, <2>3 DEF Filed
    <3> QED
      BY <3>1, <3>2 DEF Ledger!Next, Ledger!Open
  <2>4. CASE disk.scanId = scanId /\ disk.active.id = 0
    <3>1. active.id = 0
      BY <2>4 DEF Filed
    <3>2. Recovered(disk, journal) = {} /\ Recovered(disk, journal)' = {}
      BY <1>3, <2>1, <2>2, <2>4, <3>1 DEF Recovered
    <3> QED
      BY <1>3, <2>4, <3>1, <3>2
  <2>5. CASE disk.scanId = scanId /\ disk.active.id # 0 /\ active.id = 0
    <3>1. Recovered(disk, journal)' = {}
      BY <1>3, <2>1, <2>5 DEF Recovered
    <3> QED
      BY <1>3, <2>5, <3>1 DEF Ledger!Next, Ledger!Close
  <2>6. CASE disk.scanId = scanId /\ disk.active.id # 0 /\ active.id # 0
    <3>1. active.id = disk.active.id
      BY <1>0, <2>6 DEF Filed
    <3>2. Recovered(disk, journal) \subseteq Recovered(disk, journal)'
      BY <1>3, <3>1 DEF Filed, Recovered
    <3> QED
      BY <1>3, <2>6, <3>1, <3>2 DEF Ledger!Next, Ledger!Checkpoint
  <2> QED
    BY <2>3, <2>4, <2>5, <2>6
<1> QED
  BY <1>1, <1>2, <1>3 DEF Writes

LEMMA NextLedger ==
  ASSUME Sound, Filed, Durable', [Next]_vars, ~overlapped'
  PROVE  [Ledger!Next]_(Ledger!vars)
<1>0. Formed(disk.active)' /\ SoundFiles
  BY DEF Sound, Durable, Shared
<1>1. CASE (\E t \in Threads : Start(t) \/ Recover(t)) \/ Crash
  <2>1. UNCHANGED files
    BY <1>0, <1>1 DEF Start, Recover, Crash, files, SoundFiles
  <2> QED
    BY <2>1 DEF files, Ledger!vars, Recovered
<1>2. CASE \E t \in Threads : ScanThread(t)
  BY <1>0, <1>2, ThreadWrites, WritesLedger
<1>3. CASE Stop \/ StopSave \/ Finalizer \/ Serve \/ SchedulerSave \/ UNCHANGED vars
  BY <1>0, <1>3, HandlersWrite, WritesLedger
<1> QED
  BY <1>1, <1>2, <1>3 DEF Next

LedgerInv == DurableInv /\ (overlapped \/ Filed)

LEMMA LedgerSound == LedgerInv /\ ~overlapped => Sound /\ Filed
BY DEF LedgerInv, DurableInv, StoppingInv, ScanInv, Sound

LEMMA NextLedgerInv == LedgerInv /\ [Next]_vars => LedgerInv'
<1> SUFFICES ASSUME LedgerInv, [Next]_vars, ~overlapped' PROVE Filed'
  BY NextDurable DEF LedgerInv
<1>1. ~overlapped
  BY OverlapSticks DEF LedgerInv, DurableInv, StoppingInv, ScanInv
<1>2. Durable'
  BY NextDurable DEF LedgerInv, DurableInv
<1> QED
  BY <1>1, <1>2, LedgerSound, NextFiled

\* To a reader of the files, the scans of a service that may crash at any moment are the ledger
\* of ScanLedger: one open scan at most, nothing completed is forgotten while it is open, and
\* none is opened twice.  The conditions are those of the checkpoints, and that no scan is
\* ever started while another is unwinding.
THEOREM FilesAreLedger == Spec /\ SoundFiles /\ []~overlapped => LedgerSpec
<1>1. Init /\ SoundFiles => LedgerInv /\ Ledger!Init
  <2> SUFFICES ASSUME Init, SoundFiles PROVE LedgerInv /\ Ledger!Init
    OBVIOUS
  <2>1. LedgerInv
    BY InitType, InitSerialized, InitStops, InitDurable, InitFiled
       DEF LedgerInv, DurableInv, StoppingInv, ScanInv
  <2>2. disk.active = NoScan /\ disk.scanId = 0
    BY DEF Init, Payload
  <2> QED
    BY <2>1, <2>2 DEF Ledger!Init, Recovered, NoScan
<1>2. LedgerInv /\ ~overlapped /\ (~overlapped)' /\ [Next]_vars => [Ledger!Next]_(Ledger!vars)
  <2> SUFFICES ASSUME LedgerInv, ~overlapped, ~overlapped', [Next]_vars
               PROVE  [Ledger!Next]_(Ledger!vars)
    OBVIOUS
  <2>1. Durable'
    BY NextDurable DEF LedgerInv, DurableInv
  <2> QED
    BY <2>1, LedgerSound, NextLedger
<1> QED
  BY <1>1, <1>2, NextLedgerInv, PTL DEF Spec, LedgerSpec, Ledger!Spec
=============================================================================
