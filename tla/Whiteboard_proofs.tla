------------------------- MODULE Whiteboard_proofs -------------------------
(***************************************************************************)
(* Invariants of Whiteboard for any number of saves, finalizations, ids,   *)
(* batches and failures.                                                   *)
(***************************************************************************)
EXTENDS Whiteboard, WbMerge_proofs, SequenceTheorems

\* Steps between a read that found a board and the write to Mongo.
Writing == {"match", "insert", "retry"}

\* Redis holds the last board, or none because Mongo has it for good.
LiveInv ==
  /\ seq > 0 => seq = Len(history) /\ board = history[seq] /\ StoredIds(board) # {}
  /\ seq = 0 => board = EmptyBoard
  /\ seq = 0 /\ history # <<>> => closed /\ savedSeq = Len(history)

SavedInv ==
  savedSeq > 0 => savedSeq <= Len(history) /\ saved = Visible(history[savedSeq])

\* What a process has read is one of the boards, under its own number.
ReadInv ==
  \A p \in Procs :
    /\ pc[p] \in Writing =>
         readSeq[p] \in 1..Len(history) /\ readBoard[p] = history[readSeq[p]]
    /\ pc[p] = "retry" => savedSeq > 0

\* A finalization past its flag has read, or finds in Mongo, the last board.
FinalInv ==
  \A f \in Finalizers :
    /\ pc[f] \in Writing \cup {"read", "del"} => closed
    /\ pc[f] \in Writing => readSeq[f] = Len(history)
    /\ pc[f] = "del" => history = <<>> \/ savedSeq = Len(history)

DoneInv == finalized => closed /\ (history = <<>> \/ savedSeq = Len(history))

SaveInv == LiveInv /\ SavedInv /\ ReadInv /\ FinalInv /\ DoneInv

CountInv == TypeOK /\ AliveCountsVisible

IInv == CountInv /\ (~Expiry => SaveInv)

-----------------------------------------------------------------------------
(* The counter of visible elements *)

LEMMA EmptyBoardIds ==
  /\ VisibleIds(EmptyBoard) = {}
  /\ StoredIds(EmptyBoard) = {}
  /\ Cardinality({}) = 0
BY FS_EmptySet DEF VisibleIds, StoredIds, EmptyBoard, IsVisible

LEMMA InitCount == Init => CountInv
<1> SUFFICES ASSUME Init PROVE CountInv
  OBVIOUS
<1>1. TypeOK
  BY EmptyBoardType, EmptySeq DEF Init, TypeOK, Steps
<1>2. AliveCountsVisible
  BY EmptyBoardIds, LimitsAssumption DEF Init, AliveCountsVisible
<1> QED BY <1>1, <1>2 DEF CountInv

LEMMA ApplyOpsCount ==
  ASSUME CountInv, NEW c \in Batches, ApplyOps(c)
  PROVE  CountInv'
<1> USE DEF CountInv
<1>1. board \in Boards /\ alive \in Nat /\ alive = Cardinality(VisibleIds(board))
      /\ alive <= MaxAlive /\ Cardinality(StoredIds(board)) <= MaxTotal
  BY DEF TypeOK, AliveCountsVisible
<1>2. board' = Merge(board, c) /\ board' \in Boards
  BY <1>1, MergeType DEF ApplyOps
<1>3. alive' = alive + AliveDelta(board, c) /\ ~OverLimit(board, alive, c)
  BY DEF ApplyOps, Accepts
<1>4. /\ AliveDelta(board, c) \in Int
      /\ Cardinality(VisibleIds(board')) \in Nat
      /\ Cardinality(VisibleIds(board')) = Cardinality(VisibleIds(board)) + AliveDelta(board, c)
      /\ Cardinality(StoredIds(board)) \in Nat
      /\ Cardinality(NewIds(board, c)) \in Nat
      /\ Cardinality(StoredIds(board')) =
           Cardinality(StoredIds(board)) + Cardinality(NewIds(board, c))
  BY <1>1, <1>2, MergeCounts
<1>5. alive' \in Nat /\ alive' = Cardinality(VisibleIds(board'))
  BY <1>1, <1>3, <1>4
<1>6. alive' <= MaxAlive
  BY <1>1, <1>3, <1>4, LimitsAssumption DEF OverLimit
<1>7. Cardinality(StoredIds(board')) <= MaxTotal
  <2>1. CASE NewIds(board, c) = {}
    BY <2>1, <1>1, <1>4, FS_EmptySet, LimitsAssumption
  <2>2. CASE NewIds(board, c) # {}
    BY <2>2, <1>3, <1>4, LimitsAssumption DEF OverLimit
  <2> QED BY <2>1, <2>2
<1>8. history' \in Seq(Boards)
  BY <1>2, AppendProperties DEF ApplyOps, TypeOK
<1>9. TypeOK'
  BY <1>2, <1>5, <1>8 DEF ApplyOps, TypeOK, mongo, reader
<1> QED BY <1>5, <1>6, <1>7, <1>9 DEF AliveCountsVisible

\* No other step touches the board and its counter except to drop both.
LEMMA KeysStep ==
  ASSUME CountInv, TypeOK', UNCHANGED redis \/ DropKeys
  PROVE  AliveCountsVisible'
<1>1. CASE UNCHANGED redis
  BY <1>1 DEF CountInv, AliveCountsVisible, redis
<1>2. CASE DropKeys
  BY <1>2, EmptyBoardIds, LimitsAssumption DEF AliveCountsVisible, DropKeys
<1> QED BY <1>1, <1>2

LEMMA NextCount ==
  ASSUME CountInv, [Next]_vars
  PROVE  CountInv'
<1> USE DEF Goto, Returned, WriteRead, Steps, redis, mongo, reader, ghosts
<1>0. TypeOK
  BY DEF CountInv
<1>1. ASSUME NEW c \in Batches, ApplyOps(c) PROVE CountInv'
  BY <1>1, ApplyOpsCount
<1>2. ASSUME NEW p \in Persisters, TryPersist(p) PROVE TypeOK' /\ UNCHANGED redis
  <2>1. pending' \in Nat
    BY <1>0, <1>2 DEF TypeOK, TryPersist
  <2>2. locked' \in BOOLEAN /\ pc' \in [Procs -> Steps]
    <3>1. CASE locked
      BY <3>1, <1>0, <1>2 DEF TypeOK, TryPersist
    <3>2. CASE ~locked
      BY <3>2, <1>0, <1>2 DEF TypeOK, TryPersist, Procs
    <3> QED BY <3>1, <3>2
  <2> QED BY <2>1, <2>2, <1>0, <1>2 DEF TypeOK, TryPersist
<1>3. ASSUME NEW p \in Procs, ReadBoard(p) PROVE TypeOK' /\ UNCHANGED redis
  BY <1>0, <1>3 DEF TypeOK, ReadBoard
<1>4. ASSUME NEW p \in Procs PROVE Visible(readBoard[p]) \in Boards
  BY <1>0, VisibleType DEF TypeOK
<1>5. ASSUME NEW p \in Procs, MatchDocument(p) PROVE TypeOK' /\ UNCHANGED redis
  BY <1>0, <1>4, <1>5 DEF TypeOK, MatchDocument
<1>6. ASSUME NEW p \in Procs, InsertDocument(p) PROVE TypeOK' /\ UNCHANGED redis
  BY <1>0, <1>4, <1>6 DEF TypeOK, InsertDocument
<1>7. ASSUME NEW p \in Procs, RetryUpdate(p) PROVE TypeOK' /\ UNCHANGED redis
  BY <1>0, <1>4, <1>7 DEF TypeOK, RetryUpdate
<1>8. ASSUME NEW p \in Procs, Fail(p) PROVE TypeOK' /\ UNCHANGED redis
  BY <1>0, <1>8 DEF TypeOK, Fail
<1>9. ASSUME NEW f \in Finalizers, StartFinalize(f) \/ CloseBoard(f)
      PROVE  TypeOK' /\ UNCHANGED redis
  BY <1>0, <1>9 DEF TypeOK, StartFinalize, CloseBoard, Procs
<1>10. ASSUME NEW f \in Finalizers, DeleteKeys(f) PROVE TypeOK' /\ DropKeys
  BY <1>0, <1>10, EmptyBoardType DEF TypeOK, DeleteKeys, DropKeys, Procs
<1>11. ASSUME LockExpires \/ DropTrigger \/ ClosedExpires PROVE TypeOK' /\ UNCHANGED redis
  <2>1. CASE LockExpires \/ ClosedExpires
    BY <1>0, <2>1 DEF TypeOK, LockExpires, ClosedExpires
  <2>2. CASE DropTrigger
    <3>1. pending' \in Nat /\ failures' \in Nat
      BY <1>0, <2>2 DEF TypeOK, DropTrigger
    <3> QED BY <3>1, <1>0, <2>2 DEF TypeOK, DropTrigger
  <2> QED BY <1>11, <2>1, <2>2
<1>12. ASSUME BoardExpires PROVE TypeOK' /\ DropKeys
  BY <1>0, <1>12, EmptyBoardType DEF TypeOK, BoardExpires, DropKeys
<1>13. ASSUME UNCHANGED vars PROVE TypeOK' /\ UNCHANGED redis
  BY <1>0, <1>13 DEF TypeOK, vars
<1>14. ASSUME TypeOK' /\ (UNCHANGED redis \/ DropKeys) PROVE CountInv'
  BY <1>14, KeysStep DEF CountInv
<1> QED
  BY <1>1, <1>2, <1>3, <1>5, <1>6, <1>7, <1>8, <1>9, <1>10, <1>11, <1>12, <1>13, <1>14
     DEF Next, PersistStep

\* Whatever batches, saves, finalizations, failures and expiries happen, the
\* variables keep their types: the counter of visible elements in particular
\* never goes below zero.
THEOREM TypeCorrect == Spec => []TypeOK
<1>1. Init => CountInv
  BY InitCount
<1>2. CountInv /\ [Next]_vars => CountInv'
  BY NextCount
<1>3. CountInv => TypeOK
  BY DEF CountInv
<1> QED BY <1>1, <1>2, <1>3, PTL DEF Spec

\* The counter kept by increments is the number of visible elements, and the
\* two limits hold, for any batches in any order.
THEOREM AliveCorrect == Spec => []AliveCountsVisible
<1>1. Init => CountInv
  BY InitCount
<1>2. CountInv /\ [Next]_vars => CountInv'
  BY NextCount
<1>3. CountInv => AliveCountsVisible
  BY DEF CountInv
<1> QED BY <1>1, <1>2, <1>3, PTL DEF Spec

-----------------------------------------------------------------------------
(* The saved copy, within the 24 h of the keys *)

LEMMA InitSave == Init => SaveInv
BY DEF Init, SaveInv, LiveInv, SavedInv, ReadInv, FinalInv, DoneInv, Writing, Procs

\* An accepted batch is the next board of the history, and the board is open.
LEMMA ApplyOpsSave ==
  ASSUME TypeOK, SaveInv, NEW c \in Batches, ApplyOps(c)
  PROVE  SaveInv'
<1> DEFINE n == Len(history)
<1>1. board \in Boards /\ history \in Seq(Boards) /\ seq \in Nat /\ savedSeq \in Nat
  BY DEF TypeOK
<1>2. board' = Merge(board, c) /\ board' \in Boards /\ history' = Append(history, board')
  BY <1>1, MergeType DEF ApplyOps
<1>3. /\ n \in Nat /\ history' # <<>> /\ Len(history') = n + 1
      /\ \A i \in 1..n : history'[i] = history[i]
      /\ history'[n + 1] = board'
  BY <1>1, <1>2, AppendProperties, LenProperties
<1>4. seq' = seq + 1 /\ ~closed /\ UNCHANGED <<closed, mongo, pc, reader, finalized>>
  BY DEF ApplyOps, Accepts
<1>5. seq = n
  BY <1>1, <1>3, <1>4, EmptySeq DEF SaveInv, LiveInv
<1>6. StoredIds(board') # {}
  <2>1. Winners(board, c) # {}
    BY DEF ApplyOps, Accepts
  <2> QED BY <2>1, <1>1, <1>2, MergeIds
<1>7. LiveInv'
  BY <1>1, <1>3, <1>4, <1>5, <1>6 DEF LiveInv
<1>8. SavedInv'
  BY <1>1, <1>3, <1>4 DEF SaveInv, SavedInv, mongo
<1>9. ReadInv'
  BY <1>1, <1>3, <1>4 DEF SaveInv, ReadInv, mongo, reader
<1>10. FinalInv' /\ DoneInv'
  BY <1>4 DEF SaveInv, FinalInv, DoneInv, Writing, Procs
<1> QED BY <1>7, <1>8, <1>9, <1>10 DEF SaveInv

\* One read: the board and its seq go together; on an open or closed board.
LEMMA ReadBoardSave ==
  ASSUME TypeOK, SaveInv, NEW p \in Procs, ReadBoard(p)
  PROVE  SaveInv'
<1> USE DEF Goto, Returned, redis, mongo, ghosts
<1>1. /\ pc \in [Procs -> Steps] /\ seq \in Nat /\ history \in Seq(Boards)
      /\ readSeq \in [Procs -> Nat] /\ readBoard \in [Procs -> Boards]
      /\ Len(history) \in Nat
  BY LenProperties DEF TypeOK
<1>2. UNCHANGED <<board, seq, closed, saved, savedSeq, history, finalized>> /\ pc[p] = "read"
  BY DEF ReadBoard
<1>3. /\ readBoard' = [readBoard EXCEPT ![p] = board]
      /\ readSeq' = [readSeq EXCEPT ![p] = seq]
  BY DEF ReadBoard
<1>4. LiveInv' /\ SavedInv' /\ DoneInv'
  BY <1>2 DEF SaveInv, LiveInv, SavedInv, DoneInv
<1>5. pc' = [pc EXCEPT ![p] = IF seq = 0 THEN IF p \in Finalizers THEN "del" ELSE "idle"
                              ELSE "match"]
  <2>1. CASE seq = 0
    BY <2>1 DEF ReadBoard
  <2>2. CASE seq # 0
    <3>1. StoredIds(board) # {}
      BY <2>2, <1>1 DEF SaveInv, LiveInv
    <3> QED BY <2>2, <3>1 DEF ReadBoard
  <2> QED BY <2>1, <2>2
<1>6. seq > 0 => seq \in 1..Len(history) /\ board = history[seq] /\ seq = Len(history)
  BY <1>1 DEF SaveInv, LiveInv
<1>7. ReadInv'
  BY <1>1, <1>2, <1>3, <1>5, <1>6 DEF SaveInv, ReadInv, Writing
<1>8. FinalInv'
  <2> SUFFICES ASSUME NEW f \in Finalizers
               PROVE  /\ pc'[f] \in Writing \cup {"read", "del"} => closed
                      /\ pc'[f] \in Writing => readSeq'[f] = Len(history)
                      /\ pc'[f] = "del" => history = <<>> \/ savedSeq = Len(history)
    BY <1>2 DEF FinalInv
  <2>1. f \in Procs
    BY DEF Procs
  <2>2. CASE f = p
    <3>1. closed
      BY <2>2, <1>2 DEF SaveInv, FinalInv
    <3>2. CASE seq = 0
      BY <3>1, <3>2, <2>1, <2>2, <1>1, <1>5 DEF SaveInv, LiveInv, Writing
    <3>3. CASE seq # 0
      BY <3>1, <3>3, <2>1, <2>2, <1>1, <1>3, <1>5, <1>6 DEF Writing
    <3> QED BY <3>2, <3>3
  <2>3. CASE f # p
    BY <2>1, <2>3, <1>1, <1>3, <1>5 DEF SaveInv, FinalInv
  <2> QED BY <2>2, <2>3
<1> QED BY <1>4, <1>7, <1>8 DEF SaveInv

\* A process that finds the document too new, or none, only moves on.
LEMMA MoveOnSave ==
  ASSUME TypeOK, SaveInv, NEW p \in Procs, NEW step \in Steps,
         pc' = [pc EXCEPT ![p] = step],
         pc[p] \in Writing, step \in {"insert", "retry"},
         step = "retry" => savedSeq > 0,
         UNCHANGED <<board, seq, closed, saved, savedSeq, readBoard, readSeq, history, finalized>>
  PROVE  SaveInv'
<1>1. pc \in [Procs -> Steps]
  BY DEF TypeOK
<1>2. LiveInv' /\ SavedInv' /\ DoneInv'
  BY DEF SaveInv, LiveInv, SavedInv, DoneInv
<1>3. ReadInv'
  BY <1>1 DEF SaveInv, ReadInv, Writing
<1>4. FinalInv'
  BY <1>1 DEF SaveInv, FinalInv, Writing, Procs
<1> QED BY <1>2, <1>3, <1>4 DEF SaveInv

\* A process that writes what it read, the guard having held.
LEMMA WriteSave ==
  ASSUME TypeOK, SaveInv, NEW p \in Procs, pc[p] \in Writing,
         savedSeq < readSeq[p], WriteRead(p), Returned(p),
         UNCHANGED <<board, seq, closed, readBoard, readSeq, history, finalized>>
  PROVE  SaveInv'
<1>1. /\ pc \in [Procs -> Steps] /\ seq \in Nat /\ savedSeq \in Nat
      /\ history \in Seq(Boards) /\ Len(history) \in Nat
  BY LenProperties DEF TypeOK
<1>2. /\ savedSeq' = readSeq[p] /\ saved' = Visible(readBoard[p])
      /\ readSeq[p] \in 1..Len(history) /\ readBoard[p] = history[readSeq[p]]
  BY DEF SaveInv, ReadInv, WriteRead
<1>3. pc' = [pc EXCEPT ![p] = IF p \in Finalizers THEN "del" ELSE "idle"]
  BY DEF Returned, Goto
<1>4. history # <<>>
  BY <1>1, <1>2, EmptySeq
<1>5. savedSeq # Len(history)
  BY <1>1, <1>2
<1>6. LiveInv'
  BY <1>1, <1>4, <1>5 DEF SaveInv, LiveInv
<1>7. SavedInv'
  BY <1>1, <1>2 DEF SavedInv
<1>8. ReadInv'
  BY <1>1, <1>2, <1>3 DEF SaveInv, ReadInv, Writing
<1>9. FinalInv'
  <2> SUFFICES ASSUME NEW f \in Finalizers
               PROVE  /\ pc'[f] \in Writing \cup {"read", "del"} => closed
                      /\ pc'[f] \in Writing => readSeq[f] = Len(history)
                      /\ pc'[f] = "del" => history = <<>> \/ savedSeq' = Len(history)
    BY DEF FinalInv
  <2>1. CASE f = p
    BY <2>1, <1>1, <1>2, <1>3 DEF SaveInv, FinalInv, Writing
  <2>2. CASE f # p
    BY <2>2, <1>1, <1>3, <1>4, <1>5 DEF SaveInv, FinalInv, Procs
  <2> QED BY <2>1, <2>2
<1>10. DoneInv'
  BY <1>4, <1>5 DEF SaveInv, DoneInv
<1> QED BY <1>6, <1>7, <1>8, <1>9, <1>10 DEF SaveInv

\* A retry that matches no document: Mongo already has the same or a later one.
LEMMA NoMatchSave ==
  ASSUME TypeOK, SaveInv, NEW p \in Procs, pc[p] = "retry", ~GuardHolds(p), Returned(p),
         UNCHANGED <<board, seq, closed, saved, savedSeq, readBoard, readSeq, history, finalized>>
  PROVE  SaveInv'
<1>1. /\ pc \in [Procs -> Steps] /\ seq \in Nat /\ savedSeq \in Nat
      /\ history \in Seq(Boards) /\ Len(history) \in Nat
  BY LenProperties DEF TypeOK
<1>2. pc' = [pc EXCEPT ![p] = IF p \in Finalizers THEN "del" ELSE "idle"]
  BY DEF Returned, Goto
<1>3. savedSeq > 0 /\ savedSeq >= readSeq[p] /\ readSeq[p] \in Nat
  BY <1>1 DEF SaveInv, ReadInv, GuardHolds, Writing
<1>4. LiveInv' /\ SavedInv' /\ DoneInv'
  BY DEF SaveInv, LiveInv, SavedInv, DoneInv
<1>5. ReadInv'
  BY <1>1, <1>2 DEF SaveInv, ReadInv, Writing
<1>6. FinalInv'
  <2> SUFFICES ASSUME NEW f \in Finalizers
               PROVE  /\ pc'[f] \in Writing \cup {"read", "del"} => closed
                      /\ pc'[f] \in Writing => readSeq[f] = Len(history)
                      /\ pc'[f] = "del" => history = <<>> \/ savedSeq = Len(history)
    BY DEF FinalInv
  <2>1. CASE f = p
    BY <2>1, <1>1, <1>2, <1>3 DEF SaveInv, FinalInv, SavedInv, Writing
  <2>2. CASE f # p
    BY <2>2, <1>1, <1>2 DEF SaveInv, FinalInv, Procs
  <2> QED BY <2>1, <2>2
<1> QED BY <1>4, <1>5, <1>6 DEF SaveInv

\* Steps that change neither the live board nor the saved one: what they need
\* is that they reach no step of a save, and finish no finalization wrongly.
LEMMA MoveSave ==
  ASSUME TypeOK, SaveInv, NEW p \in Procs, NEW step \in {"idle", "close", "read"},
         pc' = [pc EXCEPT ![p] = step],
         step = "read" /\ p \in Finalizers => closed',
         closed => closed',
         UNCHANGED <<board, seq, saved, savedSeq, readBoard, readSeq, history, finalized>>
  PROVE  SaveInv'
<1>1. pc \in [Procs -> Steps]
  BY DEF TypeOK
<1>2. LiveInv' /\ SavedInv' /\ DoneInv'
  BY DEF SaveInv, LiveInv, SavedInv, DoneInv
<1>3. ReadInv'
  BY <1>1 DEF SaveInv, ReadInv, Writing
<1>4. FinalInv'
  BY <1>1 DEF SaveInv, FinalInv, Writing, Procs
<1> QED BY <1>2, <1>3, <1>4 DEF SaveInv

\* The keys are deleted after a save that reached the last board.
LEMMA DeleteKeysSave ==
  ASSUME TypeOK, SaveInv, NEW f \in Finalizers, DeleteKeys(f)
  PROVE  SaveInv'
<1>1. /\ pc \in [Procs -> Steps] /\ f \in Procs /\ pc[f] = "del"
      /\ pc' = [pc EXCEPT ![f] = "idle"]
      /\ board' = EmptyBoard /\ seq' = 0 /\ finalized' = TRUE
      /\ UNCHANGED <<closed, saved, savedSeq, readBoard, readSeq, history>>
  BY DEF TypeOK, DeleteKeys, DropKeys, Goto, Procs, mongo, reader
<1>2. closed /\ (history = <<>> \/ savedSeq = Len(history))
  BY <1>1 DEF SaveInv, FinalInv
<1>3. LiveInv' /\ SavedInv' /\ DoneInv'
  BY <1>1, <1>2 DEF SaveInv, LiveInv, SavedInv, DoneInv
<1>4. ReadInv'
  BY <1>1 DEF SaveInv, ReadInv, Writing
<1>5. FinalInv'
  BY <1>1 DEF SaveInv, FinalInv, Writing, Procs
<1> QED BY <1>3, <1>4, <1>5 DEF SaveInv

\* Within the 24 h of the keys every step keeps the invariant.
LEMMA NextSave ==
  ASSUME ~Expiry, TypeOK, SaveInv, [Next]_vars
  PROVE  SaveInv'
<1> USE DEF redis, mongo, reader, ghosts, Goto
<1>1. ASSUME NEW c \in Batches, ApplyOps(c) PROVE SaveInv'
  BY <1>1, ApplyOpsSave
<1>2. ASSUME NEW p \in Procs, ReadBoard(p) PROVE SaveInv'
  BY <1>2, ReadBoardSave
<1>3. ASSUME NEW p \in Persisters, TryPersist(p) PROVE SaveInv'
  <2>1. CASE locked
    BY <1>3, <2>1 DEF TryPersist, SaveInv, LiveInv, SavedInv, ReadInv, FinalInv, DoneInv
  <2>2. CASE ~locked
    <3>1. p \in Procs /\ p \notin Finalizers
      BY ProcsAssumption DEF Procs
    <3> QED BY <1>3, <2>2, <3>1, MoveSave DEF TryPersist
  <2> QED BY <2>1, <2>2
<1>4. ASSUME NEW p \in Procs, MatchDocument(p) PROVE SaveInv'
  <2>1. pc[p] \in Writing /\ "insert" \in Steps
    BY <1>4 DEF MatchDocument, Writing, Steps
  <2>2. CASE GuardHolds(p)
    BY <1>4, <2>1, <2>2, WriteSave DEF MatchDocument, GuardHolds
  <2>3. CASE ~GuardHolds(p)
    BY <1>4, <2>1, <2>3, MoveOnSave DEF MatchDocument
  <2> QED BY <2>2, <2>3
<1>5. ASSUME NEW p \in Procs, InsertDocument(p) PROVE SaveInv'
  <2>1. pc[p] \in Writing /\ "retry" \in Steps
    BY <1>5 DEF InsertDocument, Writing, Steps
  <2>2. savedSeq \in Nat /\ readSeq[p] \in Nat /\ readSeq[p] > 0
    BY <2>1, LenProperties DEF TypeOK, SaveInv, ReadInv
  <2>3. CASE savedSeq = 0
    BY <1>5, <2>1, <2>2, <2>3, WriteSave DEF InsertDocument
  <2>4. CASE savedSeq # 0
    BY <1>5, <2>1, <2>2, <2>4, MoveOnSave DEF InsertDocument
  <2> QED BY <2>3, <2>4
<1>6. ASSUME NEW p \in Procs, RetryUpdate(p) PROVE SaveInv'
  <2>1. pc[p] = "retry" /\ pc[p] \in Writing
    BY <1>6 DEF RetryUpdate, Writing
  <2>2. CASE GuardHolds(p)
    BY <1>6, <2>1, <2>2, WriteSave DEF RetryUpdate, GuardHolds
  <2>3. CASE ~GuardHolds(p)
    BY <1>6, <2>1, <2>3, NoMatchSave DEF RetryUpdate
  <2> QED BY <2>2, <2>3
<1>7. ASSUME NEW p \in Procs, Fail(p) PROVE SaveInv'
  BY <1>7, MoveSave DEF Fail
<1>8. ASSUME NEW f \in Finalizers, StartFinalize(f) \/ CloseBoard(f) PROVE SaveInv'
  <2>1. f \in Procs
    BY DEF Procs
  <2>2. CASE StartFinalize(f)
    BY <2>1, <2>2, MoveSave DEF StartFinalize
  <2>3. CASE CloseBoard(f)
    BY <2>1, <2>3, MoveSave DEF CloseBoard
  <2> QED BY <1>8, <2>2, <2>3
<1>9. ASSUME NEW f \in Finalizers, DeleteKeys(f) PROVE SaveInv'
  BY <1>9, DeleteKeysSave
<1>10. ASSUME LockExpires \/ DropTrigger \/ UNCHANGED vars PROVE SaveInv'
  <2>1. UNCHANGED <<board, seq, closed, saved, savedSeq, pc, readBoard, readSeq,
                    history, finalized>>
    BY <1>10 DEF LockExpires, DropTrigger, vars
  <2> QED BY <2>1 DEF SaveInv, LiveInv, SavedInv, ReadInv, FinalInv, DoneInv
<1>11. ~BoardExpires /\ ~ClosedExpires
  BY DEF BoardExpires, ClosedExpires, DayPasses
<1> QED
  BY <1>1, <1>2, <1>3, <1>4, <1>5, <1>6, <1>7, <1>8, <1>9, <1>10, <1>11 DEF Next, PersistStep

LEMMA InitIInv == Init => IInv
BY InitCount, InitSave DEF IInv

LEMMA NextIInv ==
  ASSUME IInv, [Next]_vars
  PROVE  IInv'
<1>1. CountInv'
  BY NextCount DEF IInv
<1>2. ASSUME ~Expiry PROVE SaveInv'
  BY <1>2, NextSave DEF IInv, CountInv
<1> QED BY <1>1, <1>2 DEF IInv

\* The Mongo document is always one whole board that existed, under its own
\* number, however saves, finalizations and failures interleave.
THEOREM SavedCorrect == Spec => []SavedIsOneBoard
<1>1. IInv => SavedIsOneBoard
  BY DEF IInv, SaveInv, SavedInv, SavedIsOneBoard
<1> QED BY <1>1, InitIInv, NextIInv, PTL DEF Spec

\* The keys of a board somebody drew on are gone only when Mongo has its last
\* state.
THEOREM KeysCorrect == Spec => []KeysGoneOnlyAfterFinalCopy
<1>1. IInv => KeysGoneOnlyAfterFinalCopy
  BY DEF IInv, SaveInv, LiveInv, KeysGoneOnlyAfterFinalCopy
<1> QED BY <1>1, InitIInv, NextIInv, PTL DEF Spec

-----------------------------------------------------------------------------
(* What a step may do to the saved copy *)

\* The only steps that write to Mongo are those of a save whose guard held.
LEMMA MongoStep ==
  ASSUME TypeOK, [Next]_vars
  PROVE  \/ UNCHANGED mongo
         \/ \E p \in Procs : /\ pc[p] \in Writing
                             /\ savedSeq < readSeq[p] \/ savedSeq = 0
                             /\ WriteRead(p)
                             /\ UNCHANGED <<redis, closed, history, finalized>>
<1> USE DEF mongo, redis, ghosts
<1>1. ASSUME NEW p \in Procs, MatchDocument(p) \/ RetryUpdate(p), ~UNCHANGED mongo
      PROVE  /\ pc[p] \in Writing
             /\ savedSeq < readSeq[p] \/ savedSeq = 0
             /\ WriteRead(p)
             /\ UNCHANGED <<redis, closed, history, finalized>>
  BY <1>1 DEF MatchDocument, RetryUpdate, GuardHolds, Writing
<1>2. ASSUME NEW p \in Procs, InsertDocument(p), ~UNCHANGED mongo
      PROVE  /\ pc[p] \in Writing
             /\ savedSeq < readSeq[p] \/ savedSeq = 0
             /\ WriteRead(p)
             /\ UNCHANGED <<redis, closed, history, finalized>>
  BY <1>2 DEF InsertDocument, Writing
<1>3. ASSUME NEW c \in Batches, ApplyOps(c) PROVE UNCHANGED mongo
  BY <1>3 DEF ApplyOps
<1>4. ASSUME NEW p \in Persisters, TryPersist(p) PROVE UNCHANGED mongo
  BY <1>4 DEF TryPersist
<1>5. ASSUME NEW p \in Procs, ReadBoard(p) \/ Fail(p) PROVE UNCHANGED mongo
  BY <1>5 DEF ReadBoard, Fail
<1>6. ASSUME NEW f \in Finalizers, StartFinalize(f) \/ CloseBoard(f) \/ DeleteKeys(f)
      PROVE  UNCHANGED mongo
  BY <1>6 DEF StartFinalize, CloseBoard, DeleteKeys
<1>7. ASSUME LockExpires \/ DropTrigger \/ BoardExpires \/ ClosedExpires \/ UNCHANGED vars
      PROVE  UNCHANGED mongo
  BY <1>7 DEF LockExpires, DropTrigger, BoardExpires, ClosedExpires, vars
<1> QED BY <1>1, <1>2, <1>3, <1>4, <1>5, <1>6, <1>7 DEF Next, PersistStep

\* The lastSeq guard, with or without the keys expiring: no save, however slow,
\* puts an older board over a newer one.
THEOREM SavedMonotone == Spec => SavedNeverGoesBack
<1>1. CountInv /\ [Next]_vars => [savedSeq' >= savedSeq]_vars
  <2> SUFFICES ASSUME CountInv, [Next]_vars PROVE savedSeq' >= savedSeq
    OBVIOUS
  <2>1. TypeOK
    BY DEF CountInv
  <2>2. savedSeq \in Nat /\ \A p \in Procs : readSeq[p] \in Nat
    BY <2>1 DEF TypeOK
  <2> QED BY <2>1, <2>2, MongoStep DEF WriteRead, mongo
<1>2. CountInv /\ [Next]_vars => CountInv'
  BY NextCount
<1> QED BY <1>1, <1>2, InitCount, PTL DEF Spec, SavedNeverGoesBack

\* Within the 24 h of the keys nothing is written over the copy a finalization
\* left: any save still under way read a board that is no newer.
THEOREM FinalCorrect ==
  ASSUME ~Expiry
  PROVE  Spec => FinalCopyStands
<1>1. IInv /\ [Next]_vars => [finalized /\ savedSeq > 0 => saved' = saved]_vars
  <2> SUFFICES ASSUME IInv, [Next]_vars, finalized, savedSeq > 0 PROVE saved' = saved
    OBVIOUS
  <2>1. TypeOK /\ SaveInv
    BY DEF IInv, CountInv
  <2>2. history \in Seq(Boards) /\ Len(history) \in Nat /\ savedSeq \in Nat
    BY <2>1, LenProperties DEF TypeOK
  <2>3. savedSeq = Len(history)
    BY <2>1, <2>2, EmptySeq DEF SaveInv, DoneInv, SavedInv
  <2>4. ASSUME NEW p \in Procs, pc[p] \in Writing PROVE ~(savedSeq < readSeq[p])
    BY <2>1, <2>2, <2>3, <2>4 DEF SaveInv, ReadInv
  <2>5. savedSeq # 0
    OBVIOUS
  <2>6. UNCHANGED mongo
    BY <2>1, <2>4, <2>5, MongoStep
  <2> QED BY <2>6 DEF mongo
<1> QED BY <1>1, InitIInv, NextIInv, PTL DEF Spec, FinalCopyStands

-----------------------------------------------------------------------------
(* Elements only move forward *)

\* No id of board b is missing from board c or older in it.
NotOlder(b, c) ==
  \A id \in StoredIds(b) : id \in StoredIds(c) /\ ~Newer(b[id], c[id])

LEMMA NotOlderOrder ==
  /\ \A b \in Boards : NotOlder(b, b)
  /\ \A b, c, d \in Boards : NotOlder(b, c) /\ NotOlder(c, d) => NotOlder(b, d)
<1>1. \A b \in Boards : \A id \in StoredIds(b) : b[id] \in Elements
  BY DEF Boards, StoredIds
<1> QED BY <1>1, NewerOrder DEF NotOlder

\* Every board of the history is followed only by boards that are not older.
ForwardInv ==
  \A j, k \in 1..Len(history) : j <= k => NotOlder(history[j], history[k])

LEMMA InitForward == Init => ForwardInv
BY DEF Init, ForwardInv

LEMMA NextForward ==
  ASSUME ~Expiry, IInv, ForwardInv, [Next]_vars
  PROVE  ForwardInv'
<1>1. TypeOK /\ SaveInv
  BY DEF IInv, CountInv
<1>2. ASSUME NEW c \in Batches, ApplyOps(c) PROVE ForwardInv'
  <2> DEFINE n == Len(history)
  <2>1. board \in Boards /\ history \in Seq(Boards) /\ seq \in Nat /\ n \in Nat
    BY <1>1, LenProperties DEF TypeOK
  <2>2. board' = Merge(board, c) /\ board' \in Boards /\ history' = Append(history, board')
    BY <1>2, <2>1, MergeType DEF ApplyOps
  <2>3. /\ Len(history') = n + 1
        /\ \A i \in 1..n : history'[i] = history[i] /\ history[i] \in Boards
        /\ history'[n + 1] = board'
    BY <2>1, <2>2, AppendProperties, LenProperties, ElementOfSeq
  <2>4. n > 0 => board = history[n]
    <3>1. n > 0 => history # <<>>
      BY <2>1, EmptySeq
    <3>2. ~closed
      BY <1>2 DEF ApplyOps, Accepts
    <3> QED BY <3>1, <3>2, <1>1, <2>1 DEF SaveInv, LiveInv
  <2>5. NotOlder(board, board')
    BY <2>1, <2>2, MergeMonotone DEF NotOlder
  <2>6. ASSUME NEW j \in 1..n PROVE NotOlder(history[j], board')
    <3>1. NotOlder(history[j], history[n])
      BY <2>1 DEF ForwardInv
    <3> QED BY <3>1, <2>1, <2>2, <2>3, <2>4, <2>5, NotOlderOrder
  <2>7. ASSUME NEW j \in 1..Len(history'), NEW k \in 1..Len(history'), j <= k
        PROVE  NotOlder(history'[j], history'[k])
    <3>1. CASE k = n + 1 /\ j = n + 1
      BY <3>1, <2>2, <2>3, NotOlderOrder
    <3>2. CASE k = n + 1 /\ j \in 1..n
      BY <3>2, <2>3, <2>6
    <3>3. CASE k \in 1..n /\ j \in 1..n
      BY <3>3, <2>3, <2>7 DEF ForwardInv
    <3> QED BY <3>1, <3>2, <3>3, <2>1, <2>3, <2>7
  <2> QED BY <2>7 DEF ForwardInv
<1>3. ASSUME UNCHANGED history PROVE ForwardInv'
  BY <1>3 DEF ForwardInv
<1>4. (\A c \in Batches : ~ApplyOps(c)) => UNCHANGED history
  BY DEF Next, PersistStep, TryPersist, ReadBoard, MatchDocument, InsertDocument,
         RetryUpdate, Fail, StartFinalize, CloseBoard, DeleteKeys, LockExpires, DropTrigger,
         BoardExpires, ClosedExpires, vars, ghosts
<1> QED BY <1>2, <1>3, <1>4

\* However many batches arrive, in whatever order, an element of the board never
\* goes back to an older version, and no id disappears from the hash.
THEOREM ForwardCorrect ==
  ASSUME ~Expiry
  PROVE  Spec => []NoElementGoesBack
<1> DEFINE Inv == IInv /\ ForwardInv
<1>1. Init => Inv
  BY InitIInv, InitForward
<1>2. Inv /\ [Next]_vars => Inv'
  BY NextIInv, NextForward
<1>3. IInv => history \in Seq(Boards) /\ Len(history) \in Nat
  BY LenProperties DEF IInv, CountInv, TypeOK
<1>4. Inv => NoElementGoesBack
  BY <1>3 DEF ForwardInv, NoElementGoesBack, NotOlder
<1> QED BY <1>1, <1>2, <1>4, PTL DEF Spec

-----------------------------------------------------------------------------
(* The whiteboard implements BoardStore *)

\* The mapping's live board.
Live == history = <<>> \/ seq > 0

LEMMA StoreStep ==
  ASSUME ~Expiry, IInv, IInv', [Next]_vars
  PROVE  [Store!StoreNext]_(Store!storeVars)
<1> USE DEF redis, mongo, ghosts, Store!storeVars
<1>1. TypeOK /\ SaveInv /\ TypeOK' /\ SaveInv'
  BY DEF IInv, CountInv
<1>2. /\ history \in Seq(Boards) /\ Len(history) \in Nat
      /\ seq \in Nat /\ savedSeq \in Nat /\ closed \in BOOLEAN /\ closed' \in BOOLEAN
  BY <1>1, LenProperties DEF TypeOK
<1>3. ASSUME NEW c \in Batches, ApplyOps(c) PROVE Store!StoreNext
  <2>1. ~closed /\ board' \in Boards /\ history' = Append(history, board')
        /\ seq' = seq + 1 /\ UNCHANGED <<closed, saved, savedSeq>>
    BY <1>1, <1>3 DEF ApplyOps, Accepts, TypeOK
  <2>2. Live /\ Live'
    BY <1>1, <1>2, <2>1 DEF SaveInv, LiveInv, Live
  <2>3. Store!Accept(board')
    BY <2>1, <2>2 DEF Store!Accept, Live
  <2> QED BY <2>1, <2>3 DEF Store!StoreNext, Boards, Store!Boards
<1>4. ASSUME NEW p \in Procs, pc[p] \in Writing, savedSeq < readSeq[p] \/ savedSeq = 0,
             WriteRead(p), UNCHANGED <<redis, closed, history, finalized>>
      PROVE  Store!StoreNext
  <2>1. readSeq[p] \in 1..Len(history) /\ readBoard[p] = history[readSeq[p]]
    BY <1>1, <1>4 DEF SaveInv, ReadInv
  <2>2. Store!Save(readSeq[p])
    BY <1>2, <1>4, <2>1 DEF Store!Save, WriteRead, Visible, Store!Visible,
       IsVisible, Store!IsVisible
  <2> QED BY <2>1, <2>2 DEF Store!StoreNext
<1>5. ASSUME NEW f \in Finalizers, CloseBoard(f) PROVE Store!StoreNext
  <2>1. Store!Close
    BY <1>5 DEF CloseBoard, Store!Close
  <2> QED BY <2>1 DEF Store!StoreNext
<1>6. ASSUME NEW f \in Finalizers, DeleteKeys(f)
      PROVE  Store!StoreNext \/ UNCHANGED Store!storeVars
  <2>1. seq' = 0 /\ UNCHANGED <<history, closed, saved, savedSeq>>
    BY <1>6 DEF DeleteKeys, DropKeys
  <2>2. CASE history = <<>>
    BY <2>1, <2>2
  <2>3. CASE history # <<>>
    <3>1. closed /\ savedSeq = Len(history)
      BY <1>1, <1>6, <2>3 DEF SaveInv, FinalInv, DeleteKeys
    <3>2. Store!Release
      BY <1>2, <2>1, <2>3, <3>1 DEF Store!Release
    <3> QED BY <3>2 DEF Store!StoreNext
  <2> QED BY <2>2, <2>3
<1>7. ASSUME NEW p \in Procs, ReadBoard(p) \/ Fail(p) PROVE UNCHANGED Store!storeVars
  BY <1>7 DEF ReadBoard, Fail
<1>8. ASSUME NEW p \in Persisters, TryPersist(p) PROVE UNCHANGED Store!storeVars
  BY <1>8 DEF TryPersist
<1>9. ASSUME NEW f \in Finalizers, StartFinalize(f) PROVE UNCHANGED Store!storeVars
  BY <1>9 DEF StartFinalize
<1>10. ASSUME LockExpires \/ DropTrigger \/ UNCHANGED vars PROVE UNCHANGED Store!storeVars
  BY <1>10 DEF LockExpires, DropTrigger, vars
<1>11. ASSUME NEW p \in Procs, MatchDocument(p) \/ InsertDocument(p) \/ RetryUpdate(p), UNCHANGED mongo
       PROVE  UNCHANGED Store!storeVars
  BY <1>11 DEF MatchDocument, InsertDocument, RetryUpdate
<1>12. ~BoardExpires /\ ~ClosedExpires
  BY DEF BoardExpires, ClosedExpires, DayPasses
<1>13. CASE ~UNCHANGED mongo
  BY <1>1, <1>4, <1>13, MongoStep
<1>14. CASE UNCHANGED mongo
  BY <1>3, <1>5, <1>6, <1>7, <1>8, <1>9, <1>10, <1>11, <1>12, <1>14 DEF Next, PersistStep
<1> QED BY <1>13, <1>14

\* Redis, the lock, the saves and the finalizations together are a log with a
\* durable copy that moves forward, released only once closed and copied.
THEOREM Refinement ==
  ASSUME ~Expiry
  PROVE  Spec => ImplementsStore
<1>1. Init => Store!StoreInit
  BY DEF Init, Store!StoreInit, EmptyBoard, Store!EmptyBoard
<1>2. IInv /\ IInv' /\ [Next]_vars => [Store!StoreNext]_(Store!storeVars)
  BY StoreStep
<1> QED BY <1>1, <1>2, InitIInv, NextIInv, PTL DEF Spec, ImplementsStore, Store!StoreSpec

=============================================================================
