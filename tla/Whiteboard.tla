----------------------------- MODULE Whiteboard -----------------------------
(***************************************************************************)
(* One whiteboard as the backend instances keep it: the live board in      *)
(* Redis (hash, seq, alive counter, persist lock, closed flag) and its     *)
(* saved copy in Mongo.                                                    *)
(*                                                                         *)
(* Any instance may run any of these at the same time:                     *)
(*   - applyOps, one atomic Lua script per batch;                          *)
(*   - tryPersistInBackground after an accepted batch: whoever takes the   *)
(*     15 s lock saves the board, and a slow save may outlive its lock;    *)
(*   - finalizeBoard, called by every endMeeting, more than once.          *)
(* A save reads Redis once (MULTI), then writes Mongo with the lastSeq     *)
(* guard; every command in between may fail, or the instance may stop.     *)
(***************************************************************************)
EXTENDS WbMerge, Sequences

CONSTANTS
  Persisters,   \* background saves that may be in flight at once
  Finalizers,   \* calls of finalizeBoard that may be in flight at once
  Expiry,       \* TRUE: the 24 h TTL of the keys may run out
  MaxOps,       \* bound: accepted batches
  MaxFailures   \* bound: failed commands and stopped instances

ASSUME ProcsAssumption == Persisters \cap Finalizers = {}
ASSUME BoundsAssumption == Expiry \in BOOLEAN /\ MaxOps \in Nat /\ MaxFailures \in Nat

Procs == Persisters \cup Finalizers

VARIABLES
  board,      \* wb:{id}: the hash, tombstones included
  seq,        \* wb:seq:{id}: 0 when the key is absent, INCR makes it 1
  alive,      \* wb:alive:{id}: 0 when absent
  closed,     \* wb:closed:{id} exists
  locked,     \* wb:persist-lock:{id} exists
  pending,    \* accepted batches whose handler has yet to try a save
  saved,      \* elements of the Mongo document
  savedSeq,   \* its lastSeq; 0 when there is no document (seq is never 0 in one)
  pc,         \* what each save or finalization does next
  readBoard,  \* the hash each of them has read
  readSeq,    \* the seq it read with it
  history,    \* the board after every accepted batch (ghost)
  finalized,  \* a finalization has run to its end (ghost)
  abandoned,  \* a finalization has failed: logged, not repeated (ghost)
  failures    \* failures so far (bound)

redis  == <<board, seq, alive>>
mongo  == <<saved, savedSeq>>
reader == <<readBoard, readSeq>>
ghosts == <<history, finalized, abandoned>>
vars   == <<board, seq, alive, closed, locked, pending, saved, savedSeq, pc,
            readBoard, readSeq, history, finalized, abandoned, failures>>

Steps == {"idle", "close", "read", "match", "insert", "retry", "del"}

Init ==
  /\ board = EmptyBoard
  /\ seq = 0
  /\ alive = 0
  /\ closed = FALSE
  /\ locked = FALSE
  /\ pending = 0
  /\ saved = EmptyBoard
  /\ savedSeq = 0
  /\ pc = [p \in Procs |-> "idle"]
  /\ readBoard = [p \in Procs |-> EmptyBoard]
  /\ readSeq = [p \in Procs |-> 0]
  /\ history = <<>>
  /\ finalized = FALSE
  /\ abandoned = FALSE
  /\ failures = 0

-----------------------------------------------------------------------------
(* applyOps *)

\* The script answers OK.  CLOSED, LIMIT and NOOP write nothing.
Accepts(batch) ==
  /\ ~closed
  /\ ~OverLimit(board, alive, batch)
  /\ Winners(board, batch) # {}

ApplyOps(batch) ==
  /\ Len(history) < MaxOps
  /\ Accepts(batch)
  /\ board' = Merge(board, batch)
  /\ alive' = alive + AliveDelta(board, batch)
  /\ seq' = seq + 1
  /\ history' = Append(history, board')
  /\ pending' = pending + 1
  /\ UNCHANGED <<closed, locked, mongo, pc, reader, finalized, abandoned,
                 failures>>

-----------------------------------------------------------------------------
(* tryPersistInBackground and persist *)

Goto(p, step) == pc' = [pc EXCEPT ![p] = step]

\* SET NX PX: the one that takes the lock saves, the others drop the attempt.
TryPersist(p) ==
  /\ pc[p] = "idle"
  /\ pending > 0
  /\ pending' = pending - 1
  /\ IF locked
     THEN UNCHANGED <<locked, pc>>
     ELSE locked' = TRUE /\ Goto(p, "read")
  /\ UNCHANGED <<redis, closed, mongo, reader, ghosts, failures>>

\* Where a process goes once persist() has returned.
Returned(p) == Goto(p, IF p \in Finalizers THEN "del" ELSE "idle")

\* HGETALL and GET seq in one MULTI; an empty board is not written.
ReadBoard(p) ==
  /\ pc[p] = "read"
  /\ readBoard' = [readBoard EXCEPT ![p] = board]
  /\ readSeq' = [readSeq EXCEPT ![p] = seq]
  /\ IF seq = 0 \/ StoredIds(board) = {} THEN Returned(p) ELSE Goto(p, "match")
  /\ UNCHANGED <<redis, closed, locked, pending, mongo, ghosts, failures>>

\* Variant: a filter on meetingId alone.
GuardHolds_Blind(p) == savedSeq > 0

\* The filter: a document of this meeting whose lastSeq is below the seq read.
GuardHolds(p) == savedSeq > 0 /\ savedSeq < readSeq[p]

\* Variant: seq read again at the write instead of in the MULTI.
WriteRead_LateSeq(p) ==
  /\ saved' = Visible(readBoard[p])
  /\ savedSeq' = seq

WriteRead(p) ==
  /\ saved' = Visible(readBoard[p])
  /\ savedSeq' = readSeq[p]

\* updateOne with upsert: the filter matches a document and updates it, or
\* the server goes on to insert one.
MatchDocument(p) ==
  /\ pc[p] = "match"
  /\ IF GuardHolds(p)
     THEN WriteRead(p) /\ Returned(p)
     ELSE Goto(p, "insert") /\ UNCHANGED mongo
  /\ UNCHANGED <<redis, closed, locked, pending, reader, ghosts, failures>>

\* Variant: E11000 taken to mean that Mongo has a newer copy, no retry.
InsertDocument_NoRetry(p) ==
  /\ pc[p] = "insert"
  /\ IF savedSeq = 0 THEN WriteRead(p) ELSE UNCHANGED mongo
  /\ Returned(p)
  /\ UNCHANGED <<redis, closed, locked, pending, reader, ghosts, failures>>

\* The insert half of the upsert: E11000 when a document exists by now.
InsertDocument(p) ==
  /\ pc[p] = "insert"
  /\ IF savedSeq = 0
     THEN WriteRead(p) /\ Returned(p)
     ELSE Goto(p, "retry") /\ UNCHANGED mongo
  /\ UNCHANGED <<redis, closed, locked, pending, reader, ghosts, failures>>

\* The one retry, without upsert: an update of zero rows is fine.
RetryUpdate(p) ==
  /\ pc[p] = "retry"
  /\ IF GuardHolds(p) THEN WriteRead(p) ELSE UNCHANGED mongo
  /\ Returned(p)
  /\ UNCHANGED <<redis, closed, locked, pending, reader, ghosts, failures>>

LockExpires ==
  /\ locked
  /\ locked' = FALSE
  /\ UNCHANGED <<redis, closed, pending, mongo, pc, reader, ghosts, failures>>

-----------------------------------------------------------------------------
(* finalizeBoard: close, save, delete the keys *)

StartFinalize(f) ==
  /\ pc[f] = "idle"
  /\ Goto(f, "close")
  /\ UNCHANGED <<redis, closed, locked, pending, mongo, reader, ghosts, failures>>

\* Variant: no flag, the sockets leaving the channel taken to be enough.
CloseBoard_NoFlag(f) ==
  /\ pc[f] = "close"
  /\ Goto(f, "read")
  /\ UNCHANGED <<redis, closed, locked, pending, mongo, reader, ghosts, failures>>

CloseBoard(f) ==
  /\ pc[f] = "close"
  /\ closed' = TRUE
  /\ Goto(f, "read")
  /\ UNCHANGED <<redis, locked, pending, mongo, reader, ghosts, failures>>

\* Variant: the counter forgotten in the list of keys to delete.
DropKeys_KeepAlive ==
  /\ board' = EmptyBoard
  /\ seq' = 0
  /\ UNCHANGED alive

DropKeys ==
  /\ board' = EmptyBoard
  /\ seq' = 0
  /\ alive' = 0

DeleteKeys(f) ==
  /\ pc[f] = "del"
  /\ DropKeys
  /\ finalized' = TRUE
  /\ Goto(f, "idle")
  /\ UNCHANGED <<closed, locked, pending, mongo, reader, history, abandoned,
                 failures>>

\* A command of Redis or Mongo throws, or the instance stops: the error is
\* logged, the keys stay, and endMeeting goes on, so that nobody finalizes
\* again on its account.  A write that took effect before its error is the
\* write followed by this step.
Fail(p) ==
  /\ pc[p] # "idle"
  /\ failures < MaxFailures
  /\ failures' = failures + 1
  /\ abandoned' = (abandoned \/ p \in Finalizers)
  /\ Goto(p, "idle")
  /\ UNCHANGED <<redis, closed, locked, pending, mongo, reader, history, finalized>>

\* The instance stops after the script ran and before it tried a save.
DropTrigger ==
  /\ pending > 0
  /\ failures < MaxFailures
  /\ failures' = failures + 1
  /\ pending' = pending - 1
  /\ UNCHANGED <<redis, closed, locked, mongo, pc, reader, ghosts>>

-----------------------------------------------------------------------------
(* TTLs *)

\* A day outlasts every command, the 15 s lock and every handler.
DayPasses ==
  /\ Expiry
  /\ \A p \in Procs : pc[p] = "idle"
  /\ pending = 0
  /\ ~locked

\* The script sets the three TTLs together, so the keys vanish together.
BoardExpires ==
  /\ DayPasses
  /\ seq > 0
  /\ DropKeys
  /\ UNCHANGED <<closed, locked, pending, mongo, pc, reader, ghosts, failures>>

\* The flag was set after the last accepted batch with the same TTL: when it
\* runs out the board keys are gone too.
ClosedExpires ==
  /\ DayPasses
  /\ closed
  /\ seq = 0
  /\ closed' = FALSE
  /\ UNCHANGED <<redis, locked, pending, mongo, pc, reader, ghosts, failures>>

-----------------------------------------------------------------------------
PersistStep(p) == ReadBoard(p) \/ MatchDocument(p) \/ InsertDocument(p) \/ RetryUpdate(p)

Next ==
  \/ \E batch \in Batches : ApplyOps(batch)
  \/ \E p \in Persisters : TryPersist(p)
  \/ \E p \in Procs : PersistStep(p) \/ Fail(p)
  \/ \E f \in Finalizers : StartFinalize(f) \/ CloseBoard(f) \/ DeleteKeys(f)
  \/ LockExpires
  \/ DropTrigger
  \/ BoardExpires
  \/ ClosedExpires

Spec == Init /\ [][Next]_vars

\* endMeeting's call before any finalization has come to its end, good or bad.
FirstFinalize ==
  /\ ~finalized
  /\ ~abandoned
  /\ \E f \in Finalizers : StartFinalize(f)

\* A started save or finalization goes on, and the meeting ends at least once:
\* LiveKit closes an empty room and its webhook calls endMeeting.  A failed
\* finalization need not be repeated: finalizeBoard swallows the error and the
\* webhook is answered 200.  Nobody has to draw.
Fairness ==
  /\ \A p \in Procs : WF_vars(PersistStep(p))
  /\ \A f \in Finalizers : WF_vars(CloseBoard(f) \/ DeleteKeys(f))
  /\ WF_vars(FirstFinalize)

FairSpec == Spec /\ Fairness

-----------------------------------------------------------------------------
(* What the whiteboard promises *)

\* The variables hold what the keys and the document can hold; the counter, in
\* particular, moves by signed increments and never goes below zero.
TypeOK ==
  /\ board \in Boards
  /\ seq \in Nat
  /\ alive \in Nat
  /\ closed \in BOOLEAN
  /\ locked \in BOOLEAN
  /\ pending \in Nat
  /\ saved \in Boards
  /\ savedSeq \in Nat
  /\ pc \in [Procs -> Steps]
  /\ readBoard \in [Procs -> Boards]
  /\ readSeq \in [Procs -> Nat]
  /\ history \in Seq(Boards)
  /\ finalized \in BOOLEAN
  /\ abandoned \in BOOLEAN
  /\ failures \in Nat

\* wb:alive, moved by increments of each batch, is the number of elements of
\* the hash that are not deleted, and neither limit is ever passed: batches that
\* hide, show again, replace and lose are all counted right.
AliveCountsVisible ==
  /\ alive = Cardinality(VisibleIds(board))
  /\ alive <= MaxAlive
  /\ Cardinality(StoredIds(board)) <= MaxTotal

\* The Mongo document is at all times one board that existed, without its
\* tombstones, under the seq it had: state and seq are read in one MULTI and
\* written together.  (Within the 24 h of the keys: seq then counts batches.)
SavedIsOneBoard ==
  ~Expiry /\ savedSeq > 0 =>
    savedSeq <= Len(history) /\ saved = Visible(history[savedSeq])

\* The keys of a board somebody drew on are only gone once Mongo has its last
\* state: no batch the script accepted is lost to a finalization racing with
\* batches, other saves, other finalizations or failures.
KeysGoneOnlyAfterFinalCopy ==
  ~Expiry /\ history # <<>> /\ seq = 0 => savedSeq = Len(history)

\* An element never goes back to an older version, whatever batches arrive in
\* whatever order: later boards hold every id of the earlier ones, none older.
NoElementGoesBack ==
  ~Expiry =>
    \A j, k \in 1..Len(history) : j < k =>
      \A id \in StoredIds(history[j]) :
        /\ id \in StoredIds(history[k])
        /\ ~Newer(history[j][id], history[k][id])

\* The lastSeq guard: a slow save never puts an older board over a newer one.
SavedNeverGoesBack == [][savedSeq' >= savedSeq]_vars

\* Spec 13.1: once a finalization has saved the last board and deleted the
\* keys, nothing is written over the saved board any more: late batches are
\* refused, late saves and repeated finalizations find a newer lastSeq.
FinalCopyStands == [][finalized /\ savedSeq > 0 => saved' = saved]_vars

\* The whiteboard implements BoardStore: its history is the log, Mongo the
\* durable copy, and the live board is there until its keys are deleted.
Store == INSTANCE BoardStore WITH
  log <- history, open <- ~closed, live <- (history = <<>> \/ seq > 0),
  durable <- savedSeq, copy <- saved

ImplementsStore == Store!StoreSpec

\* Every accepted batch reaches Mongo for good, in a save of its own or a later
\* one, whether or not it won the save lock and whatever background saves failed.
\* The one exception is that of spec 7: a finalization failed, the meeting ended
\* all the same; the batch is then still among the Redis keys (until their TTL),
\* for as long as Mongo does not have it.
AcceptedReachesMongo ==
  \A n \in 1..MaxOps :
    Len(history) >= n ~> [](savedSeq >= n \/ (abandoned /\ seq >= n))

=============================================================================
