----------------------------- MODULE BoardStore -----------------------------
(***************************************************************************)
(* What a whiteboard promises, with no Redis, no locks and no processes:   *)
(* a log of boards that grows while the board is open, a durable copy that *)
(* only moves forward along that log, and a live board that is given up    *)
(* only when the copy has reached the end of a closed log.                 *)
(***************************************************************************)
EXTENDS WbMerge, Sequences

VARIABLES
  log,      \* the board after each accepted batch
  open,     \* batches are accepted
  live,     \* the live board is still there
  durable,  \* position in the log of the durable copy, 0: none
  copy      \* the durable copy

storeVars == <<log, open, live, durable, copy>>

StoreInit ==
  /\ log = <<>>
  /\ open = TRUE
  /\ live = TRUE
  /\ durable = 0
  /\ copy = EmptyBoard

Accept(b) ==
  /\ open
  /\ log' = Append(log, b)
  /\ UNCHANGED <<open, live, durable, copy>>

Save(n) ==
  /\ durable < n
  /\ durable' = n
  /\ copy' = Visible(log[n])
  /\ UNCHANGED <<log, open, live>>

Close ==
  /\ open' = FALSE
  /\ UNCHANGED <<log, live, durable, copy>>

Release ==
  /\ ~open
  /\ durable = Len(log)
  /\ live' = FALSE
  /\ UNCHANGED <<log, open, durable, copy>>

StoreNext ==
  \/ \E b \in Boards : Accept(b)
  \/ \E n \in 1..Len(log) : Save(n)
  \/ Close
  \/ Release

StoreSpec == StoreInit /\ [][StoreNext]_storeVars

=============================================================================
