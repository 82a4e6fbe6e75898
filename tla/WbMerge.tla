------------------------------ MODULE WbMerge ------------------------------
(***************************************************************************)
(* The pure part of the whiteboard: which elements of a batch win against  *)
(* the stored board, what the merged board is, how the counter of visible  *)
(* elements moves and when a batch is refused.  It is the Lua script       *)
(* WB_APPLY_SCRIPT, evaluated atomically by Redis, without its effects.    *)
(*                                                                         *)
(* A board is a function from element ids to elements or NoElement (no     *)
(* such field in the hash).  A batch is a function from a set of ids to    *)
(* elements: validateElementsBatch refuses a batch with a repeated id, so  *)
(* the position of an element in the batch never matters.                  *)
(***************************************************************************)
EXTENDS Integers, FiniteSets

CONSTANTS
  Ids,          \* element ids
  Elements,     \* the element values clients may send: see ElementType
  NoElement,    \* "HGET returned nothing"
  MaxAlive,     \* WB_MAX_ALIVE_ELEMENTS, 5000 in the code
  MaxTotal,     \* WB_MAX_TOTAL_ELEMENTS, 20000 in the code
  MaxBatch      \* WB_MAX_BATCH_ELEMENTS, 100 in the code

\* Only the fields the server reads; the rest of the JSON is opaque.
ElementType == [version : Nat \ {0}, nonce : Int, deleted : BOOLEAN]

ASSUME IdsAssumption == IsFiniteSet(Ids)
ASSUME ElementsAssumption == Elements \subseteq ElementType /\ NoElement \notin Elements
ASSUME LimitsAssumption == MaxAlive \in Nat /\ MaxTotal \in Nat /\ MaxBatch \in Nat \ {0}

Boards == [Ids -> Elements \cup {NoElement}]

EmptyBoard == [id \in Ids |-> NoElement]

\* Batches that validateElementsBatch lets through: 1..MaxBatch elements, no
\* id twice.  The limit on bytes and the shape of an element are not state.
Batches ==
  UNION {[D -> Elements] :
           D \in {S \in SUBSET Ids : S # {} /\ Cardinality(S) <= MaxBatch}}

-----------------------------------------------------------------------------
\* Excalidraw's shouldDiscardRemoteElement: the stored copy is kept when it
\* has the higher version, or the same version and the smaller nonce.
Newer(s, e) ==
  \/ s.version > e.version
  \/ s.version = e.version /\ s.nonce < e.nonce

\* Variant: the last to arrive wins.
Winners_All(board, batch) == DOMAIN batch

Winners(board, batch) ==
  {id \in DOMAIN batch : board[id] = NoElement \/ ~Newer(board[id], batch[id])}

Merge(board, batch) ==
  [id \in Ids |-> IF id \in Winners(board, batch) THEN batch[id] ELSE board[id]]

IsVisible(e) == e # NoElement /\ ~e.deleted

VisibleIds(board) == {id \in Ids : IsVisible(board[id])}

StoredIds(board) == {id \in Ids : board[id] # NoElement}

\* What the Mongo document keeps of a board: no tombstones.
Visible(board) == [id \in Ids |-> IF IsVisible(board[id]) THEN board[id] ELSE NoElement]

\* The winners that start, respectively stop, being visible.
Shown(board, batch) ==
  {id \in Winners(board, batch) : IsVisible(batch[id]) /\ ~IsVisible(board[id])}

\* Variant: deletions counted before it is known whether they win.
Hidden_Losers(board, batch) ==
  {id \in DOMAIN batch : ~IsVisible(batch[id]) /\ IsVisible(board[id])}

Hidden(board, batch) ==
  {id \in Winners(board, batch) : ~IsVisible(batch[id]) /\ IsVisible(board[id])}

AliveDelta(board, batch) ==
  Cardinality(Shown(board, batch)) - Cardinality(Hidden(board, batch))

NewIds(board, batch) == {id \in DOMAIN batch : board[id] = NoElement}

\* A batch that shows nothing more and adds no id is never over the limit.
OverLimit(board, alive, batch) ==
  \/ /\ AliveDelta(board, batch) > 0
     /\ alive + AliveDelta(board, batch) > MaxAlive
  \/ /\ NewIds(board, batch) # {}
     /\ Cardinality(StoredIds(board)) + Cardinality(NewIds(board, batch)) > MaxTotal

=============================================================================
