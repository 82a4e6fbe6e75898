--------------------------- MODULE WbMerge_proofs ---------------------------
(***************************************************************************)
(* Facts about the merge of a batch into a board, for any set of ids, any  *)
(* elements and any limits.                                                *)
(***************************************************************************)
EXTENDS WbMerge, FiniteSetTheorems, TLAPS

\* A batch is a function from some ids to elements.
LEMMA BatchType ==
  ASSUME NEW c \in Batches
  PROVE  /\ DOMAIN c \subseteq Ids
         /\ \A id \in DOMAIN c : c[id] \in Elements /\ c[id] # NoElement
BY ElementsAssumption DEF Batches

\* Merging a batch into a board gives a board.
LEMMA MergeType ==
  ASSUME NEW b \in Boards, NEW c \in Batches
  PROVE  Merge(b, c) \in Boards
BY BatchType DEF Merge, Boards, Winners

\* So does leaving the tombstones out.
LEMMA VisibleType ==
  ASSUME NEW b \in Boards
  PROVE  Visible(b) \in Boards
BY DEF Visible, Boards

LEMMA EmptyBoardType == EmptyBoard \in Boards
BY DEF EmptyBoard, Boards

\* The ids a batch adds, shows and hides, and the ids of the merged board.
LEMMA MergeIds ==
  ASSUME NEW b \in Boards, NEW c \in Batches
  PROVE  /\ NewIds(b, c) \subseteq Winners(b, c)
         /\ StoredIds(Merge(b, c)) = StoredIds(b) \cup NewIds(b, c)
         /\ StoredIds(b) \cap NewIds(b, c) = {}
         /\ Winners(b, c) \subseteq StoredIds(Merge(b, c))
         /\ VisibleIds(Merge(b, c)) = (VisibleIds(b) \ Hidden(b, c)) \cup Shown(b, c)
         /\ Hidden(b, c) \subseteq VisibleIds(b)
         /\ Shown(b, c) \cap VisibleIds(b) = {}
         /\ Shown(b, c) \subseteq Ids
         /\ NewIds(b, c) \subseteq Ids
<1> DEFINE W == Winners(b, c)
<1>1. W \subseteq DOMAIN c /\ DOMAIN c \subseteq Ids
  BY BatchType DEF Winners
<1>2. \A id \in Ids : Merge(b, c)[id] = IF id \in W THEN c[id] ELSE b[id]
  BY DEF Merge
<1>3. NewIds(b, c) \subseteq W
  BY DEF NewIds, Winners
<1>4. StoredIds(Merge(b, c)) = StoredIds(b) \cup NewIds(b, c)
  <2>1. ASSUME NEW id \in Ids
        PROVE  Merge(b, c)[id] # NoElement <=> b[id] # NoElement \/ id \in NewIds(b, c)
    <3>1. CASE id \in W
      BY <3>1, <1>1, <1>2, BatchType DEF NewIds
    <3>2. CASE id \notin W
      BY <3>2, <1>2, <1>3
    <3> QED BY <3>1, <3>2
  <2>2. NewIds(b, c) \subseteq Ids
    BY <1>1, <1>3
  <2> QED BY <2>1, <2>2 DEF StoredIds
<1>5. StoredIds(b) \cap NewIds(b, c) = {}
  BY DEF StoredIds, NewIds
<1>6. W \subseteq StoredIds(Merge(b, c))
  BY <1>1, <1>2, BatchType DEF StoredIds
<1>7. /\ Hidden(b, c) \subseteq VisibleIds(b)
      /\ Shown(b, c) \cap VisibleIds(b) = {}
      /\ Shown(b, c) \subseteq Ids
  BY <1>1 DEF Hidden, Shown, VisibleIds
<1>8. VisibleIds(Merge(b, c)) = (VisibleIds(b) \ Hidden(b, c)) \cup Shown(b, c)
  <2>1. ASSUME NEW id \in Ids
        PROVE  IsVisible(Merge(b, c)[id]) <=>
                 \/ IsVisible(b[id]) /\ id \notin Hidden(b, c)
                 \/ id \in Shown(b, c)
    <3>1. CASE id \in W
      <4>1. Merge(b, c)[id] = c[id]
        BY <3>1, <1>2
      <4>2. id \in Hidden(b, c) <=> ~IsVisible(c[id]) /\ IsVisible(b[id])
        BY <3>1 DEF Hidden
      <4>3. id \in Shown(b, c) <=> IsVisible(c[id]) /\ ~IsVisible(b[id])
        BY <3>1 DEF Shown
      <4> QED BY <4>1, <4>2, <4>3
    <3>2. CASE id \notin W
      BY <3>2, <1>2 DEF Hidden, Shown
    <3> QED BY <3>1, <3>2
  <2> QED BY <2>1, <1>7 DEF VisibleIds
<1> QED BY <1>1, <1>3, <1>4, <1>5, <1>6, <1>7, <1>8

\* The signed increment the script computes is the change in the number of
\* visible elements.
LEMMA MergeCounts ==
  ASSUME NEW b \in Boards, NEW c \in Batches
  PROVE  /\ AliveDelta(b, c) \in Int
         /\ Cardinality(VisibleIds(b)) \in Nat
         /\ Cardinality(VisibleIds(Merge(b, c))) \in Nat
         /\ Cardinality(VisibleIds(Merge(b, c))) =
              Cardinality(VisibleIds(b)) + AliveDelta(b, c)
         /\ Cardinality(StoredIds(b)) \in Nat
         /\ Cardinality(NewIds(b, c)) \in Nat
         /\ Cardinality(StoredIds(Merge(b, c))) =
              Cardinality(StoredIds(b)) + Cardinality(NewIds(b, c))
<1> DEFINE V == VisibleIds(b)
           H == Hidden(b, c)
           S == Shown(b, c)
           T == StoredIds(b)
           N == NewIds(b, c)
<1>1. IsFiniteSet(V) /\ IsFiniteSet(H) /\ IsFiniteSet(S) /\ IsFiniteSet(T) /\ IsFiniteSet(N)
  <2>1. V \in SUBSET Ids /\ T \in SUBSET Ids
    BY DEF VisibleIds, StoredIds
  <2>2. H \in SUBSET Ids /\ S \in SUBSET Ids /\ N \in SUBSET Ids
    BY <2>1, MergeIds
  <2> HIDE DEF V, H, S, T, N
  <2> QED BY <2>1, <2>2, FS_Subset, IdsAssumption
<1>2. /\ Cardinality(V) \in Nat /\ Cardinality(H) \in Nat /\ Cardinality(S) \in Nat
      /\ Cardinality(T) \in Nat /\ Cardinality(N) \in Nat
  <2> HIDE DEF V, H, S, T, N
  <2> QED BY <1>1, FS_CardinalityType
<1>3. H \subseteq V /\ S \cap V = {} /\ T \cap N = {}
  BY MergeIds
<1>4. IsFiniteSet(V \ H) /\ Cardinality(V \ H) = Cardinality(V) - Cardinality(H)
  <2> HIDE DEF V, H
  <2>1. V \cap H = H
    BY <1>3
  <2> QED BY <2>1, <1>1, FS_Difference
<1>5. IsFiniteSet((V \ H) \cup S)
      /\ Cardinality((V \ H) \cup S) = Cardinality(V) - Cardinality(H) + Cardinality(S)
  <2> HIDE DEF V, H, S
  <2>1. (V \ H) \cap S = {}
    BY <1>3
  <2>2. /\ IsFiniteSet((V \ H) \cup S)
        /\ Cardinality((V \ H) \cup S) =
             Cardinality(V \ H) + Cardinality(S) - Cardinality((V \ H) \cap S)
    BY <1>1, <1>4, FS_Union
  <2>3. Cardinality((V \ H) \cap S) = 0
    BY <2>1, FS_EmptySet
  <2> QED BY <2>2, <2>3, <1>2, <1>4
<1>6. Cardinality(T \cup N) = Cardinality(T) + Cardinality(N)
  <2> HIDE DEF T, N
  <2>1. Cardinality(T \cup N) = Cardinality(T) + Cardinality(N) - Cardinality(T \cap N)
    BY <1>1, FS_Union
  <2>2. Cardinality(T \cap N) = 0
    BY <1>3, FS_EmptySet
  <2> QED BY <2>1, <2>2, <1>2
<1>7. /\ VisibleIds(Merge(b, c)) = (V \ H) \cup S
      /\ StoredIds(Merge(b, c)) = T \cup N
  BY MergeIds
<1>8. AliveDelta(b, c) = Cardinality(S) - Cardinality(H)
  BY DEF AliveDelta
<1> HIDE DEF V, H, S, T, N
<1>9. Cardinality((V \ H) \cup S) \in Nat
  BY <1>5, FS_CardinalityType
<1>10. /\ Cardinality(V) \in Nat /\ Cardinality(T) \in Nat /\ Cardinality(N) \in Nat
       /\ AliveDelta(b, c) \in Int
       /\ Cardinality(VisibleIds(Merge(b, c))) \in Nat
       /\ Cardinality(VisibleIds(Merge(b, c))) = Cardinality(V) + AliveDelta(b, c)
       /\ Cardinality(StoredIds(Merge(b, c))) = Cardinality(T) + Cardinality(N)
  BY <1>2, <1>5, <1>6, <1>7, <1>8, <1>9
<1> QED BY <1>10 DEF V, T, N

-----------------------------------------------------------------------------
\* "Not newer than" is a total preorder on elements.
LEMMA NewerOrder ==
  /\ \A e \in Elements : ~Newer(e, e)
  /\ \A e, f \in Elements : ~Newer(e, f) \/ ~Newer(f, e)
  /\ \A e, f, g \in Elements : ~Newer(e, f) /\ ~Newer(f, g) => ~Newer(e, g)
BY ElementsAssumption DEF Newer, ElementType

\* The merged board holds every id of the old one, and nothing older.
LEMMA MergeMonotone ==
  ASSUME NEW b \in Boards, NEW c \in Batches, NEW id \in StoredIds(b)
  PROVE  id \in StoredIds(Merge(b, c)) /\ ~Newer(b[id], Merge(b, c)[id])
<1>1. b[id] \in Elements /\ id \in Ids /\ b[id] # NoElement
  BY DEF Boards, StoredIds
<1>2. id \in StoredIds(Merge(b, c))
  BY MergeIds
<1>3. CASE id \in Winners(b, c)
  BY <1>1, <1>2, <1>3 DEF Winners, Merge
<1>4. CASE id \notin Winners(b, c)
  BY <1>1, <1>2, <1>4, NewerOrder DEF Merge
<1> QED BY <1>3, <1>4

\* Last writer wins without an order of arrival: when version and nonce tell
\* two elements apart, two batches give the same board whichever is merged
\* first, so every instance and every client that merges both agrees.
THEOREM MergeCommutes ==
  ASSUME \A e, f \in Elements : e.version = f.version /\ e.nonce = f.nonce => e = f,
         NEW b \in Boards, NEW c \in Batches, NEW d \in Batches
  PROVE  Merge(Merge(b, c), d) = Merge(Merge(b, d), c)
<1> DEFINE bc == Merge(b, c)
           bd == Merge(b, d)
<1>1. \A e, f \in Elements : ~Newer(e, f) /\ ~Newer(f, e) => e = f
  BY ElementsAssumption DEF Newer, ElementType
<1>2. ASSUME NEW id \in Ids
      PROVE  Merge(bc, d)[id] = Merge(bd, c)[id]
  <2>1. /\ b[id] \in Elements \cup {NoElement}
        /\ id \in DOMAIN c => c[id] \in Elements
        /\ id \in DOMAIN d => d[id] \in Elements
    BY BatchType DEF Boards
  <2>2. ASSUME NEW x \in Boards, NEW y \in Batches
        PROVE  Merge(x, y)[id] =
                 IF id \in DOMAIN y /\ (x[id] = NoElement \/ ~Newer(x[id], y[id]))
                 THEN y[id] ELSE x[id]
    BY DEF Merge, Winners
  <2>3. bc \in Boards /\ bd \in Boards
    BY MergeType
  <2>4. /\ bc[id] = IF id \in DOMAIN c /\ (b[id] = NoElement \/ ~Newer(b[id], c[id]))
                    THEN c[id] ELSE b[id]
        /\ bd[id] = IF id \in DOMAIN d /\ (b[id] = NoElement \/ ~Newer(b[id], d[id]))
                    THEN d[id] ELSE b[id]
    BY <2>2
  <2>5. /\ Merge(bc, d)[id] =
             IF id \in DOMAIN d /\ (bc[id] = NoElement \/ ~Newer(bc[id], d[id]))
             THEN d[id] ELSE bc[id]
        /\ Merge(bd, c)[id] =
             IF id \in DOMAIN c /\ (bd[id] = NoElement \/ ~Newer(bd[id], c[id]))
             THEN c[id] ELSE bd[id]
    BY <2>2, <2>3
  <2> HIDE DEF bc, bd
  <2> QED BY <2>1, <2>4, <2>5, <1>1, NewerOrder, ElementsAssumption
<1>3. /\ Merge(bc, d) = [id \in Ids |-> Merge(bc, d)[id]]
      /\ Merge(bd, c) = [id \in Ids |-> Merge(bd, c)[id]]
  BY DEF Merge
<1> HIDE DEF bc, bd
<1>4. Merge(bc, d) = Merge(bd, c)
  BY <1>2, <1>3
<1> QED BY <1>4 DEF bc, bd

=============================================================================
