--------------------------- MODULE WbSync_proofs ---------------------------
(***************************************************************************)
(* What the users of the whiteboard see, for any number of clients, ids,   *)
(* elements, edits, sockets and faults: the map of versions never promises *)
(* more than the scene holds, an evicted member is out, and at rest        *)
(* everybody in the channel has the board of the server.                   *)
(***************************************************************************)
EXTENDS WbSync, WbMerge_proofs

\* A batch under way: some elements, each under its id.
IsBatch(b) == DOMAIN b \subseteq Ids /\ \A id \in DOMAIN b : b[id] \in Elements

Stages == {"out", "asked", "checked", "channel", "read", "done", "failed"}

TypeOK ==
  /\ board \in Boards
  /\ scene \in [Clients -> Boards]
  /\ synced \in [Clients -> [Ids -> Nat]]
  /\ editing \in [Clients -> SUBSET Ids]
  /\ socket \in [Clients -> [n : Nat, on : BOOLEAN]]
  /\ joined \in [Clients -> BOOLEAN]
  /\ stage \in [Clients -> Stages]
  /\ snapshot \in [Clients -> Boards]
  /\ \A m \in up : m.from \in Clients /\ m.n \in Nat /\ IsBatch(m.batch)
  /\ \A p \in down : p.to \in Clients /\ IsBatch(p.batch)
  /\ eviction \in [Clients -> {"none", "due", "done", "lost"}]
  /\ behind \in [Clients -> [Ids -> Nat]]
  /\ refused \in [Clients -> SUBSET Ids]
  /\ faults \in Nat

\* x does not win against y.
Leq(x, y) == x = NoElement \/ (y # NoElement /\ ~Newer(x, y))

\* A client's own batches are no newer than its scene; publications and
\* snapshots are no newer than the board.
OldInv ==
  /\ \A m \in up : \A id \in DOMAIN m.batch : Leq(m.batch[id], scene[m.from][id])
  /\ \A p \in down : \A id \in DOMAIN p.batch : Leq(p.batch[id], board[id])
  /\ \A c \in Clients, id \in Ids : Leq(snapshot[c][id], board[id])

\* The joining of a meeting runs on a socket; once a removed member has been
\* evicted it has got past its check only if the check came first, or it is the
\* one that was told to leave.
JoinInv ==
  \A c \in Clients :
    /\ stage[c] # "out" => socket[c].on
    /\ eviction[c] = "done" /\ stage[c] \in {"checked", "channel", "read", "done"} =>
         c \in late \/ c \in evicted

\* What the board has, a client in the channel has, is about to get, or has put
\* aside.
Gets(c, id) ==
  \/ Leq(board[id], scene[c][id])
  \/ \E p \in down : p.to = c /\ id \in DOMAIN p.batch /\ p.batch[id] = board[id]
  \/ VersionOf(board[id]) <= behind[c][id]

DownInv ==
  \A c \in Clients, id \in Ids :
    c \notin evicted =>
      /\ stage[c] = "read" => Gets(c, id) \/ Leq(board[id], snapshot[c][id])
      /\ stage[c] = "done" => Gets(c, id)

\* What a client in the meeting has, the board has, or the client will send, has
\* sent on its present socket, has had refused or has put a copy aside for.
Sends(c, id) ==
  \/ Leq(scene[c][id], board[id])
  \/ id \in Changed(scene[c], synced[c])
  \/ \E m \in up : /\ m.from = c /\ m.n = socket[c].n
                   /\ id \in DOMAIN m.batch /\ m.batch[id] = scene[c][id]
  \/ id \in refused[c]
  \/ VersionOf(scene[c][id]) <= behind[c][id]

UpInv == \A c \in Clients, id \in Ids \ LocalOnly : stage[c] = "done" => Sends(c, id)

IInv == TypeOK /\ OldInv /\ JoinInv /\ NotedIsHeld /\ DownInv /\ UpInv

-----------------------------------------------------------------------------
(* The order of the elements, merges and reconciled scenes.                *)

Copies == Elements \cup {NoElement}

LEMMA LeqOrder ==
  /\ \A x \in Copies : Leq(x, x)
  /\ \A x, y, z \in Copies : Leq(x, y) /\ Leq(y, z) => Leq(x, z)
  /\ \A x, y \in Copies : Leq(x, y) \/ Leq(y, x)
  /\ \A x, y \in Copies : Leq(x, y) => VersionOf(x) <= VersionOf(y)
  /\ \A x \in Copies : VersionOf(x) \in Nat /\ (VersionOf(x) = 0 => x = NoElement)
  /\ \A x \in Copies : Leq(NoElement, x) /\ (Leq(x, NoElement) => x = NoElement)
<1> USE DEF Leq, VersionOf, Copies
<1>1. \A x \in Elements : x.version \in Nat \ {0} /\ x.nonce \in Int /\ x # NoElement
  BY ElementsAssumption DEF ElementType
<1> QED BY <1>1 DEF Newer

\* Version and nonce tell two copies apart.
LEMMA LeqIsTotal ==
  ASSUME NEW x \in Copies, NEW y \in Copies, Leq(x, y), Leq(y, x)
  PROVE  x = y
<1>1. \A e \in Elements : e.version \in Nat \ {0} /\ e.nonce \in Int
  BY ElementsAssumption DEF ElementType
<1> QED BY <1>1, NoncesAssumption DEF Leq, Newer, Copies

\* A copy on a board.
LEMMA OnBoard == ASSUME NEW b \in Boards, NEW id \in Ids PROVE b[id] \in Copies
BY DEF Boards, Copies

LEMMA InBatch ==
  ASSUME NEW b, IsBatch(b), NEW id \in DOMAIN b
  PROVE  id \in Ids /\ b[id] \in Copies /\ b[id] \in Elements /\ b[id] # NoElement
BY ElementsAssumption DEF IsBatch, Copies

\* The merged board has nothing older than the board and the batch.
LEMMA MergeWins ==
  ASSUME NEW b \in Boards, NEW c, IsBatch(c)
  PROVE  /\ Merge(b, c) \in Boards
         /\ \A id \in Ids : /\ Leq(b[id], Merge(b, c)[id])
                            /\ id \in DOMAIN c => Leq(c[id], Merge(b, c)[id])
                            /\ Merge(b, c)[id] # b[id] =>
                                 id \in Winners(b, c) /\ Merge(b, c)[id] = c[id]
         /\ \A id \in Winners(b, c) : id \in DOMAIN c /\ id \in Ids /\ Merge(b, c)[id] = c[id]
<1>1. Merge(b, c) \in Boards
  BY InBatch DEF Merge, Boards, Winners
<1>2. \A id \in Winners(b, c) : id \in DOMAIN c /\ id \in Ids /\ Merge(b, c)[id] = c[id]
  BY InBatch DEF Merge, Winners
<1>3. ASSUME NEW id \in Ids
      PROVE  /\ Leq(b[id], Merge(b, c)[id])
             /\ id \in DOMAIN c => Leq(c[id], Merge(b, c)[id])
             /\ Merge(b, c)[id] # b[id] => id \in Winners(b, c) /\ Merge(b, c)[id] = c[id]
  <2>1. b[id] \in Copies /\ (id \in DOMAIN c => c[id] \in Copies /\ c[id] # NoElement)
    BY OnBoard, InBatch
  <2>2. CASE id \in Winners(b, c)
    <3>1. Merge(b, c)[id] = c[id] /\ Leq(b[id], c[id])
      BY <1>2, <2>1, <2>2 DEF Winners, Leq
    <3> QED BY <1>2, <2>1, <2>2, <3>1, LeqOrder
  <2>3. CASE id \notin Winners(b, c)
    <3>1. Merge(b, c)[id] = b[id]
      BY <2>3 DEF Merge
    <3>2. id \in DOMAIN c => Leq(c[id], b[id])
      <4>1. ASSUME id \in DOMAIN c PROVE b[id] # NoElement /\ Newer(b[id], c[id])
        BY <2>3, <4>1 DEF Winners
      <4> QED BY <2>1, <4>1, LeqOrder DEF Leq
    <3> QED BY <2>1, <3>1, <3>2, LeqOrder
  <2> QED BY <2>2, <2>3
<1> QED BY <1>1, <1>2, <1>3

\* What applyRemote may do to a scene and to the map of versions: a copy is
\* shown, or is not newer than the one shown, or is put aside; and a version is
\* noted for a copy that is shown, or for one that was put aside.
LEMMA OutcomeIs ==
  ASSUME TypeOK, NEW c \in Clients, NEW syn \in [Ids -> Nat], NEW bhd \in [Ids -> Nat],
         NEW batch, IsBatch(batch), NEW o \in Outcomes(c, syn, bhd, batch)
  PROVE  /\ o.scene \in Boards /\ o.synced \in [Ids -> Nat] /\ o.behind \in [Ids -> Nat]
         /\ o.faults \in Nat
         /\ \A id \in Ids :
              /\ Leq(scene[c][id], o.scene[id])
              /\ bhd[id] <= o.behind[id]
              /\ syn[id] <= VersionOf(scene[c][id]) => o.synced[id] <= VersionOf(o.scene[id])
              /\ id \in DOMAIN batch =>
                   Leq(batch[id], o.scene[id]) \/ VersionOf(batch[id]) <= o.behind[id]
              /\ \/ o.scene[id] = scene[c][id] /\ o.synced[id] = syn[id]
                 \/ id \in DOMAIN batch /\ o.scene[id] = batch[id]
                 \/ o.scene[id] = scene[c][id] /\ VersionOf(scene[c][id]) <= o.behind[id]
<1>0. PICK ids \in SUBSET DOMAIN batch : o = Applied(c, syn, bhd, batch, ids)
  BY DEF Outcomes
<1> DEFINE part == [id \in ids |-> batch[id]]
           r == Reconciled(c, part)
           n == Noted(c, syn, part)
           put == PutAside(c, syn, part)
           a == put \cup (DOMAIN batch \ ids)
<1>1. scene[c] \in Boards /\ faults \in Nat
  BY DEF TypeOK
<1>2. \A id \in DOMAIN batch : id \in Ids /\ batch[id] \in Copies /\ batch[id] # NoElement
                              /\ VersionOf(batch[id]) = batch[id].version
  BY InBatch DEF VersionOf
<1>p. /\ DOMAIN part = ids /\ ids \subseteq DOMAIN batch /\ IsBatch(part)
      /\ \A id \in ids : part[id] = batch[id]
  BY InBatch DEF IsBatch
<1>q. /\ o.scene = r /\ o.synced = n /\ o.behind = Behind(bhd, a, batch)
      /\ o.faults \in {faults, faults + 1}
  BY <1>0 DEF Applied
<1> HIDE DEF part
<1>3. /\ r \in Boards
      /\ \A id \in Ids : r[id] = IF id \in ids /\ ~Keeps(c, id, batch[id])
                                 THEN batch[id] ELSE scene[c][id]
  BY <1>1, <1>p, InBatch DEF Reconciled, Boards
<1>4. \A id \in Ids : Leq(scene[c][id], r[id])
  <2> SUFFICES ASSUME NEW id \in Ids PROVE Leq(scene[c][id], r[id])
    OBVIOUS
  <2>1. scene[c][id] \in Copies
    BY <1>1, OnBoard
  <2>2. ASSUME id \in ids, ~Keeps(c, id, batch[id]) PROVE Leq(scene[c][id], batch[id])
    BY <1>2, <2>2 DEF Keeps, Leq
  <2> QED BY <1>3, <2>1, <2>2, LeqOrder
<1>5. \A id \in DOMAIN batch :
        id \notin a => r[id] = batch[id] \/ (scene[c][id] = r[id] /\ Newer(r[id], batch[id]))
  BY <1>2, <1>3, <1>p DEF PutAside
<1>6. \A id \in DOMAIN batch : id \notin a => Leq(batch[id], r[id])
  <2> SUFFICES ASSUME NEW id \in DOMAIN batch, id \notin a PROVE Leq(batch[id], r[id])
    OBVIOUS
  <2>1. r[id] \in Copies /\ batch[id] \in Copies /\ batch[id] # NoElement
    BY <1>2, <1>3, OnBoard
  <2>2. CASE r[id] = batch[id]
    BY <2>1, <2>2, LeqOrder
  <2>3. CASE scene[c][id] = r[id] /\ Newer(r[id], batch[id]) /\ r[id] # batch[id]
    <3>1. scene[c][id] # NoElement
      BY <1>2, <1>3, <2>3 DEF Keeps
    <3>2. ~Leq(r[id], batch[id])
      BY <2>3, <3>1 DEF Leq
    <3> QED BY <2>1, <3>2, LeqOrder
  <2> QED BY <1>5, <2>2, <2>3
<1>7. /\ n \in [Ids -> Nat]
      /\ \A id \in Ids :
           n[id] = IF /\ id \in ids
                      /\ r[id].version = batch[id].version
                      /\ batch[id].version > syn[id]
                   THEN batch[id].version ELSE syn[id]
  <2>1. \A id \in DOMAIN batch : batch[id].version \in Nat
    BY InBatch, ElementsAssumption DEF ElementType
  <2> QED BY <2>1, <1>p DEF Noted
<1>8. ASSUME NEW id \in Ids, n[id] # syn[id]
      PROVE  id \in DOMAIN batch /\ n[id] = VersionOf(r[id])
             /\ (r[id] = batch[id] \/ (r[id] = scene[c][id] /\ id \in a))
  <2>1. id \in ids /\ id \in DOMAIN batch /\ n[id] = batch[id].version /\ r[id].version = batch[id].version
        /\ syn[id] < batch[id].version
    BY <1>7, <1>8, <1>p
  <2>2. r[id] # batch[id] => r[id] = scene[c][id] /\ scene[c][id] # NoElement /\ id \in a
    BY <1>3, <1>p, <2>1 DEF Keeps, PutAside
  <2>3. r[id] # NoElement
    BY <1>2, <2>1, <2>2
  <2> QED BY <2>1, <2>2, <2>3 DEF VersionOf
<1>9. ASSUME NEW S \in SUBSET DOMAIN batch
      PROVE  /\ Behind(bhd, S, batch) \in [Ids -> Nat]
             /\ \A id \in Ids :
                  /\ bhd[id] <= Behind(bhd, S, batch)[id]
                  /\ id \in S => VersionOf(batch[id]) <= Behind(bhd, S, batch)[id]
  <2>1. \A i \in DOMAIN batch : batch[i].version \in Nat /\ VersionOf(batch[i]) = batch[i].version
    BY <1>2, InBatch, ElementsAssumption DEF ElementType
  <2> QED BY <2>1 DEF Behind
<1>10. a \subseteq DOMAIN batch
  BY <1>p DEF PutAside
<1>11. \A id \in Ids : scene[c][id] \in Copies /\ r[id] \in Copies
  BY <1>1, <1>3, OnBoard
<1>12. ASSUME NEW id \in Ids
       PROVE  /\ Leq(scene[c][id], r[id])
              /\ bhd[id] <= Behind(bhd, a, batch)[id]
              /\ syn[id] <= VersionOf(scene[c][id]) => n[id] <= VersionOf(r[id])
              /\ id \in DOMAIN batch =>
                   Leq(batch[id], r[id]) \/ VersionOf(batch[id]) <= Behind(bhd, a, batch)[id]
              /\ \/ r[id] = scene[c][id] /\ n[id] = syn[id]
                 \/ id \in DOMAIN batch /\ r[id] = batch[id]
                 \/ r[id] = scene[c][id] /\ VersionOf(scene[c][id]) <= Behind(bhd, a, batch)[id]
  <2>1. Leq(scene[c][id], r[id]) /\ bhd[id] <= Behind(bhd, a, batch)[id]
    BY <1>4, <1>9, <1>10
  <2>2. id \in DOMAIN batch =>
          Leq(batch[id], r[id]) \/ VersionOf(batch[id]) <= Behind(bhd, a, batch)[id]
    BY <1>6, <1>9, <1>10
  <2>3. VersionOf(scene[c][id]) <= VersionOf(r[id])
        /\ VersionOf(scene[c][id]) \in Nat /\ VersionOf(r[id]) \in Nat
    BY <2>1, <1>11, LeqOrder
  <2>4. syn[id] <= VersionOf(scene[c][id]) => n[id] <= VersionOf(r[id])
    BY <1>7, <1>8, <2>3
  <2>5. CASE n[id] = syn[id]
    BY <2>1, <2>2, <2>4, <2>5, <1>3
  <2>6. CASE n[id] # syn[id]
    <3>1. id \in DOMAIN batch /\ n[id] = VersionOf(r[id])
          /\ (r[id] = batch[id] \/ (r[id] = scene[c][id] /\ id \in a))
      BY <1>8, <2>6
    <3>2. n[id] = batch[id].version
      BY <1>7, <2>6
    <3>3. VersionOf(batch[id]) = batch[id].version
      BY <1>2, <3>1
    <3>4. id \in a => VersionOf(r[id]) <= Behind(bhd, a, batch)[id]
      BY <1>9, <1>10, <3>1, <3>2, <3>3
    <3> QED BY <2>1, <2>2, <2>4, <3>1, <3>4
  <2> QED BY <2>5, <2>6
<1>13. Behind(bhd, a, batch) \in [Ids -> Nat]
  BY <1>9, <1>10
<1>14. o.faults \in Nat
  BY <1>1, <1>q
<1> HIDE DEF r, n, a
<1> QED BY <1>1, <1>3, <1>7, <1>q, <1>12, <1>13, <1>14

-----------------------------------------------------------------------------
(* The steps.                                                              *)

LEMMA InitIInv == Init => IInv
<1> SUFFICES ASSUME Init PROVE IInv
  OBVIOUS
<1>1. TypeOK
  BY SyncAssumption, EmptyBoardType DEF Init, TypeOK, Stages
<1>2. OldInv
  BY OnBoard, LeqOrder DEF Init, OldInv, EmptyBoard, TypeOK, Leq
<1>3. JoinInv /\ NotedIsHeld /\ DownInv /\ UpInv
  BY DEF Init, JoinInv, NotedIsHeld, DownInv, UpInv, VersionOf, EmptyBoard
<1> QED BY <1>1, <1>2, <1>3 DEF IInv

\* What is in hand in every step.
LEMMA InHand ==
  ASSUME IInv
  PROVE  /\ \A c \in Clients :
              /\ scene[c] \in Boards /\ snapshot[c] \in Boards
              /\ synced[c] \in [Ids -> Nat] /\ behind[c] \in [Ids -> Nat]
              /\ \A id \in Ids : /\ scene[c][id] \in Copies /\ snapshot[c][id] \in Copies
                                 /\ synced[c][id] \in Nat /\ behind[c][id] \in Nat
         /\ \A id \in Ids : board[id] \in Copies
BY OnBoard DEF IInv, TypeOK

\* The page's own steps and those of the join: the board and the scenes stay,
\* what is sent is what is shown.
LEMMA LinkKeeps ==
  ASSUME IInv, TypeOK', JoinInv', UNCHANGED <<board, scene, down>>,
         \A m \in up' \ up : \A id \in DOMAIN m.batch : m.batch[id] = scene[m.from][id],
         \A c \in Clients, id \in Ids : synced'[c][id] <= VersionOf(scene[c][id]),
         \A c \in Clients : snapshot'[c] \in {snapshot[c], EmptyBoard, board},
         \A c \in Clients : stage'[c] = "done" =>
           /\ stage[c] = "done" /\ socket'[c] = socket[c]
           /\ behind'[c] = behind[c] /\ refused'[c] = refused[c]
           /\ \A m \in up : m.from = c => m \in up'
           /\ \A id \in Ids \ LocalOnly :
                \/ synced'[c][id] = synced[c][id]
                \/ \E m \in up' : /\ m.from = c /\ m.n = socket[c].n
                                  /\ id \in DOMAIN m.batch /\ m.batch[id] = scene[c][id],
         \A c \in Clients : stage'[c] = "read" =>
           \/ snapshot'[c] = board
           \/ stage[c] = "read" /\ snapshot'[c] = snapshot[c] /\ behind'[c] = behind[c],
         \A c \in Clients : stage'[c] \in {"read", "done"} /\ c \in evicted => c \in evicted'
  PROVE  IInv'
<1>1. OldInv'
  <2>1. ASSUME NEW m \in up', NEW id \in DOMAIN m.batch
        PROVE  Leq(m.batch[id], scene[m.from][id])
    <3>1. m.from \in Clients /\ id \in Ids
      BY <2>1 DEF TypeOK, IsBatch
    <3> QED BY <2>1, <3>1, InHand, LeqOrder DEF IInv, OldInv
  <2>2. ASSUME NEW c \in Clients, NEW id \in Ids PROVE Leq(snapshot'[c][id], board[id])
    <3>1. EmptyBoard[id] = NoElement
      BY DEF EmptyBoard
    <3> QED BY <2>2, <3>1, InHand, LeqOrder DEF IInv, OldInv
  <2> QED BY <2>1, <2>2 DEF IInv, OldInv
<1>2. NotedIsHeld'
  BY DEF NotedIsHeld
<1>3. DownInv'
  <2> SUFFICES ASSUME NEW c \in Clients, NEW id \in Ids, c \notin evicted'
               PROVE  /\ stage'[c] = "read" => Gets(c, id)' \/ Leq(board[id], snapshot'[c][id])
                      /\ stage'[c] = "done" => Gets(c, id)'
    BY DEF DownInv
  <2>1. Leq(board[id], board[id])
    BY InHand, LeqOrder
  <2> QED BY <2>1 DEF IInv, DownInv, Gets
<1>4. UpInv'
  <2> SUFFICES ASSUME NEW c \in Clients, NEW id \in Ids \ LocalOnly, stage'[c] = "done"
               PROVE  Sends(c, id)'
    BY DEF UpInv
  <2>1. Sends(c, id)
    BY DEF IInv, UpInv
  <2>2. synced'[c][id] = synced[c][id] =>
          (id \in Changed(scene[c], synced[c]) => id \in Changed(scene'[c], synced'[c]))
    BY DEF Changed
  <2> QED BY <2>1, <2>2 DEF Sends
<1> QED BY <1>1, <1>2, <1>3, <1>4 DEF IInv

LEMMA MoreIsTyped ==
  ASSUME TypeOK, NEW c \in Clients, NEW sc \in Boards, NEW syn \in [Ids -> Nat], SendOps(c, sc, syn)
  PROVE  /\ up \subseteq up'
         /\ \A m \in up' \ up : /\ m.from = c /\ m.n = socket[c].n /\ m.n \in Nat /\ IsBatch(m.batch)
                               /\ \A id \in DOMAIN m.batch : m.batch[id] = sc[id]
         /\ \A id \in Sent(sc, syn) :
              \E m \in up' : /\ m.from = c /\ m.n = socket[c].n
                             /\ id \in DOMAIN m.batch /\ m.batch[id] = sc[id]
<1>1. PICK P \in Cuts(Sent(sc, syn)) :
        up' = up \cup {[from |-> c, n |-> socket[c].n, batch |-> [id \in p |-> sc[id]]] : p \in P}
  BY DEF SendOps
<1>2. /\ \A p \in P : p \subseteq Sent(sc, syn)
      /\ UNION P = Sent(sc, syn)
  BY DEF Cuts
<1>3. \A id \in Sent(sc, syn) : id \in Ids /\ sc[id] \in Elements
  BY LeqOrder, OnBoard DEF Sent, Changed, VersionOf, Copies
<1>4. socket[c].n \in Nat
  BY DEF TypeOK
<1>5. ASSUME NEW m \in up' \ up
      PROVE  /\ m.from = c /\ m.n = socket[c].n /\ IsBatch(m.batch)
             /\ \A id \in DOMAIN m.batch : m.batch[id] = sc[id]
  <2>1. PICK p \in P : m = [from |-> c, n |-> socket[c].n, batch |-> [id \in p |-> sc[id]]]
    BY <1>1, <1>5
  <2> QED BY <1>2, <1>3, <2>1 DEF IsBatch
<1>6. ASSUME NEW id \in Sent(sc, syn)
      PROVE  \E m \in up' : /\ m.from = c /\ m.n = socket[c].n
                            /\ id \in DOMAIN m.batch /\ m.batch[id] = sc[id]
  <2>1. PICK p \in P : id \in p
    BY <1>2
  <2> DEFINE x == [from |-> c, n |-> socket[c].n, batch |-> [i \in p |-> sc[i]]]
  <2>2. x \in up' /\ x.from = c /\ x.n = socket[c].n /\ id \in DOMAIN x.batch /\ x.batch[id] = sc[id]
    BY <1>1, <2>1
  <2> QED BY <2>2
<1> QED BY <1>1, <1>4, <1>5, <1>6

\* flush notes what it sends.
LEMMA FlushNotes ==
  ASSUME NEW sc \in Boards, NEW syn \in [Ids -> Nat],
         \A id \in Ids : syn[id] <= VersionOf(sc[id])
  PROVE  /\ FlushMap(sc, syn) \in [Ids -> Nat]
         /\ \A id \in Ids :
              /\ FlushMap(sc, syn)[id] <= VersionOf(sc[id])
              /\ id \notin Changed(sc, syn) =>
                   FlushMap(sc, syn)[id] = syn[id] /\ syn[id] = VersionOf(sc[id])
<1>1. \A id \in Ids : VersionOf(sc[id]) \in Nat
  BY OnBoard, LeqOrder
<1>2. \A id \in Changed(sc, syn) : id \in Ids /\ sc[id].version = VersionOf(sc[id])
  BY <1>1 DEF Changed, VersionOf
<1> QED BY <1>1, <1>2 DEF FlushMap, Changed

LEMMA FlushKeeps ==
  ASSUME IInv, NEW c \in Clients, Flush(c)
  PROVE  IInv'
<1> USE DEF clientVars, linkVars, memberVars
<1>1. /\ synced' = [synced EXCEPT ![c] = FlushMap(scene[c], synced[c])]
      /\ SendOps(c, scene[c], synced[c])
      /\ UNCHANGED <<board, scene, editing, behind, linkVars, down, memberVars, refused, edits, faults>>
  BY DEF Flush
<1>2. TypeOK /\ NotedIsHeld
  BY DEF IInv
<1>3. /\ FlushMap(scene[c], synced[c]) \in [Ids -> Nat]
      /\ \A id \in Ids :
           /\ FlushMap(scene[c], synced[c])[id] <= VersionOf(scene[c][id])
           /\ id \notin Changed(scene[c], synced[c]) =>
                FlushMap(scene[c], synced[c])[id] = synced[c][id]
  BY <1>2, InHand, FlushNotes DEF NotedIsHeld
<1>4. /\ up \subseteq up'
      /\ \A m \in up' \ up : /\ m.from = c /\ m.n \in Nat /\ IsBatch(m.batch)
                             /\ \A id \in DOMAIN m.batch : m.batch[id] = scene[c][id]
      /\ \A id \in Sent(scene[c], synced[c]) :
           \E m \in up' : /\ m.from = c /\ m.n = socket[c].n
                          /\ id \in DOMAIN m.batch /\ m.batch[id] = scene[c][id]
  BY <1>1, <1>2, InHand, MoreIsTyped
<1>5. TypeOK'
  BY <1>1, <1>2, <1>3, <1>4 DEF TypeOK
<1>6. JoinInv'
  BY <1>1 DEF IInv, JoinInv
<1>7. \A d \in Clients, id \in Ids : synced'[d][id] <= VersionOf(scene[d][id])
  BY <1>1, <1>2, <1>3 DEF NotedIsHeld, TypeOK
<1>8. \A d \in Clients : \A id \in Ids \ LocalOnly :
        \/ synced'[d][id] = synced[d][id]
        \/ \E m \in up' : /\ m.from = d /\ m.n = socket[d].n
                          /\ id \in DOMAIN m.batch /\ m.batch[id] = scene[d][id]
  BY <1>1, <1>2, <1>3, <1>4 DEF Sent, TypeOK
<1> QED BY <1>1, <1>4, <1>5, <1>6, <1>7, <1>8, LinkKeeps

\* The channel and the socket are left.
LEMMA CloseKeeps ==
  ASSUME IInv, NEW c \in Clients, CloseSocket(c), TypeOK',
         UNCHANGED <<board, scene, down, eviction, behind, refused>>,
         \A m \in up' \ up : \A id \in DOMAIN m.batch : m.batch[id] = scene[m.from][id],
         \A m \in up : m.from # c => m \in up',
         \A d \in Clients : d # c => synced'[d] = synced[d],
         \A id \in Ids : synced'[c][id] <= VersionOf(scene[c][id])
  PROVE  IInv'
<1>1. /\ socket' = [socket EXCEPT ![c].on = FALSE]
      /\ stage' = [stage EXCEPT ![c] = "out"]
      /\ snapshot' = [snapshot EXCEPT ![c] = EmptyBoard]
      /\ evicted' = evicted \ {c} /\ late' = late \ {c}
  BY DEF CloseSocket
<1>2. TypeOK /\ NotedIsHeld
  BY DEF IInv
<1>3. \A d \in Clients : /\ stage'[d] = IF d = c THEN "out" ELSE stage[d]
                         /\ snapshot'[d] = IF d = c THEN EmptyBoard ELSE snapshot[d]
                         /\ d # c => socket'[d] = socket[d]
  BY <1>1, <1>2 DEF TypeOK
<1>4. JoinInv'
  BY <1>1, <1>3 DEF IInv, JoinInv
<1>5. \A d \in Clients, id \in Ids : synced'[d][id] <= VersionOf(scene[d][id])
  BY <1>2 DEF NotedIsHeld
<1>6. \A d \in Clients : stage'[d] \in {"read", "done"} /\ d \in evicted => d \in evicted'
  BY <1>1, <1>3
<1>7. \A d \in Clients : stage'[d] \in {"read", "done"} =>
        d # c /\ stage[d] = stage'[d] /\ snapshot'[d] = snapshot[d] /\ socket'[d] = socket[d]
  BY <1>3
<1> QED BY <1>3, <1>4, <1>5, <1>6, <1>7, LinkKeeps

LEMMA DropKeeps ==
  ASSUME IInv, NEW c \in Clients, Drop(c)
  PROVE  IInv'
<1>1. PICK lost \in SUBSET {m \in up : m.from = c} : up' = up \ lost
  BY DEF Drop
<1>2. CloseSocket(c) /\ UNCHANGED <<board, clientVars, down, eviction, refused, edits, faults>>
  BY DEF Drop
<1>3. TypeOK'
  BY <1>1, <1>2, EmptyBoardType DEF IInv, TypeOK, CloseSocket, clientVars, Stages
<1> QED BY <1>1, <1>2, <1>3, CloseKeeps DEF clientVars, IInv, NotedIsHeld

LEMMA RenewKeeps ==
  ASSUME IInv, NEW c \in Clients, Renew(c)
  PROVE  IInv'
<1>1. /\ \/ /\ synced' = [synced EXCEPT ![c] = FlushMap(scene[c], synced[c])]
            /\ SendOps(c, scene[c], synced[c])
         \/ UNCHANGED <<synced, up>>
      /\ CloseSocket(c)
      /\ UNCHANGED <<board, scene, editing, behind, down, eviction, refused, edits, faults>>
  BY DEF Renew
<1>2. TypeOK /\ NotedIsHeld
  BY DEF IInv
<1>3. /\ FlushMap(scene[c], synced[c]) \in [Ids -> Nat]
      /\ \A id \in Ids : FlushMap(scene[c], synced[c])[id] <= VersionOf(scene[c][id])
  BY <1>2, InHand, FlushNotes DEF NotedIsHeld
<1>4. /\ up \subseteq up'
      /\ \A m \in up' \ up : /\ m.from = c /\ m.n \in Nat /\ IsBatch(m.batch)
                             /\ \A id \in DOMAIN m.batch : m.batch[id] = scene[c][id]
  BY <1>1, <1>2, InHand, MoreIsTyped
<1>5. synced' \in [Clients -> [Ids -> Nat]]
      /\ (\A d \in Clients : d # c => synced'[d] = synced[d])
      /\ \A id \in Ids : synced'[c][id] <= VersionOf(scene[c][id])
  BY <1>1, <1>2, <1>3 DEF TypeOK, NotedIsHeld
<1>6. TypeOK'
  <2>1. /\ socket' \in [Clients -> [n : Nat, on : BOOLEAN]] /\ joined' \in [Clients -> BOOLEAN]
        /\ stage' \in [Clients -> Stages] /\ snapshot' \in [Clients -> Boards]
    BY <1>1, <1>2, EmptyBoardType DEF TypeOK, CloseSocket, Stages
  <2>2. \A m \in up' : m.from \in Clients /\ m.n \in Nat /\ IsBatch(m.batch)
    BY <1>2, <1>4 DEF TypeOK
  <2> QED BY <1>1, <1>2, <1>5, <2>1, <2>2 DEF TypeOK
<1> QED BY <1>1, <1>4, <1>5, <1>6, CloseKeeps

\* The rest of the join, and what the page does without sending.
LEMMA JoinStepKeeps ==
  ASSUME IInv, NEW c \in Clients,
         \/ \E id \in Ids : Protect(c, id)
         \/ Release(c) \/ Connect(c) \/ CheckJoin(c) \/ EnterChannel(c)
         \/ ReadSnapshot(c) \/ FailSnapshot(c)
         \/ DeleteMember(c) \/ LoseEviction(c) \/ Evict(c)
  PROVE  IInv'
<1> USE DEF clientVars, linkVars, memberVars, Advance
<1>1. TypeOK /\ NotedIsHeld
  BY DEF IInv
<1>2. UNCHANGED <<board, scene, synced, up, down, refused>>
  BY DEF Protect, Release, Connect, CheckJoin, EnterChannel, ReadSnapshot, FailSnapshot,
     Removal, DeleteMember, LoseEviction, Evict
<1>3. CASE (\E id \in Ids : Protect(c, id)) \/ Release(c)
  <2>1. UNCHANGED <<behind, linkVars, memberVars, faults>>
    BY <1>3 DEF Protect, Release
  <2>2. \E S \in SUBSET Ids : editing' = [editing EXCEPT ![c] = S]
    BY <1>3 DEF Protect, Release
  <2>3. TypeOK' /\ JoinInv'
    BY <1>1, <1>2, <2>1, <2>2 DEF TypeOK, IInv, JoinInv
  <2> QED BY <1>1, <1>2, <2>1, <2>3, LinkKeeps DEF NotedIsHeld
<1>4. CASE Connect(c)
  <2>1. /\ socket' = [socket EXCEPT ![c] = [n |-> @.n + 1, on |-> TRUE]]
        /\ stage' = [stage EXCEPT ![c] = "asked"]
        /\ UNCHANGED <<editing, behind, joined, snapshot, memberVars, faults>>
    BY <1>4 DEF Connect
  <2>2. TypeOK' /\ JoinInv'
    BY <1>1, <1>2, <2>1 DEF TypeOK, IInv, JoinInv, Stages
  <2>3. \A d \in Clients : stage'[d] \in {"read", "done"} => stage[d] = stage'[d] /\ socket'[d] = socket[d]
    BY <1>1, <2>1 DEF TypeOK
  <2> QED BY <1>1, <1>2, <2>1, <2>2, <2>3, LinkKeeps DEF NotedIsHeld
<1>5. CASE CheckJoin(c) \/ EnterChannel(c) \/ ReadSnapshot(c) \/ FailSnapshot(c)
  <2>1. PICK to \in {"failed", "checked", "channel", "read"} :
          /\ stage' = [stage EXCEPT ![c] = to]
          /\ stage[c] # "out"
          /\ stage[c] \notin {"checked", "channel", "read", "done"} /\ c \in Removed => to = "failed"
          /\ to = "read" => /\ snapshot' = [snapshot EXCEPT ![c] = board]
                            /\ behind' = [behind EXCEPT ![c] = [id \in Ids |-> 0]]
          /\ to # "read" => UNCHANGED <<snapshot, behind>>
    BY <1>5 DEF CheckJoin, EnterChannel, ReadSnapshot, FailSnapshot
  <2>2. UNCHANGED <<editing, socket, joined, memberVars>> /\ faults' \in Nat
    BY <1>1, <1>5 DEF CheckJoin, EnterChannel, ReadSnapshot, FailSnapshot, TypeOK
  <2>3. TypeOK'
    <3>1. stage' \in [Clients -> Stages]
      BY <1>1, <2>1 DEF TypeOK, Stages
    <3>2. snapshot' \in [Clients -> Boards] /\ behind' \in [Clients -> [Ids -> Nat]]
      <4>1. [id \in Ids |-> 0] \in [Ids -> Nat] /\ board \in Boards
        BY <1>1 DEF TypeOK
      <4>2. snapshot \in [Clients -> Boards] /\ behind \in [Clients -> [Ids -> Nat]]
        BY <1>1 DEF TypeOK
      <4>3. CASE to = "read"
        BY <2>1, <4>1, <4>2, <4>3
      <4>4. CASE to # "read"
        BY <2>1, <4>2, <4>4
      <4> QED BY <4>3, <4>4
    <3> QED BY <1>1, <1>2, <2>2, <3>1, <3>2 DEF TypeOK
  <2>4. JoinInv'
    <3>1. \A d \in Clients : d # c => stage'[d] = stage[d]
      BY <1>1, <2>1 DEF TypeOK
    <3> QED BY <1>1, <2>1, <2>2, <3>1 DEF TypeOK, IInv, JoinInv, Removed
  <2>5. \A d \in Clients :
          /\ snapshot'[d] \in {snapshot[d], board}
          /\ stage'[d] = "done" => stage[d] = "done" /\ behind'[d] = behind[d]
          /\ stage'[d] = "read" =>
               \/ snapshot'[d] = board
               \/ stage[d] = "read" /\ snapshot'[d] = snapshot[d] /\ behind'[d] = behind[d]
    BY <1>1, <2>1 DEF TypeOK
  <2> QED BY <1>1, <1>2, <2>2, <2>3, <2>4, <2>5, LinkKeeps DEF NotedIsHeld
<1>6. CASE DeleteMember(c) \/ LoseEviction(c) \/ Evict(c)
  <2>1. /\ \/ \E to \in {"due", "lost"} :
                 eviction' = [eviction EXCEPT ![c] = to] /\ UNCHANGED <<evicted, late>>
           \/ /\ eviction' = [eviction EXCEPT ![c] = "done"]
              /\ evicted' = IF InChannel(c) THEN evicted \cup {c} ELSE evicted
              /\ late' = IF stage[c] = "checked" THEN late \cup {c} ELSE late
        /\ UNCHANGED <<editing, behind, linkVars>>
    BY <1>6 DEF Removal, DeleteMember, LoseEviction, Evict
  <2>2. faults' \in Nat
    BY <1>1, <1>6 DEF DeleteMember, LoseEviction, Evict, TypeOK
  <2>3. TypeOK'
    BY <1>1, <1>2, <2>1, <2>2 DEF TypeOK
  <2>4. JoinInv'
    BY <1>1, <2>1 DEF TypeOK, IInv, JoinInv, InChannel
  <2>5. evicted \subseteq evicted'
    BY <2>1
  <2> QED BY <1>1, <1>2, <2>1, <2>3, <2>4, <2>5, LinkKeeps DEF NotedIsHeld
<1> QED BY <1>3, <1>4, <1>5, <1>6

LEMMA EditKeeps ==
  ASSUME IInv, NEW c \in Clients, NEW id \in Ids, Edit(c, id)
  PROVE  IInv'
<1> USE DEF linkVars, memberVars
<1>1. PICK e \in Elements : /\ e.version = VersionOf(scene[c][id]) + 1
                            /\ scene' = [scene EXCEPT ![c][id] = e]
  BY DEF Edit
<1>2. /\ refused' = [refused EXCEPT ![c] = @ \ {id}]
      /\ UNCHANGED <<board, synced, editing, behind, linkVars, up, down, memberVars, faults>>
  BY DEF Edit
<1>3. TypeOK /\ NotedIsHeld
  BY DEF IInv
<1>4. /\ e \in Copies /\ e # NoElement /\ VersionOf(e) = VersionOf(scene[c][id]) + 1
      /\ VersionOf(scene[c][id]) \in Nat
  BY <1>1, ElementsAssumption, InHand, LeqOrder DEF Copies, VersionOf
<1>5. Leq(scene[c][id], e)
  BY <1>4, InHand, LeqOrder
<1>6. \A d \in Clients, i \in Ids : scene'[d][i] = IF d = c /\ i = id THEN e ELSE scene[d][i]
  BY <1>1, <1>3 DEF TypeOK, Boards
<1>7. \A d \in Clients, i \in Ids : Leq(scene[d][i], scene'[d][i])
  BY <1>5, <1>6, InHand, LeqOrder
<1>8. scene' \in [Clients -> Boards]
  BY <1>1, <1>3 DEF TypeOK, Boards
<1>9. TypeOK'
  BY <1>2, <1>3, <1>8 DEF TypeOK
<1>10. \A d \in Clients, i \in Ids : scene'[d][i] \in Copies
  BY <1>8, OnBoard
<1>11. OldInv'
  <2>1. ASSUME NEW m \in up, NEW i \in DOMAIN m.batch PROVE Leq(m.batch[i], scene'[m.from][i])
    <3>1. m.from \in Clients /\ i \in Ids /\ m.batch[i] \in Copies
      BY <1>3, InBatch DEF TypeOK
    <3>2. Leq(m.batch[i], scene[m.from][i])
      BY DEF IInv, OldInv
    <3> QED BY <3>1, <3>2, <1>7, <1>10, InHand, LeqOrder
  <2> QED BY <1>2, <2>1 DEF IInv, OldInv
<1>12. JoinInv'
  BY <1>2 DEF IInv, JoinInv
<1>13. NotedIsHeld'
  BY <1>2, <1>3, <1>4, <1>6, InHand DEF NotedIsHeld
<1>14. DownInv'
  <2>1. ASSUME NEW d \in Clients, NEW i \in Ids, Gets(d, i) PROVE Gets(d, i)'
    BY <1>2, <1>7, <1>10, <2>1, InHand, LeqOrder DEF Gets
  <2> QED BY <1>2, <2>1 DEF IInv, DownInv
<1>15. UpInv'
  <2> SUFFICES ASSUME NEW d \in Clients, NEW i \in Ids \ LocalOnly, stage[d] = "done"
               PROVE  Sends(d, i)'
    BY <1>2 DEF UpInv
  <2>1. CASE d = c /\ i = id
    <3>1. VersionOf(scene'[d][i]) > synced'[d][i]
      BY <1>2, <1>3, <1>4, <1>6, <2>1, InHand DEF NotedIsHeld
    <3> QED BY <3>1 DEF Sends, Changed
  <2>2. CASE ~(d = c /\ i = id)
    <3>1. scene'[d][i] = scene[d][i] /\ (i \in refused[d] => i \in refused'[d])
      BY <1>2, <1>3, <1>6, <2>2 DEF TypeOK
    <3>2. Sends(d, i)
      BY DEF IInv, UpInv
    <3> QED BY <1>2, <3>1, <3>2 DEF Sends, Changed
  <2> QED BY <2>1, <2>2
<1> QED BY <1>9, <1>11, <1>12, <1>13, <1>14, <1>15 DEF IInv

\* A batch arrives at a page.
LEMMA ReceiveOpsKeeps ==
  ASSUME IInv, NEW p \in down, ReceiveOps(p)
  PROVE  IInv'
<1> USE DEF linkVars, memberVars
<1> DEFINE c == p.to
<1>1. TypeOK /\ NotedIsHeld /\ c \in Clients /\ IsBatch(p.batch)
  BY DEF IInv, TypeOK
<1>2. PICK o \in Outcomes(c, synced[c], behind[c], p.batch) :
        /\ scene' = [scene EXCEPT ![c] = o.scene]
        /\ synced' = [synced EXCEPT ![c] = o.synced]
        /\ behind' = [behind EXCEPT ![c] = o.behind]
        /\ faults' = o.faults
  BY DEF ReceiveOps
<1>3. /\ down' = down \ {p}
      /\ UNCHANGED <<board, editing, linkVars, up, memberVars, refused>>
  BY DEF ReceiveOps
<1>4. synced[c] \in [Ids -> Nat] /\ behind[c] \in [Ids -> Nat]
  BY <1>1, InHand
<1>5. /\ o.scene \in Boards /\ o.synced \in [Ids -> Nat] /\ o.behind \in [Ids -> Nat]
      /\ o.faults \in Nat
      /\ \A id \in Ids :
           /\ Leq(scene[c][id], o.scene[id])
           /\ behind[c][id] <= o.behind[id]
           /\ synced[c][id] <= VersionOf(scene[c][id]) => o.synced[id] <= VersionOf(o.scene[id])
           /\ id \in DOMAIN p.batch =>
                Leq(p.batch[id], o.scene[id]) \/ VersionOf(p.batch[id]) <= o.behind[id]
           /\ \/ o.scene[id] = scene[c][id] /\ o.synced[id] = synced[c][id]
              \/ id \in DOMAIN p.batch /\ o.scene[id] = p.batch[id]
              \/ o.scene[id] = scene[c][id] /\ VersionOf(scene[c][id]) <= o.behind[id]
  <2> HIDE DEF c
  <2> QED BY <1>1, <1>4, OutcomeIs
<1>6. TypeOK'
  BY <1>1, <1>2, <1>3, <1>5 DEF TypeOK
<1>7. \A d \in Clients : /\ scene'[d] = IF d = c THEN o.scene ELSE scene[d]
                         /\ synced'[d] = IF d = c THEN o.synced ELSE synced[d]
                         /\ behind'[d] = IF d = c THEN o.behind ELSE behind[d]
  BY <1>1, <1>2 DEF TypeOK
<1>8. \A d \in Clients, id \in Ids :
        /\ scene'[d][id] \in Copies /\ Leq(scene[d][id], scene'[d][id])
        /\ behind'[d][id] \in Nat /\ behind[d][id] <= behind'[d][id]
  BY <1>5, <1>7, InHand, OnBoard, LeqOrder
<1>9. OldInv'
  <2>1. ASSUME NEW m \in up, NEW i \in DOMAIN m.batch PROVE Leq(m.batch[i], scene'[m.from][i])
    <3>1. m.from \in Clients /\ i \in Ids /\ m.batch[i] \in Copies
      BY <1>1, InBatch DEF TypeOK
    <3>2. Leq(m.batch[i], scene[m.from][i])
      BY DEF IInv, OldInv
    <3> QED BY <3>1, <3>2, <1>8, InHand, LeqOrder
  <2> QED BY <1>3, <2>1 DEF IInv, OldInv
<1>10. JoinInv'
  BY <1>3 DEF IInv, JoinInv
<1>11. NotedIsHeld'
  BY <1>1, <1>5, <1>7 DEF NotedIsHeld
<1>12. DownInv'
  <2>1. ASSUME NEW d \in Clients, NEW id \in Ids, Gets(d, id) PROVE Gets(d, id)'
    <3>1. CASE Leq(board[id], scene[d][id])
      BY <1>3, <1>8, <3>1, InHand, LeqOrder DEF Gets
    <3>2. CASE VersionOf(board[id]) <= behind[d][id]
      <4>1. VersionOf(board[id]) \in Nat /\ behind[d][id] \in Nat
        BY InHand, LeqOrder
      <4> QED BY <1>3, <1>8, <3>2, <4>1 DEF Gets
    <3>3. ASSUME NEW q \in down, q.to = d, id \in DOMAIN q.batch, q.batch[id] = board[id]
          PROVE  Gets(d, id)'
      <4>1. CASE q = p
        BY <1>3, <1>5, <1>7, <3>3, <4>1 DEF Gets
      <4>2. CASE q # p
        BY <1>3, <3>3, <4>2 DEF Gets
      <4> QED BY <4>1, <4>2
    <3> QED BY <2>1, <3>1, <3>2, <3>3 DEF Gets
  <2> QED BY <1>3, <2>1 DEF IInv, DownInv
<1>13. UpInv'
  <2> SUFFICES ASSUME NEW d \in Clients, NEW id \in Ids \ LocalOnly, stage[d] = "done"
               PROVE  Sends(d, id)'
    BY <1>3 DEF UpInv
  <2>1. Sends(d, id)
    BY DEF IInv, UpInv
  <2>2. ASSUME scene'[d][id] = scene[d][id], synced'[d][id] = synced[d][id]
        PROVE  Sends(d, id)'
    <3>1. VersionOf(scene[d][id]) \in Nat /\ behind[d][id] \in Nat
      BY InHand, LeqOrder
    <3> QED BY <1>3, <1>8, <2>1, <2>2, <3>1 DEF Sends, Changed
  <2>3. CASE d # c
    BY <1>7, <2>2, <2>3
  <2>4. CASE d = c
    <3>1. CASE id \in DOMAIN p.batch /\ o.scene[id] = p.batch[id]
      <4>1. Leq(scene'[d][id], board[id])
        BY <1>7, <2>4, <3>1 DEF IInv, OldInv
      <4> QED BY <1>3, <4>1 DEF Sends
    <3>2. CASE o.scene[id] = scene[c][id] /\ VersionOf(scene[c][id]) <= o.behind[id]
      BY <1>7, <2>4, <3>2 DEF Sends
    <3>3. CASE o.scene[id] = scene[c][id] /\ o.synced[id] = synced[c][id]
      BY <1>7, <2>2, <2>4, <3>3
    <3> QED BY <1>5, <3>1, <3>2, <3>3
  <2> QED BY <2>3, <2>4
<1> QED BY <1>6, <1>9, <1>10, <1>11, <1>12, <1>13 DEF IInv

LEMMA ReceiveSnapshotKeeps ==
  ASSUME IInv, NEW c \in Clients, ReceiveSnapshot(c)
  PROVE  IInv'
<1> USE DEF linkVars, memberVars
<1> DEFINE z == [id \in Ids |-> 0]
           snap == Stored(snapshot[c])
<1>1. TypeOK /\ NotedIsHeld
  BY DEF IInv
<1>2. PICK o \in Outcomes(c, z, behind[c], snap) :
        /\ scene' = [scene EXCEPT ![c] = o.scene]
        /\ synced' = [synced EXCEPT ![c] = FlushMap(o.scene, o.synced)]
        /\ behind' = [behind EXCEPT ![c] = o.behind]
        /\ faults' = o.faults
        /\ SendOps(c, o.scene, o.synced)
  BY DEF ReceiveSnapshot
<1>3. /\ stage[c] = "read" /\ stage' = [stage EXCEPT ![c] = "done"]
      /\ joined' = [joined EXCEPT ![c] = TRUE]
      /\ snapshot' = [snapshot EXCEPT ![c] = EmptyBoard]
      /\ refused' = [refused EXCEPT ![c] = {}]
      /\ UNCHANGED <<board, editing, socket, down, memberVars>>
  BY DEF ReceiveSnapshot
<1>4. /\ z \in [Ids -> Nat] /\ behind[c] \in [Ids -> Nat] /\ \A id \in Ids : z[id] = 0
      /\ IsBatch(snap)
      /\ \A id \in Ids : id \in DOMAIN snap <=> snapshot[c][id] # NoElement
      /\ \A id \in DOMAIN snap : id \in Ids /\ snap[id] = snapshot[c][id]
  BY InHand DEF IsBatch, Stored, StoredIds, Copies
<1>5. /\ o.scene \in Boards /\ o.synced \in [Ids -> Nat] /\ o.behind \in [Ids -> Nat]
      /\ o.faults \in Nat
      /\ \A id \in Ids :
           /\ Leq(scene[c][id], o.scene[id])
           /\ behind[c][id] <= o.behind[id]
           /\ z[id] <= VersionOf(scene[c][id]) => o.synced[id] <= VersionOf(o.scene[id])
           /\ id \in DOMAIN snap =>
                Leq(snap[id], o.scene[id]) \/ VersionOf(snap[id]) <= o.behind[id]
           /\ \/ o.scene[id] = scene[c][id] /\ o.synced[id] = z[id]
              \/ id \in DOMAIN snap /\ o.scene[id] = snap[id]
              \/ o.scene[id] = scene[c][id] /\ VersionOf(scene[c][id]) <= o.behind[id]
  <2> HIDE DEF z, snap
  <2> QED BY <1>1, <1>4, OutcomeIs
<1> HIDE DEF z, snap
<1>6. \A id \in Ids : /\ o.scene[id] \in Copies /\ VersionOf(o.scene[id]) \in Nat
                      /\ o.synced[id] <= VersionOf(o.scene[id])
  BY <1>4, <1>5, InHand, OnBoard, LeqOrder
<1>7. /\ FlushMap(o.scene, o.synced) \in [Ids -> Nat]
      /\ \A id \in Ids :
           /\ FlushMap(o.scene, o.synced)[id] <= VersionOf(o.scene[id])
           /\ id \notin Changed(o.scene, o.synced) => o.synced[id] = VersionOf(o.scene[id])
  BY <1>5, <1>6, FlushNotes
<1>8. /\ up \subseteq up'
      /\ \A m \in up' \ up : /\ m.from = c /\ m.n \in Nat /\ IsBatch(m.batch)
                             /\ \A id \in DOMAIN m.batch : m.batch[id] = o.scene[id]
      /\ \A id \in Sent(o.scene, o.synced) :
           \E m \in up' : /\ m.from = c /\ m.n = socket[c].n
                          /\ id \in DOMAIN m.batch /\ m.batch[id] = o.scene[id]
  BY <1>1, <1>2, <1>5, MoreIsTyped
<1>9. TypeOK'
  BY <1>1, <1>2, <1>3, <1>5, <1>7, <1>8, EmptyBoardType DEF TypeOK, Stages
<1>10. \A d \in Clients : /\ scene'[d] = IF d = c THEN o.scene ELSE scene[d]
                          /\ d # c => synced'[d] = synced[d] /\ refused'[d] = refused[d]
                          /\ behind'[d] = IF d = c THEN o.behind ELSE behind[d]
                          /\ stage'[d] = IF d = c THEN "done" ELSE stage[d]
                          /\ snapshot'[d] = IF d = c THEN EmptyBoard ELSE snapshot[d]
  BY <1>1, <1>2, <1>3 DEF TypeOK
<1>11. synced'[c] = FlushMap(o.scene, o.synced)
  BY <1>1, <1>2 DEF TypeOK
<1>12. \A d \in Clients, id \in Ids :
         /\ scene'[d][id] \in Copies /\ Leq(scene[d][id], scene'[d][id])
         /\ behind'[d][id] \in Nat /\ behind[d][id] <= behind'[d][id]
  BY <1>5, <1>10, InHand, OnBoard, LeqOrder
<1>13. OldInv'
  <2>1. ASSUME NEW m \in up', NEW i \in DOMAIN m.batch PROVE Leq(m.batch[i], scene'[m.from][i])
    <3>1. m.from \in Clients /\ i \in Ids /\ m.batch[i] \in Copies
      BY <1>9, <2>1, InBatch DEF TypeOK
    <3>2. CASE m \in up
      <4>1. Leq(m.batch[i], scene[m.from][i])
        BY <3>2 DEF IInv, OldInv
      <4> QED BY <3>1, <4>1, <1>12, InHand, LeqOrder
    <3>3. CASE m \notin up
      BY <1>8, <1>10, <2>1, <3>1, <3>3, LeqOrder
    <3> QED BY <3>2, <3>3
  <2>2. \A d \in Clients, id \in Ids : Leq(snapshot'[d][id], board[id])
    BY <1>10, InHand, LeqOrder DEF IInv, OldInv, EmptyBoard
  <2> QED BY <1>3, <2>1, <2>2 DEF IInv, OldInv
<1>14. JoinInv'
  BY <1>3, <1>10 DEF IInv, JoinInv
<1>15. NotedIsHeld'
  BY <1>1, <1>7, <1>10, <1>11 DEF NotedIsHeld
<1>16. DownInv'
  <2>1. ASSUME NEW d \in Clients, NEW id \in Ids, Gets(d, id) PROVE Gets(d, id)'
    <3>1. VersionOf(board[id]) \in Nat /\ behind[d][id] \in Nat
      BY InHand, LeqOrder
    <3> QED BY <1>3, <1>12, <2>1, <3>1, InHand, LeqOrder DEF Gets
  <2>2. ASSUME NEW id \in Ids, Leq(board[id], snapshot[c][id]) PROVE Gets(c, id)'
    <3>1. CASE id \notin DOMAIN snap
      <4>1. board[id] = NoElement
        BY <1>4, <2>2, <3>1, InHand, LeqOrder
      <4> QED BY <1>3, <1>12, <4>1, LeqOrder DEF Gets
    <3>2. CASE id \in DOMAIN snap
      <4>1. snap[id] = snapshot[c][id] /\ snap[id] \in Copies
        BY <1>4, <3>2, InHand
      <4>2. CASE Leq(snap[id], o.scene[id])
        BY <1>3, <1>6, <1>10, <2>2, <4>1, <4>2, InHand, LeqOrder DEF Gets
      <4>3. CASE VersionOf(snap[id]) <= o.behind[id]
        <5>1. VersionOf(board[id]) <= VersionOf(snap[id])
              /\ VersionOf(board[id]) \in Nat /\ VersionOf(snap[id]) \in Nat /\ o.behind[id] \in Nat
          BY <1>5, <2>2, <4>1, InHand, LeqOrder
        <5>2. VersionOf(board[id]) <= o.behind[id]
          BY <4>3, <5>1
        <5> QED BY <1>3, <1>10, <5>2 DEF Gets
      <4> QED BY <1>5, <3>2, <4>2, <4>3
    <3> QED BY <3>1, <3>2
  <2> QED BY <1>3, <1>10, <2>1, <2>2 DEF IInv, DownInv
<1>17. UpInv'
  <2> SUFFICES ASSUME NEW d \in Clients, NEW id \in Ids \ LocalOnly, stage'[d] = "done"
               PROVE  Sends(d, id)'
    BY DEF UpInv
  <2>1. CASE d # c
    <3>1. Sends(d, id)
      BY <1>10, <2>1 DEF IInv, UpInv
    <3> QED BY <1>3, <1>8, <1>10, <2>1, <3>1 DEF Sends, Changed
  <2>2. CASE d = c
    <3>1. CASE id \in Changed(o.scene, o.synced)
      <4>1. id \in Sent(o.scene, o.synced)
        BY <3>1 DEF Sent
      <4> QED BY <1>3, <1>8, <1>10, <2>2, <4>1 DEF Sends
    <3>2. CASE id \notin Changed(o.scene, o.synced)
      <4>1. CASE o.scene[id] = scene[c][id] /\ o.synced[id] = z[id]
        <5>1. o.scene[id] = NoElement
          BY <1>4, <1>6, <1>7, <3>2, <4>1, LeqOrder
        <5> QED BY <1>3, <1>10, <2>2, <5>1, InHand, LeqOrder DEF Sends
      <4>2. CASE id \in DOMAIN snap /\ o.scene[id] = snap[id]
        <5>1. Leq(o.scene[id], board[id])
          BY <1>4, <4>2 DEF IInv, OldInv
        <5> QED BY <1>3, <1>10, <2>2, <5>1 DEF Sends
      <4>3. CASE o.scene[id] = scene[c][id] /\ VersionOf(scene[c][id]) <= o.behind[id]
        BY <1>10, <2>2, <4>3 DEF Sends
      <4> QED BY <1>5, <4>1, <4>2, <4>3
    <3> QED BY <3>1, <3>2
  <2> QED BY <2>1, <2>2
<1> QED BY <1>9, <1>13, <1>14, <1>15, <1>16, <1>17 DEF IInv

\* The server merges a batch: the sender has it, and everybody else is told or
\* has a copy put aside.
LEMMA MergedKeeps ==
  ASSUME IInv, NEW m \in up, board' = Merge(board, m.batch), up' = up \ {m}, down \subseteq down',
         UNCHANGED <<scene, synced, editing, linkVars, memberVars, refused>>,
         behind' \in [Clients -> [Ids -> Nat]],
         \A c \in Clients, id \in Ids : behind[c][id] <= behind'[c][id],
         faults' \in Nat,
         \A p \in down' \ down : /\ p.to \in Clients /\ DOMAIN p.batch \subseteq Winners(board, m.batch)
                                 /\ \A id \in DOMAIN p.batch : p.batch[id] = m.batch[id],
         \A c \in Clients, id \in Winners(board, m.batch) :
           \/ c = m.from
           \/ \E p \in down' : p.to = c /\ id \in DOMAIN p.batch /\ p.batch[id] = m.batch[id]
           \/ VersionOf(m.batch[id]) <= behind'[c][id]
  PROVE  IInv'
<1> USE DEF linkVars, memberVars
<1>1. TypeOK /\ NotedIsHeld /\ board \in Boards /\ m.from \in Clients /\ IsBatch(m.batch)
  BY DEF IInv, TypeOK
<1>2. /\ board' \in Boards
      /\ \A id \in Ids : /\ Leq(board[id], board'[id])
                         /\ id \in DOMAIN m.batch => Leq(m.batch[id], board'[id])
                         /\ board'[id] # board[id] =>
                              id \in Winners(board, m.batch) /\ board'[id] = m.batch[id]
      /\ \A id \in Winners(board, m.batch) :
           id \in DOMAIN m.batch /\ id \in Ids /\ board'[id] = m.batch[id]
  BY <1>1, MergeWins
<1>3. \A id \in Ids : board'[id] \in Copies
  BY <1>2, OnBoard
<1>4. \A p \in down' : p.to \in Clients /\ IsBatch(p.batch)
  BY <1>1, <1>2, InBatch DEF TypeOK, IsBatch
<1>5. TypeOK'
  BY <1>1, <1>2, <1>4 DEF TypeOK
<1>6. OldInv'
  <2>1. ASSUME NEW p \in down', NEW i \in DOMAIN p.batch PROVE Leq(p.batch[i], board'[i])
    <3>1. i \in Ids /\ p.batch[i] \in Copies
      BY <1>4, InBatch
    <3>2. CASE p \in down
      <4>1. Leq(p.batch[i], board[i])
        BY <3>2 DEF IInv, OldInv
      <4> QED BY <1>2, <1>3, <3>1, <4>1, InHand, LeqOrder
    <3>3. CASE p \notin down
      BY <1>2, <1>3, <2>1, <3>1, <3>3, LeqOrder
    <3> QED BY <3>2, <3>3
  <2>2. ASSUME NEW c \in Clients, NEW id \in Ids PROVE Leq(snapshot[c][id], board'[id])
    <3>1. Leq(snapshot[c][id], board[id])
      BY DEF IInv, OldInv
    <3> QED BY <1>2, <1>3, <3>1, InHand, LeqOrder
  <2> QED BY <2>1, <2>2 DEF IInv, OldInv
<1>7. JoinInv' /\ NotedIsHeld'
  BY DEF IInv, JoinInv, NotedIsHeld
<1>8. DownInv'
  <2> SUFFICES ASSUME NEW c \in Clients, NEW id \in Ids, c \notin evicted
               PROVE  /\ stage[c] = "read" => Gets(c, id)' \/ Leq(board'[id], snapshot[c][id])
                      /\ stage[c] = "done" => Gets(c, id)'
    BY DEF DownInv
  <2>1. CASE board'[id] = board[id]
    <3>1. VersionOf(board[id]) \in Nat /\ behind[c][id] \in Nat /\ behind'[c][id] \in Nat
      BY InHand, LeqOrder
    <3>2. behind[c][id] <= behind'[c][id]
      OBVIOUS
    <3> QED BY <2>1, <3>1, <3>2 DEF IInv, DownInv, Gets
  <2>2. CASE board'[id] # board[id]
    <3>1. id \in Winners(board, m.batch) /\ id \in DOMAIN m.batch /\ board'[id] = m.batch[id]
      BY <1>2, <2>2
    <3>2. CASE c = m.from
      BY <3>1, <3>2 DEF IInv, OldInv, Gets
    <3>3. CASE c # m.from
      BY <3>1, <3>3 DEF Gets
    <3> QED BY <3>2, <3>3
  <2> QED BY <2>1, <2>2
<1>9. UpInv'
  <2> SUFFICES ASSUME NEW c \in Clients, NEW id \in Ids \ LocalOnly, stage[c] = "done"
               PROVE  Sends(c, id)'
    BY DEF UpInv
  <2>1. Sends(c, id)
    BY DEF IInv, UpInv
  <2>2. ASSUME Leq(scene[c][id], board[id]) PROVE Sends(c, id)'
    <3>1. Leq(scene[c][id], board'[id])
      BY <1>2, <1>3, <2>2, InHand, LeqOrder
    <3> QED BY <3>1 DEF Sends
  <2>3. ASSUME VersionOf(scene[c][id]) <= behind[c][id] PROVE Sends(c, id)'
    <3>1. VersionOf(scene[c][id]) \in Nat /\ behind[c][id] \in Nat /\ behind'[c][id] \in Nat
          /\ behind[c][id] <= behind'[c][id]
      BY InHand, LeqOrder
    <3> QED BY <2>3, <3>1 DEF Sends
  <2>4. ASSUME NEW x \in up, x.from = c, x.n = socket[c].n, id \in DOMAIN x.batch,
               x.batch[id] = scene[c][id]
        PROVE  Sends(c, id)'
    <3>1. CASE x = m
      BY <1>2, <2>4, <3>1 DEF Sends
    <3>2. CASE x # m
      BY <2>4, <3>2 DEF Sends
    <3> QED BY <3>1, <3>2
  <2>5. CASE id \in Changed(scene[c], synced[c]) \/ id \in refused[c]
    BY <2>5 DEF Sends, Changed
  <2> QED BY <2>1, <2>2, <2>3, <2>4, <2>5 DEF Sends
<1> QED BY <1>5, <1>6, <1>7, <1>8, <1>9 DEF IInv

LEMMA ApplyKeeps ==
  ASSUME IInv, NEW m \in up, Apply(m)
  PROVE  IInv'
<1> USE DEF clientVars
<1> DEFINE W == Winners(board, m.batch)
<1>1. /\ board' = Merge(board, m.batch) /\ up' = up \ {m} /\ down' = down \cup Publications(m)
      /\ IsCurrent(m) => InChannel(m.from)
      /\ UNCHANGED <<clientVars, linkVars, memberVars, refused, edits, faults>>
  BY DEF Apply
<1>2. /\ m.from \in Clients /\ behind' \in [Clients -> [Ids -> Nat]] /\ faults' \in Nat
      /\ \A c \in Clients, id \in Ids : behind[c][id] <= behind'[c][id]
  BY <1>1 DEF IInv, TypeOK
<1>3. ASSUME NEW p \in down' \ down
      PROVE  /\ p.to \in Clients /\ DOMAIN p.batch \subseteq W
             /\ \A id \in DOMAIN p.batch : p.batch[id] = m.batch[id]
  <2>1. PICK c \in Clients : p = [to |-> c, batch |-> [id \in W |-> m.batch[id]]]
    BY <1>1, <1>3 DEF Publications
  <2> QED BY <2>1
<1>4. ASSUME NEW c \in Clients, NEW id \in W, c # m.from
      PROVE  \E p \in down' : p.to = c /\ id \in DOMAIN p.batch /\ p.batch[id] = m.batch[id]
  <2> DEFINE x == [to |-> c, batch |-> [i \in W |-> m.batch[i]]]
  <2>1. x \in down'
    BY <1>1, <1>4 DEF Publications
  <2>2. x.to = c /\ id \in DOMAIN x.batch /\ x.batch[id] = m.batch[id]
    OBVIOUS
  <2> QED BY <2>1, <2>2
<1> QED BY <1>1, <1>2, <1>3, <1>4, MergedKeeps

LEMMA ApplyUnpublishedKeeps ==
  ASSUME IInv, NEW m \in up, ApplyUnpublished(m)
  PROVE  IInv'
<1>1. /\ board' = Merge(board, m.batch) /\ up' = up \ {m} /\ faults' = faults + 1
      /\ behind' = [c \in Clients |-> IF c = m.from THEN behind[c]
                                      ELSE Behind(behind[c], DOMAIN m.batch, m.batch)]
      /\ UNCHANGED <<scene, synced, editing, linkVars, down, memberVars, refused, edits>>
  BY DEF ApplyUnpublished
<1>2. IsBatch(m.batch) /\ faults' \in Nat
  BY <1>1 DEF IInv, TypeOK
<1>3. \A id \in DOMAIN m.batch : m.batch[id].version \in Nat /\ VersionOf(m.batch[id]) = m.batch[id].version
  BY <1>2, InBatch, ElementsAssumption DEF ElementType, VersionOf
<1>4. ASSUME NEW c \in Clients
      PROVE  /\ behind'[c] \in [Ids -> Nat]
             /\ \A id \in Ids : /\ behind[c][id] <= behind'[c][id]
                                /\ c # m.from /\ id \in DOMAIN m.batch =>
                                     VersionOf(m.batch[id]) <= behind'[c][id]
  BY <1>1, <1>3, InHand DEF Behind
<1>5. behind' \in [Clients -> [Ids -> Nat]]
  BY <1>1, <1>4
<1>6. \A id \in Winners(board, m.batch) : id \in DOMAIN m.batch /\ id \in Ids
  BY <1>2, InBatch DEF Winners
<1> QED BY <1>1, <1>2, <1>4, <1>5, <1>6, MergedKeeps

\* A batch that is not taken, and a publication nobody is there for.
LEMMA LostKeeps ==
  ASSUME IInv, (\E m \in up : Refuse(m)) \/ (\E p \in down : Miss(p))
  PROVE  IInv'
<1> USE DEF clientVars, linkVars, memberVars
<1>1. CASE \E m \in up : Refuse(m)
  <2>1. PICK m \in up : Refuse(m)
    BY <1>1
  <2>2. /\ up' = up \ {m} /\ faults' \in Nat
        /\ refused' = [refused EXCEPT ![m.from] = @ \cup IF IsCurrent(m) THEN DOMAIN m.batch ELSE {}]
        /\ UNCHANGED <<board, clientVars, linkVars, down, memberVars, edits>>
    BY <2>1 DEF Refuse, IInv, TypeOK
  <2>3. m.from \in Clients /\ IsBatch(m.batch) /\ refused \in [Clients -> SUBSET Ids]
    BY DEF IInv, TypeOK
  <2>4. /\ refused' \in [Clients -> SUBSET Ids]
        /\ \A c \in Clients : refused[c] \subseteq refused'[c]
        /\ IsCurrent(m) => DOMAIN m.batch \subseteq refused'[m.from]
    BY <2>2, <2>3 DEF IsBatch
  <2>5. TypeOK'
    BY <2>2, <2>4 DEF IInv, TypeOK
  <2>6. OldInv' /\ JoinInv' /\ NotedIsHeld' /\ DownInv'
    BY <2>2 DEF IInv, OldInv, JoinInv, NotedIsHeld, DownInv, Gets
  <2>7. UpInv'
    <3> SUFFICES ASSUME NEW c \in Clients, NEW id \in Ids \ LocalOnly, stage[c] = "done"
                 PROVE  Sends(c, id)'
      BY <2>2 DEF UpInv
    <3>1. Sends(c, id) /\ socket[c].on
      BY DEF IInv, UpInv, JoinInv
    <3>2. ASSUME NEW x \in up, x.from = c, x.n = socket[c].n, id \in DOMAIN x.batch,
                 x.batch[id] = scene[c][id]
          PROVE  Sends(c, id)'
      <4>1. CASE x = m
        <5>1. IsCurrent(m)
          BY <3>1, <3>2, <4>1 DEF IsCurrent
        <5> QED BY <2>4, <3>2, <4>1, <5>1 DEF Sends
      <4>2. CASE x # m
        BY <2>2, <3>2, <4>2 DEF Sends
      <4> QED BY <4>1, <4>2
    <3> QED BY <2>2, <2>4, <3>1, <3>2 DEF Sends, Changed
  <2> QED BY <2>5, <2>6, <2>7 DEF IInv
<1>2. CASE \E p \in down : Miss(p)
  <2>1. PICK p \in down : Miss(p)
    BY <1>2
  <2>2. /\ down' = down \ {p} /\ (p.to \in evicted \/ stage[p.to] \notin {"read", "done"})
        /\ UNCHANGED <<board, clientVars, linkVars, up, memberVars, refused, edits, faults>>
    BY <2>1 DEF Miss, InChannel
  <2>3. TypeOK' /\ OldInv' /\ JoinInv' /\ NotedIsHeld' /\ UpInv'
    BY <2>2 DEF IInv, TypeOK, OldInv, JoinInv, NotedIsHeld, UpInv, Sends, Changed
  <2>4. ASSUME NEW c \in Clients, NEW id \in Ids, stage[c] \in {"read", "done"},
               c \notin evicted, Gets(c, id)
        PROVE  Gets(c, id)'
    BY <2>2, <2>4 DEF Gets
  <2>5. DownInv'
    BY <2>2, <2>4 DEF IInv, DownInv
  <2> QED BY <2>3, <2>5 DEF IInv
<1> QED BY <1>1, <1>2

LEMMA NextIInv ==
  ASSUME IInv, [Next]_vars
  PROVE  IInv'
<1>1. ASSUME NEW c \in Clients, ClientStep(c) PROVE IInv'
  <2>1. CASE \E id \in Ids : Edit(c, id)
    BY <2>1, EditKeeps
  <2>2. CASE Flush(c) \/ Drop(c) \/ Renew(c) \/ ReceiveSnapshot(c)
    BY <2>2, FlushKeeps, DropKeeps, RenewKeeps, ReceiveSnapshotKeeps
  <2>3. CASE \/ \E id \in Ids : Protect(c, id)
             \/ Release(c) \/ Connect(c) \/ CheckJoin(c) \/ EnterChannel(c)
             \/ ReadSnapshot(c) \/ FailSnapshot(c)
             \/ DeleteMember(c) \/ LoseEviction(c) \/ Evict(c)
    BY <2>3, JoinStepKeeps
  <2> QED BY <1>1, <2>1, <2>2, <2>3 DEF ClientStep
<1>2. ASSUME NEW m \in up, Apply(m) \/ ApplyUnpublished(m) \/ Refuse(m) PROVE IInv'
  BY <1>2, ApplyKeeps, ApplyUnpublishedKeeps, LostKeeps
<1>3. ASSUME NEW p \in down, ReceiveOps(p) \/ Miss(p) PROVE IInv'
  BY <1>3, ReceiveOpsKeeps, LostKeeps
<1>4. CASE UNCHANGED vars
  BY <1>4 DEF vars, clientVars, linkVars, memberVars, IInv, TypeOK, OldInv, JoinInv, NotedIsHeld,
     DownInv, UpInv, Gets, Sends, Changed
<1> QED BY <1>1, <1>2, <1>3, <1>4 DEF Next

THEOREM SyncInvariant == Spec => []IInv
BY InitIInv, NextIInv, PTL DEF Spec

-----------------------------------------------------------------------------
\* However snapshots, publications, edits, errors of Excalidraw and new sockets
\* follow each other, the map of a page never says that more was exchanged than
\* its scene holds (applyRemote, flush).
THEOREM NotedCorrect == Spec => []NotedIsHeld
<1>1. IInv => NotedIsHeld
  BY DEF IInv
<1> QED BY <1>1, SyncInvariant, PTL

\* Once the eviction has reached them, no socket of a removed member is in the
\* channel, wherever its join was then and whichever socket follows, unless the
\* membership was checked before it went and the channel entered after the
\* eviction (handleMeetingJoin, removeUserFromRoom, leaveMeeting).
THEOREM EvictedCorrect == Spec => []EvictedIsOut
<1>1. IInv => EvictedIsOut
  BY DEF IInv, JoinInv, EvictedIsOut, InChannel
<1> QED BY <1>1, SyncInvariant, PTL

\* At rest everybody in the channel has the board of the server, but for what
\* was refused or put aside: what the board has is on the page, on its way to it
\* or put aside, and what the page has is on the board, unsent, on its way or
\* refused; two copies that neither wins against the other are one.
THEOREM ConvergeCorrect == Spec => []Converged
<1>1. ASSUME IInv, Rest, NEW c \in Clients, NEW id \in Ids \ LocalOnly,
             joined[c], stage[c] = "done", InChannel(c)
      PROVE  \/ scene[c][id] = board[id]
             \/ id \in refused[c]
             \/ VersionOf(scene[c][id]) <= behind[c][id]
  <2>1. Gets(c, id) /\ Sends(c, id) /\ up = {} /\ down = {} /\ id \notin Changed(scene[c], synced[c])
    BY <1>1 DEF IInv, DownInv, UpInv, Rest, InChannel
  <2>2. scene[c][id] \in Copies /\ board[id] \in Copies /\ behind[c][id] \in Nat
    BY <1>1, InHand
  <2>3. CASE Leq(board[id], scene[c][id]) /\ Leq(scene[c][id], board[id])
    BY <2>2, <2>3, LeqIsTotal
  <2>4. CASE ~Leq(board[id], scene[c][id])
    <3>1. VersionOf(board[id]) <= behind[c][id]
      BY <2>1, <2>4 DEF Gets
    <3>2. /\ VersionOf(scene[c][id]) <= VersionOf(board[id])
          /\ VersionOf(scene[c][id]) \in Nat /\ VersionOf(board[id]) \in Nat
      BY <2>2, <2>4, LeqOrder
    <3> QED BY <2>2, <3>1, <3>2
  <2>5. CASE ~Leq(scene[c][id], board[id])
    BY <2>1, <2>5 DEF Sends
  <2> QED BY <2>3, <2>4, <2>5
<1>2. IInv => Converged
  BY <1>1 DEF Converged
<1> QED BY <1>2, SyncInvariant, PTL

=============================================================================
