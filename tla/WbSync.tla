------------------------------- MODULE WbSync -------------------------------
(***************************************************************************)
(* The whiteboard as its users see it: the scene of every client, the map  *)
(* of the versions it has sent or received, its socket, the join of the    *)
(* meeting's channel, the batches on their way to the server and the       *)
(* winners on their way back.  The board is the one of WbMerge; that a     *)
(* saved copy follows it is the matter of Whiteboard, so that here a batch *)
(* is applied in one step and the counter of visible elements is what      *)
(* Whiteboard proves it to be.                                             *)
(*                                                                         *)
(* Sockets of a client are numbered.  A message of a socket that has gone  *)
(* may still arrive.  Publications cross the Redis adapter: they reach     *)
(* their sockets in any order, before or after the snapshot.               *)
(***************************************************************************)
EXTENDS WbMerge

CONSTANTS
  Clients,
  LocalOnly,     \* ids of elements of a type the server does not take
  FirstBoards,   \* boards the model may start from
  Removable,     \* the clients whose user may be removed from the room
  MaxEdits,      \* bound: local edits, of all clients together
  MaxSockets,    \* bound: sockets, per client
  MaxFaults      \* bound: errors of Redis, of Mongo and of Excalidraw

ASSUME SyncAssumption ==
  /\ FirstBoards \subseteq Boards /\ FirstBoards # {}
  /\ LocalOnly \subseteq Ids /\ Removable \subseteq Clients
  /\ MaxEdits \in Nat /\ MaxSockets \in [Clients -> Nat] /\ MaxFaults \in Nat

\* Nonces are random: two changes that reach one version are told apart by them.
ASSUME NoncesAssumption ==
  \A e, f \in Elements : e.version = f.version /\ e.nonce = f.nonce => e = f

VARIABLES
  board,     \* the hash wb:{meetingId}
  scene,     \* per client: getSceneElementsIncludingDeleted()
  synced,    \* per client: syncedVersions, 0 where the map has no entry
  editing,   \* per client: the ids Excalidraw protects (typed, resized, drawn)
  socket,    \* per client: [n : the number of its socket, on : connected]
  joined,    \* per client: the flag `joined` of the effect
  stage,     \* per client: how far the server is with its meeting:join
  snapshot,  \* per client: what getSnapshot read for it
  up,        \* wb:ops under way to the server: [from, n, batch]
  down,      \* winners under way to a client: [to, batch]
  eviction,  \* per client: how far the removal of its user from the room is
  evicted,   \* clients whose socket was made to leave the channel
  late,      \* ghost: past the check of meeting:join, not yet in the channel,
             \* when the eviction arrived
  behind,    \* ghost: per client and id, the version of a copy put aside
  refused,   \* ghost: per client, the ids of batches the server did not take
  edits, faults

clientVars == <<scene, synced, editing, behind>>
linkVars   == <<socket, joined, stage, snapshot>>
memberVars == <<eviction, evicted, late>>
vars == <<board, clientVars, linkVars, up, down, memberVars, refused, edits, faults>>

\* socket.rooms.  An evicted socket is out of the channel; a join it had under
\* way goes on and ends with the snapshot all the same.
InChannel(c) == stage[c] \in {"channel", "read", "done"} /\ c \notin evicted

\* "due": the membership is deleted, socketsLeave has yet to be published or to
\* arrive; "done": it has arrived; "lost": it never will.
Removed == {c \in Clients : eviction[c] # "none"}

Init ==
  /\ board \in FirstBoards
  /\ scene = [c \in Clients |-> EmptyBoard]
  /\ synced = [c \in Clients |-> [id \in Ids |-> 0]]
  /\ editing = [c \in Clients |-> {}]
  /\ socket = [c \in Clients |-> [n |-> 0, on |-> FALSE]]
  /\ joined = [c \in Clients |-> FALSE]
  /\ stage = [c \in Clients |-> "out"]
  /\ snapshot = [c \in Clients |-> EmptyBoard]
  /\ up = {} /\ down = {}
  /\ eviction = [c \in Clients |-> "none"]
  /\ evicted = {} /\ late = {}
  /\ behind = [c \in Clients |-> [id \in Ids |-> 0]]
  /\ refused = [c \in Clients |-> {}]
  /\ edits = 0 /\ faults = 0

-----------------------------------------------------------------------------
(* What the page does with its scene.                                      *)

VersionOf(e) == IF e = NoElement THEN 0 ELSE e.version

\* Every change of an element raises its version by one and draws a nonce.
Edit(c, id) ==
  /\ edits < MaxEdits
  /\ \E e \in Elements :
       /\ e.version = VersionOf(scene[c][id]) + 1
       /\ scene' = [scene EXCEPT ![c][id] = e]
  /\ edits' = edits + 1
  /\ refused' = [refused EXCEPT ![c] = @ \ {id}]
  /\ UNCHANGED <<board, synced, editing, behind, linkVars, up, down, memberVars, faults>>

\* A text being typed, a shape being resized or drawn is protected.
Protect(c, id) ==
  /\ editing[c] = {} /\ scene[c][id] # NoElement
  /\ editing' = [editing EXCEPT ![c] = {id}]
  /\ UNCHANGED <<board, scene, synced, behind, linkVars, up, down, memberVars,
                 refused, edits, faults>>

Release(c) ==
  /\ editing[c] # {}
  /\ editing' = [editing EXCEPT ![c] = {}]
  /\ UNCHANGED <<board, scene, synced, behind, linkVars, up, down, memberVars,
                 refused, edits, faults>>

\* reconcileElements: a remote copy is put aside for a local one that is
\* protected or wins; the rest of the scene stays.
Keeps(c, id, e) ==
  /\ scene[c][id] # NoElement
  /\ id \in editing[c] \/ scene[c][id] = e \/ Newer(scene[c][id], e)

Reconciled(c, batch) ==
  [id \in Ids |-> IF id \in DOMAIN batch /\ ~Keeps(c, id, batch[id])
                  THEN batch[id] ELSE scene[c][id]]

\* Variant: every version received is noted, applied or not.
Noted_Received(c, syn, batch) ==
  [id \in Ids |-> IF id \in DOMAIN batch /\ batch[id].version > syn[id]
                  THEN batch[id].version ELSE syn[id]]

\* syncedVersions after applyRemote: only the copies that the reconciled
\* scene holds, by their version.
Noted(c, syn, batch) ==
  [id \in Ids |-> IF /\ id \in DOMAIN batch
                     /\ Reconciled(c, batch)[id].version = batch[id].version
                     /\ batch[id].version > syn[id]
                  THEN batch[id].version ELSE syn[id]]

\* Ghost: the copies of the batch that this client will neither show nor
\* answer with one of its own: put aside for a protected element, or for an
\* unsent one of the same version, which is then taken for sent.
PutAside(c, syn, batch) ==
  {id \in DOMAIN batch :
     /\ Reconciled(c, batch)[id] # batch[id]
     /\ \/ ~Newer(scene[c][id], batch[id])
        \/ scene[c][id].version = batch[id].version /\ syn[id] < batch[id].version}

Behind(bhd, ids, batch) ==
  [id \in Ids |-> IF id \in ids /\ batch[id].version > bhd[id]
                  THEN batch[id].version ELSE bhd[id]]

\* applyRemote, from the map syn, of those elements of a batch that Excalidraw
\* takes: restoreElements throws for the others.  When updateScene throws, none
\* is applied and the map is put back, as if all of them had been left out.
Applied(c, syn, bhd, batch, ids) ==
  LET part == [id \in ids |-> batch[id]]
  IN [scene  |-> Reconciled(c, part),
      synced |-> Noted(c, syn, part),
      behind |-> Behind(bhd, PutAside(c, syn, part) \cup (DOMAIN batch \ ids), batch),
      faults |-> IF ids = DOMAIN batch THEN faults ELSE faults + 1]

\* Variant: when updateScene throws the versions stay noted.
Outcomes_NoRollback(c, syn, bhd, batch) ==
  {Applied(c, syn, bhd, batch, DOMAIN batch)}
  \cup IF faults = MaxFaults \/ DOMAIN batch = {} THEN {}
       ELSE {[scene |-> scene[c], synced |-> Noted(c, syn, batch),
              behind |-> Behind(bhd, DOMAIN batch, batch), faults |-> faults + 1]}

Outcomes(c, syn, bhd, batch) ==
  {Applied(c, syn, bhd, batch, ids) :
     ids \in {S \in SUBSET DOMAIN batch : S # DOMAIN batch => faults < MaxFaults}}

\* The elements flush finds changed, and those of them that it sends.
Changed(sc, syn) == {id \in Ids : VersionOf(sc[id]) > syn[id]}

Sent(sc, syn) == Changed(sc, syn) \ LocalOnly

\* Batches are cut by number and by bytes: any cut that respects MaxBatch.
Cuts(S) ==
  {P \in SUBSET (SUBSET S \ {{}}) :
     /\ UNION P = S
     /\ \A p, q \in P : p # q => p \cap q = {}
     /\ \A p \in P : Cardinality(p) <= MaxBatch}

\* flush on socket number n, of the scene sc with the map syn: what is sent
\* is noted at once, the answer is not awaited.
FlushMap(sc, syn) ==
  [id \in Ids |-> IF id \in Changed(sc, syn) THEN sc[id].version ELSE syn[id]]

SendOps(c, sc, syn) ==
  \E P \in Cuts(Sent(sc, syn)) :
    up' = up \cup {[from |-> c, n |-> socket[c].n, batch |-> [id \in p |-> sc[id]]] : p \in P}

Flush(c) ==
  /\ socket[c].on /\ joined[c]
  /\ Changed(scene[c], synced[c]) # {}
  /\ synced' = [synced EXCEPT ![c] = FlushMap(scene[c], synced[c])]
  /\ SendOps(c, scene[c], synced[c])
  /\ UNCHANGED <<board, scene, editing, behind, linkVars, down, memberVars,
                 refused, edits, faults>>

-----------------------------------------------------------------------------
(* Connections.                                                            *)

\* The socket connects (the first, one after a loss, or the one of a new
\* access token) and asks to join.
Connect(c) ==
  /\ ~socket[c].on /\ socket[c].n < MaxSockets[c]
  /\ socket' = [socket EXCEPT ![c] = [n |-> @.n + 1, on |-> TRUE]]
  /\ stage' = [stage EXCEPT ![c] = "asked"]
  /\ UNCHANGED <<board, clientVars, joined, snapshot, up, down, memberVars,
                 refused, edits, faults>>

CloseSocket(c) ==
  /\ socket' = [socket EXCEPT ![c].on = FALSE]
  /\ joined' = [joined EXCEPT ![c] = FALSE]
  /\ stage' = [stage EXCEPT ![c] = "out"]
  /\ snapshot' = [snapshot EXCEPT ![c] = EmptyBoard]
  /\ evicted' = evicted \ {c} /\ late' = late \ {c}

\* The connection is lost, and with it some of what was under way on it.
Drop(c) ==
  /\ socket[c].on /\ socket[c].n < MaxSockets[c]
  /\ CloseSocket(c)
  /\ \E lost \in SUBSET {m \in up : m.from = c} : up' = up \ lost
  /\ UNCHANGED <<board, clientVars, down, eviction, refused, edits, faults>>

\* The effect is cleaned up for a new access token: a last flush, then the
\* channel and the socket are left.  The map stays with the page.
Renew(c) ==
  /\ socket[c].on /\ socket[c].n < MaxSockets[c]
  /\ IF joined[c]
     THEN /\ synced' = [synced EXCEPT ![c] = FlushMap(scene[c], synced[c])]
          /\ SendOps(c, scene[c], synced[c])
     ELSE UNCHANGED <<synced, up>>
  /\ CloseSocket(c)
  /\ UNCHANGED <<board, scene, editing, behind, down, eviction, refused, edits, faults>>

-----------------------------------------------------------------------------
(* handleMeetingJoin, await by await.                                      *)

Advance(c, from, to) ==
  /\ stage[c] = from
  /\ stage' = [stage EXCEPT ![c] = to]
  /\ UNCHANGED <<board, scene, synced, editing, socket, joined, up, down, edits>>

\* Variant: a meeting that runs is enough, the membership is not read.
CheckJoin_MeetingOnly(c) ==
  /\ Advance(c, "asked", "checked")
  /\ UNCHANGED <<snapshot, behind, memberVars, refused, faults>>

\* assertCanJoin reads the membership; a refusal is an error the page shows.
CheckJoin(c) ==
  /\ Advance(c, "asked", IF c \in Removed THEN "failed" ELSE "checked")
  /\ UNCHANGED <<snapshot, behind, memberVars, refused, faults>>

\* socket.join, and only then the read of the board.
EnterChannel(c) ==
  /\ Advance(c, "checked", "channel")
  /\ UNCHANGED <<snapshot, behind, memberVars, refused, faults>>

ReadSnapshot(c) ==
  /\ Advance(c, "channel", "read")
  /\ snapshot' = [snapshot EXCEPT ![c] = board]
  /\ behind' = [behind EXCEPT ![c] = [id \in Ids |-> 0]]
  /\ UNCHANGED <<memberVars, refused, faults>>

\* getSnapshot throws: the socket leaves the channel again.
FailSnapshot(c) ==
  /\ faults < MaxFaults
  /\ Advance(c, "channel", "failed")
  /\ faults' = faults + 1
  /\ UNCHANGED <<snapshot, behind, memberVars, refused>>

Stored(b) == [id \in StoredIds(b) |-> b[id]]

\* Variant: the map is kept over a reconnection.
ReceiveSnapshot_KeepMap(c) ==
  /\ stage[c] = "read"
  /\ stage' = [stage EXCEPT ![c] = "done"]
  /\ joined' = [joined EXCEPT ![c] = TRUE]
  /\ snapshot' = [snapshot EXCEPT ![c] = EmptyBoard]
  /\ \E o \in Outcomes(c, synced[c], behind[c], Stored(snapshot[c])) :
       /\ scene' = [scene EXCEPT ![c] = o.scene]
       /\ synced' = [synced EXCEPT ![c] = FlushMap(o.scene, o.synced)]
       /\ behind' = [behind EXCEPT ![c] = o.behind]
       /\ faults' = o.faults
       /\ SendOps(c, o.scene, o.synced)
  /\ refused' = [refused EXCEPT ![c] = {}]
  /\ UNCHANGED <<board, editing, socket, down, memberVars, edits>>

\* The snapshot arrives: from now on the page sends; the map is cleared, the
\* elements are applied and what only this scene has is sent at once.
ReceiveSnapshot(c) ==
  /\ stage[c] = "read"
  /\ stage' = [stage EXCEPT ![c] = "done"]
  /\ joined' = [joined EXCEPT ![c] = TRUE]
  /\ snapshot' = [snapshot EXCEPT ![c] = EmptyBoard]
  /\ \E o \in Outcomes(c, [id \in Ids |-> 0], behind[c], Stored(snapshot[c])) :
       /\ scene' = [scene EXCEPT ![c] = o.scene]
       /\ synced' = [synced EXCEPT ![c] = FlushMap(o.scene, o.synced)]
       /\ behind' = [behind EXCEPT ![c] = o.behind]
       /\ faults' = o.faults
       /\ SendOps(c, o.scene, o.synced)
  /\ refused' = [refused EXCEPT ![c] = {}]
  /\ UNCHANGED <<board, editing, socket, down, memberVars, edits>>

-----------------------------------------------------------------------------
(* handleWhiteboardOps and the publication of the winners.                 *)

IsCurrent(m) == socket[m.from].on /\ socket[m.from].n = m.n

\* The winners go to every socket of the channel but the sender's.
Publications(m) ==
  LET W == Winners(board, m.batch) IN
  IF W = {} THEN {}
  ELSE {[to |-> c, batch |-> [id \in W |-> m.batch[id]]] :
          c \in {d \in Clients : ~(d = m.from /\ IsCurrent(m))}}

\* The check in memory passes (for a socket that has gone: it passed before
\* it went) and the script takes the batch.
Apply(m) ==
  /\ m \in up
  /\ IsCurrent(m) => InChannel(m.from)
  /\ ~OverLimit(board, Cardinality(VisibleIds(board)), m.batch)
  /\ up' = up \ {m}
  /\ board' = Merge(board, m.batch)
  /\ down' = down \cup Publications(m)
  /\ UNCHANGED <<clientVars, linkVars, memberVars, refused, edits, faults>>

\* 403, LIMIT, or an error of Redis: an "error" event, a notice on the page,
\* and nothing is sent again.
Refuse(m) ==
  /\ m \in up
  /\ \/ /\ IsCurrent(m) => ~InChannel(m.from)
        /\ UNCHANGED faults
     \/ /\ OverLimit(board, Cardinality(VisibleIds(board)), m.batch)
        /\ UNCHANGED faults
     \/ /\ faults < MaxFaults
        /\ faults' = faults + 1
  /\ up' = up \ {m}
  /\ refused' = [refused EXCEPT ![m.from] = @ \cup IF IsCurrent(m) THEN DOMAIN m.batch ELSE {}]
  /\ UNCHANGED <<board, clientVars, linkVars, down, memberVars, edits>>

\* The script has run and its winners are lost: the reply of Redis does not
\* arrive, or the instance stops before it publishes.
ApplyUnpublished(m) ==
  /\ m \in up /\ faults < MaxFaults
  /\ IsCurrent(m) => InChannel(m.from)
  /\ ~OverLimit(board, Cardinality(VisibleIds(board)), m.batch)
  /\ faults' = faults + 1
  /\ up' = up \ {m}
  /\ board' = Merge(board, m.batch)
  /\ behind' = [c \in Clients |-> IF c = m.from THEN behind[c]
                                  ELSE Behind(behind[c], DOMAIN m.batch, m.batch)]
  /\ UNCHANGED <<scene, synced, editing, linkVars, down, memberVars, refused, edits>>

\* wb:ops at a client whose socket is in the channel; no flag is asked.
ReceiveOps(p) ==
  /\ p \in down
  /\ InChannel(p.to)
  /\ down' = down \ {p}
  /\ \E o \in Outcomes(p.to, synced[p.to], behind[p.to], p.batch) :
       /\ scene' = [scene EXCEPT ![p.to] = o.scene]
       /\ synced' = [synced EXCEPT ![p.to] = o.synced]
       /\ behind' = [behind EXCEPT ![p.to] = o.behind]
       /\ faults' = o.faults
  /\ UNCHANGED <<board, editing, linkVars, up, memberVars, refused, edits>>

\* A publication finds no socket of the client in the channel.
Miss(p) ==
  /\ p \in down
  /\ ~InChannel(p.to)
  /\ down' = down \ {p}
  /\ UNCHANGED <<board, clientVars, linkVars, up, memberVars, refused, edits, faults>>

-----------------------------------------------------------------------------
(* Removal from the room (a kick, or the user leaves it): the membership   *)
(* goes, and only then the sockets of the user are told to leave the       *)
(* channel, in a message of the Redis adapter that arrives some time later.*)

Removal(c, from, to) ==
  /\ eviction[c] = from
  /\ eviction' = [eviction EXCEPT ![c] = to]
  /\ UNCHANGED <<board, clientVars, linkVars, up, down, refused, edits>>

DeleteMember(c) ==
  /\ c \in Removable
  /\ Removal(c, "none", "due")
  /\ UNCHANGED <<evicted, late, faults>>

\* The count of the members, the look-up of the ACTIVE meeting or the
\* publication fails: the last two are logged and swallowed, and a second kick
\* after the first is a 404.  Nobody tells the sockets any more.
LoseEviction(c) ==
  /\ faults < MaxFaults
  /\ faults' = faults + 1
  /\ Removal(c, "due", "lost")
  /\ UNCHANGED <<evicted, late>>

\* socketsLeave arrives: who is in the channel leaves it, who is on the way into
\* it is not stopped.
Evict(c) ==
  /\ Removal(c, "due", "done")
  /\ evicted' = IF InChannel(c) THEN evicted \cup {c} ELSE evicted
  /\ late' = IF stage[c] = "checked" THEN late \cup {c} ELSE late
  /\ UNCHANGED faults

ClientStep(c) ==
  \/ \E id \in Ids : Edit(c, id)
  \/ \E id \in Ids : Protect(c, id)
  \/ Release(c)
  \/ Flush(c)
  \/ Connect(c)
  \/ Drop(c)
  \/ Renew(c)
  \/ CheckJoin(c)
  \/ EnterChannel(c)
  \/ ReadSnapshot(c)
  \/ FailSnapshot(c)
  \/ ReceiveSnapshot(c)
  \/ DeleteMember(c) \/ LoseEviction(c) \/ Evict(c)

Next ==
  \/ \E c \in Clients : ClientStep(c)
  \/ \E m \in up : Apply(m) \/ ApplyUnpublished(m) \/ Refuse(m)
  \/ \E p \in down : ReceiveOps(p) \/ Miss(p)

Spec == Init /\ [][Next]_vars

\* Timers fire, sockets connect again by themselves, handlers that have begun
\* go on and messages arrive; users need not edit.
Fairness ==
  /\ \A c \in Clients :
       /\ WF_vars(Flush(c))
       /\ WF_vars(Connect(c) \/ CheckJoin(c) \/ EnterChannel(c) \/ ReadSnapshot(c)
                   \/ ReceiveSnapshot(c))
       /\ WF_vars(Evict(c))
  /\ WF_vars(\E m \in up : Apply(m) \/ Refuse(m))
  /\ WF_vars(\E p \in down : ReceiveOps(p) \/ Miss(p))

FairSpec == Spec /\ Fairness

-----------------------------------------------------------------------------
(* Properties.                                                             *)

\* The map never says that more was exchanged than the scene holds: a version
\* noted for a copy that was not applied would keep the page from ever
\* sending its own change (applyRemote with its rollback, flush).
NotedIsHeld ==
  \A c \in Clients, id \in Ids : synced[c][id] <= VersionOf(scene[c][id])

\* Nothing is under way, no element is protected, no page has unsent changes.
Rest ==
  /\ up = {} /\ down = {}
  /\ \A c \in Clients :
       /\ editing[c] = {}
       /\ stage[c] \in {"out", "done", "failed"}
       /\ joined[c] => Changed(scene[c], synced[c]) = {}

\* At rest everybody in the meeting sees the server's board, whatever was
\* drawn by whom, online or not, and in whatever order it travelled; but for
\* the elements the server refused and those older than a copy that the page
\* put aside, or that was lost to a fault.
Converged ==
  Rest => \A c \in Clients, id \in Ids \ LocalOnly :
    joined[c] /\ stage[c] = "done" /\ InChannel(c) =>
      \/ scene[c][id] = board[id]
      \/ id \in refused[c]
      \/ VersionOf(scene[c][id]) <= behind[c][id]

\* At rest no page of the meeting shows a copy that wins against the board's:
\* what exists only there was sent again after the snapshot, or was refused.
LocalWorkIsSent ==
  Rest => \A c \in Clients, id \in Ids \ LocalOnly :
    joined[c] /\ stage[c] = "done" /\ scene[c][id] # NoElement /\ id \notin refused[c] =>
      board[id] # NoElement /\ ~Newer(scene[c][id], board[id])

\* Once the eviction has arrived, no socket of a removed member is in the
\* channel, neither the one it found nor a later one; but for a socket whose join
\* had passed its check before the membership went and entered after it.
EvictedIsOut ==
  \A c \in Clients : eviction[c] = "done" /\ InChannel(c) => c \in late

\* Whoever is removed from the room is soon out of the channel, and stays out
\* whatever sockets his pages open again; but for a join that slipped through as
\* above, and for a removal that failed before the sockets were told.
RemovedIsOut ==
  <>[](\A c \in Removed : InChannel(c) => c \in late \/ eviction[c] = "lost")

\* A change that beats the board, of a member whose join did not fail.
Ahead(c, id) ==
  /\ c \notin Removed /\ stage[c] # "failed"
  /\ scene[c][id] # NoElement
  /\ board[id] = NoElement \/ Newer(scene[c][id], board[id])
  /\ id \notin refused[c] /\ scene[c][id].version > behind[c][id]

\* Once the users stop, what they drew is on the board for good, through lost
\* connections, new tokens and lost batches.
WorkArrives ==
  <>[](\A c \in Clients, id \in Ids \ LocalOnly : ~Ahead(c, id))

=============================================================================
