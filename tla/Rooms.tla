------------------------------- MODULE Rooms -------------------------------
(***************************************************************************)
(* One room, its members and the Socket.IO channel of the room.            *)
(*                                                                         *)
(* The room document keeps a count of the documents in room_members; Mongo *)
(* runs without transactions, so each is written by a command of its own   *)
(* and requests interleave between them.  A socket enters the channel      *)
(* after a check of the membership and is told to leave it when its user   *)
(* is removed or the room is dissolved; the instance that holds the socket *)
(* learns of that through Redis, some time later.                          *)
(***************************************************************************)
EXTENDS Integers, FiniteSets

CONSTANTS
  Users,
  Host,         \* who creates the room
  Sockets,
  Owner,        \* the user each socket was authenticated for
  Calls,        \* requests that may be in flight at once
  MaxFailures   \* bound: failed commands and stopped instances

ASSUME HostAssumption == Host \in Users
ASSUME OwnerAssumption == Owner \in [Sockets -> Users]
ASSUME CallsAssumption == IsFiniteSet(Users) /\ IsFiniteSet(Calls)
ASSUME RoomFailuresAssumption == MaxFailures \in Nat

VARIABLES
  room,         \* status of the room document, "none" before it exists
  memberCount,  \* of the room document
  members,      \* users with a document in room_members
  at,           \* what each request does next
  op,           \* which request it is
  user,         \* whom it lets in or removes
  channel,      \* sockets in room:{roomId}
  leaving,      \* sockets whose instance is still to carry out a socketsLeave
  sub,          \* what room:subscribe of each socket does next
  slipped,      \* sockets that joined after their user was removed (ghost)
  failures

requests == <<at, op, user>>
document == <<room, memberCount, members>>
sockets  == <<channel, leaving, sub, slipped>>
roomVars == <<room, memberCount, members, at, op, user, channel, leaving, sub, slipped, failures>>

Ops == {"none", "create", "join", "add", "kick", "leave", "dissolve"}
Steps == {"idle", "insert", "host", "undo", "code", "room", "member", "create", "inc",
          "delete", "dec", "evict", "mark", "close"}

InitRoom ==
  /\ room = "none" /\ memberCount = 0 /\ members = {}
  /\ at = [c \in Calls |-> "idle"]
  /\ op = [c \in Calls |-> "none"]
  /\ user = [c \in Calls |-> Host]
  /\ channel = {} /\ leaving = {} /\ slipped = {}
  /\ sub = [s \in Sockets |-> "off"]
  /\ failures = 0

SocketsOf(u) == {s \in Sockets : Owner[s] = u /\ sub[s] # "off"}
\* A request that is over is forgotten.
Goto(c, next) ==
  /\ at' = [at EXCEPT ![c] = next]
  /\ op' = [op EXCEPT ![c] = IF next = "idle" THEN "none" ELSE @]
  /\ user' = [user EXCEPT ![c] = IF next = "idle" THEN Host ELSE @]

-----------------------------------------------------------------------------
(* Requests.  The code of a room is random and only its members see it, so *)
(* nobody joins before the host has his own document.                      *)

Start(c, o, u, step) ==
  /\ at[c] = "idle"
  /\ at' = [at EXCEPT ![c] = step]
  /\ op' = [op EXCEPT ![c] = o]
  /\ user' = [user EXCEPT ![c] = u]
  /\ UNCHANGED <<document, sockets, failures>>

CreateRoom(c) == room = "none" /\ Start(c, "create", Host, "insert")

JoinRoom(c, u) == Host \in members /\ u # Host /\ Start(c, "join", u, "code")

AddMember(c, u) == Start(c, "add", u, "room")

KickMember(c, u) == u # Host /\ Start(c, "kick", u, "room")

LeaveRoom(c, u) == u # Host /\ Start(c, "leave", u, "room")

DissolveRoom(c) == Start(c, "dissolve", Host, "room")

-----------------------------------------------------------------------------
(* Creating the room and its host.  A failed insert of the host is undone  *)
(* by deleting the room, which may fail too.  A second room is not         *)
(* followed.                                                               *)

InsertRoom(c) ==
  /\ at[c] = "insert"
  /\ IF room = "none" THEN room' = "active" /\ memberCount' = 1 /\ Goto(c, "host")
                      ELSE UNCHANGED <<room, memberCount>> /\ Goto(c, "idle")
  /\ UNCHANGED <<members, sockets, failures>>

InsertHost(c) ==
  /\ at[c] = "host"
  /\ members' = members \cup {Host}
  /\ Goto(c, "idle")
  /\ UNCHANGED <<room, memberCount, sockets, failures>>

DeleteRoom(c) ==
  /\ at[c] = "undo"
  /\ room' = "none" /\ memberCount' = 0
  /\ Goto(c, "idle")
  /\ UNCHANGED <<members, sockets, failures>>

-----------------------------------------------------------------------------
(* The checks: the code of an active room, or an active room and then the  *)
(* document of the caller.  The host keeps his for the life of the room.   *)

FindCode(c) ==
  /\ at[c] = "code"
  /\ Goto(c, IF room = "active" THEN "create" ELSE "idle")
  /\ UNCHANGED <<document, sockets, failures>>

FindRoom(c) ==
  /\ at[c] = "room"
  /\ Goto(c, IF room = "active" THEN "member" ELSE "idle")
  /\ UNCHANGED <<document, sockets, failures>>

Caller(c) == IF op[c] = "leave" THEN user[c] ELSE Host

Granted == [add |-> "create", kick |-> "delete", leave |-> "delete", dissolve |-> "mark"]

FindMember(c) ==
  /\ at[c] = "member"
  /\ Goto(c, IF Caller(c) \in members THEN Granted[op[c]] ELSE "idle")
  /\ UNCHANGED <<document, sockets, failures>>

-----------------------------------------------------------------------------
(* Letting a user in: the unique index {roomId, userId} decides whether    *)
(* the count has to follow.                                                *)

\* A duplicate is counted like a new member.
InsertMember_Always(c) ==
  /\ at[c] = "create"
  /\ members' = members \cup {user[c]}
  /\ Goto(c, "inc")
  /\ UNCHANGED <<room, memberCount, sockets, failures>>

InsertMember(c) ==
  /\ at[c] = "create"
  /\ members' = members \cup {user[c]}
  /\ Goto(c, IF user[c] \in members THEN "idle" ELSE "inc")
  /\ UNCHANGED <<room, memberCount, sockets, failures>>

IncCount(c) ==
  /\ at[c] = "inc"
  /\ memberCount' = memberCount + 1
  /\ Goto(c, "idle")
  /\ UNCHANGED <<room, members, sockets, failures>>

-----------------------------------------------------------------------------
(* Removing one.  When another request was faster, kickMember answers 404  *)
(* and leaveRoom goes on.                                                  *)

DeleteMember(c) ==
  /\ at[c] = "delete"
  /\ members' = members \ {user[c]}
  /\ Goto(c, IF user[c] \in members THEN "dec"
             ELSE IF op[c] = "leave" THEN "evict" ELSE "idle")
  /\ UNCHANGED <<room, memberCount, sockets, failures>>

\* A kick is over once the count is right.
DecCount_NoRevoke(c) ==
  /\ at[c] = "dec"
  /\ memberCount' = memberCount - 1
  /\ Goto(c, "idle")
  /\ UNCHANGED <<room, members, sockets, failures>>

DecCount(c) ==
  /\ at[c] = "dec"
  /\ memberCount' = memberCount - 1
  /\ Goto(c, "evict")
  /\ UNCHANGED <<room, members, sockets, failures>>

\* After the user was taken out of the call, his sockets are told to leave.
RevokeUser(c) ==
  /\ at[c] = "evict"
  /\ leaving' = leaving \cup SocketsOf(user[c])
  /\ Goto(c, "idle")
  /\ UNCHANGED <<document, channel, sub, slipped, failures>>

-----------------------------------------------------------------------------
(* Dissolving the room.  The documents of the members stay.                *)

MarkDissolved(c) ==
  /\ at[c] = "mark"
  /\ room' = "dissolved"
  /\ Goto(c, "close")
  /\ UNCHANGED <<memberCount, members, sockets, failures>>

RevokeRoom(c) ==
  /\ at[c] = "close"
  /\ leaving' = leaving \cup {s \in Sockets : sub[s] # "off"}
  /\ Goto(c, "idle")
  /\ UNCHANGED <<document, channel, sub, slipped, failures>>

-----------------------------------------------------------------------------
(* Sockets.  The page subscribes whenever its socket connects.             *)

Connect(s) ==
  /\ sub[s] = "off"
  /\ sub' = [sub EXCEPT ![s] = "room"]
  /\ UNCHANGED <<document, requests, channel, leaving, slipped, failures>>

\* A subscription that is still being checked joins a socket that is gone.
Disconnect(s) ==
  /\ sub[s] # "off"
  /\ sub' = [sub EXCEPT ![s] = "off"]
  /\ channel' = channel \ {s} /\ leaving' = leaving \ {s} /\ slipped' = slipped \ {s}
  /\ UNCHANGED <<document, requests, failures>>

CheckRoom(s) ==
  /\ sub[s] = "room"
  /\ sub' = [sub EXCEPT ![s] = IF room = "active" THEN "member" ELSE "done"]
  /\ UNCHANGED <<document, requests, channel, leaving, slipped, failures>>

CheckMember(s) ==
  /\ sub[s] = "member"
  /\ sub' = [sub EXCEPT ![s] = IF Owner[s] \in members THEN "join" ELSE "done"]
  /\ UNCHANGED <<document, requests, channel, leaving, slipped, failures>>

\* A request that will still tell the sockets of u to leave.
Removing(c, u) == \/ at[c] \in {"dec", "evict"} /\ user[c] = u
                  \/ at[c] = "close"

Allowed(s) == room = "active" /\ Owner[s] \in members

JoinChannel(s) ==
  /\ sub[s] = "join"
  /\ sub' = [sub EXCEPT ![s] = "done"]
  /\ channel' = channel \cup {s}
  /\ slipped' = IF Allowed(s) \/ s \in leaving \/ \E c \in Calls : Removing(c, Owner[s])
                THEN slipped ELSE slipped \cup {s}
  /\ UNCHANGED <<document, requests, leaving, failures>>

LeaveChannel(s) ==
  /\ s \in leaving
  /\ channel' = channel \ {s} /\ leaving' = leaving \ {s} /\ slipped' = slipped \ {s}
  /\ UNCHANGED <<document, requests, sub, failures>>

-----------------------------------------------------------------------------
(* A command fails or the instance stops.  Only createRoom answers the     *)
(* first with a step of its own.                                           *)

Fail(c) ==
  /\ at[c] # "idle" /\ failures < MaxFailures
  /\ failures' = failures + 1
  /\ \/ Goto(c, "idle")
     \/ at[c] = "host" /\ Goto(c, "undo")
  /\ UNCHANGED <<document, sockets>>

RequestStep(c) ==
  \/ CreateRoom(c) \/ DissolveRoom(c)
  \/ \E u \in Users : JoinRoom(c, u) \/ AddMember(c, u) \/ KickMember(c, u) \/ LeaveRoom(c, u)
  \/ InsertRoom(c) \/ InsertHost(c) \/ DeleteRoom(c)
  \/ FindCode(c) \/ FindRoom(c) \/ FindMember(c)
  \/ InsertMember(c) \/ IncCount(c) \/ DeleteMember(c) \/ DecCount(c) \/ RevokeUser(c)
  \/ MarkDissolved(c) \/ RevokeRoom(c) \/ Fail(c)

SubscribeStep(s) == CheckRoom(s) \/ CheckMember(s) \/ JoinChannel(s) \/ LeaveChannel(s)

SocketStep(s) == Connect(s) \/ Disconnect(s) \/ SubscribeStep(s)

NextRoom == (\E c \in Calls : RequestStep(c)) \/ (\E s \in Sockets : SocketStep(s))

SpecRoom == InitRoom /\ [][NextRoom]_roomVars

-----------------------------------------------------------------------------
(* Properties.                                                             *)

\* The types of the variables.
RoomTypeOK ==
  /\ room \in {"none", "active", "dissolved"}
  /\ memberCount \in Int
  /\ members \subseteq Users
  /\ at \in [Calls -> Steps]
  /\ op \in [Calls -> Ops]
  /\ user \in [Calls -> Users]
  /\ channel \subseteq Sockets /\ leaving \subseteq Sockets /\ slipped \subseteq channel
  /\ sub \in [Sockets -> {"off", "room", "member", "join", "done"}]
  /\ failures \in 0 .. MaxFailures

\* Requests whose document is in room_members and not yet in the count, and
\* those whose count is still to fall to the documents.
Uncounted == {c \in Calls : at[c] = "inc"}
Overcounted == {c \in Calls : at[c] \in {"dec", "host", "undo"}}

Gap == (memberCount + Cardinality(Uncounted)) - (Cardinality(members) + Cardinality(Overcounted))

\* However requests that let in and remove the same users interleave, the
\* count shown with the room is that of its members once they have run, and
\* every failed request can put it wrong by one only (joinRoom, addMember,
\* removeMember).
CountFollowsMembers == Gap \in -failures .. failures

\* With no failure, a socket in the channel belongs to a member of an active
\* room, or is about to be told to leave, or has joined when everybody had been
\* told: being removed and being dissolved reach every socket that was in the
\* channel (revokeUser, revokeRoom).
RevokedSocketsLeave ==
  failures = 0 =>
    \A s \in channel :
      Allowed(s) \/ s \in leaving \/ s \in slipped \/ \E c \in Calls : Removing(c, Owner[s])
=============================================================================
