---------------------------- MODULE Chat_proofs ----------------------------
(***************************************************************************)
(* The counts of members and messages, the channel and the publication of  *)
(* messages are right for any number of users, sockets, requests, messages *)
(* and failures.                                                           *)
(***************************************************************************)
EXTENDS Chat, FiniteSetTheorems, TLAPS

\* Which requests take which steps; the host is not removed.
OpInv ==
  \A c \in Calls :
    /\ at[c] \in {"room", "member"} => op[c] \in {"add", "kick", "leave", "dissolve"}
    /\ at[c] = "delete" => op[c] \in {"kick", "leave"}
    /\ op[c] \in {"kick", "leave"} => user[c] # Host

\* What a message on its way has behind it.
MsgInv == \A p \in Sends : step[p] \in {"count", "publish"} => msg[p] \in stored

TypeInv == TypeOK /\ OpInv /\ MsgInv

\* A request of the room keeps the types.
LEMMA RequestType ==
  ASSUME RoomTypeOK, OpInv, NEW c \in Calls, RequestStep(c)
  PROVE  RoomTypeOK' /\ OpInv'
<1> USE HostAssumption, RoomFailuresAssumption
    DEF RoomTypeOK, OpInv, document, sockets, Goto, Steps, Ops
<1>1. CASE CreateRoom(c) \/ DissolveRoom(c)
  BY <1>1 DEF CreateRoom, DissolveRoom, Start
<1>2. CASE \E u \in Users : JoinRoom(c, u) \/ AddMember(c, u) \/ KickMember(c, u) \/ LeaveRoom(c, u)
  BY <1>2 DEF JoinRoom, AddMember, KickMember, LeaveRoom, Start
<1>3. CASE InsertRoom(c) \/ InsertHost(c) \/ DeleteRoom(c)
  BY <1>3 DEF InsertRoom, InsertHost, DeleteRoom
<1>4. CASE FindCode(c) \/ FindRoom(c)
  BY <1>4 DEF FindCode, FindRoom
<1>5. CASE FindMember(c)
  <2>1. Granted[op[c]] \in {"create", "delete", "mark"}
    BY <1>5 DEF FindMember, Granted
  <2>2. Granted[op[c]] = "delete" => op[c] \in {"kick", "leave"}
    BY <1>5 DEF FindMember, Granted
  <2> QED BY <1>5, <2>1, <2>2 DEF FindMember
<1>6. CASE InsertMember(c) \/ IncCount(c)
  BY <1>6 DEF InsertMember, IncCount
<1>7. CASE DeleteMember(c) \/ DecCount(c) \/ RevokeUser(c)
  BY <1>7 DEF DeleteMember, DecCount, RevokeUser, SocketsOf
<1>8. CASE MarkDissolved(c) \/ RevokeRoom(c)
  BY <1>8 DEF MarkDissolved, RevokeRoom
<1>9. CASE Fail(c)
  BY <1>9 DEF Fail
<1> QED BY <1>1, <1>2, <1>3, <1>4, <1>5, <1>6, <1>7, <1>8, <1>9 DEF RequestStep

LEMMA SocketType ==
  ASSUME RoomTypeOK, OpInv, NEW s \in Sockets, SocketStep(s)
  PROVE  RoomTypeOK' /\ OpInv'
<1> USE DEF RoomTypeOK, OpInv, document, requests
<1>1. CASE Connect(s) \/ Disconnect(s)
  BY <1>1 DEF Connect, Disconnect
<1>2. CASE CheckRoom(s) \/ CheckMember(s)
  BY <1>2 DEF CheckRoom, CheckMember
<1>3. CASE JoinChannel(s)
  BY <1>3 DEF JoinChannel
<1>4. CASE LeaveChannel(s)
  BY <1>4 DEF LeaveChannel
<1> QED BY <1>1, <1>2, <1>3, <1>4 DEF SocketStep, SubscribeStep

LEMMA SendType ==
  ASSUME TypeInv, NEW p \in Sends, SendStep(p)
  PROVE  TypeInv'
<1> USE DEF TypeInv, TypeOK, MsgInv, Then, storeVars, pageVars, SendSteps
<1>1. CASE FailSend(p)
  <2>1. RoomTypeOK' /\ OpInv'
    BY <1>1, RoomFailuresAssumption
       DEF FailSend, RoomTypeOK, OpInv, document, requests, sockets
  <2> QED BY <1>1, <2>1 DEF FailSend
<1>2. ~FailSend(p) => RoomTypeOK' /\ OpInv'
  BY DEF SendStep, ChatSend, SendFindRoom, SendFindMember, FindExisting, CreateMessage,
         CountMessage, PublishChatMessage, roomVars, RoomTypeOK, OpInv
<1>3. CASE \E m \in Messages : ChatSend(p, m)
  BY <1>2, <1>3, RoomFailuresAssumption DEF ChatSend, FailSend
<1>4. CASE SendFindRoom(p) \/ SendFindMember(p) \/ FindExisting(p)
  BY <1>1, <1>2, <1>4 DEF SendFindRoom, SendFindMember, FindExisting
<1>5. CASE CreateMessage(p)
  BY <1>1, <1>2, <1>5 DEF CreateMessage
<1>6. CASE CountMessage(p)
  BY <1>1, <1>2, <1>6 DEF CountMessage
<1>7. CASE PublishChatMessage(p)
  BY <1>1, <1>2, <1>7 DEF PublishChatMessage
<1> QED BY <1>1, <1>3, <1>4, <1>5, <1>6, <1>7 DEF SendStep

LEMMA PageType ==
  ASSUME TypeInv, NEW s \in Sockets, PageStep(s)
  PROVE  TypeInv'
<1> USE DEF TypeInv, TypeOK, MsgInv, sendVars, storeVars
<1>1. CASE ConnectPage(s)
  BY <1>1, SocketType DEF ConnectPage, SocketStep
<1>2. CASE DisconnectPage(s)
  BY <1>2, SocketType DEF DisconnectPage, SocketStep
<1>3. CASE ListMessages(s)
  <2>1. RoomTypeOK' /\ OpInv'
    BY <1>3 DEF ListMessages, roomVars, RoomTypeOK, OpInv
  <2> QED BY <1>3, <2>1 DEF ListMessages
<1>4. CASE \E m \in Messages : ChatNew(s, m)
  <2>1. RoomTypeOK' /\ OpInv'
    BY <1>4 DEF ChatNew, roomVars, RoomTypeOK, OpInv
  <2> QED BY <1>4, <2>1 DEF ChatNew
<1> QED BY <1>1, <1>2, <1>3, <1>4 DEF PageStep

LEMMA TypeStep == TypeInv /\ [Next]_vars => TypeInv'
<1> SUFFICES ASSUME TypeInv, [Next]_vars PROVE TypeInv'
  OBVIOUS
<1>1. ASSUME NEW c \in Calls, RequestStep(c), UNCHANGED chatVars PROVE TypeInv'
  BY <1>1, RequestType DEF chatVars, TypeInv, TypeOK, MsgInv
<1>2. ASSUME NEW s \in Sockets, SubscribeStep(s), UNCHANGED chatVars PROVE TypeInv'
  BY <1>2, SocketType DEF SocketStep, chatVars, TypeInv, TypeOK, MsgInv
<1>3. CASE UNCHANGED vars
  BY <1>3 DEF vars, roomVars, chatVars, TypeInv, TypeOK, RoomTypeOK, OpInv, MsgInv
<1> QED BY <1>1, <1>2, <1>3, SendType, PageType DEF Next, Step

LEMMA InitType == Init => TypeInv
BY HostAssumption, RoomFailuresAssumption
   DEF Init, InitRoom, TypeInv, TypeOK, RoomTypeOK, OpInv, MsgInv, Steps, Ops, SendSteps

\* Every variable keeps its type, and pages show and are handed stored messages
\* only, for any constants (sendMessage, publishChatMessage, useRoomChat).
THEOREM TypeCorrect == Spec => []TypeOK
<1>1. TypeInv => TypeOK
  BY DEF TypeInv
<1> QED BY InitType, TypeStep, <1>1, PTL DEF Spec

-----------------------------------------------------------------------------
(* The count of the members.                                               *)

\* A set that differs in one element.
LEMMA OneChanges ==
  ASSUME NEW F, NEW G, NEW c, IsFiniteSet(F), \A d : d # c => (d \in F <=> d \in G)
  PROVE  /\ IsFiniteSet(G) /\ Cardinality(F) \in Nat /\ Cardinality(G) \in Nat
         /\ Cardinality(G) = Cardinality(F) + (IF c \in G THEN 1 ELSE 0)
                                            - (IF c \in F THEN 1 ELSE 0)
<1>1. Cardinality(F) \in Nat
  BY FS_CardinalityType
<1>2. CASE c \in F <=> c \in G
  <2>1. F = G
    BY <1>2
  <2> QED BY <1>1, <2>1
<1>3. CASE c \notin F /\ c \in G
  <2>1. G = F \cup {c}
    BY <1>3
  <2> QED BY <1>1, <1>3, <2>1, FS_AddElement
<1>4. CASE c \in F /\ c \notin G
  <2>1. G = F \ {c}
    BY <1>4
  <2>2. IsFiniteSet(G) /\ Cardinality(G) = Cardinality(F) - 1
    BY <1>4, <2>1, FS_RemoveElement
  <2>3. Cardinality(G) \in Nat
    BY <2>2, FS_CardinalityType
  <2> QED BY <1>1, <1>4, <2>2, <2>3
<1> QED BY <1>2, <1>3, <1>4

\* Nobody gets anywhere before the host has his document, and one request
\* creates the room.
LifeInv ==
  /\ Host \notin members =>
       /\ members = {}
       /\ \A c \in Calls : at[c] \in {"idle", "insert", "host", "undo", "room", "member"}
  /\ room = "none" => memberCount = 0 /\ Host \notin members
  /\ \A c \in Calls :
       at[c] \in {"host", "undo"} => room = "active" /\ memberCount = 1 /\ Host \notin members
  /\ \A c, d \in Calls : {at[c], at[d]} \subseteq {"host", "undo"} => c = d

LEMMA RequestLife ==
  ASSUME RoomTypeOK, OpInv, LifeInv, NEW c \in Calls, RequestStep(c)
  PROVE  LifeInv'
<1> USE HostAssumption DEF RoomTypeOK, OpInv, LifeInv, document, sockets, Goto, Steps, Ops
<1>1. CASE CreateRoom(c) \/ DissolveRoom(c)
  BY <1>1 DEF CreateRoom, DissolveRoom, Start
<1>2. CASE \E u \in Users : JoinRoom(c, u) \/ AddMember(c, u) \/ KickMember(c, u) \/ LeaveRoom(c, u)
  BY <1>2 DEF JoinRoom, AddMember, KickMember, LeaveRoom, Start
<1>3. CASE InsertRoom(c) \/ InsertHost(c) \/ DeleteRoom(c)
  BY <1>3 DEF InsertRoom, InsertHost, DeleteRoom
<1>4. CASE FindCode(c) \/ FindRoom(c)
  BY <1>4 DEF FindCode, FindRoom
<1>5. CASE FindMember(c)
  <2>1. Granted[op[c]] \in {"create", "delete", "mark"}
    BY <1>5 DEF FindMember, Granted
  <2>2. Caller(c) \in members => Host \in members
    OBVIOUS
  <2> QED BY <1>5, <2>1, <2>2 DEF FindMember
<1>6. CASE InsertMember(c) \/ IncCount(c)
  BY <1>6 DEF InsertMember, IncCount
<1>7. CASE DeleteMember(c) \/ DecCount(c) \/ RevokeUser(c)
  BY <1>7 DEF DeleteMember, DecCount, RevokeUser
<1>8. CASE MarkDissolved(c) \/ RevokeRoom(c)
  BY <1>8 DEF MarkDissolved, RevokeRoom
<1>9. CASE Fail(c)
  BY <1>9 DEF Fail
<1> QED BY <1>1, <1>2, <1>3, <1>4, <1>5, <1>6, <1>7, <1>8, <1>9 DEF RequestStep

\* How much the request in hand counts for.
IsUp(pc) == IF pc = "inc" THEN 1 ELSE 0
IsDown(pc) == IF pc \in {"dec", "host", "undo"} THEN 1 ELSE 0
Owed(pc) == IsUp(pc) - IsDown(pc)

\* The counts are numbers, and a request changes the part that is its own.
LEMMA GapMoves ==
  ASSUME RoomTypeOK, NEW c \in Calls, NEW k \in Int,
         at' \in [Calls -> Steps], members' \subseteq Users, memberCount' \in Int,
         \A d \in Calls \ {c} : at'[d] = at[d],
         (memberCount' - memberCount) - (Cardinality(members') - Cardinality(members))
           + Owed(at'[c]) - Owed(at[c]) = k
  PROVE  Gap \in Int /\ Gap' = Gap + k
<1> USE CallsAssumption DEF RoomTypeOK
<1>1. /\ IsFiniteSet(Uncounted) /\ IsFiniteSet(Overcounted)
      /\ \A d : d # c => (d \in Uncounted <=> d \in Uncounted')
      /\ \A d : d # c => (d \in Overcounted <=> d \in Overcounted')
  <2>1. Uncounted \subseteq Calls /\ Overcounted \subseteq Calls
    BY DEF Uncounted, Overcounted
  <2>2. IsFiniteSet(Uncounted) /\ IsFiniteSet(Overcounted)
    BY <2>1, FS_Subset
  <2> QED BY <2>2 DEF Uncounted, Overcounted
<1>2. /\ Cardinality(Uncounted) \in Nat /\ Cardinality(Uncounted') \in Nat
      /\ Cardinality(Uncounted') = Cardinality(Uncounted) + IsUp(at'[c]) - IsUp(at[c])
  <2>1. (c \in Uncounted <=> at[c] = "inc") /\ (c \in Uncounted' <=> at'[c] = "inc")
    BY DEF Uncounted
  <2>2. /\ Cardinality(Uncounted) \in Nat /\ Cardinality(Uncounted') \in Nat
        /\ Cardinality(Uncounted') = Cardinality(Uncounted)
             + (IF c \in Uncounted' THEN 1 ELSE 0) - (IF c \in Uncounted THEN 1 ELSE 0)
    BY <1>1, OneChanges
  <2> QED BY <2>1, <2>2 DEF IsUp
<1>3. /\ Cardinality(Overcounted) \in Nat /\ Cardinality(Overcounted') \in Nat
      /\ Cardinality(Overcounted') = Cardinality(Overcounted) + IsDown(at'[c]) - IsDown(at[c])
  <2>1. /\ c \in Overcounted <=> at[c] \in {"dec", "host", "undo"}
        /\ c \in Overcounted' <=> at'[c] \in {"dec", "host", "undo"}
    BY DEF Overcounted
  <2>2. /\ Cardinality(Overcounted) \in Nat /\ Cardinality(Overcounted') \in Nat
        /\ Cardinality(Overcounted') = Cardinality(Overcounted)
             + (IF c \in Overcounted' THEN 1 ELSE 0) - (IF c \in Overcounted THEN 1 ELSE 0)
    BY <1>1, OneChanges
  <2> QED BY <2>1, <2>2 DEF IsDown
<1>4. Cardinality(members) \in Nat /\ Cardinality(members') \in Nat
  BY FS_Subset, FS_CardinalityType
<1>5. /\ IsUp(at[c]) \in Int /\ IsUp(at'[c]) \in Int
      /\ IsDown(at[c]) \in Int /\ IsDown(at'[c]) \in Int
  BY DEF IsUp, IsDown
<1>6. Gap' = (memberCount' + Cardinality(Uncounted'))
               - (Cardinality(members') + Cardinality(Overcounted'))
  BY DEF Gap
<1> QED BY <1>2, <1>3, <1>4, <1>5, <1>6 DEF Gap, Owed

LEMMA RequestCount ==
  ASSUME RoomTypeOK, OpInv, LifeInv, CountFollowsMembers, NEW c \in Calls, RequestStep(c)
  PROVE  CountFollowsMembers'
<1> USE DEF RoomTypeOK, document, Goto
<1>1. RoomTypeOK' /\ \A d \in Calls \ {c} : at'[d] = at[d]
  <2>1. RoomTypeOK'
    BY RequestType
  <2>2. \A d \in Calls \ {c} : at'[d] = at[d]
    BY DEF RequestStep, CreateRoom, DissolveRoom, JoinRoom, AddMember, KickMember, LeaveRoom,
           Start, InsertRoom, InsertHost, DeleteRoom, FindCode, FindRoom, FindMember,
           InsertMember, IncCount, DeleteMember, DecCount, RevokeUser, MarkDissolved,
           RevokeRoom, Fail
  <2> QED BY <2>1, <2>2
<1>2. IsFiniteSet(members) /\ Cardinality(members) \in Nat
  BY CallsAssumption, FS_Subset, FS_CardinalityType
<1>3. Host \notin members => Cardinality(members \cup {Host}) = Cardinality(members) + 1
  BY <1>2, FS_AddElement
<1> DEFINE Moved(k) ==
      (memberCount' - memberCount) - (Cardinality(members') - Cardinality(members))
        + Owed(at'[c]) - Owed(at[c]) = k
<1>4. ASSUME Moved(0), failures' = failures PROVE CountFollowsMembers'
  BY <1>1, <1>4, GapMoves DEF CountFollowsMembers
<1>5. CASE CreateRoom(c) \/ DissolveRoom(c)
  BY <1>2, <1>4, <1>5 DEF CreateRoom, DissolveRoom, Start, Owed, IsUp, IsDown
<1>6. CASE \E u \in Users : JoinRoom(c, u) \/ AddMember(c, u) \/ KickMember(c, u) \/ LeaveRoom(c, u)
  BY <1>2, <1>4, <1>6 DEF JoinRoom, AddMember, KickMember, LeaveRoom, Start, Owed, IsUp, IsDown
<1>7. CASE InsertRoom(c)
  BY <1>2, <1>4, <1>7 DEF InsertRoom, Owed, IsUp, IsDown, LifeInv
<1>8. CASE InsertHost(c)
  BY <1>2, <1>3, <1>4, <1>8 DEF InsertHost, Owed, IsUp, IsDown, LifeInv
<1>9. CASE DeleteRoom(c)
  BY <1>2, <1>4, <1>9 DEF DeleteRoom, Owed, IsUp, IsDown, LifeInv
<1>10. CASE FindCode(c) \/ FindRoom(c)
  BY <1>2, <1>4, <1>10 DEF FindCode, FindRoom, Owed, IsUp, IsDown
<1>11. CASE FindMember(c)
  <2>1. Granted[op[c]] \in {"create", "delete", "mark"}
    BY <1>11 DEF FindMember, OpInv, Granted
  <2> QED BY <1>2, <1>4, <1>11, <2>1 DEF FindMember, Owed, IsUp, IsDown
<1>12. CASE InsertMember(c)
  <2>1. CASE user[c] \in members
    <3>1. members' = members
      BY <1>12, <2>1 DEF InsertMember
    <3>2. at[c] = "create" /\ at'[c] = "idle" /\ memberCount' = memberCount /\ failures' = failures
      BY <1>12, <2>1 DEF InsertMember
    <3>3. Moved(0)
      BY <1>2, <3>1, <3>2 DEF Owed, IsUp, IsDown
    <3> QED BY <1>4, <3>2, <3>3
  <2>2. CASE user[c] \notin members
    <3>1. Cardinality(members') = Cardinality(members) + 1
      <4>1. members' = members \cup {user[c]}
        BY <1>12 DEF InsertMember
      <4> QED BY <1>2, <2>2, <4>1, FS_AddElement
    <3>2. at[c] = "create" /\ at'[c] = "inc" /\ memberCount' = memberCount /\ failures' = failures
      BY <1>12, <2>2 DEF InsertMember
    <3>3. Moved(0)
      BY <1>2, <3>1, <3>2 DEF Owed, IsUp, IsDown
    <3> QED BY <1>4, <3>2, <3>3
  <2> QED BY <2>1, <2>2
<1>13. CASE IncCount(c)
  BY <1>2, <1>4, <1>13 DEF IncCount, Owed, IsUp, IsDown
<1>14. CASE DeleteMember(c)
  <2>1. CASE user[c] \notin members
    <3>1. members' = members
      BY <1>14, <2>1 DEF DeleteMember
    <3>2. /\ at[c] = "delete" /\ at'[c] \in {"evict", "idle"}
          /\ memberCount' = memberCount /\ failures' = failures
      BY <1>14, <2>1 DEF DeleteMember
    <3>3. Moved(0)
      BY <1>2, <3>1, <3>2 DEF Owed, IsUp, IsDown
    <3> QED BY <1>4, <3>2, <3>3
  <2>2. CASE user[c] \in members
    <3>1. Cardinality(members') = Cardinality(members) - 1
      <4>1. members' = members \ {user[c]}
        BY <1>14 DEF DeleteMember
      <4> QED BY <1>2, <2>2, <4>1, FS_RemoveElement
    <3>2. at[c] = "delete" /\ at'[c] = "dec" /\ memberCount' = memberCount /\ failures' = failures
      BY <1>14, <2>2 DEF DeleteMember
    <3>3. Moved(0)
      BY <1>2, <3>1, <3>2 DEF Owed, IsUp, IsDown
    <3> QED BY <1>4, <3>2, <3>3
  <2> QED BY <2>1, <2>2
<1>15. CASE DecCount(c)
  BY <1>2, <1>4, <1>15 DEF DecCount, Owed, IsUp, IsDown
<1>16. CASE RevokeUser(c) \/ MarkDissolved(c) \/ RevokeRoom(c)
  BY <1>2, <1>4, <1>16 DEF RevokeUser, MarkDissolved, RevokeRoom, Owed, IsUp, IsDown
<1>17. CASE Fail(c)
  <2>1. \E k \in {-1, 0, 1} : Moved(k)
    BY <1>2, <1>17 DEF Fail, Owed, IsUp, IsDown
  <2>2. PICK k \in {-1, 0, 1} : Moved(k)
    BY <2>1
  <2>3. Gap \in Int /\ Gap' = Gap + k
    BY <1>1, <2>2, GapMoves
  <2> QED BY <1>17, <2>3 DEF Fail, CountFollowsMembers
<1> QED BY <1>5, <1>6, <1>7, <1>8, <1>9, <1>10, <1>11, <1>12, <1>13, <1>14, <1>15,
           <1>16, <1>17 DEF RequestStep

\* A step that is not one of the room's requests leaves its count alone.
LEMMA OtherCount ==
  ASSUME RoomTypeOK, LifeInv, CountFollowsMembers,
         UNCHANGED <<document, requests>>, failures' \in {failures, failures + 1}
  PROVE  LifeInv' /\ CountFollowsMembers'
<1>1. LifeInv'
  BY DEF LifeInv, document, requests
<1>2. Gap' = Gap
  BY DEF Gap, Uncounted, Overcounted, document, requests
<1>3. Gap \in -failures .. failures /\ failures \in Nat
  BY RoomFailuresAssumption DEF CountFollowsMembers, RoomTypeOK
<1>4. Gap \in Int /\ -failures <= Gap /\ Gap <= failures /\ failures' \in Nat
  BY <1>3
<1>5. failures' = failures \/ failures' = failures + 1
  OBVIOUS
<1>6. CountFollowsMembers'
  <2>1. CASE failures' = failures
    BY <1>2, <1>4, <2>1 DEF CountFollowsMembers
  <2>2. CASE failures' = failures + 1
    BY <1>2, <1>3, <1>4, <2>2 DEF CountFollowsMembers
  <2> QED BY <1>5, <2>1, <2>2
<1> QED BY <1>1, <1>6

CountInv == TypeInv /\ LifeInv /\ CountFollowsMembers

LEMMA InitCount == Init => CountInv
<1> SUFFICES ASSUME Init PROVE CountInv
  OBVIOUS
<1>1. TypeInv /\ LifeInv
  BY InitType DEF Init, InitRoom, LifeInv
<1>2. members = {} /\ Uncounted = {} /\ Overcounted = {} /\ memberCount = 0 /\ failures = 0
  BY DEF Init, InitRoom, Uncounted, Overcounted
<1>3. CountFollowsMembers
  BY <1>2, FS_EmptySet DEF CountFollowsMembers, Gap
<1> QED BY <1>1, <1>3 DEF CountInv

LEMMA CountStep == CountInv /\ [Next]_vars => CountInv'
<1> SUFFICES ASSUME CountInv, [Next]_vars PROVE CountInv'
  OBVIOUS
<1>1. TypeInv' /\ RoomTypeOK /\ OpInv
  BY TypeStep DEF CountInv, TypeInv, TypeOK
<1>2. CASE \E c \in Calls : RequestStep(c)
  BY <1>1, <1>2, RequestLife, RequestCount DEF CountInv
<1>3. CASE \E s \in Sockets : SubscribeStep(s) \/ PageStep(s)
  <2>1. UNCHANGED <<document, requests, failures>>
    BY <1>3 DEF SubscribeStep, PageStep, CheckRoom, CheckMember, JoinChannel, LeaveChannel,
                ConnectPage, Connect, DisconnectPage, Disconnect, ListMessages, ChatNew,
                roomVars, document, requests
  <2> QED BY <1>1, <2>1, OtherCount DEF CountInv
<1>4. CASE \E p \in Sends : SendStep(p)
  <2>1. UNCHANGED <<document, requests>> /\ failures' \in {failures, failures + 1}
    BY <1>4 DEF SendStep, ChatSend, SendFindRoom, SendFindMember, FindExisting, CreateMessage,
                CountMessage, PublishChatMessage, FailSend, roomVars, document, requests
  <2> QED BY <1>1, <2>1, OtherCount DEF CountInv
<1>5. CASE UNCHANGED vars
  <2>1. UNCHANGED <<document, requests, failures>>
    BY <1>5 DEF vars, roomVars, document, requests
  <2> QED BY <1>1, <2>1, OtherCount DEF CountInv
<1> QED BY <1>2, <1>3, <1>4, <1>5 DEF Next, Step

\* The count of the room is that of its members when all requests have run, for
\* any number of users and requests; a failure puts it wrong by one at most
\* (joinRoom, addMember, removeMember, createRoom).
THEOREM CountCorrect == Spec => []CountFollowsMembers
<1>1. CountInv => CountFollowsMembers
  BY DEF CountInv
<1> QED BY InitCount, CountStep, <1>1, PTL DEF Spec

-----------------------------------------------------------------------------
(* The sockets of those who were removed.                                  *)

\* The channel holds connected sockets, and a room is deleted after a failure.
ChannelInv ==
  /\ \A s \in channel : sub[s] # "off"
  /\ failures = 0 => \A c \in Calls : at[c] # "undo"

LEMMA RequestRevoke ==
  ASSUME RoomTypeOK, OpInv, ChannelInv, RevokedSocketsLeave, NEW c \in Calls, RequestStep(c)
  PROVE  ChannelInv' /\ RevokedSocketsLeave'
<1> USE OwnerAssumption, RoomFailuresAssumption
    DEF RoomTypeOK, ChannelInv, document, sockets, Goto, Steps, Allowed, Removing
<1>1. CASE failures' # 0
  <2>1. UNCHANGED <<channel, sub>>
    BY DEF RequestStep, CreateRoom, DissolveRoom, JoinRoom, AddMember, KickMember, LeaveRoom,
           Start, InsertRoom, InsertHost, DeleteRoom, FindCode, FindRoom, FindMember,
           InsertMember, IncCount, DeleteMember, DecCount, RevokeUser, MarkDissolved,
           RevokeRoom, Fail
  <2> QED BY <1>1, <2>1 DEF RevokedSocketsLeave
<1>2. CASE Fail(c)
  BY <1>1, <1>2 DEF Fail
<1> USE DEF RevokedSocketsLeave
<1>3. CASE CreateRoom(c) \/ DissolveRoom(c)
  BY <1>3 DEF CreateRoom, DissolveRoom, Start
<1>4. CASE \E u \in Users : JoinRoom(c, u) \/ AddMember(c, u) \/ KickMember(c, u) \/ LeaveRoom(c, u)
  BY <1>4 DEF JoinRoom, AddMember, KickMember, LeaveRoom, Start
<1>5. CASE InsertRoom(c) \/ InsertHost(c) \/ DeleteRoom(c)
  BY <1>1, <1>5 DEF InsertRoom, InsertHost, DeleteRoom
<1>6. CASE FindCode(c) \/ FindRoom(c)
  BY <1>6 DEF FindCode, FindRoom
<1>7. CASE FindMember(c)
  <2>1. Granted[op[c]] \in {"create", "delete", "mark"}
    BY <1>7 DEF FindMember, OpInv, Granted
  <2> QED BY <1>7, <2>1 DEF FindMember
<1>8. CASE InsertMember(c) \/ IncCount(c)
  BY <1>8 DEF InsertMember, IncCount
<1>9. CASE DeleteMember(c)
  BY <1>9 DEF DeleteMember
<1>10. CASE DecCount(c)
  BY <1>10 DEF DecCount
<1>11. CASE RevokeUser(c)
  BY <1>11 DEF RevokeUser, SocketsOf
<1>12. CASE MarkDissolved(c) \/ RevokeRoom(c)
  BY <1>12 DEF MarkDissolved, RevokeRoom
<1> QED BY <1>2, <1>3, <1>4, <1>5, <1>6, <1>7, <1>8, <1>9, <1>10, <1>11, <1>12 DEF RequestStep

LEMMA SocketRevoke ==
  ASSUME RoomTypeOK, ChannelInv, RevokedSocketsLeave, NEW s \in Sockets, SocketStep(s)
  PROVE  ChannelInv' /\ RevokedSocketsLeave'
<1> USE DEF RoomTypeOK, ChannelInv, RevokedSocketsLeave, Allowed, Removing, document, requests
<1>1. CASE Connect(s) \/ Disconnect(s)
  BY <1>1 DEF Connect, Disconnect
<1>2. CASE CheckRoom(s) \/ CheckMember(s)
  BY <1>2 DEF CheckRoom, CheckMember
<1>3. CASE JoinChannel(s)
  BY <1>3 DEF JoinChannel
<1>4. CASE LeaveChannel(s)
  BY <1>4 DEF LeaveChannel
<1> QED BY <1>1, <1>2, <1>3, <1>4 DEF SocketStep, SubscribeStep

LEMMA OtherRevoke ==
  ASSUME RoomTypeOK, ChannelInv, RevokedSocketsLeave,
         UNCHANGED <<document, requests, sockets>>, failures' \in {failures, failures + 1}
  PROVE  ChannelInv' /\ RevokedSocketsLeave'
BY RoomFailuresAssumption
   DEF RoomTypeOK, ChannelInv, RevokedSocketsLeave, Allowed, Removing, document, requests, sockets

RevokeInv == TypeInv /\ ChannelInv /\ RevokedSocketsLeave

LEMMA InitRevoke == Init => RevokeInv
BY InitType DEF Init, InitRoom, RevokeInv, ChannelInv, RevokedSocketsLeave

LEMMA RevokeStep == RevokeInv /\ [Next]_vars => RevokeInv'
<1> SUFFICES ASSUME RevokeInv, [Next]_vars PROVE RevokeInv'
  OBVIOUS
<1>1. TypeInv' /\ RoomTypeOK /\ OpInv
  BY TypeStep DEF RevokeInv, TypeInv, TypeOK
<1>2. CASE \E c \in Calls : RequestStep(c)
  BY <1>1, <1>2, RequestRevoke DEF RevokeInv
<1>3. CASE \E s \in Sockets : SubscribeStep(s) \/ ConnectPage(s) \/ DisconnectPage(s)
  BY <1>1, <1>3, SocketRevoke DEF RevokeInv, SocketStep, ConnectPage, DisconnectPage
<1>4. CASE \/ \E s \in Sockets : ListMessages(s) \/ \E m \in Messages : ChatNew(s, m)
           \/ \E p \in Sends : SendStep(p)
           \/ UNCHANGED vars
  <2>1. UNCHANGED <<document, requests, sockets>> /\ failures' \in {failures, failures + 1}
    BY <1>4 DEF SendStep, ChatSend, SendFindRoom, SendFindMember, FindExisting, CreateMessage,
                CountMessage, PublishChatMessage, FailSend, ListMessages, ChatNew, vars,
                roomVars, document, requests, sockets
  <2> QED BY <1>1, <2>1, OtherRevoke DEF RevokeInv
<1> QED BY <1>2, <1>3, <1>4 DEF Next, Step, PageStep

\* With no failure every socket that was in the channel when its user was
\* removed, or when the room was dissolved, is told to leave, on any number of
\* instances (revokeUser, revokeRoom).
THEOREM RevokedCorrect == Spec => []RevokedSocketsLeave
<1>1. RevokeInv => RevokedSocketsLeave
  BY DEF RevokeInv
<1> QED BY InitRevoke, RevokeStep, <1>1, PTL DEF Spec

-----------------------------------------------------------------------------
(* The publication and the count of the messages.                          *)

OnTheWay(m) == At(m, {"count", "publish"})
Counting == {p \in Sends : step[p] = "count"}

\* What is published, and what failed after it, has been stored.
PublishedInv == cut \subseteq stored /\ \A m \in Messages : published[m] > 0 => m \in stored

\* The sends on their way, when one of them moves.
LEMMA OnTheWayMoves ==
  ASSUME TypeInv, TypeInv', NEW p \in Sends,
         \A q \in Sends \ {p} : step'[q] = step[q] /\ msg'[q] = msg[q],
         NEW m \in Messages
  PROVE  /\ Cardinality(OnTheWay(m)) \in Nat /\ Cardinality(OnTheWay(m)') \in Nat
         /\ Cardinality(OnTheWay(m)') = Cardinality(OnTheWay(m))
              + (IF p \in OnTheWay(m)' THEN 1 ELSE 0) - (IF p \in OnTheWay(m) THEN 1 ELSE 0)
<1>1. OnTheWay(m) \subseteq Sends /\ IsFiniteSet(Sends)
  BY SendsAssumption DEF OnTheWay, At
<1>2. IsFiniteSet(OnTheWay(m))
  BY <1>1, FS_Subset
<1>3. \A q : q # p => (q \in OnTheWay(m) <=> q \in OnTheWay(m)')
  BY DEF OnTheWay, At
<1> QED BY <1>2, <1>3, OneChanges

LEMMA CountingMoves ==
  ASSUME NEW p \in Sends, \A q \in Sends \ {p} : step'[q] = step[q]
  PROVE  /\ Cardinality(Counting) \in Nat /\ Cardinality(Counting') \in Nat
         /\ Cardinality(Counting') = Cardinality(Counting)
              + (IF p \in Counting' THEN 1 ELSE 0) - (IF p \in Counting THEN 1 ELSE 0)
<1>1. Counting \subseteq Sends /\ IsFiniteSet(Sends)
  BY SendsAssumption DEF Counting
<1>2. IsFiniteSet(Counting)
  BY <1>1, FS_Subset
<1>3. \A q : q # p => (q \in Counting <=> q \in Counting')
  BY DEF Counting
<1> QED BY <1>2, <1>3, OneChanges

\* A send moves itself only.
LEMMA SendMoves ==
  ASSUME TypeInv, NEW p \in Sends, SendStep(p)
  PROVE  \A q \in Sends \ {p} : step'[q] = step[q] /\ msg'[q] = msg[q]
BY DEF TypeInv, TypeOK, SendStep, ChatSend, SendFindRoom, SendFindMember, FindExisting,
       CreateMessage, CountMessage, PublishChatMessage, FailSend, Then

LEMMA SendPublish ==
  ASSUME TypeInv, PublishedInv, StoredIsPublishedOnce, NEW p \in Sends, SendStep(p)
  PROVE  PublishedInv' /\ StoredIsPublishedOnce'
<1>1. TypeInv' /\ \A q \in Sends \ {p} : step'[q] = step[q] /\ msg'[q] = msg[q]
  BY SendType, SendMoves
<1>2. PublishedInv'
  BY DEF PublishedInv, TypeInv, TypeOK, MsgInv, SendStep, ChatSend, SendFindRoom,
         SendFindMember, FindExisting, CreateMessage, CountMessage, PublishChatMessage,
         FailSend, Then, storeVars
<1>3. ASSUME NEW m \in Messages
      PROVE  published'[m] + Cardinality(OnTheWay(m)') = IF m \in stored' \ cut' THEN 1 ELSE 0
  <2>1. /\ Cardinality(OnTheWay(m)) \in Nat /\ Cardinality(OnTheWay(m)') \in Nat
        /\ Cardinality(OnTheWay(m)') = Cardinality(OnTheWay(m))
             + (IF p \in OnTheWay(m)' THEN 1 ELSE 0) - (IF p \in OnTheWay(m) THEN 1 ELSE 0)
    BY <1>1, OnTheWayMoves
  <2>2. /\ published[m] + Cardinality(OnTheWay(m)) = IF m \in stored \ cut THEN 1 ELSE 0
        /\ published[m] \in Nat /\ published'[m] \in Nat
    BY <1>1 DEF StoredIsPublishedOnce, OnTheWay, TypeInv, TypeOK
  <2>3. m \notin stored => m \notin cut /\ published[m] = 0 /\ Cardinality(OnTheWay(m)) = 0
    <3>1. ASSUME m \notin stored PROVE OnTheWay(m) = {}
      BY <3>1 DEF TypeInv, MsgInv, OnTheWay, At
    <3>2. m \notin stored => published[m] = 0
      BY <2>2 DEF PublishedInv
    <3> QED BY <3>1, <3>2, FS_EmptySet DEF PublishedInv
  <2>4. /\ p \in OnTheWay(m) <=> msg[p] = m /\ step[p] \in {"count", "publish"}
        /\ p \in OnTheWay(m)' <=> msg'[p] = m /\ step'[p] \in {"count", "publish"}
    BY DEF OnTheWay, At
  <2> USE <2>1, <2>2, <2>4 DEF TypeInv, TypeOK, Then, storeVars
  <2>5. CASE \E n \in Messages : ChatSend(p, n)
    BY <2>5 DEF ChatSend, roomVars
  <2>6. CASE SendFindRoom(p) \/ SendFindMember(p) \/ FindExisting(p)
    BY <2>6 DEF SendFindRoom, SendFindMember, FindExisting, roomVars
  <2>7. CASE CreateMessage(p)
    <3>1. CASE msg[p] \in stored
      BY <2>7, <3>1 DEF CreateMessage, roomVars
    <3>2. CASE msg[p] \notin stored
      BY <2>3, <2>7, <3>2 DEF CreateMessage, roomVars
    <3> QED BY <3>1, <3>2
  <2>8. CASE CountMessage(p)
    BY <2>8 DEF CountMessage, roomVars
  <2>9. CASE PublishChatMessage(p)
    BY <2>9 DEF PublishChatMessage, roomVars
  <2>10. CASE FailSend(p)
    BY <2>10, RoomFailuresAssumption DEF FailSend, RoomTypeOK
  <2> QED BY <2>5, <2>6, <2>7, <2>8, <2>9, <2>10 DEF SendStep
<1> QED BY <1>2, <1>3 DEF StoredIsPublishedOnce, OnTheWay

LEMMA SendCount ==
  ASSUME TypeInv, MessagesAreCounted, NEW p \in Sends, SendStep(p)
  PROVE  MessagesAreCounted'
<1>1. TypeInv' /\ \A q \in Sends \ {p} : step'[q] = step[q]
  BY SendType, SendMoves
<1>2. /\ Cardinality(Counting) \in Nat /\ Cardinality(Counting') \in Nat
      /\ Cardinality(Counting') = Cardinality(Counting)
           + (IF p \in Counting' THEN 1 ELSE 0) - (IF p \in Counting THEN 1 ELSE 0)
  BY <1>1, CountingMoves
<1>3. (p \in Counting <=> step[p] = "count") /\ (p \in Counting' <=> step'[p] = "count")
  BY DEF Counting
<1> DEFINE Due == Cardinality(stored \cap Tagged) - messageCount - Cardinality(Counting)
<1>4. IsFiniteSet(stored \cap Tagged) /\ Cardinality(stored \cap Tagged) \in Nat
  BY SendsAssumption, FS_Subset, FS_CardinalityType DEF TypeInv, TypeOK
<1>5. /\ Due \in 0 .. failures /\ failures \in Nat /\ messageCount \in Nat
      /\ failures' \in Nat /\ messageCount' \in Nat
  BY <1>1, RoomFailuresAssumption
     DEF MessagesAreCounted, Counting, TypeInv, TypeOK, RoomTypeOK
<1>6. ASSUME stored' = stored, messageCount' = messageCount, failures' = failures,
             step[p] # "count", step'[p] # "count"
      PROVE  Due' \in 0 .. failures'
  BY <1>2, <1>3, <1>4, <1>5, <1>6
<1>7. Due' \in 0 .. failures'
  <2> USE DEF TypeInv, TypeOK, Then, storeVars, roomVars
  <2>1. CASE \E m \in Messages : ChatSend(p, m)
    BY <1>6, <2>1 DEF ChatSend
  <2>2. CASE SendFindRoom(p) \/ SendFindMember(p) \/ FindExisting(p)
    BY <1>6, <2>2 DEF SendFindRoom, SendFindMember, FindExisting
  <2>3. CASE CreateMessage(p)
    <3>1. CASE msg[p] \in stored
      BY <1>6, <2>3, <3>1 DEF CreateMessage
    <3>2. CASE msg[p] \notin stored
      <4>1. /\ step[p] = "create" /\ messageCount' = messageCount /\ failures' = failures
            /\ step'[p] = (IF msg[p] \in Tagged THEN "count" ELSE "publish")
        BY <2>3, <3>2 DEF CreateMessage
      <4>2. CASE msg[p] \in Tagged
        <5>1. (stored \cap Tagged)' = (stored \cap Tagged) \cup {msg[p]}
          BY <2>3, <4>2 DEF CreateMessage
        <5>2. Cardinality((stored \cap Tagged)') = Cardinality(stored \cap Tagged) + 1
          BY <1>4, <3>2, <5>1, FS_AddElement
        <5> QED BY <1>2, <1>3, <1>4, <1>5, <4>1, <4>2, <5>2
      <4>3. CASE msg[p] \notin Tagged
        <5>1. (stored \cap Tagged)' = stored \cap Tagged
          BY <2>3, <4>3 DEF CreateMessage
        <5>2. Cardinality((stored \cap Tagged)') = Cardinality(stored \cap Tagged)
          BY <5>1
        <5>3. step'[p] = "publish"
          BY <4>1, <4>3
        <5> QED BY <1>2, <1>3, <1>4, <1>5, <4>1, <5>2, <5>3
      <4> QED BY <4>2, <4>3
    <3> QED BY <3>1, <3>2
  <2>4. CASE CountMessage(p)
    <3>1. /\ step[p] = "count" /\ step'[p] # "count" /\ stored' = stored
          /\ messageCount' = messageCount + 1 /\ failures' = failures
      BY <2>4 DEF CountMessage
    <3>2. Cardinality((stored \cap Tagged)') = Cardinality(stored \cap Tagged)
      BY <3>1
    <3> QED BY <1>2, <1>3, <1>4, <1>5, <3>1, <3>2
  <2>5. CASE PublishChatMessage(p)
    BY <1>6, <2>5 DEF PublishChatMessage
  <2>6. CASE FailSend(p)
    <3>1. /\ step'[p] = "idle" /\ stored' = stored /\ messageCount' = messageCount
          /\ failures' = failures + 1
      BY <2>6 DEF FailSend
    <3>2. Cardinality((stored \cap Tagged)') = Cardinality(stored \cap Tagged)
      BY <3>1
    <3> QED BY <1>2, <1>3, <1>4, <1>5, <3>1, <3>2
  <2> QED BY <2>1, <2>2, <2>3, <2>4, <2>5, <2>6 DEF SendStep
<1> QED BY <1>7 DEF MessagesAreCounted, Counting

\* The steps of the room and of the pages leave the messages alone.
LEMMA OtherMessages ==
  ASSUME TypeInv, PublishedInv, StoredIsPublishedOnce, MessagesAreCounted,
         UNCHANGED <<sendVars, storeVars>>, failures' \in {failures, failures + 1}
  PROVE  PublishedInv' /\ StoredIsPublishedOnce' /\ MessagesAreCounted'
<1>1. failures \in Nat /\ failures' \in Nat /\ (failures' = 0 => failures = 0)
  BY RoomFailuresAssumption DEF TypeInv, TypeOK, RoomTypeOK
<1>2. PublishedInv'
  BY DEF PublishedInv, storeVars
<1>3. StoredIsPublishedOnce'
  <2>1. \A m \in Messages : OnTheWay(m)' = OnTheWay(m)
    BY DEF OnTheWay, At, sendVars
  <2> QED BY <1>1, <2>1 DEF StoredIsPublishedOnce, OnTheWay, storeVars
<1>4. MessagesAreCounted'
  <2>1. Counting' = Counting /\ (stored \cap Tagged)' = stored \cap Tagged
    BY DEF Counting, sendVars, storeVars
  <2>2. Cardinality(stored \cap Tagged) \in Nat /\ Cardinality(Counting) \in Nat
    <3>1. Counting \subseteq Sends
      BY DEF Counting
    <3> QED BY <3>1, SendsAssumption, FS_Subset, FS_CardinalityType DEF TypeInv, TypeOK
  <2>3. messageCount \in Nat /\ messageCount' = messageCount
    BY DEF TypeInv, TypeOK, storeVars
  <2>4. Cardinality(stored \cap Tagged) - messageCount - Cardinality(Counting) \in 0 .. failures
    BY DEF MessagesAreCounted, Counting
  <2>5. Cardinality(stored \cap Tagged) - messageCount - Cardinality(Counting) \in 0 .. failures'
    BY <1>1, <2>2, <2>3, <2>4
  <2> QED BY <2>1, <2>3, <2>5 DEF MessagesAreCounted, Counting
<1> QED BY <1>2, <1>3, <1>4

MessageInv == TypeInv /\ PublishedInv /\ StoredIsPublishedOnce /\ MessagesAreCounted

LEMMA InitMessages == Init => MessageInv
<1> SUFFICES ASSUME Init PROVE MessageInv
  OBVIOUS
<1>1. TypeInv /\ PublishedInv
  BY InitType DEF Init, PublishedInv
<1>2. Counting = {} /\ stored \cap Tagged = {} /\ \A m \in Messages : OnTheWay(m) = {}
  BY DEF Init, Counting, OnTheWay, At
<1>3. StoredIsPublishedOnce
  BY <1>2, FS_EmptySet DEF StoredIsPublishedOnce, OnTheWay, Init
<1>4. MessagesAreCounted
  BY <1>2, FS_EmptySet DEF MessagesAreCounted, Counting, Init, InitRoom
<1> QED BY <1>1, <1>3, <1>4 DEF MessageInv

LEMMA MessageStep == MessageInv /\ [Next]_vars => MessageInv'
<1> SUFFICES ASSUME MessageInv, [Next]_vars PROVE MessageInv'
  OBVIOUS
<1>1. TypeInv'
  BY TypeStep DEF MessageInv
<1>2. CASE \E p \in Sends : SendStep(p)
  BY <1>1, <1>2, SendPublish, SendCount DEF MessageInv
<1>3. CASE \E s \in Sockets : PageStep(s)
  <2>1. UNCHANGED <<sendVars, storeVars, failures>>
    BY <1>3 DEF PageStep, ConnectPage, Connect, DisconnectPage, Disconnect, ListMessages,
                ChatNew, roomVars
  <2> QED BY <1>1, <2>1, OtherMessages DEF MessageInv
<1>4. CASE \E c \in Calls : RequestStep(c) /\ UNCHANGED chatVars
  <2>1. failures' \in {failures, failures + 1}
    BY <1>4 DEF RequestStep, CreateRoom, DissolveRoom, JoinRoom, AddMember, KickMember,
                LeaveRoom, Start, InsertRoom, InsertHost, DeleteRoom, FindCode, FindRoom,
                FindMember, InsertMember, IncCount, DeleteMember, DecCount, RevokeUser,
                MarkDissolved, RevokeRoom, Fail
  <2>2. UNCHANGED <<sendVars, storeVars>>
    BY <1>4 DEF chatVars, sendVars, storeVars
  <2> QED BY <1>1, <2>1, <2>2, OtherMessages DEF MessageInv
<1>5. CASE (\E s \in Sockets : SubscribeStep(s) /\ UNCHANGED chatVars) \/ UNCHANGED vars
  <2>1. UNCHANGED <<sendVars, storeVars, failures>>
    BY <1>5 DEF SubscribeStep, CheckRoom, CheckMember, JoinChannel, LeaveChannel, vars,
                roomVars, chatVars, sendVars, storeVars
  <2> QED BY <1>1, <2>1, OtherMessages DEF MessageInv
<1> QED BY <1>2, <1>3, <1>4, <1>5 DEF Next, Step

\* However often and on however many instances a message is sent, a stored one
\* is published or about to be, once, unless its own send failed in between; then
\* it never is (sendMessage, handleChatSend).
THEOREM PublishedCorrect == Spec => []StoredIsPublishedOnce
<1>1. MessageInv => StoredIsPublishedOnce
  BY DEF MessageInv
<1> QED BY InitMessages, MessageStep, <1>1, PTL DEF Spec

\* A meeting's messageCount is the number of its messages, but for those on
\* their way and one for each failure (sendMessage).
THEOREM CountedCorrect == Spec => []MessagesAreCounted
<1>1. MessageInv => MessagesAreCounted
  BY DEF MessageInv
<1> QED BY InitMessages, MessageStep, <1>1, PTL DEF Spec
=============================================================================
