-------------------------------- MODULE Chat --------------------------------
(***************************************************************************)
(* The chat of a room: messages in Mongo, their publication to the channel *)
(* of the room, and what the page of each socket shows.                    *)
(*                                                                         *)
(* A page that connects subscribes over the socket and asks for the stored *)
(* messages over HTTP; the two requests run side by side.  A message is    *)
(* handed to the instances through Redis, each of which gives it to the    *)
(* sockets it then has in the channel.                                     *)
(***************************************************************************)
EXTENDS Rooms

CONSTANTS
  Messages,     \* clientMsgId, drawn by the page for each message
  Author,       \* the user who sends each message
  Tagged,       \* the messages sent from a meeting
  Sends,        \* chat:send handlers that may run at once
  NoMessage,
  MaxInFlight   \* bound: requests and chat:send handlers that run at once

ASSUME AuthorAssumption == Author \in [Messages -> Users]
ASSUME TaggedAssumption == Tagged \subseteq Messages
ASSUME SendsAssumption == IsFiniteSet(Messages) /\ IsFiniteSet(Sends) /\ NoMessage \notin Messages

VARIABLES
  step,         \* what each chat:send does next
  msg,          \* the message it carries
  stored,       \* messages in Mongo
  messageCount, \* of the meeting
  published,    \* how often each message was published
  cut,          \* ghost: messages whose send failed after it had stored them
  mail,         \* messages each socket's instance is still to hand on
  history,      \* the page's request for the stored messages
  shown,        \* the messages the page shows
  again         \* pages that have lost their connection before (ghost)

sendVars == <<step, msg>>
storeVars == <<stored, messageCount, published, cut>>
pageVars == <<mail, history, shown, again>>
chatVars == <<step, msg, stored, messageCount, published, cut, mail, history, shown, again>>
vars == <<roomVars, chatVars>>

SendSteps == {"idle", "room", "member", "find", "create", "count", "publish"}

Init ==
  /\ InitRoom
  /\ step = [p \in Sends |-> "idle"]
  /\ msg = [p \in Sends |-> NoMessage]
  /\ stored = {} /\ messageCount = 0
  /\ published = [m \in Messages |-> 0] /\ cut = {}
  /\ mail = [s \in Sockets |-> {}]
  /\ history = [s \in Sockets |-> "none"]
  /\ shown = [s \in Sockets |-> {}]
  /\ again = {}

\* A send that is over is forgotten.
Then(p, next) ==
  /\ step' = [step EXCEPT ![p] = next]
  /\ msg' = [msg EXCEPT ![p] = IF next = "idle" THEN NoMessage ELSE @]

-----------------------------------------------------------------------------
(* Sending.  A message may be sent again at any time, on any instance.     *)

ChatSend(p, m) ==
  /\ step[p] = "idle" /\ SocketsOf(Author[m]) # {}
  /\ step' = [step EXCEPT ![p] = "room"]
  /\ msg' = [msg EXCEPT ![p] = m]
  /\ UNCHANGED <<roomVars, storeVars, pageVars>>

SendFindRoom(p) ==
  /\ step[p] = "room"
  /\ Then(p, IF room = "active" THEN "member" ELSE "idle")
  /\ UNCHANGED <<roomVars, storeVars, pageVars>>

SendFindMember(p) ==
  /\ step[p] = "member"
  /\ Then(p, IF Author[msg[p]] \in members THEN "find" ELSE "idle")
  /\ UNCHANGED <<roomVars, storeVars, pageVars>>

\* The message goes out before it is stored.
FindExisting_PublishFirst(p) ==
  /\ step[p] = "find"
  /\ \/ msg[p] \notin stored /\ Then(p, "publish")
     \/ Then(p, "idle")
  /\ UNCHANGED <<roomVars, storeVars, pageVars>>

\* A stored message is answered as it is and goes no further.  The tag and the
\* file of another may be refused.
FindExisting(p) ==
  /\ step[p] = "find"
  /\ \/ msg[p] \notin stored /\ Then(p, "create")
     \/ Then(p, "idle")
  /\ UNCHANGED <<roomVars, storeVars, pageVars>>

\* The send that finds a duplicate goes on like the one that stored it.
CreateMessage_Again(p) ==
  /\ step[p] = "create"
  /\ stored' = stored \cup {msg[p]}
  /\ Then(p, IF msg[p] \in Tagged THEN "count" ELSE "publish")
  /\ UNCHANGED <<roomVars, messageCount, published, cut, pageVars>>

\* The unique index {roomId, clientMsgId} lets one of two sends insert.
CreateMessage(p) ==
  /\ step[p] = "create"
  /\ stored' = stored \cup {msg[p]}
  /\ Then(p, IF msg[p] \in stored THEN "idle"
             ELSE IF msg[p] \in Tagged THEN "count" ELSE "publish")
  /\ UNCHANGED <<roomVars, messageCount, published, cut, pageVars>>

CountMessage(p) ==
  /\ step[p] = "count"
  /\ messageCount' = messageCount + 1
  /\ Then(p, "publish")
  /\ UNCHANGED <<roomVars, stored, published, cut, pageVars>>

\* After the INCR of chat:seq, whose number no page reads.
PublishChatMessage(p) ==
  /\ step[p] = "publish"
  /\ published' = [published EXCEPT ![msg[p]] = @ + 1]
  /\ mail' = [s \in Sockets |-> IF sub[s] = "off" THEN mail[s] ELSE mail[s] \cup {msg[p]}]
  /\ Then(p, "idle")
  /\ UNCHANGED <<roomVars, stored, messageCount, cut, history, shown, again>>

FailSend(p) ==
  /\ step[p] # "idle" /\ failures < MaxFailures
  /\ failures' = failures + 1
  /\ cut' = IF step[p] \in {"count", "publish"} THEN cut \cup {msg[p]} ELSE cut
  /\ Then(p, "idle")
  /\ UNCHANGED <<document, requests, sockets, stored, messageCount, published, pageVars>>

-----------------------------------------------------------------------------
(* The page.                                                               *)

\* It keeps what it shows when it connects again.
ConnectPage(s) ==
  /\ Connect(s)
  /\ history' = [history EXCEPT ![s] = "asked"]
  /\ UNCHANGED <<sendVars, storeVars, mail, shown, again>>

DisconnectPage(s) ==
  /\ Disconnect(s)
  /\ history' = [history EXCEPT ![s] = "none"]
  /\ mail' = [mail EXCEPT ![s] = {}]
  /\ again' = again \cup {s}
  /\ UNCHANGED <<sendVars, storeVars, shown>>

\* listMessages: the same check, then one query.  The page adds the answer to
\* what it shows, so that it does not matter when the answer comes.
ListMessages(s) ==
  /\ history[s] = "asked"
  /\ IF Allowed(s)
     THEN /\ history' = [history EXCEPT ![s] = "read"]
          /\ shown' = [shown EXCEPT ![s] = @ \cup stored]
     ELSE history' = [history EXCEPT ![s] = "refused"] /\ UNCHANGED shown
  /\ UNCHANGED <<roomVars, sendVars, storeVars, mail, again>>

\* An instance hands a message to a socket that is in the channel by now.
ChatNew(s, m) ==
  /\ m \in mail[s]
  /\ mail' = [mail EXCEPT ![s] = @ \ {m}]
  /\ shown' = [shown EXCEPT ![s] = IF s \in channel THEN @ \cup {m} ELSE @]
  /\ UNCHANGED <<roomVars, sendVars, storeVars, history, again>>

SendStep(p) ==
  \/ \E m \in Messages : ChatSend(p, m)
  \/ SendFindRoom(p) \/ SendFindMember(p) \/ FindExisting(p)
  \/ CreateMessage(p) \/ CountMessage(p) \/ PublishChatMessage(p) \/ FailSend(p)

PageStep(s) ==
  \/ ConnectPage(s) \/ DisconnectPage(s) \/ ListMessages(s)
  \/ \E m \in Messages : ChatNew(s, m)

InFlight == Cardinality({c \in Calls : at[c] # "idle"} \cup {p \in Sends : step[p] # "idle"})

Step ==
  \/ \E c \in Calls : RequestStep(c) /\ UNCHANGED chatVars
  \/ \E s \in Sockets : (SubscribeStep(s) /\ UNCHANGED chatVars) \/ PageStep(s)
  \/ \E p \in Sends : SendStep(p)

Next == Step /\ InFlight' <= MaxInFlight

Spec == Init /\ [][Next]_vars

-----------------------------------------------------------------------------
(* Properties.                                                             *)

\* The types of the variables; a page shows stored messages only.
TypeOK ==
  /\ RoomTypeOK
  /\ step \in [Sends -> SendSteps]
  /\ msg \in [Sends -> Messages \cup {NoMessage}]
  /\ \A p \in Sends : step[p] # "idle" => msg[p] \in Messages
  /\ stored \subseteq Messages
  /\ messageCount \in Nat
  /\ published \in [Messages -> Nat] /\ cut \subseteq Messages
  /\ mail \in [Sockets -> SUBSET stored]
  /\ history \in [Sockets -> {"none", "asked", "read", "refused"}]
  /\ shown \in [Sockets -> SUBSET stored]
  /\ again \subseteq Sockets

At(m, steps) == {p \in Sends : msg[p] = m /\ step[p] \in steps}

\* However often and on however many instances a message is sent, it is published
\* once, and not before it is stored; but for one whose send failed between the
\* two: nothing publishes it any more, for a later send finds it stored and goes
\* no further.  No other failure costs a publication (sendMessage, handleChatSend).
StoredIsPublishedOnce ==
  \A m \in Messages :
    published[m] + Cardinality(At(m, {"count", "publish"})) = IF m \in stored \ cut THEN 1 ELSE 0

\* messageCount is the number of the tagged messages, but for those on their
\* way and one for each failure.
MessagesAreCounted ==
  Cardinality(stored \cap Tagged) - messageCount
    - Cardinality({p \in Sends : step[p] = "count"}) \in 0 .. failures

\* A page that has connected again, has subscribed and has read the stored
\* messages shows every message that was published: a lost connection loses
\* nothing (ADR-006 in docs/decisions.md; useRoomChat).
ReconnectLosesNothing ==
  \A s \in channel \cap again :
    history[s] = "read" /\ mail[s] = {} =>
      \A m \in Messages : published[m] > 0 => m \in shown[s]
=============================================================================
