------------------------------ MODULE Meetings ------------------------------
(***************************************************************************)
(* The meetings of one room: Mongo has the room and its meetings, LiveKit  *)
(* has one media room per running meeting.  There is no transaction over   *)
(* the two, and four ways to end a meeting: the host, the dissolution of   *)
(* the room, LiveKit's room_finished webhook, and the self-healing of a    *)
(* start or a join that finds no media room.                               *)
(*                                                                         *)
(* Requests are handled by any instance, at the same time; each await is a *)
(* step of its own.  A command may fail and an instance may stop; LiveKit  *)
(* delivers an event again until it is answered 200, and may give up.      *)
(***************************************************************************)
EXTENDS Integers, FiniteSets

CONSTANTS
  Meetings,     \* ids of meetings, drawn by startMeeting
  Requests,     \* HTTP requests that may be in flight at once
  Hooks,        \* webhook deliveries that may be in flight at once
  NoMeeting,    \* "findOne returned null"
  MaxFailures,  \* bound: failed commands and stopped instances
  MaxLost       \* bound: webhooks LiveKit gives up, media rooms that die unheard

ASSUME CallsAssumption == Requests \cap Hooks = {} /\ NoMeeting \notin Meetings
ASSUME LimitsAssumption == MaxFailures \in Nat /\ MaxLost \in Nat
ASSUME FiniteAssumption ==
  IsFiniteSet(Meetings) /\ IsFiniteSet(Requests) /\ IsFiniteSet(Hooks)

Calls == Requests \cup Hooks

Reasons == {"HOST_ENDED", "ROOM_DISSOLVED", "AUTO_EMPTY"}
NoReason == "none"

VARIABLES
  room,      \* status of the room in Mongo
  status,    \* status of each meeting in Mongo, "none": no document
  reason,    \* its endReason
  media,     \* LiveKit's room of the meeting
  counted,   \* meetingCount of the room
  tallied,   \* meetings whose statistics a finalize has written to the end
  boards,    \* meetings whose whiteboard was told to close
  news,      \* meetings whose room_finished LiveKit still has to deliver
  at,        \* what each call does next
  op,        \* which handler it runs
  about,     \* the meeting it has in hand
  why,       \* the reason it will end it for
  outlived,  \* meetings whose media room was open in a dissolved room (ghost)
  failures,
  lost

docs    == <<room, status, reason, counted, tallied>>
livekit == <<media, news>>
local   == <<at, op, about, why>>
bounds  == <<failures, lost>>
vars    == <<room, status, reason, media, counted, tallied, boards, news,
             at, op, about, why, outlived, failures, lost>>

Steps == {"idle", "find", "exists", "reason", "end", "board", "tally", "open",
          "create", "undo", "count", "mark", "close"}
Ops == {"start", "join", "end", "dissolve", "hook"}

Init ==
  /\ room = "ACTIVE"
  /\ status = [m \in Meetings |-> "none"]
  /\ reason = [m \in Meetings |-> NoReason]
  /\ media = [m \in Meetings |-> "none"]
  /\ counted = 0
  /\ tallied = {}
  /\ boards = {}
  /\ news = {}
  /\ at = [c \in Calls |-> "idle"]
  /\ op = [c \in Calls |-> "hook"]
  /\ about = [c \in Calls |-> NoMeeting]
  /\ why = [c \in Calls |-> NoReason]
  /\ outlived = {}
  /\ failures = 0
  /\ lost = 0

Active == {m \in Meetings : status[m] = "ACTIVE"}

Goto(c, step) == at' = [at EXCEPT ![c] = step]

\* A call is over and forgets what it had in hand.
Done(c) ==
  /\ Goto(c, "idle")
  /\ op' = [op EXCEPT ![c] = "hook"]
  /\ about' = [about EXCEPT ![c] = NoMeeting]
  /\ why' = [why EXCEPT ![c] = NoReason]

Begin(c, o, step, m, r) ==
  /\ at[c] = "idle"
  /\ Goto(c, step)
  /\ op' = [op EXCEPT ![c] = o]
  /\ about' = [about EXCEPT ![c] = m]
  /\ why' = [why EXCEPT ![c] = r]
  /\ UNCHANGED <<docs, livekit, boards, outlived, bounds>>

-----------------------------------------------------------------------------
(* The handlers, up to their first await that matters *)

\* assertRoomPermission lets nobody into a dissolved room.
StartMeeting(c) ==
  /\ room = "ACTIVE"
  /\ Begin(c, "start", "find", NoMeeting, NoReason)

\* findMeeting reads the meeting before the room; both are read here, for the
\* room cannot become active again.
JoinMeeting(c, m) ==
  /\ room = "ACTIVE"
  /\ status[m] = "ACTIVE"
  /\ Begin(c, "join", "exists", m, NoReason)

\* Ended meetings too: the host may press the button again.
EndByHost(c, m) ==
  /\ room = "ACTIVE"
  /\ status[m] # "none"
  /\ Begin(c, "end", "end", m, "HOST_ENDED")

DissolveRoom(c) ==
  /\ room = "ACTIVE"
  /\ Begin(c, "dissolve", "mark", NoMeeting, NoReason)

\* Variant: an event of a dissolved room is ignored, as participant_joined does.
RoomFinished_ActiveOnly(c, m) ==
  /\ m \in news
  /\ IF status[m] = "none" \/ room = "DISSOLVED"
     THEN /\ at[c] = "idle"
          /\ news' = news \ {m}
          /\ UNCHANGED <<docs, media, boards, local, outlived, bounds>>
     ELSE Begin(c, "hook", "reason", m, NoReason)

\* room_finished.  Of a room that never became a meeting there is no document
\* and the event is answered 200 at once.
RoomFinished(c, m) ==
  /\ m \in news
  /\ IF status[m] = "none"
     THEN /\ at[c] = "idle"
          /\ news' = news \ {m}
          /\ UNCHANGED <<docs, media, boards, local, outlived, bounds>>
     ELSE Begin(c, "hook", "reason", m, NoReason)

-----------------------------------------------------------------------------
(* startMeeting and joinMeeting *)

\* The ACTIVE meeting of the room: for startMeeting and endActiveMeetingOfRoom.
FindActive(c) ==
  /\ at[c] = "find"
  /\ \/ \E m \in Active :
          /\ about' = [about EXCEPT ![c] = m]
          /\ IF op[c] = "start"
             THEN Goto(c, "exists") /\ UNCHANGED why
             ELSE Goto(c, "end") /\ why' = [why EXCEPT ![c] = "ROOM_DISSOLVED"]
          /\ UNCHANGED op
     \/ /\ Active = {}
        /\ IF op[c] = "start" THEN Goto(c, "open") /\ UNCHANGED <<op, about, why>> ELSE Done(c)
  /\ UNCHANGED <<docs, livekit, boards, outlived, bounds>>

\* roomExists: yes is a 409 for a start and a token for a join; no is a
\* meeting to heal.  When LiveKit does not answer the call fails with 502.
RoomExists(c) ==
  /\ at[c] = "exists"
  /\ IF media[about[c]] = "open"
     THEN Done(c)
     ELSE Goto(c, "reason") /\ UNCHANGED <<op, about, why>>
  /\ UNCHANGED <<docs, livekit, boards, outlived, bounds>>

\* Variant: the system's reason taken from the call, not from the room.
SystemEndReason_FromCall(c) ==
  /\ at[c] = "reason"
  /\ why' = [why EXCEPT ![c] = "AUTO_EMPTY"]
  /\ Goto(c, "end")
  /\ UNCHANGED <<docs, livekit, boards, op, about, outlived, bounds>>

SystemEndReason(c) ==
  /\ at[c] = "reason"
  /\ why' = [why EXCEPT ![c] = IF room = "DISSOLVED" THEN "ROOM_DISSOLVED" ELSE "AUTO_EMPTY"]
  /\ Goto(c, "end")
  /\ UNCHANGED <<docs, livekit, boards, op, about, outlived, bounds>>

\* Variant: the document first, LiveKit's room when somebody joins.
CreateMediaRoom_Later(c) ==
  /\ at[c] = "open"
  /\ \E m \in Meetings :
       /\ media[m] = "none" /\ status[m] = "none"
       /\ \A d \in Calls : at[d] = "create" => about[d] # m
       /\ about' = [about EXCEPT ![c] = m]
  /\ Goto(c, "create")
  /\ UNCHANGED <<docs, livekit, boards, op, why, outlived, bounds>>

\* LiveKit first, under a new id.
CreateMediaRoom(c) ==
  /\ at[c] = "open"
  /\ \E m \in Meetings :
       /\ media[m] = "none"
       /\ media' = [media EXCEPT ![m] = "open"]
       /\ about' = [about EXCEPT ![c] = m]
       /\ outlived' = IF room = "DISSOLVED" THEN outlived \cup {m} ELSE outlived
  /\ Goto(c, "create")
  /\ UNCHANGED <<docs, news, boards, op, why, bounds>>

\* Variant: no unique index on the ACTIVE meeting of a room.
CreateMeeting_NoIndex(c) ==
  /\ at[c] = "create"
  /\ status' = [status EXCEPT ![about[c]] = "ACTIVE"]
  /\ Goto(c, "count")
  /\ UNCHANGED <<room, reason, counted, tallied, livekit, boards, op, about, why, outlived, bounds>>

\* Variant: the start that lost the race counts the winner's meeting as its own.
CreateMeeting_LoserCounts(c) ==
  /\ at[c] = "create"
  /\ status' = [status EXCEPT ![about[c]] = IF Active = {} THEN "ACTIVE" ELSE @]
  /\ Goto(c, "count")
  /\ UNCHANGED <<room, reason, counted, tallied, livekit, boards, op, about, why, outlived, bounds>>

\* Then Mongo, whose unique index refuses a second ACTIVE meeting of the room.
CreateMeeting(c) ==
  /\ at[c] = "create"
  /\ IF Active = {}
     THEN status' = [status EXCEPT ![about[c]] = "ACTIVE"] /\ Goto(c, "count")
     ELSE UNCHANGED status /\ Goto(c, "undo")
  /\ UNCHANGED <<room, reason, counted, tallied, livekit, boards, op, about, why, outlived, bounds>>

CountMeeting(c) ==
  /\ at[c] = "count"
  /\ counted' = counted + 1
  /\ Done(c)
  /\ UNCHANGED <<room, status, reason, tallied, livekit, boards, outlived, bounds>>

\* deleteRoom; LiveKit reports the end of a room that was still open.
CloseMedia(m) ==
  IF media[m] = "open"
  THEN media' = [media EXCEPT ![m] = "closed"] /\ news' = news \cup {m}
  ELSE UNCHANGED livekit

\* After a failed create the spare media room is closed, after an end by the
\* host or a dissolution the meeting's own.
CloseRoom(c) ==
  /\ at[c] \in {"undo", "close"}
  /\ CloseMedia(about[c])
  /\ Done(c)
  /\ UNCHANGED <<docs, boards, outlived, bounds>>

-----------------------------------------------------------------------------
(* endMeeting, shared by the four ways *)

\* Where a call goes after endMeeting has returned.  The hook answers 200.
AfterEnd(c) ==
  CASE op[c] = "start" -> Goto(c, "open") /\ UNCHANGED <<op, about, why, news>>
    [] op[c] \in {"end", "dissolve"} -> Goto(c, "close") /\ UNCHANGED <<op, about, why, news>>
    [] op[c] = "join" -> Done(c) /\ UNCHANGED news
    [] op[c] = "hook" -> Done(c) /\ news' = news \ {about[c]}

\* Variant: an early return for a meeting that has ended already.
EndMeeting_ReturnIfEnded(c) ==
  /\ at[c] = "end"
  /\ IF about[c] \in Active
     THEN /\ status' = [status EXCEPT ![about[c]] = "ENDED"]
          /\ reason' = [reason EXCEPT ![about[c]] = why[c]]
          /\ Goto(c, "board")
          /\ UNCHANGED <<op, about, why, news>>
     ELSE UNCHANGED <<status, reason>> /\ AfterEnd(c)
  /\ UNCHANGED <<room, counted, tallied, media, boards, outlived, bounds>>

\* Variant: the reason left out of the update.
EndMeeting_NoReason(c) ==
  /\ at[c] = "end"
  /\ status' = [status EXCEPT ![about[c]] = "ENDED"]
  /\ Goto(c, "board")
  /\ UNCHANGED <<room, reason, counted, tallied, livekit, boards, op, about, why, outlived, bounds>>

\* The update filters on ACTIVE; when it matches nothing the rest still runs.
EndMeeting(c) ==
  /\ at[c] = "end"
  /\ IF about[c] \in Active
     THEN /\ status' = [status EXCEPT ![about[c]] = "ENDED"]
          /\ reason' = [reason EXCEPT ![about[c]] = why[c]]
     ELSE UNCHANGED <<status, reason>>
  /\ Goto(c, "board")
  /\ UNCHANGED <<room, counted, tallied, livekit, boards, op, about, why, outlived, bounds>>

\* closeBoard: see Whiteboard for finalizeBoard.  It never throws; an error in
\* it leaves the board open.
CloseBoard(c) ==
  /\ at[c] = "board"
  /\ \/ boards' = boards \cup {about[c]} /\ UNCHANGED failures
     \/ /\ failures < MaxFailures
        /\ failures' = failures + 1
        /\ UNCHANGED boards
  /\ Goto(c, "tally")
  /\ UNCHANGED <<docs, livekit, op, about, why, outlived, lost>>

\* finalize: its own steps are in Presence.
Finalize(c) ==
  /\ at[c] = "tally"
  /\ tallied' = tallied \cup {about[c]}
  /\ AfterEnd(c)
  /\ UNCHANGED <<room, status, reason, counted, media, boards, outlived, bounds>>

-----------------------------------------------------------------------------
(* dissolveRoom *)

MarkDissolved(c) ==
  /\ at[c] = "mark"
  /\ room' = "DISSOLVED"
  /\ outlived' = outlived \cup {m \in Meetings : media[m] = "open"}
  /\ Goto(c, "find")
  /\ UNCHANGED <<status, reason, counted, tallied, livekit, boards, op, about, why, bounds>>

-----------------------------------------------------------------------------
(* Failures *)

\* A failed create closes the spare room; a failed end of a dissolution still
\* closes the media room.
Caught(c) ==
  \/ op[c] = "start" /\ at[c] = "create" /\ Goto(c, "undo")
  \/ op[c] = "dissolve" /\ at[c] \in {"end", "board", "tally"} /\ Goto(c, "close")

\* Any other error ends the call (a webhook answers 500 and comes again), and
\* so does the instance when it stops, whatever would have been caught.
Fail(c) ==
  /\ at[c] # "idle"
  /\ failures < MaxFailures
  /\ failures' = failures + 1
  /\ \/ Caught(c) /\ UNCHANGED <<op, about, why>>
     \/ Done(c)
  /\ UNCHANGED <<docs, livekit, boards, outlived, lost>>

-----------------------------------------------------------------------------
(* LiveKit *)

\* An empty room is closed after its timeout, a minute at least: it outlasts
\* the insert that follows createRoom.
MediaCloses(m) ==
  /\ media[m] = "open"
  /\ \A c \in Calls : about[c] = m => at[c] # "create"
  /\ CloseMedia(m)
  /\ UNCHANGED <<docs, boards, local, outlived, bounds>>

\* A hard stop of LiveKit: its rooms are gone and no event is sent.
MediaDies(m) ==
  /\ media[m] = "open"
  /\ lost < MaxLost
  /\ lost' = lost + 1
  /\ media' = [media EXCEPT ![m] = "closed"]
  /\ UNCHANGED <<docs, news, boards, local, outlived, failures>>

\* The last retry has failed.
NewsLost(m) ==
  /\ m \in news
  /\ lost < MaxLost
  /\ lost' = lost + 1
  /\ news' = news \ {m}
  /\ UNCHANGED <<docs, media, boards, local, outlived, failures>>

-----------------------------------------------------------------------------
EndSteps(c) == EndMeeting(c) \/ CloseBoard(c) \/ Finalize(c)

Step(c) ==
  \/ FindActive(c) \/ RoomExists(c) \/ SystemEndReason(c) \/ EndSteps(c)
  \/ CreateMediaRoom(c) \/ CreateMeeting(c) \/ CountMeeting(c)
  \/ CloseRoom(c) \/ MarkDissolved(c)

Next ==
  \/ \E c \in Requests : StartMeeting(c) \/ DissolveRoom(c)
  \/ \E c \in Requests, m \in Meetings : JoinMeeting(c, m) \/ EndByHost(c, m)
  \/ \E c \in Hooks, m \in Meetings : RoomFinished(c, m)
  \/ \E c \in Calls : Step(c) \/ Fail(c)
  \/ \E m \in Meetings : MediaCloses(m) \/ MediaDies(m) \/ NewsLost(m)

Spec == Init /\ [][Next]_vars

-----------------------------------------------------------------------------
(* What the meetings promise *)

\* The variables hold what Mongo and LiveKit can hold, and a meeting has an end
\* reason exactly when it has ended.
TypeOK ==
  /\ room \in {"ACTIVE", "DISSOLVED"}
  /\ status \in [Meetings -> {"none", "ACTIVE", "ENDED"}]
  /\ reason \in [Meetings -> Reasons \cup {NoReason}]
  /\ \A m \in Meetings : status[m] = "ENDED" <=> reason[m] # NoReason
  /\ media \in [Meetings -> {"none", "open", "closed"}]
  /\ counted \in Nat
  /\ tallied \subseteq Meetings
  /\ boards \subseteq Meetings
  /\ news \subseteq Meetings
  /\ at \in [Calls -> Steps]
  /\ op \in [Calls -> Ops]
  /\ about \in [Calls -> Meetings \cup {NoMeeting}]
  /\ why \in [Calls -> Reasons \cup {NoReason}]
  /\ outlived \subseteq Meetings
  /\ failures \in Nat
  /\ lost \in Nat

\* Self-healing never ends a meeting whose media room is there, or is about to
\* be: the media room is created before the document (spec 5.2), so "no such
\* room" can only mean that LiveKit has closed it.
HealsOnlyClosedRooms ==
  \A m \in Meetings : reason[m] = "AUTO_EMPTY" => media[m] = "closed"

\* AUTO_EMPTY is never the reason of a meeting that people were still in when
\* the room was dissolved: the system's reason is read from the room after the
\* media room is known to be closed (spec 6.3).
EmptyOnlyBeforeDissolution ==
  \A m \in Meetings : reason[m] = "AUTO_EMPTY" => m \notin outlived

\* The meetings in Mongo, and the starts that have yet to count theirs.
Made == {m \in Meetings : status[m] # "none"}
Due == {c \in Calls : at[c] = "count"}

\* meetingCount, incremented after the insert and apart from it, counts every
\* meeting of the room once: it is behind the meetings in Mongo by the starts
\* that have yet to count theirs and by those that failed before, whatever
\* starts raced for the one ACTIVE meeting, and it is never ahead.
MeetingsCountedOnce ==
  LET made == Cardinality(Made)
      due  == Cardinality(Due)
  IN counted + due <= made /\ made <= counted + due + failures

\* The first to end a meeting wins: whoever comes later, with whatever reason
\* and however often, leaves its end as it stands.
EndStands ==
  [][\A m \in Meetings :
       status[m] = "ENDED" => status'[m] = "ENDED" /\ reason'[m] = reason[m]]_vars

\* The meetings implement RoomLifecycle, in which one meeting runs at a time.
Lifecycle == INSTANCE RoomLifecycle WITH
  running <- IF Active = {} THEN NoMeeting ELSE CHOOSE m \in Active : TRUE,
  ended <- reason, settled <- tallied

ImplementsLifecycle == Lifecycle!LifeSpec

\* Nothing is under way, everybody has left and LiveKit has told all it knew.
Quiet ==
  /\ \A c \in Calls : at[c] = "idle"
  /\ news = {} /\ lost = 0
  /\ \A m \in Meetings : media[m] # "open"

\* However it ended, and whatever failed after the update, an ended meeting has
\* its statistics when all is quiet: the next way to end it runs finalize again.
EndedIsTallied ==
  Quiet => \A m \in Meetings : status[m] = "ENDED" => m \in tallied

\* A dissolved room does not keep a running meeting, not even one that was
\* being started during the dissolution or whose end failed in it.
DissolvedRoomEnds ==
  Quiet /\ room = "DISSOLVED" => \A m \in Meetings : status[m] # "ACTIVE"

=============================================================================
