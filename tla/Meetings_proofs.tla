-------------------------- MODULE Meetings_proofs --------------------------
(***************************************************************************)
(* Invariants of Meetings for any number of meetings, requests, webhooks   *)
(* and failures, and the proof that it implements RoomLifecycle.           *)
(***************************************************************************)
EXTENDS Meetings, FiniteSetTheorems, TLAPS

\* Steps at which a call has a meeting of Mongo in hand.
Holding == {"exists", "reason", "end", "board", "tally", "close"}

\* What a call knows about the meeting it has in hand.
CallInv ==
  \A c \in Calls :
    /\ at[c] \in Holding \cup {"create", "undo"} => about[c] \in Meetings
    /\ at[c] \in Holding => status[about[c]] # "none"
    /\ at[c] \in {"board", "tally"} => status[about[c]] = "ENDED"
    /\ at[c] = "end" => why[c] \in Reasons
    /\ at[c] = "create" => status[about[c]] = "none" /\ media[about[c]] # "none"

\* Every start draws an id of its own.
IdInv ==
  \A c, d \in Calls : at[c] = "create" /\ at[d] = "create" /\ about[c] = about[d] => c = d

\* The system ends a meeting only when its media room is known to be closed.
HealInv ==
  \A c \in Calls :
    /\ at[c] = "reason" => media[about[c]] = "closed"
    /\ at[c] = "end" /\ why[c] = "AUTO_EMPTY" =>
         media[about[c]] = "closed" /\ about[c] \notin outlived

MediaInv ==
  /\ \A m \in Meetings : status[m] # "none" => media[m] # "none"
  /\ \A m \in news : media[m] = "closed"
  /\ outlived # {} => room = "DISSOLVED"
  /\ \A m \in outlived : media[m] # "none"

\* The unique index.
OneActive == \A m, n \in Active : m = n

IInv ==
  /\ TypeOK
  /\ CallInv
  /\ IdInv
  /\ HealInv
  /\ MediaInv
  /\ OneActive
  /\ HealsOnlyClosedRooms
  /\ EmptyOnlyBeforeDissolution

LEMMA InitIInv == Init => IInv
BY CallsAssumption
   DEF Init, IInv, TypeOK, CallInv, IdInv, HealInv, MediaInv, OneActive, Active,
       HealsOnlyClosedRooms, EmptyOnlyBeforeDissolution, Holding, Steps, Ops, Reasons, NoReason

\* Every action that leaves a call with nothing in hand, or begins a new one.
LEMMA BeginIInv ==
  ASSUME IInv, NEW c \in Calls, NEW o \in Ops, NEW step \in Steps,
         NEW m \in Meetings \cup {NoMeeting}, NEW r \in Reasons \cup {NoReason},
         Begin(c, o, step, m, r),
         \/ step \in {"find", "mark"}
         \/ /\ m \in Meetings /\ status[m] # "none"
            /\ \/ step = "exists"
               \/ step = "end" /\ r = "HOST_ENDED"
               \/ step = "reason" /\ m \in news
  PROVE  IInv'
<1> USE DEF IInv, Begin, Goto, docs, livekit, bounds
<1>1. TypeOK'
  BY DEF TypeOK
<1>2. CallInv'
  BY DEF TypeOK, CallInv, Holding, Reasons
<1>3. IdInv'
  BY DEF TypeOK, IdInv
<1>4. HealInv'
  BY DEF TypeOK, HealInv, MediaInv
<1>5. MediaInv' /\ OneActive' /\ HealsOnlyClosedRooms' /\ EmptyOnlyBeforeDissolution'
  BY DEF MediaInv, OneActive, Active, HealsOnlyClosedRooms, EmptyOnlyBeforeDissolution
<1> QED BY <1>1, <1>2, <1>3, <1>4, <1>5

\* A call that is over has nothing in hand.
LEMMA DoneIInv ==
  ASSUME IInv, NEW c \in Calls, Done(c), TypeOK',
         UNCHANGED <<room, status, reason, media, outlived>>, news' \subseteq news
  PROVE  IInv'
<1> USE DEF IInv, Done, Goto
<1>2. CallInv'
  BY DEF TypeOK, CallInv, Holding
<1>3. IdInv'
  BY DEF TypeOK, IdInv
<1>4. HealInv'
  BY DEF TypeOK, HealInv
<1>5. MediaInv' /\ OneActive' /\ HealsOnlyClosedRooms' /\ EmptyOnlyBeforeDissolution'
  BY DEF MediaInv, OneActive, Active, HealsOnlyClosedRooms, EmptyOnlyBeforeDissolution
<1> QED BY <1>2, <1>3, <1>4, <1>5

\* LiveKit's room of a meeting closes, heard or not.
LEMMA MediaClosedIInv ==
  ASSUME IInv, NEW m \in Meetings, media[m] = "open", media' = [media EXCEPT ![m] = "closed"],
         news' \subseteq news \cup {m}, UNCHANGED <<docs, boards, local, outlived>>,
         failures' \in Nat, lost' \in Nat
  PROVE  IInv'
<1> USE DEF IInv, docs, local
<1>1. TypeOK'
  BY DEF TypeOK
<1>2. CallInv' /\ IdInv' /\ HealInv'
  BY DEF TypeOK, CallInv, IdInv, HealInv, Holding
<1>3. MediaInv'
  BY DEF TypeOK, MediaInv
<1>4. OneActive' /\ HealsOnlyClosedRooms' /\ EmptyOnlyBeforeDissolution'
  BY DEF TypeOK, OneActive, Active, HealsOnlyClosedRooms, EmptyOnlyBeforeDissolution
<1> QED BY <1>1, <1>2, <1>3, <1>4

LEMMA FindActiveIInv ==
  ASSUME IInv, NEW c \in Calls, FindActive(c)
  PROVE  IInv'
<1> USE DEF IInv, Goto, docs, livekit, bounds
<1>1. TypeOK'
  BY DEF TypeOK, FindActive, Done, Active, Steps, Ops, Reasons
<1>2. CASE Done(c)
  BY <1>1, <1>2, DoneIInv DEF FindActive
<1>3. CASE ~Done(c)
  <2>1. \/ /\ at'[c] = "exists" /\ about'[c] \in Active /\ why' = why
        \/ /\ at'[c] = "end" /\ about'[c] \in Active /\ why'[c] = "ROOM_DISSOLVED"
        \/ /\ at'[c] = "open" /\ why' = why
    BY <1>3 DEF TypeOK, FindActive
  <2>2. \A d \in Calls \ {c} : at'[d] = at[d] /\ about'[d] = about[d] /\ why'[d] = why[d]
    BY <1>3 DEF TypeOK, FindActive
  <2>3. UNCHANGED <<room, status, reason, media, news, outlived>>
    BY DEF FindActive
  <2>4. CallInv'
    BY <2>1, <2>2, <2>3 DEF CallInv, Holding, Active, Reasons
  <2>5. IdInv' /\ HealInv'
    BY <2>1, <2>2, <2>3 DEF IdInv, HealInv
  <2>6. MediaInv' /\ OneActive' /\ HealsOnlyClosedRooms' /\ EmptyOnlyBeforeDissolution'
    BY <2>3 DEF MediaInv, OneActive, Active, HealsOnlyClosedRooms, EmptyOnlyBeforeDissolution
  <2> QED BY <1>1, <2>4, <2>5, <2>6
<1> QED BY <1>2, <1>3

LEMMA RoomExistsIInv ==
  ASSUME IInv, NEW c \in Calls, RoomExists(c)
  PROVE  IInv'
<1> USE DEF IInv, Goto, docs, livekit, bounds
<1>1. TypeOK'
  BY DEF TypeOK, RoomExists, Done, Steps, Ops
<1>2. CASE media[about[c]] = "open"
  BY <1>1, <1>2, DoneIInv DEF RoomExists
<1>3. CASE media[about[c]] # "open"
  <2>1. about[c] \in Meetings /\ status[about[c]] # "none" /\ media[about[c]] = "closed"
    BY <1>3 DEF RoomExists, CallInv, MediaInv, Holding, TypeOK
  <2>2. CallInv' /\ IdInv' /\ HealInv'
    BY <1>3, <2>1 DEF RoomExists, TypeOK, CallInv, IdInv, HealInv, Holding
  <2>3. MediaInv' /\ OneActive' /\ HealsOnlyClosedRooms' /\ EmptyOnlyBeforeDissolution'
    BY DEF RoomExists, MediaInv, OneActive, Active, HealsOnlyClosedRooms, EmptyOnlyBeforeDissolution
  <2> QED BY <1>1, <2>2, <2>3
<1> QED BY <1>2, <1>3

LEMMA SystemEndReasonIInv ==
  ASSUME IInv, NEW c \in Calls, SystemEndReason(c)
  PROVE  IInv'
<1> USE DEF IInv, Goto, docs, livekit, bounds
<1>1. TypeOK'
  BY DEF TypeOK, SystemEndReason, Steps, Reasons
<1>2. CallInv' /\ IdInv'
  BY DEF SystemEndReason, TypeOK, CallInv, IdInv, Holding, Reasons
<1>3. HealInv'
  BY DEF SystemEndReason, TypeOK, CallInv, HealInv, MediaInv, Holding
<1>4. MediaInv' /\ OneActive' /\ HealsOnlyClosedRooms' /\ EmptyOnlyBeforeDissolution'
  BY DEF SystemEndReason, MediaInv, OneActive, Active, HealsOnlyClosedRooms, EmptyOnlyBeforeDissolution
<1> QED BY <1>1, <1>2, <1>3, <1>4

LEMMA CreateMediaRoomIInv ==
  ASSUME IInv, NEW c \in Calls, CreateMediaRoom(c)
  PROVE  IInv'
<1> USE DEF IInv, Goto, docs, bounds
<1>1. PICK m \in Meetings :
        /\ media[m] = "none"
        /\ media' = [media EXCEPT ![m] = "open"]
        /\ about' = [about EXCEPT ![c] = m]
        /\ outlived' = IF room = "DISSOLVED" THEN outlived \cup {m} ELSE outlived
  BY DEF CreateMediaRoom
<1>2. /\ at' = [at EXCEPT ![c] = "create"]
      /\ UNCHANGED <<room, status, reason, counted, tallied, news, boards, op, why, failures, lost>>
  BY DEF CreateMediaRoom
<1>3. TypeOK'
  BY <1>1, <1>2 DEF TypeOK, Steps
<1>4. status[m] = "none" /\ m \notin news /\ m \notin outlived
  BY <1>1 DEF MediaInv
<1>5. CallInv'
  BY <1>1, <1>2, <1>4 DEF TypeOK, CallInv, Holding
<1>6. IdInv'
  BY <1>1, <1>2 DEF TypeOK, IdInv, CallInv
<1>7. HealInv'
  BY <1>1, <1>2 DEF TypeOK, HealInv
<1>8. MediaInv'
  BY <1>1, <1>2, <1>4 DEF TypeOK, MediaInv
<1>9. OneActive' /\ HealsOnlyClosedRooms' /\ EmptyOnlyBeforeDissolution'
  BY <1>1, <1>2 DEF TypeOK, OneActive, Active, HealsOnlyClosedRooms, EmptyOnlyBeforeDissolution
<1> QED BY <1>3, <1>5, <1>6, <1>7, <1>8, <1>9

LEMMA CreateMeetingIInv ==
  ASSUME IInv, NEW c \in Calls, CreateMeeting(c)
  PROVE  IInv'
<1> USE DEF IInv, Goto, livekit, bounds
<1>1. about[c] \in Meetings /\ status[about[c]] = "none" /\ media[about[c]] # "none"
  BY DEF CreateMeeting, CallInv
<1>2. TypeOK'
  BY <1>1 DEF TypeOK, CreateMeeting, Steps
<1>3. CallInv' /\ IdInv'
  BY <1>1 DEF TypeOK, CreateMeeting, CallInv, IdInv, Holding
<1>4. HealInv' /\ MediaInv'
  BY <1>1 DEF TypeOK, CreateMeeting, HealInv, MediaInv
<1>5. OneActive'
  BY <1>1 DEF TypeOK, CreateMeeting, OneActive, Active
<1>6. HealsOnlyClosedRooms' /\ EmptyOnlyBeforeDissolution'
  BY DEF CreateMeeting, HealsOnlyClosedRooms, EmptyOnlyBeforeDissolution
<1> QED BY <1>2, <1>3, <1>4, <1>5, <1>6

LEMMA CloseRoomIInv ==
  ASSUME IInv, NEW c \in Calls, CloseRoom(c)
  PROVE  IInv'
<1> USE DEF IInv, Goto, docs, livekit, bounds
<1> DEFINE m == about[c]
<1>1. m \in Meetings
  BY DEF CloseRoom, CallInv, Holding
<1>2. /\ Done(c)
      /\ UNCHANGED <<room, status, reason, counted, tallied, boards, outlived, failures, lost>>
  BY DEF CloseRoom
<1>3. CASE media[m] # "open"
  <2>1. UNCHANGED <<media, news>>
    BY <1>3 DEF CloseRoom, CloseMedia
  <2>2. TypeOK'
    BY <1>2, <2>1 DEF TypeOK, Done, Steps, Ops
  <2> QED BY <1>2, <2>1, <2>2, DoneIInv
<1>4. CASE media[m] = "open"
  <2>1. media' = [media EXCEPT ![m] = "closed"] /\ news' = news \cup {m}
    BY <1>4 DEF CloseRoom, CloseMedia
  <2>2. TypeOK'
    BY <1>1, <1>2, <2>1 DEF TypeOK, Done, Steps, Ops
  <2>3. CallInv' /\ IdInv' /\ HealInv'
    BY <1>1, <1>2, <2>1 DEF TypeOK, Done, CallInv, IdInv, HealInv, Holding
  <2>4. MediaInv'
    BY <1>1, <1>2, <1>4, <2>1 DEF TypeOK, MediaInv
  <2>5. OneActive' /\ HealsOnlyClosedRooms' /\ EmptyOnlyBeforeDissolution'
    BY <1>1, <1>2, <1>4, <2>1 DEF TypeOK, OneActive, Active, HealsOnlyClosedRooms, EmptyOnlyBeforeDissolution
  <2> QED BY <2>2, <2>3, <2>4, <2>5
<1> QED BY <1>3, <1>4

LEMMA EndMeetingIInv ==
  ASSUME IInv, NEW c \in Calls, EndMeeting(c)
  PROVE  IInv'
<1> USE DEF IInv, Goto, livekit, bounds
<1>1. about[c] \in Meetings /\ status[about[c]] # "none" /\ why[c] \in Reasons
  BY DEF EndMeeting, CallInv, Holding
<1>2. why[c] = "AUTO_EMPTY" => media[about[c]] = "closed" /\ about[c] \notin outlived
  BY DEF EndMeeting, HealInv
<1>3. TypeOK'
  BY <1>1 DEF TypeOK, EndMeeting, Active, Steps, Reasons, NoReason
<1>4. CallInv' /\ IdInv'
  BY <1>1 DEF TypeOK, EndMeeting, Active, CallInv, IdInv, Holding
<1>5. HealInv' /\ MediaInv'
  BY <1>1 DEF TypeOK, EndMeeting, HealInv, MediaInv
<1>6. OneActive'
  BY <1>1 DEF TypeOK, EndMeeting, OneActive, Active
<1>7. HealsOnlyClosedRooms' /\ EmptyOnlyBeforeDissolution'
  BY <1>1, <1>2 DEF TypeOK, EndMeeting, HealsOnlyClosedRooms, EmptyOnlyBeforeDissolution
<1> QED BY <1>3, <1>4, <1>5, <1>6, <1>7

\* Steps that only move a call on, to a step that needs no more than it has.
LEMMA MoveIInv ==
  ASSUME IInv, NEW c \in Calls, NEW step \in Steps, Goto(c, step), TypeOK',
         \/ step \in {"open", "find"}
         \/ at[c] = "create" /\ step = "undo"
         \/ at[c] \in {"end", "board", "tally"} /\ step = "close"
         \/ at[c] = "board" /\ step = "tally",
         UNCHANGED <<room, status, reason, media, news, outlived, about, why>>
  PROVE  IInv'
<1> USE DEF IInv, Goto
<1>1. CallInv' /\ IdInv' /\ HealInv'
  BY DEF TypeOK, CallInv, IdInv, HealInv, Holding
<1>2. MediaInv' /\ OneActive' /\ HealsOnlyClosedRooms' /\ EmptyOnlyBeforeDissolution'
  BY DEF MediaInv, OneActive, Active, HealsOnlyClosedRooms, EmptyOnlyBeforeDissolution
<1> QED BY <1>1, <1>2

LEMMA CloseBoardIInv ==
  ASSUME IInv, NEW c \in Calls, CloseBoard(c)
  PROVE  IInv'
<1> USE DEF docs, livekit
<1>1. about[c] \in Meetings /\ failures' \in Nat
  BY DEF IInv, TypeOK, CloseBoard, CallInv, Holding
<1>2. TypeOK' /\ "tally" \in Steps
  BY <1>1 DEF IInv, TypeOK, CloseBoard, Goto, Steps
<1> QED BY <1>2, MoveIInv DEF CloseBoard

LEMMA FinalizeIInv ==
  ASSUME IInv, NEW c \in Calls, Finalize(c)
  PROVE  IInv'
<1>1. about[c] \in Meetings /\ op[c] \in Ops
  BY DEF IInv, TypeOK, Finalize, CallInv, Holding
<1>2. \/ Goto(c, "open") /\ UNCHANGED <<op, about, why, news>>
      \/ Goto(c, "close") /\ UNCHANGED <<op, about, why, news>>
      \/ Done(c) /\ (UNCHANGED news \/ news' = news \ {about[c]})
  BY <1>1 DEF Finalize, AfterEnd, Ops
<1>3. TypeOK' /\ "open" \in Steps /\ "close" \in Steps
  BY <1>1, <1>2 DEF IInv, TypeOK, Finalize, Done, Goto, Steps, Ops, bounds
<1>4. UNCHANGED <<room, status, reason, media, outlived>> /\ at[c] = "tally"
  BY DEF Finalize
<1>5. CASE Done(c)
  BY <1>2, <1>3, <1>4, <1>5, DoneIInv
<1>6. CASE Goto(c, "open") /\ UNCHANGED <<op, about, why, news>>
  BY <1>3, <1>4, <1>6, MoveIInv
<1>7. CASE Goto(c, "close") /\ UNCHANGED <<op, about, why, news>>
  BY <1>3, <1>4, <1>7, MoveIInv
<1> QED BY <1>2, <1>5, <1>6, <1>7

LEMMA CountMeetingIInv ==
  ASSUME IInv, NEW c \in Calls, CountMeeting(c)
  PROVE  IInv'
<1>1. counted' \in Nat
  BY DEF IInv, TypeOK, CountMeeting
<1>2. TypeOK'
  BY <1>1 DEF IInv, TypeOK, CountMeeting, Done, Goto, Steps, Ops, livekit, bounds
<1> QED BY <1>2, DoneIInv DEF CountMeeting, livekit

LEMMA MarkDissolvedIInv ==
  ASSUME IInv, NEW c \in Calls, MarkDissolved(c)
  PROVE  IInv'
<1> USE DEF IInv, Goto, livekit, bounds
<1>1. TypeOK'
  BY DEF TypeOK, MarkDissolved, Steps
<1>2. CallInv' /\ IdInv' /\ HealInv'
  BY DEF TypeOK, MarkDissolved, CallInv, IdInv, HealInv, Holding
<1>3. MediaInv' /\ OneActive' /\ HealsOnlyClosedRooms' /\ EmptyOnlyBeforeDissolution'
  BY DEF TypeOK, MarkDissolved, MediaInv, OneActive, Active, HealsOnlyClosedRooms,
         EmptyOnlyBeforeDissolution
<1> QED BY <1>1, <1>2, <1>3

LEMMA FailIInv ==
  ASSUME IInv, NEW c \in Calls, Fail(c)
  PROVE  IInv'
<1> USE DEF docs, livekit
<1>1. failures' \in Nat
  BY DEF IInv, TypeOK, Fail
<1>2. TypeOK' /\ "undo" \in Steps /\ "close" \in Steps
  BY <1>1 DEF IInv, TypeOK, Fail, Caught, Done, Goto, Steps, Ops
<1>3. CASE Done(c)
  BY <1>2, <1>3, DoneIInv DEF Fail
<1>4. CASE Caught(c) /\ UNCHANGED <<op, about, why>>
  BY <1>2, <1>4, MoveIInv DEF Fail, Caught
<1> QED BY <1>3, <1>4 DEF Fail

LEMMA NextIInv ==
  ASSUME IInv, [Next]_vars
  PROVE  IInv'
<1>1. Requests \subseteq Calls /\ Hooks \subseteq Calls
  BY DEF Calls
<1>2. {"find", "mark", "exists", "end", "reason"} \subseteq Steps
      /\ {"start", "join", "end", "dissolve", "hook"} \subseteq Ops /\ "HOST_ENDED" \in Reasons
  BY DEF Steps, Ops, Reasons
<1>3. ASSUME NEW c \in Requests, StartMeeting(c) \/ DissolveRoom(c) PROVE IInv'
  BY <1>1, <1>2, <1>3, BeginIInv DEF StartMeeting, DissolveRoom
<1>4. ASSUME NEW c \in Requests, NEW m \in Meetings, JoinMeeting(c, m) \/ EndByHost(c, m)
      PROVE  IInv'
  <2>1. c \in Calls /\ m \in Meetings \cup {NoMeeting} /\ status[m] # "none"
    BY <1>1, <1>4 DEF JoinMeeting, EndByHost
  <2>2. CASE JoinMeeting(c, m)
    <3>1. Begin(c, "join", "exists", m, NoReason)
      BY <2>2 DEF JoinMeeting
    <3>2. "join" \in Ops /\ "exists" \in Steps /\ NoReason \in Reasons \cup {NoReason}
      BY <1>2
    <3>3. m \in Meetings
      BY <1>4
    <3> QED BY <2>1, <3>1, <3>2, <3>3, BeginIInv
  <2>3. CASE EndByHost(c, m)
    <3>1. Begin(c, "end", "end", m, "HOST_ENDED")
      BY <2>3 DEF EndByHost
    <3>2. "end" \in Ops /\ "end" \in Steps /\ "HOST_ENDED" \in Reasons \cup {NoReason}
      BY <1>2
    <3>3. m \in Meetings
      BY <1>4
    <3> QED BY <2>1, <3>1, <3>2, <3>3, BeginIInv
  <2> QED BY <1>4, <2>2, <2>3
<1>5. ASSUME NEW c \in Hooks, NEW m \in Meetings, RoomFinished(c, m) PROVE IInv'
  <2>1. CASE status[m] # "none"
    BY <1>1, <1>2, <1>5, <2>1, BeginIInv DEF RoomFinished
  <2>2. CASE status[m] = "none"
    BY <1>5, <2>2 DEF RoomFinished, IInv, TypeOK, CallInv, IdInv, HealInv, MediaInv, OneActive,
       Active, HealsOnlyClosedRooms, EmptyOnlyBeforeDissolution, docs, local, bounds
  <2> QED BY <2>1, <2>2
<1>6. ASSUME NEW c \in Calls, Step(c) PROVE IInv'
  BY <1>6, FindActiveIInv, RoomExistsIInv, SystemEndReasonIInv, EndMeetingIInv, CloseBoardIInv,
     FinalizeIInv, CreateMediaRoomIInv, CreateMeetingIInv, CountMeetingIInv, CloseRoomIInv,
     MarkDissolvedIInv DEF Step, EndSteps
<1>7. ASSUME NEW c \in Calls, Fail(c) PROVE IInv'
  BY <1>7, FailIInv
<1>8. ASSUME NEW m \in Meetings, MediaCloses(m) \/ MediaDies(m) PROVE IInv'
  <2>1. lost \in Nat /\ failures \in Nat
    BY DEF IInv, TypeOK
  <2>2. CASE MediaCloses(m)
    BY <2>1, <2>2, MediaClosedIInv DEF MediaCloses, CloseMedia, bounds
  <2>3. CASE MediaDies(m)
    <3>1. lost' \in Nat /\ failures' \in Nat /\ news' \subseteq news \cup {m}
      BY <2>1, <2>3 DEF MediaDies
    <3>2. media' = [media EXCEPT ![m] = "closed"] /\ UNCHANGED <<docs, boards, local, outlived>>
      BY <2>3 DEF MediaDies
    <3>3. m \in Meetings /\ media[m] = "open"
      BY <1>8, <2>3 DEF MediaDies
    <3> QED BY <3>1, <3>2, <3>3, MediaClosedIInv
  <2> QED BY <1>8, <2>2, <2>3
<1>9. ASSUME NEW m \in Meetings, NewsLost(m) PROVE IInv'
  <2>1. lost' \in Nat
    BY <1>9 DEF IInv, TypeOK, NewsLost
  <2> QED
    BY <1>9, <2>1 DEF NewsLost, IInv, TypeOK, CallInv, IdInv, HealInv, MediaInv, OneActive,
       Active, HealsOnlyClosedRooms, EmptyOnlyBeforeDissolution, docs, local
<1>10. CASE UNCHANGED vars
  BY <1>10 DEF vars, IInv, TypeOK, CallInv, IdInv, HealInv, MediaInv, OneActive,
     Active, HealsOnlyClosedRooms, EmptyOnlyBeforeDissolution
<1> QED BY <1>3, <1>4, <1>5, <1>6, <1>7, <1>8, <1>9, <1>10 DEF Next

-----------------------------------------------------------------------------
\* Types, and an end reason for the ended meetings only.
THEOREM TypeCorrect == Spec => []TypeOK
<1>1. IInv => TypeOK
  BY DEF IInv
<1> QED BY <1>1, InitIInv, NextIInv, PTL DEF Spec

\* Self-healing and room_finished only ever end meetings whose media room
\* LiveKit has closed, for any number of starts, joins and dissolutions at once.
THEOREM HealCorrect == Spec => []HealsOnlyClosedRooms
<1>1. IInv => HealsOnlyClosedRooms
  BY DEF IInv
<1> QED BY <1>1, InitIInv, NextIInv, PTL DEF Spec

\* A meeting people were still in when the room was dissolved never ends as
\* empty.
THEOREM EmptyCorrect == Spec => []EmptyOnlyBeforeDissolution
<1>1. IInv => EmptyOnlyBeforeDissolution
  BY DEF IInv
<1> QED BY <1>1, InitIInv, NextIInv, PTL DEF Spec

-----------------------------------------------------------------------------
(* What a step may do to the documents *)

\* A step starts a meeting, ends one, settles one, or leaves all three alone.
LEMMA DocStep ==
  ASSUME IInv, [Next]_vars
  PROVE  \/ UNCHANGED <<status, reason, tallied>>
         \/ \E c \in Calls : CreateMeeting(c) \/ EndMeeting(c) \/ Finalize(c)
<1> USE DEF docs, bounds, livekit
<1>1. ASSUME NEW c \in Calls, NEW m \in Meetings,
             StartMeeting(c) \/ DissolveRoom(c) \/ JoinMeeting(c, m) \/ EndByHost(c, m)
               \/ RoomFinished(c, m)
      PROVE  UNCHANGED <<status, reason, tallied>>
  BY <1>1 DEF StartMeeting, DissolveRoom, JoinMeeting, EndByHost, RoomFinished, Begin
<1>2. ASSUME NEW c \in Calls, StartMeeting(c) \/ DissolveRoom(c)
      PROVE  UNCHANGED <<status, reason, tallied>>
  BY <1>2 DEF StartMeeting, DissolveRoom, Begin
<1>3. ASSUME NEW c \in Calls,
             FindActive(c) \/ RoomExists(c) \/ SystemEndReason(c) \/ CloseBoard(c)
               \/ CreateMediaRoom(c) \/ CountMeeting(c) \/ CloseRoom(c) \/ MarkDissolved(c) \/ Fail(c)
      PROVE  UNCHANGED <<status, reason, tallied>>
  BY <1>3 DEF FindActive, RoomExists, SystemEndReason, CloseBoard, CreateMediaRoom,
     CountMeeting, CloseRoom, MarkDissolved, Fail
<1>4. ASSUME NEW m \in Meetings, MediaCloses(m) \/ MediaDies(m) \/ NewsLost(m)
      PROVE  UNCHANGED <<status, reason, tallied>>
  BY <1>4 DEF MediaCloses, MediaDies, NewsLost
<1>5. UNCHANGED vars => UNCHANGED <<status, reason, tallied>>
  BY DEF vars
<1> QED BY <1>1, <1>2, <1>3, <1>4, <1>5 DEF Next, Step, EndSteps, Calls

\* The end of a meeting stands, whoever else tries to end it.
THEOREM EndCorrect == Spec => EndStands
<1>1. IInv /\ [Next]_vars =>
        [\A m \in Meetings :
           status[m] = "ENDED" => status'[m] = "ENDED" /\ reason'[m] = reason[m]]_vars
  <2> SUFFICES ASSUME IInv, [Next]_vars, NEW m \in Meetings, status[m] = "ENDED"
               PROVE  status'[m] = "ENDED" /\ reason'[m] = reason[m]
    OBVIOUS
  <2>1. status \in [Meetings -> {"none", "ACTIVE", "ENDED"}] /\ reason \in [Meetings -> Reasons \cup {NoReason}]
    BY DEF IInv, TypeOK
  <2>2. ASSUME NEW c \in Calls, CreateMeeting(c)
        PROVE  status'[m] = "ENDED" /\ reason'[m] = reason[m]
    BY <2>1, <2>2 DEF CreateMeeting, IInv, CallInv
  <2>3. ASSUME NEW c \in Calls, EndMeeting(c)
        PROVE  status'[m] = "ENDED" /\ reason'[m] = reason[m]
    BY <2>1, <2>3 DEF EndMeeting, Active
  <2>4. ASSUME NEW c \in Calls, Finalize(c)
        PROVE  status'[m] = "ENDED" /\ reason'[m] = reason[m]
    BY <2>4 DEF Finalize
  <2> QED BY <2>2, <2>3, <2>4, DocStep
<1> QED BY <1>1, InitIInv, NextIInv, PTL DEF Spec, EndStands

-----------------------------------------------------------------------------
(* The figure of the room *)

\* What one step does to the documents, the starts about to count and the figure.
CountStep ==
  \/ Made' = Made /\ Due' = Due /\ counted' = counted /\ failures' \in {failures, failures + 1}
  \/ /\ \E m \in Meetings \ Made : Made' = Made \cup {m}
     /\ \E c \in Calls \ Due : Due' = Due \cup {c}
     /\ UNCHANGED <<counted, failures>>
  \/ /\ \E c \in Due : Due' = Due \ {c}
     /\ Made' = Made
     /\ \/ counted' = counted + 1 /\ failures' = failures
        \/ counted' = counted /\ failures' = failures + 1

LEMMA NextCounts ==
  ASSUME IInv, [Next]_vars
  PROVE  CountStep
<1> USE DEF docs, livekit, bounds, Made, Due
<1>1. TypeOK /\ Requests \subseteq Calls /\ Hooks \subseteq Calls
  BY DEF IInv, Calls
<1>2. ASSUME NEW c \in Calls, NEW o, NEW step \in {"find", "mark", "exists", "end", "reason"},
             NEW m, NEW r, Begin(c, o, step, m, r)
      PROVE  CountStep
  BY <1>1, <1>2 DEF Begin, Goto, TypeOK, CountStep
<1>3. ASSUME NEW c \in Requests, StartMeeting(c) \/ DissolveRoom(c) PROVE CountStep
  BY <1>1, <1>2, <1>3 DEF StartMeeting, DissolveRoom
<1>4. ASSUME NEW c \in Requests, NEW m \in Meetings, JoinMeeting(c, m) \/ EndByHost(c, m)
      PROVE  CountStep
  BY <1>1, <1>2, <1>4 DEF JoinMeeting, EndByHost
<1>5. ASSUME NEW c \in Hooks, NEW m \in Meetings, RoomFinished(c, m) PROVE CountStep
  <2>1. CASE status[m] = "none"
    BY <1>5, <2>1 DEF RoomFinished, local, CountStep
  <2>2. CASE status[m] # "none"
    BY <1>1, <1>2, <1>5, <2>2 DEF RoomFinished
  <2> QED BY <2>1, <2>2
<1>6. ASSUME NEW c \in Calls,
             FindActive(c) \/ RoomExists(c) \/ SystemEndReason(c) \/ CreateMediaRoom(c)
               \/ CloseRoom(c) \/ MarkDissolved(c)
      PROVE  CountStep
  <2>1. Made' = Made /\ UNCHANGED <<counted, failures>>
    BY <1>6 DEF FindActive, RoomExists, SystemEndReason, CreateMediaRoom, CloseRoom, MarkDissolved
  <2>2. \E step \in {"idle", "exists", "end", "open", "reason", "create", "find"} :
          at' = [at EXCEPT ![c] = step]
    BY <1>6 DEF FindActive, RoomExists, SystemEndReason, CreateMediaRoom, CloseRoom,
       MarkDissolved, Done, Goto
  <2>3. at[c] # "count"
    BY <1>6 DEF FindActive, RoomExists, SystemEndReason, CreateMediaRoom, CloseRoom, MarkDissolved
  <2>4. Due' = Due
    BY <1>1, <2>2, <2>3 DEF TypeOK
  <2> QED BY <2>1, <2>4 DEF CountStep
<1>7. ASSUME NEW c \in Calls, EndMeeting(c) PROVE CountStep
  <2>1. Made' = Made
    BY <1>1, <1>7 DEF EndMeeting, TypeOK, Active
  <2>2. Due' = Due
    BY <1>1, <1>7 DEF EndMeeting, TypeOK, Goto
  <2> QED BY <1>7, <2>1, <2>2 DEF EndMeeting, CountStep
<1>8. ASSUME NEW c \in Calls, CloseBoard(c) PROVE CountStep
  BY <1>1, <1>8 DEF CloseBoard, TypeOK, Goto, CountStep
<1>9. ASSUME NEW c \in Calls, Finalize(c) PROVE CountStep
  <2>1. op[c] \in Ops
    BY <1>1 DEF TypeOK
  <2>2. \E step \in {"open", "close", "idle"} : at' = [at EXCEPT ![c] = step]
    BY <1>9, <2>1 DEF Finalize, AfterEnd, Ops, Done, Goto
  <2>3. Due' = Due
    BY <1>1, <1>9, <2>2 DEF TypeOK, Finalize
  <2> QED BY <1>9, <2>3 DEF Finalize, CountStep
<1>10. ASSUME NEW c \in Calls, CreateMeeting(c) PROVE CountStep
  <2>1. about[c] \in Meetings \ Made
    BY <1>10 DEF CreateMeeting, IInv, CallInv
  <2>2. CASE Active = {}
    <3>1. Made' = Made \cup {about[c]}
      BY <1>1, <1>10, <2>1, <2>2 DEF CreateMeeting, TypeOK
    <3>2. Due' = Due \cup {c} /\ c \notin Due
      BY <1>1, <1>10, <2>2 DEF CreateMeeting, TypeOK, Goto
    <3> QED BY <1>10, <2>1, <3>1, <3>2 DEF CreateMeeting, CountStep
  <2>3. CASE Active # {}
    BY <1>1, <1>10, <2>3 DEF CreateMeeting, TypeOK, Goto, CountStep
  <2> QED BY <2>2, <2>3
<1>11. ASSUME NEW c \in Calls, CountMeeting(c) PROVE CountStep
  <2>1. c \in Due /\ Due' = Due \ {c}
    BY <1>1, <1>11 DEF CountMeeting, TypeOK, Done, Goto
  <2> QED BY <1>11, <2>1 DEF CountMeeting, CountStep
<1>12. ASSUME NEW c \in Calls, Fail(c) PROVE CountStep
  <2>1. \E step \in {"undo", "close", "idle"} : at' = [at EXCEPT ![c] = step]
    BY <1>12 DEF Fail, Caught, Done, Goto
  <2>2. Due' = Due \ {c}
    BY <1>1, <2>1 DEF TypeOK
  <2>3. Due' = Due \/ c \in Due
    BY <2>2
  <2> QED BY <1>12, <2>2, <2>3 DEF Fail, CountStep
<1>13. ASSUME NEW m \in Meetings, MediaCloses(m) \/ MediaDies(m) \/ NewsLost(m) PROVE CountStep
  BY <1>13 DEF MediaCloses, MediaDies, NewsLost, local, CountStep
<1>14. CASE UNCHANGED vars
  BY <1>14 DEF vars, CountStep
<1> QED BY <1>3, <1>4, <1>5, <1>6, <1>7, <1>8, <1>9, <1>10, <1>11, <1>12, <1>13, <1>14
        DEF Next, Step, EndSteps

LEMMA CountStepKeeps ==
  ASSUME TypeOK, MeetingsCountedOnce, CountStep
  PROVE  MeetingsCountedOnce'
<1>1. IsFiniteSet(Calls) /\ IsFiniteSet(Meetings)
  BY FiniteAssumption, FS_Union DEF Calls
<1>2. Made \subseteq Meetings /\ Due \subseteq Calls
  BY DEF Made, Due
<1>3. IsFiniteSet(Made) /\ IsFiniteSet(Due)
  BY <1>1, <1>2, FS_Subset
<1>4. Cardinality(Made) \in Nat /\ Cardinality(Due) \in Nat /\ counted \in Nat /\ failures \in Nat
  BY <1>3, FS_CardinalityType DEF TypeOK
<1>5. CASE Made' = Made /\ Due' = Due /\ counted' = counted /\ failures' \in {failures, failures + 1}
  BY <1>4, <1>5 DEF MeetingsCountedOnce
<1>6. ASSUME NEW m \in Meetings \ Made, Made' = Made \cup {m},
             NEW c \in Calls \ Due, Due' = Due \cup {c}, UNCHANGED <<counted, failures>>
      PROVE  MeetingsCountedOnce'
  <2>1. Cardinality(Made') = Cardinality(Made) + 1
    BY <1>3, <1>6, FS_AddElement
  <2>2. Cardinality(Due') = Cardinality(Due) + 1
    BY <1>3, <1>6, FS_AddElement
  <2> QED BY <1>4, <1>6, <2>1, <2>2 DEF MeetingsCountedOnce
<1>7. ASSUME NEW c \in Due, Due' = Due \ {c}, Made' = Made,
             \/ counted' = counted + 1 /\ failures' = failures
             \/ counted' = counted /\ failures' = failures + 1
      PROVE  MeetingsCountedOnce'
  <2>1. Cardinality(Due') = Cardinality(Due) - 1
    BY <1>3, <1>7, FS_RemoveElement
  <2> QED BY <1>4, <1>7, <2>1 DEF MeetingsCountedOnce
<1> QED BY <1>5, <1>6, <1>7 DEF CountStep

\* The figure of the room counts every meeting once, or not at all when its
\* start failed before, for any number of starts and ends at the same time.
THEOREM CountedCorrect == Spec => []MeetingsCountedOnce
<1>1. Init => MeetingsCountedOnce
  <2> SUFFICES ASSUME Init PROVE MeetingsCountedOnce
    OBVIOUS
  <2>1. Made = {} /\ Due = {}
    BY DEF Init, Made, Due
  <2> QED BY <2>1, FS_EmptySet DEF Init, MeetingsCountedOnce
<1>2. IInv /\ MeetingsCountedOnce /\ [Next]_vars => MeetingsCountedOnce'
  BY NextCounts, CountStepKeeps DEF IInv
<1> QED BY <1>1, <1>2, InitIInv, NextIInv, PTL DEF Spec

-----------------------------------------------------------------------------
(* The lifecycle *)

\* The running meeting of the mapping.
Running == IF Active = {} THEN NoMeeting ELSE CHOOSE m \in Active : TRUE

LEMMA LifecycleStep ==
  ASSUME IInv, IInv', [Next]_vars
  PROVE  [Lifecycle!LifeNext]_(Lifecycle!lifeVars)
<1> USE DEF Lifecycle!lifeVars
<1>1. /\ status \in [Meetings -> {"none", "ACTIVE", "ENDED"}]
      /\ reason \in [Meetings -> Reasons \cup {NoReason}]
      /\ \A m \in Meetings : status[m] = "ENDED" <=> reason[m] # NoReason
      /\ \A m, n \in Active : m = n
      /\ NoMeeting \notin Meetings
  BY CallsAssumption DEF IInv, TypeOK, OneActive
<1>2. CASE UNCHANGED <<status, reason, tallied>>
  BY <1>2 DEF Active
<1>3. ASSUME NEW c \in Calls, CreateMeeting(c), ~UNCHANGED <<status, reason, tallied>>
      PROVE  Lifecycle!LifeNext
  <2>1. about[c] \in Meetings /\ status[about[c]] = "none" /\ Active = {}
    BY <1>3 DEF CreateMeeting, IInv, CallInv
  <2>2. Active' = {about[c]} /\ UNCHANGED <<reason, tallied>>
    BY <1>1, <1>3, <2>1 DEF CreateMeeting, Active
  <2>3. reason[about[c]] = NoReason
    BY <1>1, <2>1
  <2>4. Lifecycle!Begin(about[c])
    BY <2>1, <2>2, <2>3 DEF Lifecycle!Begin
  <2> QED BY <2>1, <2>4 DEF Lifecycle!LifeNext
<1>4. ASSUME NEW c \in Calls, EndMeeting(c), ~UNCHANGED <<status, reason, tallied>>
      PROVE  Lifecycle!LifeNext
  <2>1. about[c] \in Active /\ why[c] \in Reasons /\ about[c] \in Meetings
    BY <1>4 DEF EndMeeting, IInv, CallInv, Active
  <2>2. Active = {about[c]}
    BY <1>1, <2>1
  <2>3. Active' = {} /\ reason' = [reason EXCEPT ![about[c]] = why[c]] /\ UNCHANGED tallied
    BY <1>1, <1>4, <2>1, <2>2 DEF EndMeeting, Active
  <2>4. Lifecycle!Finish(about[c], why[c])
    BY <1>1, <2>1, <2>2, <2>3 DEF Lifecycle!Finish
  <2> QED BY <2>1, <2>4 DEF Lifecycle!LifeNext
<1>5. ASSUME NEW c \in Calls, Finalize(c)
      PROVE  Lifecycle!LifeNext
  <2>1. about[c] \in Meetings /\ reason[about[c]] # NoReason
    BY <1>1, <1>5 DEF Finalize, IInv, CallInv, Holding
  <2>2. UNCHANGED <<status, reason>> /\ tallied' = tallied \cup {about[c]}
    BY <1>5 DEF Finalize
  <2>3. Lifecycle!Settle(about[c])
    BY <2>1, <2>2 DEF Lifecycle!Settle, Active
  <2> QED BY <2>1, <2>3 DEF Lifecycle!LifeNext
<1> QED BY <1>2, <1>3, <1>4, <1>5, DocStep

\* The requests, webhooks and repairs of one room together are a sequence of
\* meetings, one at a time, each ended once and settled after its end.
THEOREM LifecycleRefinement == Spec => ImplementsLifecycle
<1>1. Init => Lifecycle!LifeInit
  BY DEF Init, Active, Lifecycle!LifeInit
<1>2. IInv /\ IInv' /\ [Next]_vars => [Lifecycle!LifeNext]_(Lifecycle!lifeVars)
  BY LifecycleStep
<1> QED BY <1>1, <1>2, InitIInv, NextIInv, PTL DEF Spec, ImplementsLifecycle, Lifecycle!LifeSpec

-----------------------------------------------------------------------------
(* When all is quiet *)

\* A spare media room is nobody's: a failed start closes no other start's room.
UndoInv ==
  \A c, d \in Calls : at[c] = "undo" =>
    /\ media[about[c]] # "none"
    /\ at[d] = "create" => about[c] # about[d]

\* As long as LiveKit loses nothing, a document is only written while its
\* media room is open, ...
CreateInv == \A c \in Calls : at[c] = "create" => media[about[c]] = "open"

\* ... and a meeting with work left to do has its media room open, or a
\* room_finished that will be delivered again until the work is done.
ReportInv ==
  \A m \in Meetings :
    status[m] = "ACTIVE" \/ (status[m] = "ENDED" /\ m \notin tallied) =>
      media[m] = "open" \/ m \in news

SettleInv == UndoInv /\ (lost = 0 => CreateInv /\ ReportInv)

LEMMA InitSettle == Init => SettleInv
BY DEF Init, SettleInv, UndoInv, CreateInv, ReportInv

\* Steps of a call that touch neither the documents nor LiveKit, and bring no
\* call to "create" or, but from there, to "undo".
LEMMA CallSettle ==
  ASSUME IInv, SettleInv, UNCHANGED <<status, tallied, media, news, lost>>,
         \A c \in Calls : at'[c] \in {"create", "undo"} =>
           /\ about'[c] = about[c]
           /\ at[c] = at'[c] \/ (at[c] = "create" /\ at'[c] = "undo")
  PROVE  SettleInv'
<1>1. UndoInv'
  BY DEF SettleInv, UndoInv, IInv, IdInv, CallInv
<1>2. lost' = 0 => CreateInv' /\ ReportInv'
  BY DEF SettleInv, CreateInv, ReportInv
<1> QED BY <1>1, <1>2 DEF SettleInv

LEMMA BeginSettle ==
  ASSUME IInv, SettleInv, NEW c \in Calls, NEW o, NEW step \in Steps \ {"create", "undo"},
         NEW m, NEW r, Begin(c, o, step, m, r)
  PROVE  SettleInv'
<1>1. \A d \in Calls : at'[d] \in {"create", "undo"} => about'[d] = about[d] /\ at[d] = at'[d]
  BY DEF IInv, TypeOK, Begin, Goto
<1>2. UNCHANGED <<status, tallied, media, news, lost>>
  BY DEF Begin, docs, livekit, bounds
<1> QED BY <1>1, <1>2, CallSettle

LEMMA StepSettle ==
  ASSUME IInv, SettleInv, NEW c \in Calls,
         \/ FindActive(c) \/ RoomExists(c) \/ SystemEndReason(c) \/ CloseBoard(c)
         \/ CountMeeting(c) \/ MarkDissolved(c) \/ Fail(c)
  PROVE  SettleInv'
<1> USE DEF Goto, Done, Caught
<1>1. UNCHANGED <<status, tallied, media, news, lost>>
  BY DEF FindActive, RoomExists, SystemEndReason, CloseBoard, CountMeeting, MarkDissolved, Fail,
     docs, livekit, bounds
<1>2. ASSUME NEW d \in Calls, at'[d] \in {"create", "undo"}
      PROVE  /\ about'[d] = about[d]
             /\ at[d] = at'[d] \/ (at[d] = "create" /\ at'[d] = "undo")
  BY <1>2 DEF IInv, TypeOK, FindActive, RoomExists, SystemEndReason, CloseBoard, CountMeeting,
     MarkDissolved, Fail
<1> QED BY <1>1, <1>2, CallSettle

\* The media room before the document.
LEMMA CreateMediaRoomSettle ==
  ASSUME IInv, SettleInv, NEW c \in Calls, CreateMediaRoom(c)
  PROVE  SettleInv'
<1> USE DEF Goto, docs, bounds
<1>1. PICK m \in Meetings :
        /\ media[m] = "none"
        /\ media' = [media EXCEPT ![m] = "open"]
        /\ about' = [about EXCEPT ![c] = m]
  BY DEF CreateMediaRoom
<1>2. at' = [at EXCEPT ![c] = "create"] /\ UNCHANGED <<status, tallied, news, lost>>
  BY DEF CreateMediaRoom
<1>3. \A d \in Calls : at[d] = "create" => about[d] \in Meetings /\ about[d] # m
  BY <1>1 DEF IInv, CallInv
<1>4. UndoInv'
  BY <1>1, <1>2, <1>3 DEF IInv, TypeOK, SettleInv, UndoInv
<1>5. lost' = 0 => CreateInv' /\ ReportInv'
  BY <1>1, <1>2, <1>3 DEF IInv, TypeOK, SettleInv, CreateInv, ReportInv
<1> QED BY <1>4, <1>5 DEF SettleInv

LEMMA CreateMeetingSettle ==
  ASSUME IInv, SettleInv, NEW c \in Calls, CreateMeeting(c)
  PROVE  SettleInv'
<1> USE DEF Goto, livekit, bounds
<1>1. /\ at[c] = "create" /\ about[c] \in Meetings
      /\ UNCHANGED <<tallied, media, news, about, lost>>
      /\ \/ status' = [status EXCEPT ![about[c]] = "ACTIVE"] /\ at' = [at EXCEPT ![c] = "count"]
         \/ UNCHANGED status /\ at' = [at EXCEPT ![c] = "undo"]
  BY DEF CreateMeeting, IInv, CallInv
<1>2. UndoInv'
  BY <1>1 DEF IInv, TypeOK, CallInv, IdInv, SettleInv, UndoInv
<1>3. lost' = 0 => CreateInv' /\ ReportInv'
  BY <1>1 DEF IInv, TypeOK, SettleInv, CreateInv, ReportInv
<1> QED BY <1>2, <1>3 DEF SettleInv

\* The end of a meeting leaves it to be settled, ...
LEMMA EndMeetingSettle ==
  ASSUME IInv, SettleInv, NEW c \in Calls, EndMeeting(c)
  PROVE  SettleInv'
<1> USE DEF Goto, livekit, bounds
<1>1. /\ at' = [at EXCEPT ![c] = "board"] /\ UNCHANGED <<tallied, media, news, about, lost>>
      /\ \A m \in Meetings : status'[m] # status[m] => status[m] = "ACTIVE"
  BY DEF EndMeeting, IInv, TypeOK, Active
<1>2. UndoInv'
  BY <1>1 DEF IInv, TypeOK, SettleInv, UndoInv
<1>3. lost' = 0 => CreateInv'
  BY <1>1 DEF IInv, TypeOK, SettleInv, CreateInv
<1>4. ASSUME lost' = 0 PROVE ReportInv'
  <2>1. lost = 0 /\ ReportInv
    BY <1>1, <1>4 DEF SettleInv
  <2>2. ASSUME NEW m \in Meetings, status'[m] # status[m] PROVE media[m] = "open" \/ m \in news
    BY <1>1, <2>1, <2>2 DEF ReportInv
  <2> QED BY <1>1, <2>1, <2>2 DEF ReportInv
<1> QED BY <1>2, <1>3, <1>4 DEF SettleInv

\* ... and the event is taken off LiveKit's hands after the figures are written.
LEMMA FinalizeSettle ==
  ASSUME IInv, SettleInv, NEW c \in Calls, Finalize(c)
  PROVE  SettleInv'
<1>1. /\ about[c] \in Meetings /\ status[about[c]] = "ENDED" /\ op[c] \in Ops
      /\ tallied' = tallied \cup {about[c]} /\ UNCHANGED <<status, media, lost>>
  BY DEF Finalize, IInv, TypeOK, CallInv, Holding, bounds
<1>2. /\ news \ {about[c]} \subseteq news' /\ news' \subseteq news
      /\ \A d \in Calls : at'[d] \in {"create", "undo"} => about'[d] = about[d] /\ at'[d] = at[d]
  BY <1>1 DEF Finalize, AfterEnd, Goto, Done, Ops, IInv, TypeOK
<1>3. UndoInv'
  BY <1>1, <1>2 DEF SettleInv, UndoInv
<1>4. lost' = 0 => CreateInv' /\ ReportInv'
  BY <1>1, <1>2 DEF SettleInv, CreateInv, ReportInv
<1> QED BY <1>3, <1>4 DEF SettleInv

\* A media room closes and LiveKit says so.
LEMMA MediaClosedSettle ==
  ASSUME IInv, SettleInv, NEW m \in Meetings, CloseMedia(m), UNCHANGED <<status, tallied, lost>>,
         \A c \in Calls : at[c] = "create" => about[c] # m,
         \A c \in Calls : at'[c] \in {"create", "undo"} => about'[c] = about[c] /\ at'[c] = at[c]
  PROVE  SettleInv'
<1>1. /\ \A n \in Meetings : n # m => media'[n] = media[n]
      /\ media'[m] # media[m] => media[m] = "open" /\ media'[m] = "closed" /\ m \in news'
      /\ news \subseteq news'
  BY DEF CloseMedia, IInv, TypeOK, livekit
<1>2. UndoInv'
  <2> SUFFICES ASSUME NEW c \in Calls, NEW d \in Calls, at'[c] = "undo"
               PROVE  /\ media'[about'[c]] # "none"
                      /\ at'[d] = "create" => about'[c] # about'[d]
    BY DEF UndoInv
  <2>1. at[c] = "undo" /\ about'[c] = about[c] /\ about[c] \in Meetings
    BY DEF IInv, CallInv
  <2> QED BY <1>1, <2>1 DEF SettleInv, UndoInv
<1>3. lost' = 0 => CreateInv'
  BY <1>1 DEF SettleInv, CreateInv, IInv, CallInv
<1>4. lost' = 0 => ReportInv'
  BY <1>1 DEF SettleInv, ReportInv
<1> QED BY <1>2, <1>3, <1>4 DEF SettleInv

LEMMA CloseRoomSettle ==
  ASSUME IInv, SettleInv, NEW c \in Calls, CloseRoom(c)
  PROVE  SettleInv'
<1>1. about[c] \in Meetings
  BY DEF CloseRoom, IInv, CallInv, Holding
<1>2. \A d \in Calls : at[d] = "create" => about[d] # about[c]
  BY DEF CloseRoom, IInv, CallInv, Holding, SettleInv, UndoInv
<1>3. \A d \in Calls : at'[d] \in {"create", "undo"} => about'[d] = about[d] /\ at'[d] = at[d]
  BY DEF CloseRoom, Done, Goto, IInv, TypeOK
<1>4. CloseMedia(about[c]) /\ UNCHANGED <<status, tallied, lost>>
  BY DEF CloseRoom, docs, bounds
<1> QED BY <1>1, <1>2, <1>3, <1>4, MediaClosedSettle

LEMMA NextSettle ==
  ASSUME IInv, SettleInv, [Next]_vars
  PROVE  SettleInv'
<1>1. Requests \subseteq Calls /\ Hooks \subseteq Calls
      /\ {"find", "mark", "exists", "end", "reason"} \subseteq Steps \ {"create", "undo"}
  BY DEF Calls, Steps
<1>2. ASSUME NEW c \in Requests, StartMeeting(c) \/ DissolveRoom(c) PROVE SettleInv'
  BY <1>1, <1>2, BeginSettle DEF StartMeeting, DissolveRoom
<1>3. ASSUME NEW c \in Requests, NEW m \in Meetings, JoinMeeting(c, m) \/ EndByHost(c, m)
      PROVE  SettleInv'
  BY <1>1, <1>3, BeginSettle DEF JoinMeeting, EndByHost
<1>4. ASSUME NEW c \in Hooks, NEW m \in Meetings, RoomFinished(c, m) PROVE SettleInv'
  <2>1. CASE status[m] # "none"
    BY <1>1, <1>4, <2>1, BeginSettle DEF RoomFinished
  <2>2. CASE status[m] = "none"
    <3>1. news' = news \ {m} /\ UNCHANGED <<status, tallied, media, at, about, lost>>
      BY <1>4, <2>2 DEF RoomFinished, docs, local, bounds
    <3> QED BY <2>2, <3>1 DEF SettleInv, UndoInv, CreateInv, ReportInv
  <2> QED BY <2>1, <2>2
<1>5. ASSUME NEW c \in Calls, Step(c) PROVE SettleInv'
  BY <1>5, StepSettle, CreateMediaRoomSettle, CreateMeetingSettle, EndMeetingSettle,
     FinalizeSettle, CloseRoomSettle DEF Step, EndSteps
<1>6. ASSUME NEW c \in Calls, Fail(c) PROVE SettleInv'
  BY <1>6, StepSettle
<1>7. ASSUME NEW m \in Meetings, MediaCloses(m) PROVE SettleInv'
  <2>1. CloseMedia(m) /\ UNCHANGED <<status, tallied, lost, at, about>>
    BY <1>7 DEF MediaCloses, docs, local, bounds
  <2>2. \A c \in Calls : at[c] = "create" => about[c] # m
    BY <1>7 DEF MediaCloses
  <2> QED BY <2>1, <2>2, MediaClosedSettle
<1>8. ASSUME NEW m \in Meetings, MediaDies(m) \/ NewsLost(m) PROVE SettleInv'
  <2>1. lost' # 0 /\ UNCHANGED <<at, about>>
    BY <1>8 DEF MediaDies, NewsLost, IInv, TypeOK, local
  <2>2. \A n \in Meetings : media[n] # "none" => media'[n] # "none"
    BY <1>8 DEF MediaDies, NewsLost, IInv, TypeOK
  <2>3. \A c \in Calls : at[c] = "undo" => about[c] \in Meetings
    BY DEF IInv, CallInv
  <2> QED BY <2>1, <2>2, <2>3 DEF SettleInv, UndoInv
<1>9. CASE UNCHANGED vars
  BY <1>9 DEF vars, SettleInv, UndoInv, CreateInv, ReportInv
<1> QED BY <1>2, <1>3, <1>4, <1>5, <1>6, <1>7, <1>8, <1>9 DEF Next

THEOREM SettleInvariant == Spec => [](IInv /\ SettleInv)
BY InitIInv, InitSettle, NextIInv, NextSettle, PTL DEF Spec

\* An ended meeting has its statistics once all is quiet: as long as they are
\* missing, its media room is open or LiveKit still has its room_finished to
\* tell, and that event is only answered after finalize.
THEOREM TallyCorrect == Spec => []EndedIsTallied
<1>1. IInv /\ SettleInv => EndedIsTallied
  BY DEF SettleInv, ReportInv, EndedIsTallied, Quiet
<1> QED BY <1>1, SettleInvariant, PTL

\* A dissolved room keeps no running meeting once all is quiet, whichever
\* start came too late for the dissolution and whichever end failed in it.
THEOREM DissolveCorrect == Spec => []DissolvedRoomEnds
<1>1. IInv /\ SettleInv => DissolvedRoomEnds
  BY DEF SettleInv, ReportInv, DissolvedRoomEnds, Quiet
<1> QED BY <1>1, SettleInvariant, PTL

=============================================================================
