-------------------------- MODULE Presence_proofs --------------------------
(***************************************************************************)
(* Presence, sessions, peak, kicks and final figures of a meeting are right *)
(* for any number of users, connections, handlers, requests and faults.    *)
(*                                                                         *)
(* What is promised holds at rest; the inductive invariant says what holds *)
(* on the way there.  The queue keeps the order of what happened in the    *)
(* room, and what Mongo and Redis lack is what an event still in the queue, *)
(* the handler of the oldest one or a running request will set right.      *)
(***************************************************************************)
EXTENDS Presence, SequenceTheorems, FiniteSetTheorems, TLAPS

-----------------------------------------------------------------------------
(* Events and the queue *)

Joined(s) == Event("joined", s)
Left(s) == Event("left", s)
Finished == [type |-> "finished"]

\* The events of q behind its first k.
After(q, k) == {q[i] : i \in (k + 1)..Len(q)}

\* An event is a join, a leave or the end of the room, and tells which.
LEMMA JoinedIs ==
  ASSUME NEW s \in Sids
  PROVE  Joined(s) \in Events /\ Joined(s).type = "joined" /\ Joined(s).sid = s
BY DEF Joined, Event, Events

LEMMA LeftIs ==
  ASSUME NEW s \in Sids
  PROVE  Left(s) \in Events /\ Left(s).type = "left" /\ Left(s).sid = s
BY DEF Left, Event, Events

LEMMA FinishedIs == Finished \in Events /\ Finished.type = "finished"
BY DEF Finished, Events

LEMMA EventCases ==
  ASSUME NEW e \in Events
  PROVE  \/ e.sid \in Sids /\ e.type = "joined" /\ e = Joined(e.sid)
         \/ e.sid \in Sids /\ e.type = "left" /\ e = Left(e.sid)
         \/ e.type = "finished" /\ e = Finished
<1>1. CASE e \in [type : {"joined", "left"}, sid : Sids]
  BY <1>1 DEF Joined, Left, Event
<1>2. CASE e \in {[type |-> "finished"]}
  BY <1>2 DEF Finished
<1> QED BY <1>1, <1>2 DEF Events

\* An event put behind the others.
LEMMA QueueAppend ==
  ASSUME NEW S, NEW q \in Seq(S), NEW e \in S
  PROVE  /\ Append(q, e) \in Seq(S) /\ Append(q, e) # <<>>
         /\ Len(Append(q, e)) = Len(q) + 1
         /\ \A k \in 1..Len(q) : Append(q, e)[k] = q[k]
         /\ Append(q, e)[Len(q) + 1] = e
         /\ q # << >> => Append(q, e)[1] = q[1]
         /\ \A k \in 0..Len(q) : After(Append(q, e), k) = After(q, k) \cup {e}
         /\ After(Append(q, e), Len(q) + 1) = {}
<1>1. /\ Append(q, e) \in Seq(S) /\ Append(q, e) # <<>>
      /\ Len(Append(q, e)) = Len(q) + 1
      /\ \A k \in 1..Len(q) : Append(q, e)[k] = q[k]
      /\ Append(q, e)[Len(q) + 1] = e
  BY AppendProperties
<1>0. Len(q) \in Nat
  BY LenProperties
<1>2. ASSUME NEW k \in 0..Len(q)
      PROVE  After(Append(q, e), k) = After(q, k) \cup {e}
  <2> DEFINE a == Append(q, e)
  <2>1. ASSUME NEW x \in After(a, k)  PROVE x \in After(q, k) \cup {e}
    <3>1. PICK i \in (k + 1)..Len(a) : x = a[i]
      BY <2>1 DEF After
    <3>2. CASE i = Len(q) + 1
      BY <3>1, <3>2, <1>1
    <3>3. CASE i \in (k + 1)..Len(q)
      BY <3>1, <3>3, <1>0, <1>1 DEF After
    <3> QED BY <3>1, <3>2, <3>3, <1>0, <1>1
  <2>2. ASSUME NEW x \in After(q, k)  PROVE x \in After(a, k)
    <3>1. PICK i \in (k + 1)..Len(q) : x = q[i]
      BY <2>2 DEF After
    <3>2. a[i] = x /\ i \in (k + 1)..Len(a)
      BY <3>1, <1>0, <1>1
    <3> QED BY <3>2 DEF After
  <2>3. e \in After(a, k)
    <3>1. Len(q) + 1 \in (k + 1)..Len(a) /\ a[Len(q) + 1] = e
      BY <1>0, <1>1
    <3> QED BY <3>1 DEF After
  <2> QED BY <2>1, <2>2, <2>3
<1>3. After(Append(q, e), Len(q) + 1) = {}
  BY <1>0, <1>1 DEF After
<1>4. q # << >> => 1 \in 1..Len(q)
  BY <1>0, EmptySeq
<1> QED BY <1>1, <1>2, <1>3, <1>4

\* The oldest event taken away.
LEMMA QueueTail ==
  ASSUME NEW S, NEW q \in Seq(S), q # <<>>
  PROVE  /\ Tail(q) \in Seq(S) /\ q[1] \in S /\ Head(q) = q[1]
         /\ Len(q) \in Nat \ {0} /\ Len(Tail(q)) = Len(q) - 1
         /\ \A k \in 1..Len(Tail(q)) : Tail(q)[k] = q[k + 1]
         /\ \A k \in Nat : After(Tail(q), k) = After(q, k + 1)
         /\ After(q, 0) = {q[1]} \cup After(q, 1)
<1>1. /\ Tail(q) \in Seq(S) /\ q[1] \in S /\ Head(q) = q[1]
      /\ Len(q) \in Nat \ {0} /\ Len(Tail(q)) = Len(q) - 1
      /\ \A k \in 1..Len(Tail(q)) : Tail(q)[k] = q[k + 1]
  BY HeadTailProperties, LenProperties, EmptySeq, ElementOfSeq
<1>2. ASSUME NEW k \in Nat
      PROVE  After(Tail(q), k) = After(q, k + 1)
  <2> DEFINE t == Tail(q)
  <2>1. ASSUME NEW x \in After(t, k)  PROVE x \in After(q, k + 1)
    <3>1. PICK i \in (k + 1)..Len(t) : x = t[i]
      BY <2>1 DEF After
    <3>2. x = q[i + 1] /\ i + 1 \in ((k + 1) + 1)..Len(q)
      BY <3>1, <1>1
    <3> QED BY <3>2 DEF After
  <2>2. ASSUME NEW x \in After(q, k + 1)  PROVE x \in After(t, k)
    <3>1. PICK i \in ((k + 1) + 1)..Len(q) : x = q[i]
      BY <2>2 DEF After
    <3>2. i - 1 \in (k + 1)..Len(t) /\ (i - 1) + 1 = i /\ i - 1 \in 1..Len(t)
      BY <3>1, <1>1
    <3>3. x = t[i - 1]
      BY <3>1, <3>2, <1>1
    <3> QED BY <3>2, <3>3 DEF After
  <2> QED BY <2>1, <2>2
<1>3. After(q, 0) = {q[1]} \cup After(q, 1)
  <2>1. ASSUME NEW x \in After(q, 0)  PROVE x \in {q[1]} \cup After(q, 1)
    <3>1. PICK i \in (0 + 1)..Len(q) : x = q[i]
      BY <2>1 DEF After
    <3> QED BY <3>1, <1>1 DEF After
  <2>2. q[1] \in After(q, 0)
    <3>1. 1 \in (0 + 1)..Len(q)
      BY <1>1
    <3> QED BY <3>1 DEF After
  <2>3. ASSUME NEW x \in After(q, 1)  PROVE x \in After(q, 0)
    <3>1. PICK i \in (1 + 1)..Len(q) : x = q[i]
      BY <2>3 DEF After
    <3>2. i \in (0 + 1)..Len(q)
      BY <3>1, <1>1
    <3> QED BY <3>1, <3>2 DEF After
  <2> QED BY <2>1, <2>2, <2>3
<1> QED BY <1>1, <1>2, <1>3

LEMMA QueueEmpty == \A k \in Nat : After(<< >>, k) = {}
BY DEF After

-----------------------------------------------------------------------------
(* The calls *)

Here(s) == conn[s] \in {"in", "dropped"}
Member(c) == Owner[job[c].sid]

\* LiveKit waits for a handler that works on the oldest event.
SentInv ==
  sent # NoCall => /\ queue # << >>
                   /\ at[sent] # "idle"
                   /\ job[sent] = queue[1]

\* While no answer came too late, no other handler works.
AloneInv == timeouts = 0 => \A h \in Hooks : at[h] # "idle" => sent = h

\* Who takes which step, and for what.
Works(c) ==
  /\ at[c] \in JoinSteps =>
       c \in Hooks /\ job[c].sid \in Sids /\ job[c] = Joined(job[c].sid)
  /\ at[c] \in LeaveSteps =>
       c \in Hooks /\ job[c].sid \in Sids /\ job[c] = Left(job[c].sid)
  /\ at[c] \in {"end"} \cup FinalSteps => c \in Requests \/ job[c] = Finished
  /\ at[c] = "media" => c \in Requests
  /\ at[c] \in {"drop", "active", "eject"} => c \in Requests /\ job[c].user \in Users
WorkInv == \A c \in Calls : Works(c)

CallsInv == SentInv /\ AloneInv /\ WorkInv

\* A call that goes on to a step.
LEMMA GotoIs ==
  ASSUME TypeOK, NEW c \in Calls, NEW step \in Steps, Goto(c, step)
  PROVE  /\ at' \in [Calls -> Steps] /\ at'[c] = step
         /\ \A d \in Calls : d # c => at'[d] = at[d]
BY DEF TypeOK, Goto

\* A call that is over.
LEMMA ForgetIs ==
  ASSUME TypeOK, NEW c \in Calls, Forget(c)
  PROVE  /\ at' \in [Calls -> Steps] /\ job' \in [Calls -> Jobs]
         /\ seen' \in [Calls -> [docs : SUBSET Users, marks : [Sids -> Marks]]]
         /\ todo' \in [Calls -> SUBSET Users]
         /\ at'[c] = "idle" /\ todo'[c] = {}
         /\ \A d \in Calls : d # c => /\ at'[d] = at[d] /\ job'[d] = job[d]
                                      /\ seen'[d] = seen[d] /\ todo'[d] = todo[d]
<1>1. Nothing \in [docs : SUBSET Users, marks : [Sids -> Marks]]
  BY DEF Nothing, Marks
<1>2. NoJob \in Jobs /\ "idle" \in Steps
  BY DEF Jobs, Steps
<1>3. at' \in [Calls -> Steps] /\ at'[c] = "idle" /\ \A d \in Calls : d # c => at'[d] = at[d]
  BY <1>2, GotoIs DEF Forget
<1>4. job' \in [Calls -> Jobs] /\ \A d \in Calls : d # c => job'[d] = job[d]
  BY <1>2 DEF Forget, TypeOK
<1>5. /\ seen' \in [Calls -> [docs : SUBSET Users, marks : [Sids -> Marks]]]
      /\ \A d \in Calls : d # c => seen'[d] = seen[d]
  <2> HIDE DEF Nothing
  <2> QED BY <1>1 DEF Forget, TypeOK
<1>6. /\ todo' \in [Calls -> SUBSET Users] /\ todo'[c] = {}
      /\ \A d \in Calls : d # c => todo'[d] = todo[d]
  BY DEF Forget, TypeOK
<1> QED BY <1>3, <1>4, <1>5, <1>6

\* A call that is over and answered: the event is done with, if LiveKit waits.
LEMMA AnswerIs ==
  ASSUME TypeOK, SentInv, NEW c \in Calls, Answer(c)
  PROVE  /\ Forget(c)
         /\ queue' \in Seq(Events) /\ sent' \in Hooks \cup {NoCall}
         /\ \/ sent # c /\ queue' = queue /\ sent' = sent
            \/ /\ sent = c /\ queue # << >> /\ queue[1] = job[c]
               /\ queue' = Tail(queue) /\ sent' = NoCall
<1>1. CASE sent = c
  <2>1. c \in Hooks
    BY <1>1, CallsAssumption DEF Answer, TypeOK, Calls
  <2>1a. sent # NoCall
    BY <1>1, <2>1, CallsAssumption
  <2>2. queue # << >> /\ queue[1] = job[c]
    BY <1>1, <2>1a DEF SentInv
  <2>3. queue' = Tail(queue) /\ sent' = NoCall
    BY <1>1 DEF Answer
  <2>4. queue' \in Seq(Events)
    BY <2>2, <2>3, QueueTail DEF TypeOK
  <2> QED BY <1>1, <2>2, <2>3, <2>4 DEF Answer
<1>2. CASE sent # c
  BY <1>2 DEF Answer, TypeOK
<1> QED BY <1>1, <1>2

-----------------------------------------------------------------------------
(* Types *)

LEMMA TypeInit == Init => TypeOK
<1> SUFFICES ASSUME Init PROVE TypeOK
  OBVIOUS
<1>1. Cardinality(Users) \in Nat
  BY FiniteAssumption, FS_CardinalityType
<1>2. seen \in [Calls -> [docs : SUBSET Users, marks : [Sids -> Marks]]]
  <2>1. Nothing \in [docs : SUBSET Users, marks : [Sids -> Marks]]
    BY DEF Nothing, Marks
  <2> HIDE DEF Nothing
  <2> QED BY <2>1 DEF Init
<1>3. /\ at \in [Calls -> Steps] /\ job \in [Calls -> Jobs]
      /\ sessions \in [Sids -> Marks] /\ totals \in [Sids -> Marks]
      /\ todo \in [Calls -> SUBSET Users]
  BY DEF Init, Steps, Jobs, Marks
<1>4. queue \in Seq(Events) /\ docs \subseteq Users /\ presence \subseteq Users
      /\ members \subseteq Users /\ sent \in Hooks \cup {NoCall}
  BY EmptySeq DEF Init
<1>5. total \in 0..Cardinality(Users) /\ peak \in 0..Cardinality(Users)
  BY <1>1 DEF Init
<1>6. conn \in [Sids -> {"fresh", "in", "dropped", "gone"}]
  BY DEF Init
<1>7. /\ status \in {"ACTIVE", "ENDED"} /\ media \in {"open", "closing", "closed"}
      /\ crowd \in Nat /\ overlap \in BOOLEAN
      /\ asked \in Nat /\ timeouts \in Nat /\ failures \in Nat /\ lost \in Nat
  BY DEF Init
<1> QED BY <1>2, <1>3, <1>4, <1>5, <1>6, <1>7 DEF TypeOK

LEMMA TypeStep ==
  ASSUME TypeOK, SentInv, WorkInv, [Next]_vars
  PROVE  TypeOK'
<1>1. ASSUME NEW s \in Sids, Connect(s)
      PROVE  TypeOK'
  <2>1. conn' \in [Sids -> {"fresh", "in", "dropped", "gone"}]
    BY <1>1 DEF Connect, TypeOK
  <2>2. queue' \in Seq(Events)
    BY <1>1, JoinedIs, QueueAppend DEF Connect, TypeOK, Joined
  <2>3. crowd' \in Nat
    <3> DEFINE people == {Owner[t] : t \in {u \in Sids : conn'[u] \in {"in", "dropped"}}}
    <3>1. IsFiniteSet(people) /\ Cardinality(people) \in Nat
      <4>1. people \subseteq Users
        BY OwnerAssumption
      <4> QED BY <4>1, FiniteAssumption, FS_Subset, FS_CardinalityType
    <3> QED BY <1>1, <3>1 DEF Connect, TypeOK
  <2> QED BY <1>1, <2>1, <2>2, <2>3 DEF Connect, TypeOK, meeting, local, bounds
<1>2. ASSUME NEW s \in Sids, Leave(s)
      PROVE  TypeOK'
  <2>1. queue' \in Seq(Events)
    BY <1>2, LeftIs, QueueAppend DEF Leave, TypeOK, Left
  <2> QED BY <1>2, <2>1 DEF Leave, TypeOK, meeting, local, bounds
<1>3. ASSUME FinishRoom
      PROVE  TypeOK'
  <2>1. queue' \in Seq(Events)
    BY <1>3, FinishedIs, QueueAppend DEF FinishRoom, TypeOK, Finished
  <2> QED BY <1>3, <2>1 DEF FinishRoom, TypeOK, meeting, local, bounds
<1>4. ASSUME NEW h \in Hooks, Deliver(h)
      PROVE  TypeOK'
  <2>1. Head(queue) \in Events
    BY <1>4, QueueTail DEF Deliver, TypeOK
  <2>2. job' \in [Calls -> Jobs]
    BY <1>4, <2>1 DEF Deliver, TypeOK, Jobs
  <2>3. at' \in [Calls -> Steps]
    <3>1. CASE Head(queue).type = "joined"
      BY <1>4, <3>1 DEF Deliver, TypeOK, Steps, JoinSteps
    <3>2. CASE Head(queue).type = "left"
      BY <1>4, <3>2 DEF Deliver, TypeOK, Steps, LeaveSteps
    <3>3. CASE Head(queue).type = "finished"
      BY <1>4, <3>3 DEF Deliver, TypeOK, Steps
    <3> QED BY <2>1, <3>1, <3>2, <3>3, EventCases
  <2> QED BY <1>4, <2>2, <2>3 DEF Deliver, TypeOK, meeting, bounds
<1>5. ASSUME TimeOut
      PROVE  TypeOK'
  BY <1>5 DEF TimeOut, TypeOK, meeting, local
<1>6. ASSUME GiveUp
      PROVE  TypeOK'
  <2>1. queue' \in Seq(Events)
    BY <1>6, QueueTail DEF GiveUp, TypeOK
  <2> QED BY <1>6, <2>1 DEF GiveUp, TypeOK, meeting, local
<1>7. ASSUME NEW r \in Requests, EndByHost(r)
      PROVE  TypeOK'
  <2>1. at' \in [Calls -> Steps]
    BY <1>7, GotoIs DEF EndByHost, Steps, Calls
  <2>2. job' \in [Calls -> Jobs]
    BY <1>7 DEF EndByHost, TypeOK, Jobs
  <2> QED BY <1>7, <2>1, <2>2 DEF EndByHost, TypeOK, livekit, meeting
<1>8. ASSUME NEW r \in Requests, NEW u \in Users, Kick(r, u)
      PROVE  TypeOK'
  <2>1. at' \in [Calls -> Steps]
    BY <1>8, GotoIs DEF Kick, Steps, Calls
  <2>2. [type |-> "kick", user |-> u] \in Jobs
    BY DEF Jobs
  <2>3. job' \in [Calls -> Jobs]
    BY <1>8, <2>2 DEF Kick, TypeOK
  <2> QED BY <1>8, <2>1, <2>3 DEF Kick, TypeOK, livekit, meeting
<1>9. ASSUME NEW c \in Calls, FindMeeting(c)
      PROVE  TypeOK'
  <2>1. at' \in [Calls -> Steps]
    BY <1>9, GotoIs DEF FindMeeting, Steps, JoinSteps
  <2> QED BY <1>9, <2>1 DEF FindMeeting, TypeOK, livekit, meeting, bounds
<1>10. ASSUME NEW c \in Calls, CheckAccess(c)
      PROVE  TypeOK'
  <2>1. at' \in [Calls -> Steps]
    BY <1>10, GotoIs DEF CheckAccess, Steps, JoinSteps
  <2> QED BY <1>10, <2>1 DEF CheckAccess, TypeOK, livekit, meeting, bounds
<1>11. ASSUME NEW c \in Calls, RemoveIntruder(c)
      PROVE  TypeOK'
  <2>1. conn' \in [Sids -> {"fresh", "in", "dropped", "gone"}]
    BY <1>11 DEF RemoveIntruder, DropUser, TypeOK
  <2> QED BY <1>11, <2>1, AnswerIs, ForgetIs DEF RemoveIntruder, TypeOK, meeting, bounds
<1>12. ASSUME NEW c \in Calls, UpsertParticipant(c)
      PROVE  TypeOK'
  <2>1. at' \in [Calls -> Steps]
    BY <1>12, GotoIs DEF UpsertParticipant, Steps, JoinSteps
  <2>2. docs' \subseteq Users
    BY <1>12, OwnerAssumption DEF UpsertParticipant, WorkInv, Works, TypeOK, JoinSteps
  <2> QED BY <1>12, <2>1, <2>2 DEF UpsertParticipant, TypeOK, livekit, bounds
<1>13. ASSUME NEW c \in Calls, PushSession(c)
      PROVE  TypeOK'
  <2>1. at' \in [Calls -> Steps]
    BY <1>13, GotoIs DEF PushSession, Steps, JoinSteps
  <2>2. sessions' \in [Sids -> Marks]
    BY <1>13 DEF PushSession, TypeOK, Marks
  <2> QED BY <1>13, <2>1, <2>2 DEF PushSession, TypeOK, livekit, bounds
<1>14. ASSUME NEW c \in Calls, AddPresence(c)
      PROVE  TypeOK'
  <2>1. at' \in [Calls -> Steps]
    BY <1>14, GotoIs DEF AddPresence, Steps, JoinSteps
  <2>2. presence' \subseteq Users
    BY <1>14, OwnerAssumption DEF AddPresence, WorkInv, Works, TypeOK, JoinSteps
  <2> QED BY <1>14, <2>1, <2>2 DEF AddPresence, TypeOK, livekit, meeting, bounds
<1>15. ASSUME NEW c \in Calls, CountPeak(c)
      PROVE  TypeOK'
  <2>1. Cardinality(presence) \in 0..Cardinality(Users)
    BY FiniteAssumption, FS_Subset, FS_CardinalityType DEF TypeOK
  <2>2. peak' \in 0..Cardinality(Users)
    BY <1>15, <2>1 DEF CountPeak, TypeOK
  <2> QED BY <1>15, <2>2, AnswerIs, ForgetIs DEF CountPeak, TypeOK, bounds
<1>16. ASSUME NEW c \in Calls, CloseSession(c)
      PROVE  TypeOK'
  <2>1. at' \in [Calls -> Steps]
    BY <1>16, GotoIs DEF CloseSession, Steps, LeaveSteps
  <2>2. sessions' \in [Sids -> Marks]
    BY <1>16 DEF CloseSession, TypeOK, Marks
  <2> QED BY <1>16, <2>1, <2>2 DEF CloseSession, TypeOK, livekit, bounds
<1>17. ASSUME NEW c \in Calls, CheckStillIn(c)
      PROVE  TypeOK'
  <2>1. CASE Answer(c)
    BY <1>17, <2>1, AnswerIs, ForgetIs DEF CheckStillIn, TypeOK, meeting, bounds
  <2>2. CASE Goto(c, "srem") /\ UNCHANGED <<queue, sent, job, seen, todo>>
    <3>1. at' \in [Calls -> Steps]
      BY <2>2, GotoIs DEF Steps, LeaveSteps
    <3> QED BY <1>17, <2>2, <3>1 DEF CheckStillIn, TypeOK, meeting, bounds
  <2> QED BY <1>17, <2>1, <2>2 DEF CheckStillIn
<1>18. ASSUME NEW c \in Calls, RemovePresence(c)
      PROVE  TypeOK'
  BY <1>18, AnswerIs, ForgetIs DEF RemovePresence, TypeOK, meeting, bounds
<1>19. ASSUME NEW c \in Calls, EndMeeting(c)
      PROVE  TypeOK'
  <2>1. at' \in [Calls -> Steps]
    BY <1>19, GotoIs DEF EndMeeting, Steps, FinalSteps
  <2> QED BY <1>19, <2>1 DEF EndMeeting, TypeOK, livekit, bounds
<1>20. ASSUME NEW c \in Calls, ShutSessions(c)
      PROVE  TypeOK'
  <2>1. at' \in [Calls -> Steps]
    BY <1>20, GotoIs DEF ShutSessions, Steps, FinalSteps
  <2>2. sessions' \in [Sids -> Marks]
    BY <1>20 DEF ShutSessions, TypeOK, Marks
  <2> QED BY <1>20, <2>1, <2>2 DEF ShutSessions, TypeOK, livekit, bounds
<1>21. ASSUME NEW c \in Calls, ReadParticipants(c)
      PROVE  TypeOK'
  <2>1. at' \in [Calls -> Steps]
    BY <1>21, GotoIs DEF ReadParticipants, Steps, FinalSteps
  <2>2. [docs |-> docs, marks |-> sessions] \in [docs : SUBSET Users, marks : [Sids -> Marks]]
    BY DEF TypeOK
  <2>3. seen' \in [Calls -> [docs : SUBSET Users, marks : [Sids -> Marks]]]
    BY <1>21, <2>2 DEF ReadParticipants, TypeOK
  <2>4. todo' \in [Calls -> SUBSET Users]
    BY <1>21 DEF ReadParticipants, TypeOK
  <2> QED BY <1>21, <2>1, <2>3, <2>4 DEF ReadParticipants, TypeOK, livekit, meeting, bounds
<1>22. ASSUME NEW c \in Calls, NEW u \in Users, WriteTotal(c, u)
      PROVE  TypeOK'
  <2>1. seen[c].marks \in [Sids -> Marks]
    BY DEF TypeOK
  <2>2. totals' \in [Sids -> Marks]
    BY <1>22, <2>1 DEF WriteTotal, TypeOK, Marks
  <2>3. todo' \in [Calls -> SUBSET Users]
    BY <1>22 DEF WriteTotal, TypeOK
  <2> QED BY <1>22, <2>2, <2>3 DEF WriteTotal, TypeOK, livekit, bounds
<1>23. ASSUME NEW c \in Calls, WriteStats(c)
      PROVE  TypeOK'
  <2>1. at' \in [Calls -> Steps]
    BY <1>23, GotoIs DEF WriteStats, Steps, FinalSteps
  <2>2. seen[c].docs \subseteq Users
    BY DEF TypeOK
  <2>3. Cardinality(seen[c].docs) \in 0..Cardinality(Users)
    BY <2>2, FiniteAssumption, FS_Subset, FS_CardinalityType
  <2> QED BY <1>23, <2>1, <2>3 DEF WriteStats, TypeOK, livekit, bounds
<1>24. ASSUME NEW c \in Calls, DelPresence(c)
      PROVE  TypeOK'
  <2>1. CASE Answer(c)
    BY <1>24, <2>1, AnswerIs, ForgetIs DEF DelPresence, TypeOK, meeting, bounds
  <2>2. CASE Goto(c, "media") /\ UNCHANGED <<queue, sent, job, seen, todo>>
    <3>1. at' \in [Calls -> Steps]
      BY <2>2, GotoIs DEF Steps
    <3> QED BY <1>24, <2>2, <3>1 DEF DelPresence, TypeOK, meeting, bounds
  <2> QED BY <1>24, <2>1, <2>2 DEF DelPresence
<1>25. ASSUME NEW c \in Calls, CloseMediaRoom(c)
      PROVE  TypeOK'
  BY <1>25, ForgetIs DEF CloseMediaRoom, TypeOK, meeting, bounds
<1>26. ASSUME NEW c \in Calls, RemoveMember(c)
      PROVE  TypeOK'
  <2>1. CASE Forget(c)
    BY <1>26, <2>1, ForgetIs DEF RemoveMember, TypeOK, livekit, meeting, bounds
  <2>2. CASE Goto(c, "active") /\ UNCHANGED <<job, seen, todo>>
    <3>1. at' \in [Calls -> Steps]
      BY <2>2, GotoIs DEF Steps
    <3> QED BY <1>26, <2>2, <3>1 DEF RemoveMember, TypeOK, livekit, meeting, bounds
  <2> QED BY <1>26, <2>1, <2>2 DEF RemoveMember
<1>27. ASSUME NEW c \in Calls, FindActive(c)
      PROVE  TypeOK'
  <2>1. CASE Forget(c)
    BY <1>27, <2>1, ForgetIs DEF FindActive, TypeOK, livekit, meeting, bounds
  <2>2. CASE Goto(c, "eject") /\ UNCHANGED <<job, seen, todo>>
    <3>1. at' \in [Calls -> Steps]
      BY <2>2, GotoIs DEF Steps
    <3> QED BY <1>27, <2>2, <3>1 DEF FindActive, TypeOK, livekit, meeting, bounds
  <2> QED BY <1>27, <2>1, <2>2 DEF FindActive
<1>28. ASSUME NEW c \in Calls, Eject(c)
      PROVE  TypeOK'
  <2>1. conn' \in [Sids -> {"fresh", "in", "dropped", "gone"}]
    BY <1>28 DEF Eject, DropUser, TypeOK
  <2> QED BY <1>28, <2>1, ForgetIs DEF Eject, TypeOK, meeting, bounds
<1>29. ASSUME NEW c \in Calls, Fail(c)
      PROVE  TypeOK'
  BY <1>29, ForgetIs DEF Fail, TypeOK, meeting
<1>30. CASE UNCHANGED vars
  BY <1>30 DEF vars, TypeOK
<1> QED
  BY <1>1, <1>2, <1>3, <1>4, <1>5, <1>6, <1>7, <1>8, <1>9, <1>10, <1>11,
         <1>12, <1>13, <1>14, <1>15, <1>16, <1>17, <1>18, <1>19, <1>20, <1>21,
         <1>22, <1>23, <1>24, <1>25, <1>26, <1>27, <1>28, <1>29, <1>30
  DEF Next, Step, JoinStep, LeaveStep, EndStep, KickStep


-----------------------------------------------------------------------------
(* Who works on what *)

LEMMA CallsInit == Init => CallsInv
<1> SUFFICES ASSUME Init PROVE CallsInv
  OBVIOUS
<1>1. SentInv
  BY DEF Init, SentInv
<1>2. AloneInv
  BY DEF Init, AloneInv, Calls
<1>3. WorkInv
  BY DEF Init, WorkInv, Works, JoinSteps, LeaveSteps, FinalSteps
<1> QED BY <1>1, <1>2, <1>3 DEF CallsInv

LEMMA GotoCalls ==
  ASSUME TypeOK, CallsInv, NEW c \in Calls, NEW step \in Steps \ {"idle"}, at[c] # "idle",
         Goto(c, step), UNCHANGED <<queue, sent, job, timeouts>>, Works(c)'
  PROVE  CallsInv'
<1>0. at' \in [Calls -> Steps] /\ at'[c] = step /\ \A d \in Calls : d # c => at'[d] = at[d]
  BY GotoIs
<1>1. SentInv'
  <2>1. ASSUME sent # NoCall PROVE sent \in Calls /\ at'[sent] # "idle"
    BY <1>0, <2>1 DEF CallsInv, SentInv, TypeOK, Calls
  <2> QED BY <2>1 DEF CallsInv, SentInv
<1>2. AloneInv'
  BY <1>0 DEF CallsInv, AloneInv, Calls
<1>3. WorkInv'
  <2>1. ASSUME NEW d \in Calls, d # c PROVE Works(d)'
    BY <1>0, <2>1 DEF CallsInv, WorkInv, Works
  <2> QED BY <2>1 DEF WorkInv
<1> QED BY <1>1, <1>2, <1>3 DEF CallsInv

LEMMA ForgetCalls ==
  ASSUME TypeOK, CallsInv, NEW c \in Calls, Forget(c), UNCHANGED timeouts,
         \/ sent = c /\ sent' = NoCall
         \/ sent # c /\ UNCHANGED <<queue, sent>>
  PROVE  CallsInv'
<1>0. /\ at' \in [Calls -> Steps] /\ at'[c] = "idle"
      /\ \A d \in Calls : d # c => at'[d] = at[d] /\ job'[d] = job[d]
  BY ForgetIs
<1>1. SentInv'
  <2>1. ASSUME sent' # NoCall
        PROVE  sent \in Calls /\ sent # c /\ sent' = sent /\ queue' = queue
    BY <2>1 DEF TypeOK, Calls
  <2> QED BY <1>0, <2>1 DEF CallsInv, SentInv
<1>2. AloneInv'
  <2> SUFFICES ASSUME timeouts = 0, NEW h \in Hooks, at'[h] # "idle"
               PROVE  sent' = h
    BY DEF AloneInv
  <2>1. h \in Calls /\ h # c /\ at[h] # "idle"
    BY <1>0 DEF Calls
  <2> QED BY <2>1 DEF CallsInv, AloneInv
<1>3. WorkInv'
  <2>1. ASSUME NEW d \in Calls, d # c PROVE Works(d)'
    BY <1>0, <2>1 DEF CallsInv, WorkInv, Works
  <2>2. Works(c)'
    BY <1>0 DEF Works, JoinSteps, LeaveSteps, FinalSteps
  <2> QED BY <2>1, <2>2 DEF WorkInv
<1> QED BY <1>1, <1>2, <1>3 DEF CallsInv

LEMMA AnswerCalls ==
  ASSUME TypeOK, CallsInv, NEW c \in Calls, Answer(c), UNCHANGED timeouts
  PROVE  CallsInv'
BY AnswerIs, ForgetCalls DEF CallsInv

LEMMA CallsStep ==
  ASSUME TypeOK, CallsInv, [Next]_vars
  PROVE  CallsInv'
<1>1. ASSUME NEW s \in Sids, Connect(s)
      PROVE  CallsInv'
  <2>1. queue' = Append(queue, Joined(s))
    BY <1>1 DEF Connect, Joined
  <2>2. queue # << >> => queue' # << >> /\ queue'[1] = queue[1]
    BY <2>1, JoinedIs, QueueAppend DEF TypeOK
  <2> QED BY <1>1, <2>2 DEF Connect, CallsInv, SentInv, AloneInv, WorkInv, Works, local, bounds
<1>2. ASSUME NEW s \in Sids, Leave(s)
      PROVE  CallsInv'
  <2>1. queue' = Append(queue, Left(s))
    BY <1>2 DEF Leave, Left
  <2>2. queue # << >> => queue' # << >> /\ queue'[1] = queue[1]
    BY <2>1, LeftIs, QueueAppend DEF TypeOK
  <2> QED BY <1>2, <2>2 DEF Leave, CallsInv, SentInv, AloneInv, WorkInv, Works, local, bounds
<1>3. ASSUME FinishRoom
      PROVE  CallsInv'
  <2>1. queue' = Append(queue, Finished)
    BY <1>3 DEF FinishRoom, Finished
  <2>2. queue # << >> => queue' # << >> /\ queue'[1] = queue[1]
    BY <2>1, FinishedIs, QueueAppend DEF TypeOK
  <2> QED BY <1>3, <2>2 DEF FinishRoom, CallsInv, SentInv, AloneInv, WorkInv, Works, local, bounds
<1>4. ASSUME NEW h \in Hooks, Deliver(h)
      PROVE  CallsInv'
  <2>0. h \in Calls
    BY DEF Calls
  <2>1. Head(queue) = queue[1] /\ queue[1] \in Events
    BY <1>4, QueueTail DEF Deliver, TypeOK
  <2>2. /\ job'[h] = queue[1] /\ at'[h] # "idle" /\ Works(h)'
    <3>0. job'[h] = queue[1]
      BY <1>4, <2>0, <2>1 DEF Deliver, TypeOK
    <3>1. CASE queue[1].sid \in Sids /\ queue[1].type = "joined" /\ queue[1] = Joined(queue[1].sid)
      <4>1. at'[h] = "find"
        BY <1>4, <2>0, <2>1, <3>1 DEF Deliver, TypeOK
      <4> QED BY <3>0, <3>1, <4>1 DEF Works, LeaveSteps, FinalSteps
    <3>2. CASE queue[1].sid \in Sids /\ queue[1].type = "left" /\ queue[1] = Left(queue[1].sid)
      <4>1. at'[h] = "close"
        BY <1>4, <2>0, <2>1, <3>2 DEF Deliver, TypeOK
      <4> QED BY <3>0, <3>2, <4>1 DEF Works, JoinSteps, FinalSteps
    <3>3. CASE queue[1].type = "finished" /\ queue[1] = Finished
      <4>1. at'[h] = "end"
        BY <1>4, <2>0, <2>1, <3>3 DEF Deliver, TypeOK
      <4> QED BY <3>0, <3>3, <4>1 DEF Works, JoinSteps, LeaveSteps
    <3> QED BY <2>1, <3>1, <3>2, <3>3, EventCases
  <2>3. \A d \in Calls : d # h => at'[d] = at[d] /\ job'[d] = job[d]
    BY <1>4 DEF Deliver, TypeOK
  <2>4. SentInv'
    BY <1>4, <2>2 DEF Deliver, SentInv
  <2>5. AloneInv'
    BY <1>4, <2>3, CallsAssumption DEF Deliver, CallsInv, AloneInv, Calls, bounds
  <2>6. WorkInv'
    <3>1. ASSUME NEW d \in Calls, d # h PROVE Works(d)'
      BY <2>3, <3>1 DEF CallsInv, WorkInv, Works
    <3> QED BY <2>2, <3>1 DEF WorkInv
  <2> QED BY <2>4, <2>5, <2>6 DEF CallsInv
<1>5. ASSUME TimeOut
      PROVE  CallsInv'
  BY <1>5 DEF TimeOut, CallsInv, SentInv, AloneInv, WorkInv, Works, TypeOK, local
<1>6. ASSUME GiveUp
      PROVE  CallsInv'
  BY <1>6 DEF GiveUp, CallsInv, SentInv, AloneInv, WorkInv, Works, local
<1>7. ASSUME NEW r \in Requests, EndByHost(r)
      PROVE  CallsInv'
  <2>0. r \in Calls /\ r \notin Hooks /\ r # sent
    BY CallsAssumption DEF Calls, TypeOK
  <2>1. /\ at'[r] = "end" /\ \A d \in Calls : d # r => at'[d] = at[d]
    BY <1>7, <2>0, GotoIs DEF EndByHost, Steps
  <2>2. \A d \in Calls : d # r => job'[d] = job[d]
    BY <1>7 DEF EndByHost, TypeOK
  <2>3. Works(r)'
    BY <1>7, <2>0, <2>1 DEF EndByHost, Works, JoinSteps, LeaveSteps, FinalSteps, TypeOK
  <2>4. SentInv'
    BY <1>7, <2>0, <2>1, <2>2 DEF EndByHost, CallsInv, SentInv, livekit, TypeOK, Calls
  <2>5. AloneInv'
    BY <1>7, <2>0, <2>1 DEF EndByHost, CallsInv, AloneInv, livekit, Calls
  <2>6. WorkInv'
    <3>1. ASSUME NEW d \in Calls, d # r PROVE Works(d)'
      BY <2>1, <2>2, <3>1 DEF CallsInv, WorkInv, Works
    <3> QED BY <2>3, <3>1 DEF WorkInv
  <2> QED BY <2>4, <2>5, <2>6 DEF CallsInv
<1>8. ASSUME NEW r \in Requests, NEW u \in Users, Kick(r, u)
      PROVE  CallsInv'
  <2>0. r \in Calls /\ r \notin Hooks /\ r # sent
    BY CallsAssumption DEF Calls, TypeOK
  <2>1. /\ at'[r] = "drop" /\ \A d \in Calls : d # r => at'[d] = at[d]
    BY <1>8, <2>0, GotoIs DEF Kick, Steps
  <2>2. \A d \in Calls : d # r => job'[d] = job[d]
    BY <1>8 DEF Kick, TypeOK
  <2>3. Works(r)'
    BY <1>8, <2>0, <2>1 DEF Kick, Works, JoinSteps, LeaveSteps, FinalSteps, TypeOK
  <2>4. SentInv'
    BY <1>8, <2>0, <2>1, <2>2 DEF Kick, CallsInv, SentInv, livekit, TypeOK, Calls
  <2>5. AloneInv'
    BY <1>8, <2>0, <2>1 DEF Kick, CallsInv, AloneInv, livekit, Calls
  <2>6. WorkInv'
    <3>1. ASSUME NEW d \in Calls, d # r PROVE Works(d)'
      BY <2>1, <2>2, <3>1 DEF CallsInv, WorkInv, Works
    <3> QED BY <2>3, <3>1 DEF WorkInv
  <2> QED BY <2>4, <2>5, <2>6 DEF CallsInv
<1>9. ASSUME NEW c \in Calls, FindMeeting(c)
      PROVE  CallsInv'
  <2>1. PICK step \in {"access", "remove"} : Goto(c, step)
    BY <1>9 DEF FindMeeting
  <2>2. step \in Steps \ {"idle"} /\ step \in JoinSteps /\ at[c] \in JoinSteps /\ at[c] # "idle"
    BY <1>9 DEF FindMeeting, Steps, JoinSteps
  <2>3. at'[c] = step
    BY <2>1, <2>2, GotoIs
  <2>4. Works(c)'
    BY <1>9, <2>2, <2>3 DEF FindMeeting, CallsInv, WorkInv, Works, JoinSteps, LeaveSteps, FinalSteps
  <2> QED BY <1>9, <2>1, <2>2, <2>4, GotoCalls DEF FindMeeting, livekit, bounds
<1>10. ASSUME NEW c \in Calls, CheckAccess(c)
      PROVE  CallsInv'
  <2>1. PICK step \in {"upsert", "remove"} : Goto(c, step)
    BY <1>10 DEF CheckAccess
  <2>2. step \in Steps \ {"idle"} /\ step \in JoinSteps /\ at[c] \in JoinSteps /\ at[c] # "idle"
    BY <1>10 DEF CheckAccess, Steps, JoinSteps
  <2>3. at'[c] = step
    BY <2>1, <2>2, GotoIs
  <2>4. Works(c)'
    BY <1>10, <2>2, <2>3 DEF CheckAccess, CallsInv, WorkInv, Works, JoinSteps, LeaveSteps, FinalSteps
  <2> QED BY <1>10, <2>1, <2>2, <2>4, GotoCalls DEF CheckAccess, livekit, bounds
<1>11. ASSUME NEW c \in Calls, RemoveIntruder(c)
      PROVE  CallsInv'
  BY <1>11, AnswerCalls DEF RemoveIntruder, bounds
<1>12. ASSUME NEW c \in Calls, UpsertParticipant(c)
      PROVE  CallsInv'
  <2>1. PICK step \in {"push"} : Goto(c, step)
    BY <1>12 DEF UpsertParticipant
  <2>2. step \in Steps \ {"idle"} /\ step \in JoinSteps /\ at[c] \in JoinSteps /\ at[c] # "idle"
    BY <1>12 DEF UpsertParticipant, Steps, JoinSteps
  <2>3. at'[c] = step
    BY <2>1, <2>2, GotoIs
  <2>4. Works(c)'
    BY <1>12, <2>2, <2>3 DEF UpsertParticipant, CallsInv, WorkInv, Works, JoinSteps, LeaveSteps, FinalSteps
  <2> QED BY <1>12, <2>1, <2>2, <2>4, GotoCalls DEF UpsertParticipant, livekit, bounds
<1>13. ASSUME NEW c \in Calls, PushSession(c)
      PROVE  CallsInv'
  <2>1. PICK step \in {"sadd"} : Goto(c, step)
    BY <1>13 DEF PushSession
  <2>2. step \in Steps \ {"idle"} /\ step \in JoinSteps /\ at[c] \in JoinSteps /\ at[c] # "idle"
    BY <1>13 DEF PushSession, Steps, JoinSteps
  <2>3. at'[c] = step
    BY <2>1, <2>2, GotoIs
  <2>4. Works(c)'
    BY <1>13, <2>2, <2>3 DEF PushSession, CallsInv, WorkInv, Works, JoinSteps, LeaveSteps, FinalSteps
  <2> QED BY <1>13, <2>1, <2>2, <2>4, GotoCalls DEF PushSession, livekit, bounds
<1>14. ASSUME NEW c \in Calls, AddPresence(c)
      PROVE  CallsInv'
  <2>1. PICK step \in {"count"} : Goto(c, step)
    BY <1>14 DEF AddPresence
  <2>2. step \in Steps \ {"idle"} /\ step \in JoinSteps /\ at[c] \in JoinSteps /\ at[c] # "idle"
    BY <1>14 DEF AddPresence, Steps, JoinSteps
  <2>3. at'[c] = step
    BY <2>1, <2>2, GotoIs
  <2>4. Works(c)'
    BY <1>14, <2>2, <2>3 DEF AddPresence, CallsInv, WorkInv, Works, JoinSteps, LeaveSteps, FinalSteps
  <2> QED BY <1>14, <2>1, <2>2, <2>4, GotoCalls DEF AddPresence, livekit, bounds
<1>15. ASSUME NEW c \in Calls, CountPeak(c)
      PROVE  CallsInv'
  BY <1>15, AnswerCalls DEF CountPeak, bounds
<1>16. ASSUME NEW c \in Calls, CloseSession(c)
      PROVE  CallsInv'
  <2>1. Goto(c, "still") /\ "still" \in Steps \ {"idle"}
    BY <1>16 DEF CloseSession, Steps, LeaveSteps
  <2>2. at'[c] = "still"
    BY <2>1, GotoIs
  <2>3. Works(c)'
    BY <1>16, <2>2 DEF CloseSession, CallsInv, WorkInv, Works, JoinSteps, LeaveSteps, FinalSteps
  <2> QED BY <1>16, <2>1, <2>3, GotoCalls DEF CloseSession, livekit, bounds
<1>17. ASSUME NEW c \in Calls, CheckStillIn(c)
      PROVE  CallsInv'
  <2>1. CASE Answer(c)
    BY <1>17, <2>1, AnswerCalls DEF CheckStillIn, bounds
  <2>2. CASE Goto(c, "srem") /\ UNCHANGED <<queue, sent, job, seen, todo>>
    <3>1. "srem" \in Steps \ {"idle"}
      BY DEF Steps, LeaveSteps
    <3>2. at'[c] = "srem"
      BY <2>2, <3>1, GotoIs
    <3>3. Works(c)'
      BY <1>17, <2>2, <3>2 DEF CheckStillIn, CallsInv, WorkInv, Works, JoinSteps, LeaveSteps, FinalSteps
    <3> QED BY <1>17, <2>2, <3>1, <3>3, GotoCalls DEF CheckStillIn, bounds
  <2> QED BY <1>17, <2>1, <2>2 DEF CheckStillIn
<1>18. ASSUME NEW c \in Calls, RemovePresence(c)
      PROVE  CallsInv'
  BY <1>18, AnswerCalls DEF RemovePresence, bounds
<1>19. ASSUME NEW c \in Calls, EndMeeting(c)
      PROVE  CallsInv'
  <2>1. Goto(c, "shut") /\ "shut" \in Steps \ {"idle"}
    BY <1>19 DEF EndMeeting, Steps, FinalSteps
  <2>2. at'[c] = "shut"
    BY <2>1, GotoIs
  <2>3. Works(c)'
    BY <1>19, <2>2 DEF EndMeeting, CallsInv, WorkInv, Works, JoinSteps, LeaveSteps, FinalSteps
  <2> QED BY <1>19, <2>1, <2>3, GotoCalls DEF EndMeeting, livekit, bounds
<1>20. ASSUME NEW c \in Calls, ShutSessions(c)
      PROVE  CallsInv'
  <2>1. Goto(c, "read") /\ "read" \in Steps \ {"idle"}
    BY <1>20 DEF ShutSessions, Steps, FinalSteps
  <2>2. at'[c] = "read"
    BY <2>1, GotoIs
  <2>3. Works(c)'
    BY <1>20, <2>2 DEF ShutSessions, CallsInv, WorkInv, Works, JoinSteps, LeaveSteps, FinalSteps
  <2> QED BY <1>20, <2>1, <2>3, GotoCalls DEF ShutSessions, livekit, bounds
<1>21. ASSUME NEW c \in Calls, ReadParticipants(c)
      PROVE  CallsInv'
  <2>1. Goto(c, "totals") /\ "totals" \in Steps \ {"idle"}
    BY <1>21 DEF ReadParticipants, Steps, FinalSteps
  <2>2. at'[c] = "totals"
    BY <2>1, GotoIs
  <2>3. Works(c)'
    BY <1>21, <2>2 DEF ReadParticipants, CallsInv, WorkInv, Works, JoinSteps, LeaveSteps, FinalSteps
  <2> QED BY <1>21, <2>1, <2>3, GotoCalls DEF ReadParticipants, livekit, bounds
<1>22. ASSUME NEW c \in Calls, NEW u \in Users, WriteTotal(c, u)
      PROVE  CallsInv'
  BY <1>22 DEF WriteTotal, CallsInv, SentInv, AloneInv, WorkInv, Works, livekit, bounds
<1>23. ASSUME NEW c \in Calls, WriteStats(c)
      PROVE  CallsInv'
  <2>1. Goto(c, "del") /\ "del" \in Steps \ {"idle"}
    BY <1>23 DEF WriteStats, Steps, FinalSteps
  <2>2. at'[c] = "del"
    BY <2>1, GotoIs
  <2>3. Works(c)'
    BY <1>23, <2>2 DEF WriteStats, CallsInv, WorkInv, Works, JoinSteps, LeaveSteps, FinalSteps
  <2> QED BY <1>23, <2>1, <2>3, GotoCalls DEF WriteStats, livekit, bounds
<1>24. ASSUME NEW c \in Calls, DelPresence(c)
      PROVE  CallsInv'
  <2>1. CASE Answer(c)
    BY <1>24, <2>1, AnswerCalls DEF DelPresence, bounds
  <2>2. CASE c \notin Hooks /\ Goto(c, "media") /\ UNCHANGED <<queue, sent, job, seen, todo>>
    <3>1. "media" \in Steps \ {"idle"}
      BY DEF Steps
    <3>2. at'[c] = "media"
      BY <2>2, <3>1, GotoIs
    <3>3. Works(c)'
      BY <2>2, <3>2 DEF Works, JoinSteps, LeaveSteps, FinalSteps, Calls
    <3> QED BY <1>24, <2>2, <3>1, <3>3, GotoCalls DEF DelPresence, bounds
  <2> QED BY <1>24, <2>1, <2>2 DEF DelPresence
<1>25. ASSUME NEW c \in Calls, CloseMediaRoom(c)
      PROVE  CallsInv'
  <2>1. sent # c
    BY <1>25, CallsAssumption DEF CloseMediaRoom, CallsInv, WorkInv, Works, TypeOK
  <2> QED BY <1>25, <2>1, ForgetCalls DEF CloseMediaRoom, bounds
<1>26. ASSUME NEW c \in Calls, RemoveMember(c)
      PROVE  CallsInv'
  <2>1. sent # c
    BY <1>26, CallsAssumption DEF RemoveMember, CallsInv, WorkInv, Works, TypeOK
  <2>2. CASE Forget(c)
    BY <1>26, <2>1, <2>2, ForgetCalls DEF RemoveMember, livekit, bounds
  <2>3. CASE Goto(c, "active") /\ UNCHANGED <<job, seen, todo>>
    <3>1. "active" \in Steps \ {"idle"}
      BY DEF Steps
    <3>2. at'[c] = "active"
      BY <2>3, <3>1, GotoIs
    <3>3. Works(c)'
      BY <1>26, <2>3, <3>2 DEF RemoveMember, CallsInv, WorkInv, Works, JoinSteps, LeaveSteps, FinalSteps
    <3> QED BY <1>26, <2>3, <3>1, <3>3, GotoCalls DEF RemoveMember, livekit, bounds
  <2> QED BY <1>26, <2>2, <2>3 DEF RemoveMember
<1>27. ASSUME NEW c \in Calls, FindActive(c)
      PROVE  CallsInv'
  <2>1. sent # c
    BY <1>27, CallsAssumption DEF FindActive, CallsInv, WorkInv, Works, TypeOK
  <2>2. CASE Forget(c)
    BY <1>27, <2>1, <2>2, ForgetCalls DEF FindActive, livekit, bounds
  <2>3. CASE Goto(c, "eject") /\ UNCHANGED <<job, seen, todo>>
    <3>1. "eject" \in Steps \ {"idle"}
      BY DEF Steps
    <3>2. at'[c] = "eject"
      BY <2>3, <3>1, GotoIs
    <3>3. Works(c)'
      BY <1>27, <2>3, <3>2 DEF FindActive, CallsInv, WorkInv, Works, JoinSteps, LeaveSteps, FinalSteps
    <3> QED BY <1>27, <2>3, <3>1, <3>3, GotoCalls DEF FindActive, livekit, bounds
  <2> QED BY <1>27, <2>2, <2>3 DEF FindActive
<1>28. ASSUME NEW c \in Calls, Eject(c)
      PROVE  CallsInv'
  <2>1. sent # c
    BY <1>28, CallsAssumption DEF Eject, CallsInv, WorkInv, Works, TypeOK
  <2> QED BY <1>28, <2>1, ForgetCalls DEF Eject, bounds
<1>29. ASSUME NEW c \in Calls, Fail(c)
      PROVE  CallsInv'
  BY <1>29, ForgetCalls DEF Fail
<1>30. CASE UNCHANGED vars
  BY <1>30 DEF vars, CallsInv, SentInv, AloneInv, WorkInv, Works
<1> QED
  BY <1>1, <1>2, <1>3, <1>4, <1>5, <1>6, <1>7, <1>8, <1>9, <1>10, <1>11,
         <1>12, <1>13, <1>14, <1>15, <1>16, <1>17, <1>18, <1>19, <1>20, <1>21,
         <1>22, <1>23, <1>24, <1>25, <1>26, <1>27, <1>28, <1>29, <1>30
  DEF Next, Step, JoinStep, LeaveStep, EndStep, KickStep

-----------------------------------------------------------------------------
(* The order of the events *)

\* What stands at a place of the queue, and what may stand behind it.
PlaceInv ==
  \A k \in 1..Len(queue) :
    /\ queue[k] \notin After(queue, k)
    /\ queue[k] = Finished => After(queue, k) = {}
    /\ \A s \in Sids :
         /\ queue[k] = Left(s) => Joined(s) \notin After(queue, k)
         /\ queue[k] = Joined(s) /\ conn[s] = "gone" => Left(s) \in After(queue, k)

\* LiveKit tells of a join only after it, of a leave only after it.
ToldInv ==
  /\ \A s \in Sids :
       /\ conn[s] = "fresh" => Joined(s) \notin After(queue, 0)
       /\ conn[s] # "gone" => Left(s) \notin After(queue, 0)
  /\ IF media = "closed" THEN \A s \in Sids : ~Here(s)
     ELSE Finished \notin After(queue, 0)

\* So do the handlers; when one works on a leave the join is done with.
HandlerInv ==
  \A c \in Calls :
    /\ at[c] \in JoinSteps => conn[job[c].sid] # "fresh"
    /\ at[c] \in LeaveSteps => /\ conn[job[c].sid] = "gone"
                               /\ Joined(job[c].sid) \notin After(queue, 0)
    /\ at[c] \in {"end"} \cup FinalSteps /\ c \in Hooks => media = "closed"

OrderInv == PlaceInv /\ ToldInv /\ HandlerInv

\* What every step of a call does to LiveKit: it drops connections, is done
\* with the oldest event, closes the room.
Drops ==
  \A s \in Sids : conn'[s] = conn[s] \/ (conn[s] = "in" /\ conn'[s] = "dropped")
Shrinks == queue' = queue \/ (queue # << >> /\ queue' = Tail(queue))
Closes == media' = media \/ (media = "open" /\ media' = "closing")

\* Only a delivery gives a handler something new to work on.
Keeps ==
  \A d \in Calls :
    /\ at'[d] \in JoinSteps => at[d] \in JoinSteps /\ job'[d] = job[d]
    /\ at'[d] \in LeaveSteps => at[d] \in LeaveSteps /\ job'[d] = job[d]
    /\ d \in Hooks /\ at'[d] \in {"end"} \cup FinalSteps => at[d] \in {"end"} \cup FinalSteps

LEMMA GotoKeeps ==
  ASSUME TypeOK, NEW c \in Calls, NEW step \in Steps, Goto(c, step), job' = job,
         step \in JoinSteps => at[c] \in JoinSteps,
         step \in LeaveSteps => at[c] \in LeaveSteps,
         step \in {"end"} \cup FinalSteps => at[c] \in {"end"} \cup FinalSteps
  PROVE  Keeps
BY GotoIs DEF Keeps

LEMMA ForgetKeeps ==
  ASSUME TypeOK, NEW c \in Calls, Forget(c)
  PROVE  Keeps
<1>1. "idle" \notin JoinSteps \cup LeaveSteps \cup ({"end"} \cup FinalSteps)
  BY DEF JoinSteps, LeaveSteps, FinalSteps
<1> QED BY <1>1, ForgetIs DEF Keeps

LEMMA AnswerKeeps ==
  ASSUME TypeOK, SentInv, NEW c \in Calls, Answer(c)
  PROVE  Keeps /\ Shrinks
BY AnswerIs, ForgetKeeps DEF Shrinks

LEMMA StepFrame ==
  ASSUME TypeOK, CallsInv, NEW c \in Calls, Step(c) \/ Fail(c)
  PROVE  Drops /\ Shrinks /\ Closes /\ Keeps
<1>1. CASE FindMeeting(c)
  <2>1. PICK step \in {"access", "remove"} : Goto(c, step)
    BY <1>1 DEF FindMeeting
  <2>2. Keeps
    BY <1>1, <2>1, GotoKeeps DEF FindMeeting, Steps, JoinSteps, LeaveSteps, FinalSteps
  <2> QED BY <1>1, <2>2 DEF FindMeeting, Drops, Shrinks, Closes, livekit
<1>2. CASE CheckAccess(c)
  <2>1. PICK step \in {"upsert", "remove"} : Goto(c, step)
    BY <1>2 DEF CheckAccess
  <2>2. Keeps
    BY <1>2, <2>1, GotoKeeps DEF CheckAccess, Steps, JoinSteps, LeaveSteps, FinalSteps
  <2> QED BY <1>2, <2>2 DEF CheckAccess, Drops, Shrinks, Closes, livekit
<1>3. CASE RemoveIntruder(c)
  <2>1. Drops
    BY <1>3 DEF RemoveIntruder, DropUser, Drops, TypeOK
  <2> QED BY <1>3, <2>1, AnswerKeeps DEF RemoveIntruder, Closes, CallsInv
<1>4. CASE UpsertParticipant(c)
  <2>1. Keeps
    BY <1>4, GotoKeeps DEF UpsertParticipant, Steps, JoinSteps, LeaveSteps, FinalSteps
  <2> QED BY <1>4, <2>1 DEF UpsertParticipant, Drops, Shrinks, Closes, livekit
<1>5. CASE PushSession(c)
  <2>1. Keeps
    BY <1>5, GotoKeeps DEF PushSession, Steps, JoinSteps, LeaveSteps, FinalSteps
  <2> QED BY <1>5, <2>1 DEF PushSession, Drops, Shrinks, Closes, livekit
<1>6. CASE AddPresence(c)
  <2>1. Keeps
    BY <1>6, GotoKeeps DEF AddPresence, Steps, JoinSteps, LeaveSteps, FinalSteps
  <2> QED BY <1>6, <2>1 DEF AddPresence, Drops, Shrinks, Closes, livekit
<1>7. CASE CountPeak(c)
  BY <1>7, AnswerKeeps DEF CountPeak, Drops, Closes, CallsInv
<1>8. CASE CloseSession(c)
  <2>1. Keeps
    BY <1>8, GotoKeeps DEF CloseSession, Steps, JoinSteps, LeaveSteps, FinalSteps
  <2> QED BY <1>8, <2>1 DEF CloseSession, Drops, Shrinks, Closes, livekit
<1>9. CASE CheckStillIn(c)
  <2>1. CASE Answer(c)
    BY <1>9, <2>1, AnswerKeeps DEF CheckStillIn, Drops, Closes, CallsInv
  <2>2. CASE Goto(c, "srem") /\ UNCHANGED <<queue, sent, job, seen, todo>>
    <3>1. Keeps
      BY <1>9, <2>2, GotoKeeps DEF CheckStillIn, Steps, JoinSteps, LeaveSteps, FinalSteps
    <3> QED BY <1>9, <2>2, <3>1 DEF CheckStillIn, Drops, Shrinks, Closes
  <2> QED BY <1>9, <2>1, <2>2 DEF CheckStillIn
<1>10. CASE RemovePresence(c)
  BY <1>10, AnswerKeeps DEF RemovePresence, Drops, Closes, CallsInv
<1>11. CASE EndMeeting(c)
  <2>1. Keeps
    BY <1>11, GotoKeeps DEF EndMeeting, Steps, JoinSteps, LeaveSteps, FinalSteps
  <2> QED BY <1>11, <2>1 DEF EndMeeting, Drops, Shrinks, Closes, livekit
<1>12. CASE ShutSessions(c)
  <2>1. Keeps
    BY <1>12, GotoKeeps DEF ShutSessions, Steps, JoinSteps, LeaveSteps, FinalSteps
  <2> QED BY <1>12, <2>1 DEF ShutSessions, Drops, Shrinks, Closes, livekit
<1>13. CASE ReadParticipants(c)
  <2>1. Keeps
    BY <1>13, GotoKeeps DEF ReadParticipants, Steps, JoinSteps, LeaveSteps, FinalSteps
  <2> QED BY <1>13, <2>1 DEF ReadParticipants, Drops, Shrinks, Closes, livekit
<1>14. ASSUME NEW u \in Users, WriteTotal(c, u)
      PROVE  Drops /\ Shrinks /\ Closes /\ Keeps
  BY <1>14 DEF WriteTotal, Drops, Shrinks, Closes, Keeps, livekit
<1>15. CASE WriteStats(c)
  <2>1. Keeps
    BY <1>15, GotoKeeps DEF WriteStats, Steps, JoinSteps, LeaveSteps, FinalSteps
  <2> QED BY <1>15, <2>1 DEF WriteStats, Drops, Shrinks, Closes, livekit
<1>16. CASE DelPresence(c)
  <2>1. CASE Answer(c)
    BY <1>16, <2>1, AnswerKeeps DEF DelPresence, Drops, Closes, CallsInv
  <2>2. CASE Goto(c, "media") /\ UNCHANGED <<queue, sent, job, seen, todo>>
    <3>1. Keeps
      BY <1>16, <2>2, GotoKeeps DEF DelPresence, Steps, JoinSteps, LeaveSteps, FinalSteps
    <3> QED BY <1>16, <2>2, <3>1 DEF DelPresence, Drops, Shrinks, Closes
  <2> QED BY <1>16, <2>1, <2>2 DEF DelPresence
<1>17. CASE CloseMediaRoom(c)
  <2>1. Drops /\ Closes
    BY <1>17 DEF CloseMediaRoom, Drops, Closes, TypeOK
  <2> QED BY <1>17, <2>1, ForgetKeeps DEF CloseMediaRoom, Shrinks
<1>18. CASE RemoveMember(c)
  <2>1. Keeps
    <3>1. CASE Forget(c)
      BY <3>1, ForgetKeeps
    <3>2. CASE Goto(c, "active") /\ UNCHANGED <<job, seen, todo>>
      BY <3>2, GotoKeeps DEF Steps, JoinSteps, LeaveSteps, FinalSteps
    <3> QED BY <1>18, <3>1, <3>2 DEF RemoveMember
  <2> QED BY <1>18, <2>1 DEF RemoveMember, Drops, Shrinks, Closes, livekit
<1>19. CASE FindActive(c)
  <2>1. Keeps
    <3>1. CASE Forget(c)
      BY <3>1, ForgetKeeps
    <3>2. CASE Goto(c, "eject") /\ UNCHANGED <<job, seen, todo>>
      BY <3>2, GotoKeeps DEF Steps, JoinSteps, LeaveSteps, FinalSteps
    <3> QED BY <1>19, <3>1, <3>2 DEF FindActive
  <2> QED BY <1>19, <2>1 DEF FindActive, Drops, Shrinks, Closes, livekit
<1>20. CASE Eject(c)
  <2>1. Drops
    BY <1>20 DEF Eject, DropUser, Drops, TypeOK
  <2> QED BY <1>20, <2>1, ForgetKeeps DEF Eject, Shrinks, Closes
<1>21. CASE Fail(c)
  BY <1>21, ForgetKeeps DEF Fail, Drops, Shrinks, Closes
<1> QED
  BY <1>1, <1>2, <1>3, <1>4, <1>5, <1>6, <1>7, <1>8, <1>9, <1>10, <1>11,
     <1>12, <1>13, <1>14, <1>15, <1>16, <1>17, <1>18, <1>19, <1>20, <1>21
  DEF Step, JoinStep, LeaveStep, EndStep, KickStep

LEMMA OrderInit == Init => OrderInv
<1> SUFFICES ASSUME Init PROVE OrderInv
  OBVIOUS
<1>1. queue = << >> /\ After(queue, 0) = {} /\ Len(queue) = 0
  BY QueueEmpty, EmptySeq DEF Init
<1>2. PlaceInv /\ ToldInv
  BY <1>1 DEF PlaceInv, ToldInv, Init
<1>3. HandlerInv
  BY DEF Init, HandlerInv, JoinSteps, LeaveSteps, FinalSteps
<1> QED BY <1>2, <1>3 DEF OrderInv

\* Dropping people and the end of an event disturb no order.
LEMMA FrameOrder ==
  ASSUME TypeOK, CallsInv, OrderInv, Drops, Shrinks, Closes, Keeps
  PROVE  OrderInv'
<1>1. PlaceInv'
  <2> SUFFICES ASSUME NEW k \in 1..Len(queue')
               PROVE  /\ queue'[k] \notin After(queue', k)
                      /\ queue'[k] = Finished => After(queue', k) = {}
                      /\ \A s \in Sids :
                           /\ queue'[k] = Left(s) => Joined(s) \notin After(queue', k)
                           /\ queue'[k] = Joined(s) /\ conn'[s] = "gone"
                                => Left(s) \in After(queue', k)
    BY DEF PlaceInv
  <2>0. \A s \in Sids : conn'[s] = "gone" => conn[s] = "gone"
    BY DEF Drops
  <2>1. CASE queue' = queue
    BY <2>0, <2>1 DEF OrderInv, PlaceInv
  <2>2. CASE queue # << >> /\ queue' = Tail(queue)
    <3>1. k + 1 \in 1..Len(queue) /\ queue'[k] = queue[k + 1]
      BY <2>2, QueueTail DEF TypeOK
    <3>2. After(queue', k) = After(queue, k + 1)
      BY <2>2, QueueTail, LenProperties DEF TypeOK
    <3> QED BY <2>0, <3>1, <3>2 DEF OrderInv, PlaceInv
  <2> QED BY <2>1, <2>2 DEF Shrinks
<1>2. After(queue', 0) \subseteq After(queue, 0)
  <2>1. CASE queue # << >> /\ queue' = Tail(queue)
    <3>1. After(queue', 0) = After(queue, 1) /\ After(queue, 0) = {queue[1]} \cup After(queue, 1)
      BY <2>1, QueueTail DEF TypeOK
    <3> QED BY <3>1
  <2> QED BY <2>1 DEF Shrinks
<1>3. ToldInv'
  BY <1>2 DEF OrderInv, ToldInv, Drops, Closes, Here
<1>4. HandlerInv'
  <2> SUFFICES ASSUME NEW c \in Calls
               PROVE  /\ at'[c] \in JoinSteps => conn'[job'[c].sid] # "fresh"
                      /\ at'[c] \in LeaveSteps => /\ conn'[job'[c].sid] = "gone"
                                                  /\ Joined(job'[c].sid) \notin After(queue', 0)
                      /\ at'[c] \in {"end"} \cup FinalSteps /\ c \in Hooks => media' = "closed"
    BY DEF HandlerInv
  <2>1. ASSUME at'[c] \in JoinSteps PROVE conn'[job'[c].sid] # "fresh"
    BY <2>1 DEF Keeps, OrderInv, HandlerInv, Drops, CallsInv, WorkInv, Works
  <2>2. ASSUME at'[c] \in LeaveSteps
        PROVE  conn'[job'[c].sid] = "gone" /\ Joined(job'[c].sid) \notin After(queue', 0)
    BY <1>2, <2>2 DEF Keeps, OrderInv, HandlerInv, Drops, CallsInv, WorkInv, Works
  <2>3. ASSUME at'[c] \in {"end"} \cup FinalSteps, c \in Hooks PROVE media' = "closed"
    BY <2>3 DEF Keeps, OrderInv, HandlerInv, Closes
  <2> QED BY <2>1, <2>2, <2>3
<1> QED BY <1>1, <1>3, <1>4 DEF OrderInv

LEMMA ConnectOrder ==
  ASSUME TypeOK, CallsInv, OrderInv, NEW s \in Sids, Connect(s)
  PROVE  OrderInv'
<1>0. /\ queue' = Append(queue, Joined(s)) /\ Len(queue) \in Nat
      /\ media = "open" /\ media' = media /\ conn[s] = "fresh"
  BY LenProperties DEF Connect, Joined, TypeOK
<1>1. \A t \in Sids : /\ (conn'[t] = "fresh") <=> (conn[t] = "fresh" /\ t # s)
                      /\ (conn'[t] = "gone") <=> (conn[t] = "gone")
  BY DEF Connect, TypeOK
<1>2. /\ \A t \in Sids : Joined(s) # Left(t) /\ (Joined(t) = Joined(s) => t = s)
      /\ Joined(s) # Finished
  BY JoinedIs, LeftIs, FinishedIs
<1>3. Joined(s) \notin After(queue, 0)
  BY <1>0 DEF OrderInv, ToldInv
<1>4. After(queue', 0) = After(queue, 0) \cup {Joined(s)}
  BY <1>0, JoinedIs, QueueAppend DEF TypeOK
<1>5. PlaceInv'
  <2> SUFFICES ASSUME NEW k \in 1..Len(queue')
               PROVE  /\ queue'[k] \notin After(queue', k)
                      /\ queue'[k] = Finished => After(queue', k) = {}
                      /\ \A t \in Sids :
                           /\ queue'[k] = Left(t) => Joined(t) \notin After(queue', k)
                           /\ queue'[k] = Joined(t) /\ conn'[t] = "gone"
                                => Left(t) \in After(queue', k)
    BY DEF PlaceInv
  <2>1. CASE k \in 1..Len(queue)
    <3>1. queue'[k] = queue[k] /\ After(queue', k) = After(queue, k) \cup {Joined(s)}
      BY <1>0, <2>1, JoinedIs, QueueAppend DEF TypeOK
    <3>2. queue[k] \in After(queue, 0)
      BY <2>1 DEF After
    <3>3. queue[k] # Joined(s) /\ queue[k] # Finished /\ queue[k] # Left(s)
      BY <1>0, <1>3, <3>2 DEF OrderInv, ToldInv
    <3> QED BY <1>1, <1>2, <2>1, <3>1, <3>3 DEF OrderInv, PlaceInv
  <2>2. CASE k = Len(queue) + 1
    <3>1. queue'[k] = Joined(s) /\ After(queue', k) = {}
      BY <1>0, <2>2, JoinedIs, QueueAppend DEF TypeOK
    <3> QED BY <1>0, <1>1, <1>2, <3>1
  <2> QED BY <1>0, <2>1, <2>2, JoinedIs, QueueAppend DEF TypeOK
<1>6. ToldInv'
  BY <1>0, <1>1, <1>2, <1>4 DEF OrderInv, ToldInv
<1>7. HandlerInv'
  BY <1>0, <1>1, <1>2, <1>4 DEF Connect, OrderInv, HandlerInv, local, CallsInv, WorkInv, Works
<1> QED BY <1>5, <1>6, <1>7 DEF OrderInv

LEMMA LeaveOrder ==
  ASSUME TypeOK, CallsInv, OrderInv, NEW s \in Sids, Leave(s)
  PROVE  OrderInv'
<1>0. /\ queue' = Append(queue, Left(s)) /\ Len(queue) \in Nat
      /\ media' = media /\ media # "closed" /\ conn[s] \in {"in", "dropped"}
  BY LenProperties DEF Leave, Left, TypeOK, OrderInv, ToldInv, Here
<1>1. \A t \in Sids : /\ (conn'[t] = "fresh") <=> (conn[t] = "fresh")
                      /\ (conn'[t] = "gone") <=> (conn[t] = "gone" \/ t = s)
  BY DEF Leave, TypeOK
<1>2. /\ \A t \in Sids : Left(s) # Joined(t) /\ (Left(t) = Left(s) => t = s)
      /\ Left(s) # Finished
  BY JoinedIs, LeftIs, FinishedIs
<1>3. Left(s) \notin After(queue, 0)
  BY <1>0 DEF OrderInv, ToldInv
<1>4. After(queue', 0) = After(queue, 0) \cup {Left(s)}
  BY <1>0, LeftIs, QueueAppend DEF TypeOK
<1>5. PlaceInv'
  <2> SUFFICES ASSUME NEW k \in 1..Len(queue')
               PROVE  /\ queue'[k] \notin After(queue', k)
                      /\ queue'[k] = Finished => After(queue', k) = {}
                      /\ \A t \in Sids :
                           /\ queue'[k] = Left(t) => Joined(t) \notin After(queue', k)
                           /\ queue'[k] = Joined(t) /\ conn'[t] = "gone"
                                => Left(t) \in After(queue', k)
    BY DEF PlaceInv
  <2>1. CASE k \in 1..Len(queue)
    <3>1. queue'[k] = queue[k] /\ After(queue', k) = After(queue, k) \cup {Left(s)}
      BY <1>0, <2>1, LeftIs, QueueAppend DEF TypeOK
    <3>2. queue[k] \in After(queue, 0)
      BY <2>1 DEF After
    <3>3. queue[k] # Left(s) /\ queue[k] # Finished
      BY <1>0, <1>3, <3>2 DEF OrderInv, ToldInv
    <3> QED BY <1>1, <1>2, <2>1, <3>1, <3>3 DEF OrderInv, PlaceInv
  <2>2. CASE k = Len(queue) + 1
    <3>1. queue'[k] = Left(s) /\ After(queue', k) = {}
      BY <1>0, <2>2, LeftIs, QueueAppend DEF TypeOK
    <3> QED BY <1>1, <1>2, <3>1
  <2> QED BY <1>0, <2>1, <2>2, LeftIs, QueueAppend DEF TypeOK
<1>6. ToldInv'
  BY <1>0, <1>1, <1>2, <1>4 DEF OrderInv, ToldInv
<1>7. HandlerInv'
  BY <1>0, <1>1, <1>2, <1>4 DEF Leave, OrderInv, HandlerInv, local, CallsInv, WorkInv, Works
<1> QED BY <1>5, <1>6, <1>7 DEF OrderInv

LEMMA FinishOrder ==
  ASSUME TypeOK, CallsInv, OrderInv, FinishRoom
  PROVE  OrderInv'
<1>0. /\ queue' = Append(queue, Finished) /\ Len(queue) \in Nat
      /\ media # "closed" /\ media' = "closed" /\ conn' = conn
  BY LenProperties DEF FinishRoom, Finished, TypeOK
<1>2. \A t \in Sids : Finished # Joined(t) /\ Finished # Left(t)
  BY JoinedIs, LeftIs, FinishedIs
<1>4. After(queue', 0) = After(queue, 0) \cup {Finished}
  BY <1>0, FinishedIs, QueueAppend DEF TypeOK
<1>5. PlaceInv'
  <2> SUFFICES ASSUME NEW k \in 1..Len(queue')
               PROVE  /\ queue'[k] \notin After(queue', k)
                      /\ queue'[k] = Finished => After(queue', k) = {}
                      /\ \A t \in Sids :
                           /\ queue'[k] = Left(t) => Joined(t) \notin After(queue', k)
                           /\ queue'[k] = Joined(t) /\ conn'[t] = "gone"
                                => Left(t) \in After(queue', k)
    BY DEF PlaceInv
  <2>1. CASE k \in 1..Len(queue)
    <3>1. queue'[k] = queue[k] /\ After(queue', k) = After(queue, k) \cup {Finished}
      BY <1>0, <2>1, FinishedIs, QueueAppend DEF TypeOK
    <3>2. queue[k] \in After(queue, 0)
      BY <2>1 DEF After
    <3>3. queue[k] # Finished
      BY <1>0, <3>2 DEF OrderInv, ToldInv
    <3> QED BY <1>0, <1>2, <2>1, <3>1, <3>3 DEF OrderInv, PlaceInv
  <2>2. CASE k = Len(queue) + 1
    <3>1. queue'[k] = Finished /\ After(queue', k) = {}
      BY <1>0, <2>2, FinishedIs, QueueAppend DEF TypeOK
    <3> QED BY <1>2, <3>1
  <2> QED BY <1>0, <2>1, <2>2, FinishedIs, QueueAppend DEF TypeOK
<1>6. ToldInv'
  BY <1>0, <1>2, <1>4 DEF FinishRoom, OrderInv, ToldInv, Here
<1>7. HandlerInv'
  BY <1>0, <1>2, <1>4 DEF FinishRoom, OrderInv, HandlerInv, local, CallsInv, WorkInv, Works
<1> QED BY <1>5, <1>6, <1>7 DEF OrderInv

\* What a handler is given to do.
LEMMA DeliverIs ==
  ASSUME TypeOK, NEW h \in Hooks, Deliver(h)
  PROVE  /\ h \in Calls /\ at[h] = "idle" /\ queue # << >> /\ queue[1] \in Events
         /\ job'[h] = queue[1] /\ queue[1] \in After(queue, 0)
         /\ \A d \in Calls : d # h => at'[d] = at[d] /\ job'[d] = job[d]
         /\ \/ queue[1].sid \in Sids /\ queue[1] = Joined(queue[1].sid) /\ at'[h] = "find"
            \/ queue[1].sid \in Sids /\ queue[1] = Left(queue[1].sid) /\ at'[h] = "close"
            \/ queue[1] = Finished /\ at'[h] = "end"
<1>0. h \in Calls /\ at[h] = "idle" /\ queue # << >>
  BY DEF Calls, Deliver
<1>1. Head(queue) = queue[1] /\ queue[1] \in Events /\ queue[1] \in After(queue, 0)
  BY <1>0, QueueTail DEF TypeOK
<1>2. job'[h] = queue[1] /\ \A d \in Calls : d # h => at'[d] = at[d] /\ job'[d] = job[d]
  BY <1>0, <1>1 DEF Deliver, TypeOK
<1>3. CASE queue[1].sid \in Sids /\ queue[1].type = "joined" /\ queue[1] = Joined(queue[1].sid)
  <2>1. at'[h] = "find"
    BY <1>0, <1>1, <1>3 DEF Deliver, TypeOK
  <2> QED BY <1>0, <1>1, <1>2, <1>3, <2>1
<1>4. CASE queue[1].sid \in Sids /\ queue[1].type = "left" /\ queue[1] = Left(queue[1].sid)
  <2>1. at'[h] = "close"
    BY <1>0, <1>1, <1>4 DEF Deliver, TypeOK
  <2> QED BY <1>0, <1>1, <1>2, <1>4, <2>1
<1>5. CASE queue[1].type = "finished" /\ queue[1] = Finished
  <2>1. at'[h] = "end"
    BY <1>0, <1>1, <1>5 DEF Deliver, TypeOK
  <2> QED BY <1>0, <1>1, <1>2, <1>5, <2>1
<1> QED BY <1>1, <1>3, <1>4, <1>5, EventCases

LEMMA DeliverOrder ==
  ASSUME TypeOK, CallsInv, OrderInv, NEW h \in Hooks, Deliver(h)
  PROVE  OrderInv'
<1>0. queue' = queue /\ conn' = conn /\ media' = media
  BY DEF Deliver
<1>1. PlaceInv' /\ ToldInv'
  BY <1>0 DEF OrderInv, PlaceInv, ToldInv, Here
<1>2. ASSUME NEW d \in Calls, d # h
      PROVE  /\ at'[d] \in JoinSteps => conn'[job'[d].sid] # "fresh"
             /\ at'[d] \in LeaveSteps => /\ conn'[job'[d].sid] = "gone"
                                         /\ Joined(job'[d].sid) \notin After(queue', 0)
             /\ at'[d] \in {"end"} \cup FinalSteps /\ d \in Hooks => media' = "closed"
  BY <1>0, <1>2, DeliverIs DEF OrderInv, HandlerInv
<1>3. /\ at'[h] \in JoinSteps => conn'[job'[h].sid] # "fresh"
      /\ at'[h] \in LeaveSteps => /\ conn'[job'[h].sid] = "gone"
                                  /\ Joined(job'[h].sid) \notin After(queue', 0)
      /\ at'[h] \in {"end"} \cup FinalSteps /\ h \in Hooks => media' = "closed"
  <2> DEFINE s == queue[1].sid
  <2>0. 1 \in 1..Len(queue) /\ After(queue, 0) = {queue[1]} \cup After(queue, 1)
    <3>1. Len(queue) \in Nat \ {0} /\ After(queue, 0) = {queue[1]} \cup After(queue, 1)
      BY DeliverIs, QueueTail DEF TypeOK
    <3> QED BY <3>1
  <2>1. CASE s \in Sids /\ queue[1] = Joined(s) /\ at'[h] = "find"
    BY <1>0, <2>1, DeliverIs DEF OrderInv, ToldInv, LeaveSteps, FinalSteps
  <2>2. CASE s \in Sids /\ queue[1] = Left(s) /\ at'[h] = "close"
    <3>1. conn[s] = "gone"
      BY <2>2, DeliverIs DEF OrderInv, ToldInv
    <3>2. Joined(s) \notin After(queue, 1) /\ Joined(s) # queue[1]
      BY <2>0, <2>2, JoinedIs, LeftIs DEF OrderInv, PlaceInv
    <3> QED BY <1>0, <2>0, <2>2, <3>1, <3>2, DeliverIs DEF JoinSteps, FinalSteps
  <2>3. CASE queue[1] = Finished /\ at'[h] = "end"
    BY <1>0, <2>3, DeliverIs DEF OrderInv, ToldInv, JoinSteps, LeaveSteps
  <2> QED BY <2>1, <2>2, <2>3, DeliverIs
<1>4. HandlerInv'
  BY <1>2, <1>3 DEF HandlerInv
<1> QED BY <1>1, <1>4 DEF OrderInv

LEMMA OrderStep ==
  ASSUME TypeOK, CallsInv, OrderInv, [Next]_vars
  PROVE  OrderInv'
<1>1. ASSUME NEW s \in Sids, Connect(s) \/ Leave(s)
      PROVE  OrderInv'
  BY <1>1, ConnectOrder, LeaveOrder
<1>2. CASE FinishRoom
  BY <1>2, FinishOrder
<1>3. ASSUME NEW h \in Hooks, Deliver(h)
      PROVE  OrderInv'
  BY <1>3, DeliverOrder
<1>4. CASE TimeOut
  BY <1>4, FrameOrder DEF TimeOut, Drops, Shrinks, Closes, Keeps, local
<1>5. CASE GiveUp
  BY <1>5, FrameOrder DEF GiveUp, Drops, Shrinks, Closes, Keeps, local
<1>6. ASSUME NEW r \in Requests, EndByHost(r) \/ \E u \in Users : Kick(r, u)
      PROVE  OrderInv'
  <2>0. r \in Calls /\ r \notin Hooks
    BY CallsAssumption DEF Calls
  <2>1. PICK step \in {"end", "drop"} : Goto(r, step)
    BY <1>6 DEF EndByHost, Kick
  <2>2. \A d \in Calls : d # r => job'[d] = job[d]
    BY <1>6 DEF EndByHost, Kick, TypeOK
  <2>3. at'[r] = step /\ \A d \in Calls : d # r => at'[d] = at[d]
    BY <2>0, <2>1, GotoIs DEF Steps
  <2>4. Keeps
    BY <2>0, <2>2, <2>3 DEF Keeps, JoinSteps, LeaveSteps
  <2> QED BY <1>6, <2>4, FrameOrder DEF EndByHost, Kick, Drops, Shrinks, Closes, livekit
<1>7. ASSUME NEW c \in Calls, Step(c) \/ Fail(c)
      PROVE  OrderInv'
  BY <1>7, StepFrame, FrameOrder
<1>8. CASE UNCHANGED vars
  BY <1>8, FrameOrder DEF vars, Drops, Shrinks, Closes, Keeps
<1> QED BY <1>1, <1>2, <1>3, <1>4, <1>5, <1>6, <1>7, <1>8 DEF Next

-----------------------------------------------------------------------------
(* The meeting's documents *)

\* Nobody settles a meeting that is active.
ActiveInv ==
  status = "ACTIVE" => /\ \A c \in Calls : at[c] \notin FinalSteps \cup {"media"}
                       /\ \A s \in Sids : sessions[s] # "ended"

\* A session is of a connection LiveKit has had, and of a participant.
SessionInv ==
  \A s \in Sids :
    /\ conn[s] = "fresh" => sessions[s] = "none"
    /\ sessions[s] = "left" => conn[s] = "gone" /\ Joined(s) \notin After(queue, 0)
    /\ Owner[s] \notin docs => sessions[s] = "none" /\ totals[s] = "none"

\* What a call has found or written stays true.
FoundInv ==
  \A c \in Calls :
    /\ at[c] = "remove" => status = "ENDED" \/ Member(c) \notin members
    /\ at[c] \in {"active", "eject"} => job[c].user \notin members
    /\ at[c] = "push" => Member(c) \in docs
    /\ at[c] \in {"sadd", "count"} => sessions[job[c].sid] # "none"
    /\ todo[c] \subseteq docs

DataInv == ActiveInv /\ SessionInv /\ FoundInv

\* Members only leave, participants and their sessions are never deleted.
Grows ==
  /\ status = "ENDED" => status' = "ENDED"
  /\ members' \subseteq members
  /\ docs \subseteq docs'
  /\ \A s \in Sids : sessions[s] # "none" => sessions'[s] # "none"

LEMMA ShrinksBehind ==
  ASSUME TypeOK, Shrinks
  PROVE  After(queue', 0) \subseteq After(queue, 0)
<1>1. CASE queue # << >> /\ queue' = Tail(queue)
  <2>1. After(queue', 0) = After(queue, 1) /\ After(queue, 0) = {queue[1]} \cup After(queue, 1)
    BY <1>1, QueueTail DEF TypeOK
  <2> QED BY <2>1
<1> QED BY <1>1 DEF Shrinks

\* Which steps write sessions and totals.
LEMMA StepWrites ==
  ASSUME TypeOK, NEW c \in Calls, Step(c) \/ Fail(c)
  PROVE  /\ Grows
         /\ \/ PushSession(c) \/ CloseSession(c) \/ ShutSessions(c)
            \/ \E u \in Users : WriteTotal(c, u)
            \/ sessions' = sessions /\ totals' = totals
<1>1. CASE JoinStep(c)
  BY <1>1 DEF JoinStep, FindMeeting, CheckAccess, RemoveIntruder, UpsertParticipant,
     PushSession, AddPresence, CountPeak, meeting, Grows, TypeOK
<1>2. CASE LeaveStep(c)
  BY <1>2 DEF LeaveStep, CloseSession, CheckStillIn, RemovePresence, meeting, Grows, TypeOK
<1>3. CASE EndMeeting(c) \/ ReadParticipants(c) \/ WriteStats(c) \/ DelPresence(c)
             \/ CloseMediaRoom(c) \/ \E u \in Users : WriteTotal(c, u)
  BY <1>3 DEF EndMeeting, ReadParticipants, WriteStats, DelPresence, CloseMediaRoom,
     WriteTotal, meeting, Grows, TypeOK
<1>4. CASE ShutSessions(c)
  BY <1>4 DEF ShutSessions, Grows, TypeOK
<1>5. CASE KickStep(c)
  BY <1>5 DEF KickStep, RemoveMember, FindActive, Eject, meeting, Grows, TypeOK
<1>6. CASE Fail(c)
  BY <1>6 DEF Fail, meeting, Grows, TypeOK
<1> QED BY <1>1, <1>2, <1>3, <1>4, <1>5, <1>6 DEF Step, EndStep

LEMMA DataInit == Init => DataInv
<1> SUFFICES ASSUME Init PROVE DataInv
  OBVIOUS
<1>1. ActiveInv
  BY DEF Init, ActiveInv, FinalSteps
<1>2. SessionInv
  BY DEF Init, SessionInv
<1>3. FoundInv
  BY DEF Init, FoundInv
<1> QED BY <1>1, <1>2, <1>3 DEF DataInv

LEMMA StepSession ==
  ASSUME TypeOK, CallsInv, OrderInv, DataInv, NEW c \in Calls, Step(c) \/ Fail(c)
  PROVE  SessionInv'
<1>1. /\ \A s \in Sids : (conn'[s] = "fresh" => conn[s] = "fresh")
      /\ \A s \in Sids : (conn[s] = "gone" => conn'[s] = "gone")
      /\ After(queue', 0) \subseteq After(queue, 0)
      /\ docs \subseteq docs'
  BY StepFrame, StepWrites, ShrinksBehind DEF Drops, Grows
<1>2. CASE PushSession(c)
  <2>1. job[c].sid \in Sids /\ conn[job[c].sid] # "fresh" /\ Owner[job[c].sid] \in docs
    BY <1>2 DEF PushSession, CallsInv, WorkInv, Works, JoinSteps, OrderInv, HandlerInv,
       DataInv, FoundInv, Member
  <2>2. \A s \in Sids : sessions'[s] = sessions[s] \/ (s = job[c].sid /\ sessions'[s] = "open")
    BY <1>2 DEF PushSession, TypeOK
  <2>3. totals' = totals
    BY <1>2 DEF PushSession
  <2> QED BY <1>1, <2>1, <2>2, <2>3 DEF DataInv, SessionInv
<1>3. CASE CloseSession(c)
  <2>1. /\ job[c].sid \in Sids /\ conn[job[c].sid] = "gone"
        /\ Joined(job[c].sid) \notin After(queue, 0)
    BY <1>3 DEF CloseSession, CallsInv, WorkInv, Works, LeaveSteps, OrderInv, HandlerInv
  <2>2. \A s \in Sids : \/ sessions'[s] = sessions[s]
                        \/ s = job[c].sid /\ sessions[s] = "open" /\ sessions'[s] = "left"
    BY <1>3 DEF CloseSession, TypeOK
  <2>3. totals' = totals
    BY <1>3 DEF CloseSession
  <2> QED BY <1>1, <2>1, <2>2, <2>3 DEF DataInv, SessionInv
<1>4. CASE ShutSessions(c)
  <2>1. \A s \in Sids : \/ sessions'[s] = sessions[s]
                        \/ sessions[s] = "open" /\ sessions'[s] = "ended"
    BY <1>4 DEF ShutSessions, TypeOK
  <2>2. totals' = totals
    BY <1>4 DEF ShutSessions
  <2> QED BY <1>1, <2>1, <2>2 DEF DataInv, SessionInv
<1>5. ASSUME NEW u \in Users, WriteTotal(c, u)
      PROVE  SessionInv'
  <2>1. u \in docs
    BY <1>5 DEF WriteTotal, DataInv, FoundInv
  <2>2. \A s \in Sids : Owner[s] \notin docs => totals'[s] = totals[s]
    BY <1>5, <2>1 DEF WriteTotal
  <2>3. sessions' = sessions
    BY <1>5 DEF WriteTotal
  <2> QED BY <1>1, <2>2, <2>3 DEF DataInv, SessionInv
<1>6. CASE sessions' = sessions /\ totals' = totals
  BY <1>1, <1>6 DEF DataInv, SessionInv
<1> QED BY <1>2, <1>3, <1>4, <1>5, <1>6, StepWrites

\* What the other calls have found is not disturbed.
Finds(c) ==
  /\ at[c] = "remove" => status = "ENDED" \/ Member(c) \notin members
  /\ at[c] \in {"active", "eject"} => job[c].user \notin members
  /\ at[c] = "push" => Member(c) \in docs
  /\ at[c] \in {"sadd", "count"} => sessions[job[c].sid] # "none"
  /\ todo[c] \subseteq docs

LEMMA OtherFinds ==
  ASSUME TypeOK, CallsInv, DataInv, Grows, NEW d \in Calls,
         at'[d] = at[d], job'[d] = job[d], todo'[d] = todo[d]
  PROVE  Finds(d)'
<1>1. at[d] \in {"sadd", "count"} => job[d].sid \in Sids
  BY DEF CallsInv, WorkInv, Works, JoinSteps
<1> QED BY <1>1 DEF DataInv, FoundInv, Finds, Grows, Member

LEMMA ForgetFinds ==
  ASSUME TypeOK, NEW c \in Calls, Forget(c)
  PROVE  Finds(c)' /\ at'[c] \notin FinalSteps \cup {"media"}
BY ForgetIs DEF Finds, FinalSteps

LEMMA StepFinds ==
  ASSUME TypeOK, CallsInv, DataInv, NEW c \in Calls, Step(c) \/ Fail(c)
  PROVE  Finds(c)' /\ (status' = "ACTIVE" => at'[c] \notin FinalSteps \cup {"media"})
<1>0. Grows
  BY StepWrites
<1>1. CASE FindMeeting(c)
  <2>1. at'[c] = IF status = "ACTIVE" THEN "access" ELSE "remove"
    BY <1>1, GotoIs DEF FindMeeting, Steps, JoinSteps, LeaveSteps, FinalSteps
  <2> QED BY <1>1, <2>1 DEF FindMeeting, meeting, TypeOK, Finds, DataInv, FoundInv, ActiveInv, FinalSteps, Grows, Member
<1>2. CASE CheckAccess(c)
  <2>1. at'[c] = IF Owner[job[c].sid] \in members THEN "upsert" ELSE "remove"
    BY <1>2, GotoIs DEF CheckAccess, Steps, JoinSteps, LeaveSteps, FinalSteps
  <2> QED BY <1>2, <2>1 DEF CheckAccess, meeting, Finds, DataInv, FoundInv, ActiveInv, FinalSteps, Grows, Member
<1>3. CASE RemoveIntruder(c)
  BY <1>3, ForgetFinds DEF RemoveIntruder, Answer
<1>4. CASE UpsertParticipant(c)
  <2>1. at'[c] \in {"push"}
    BY <1>4, GotoIs DEF UpsertParticipant, Steps, JoinSteps, LeaveSteps, FinalSteps
  <2> QED BY <1>4, <2>1 DEF UpsertParticipant, meeting, Finds, DataInv, FoundInv, ActiveInv, FinalSteps, Grows, Member
<1>5. CASE PushSession(c)
  <2>1. at'[c] = "sadd"
    BY <1>5, GotoIs DEF PushSession, Steps, JoinSteps, LeaveSteps, FinalSteps
  <2>2. job[c].sid \in Sids
    BY <1>5 DEF PushSession, CallsInv, WorkInv, Works, JoinSteps
  <2>3. sessions'[job[c].sid] # "none"
    BY <1>5, <2>2 DEF PushSession, TypeOK
  <2> QED BY <1>5, <2>1, <2>3 DEF PushSession, Finds, DataInv, FoundInv, ActiveInv, FinalSteps, Grows, Member
<1>6. CASE AddPresence(c)
  <2>1. at'[c] \in {"count"}
    BY <1>6, GotoIs DEF AddPresence, Steps, JoinSteps, LeaveSteps, FinalSteps
  <2> QED BY <1>6, <2>1 DEF AddPresence, meeting, Finds, DataInv, FoundInv, ActiveInv, FinalSteps, Grows, Member
<1>7. CASE CountPeak(c)
  BY <1>7, ForgetFinds DEF CountPeak, Answer
<1>8. CASE CloseSession(c)
  <2>1. at'[c] \in {"still"}
    BY <1>8, GotoIs DEF CloseSession, Steps, JoinSteps, LeaveSteps, FinalSteps
  <2> QED BY <1>8, <2>1 DEF CloseSession, meeting, Finds, DataInv, FoundInv, ActiveInv, FinalSteps, Grows, Member
<1>9. CASE CheckStillIn(c)
  <2>1. CASE Answer(c)
    BY <2>1, ForgetFinds DEF Answer
  <2>2. CASE Goto(c, "srem") /\ UNCHANGED <<queue, sent, job, seen, todo>>
    <3>1. at'[c] = "srem"
      BY <2>2, GotoIs DEF Steps, JoinSteps, LeaveSteps, FinalSteps
    <3> QED BY <1>0, <1>9, <2>2, <3>1 DEF CheckStillIn, meeting, Finds, DataInv, FoundInv, ActiveInv, FinalSteps, Grows, Member
  <2> QED BY <1>9, <2>1, <2>2 DEF CheckStillIn
<1>10. CASE RemovePresence(c)
  BY <1>10, ForgetFinds DEF RemovePresence, Answer
<1>11. CASE EndMeeting(c)
  <2>1. at'[c] \in {"shut"}
    BY <1>11, GotoIs DEF EndMeeting, Steps, JoinSteps, LeaveSteps, FinalSteps
  <2> QED BY <1>11, <2>1 DEF EndMeeting, meeting, Finds, DataInv, FoundInv, ActiveInv, FinalSteps, Grows, Member
<1>12. CASE ShutSessions(c)
  <2>1. at'[c] \in {"read"}
    BY <1>12, GotoIs DEF ShutSessions, Steps, JoinSteps, LeaveSteps, FinalSteps
  <2> QED BY <1>12, <2>1 DEF ShutSessions, meeting, Finds, DataInv, FoundInv, ActiveInv, FinalSteps, Grows, Member
<1>13. CASE ReadParticipants(c)
  <2>1. at'[c] \in {"totals"}
    BY <1>13, GotoIs DEF ReadParticipants, Steps, JoinSteps, LeaveSteps, FinalSteps
  <2>2. todo'[c] = docs
    BY <1>13 DEF ReadParticipants, TypeOK
  <2> QED BY <1>13, <2>1, <2>2 DEF ReadParticipants, meeting, Finds, DataInv, FoundInv, ActiveInv, FinalSteps, Grows, Member
<1>14. ASSUME NEW u \in Users, WriteTotal(c, u)
      PROVE  Finds(c)' /\ (status' = "ACTIVE" => at'[c] \notin FinalSteps \cup {"media"})
  <2>1. at'[c] = "totals" /\ todo'[c] \subseteq todo[c]
    BY <1>14 DEF WriteTotal, TypeOK
  <2> QED BY <1>14, <2>1 DEF WriteTotal, Finds, DataInv, FoundInv, ActiveInv, FinalSteps, Grows, Member
<1>15. CASE WriteStats(c)
  <2>1. at'[c] \in {"del"}
    BY <1>15, GotoIs DEF WriteStats, Steps, JoinSteps, LeaveSteps, FinalSteps
  <2> QED BY <1>15, <2>1 DEF WriteStats, meeting, Finds, DataInv, FoundInv, ActiveInv, FinalSteps, Grows, Member
<1>16. CASE DelPresence(c)
  <2>1. CASE Answer(c)
    BY <2>1, ForgetFinds DEF Answer
  <2>2. CASE Goto(c, "media") /\ UNCHANGED <<queue, sent, job, seen, todo>>
    <3>1. at'[c] = "media"
      BY <2>2, GotoIs DEF Steps, JoinSteps, LeaveSteps, FinalSteps
    <3> QED BY <1>0, <1>16, <2>2, <3>1 DEF DelPresence, meeting, Finds, DataInv, FoundInv, ActiveInv, FinalSteps, Grows, Member
  <2> QED BY <1>16, <2>1, <2>2 DEF DelPresence
<1>17. CASE CloseMediaRoom(c)
  BY <1>17, ForgetFinds DEF CloseMediaRoom
<1>18. CASE RemoveMember(c)
  <2>1. CASE Forget(c)
    BY <2>1, ForgetFinds
  <2>2. CASE Goto(c, "active") /\ UNCHANGED <<job, seen, todo>>
    <3>1. at'[c] = "active"
      BY <2>2, GotoIs DEF Steps, JoinSteps, LeaveSteps, FinalSteps
    <3> QED BY <1>0, <1>18, <2>2, <3>1 DEF RemoveMember, Finds, DataInv, FoundInv, FinalSteps, Grows
  <2> QED BY <1>18, <2>1, <2>2 DEF RemoveMember
<1>19. CASE FindActive(c)
  <2>1. CASE Forget(c)
    BY <2>1, ForgetFinds
  <2>2. CASE Goto(c, "eject") /\ UNCHANGED <<job, seen, todo>>
    <3>1. at'[c] = "eject"
      BY <2>2, GotoIs DEF Steps, JoinSteps, LeaveSteps, FinalSteps
    <3> QED BY <1>0, <1>19, <2>2, <3>1 DEF FindActive, Finds, DataInv, FoundInv, FinalSteps, Grows
  <2> QED BY <1>19, <2>1, <2>2 DEF FindActive
<1>20. CASE Eject(c)
  BY <1>20, ForgetFinds DEF Eject
<1>21. CASE Fail(c)
  BY <1>21, ForgetFinds DEF Fail
<1> QED
  BY <1>1, <1>2, <1>3, <1>4, <1>5, <1>6, <1>7, <1>8, <1>9, <1>10, <1>11,
     <1>12, <1>13, <1>14, <1>15, <1>16, <1>17, <1>18, <1>19, <1>20, <1>21
  DEF Step, JoinStep, LeaveStep, EndStep, KickStep

LEMMA StepOthers ==
  ASSUME TypeOK, NEW c \in Calls, Step(c) \/ Fail(c)
  PROVE  \A d \in Calls : d # c => /\ at'[d] = at[d] /\ job'[d] = job[d]
                                   /\ seen'[d] = seen[d] /\ todo'[d] = todo[d]
<1>1. CASE JoinStep(c)
  BY <1>1, ForgetIs DEF JoinStep, FindMeeting, CheckAccess, RemoveIntruder, UpsertParticipant,
     PushSession, AddPresence, CountPeak, Answer, Goto, TypeOK
<1>2. CASE LeaveStep(c)
  BY <1>2, ForgetIs DEF LeaveStep, CloseSession, CheckStillIn, RemovePresence, Answer, Goto,
     TypeOK
<1>3. CASE EndStep(c)
  BY <1>3, ForgetIs DEF EndStep, EndMeeting, ShutSessions, ReadParticipants, WriteStats,
     DelPresence, CloseMediaRoom, WriteTotal, Answer, Goto, TypeOK
<1>4. CASE KickStep(c)
  BY <1>4, ForgetIs DEF KickStep, RemoveMember, FindActive, Eject, Goto, TypeOK
<1>5. CASE Fail(c)
  BY <1>5, ForgetIs DEF Fail
<1> QED BY <1>1, <1>2, <1>3, <1>4, <1>5 DEF Step

LEMMA StepData ==
  ASSUME TypeOK, CallsInv, OrderInv, DataInv, NEW c \in Calls, Step(c) \/ Fail(c)
  PROVE  DataInv'
<1>1. SessionInv'
  BY StepSession
<1>2. FoundInv'
  <2>1. \A d \in Calls : Finds(d)'
    BY StepFinds, StepOthers, StepWrites, OtherFinds
  <2> QED BY <2>1 DEF FoundInv, Finds
<1>3. ActiveInv'
  <2> SUFFICES ASSUME status' = "ACTIVE"
               PROVE  /\ \A d \in Calls : at'[d] \notin FinalSteps \cup {"media"}
                      /\ \A s \in Sids : sessions'[s] # "ended"
    BY DEF ActiveInv
  <2>1. status = "ACTIVE"
    BY StepWrites DEF Grows, TypeOK
  <2>2. \A d \in Calls : at'[d] \notin FinalSteps \cup {"media"}
    BY <2>1, StepFinds, StepOthers DEF DataInv, ActiveInv
  <2>3. \A s \in Sids : sessions'[s] # "ended"
    <3>1. at[c] \notin FinalSteps
      BY <2>1 DEF DataInv, ActiveInv
    <3>2. CASE PushSession(c) \/ CloseSession(c)
      BY <2>1, <3>2 DEF PushSession, CloseSession, DataInv, ActiveInv, TypeOK
    <3>3. CASE ShutSessions(c) \/ \E u \in Users : WriteTotal(c, u)
      BY <3>1, <3>3 DEF ShutSessions, WriteTotal, FinalSteps
    <3>4. CASE sessions' = sessions
      BY <2>1, <3>4 DEF DataInv, ActiveInv
    <3> QED BY <3>2, <3>3, <3>4, StepWrites
  <2> QED BY <2>2, <2>3
<1> QED BY <1>1, <1>2, <1>3 DEF DataInv

\* LiveKit's own steps and the start of a request touch no document.
LEMMA EnvData ==
  ASSUME TypeOK, CallsInv, DataInv, Grows,
         UNCHANGED <<status, sessions, totals, docs, todo>>,
         \A d \in Calls : \/ at'[d] = at[d] /\ job'[d] = job[d]
                          \/ at'[d] \in {"find", "close", "end", "drop"},
         \A s \in Sids : /\ conn'[s] = "fresh" => conn[s] = "fresh"
                         /\ conn[s] = "gone" => conn'[s] = "gone"
                         /\ conn[s] = "gone" /\ Joined(s) \in After(queue', 0)
                              => Joined(s) \in After(queue, 0)
  PROVE  DataInv'
<1>1. ActiveInv'
  BY DEF DataInv, ActiveInv, FinalSteps
<1>2. SessionInv'
  BY DEF DataInv, SessionInv
<1>3. FoundInv'
  <2>1. ASSUME NEW d \in Calls PROVE Finds(d)'
    <3>1. CASE at'[d] = at[d] /\ job'[d] = job[d]
      BY <3>1, OtherFinds
    <3>2. CASE at'[d] \in {"find", "close", "end", "drop"}
      BY <3>2 DEF Finds, DataInv, FoundInv
    <3> QED BY <3>1, <3>2
  <2> QED BY <2>1 DEF FoundInv, Finds
<1> QED BY <1>1, <1>2, <1>3 DEF DataInv

LEMMA DataStep ==
  ASSUME TypeOK, CallsInv, OrderInv, DataInv, [Next]_vars
  PROVE  DataInv'
<1>0. ASSUME UNCHANGED <<status, members, docs, sessions>>
      PROVE  Grows
  BY <1>0 DEF Grows
<1>1. ASSUME NEW s \in Sids, Connect(s)
      PROVE  DataInv'
  <2>1. After(queue', 0) = After(queue, 0) \cup {Joined(s)}
    BY <1>1, JoinedIs, QueueAppend, LenProperties DEF Connect, Joined, TypeOK
  <2>2. \A t \in Sids : t # s => Joined(t) # Joined(s)
    BY JoinedIs
  <2>3. \A t \in Sids : /\ conn'[t] = "fresh" => conn[t] = "fresh"
                        /\ conn[t] = "gone" => conn'[t] = "gone" /\ t # s
    BY <1>1 DEF Connect, TypeOK
  <2> QED BY <1>0, <1>1, <2>1, <2>2, <2>3, EnvData DEF Connect, meeting, local
<1>2. ASSUME NEW s \in Sids, Leave(s)
      PROVE  DataInv'
  <2>1. After(queue', 0) = After(queue, 0) \cup {Left(s)}
    BY <1>2, LeftIs, QueueAppend, LenProperties DEF Leave, Left, TypeOK
  <2>2. \A t \in Sids : Joined(t) # Left(s)
    BY JoinedIs, LeftIs
  <2>3. \A t \in Sids : /\ conn'[t] = "fresh" => conn[t] = "fresh"
                        /\ conn[t] = "gone" => conn'[t] = "gone"
    BY <1>2 DEF Leave, TypeOK
  <2> QED BY <1>0, <1>2, <2>1, <2>2, <2>3, EnvData DEF Leave, meeting, local
<1>3. CASE FinishRoom
  <2>1. After(queue', 0) = After(queue, 0) \cup {Finished}
    BY <1>3, FinishedIs, QueueAppend, LenProperties DEF FinishRoom, Finished, TypeOK
  <2>2. \A t \in Sids : Joined(t) # Finished
    BY JoinedIs, FinishedIs
  <2> QED BY <1>0, <1>3, <2>1, <2>2, EnvData DEF FinishRoom, meeting, local
<1>4. ASSUME NEW h \in Hooks, Deliver(h)
      PROVE  DataInv'
  <2>1. \A d \in Calls : \/ at'[d] = at[d] /\ job'[d] = job[d]
                         \/ at'[d] \in {"find", "close", "end", "drop"}
    BY <1>4, DeliverIs
  <2> QED BY <1>0, <1>4, <2>1, EnvData DEF Deliver, meeting
<1>5. CASE TimeOut
  BY <1>0, <1>5, EnvData DEF TimeOut, meeting, local
<1>6. CASE GiveUp
  <2>1. After(queue', 0) \subseteq After(queue, 0)
    BY <1>6, ShrinksBehind DEF GiveUp, Shrinks
  <2> QED BY <1>0, <1>6, <2>1, EnvData DEF GiveUp, meeting, local
<1>7. ASSUME NEW r \in Requests, EndByHost(r) \/ \E u \in Users : Kick(r, u)
      PROVE  DataInv'
  <2>1. PICK step \in {"end", "drop"} : Goto(r, step)
    BY <1>7 DEF EndByHost, Kick
  <2>2. \A d \in Calls : \/ at'[d] = at[d] /\ job'[d] = job[d]
                         \/ at'[d] \in {"find", "close", "end", "drop"}
    BY <1>7, <2>1, GotoIs DEF EndByHost, Kick, TypeOK, Steps, Calls
  <2> QED BY <1>0, <1>7, <2>2, EnvData DEF EndByHost, Kick, meeting, livekit
<1>8. ASSUME NEW c \in Calls, Step(c) \/ Fail(c)
      PROVE  DataInv'
  BY <1>8, StepData
<1>9. CASE UNCHANGED vars
  BY <1>0, <1>9, EnvData DEF vars
<1> QED BY <1>1, <1>2, <1>3, <1>4, <1>5, <1>6, <1>7, <1>8, <1>9 DEF Next

-----------------------------------------------------------------------------
(* Who is no longer a member leaves the call *)

\* How many events of the queue have had their membership check.
Settling == {"upsert", "push", "sadd", "count"}
Unchecked == IF sent # NoCall /\ at[sent] \in Settling THEN 1 ELSE 0

\* While the meeting is active: his join is still to be checked, or the kick
\* has still to reach LiveKit.
GoingInv ==
  lost = 0 /\ status = "ACTIVE" =>
    \A s \in Sids : conn[s] = "in" /\ Owner[s] \notin members =>
      \/ Joined(s) \in After(queue, Unchecked)
      \/ \E c \in Calls : at[c] \in {"active", "eject"} /\ job[c].user = Owner[s]

\* When it has ended: the host's request has still to close LiveKit's room, or
\* everybody is dropped.
ClosingInv ==
  failures = 0 /\ status = "ENDED" =>
    \/ media = "closed"
    \/ \E r \in Requests : at[r] \in FinalSteps \cup {"media"}
    \/ media # "open" /\ \A s \in Sids : conn[s] # "in"

KickInv == GoingInv /\ ClosingInv

LEMMA KickInit == Init => KickInv
BY DEF Init, KickInv, GoingInv, ClosingInv

LEMMA ClosingStep ==
  ASSUME TypeOK, CallsInv, OrderInv, KickInv, [Next]_vars
  PROVE  ClosingInv'
<1> SUFFICES ASSUME failures' = 0, status' = "ENDED"
             PROVE  \/ media' = "closed"
                    \/ \E r \in Requests : at'[r] \in FinalSteps \cup {"media"}
                    \/ media' # "open" /\ \A s \in Sids : conn'[s] # "in"
  BY DEF ClosingInv
<1> DEFINE Closed == \/ media' = "closed"
                     \/ \E r \in Requests : at'[r] \in FinalSteps \cup {"media"}
                     \/ media' # "open" /\ \A s \in Sids : conn'[s] # "in"
<1>1. ASSUME NEW s \in Sids, Connect(s) \/ Leave(s)
      PROVE  Closed
  BY <1>1 DEF Connect, Leave, KickInv, ClosingInv, meeting, local, bounds, TypeOK
<1>2. CASE FinishRoom \/ TimeOut \/ GiveUp \/ UNCHANGED vars
  BY <1>2 DEF FinishRoom, TimeOut, GiveUp, KickInv, ClosingInv, meeting, local, bounds, vars
<1>3. ASSUME NEW h \in Hooks, Deliver(h)
      PROVE  Closed
  BY <1>3, CallsAssumption, DeliverIs DEF Deliver, KickInv, ClosingInv, meeting, bounds, Calls
<1>4. ASSUME NEW r \in Requests, EndByHost(r) \/ \E u \in Users : Kick(r, u)
      PROVE  Closed
  <2>1. at[r] = "idle"
    BY <1>4 DEF EndByHost, Kick
  <2>2. \A q \in Requests : q # r => at'[q] = at[q]
    BY <1>4 DEF EndByHost, Kick, Goto, TypeOK, Calls
  <2>3. UNCHANGED <<status, failures, media, conn>>
    BY <1>4 DEF EndByHost, Kick, meeting, livekit
  <2> QED BY <2>1, <2>2, <2>3 DEF KickInv, ClosingInv, FinalSteps
<1>5. ASSUME NEW c \in Calls, Step(c) \/ Fail(c)
      PROVE  Closed
  <2>1. failures = 0 /\ ~Fail(c)
    BY <1>5 DEF Fail, TypeOK, Step, JoinStep, LeaveStep, EndStep, KickStep, bounds, livekit,
       FindMeeting, CheckAccess, RemoveIntruder, UpsertParticipant, PushSession, AddPresence,
       CountPeak, CloseSession, CheckStillIn, RemovePresence, EndMeeting, ShutSessions,
       ReadParticipants, WriteTotal, WriteStats, DelPresence, CloseMediaRoom, RemoveMember,
       FindActive, Eject
  <2>2. CASE EndMeeting(c)
    <3>1. at'[c] = "shut" /\ media' = media
      BY <2>2, GotoIs DEF EndMeeting, Steps, FinalSteps, livekit
    <3>2. c \in Requests \/ media = "closed"
      BY <2>2 DEF EndMeeting, OrderInv, HandlerInv, Calls
    <3> QED BY <3>1, <3>2 DEF FinalSteps
  <2>3. CASE CloseMediaRoom(c)
    BY <2>3 DEF CloseMediaRoom, TypeOK
  <2>4. CASE ~EndMeeting(c) /\ ~CloseMediaRoom(c)
    <3>1. status = "ENDED"
      BY <1>5, <2>1, <2>4 DEF Step, JoinStep, LeaveStep, EndStep, KickStep, meeting,
         FindMeeting, CheckAccess, RemoveIntruder, UpsertParticipant, PushSession, AddPresence,
         CountPeak, CloseSession, CheckStillIn, RemovePresence, ShutSessions, ReadParticipants,
         WriteTotal, WriteStats, DelPresence, RemoveMember, FindActive, Eject
    <3>2. CASE media = "closed"
      BY <1>5, <3>2, StepFrame DEF Closes
    <3>3. CASE media # "open" /\ \A s \in Sids : conn[s] # "in"
      BY <1>5, <3>3, StepFrame DEF Closes, Drops
    <3>4. ASSUME NEW r \in Requests, at[r] \in FinalSteps \cup {"media"}
          PROVE  at'[r] \in FinalSteps \cup {"media"}
      <4>0. r \in Calls /\ r \notin Hooks
        BY CallsAssumption DEF Calls
      <4>1. CASE r # c
        BY <1>5, <3>4, <4>0, <4>1, StepOthers
      <4>2. CASE r = c
        <5>1. \/ ShutSessions(c) \/ ReadParticipants(c) \/ WriteStats(c) \/ DelPresence(c)
              \/ \E u \in Users : WriteTotal(c, u)
          BY <1>5, <2>1, <2>4, <3>4, <4>2 DEF Step, JoinStep, LeaveStep, EndStep, KickStep,
             FindMeeting, CheckAccess, RemoveIntruder, UpsertParticipant, PushSession,
             AddPresence, CountPeak, CloseSession, CheckStillIn, RemovePresence, RemoveMember,
             FindActive, Eject, FinalSteps
        <5>2. at'[c] \in {"read", "totals", "del", "media"}
          BY <4>0, <4>2, <5>1, GotoIs DEF ShutSessions, ReadParticipants, WriteStats, DelPresence,
             WriteTotal, Steps, FinalSteps
        <5> QED BY <4>2, <5>2 DEF FinalSteps
      <4> QED BY <4>1, <4>2
    <3> QED BY <2>1, <3>1, <3>2, <3>3, <3>4 DEF KickInv, ClosingInv
  <2> QED BY <2>2, <2>3, <2>4
<1> QED BY <1>1, <1>2, <1>3, <1>4, <1>5 DEF Next

LEMMA BehindOne ==
  ASSUME TypeOK
  PROVE  After(queue, 1) \subseteq After(queue, 0)
BY DEF After

\* What is unchecked behind an answered join or leave was so before.
LEMMA AnswerGoing ==
  ASSUME TypeOK, CallsInv, NEW c \in Calls, Answer(c), NEW s \in Sids,
         Joined(s) \in After(queue, Unchecked),
         at[c] \notin Settling => job[c] # Joined(s)
  PROVE  Joined(s) \in After(queue', Unchecked')
<1>1. CASE sent = c
  <2>1. sent # NoCall /\ sent' = NoCall /\ queue # << >> /\ queue[1] = job[c] /\ queue' = Tail(queue)
    BY <1>1, AnswerIs, CallsAssumption DEF CallsInv, Calls
  <2>2. Unchecked' = 0
    BY <2>1 DEF Unchecked
  <2>3. /\ After(queue', 0) = After(queue, 0 + 1)
        /\ After(queue, 0) = {queue[1]} \cup After(queue, 1)
    BY <2>1, QueueTail DEF TypeOK
  <2>4. Joined(s) \in After(queue, 1)
    BY <1>1, <2>1, <2>3 DEF Unchecked
  <2> QED BY <2>2, <2>3, <2>4
<1>2. CASE sent # c
  <2>1. queue' = queue /\ sent' = sent
    BY <1>2, AnswerIs DEF CallsInv
  <2>2. sent # NoCall => at'[sent] = at[sent]
    BY <1>2, AnswerIs, ForgetIs DEF CallsInv, TypeOK, Calls
  <2> QED BY <2>1, <2>2 DEF Unchecked
<1> QED BY <1>1, <1>2

\* A step of a call that answers nothing and passes no check.
LEMMA GotoGoing ==
  ASSUME TypeOK, NEW c \in Calls, UNCHANGED <<queue, sent>>,
         \A d \in Calls : d # c => at'[d] = at[d],
         at'[c] \in Settling => at[c] \in Settling
  PROVE  After(queue, Unchecked) \subseteq After(queue', Unchecked')
<1>1. CASE sent = NoCall
  BY <1>1 DEF Unchecked
<1>2. CASE sent # NoCall
  <2>1. sent \in Calls
    BY <1>2 DEF TypeOK, Calls
  <2> QED BY <1>2, <2>1, BehindOne DEF Unchecked
<1> QED BY <1>1, <1>2

LEMMA AppendGoing ==
  ASSUME TypeOK, SentInv, NEW e \in Events, queue' = Append(queue, e), UNCHANGED <<sent, at>>
  PROVE  After(queue', Unchecked') = After(queue, Unchecked) \cup {e}
<1>1. Unchecked' = Unchecked
  BY DEF Unchecked
<1>2. Unchecked \in 0..Len(queue)
  <2>1. queue # << >> => Len(queue) \in Nat \ {0}
    BY QueueTail DEF TypeOK
  <2>2. Len(queue) \in Nat
    BY LenProperties DEF TypeOK
  <2> QED BY <2>1, <2>2 DEF Unchecked, SentInv
<1> QED BY <1>1, <1>2, QueueAppend DEF TypeOK

LEMMA StepGoing ==
  ASSUME TypeOK, CallsInv, OrderInv, DataInv, GoingInv, NEW c \in Calls, Step(c) \/ Fail(c),
         lost' = 0, status' = "ACTIVE", NEW s \in Sids, conn'[s] = "in", Owner[s] \notin members'
  PROVE  \/ Joined(s) \in After(queue', Unchecked')
         \/ \E d \in Calls : at'[d] \in {"active", "eject"} /\ job'[d].user = Owner[s]
<1> DEFINE Waits == Joined(s) \in After(queue, Unchecked)
           Kicked(d) == at[d] \in {"active", "eject"} /\ job[d].user = Owner[s]
<1>0. lost = 0 /\ status = "ACTIVE" /\ conn[s] = "in" /\ at[c] \notin FinalSteps \cup {"media"}
  <2>1. status = "ACTIVE" /\ conn[s] = "in"
    BY StepFrame, StepWrites DEF Drops, Grows, TypeOK
  <2>2. lost = 0
    BY DEF Fail, TypeOK, Step, JoinStep, LeaveStep, EndStep, KickStep, bounds,
       FindMeeting, CheckAccess, RemoveIntruder, UpsertParticipant, PushSession, AddPresence,
       CountPeak, CloseSession, CheckStillIn, RemovePresence, EndMeeting, ShutSessions,
       ReadParticipants, WriteTotal, WriteStats, DelPresence, CloseMediaRoom, RemoveMember,
       FindActive, Eject
  <2> QED BY <2>1, <2>2 DEF DataInv, ActiveInv
<1>1. \A d \in Calls : d # c => at'[d] = at[d] /\ job'[d] = job[d]
  BY StepOthers
<1>2. Owner[s] \notin members => Waits \/ \E d \in Calls : Kicked(d)
  BY <1>0 DEF GoingInv
<1>3. CASE \/ FindMeeting(c) \/ UpsertParticipant(c) \/ PushSession(c) \/ AddPresence(c)
           \/ CloseSession(c)
  <2>1. /\ UNCHANGED <<queue, sent, members>> /\ at[c] \notin {"active", "eject"}
        /\ at'[c] \in Settling => at[c] \in Settling
    BY <1>3, GotoIs DEF FindMeeting, UpsertParticipant, PushSession, AddPresence, CloseSession,
       livekit, Settling, Steps, JoinSteps, LeaveSteps
  <2> QED BY <1>1, <1>2, <2>1, GotoGoing
<1>4. CASE CheckAccess(c)
  <2>1. UNCHANGED <<queue, sent, members, job>> /\ at[c] = "access"
    BY <1>4 DEF CheckAccess, livekit
  <2>2. CASE at'[c] \notin Settling
    BY <1>1, <1>2, <2>1, <2>2, GotoGoing
  <2>3. CASE at'[c] \in Settling
    <3>1. Member(c) \in members
      BY <1>4, <2>3, GotoIs DEF CheckAccess, Settling, Steps, JoinSteps, Member
    <3>2. job[c] # Joined(s)
      BY <2>1, <3>1, JoinedIs DEF Member
    <3>3. CASE Waits /\ sent = c
      <4>1. sent # NoCall /\ queue # << >> /\ queue[1] = job[c]
        BY <2>1, <3>3, CallsAssumption DEF CallsInv, SentInv, Calls
      <4>2. After(queue, 0) = {queue[1]} \cup After(queue, 1)
        BY <4>1, QueueTail DEF TypeOK
      <4> QED BY <2>1, <3>2, <3>3, <4>1, <4>2 DEF Unchecked, Settling
    <3>4. CASE Waits /\ sent # c
      <4>1. sent # NoCall => sent \in Calls
        BY DEF TypeOK, Calls
      <4> QED BY <1>1, <2>1, <3>4, <4>1 DEF Unchecked
    <3> QED BY <1>1, <1>2, <2>1, <3>3, <3>4
  <2> QED BY <2>2, <2>3
<1>5. CASE RemoveIntruder(c)
  <2>1. Owner[s] # Member(c) /\ members' = members /\ Answer(c) /\ at[c] = "remove"
    BY <1>5 DEF RemoveIntruder, DropUser, Member
  <2>2. job[c] # Joined(s)
    BY <2>1, JoinedIs DEF Member
  <2> QED BY <1>1, <1>2, <2>1, <2>2, AnswerGoing
<1>6. CASE CountPeak(c)
  BY <1>1, <1>2, <1>6, AnswerGoing DEF CountPeak, Settling
<1>7. CASE (CheckStillIn(c) /\ Answer(c)) \/ RemovePresence(c)
  <2>1. job[c].sid \in Sids /\ job[c] = Left(job[c].sid) /\ Answer(c) /\ members' = members
    BY <1>7 DEF CheckStillIn, RemovePresence, CallsInv, WorkInv, Works, LeaveSteps
  <2>2. job[c] # Joined(s)
    BY <2>1, JoinedIs, LeftIs
  <2>3. at[c] \notin {"active", "eject"}
    BY <1>7 DEF CheckStillIn, RemovePresence
  <2> QED BY <1>1, <1>2, <2>1, <2>2, <2>3, AnswerGoing
<1>8. CASE CheckStillIn(c) /\ ~Answer(c)
  <2>1. /\ UNCHANGED <<queue, sent, members>> /\ at[c] = "still" /\ at'[c] = "srem"
    BY <1>8, GotoIs DEF CheckStillIn, Steps, LeaveSteps
  <2> QED BY <1>1, <1>2, <2>1, GotoGoing DEF Settling
<1>9. CASE RemoveMember(c)
  <2>1. /\ UNCHANGED <<queue, sent>> /\ members' = members \ {job[c].user} /\ at[c] = "drop"
    BY <1>9 DEF RemoveMember, livekit
  <2>2. CASE Goto(c, "active") /\ UNCHANGED <<job, seen, todo>>
    <3>1. at'[c] = "active" /\ job'[c] = job[c]
      BY <2>2, GotoIs DEF Steps
    <3>2. CASE Owner[s] = job[c].user
      BY <3>1, <3>2
    <3>3. CASE Owner[s] # job[c].user
      BY <1>1, <1>2, <2>1, <3>1, <3>3, GotoGoing DEF Settling
    <3> QED BY <3>2, <3>3
  <2>3. CASE job[c].user \notin members /\ Forget(c)
    BY <1>1, <1>2, <2>1, <2>3, ForgetIs, GotoGoing DEF Settling
  <2> QED BY <1>9, <2>2, <2>3 DEF RemoveMember
<1>10. CASE FindActive(c)
  <2>1. /\ UNCHANGED <<queue, sent, members, job>> /\ at[c] = "active" /\ at'[c] = "eject"
    BY <1>0, <1>10, GotoIs DEF FindActive, livekit, Steps
  <2> QED BY <1>1, <1>2, <2>1, GotoGoing DEF Settling
<1>11. CASE Eject(c)
  <2>1. /\ UNCHANGED <<queue, sent, members>> /\ at[c] = "eject" /\ at'[c] = "idle"
        /\ Owner[s] # job[c].user
    BY <1>11, ForgetIs DEF Eject, DropUser
  <2> QED BY <1>1, <1>2, <2>1, GotoGoing DEF Settling
<1>12. CASE Fail(c)
  <2>1. members' = members /\ queue' = queue /\ at'[c] = "idle" /\ at[c] \notin {"active", "eject"}
    BY <1>0, <1>12, ForgetIs DEF Fail
  <2>2. CASE sent = c
    <3>1. Unchecked' = 0
      BY <1>12, <2>2 DEF Fail, Unchecked
    <3> QED BY <1>1, <1>2, <2>1, <3>1, BehindOne DEF Unchecked
  <2>3. CASE sent # c
    BY <1>1, <1>2, <1>12, <2>1, <2>3, GotoGoing DEF Fail, Settling
  <2> QED BY <2>2, <2>3
<1>13. CASE EndStep(c)
  BY <1>0, <1>13 DEF EndStep, EndMeeting, ShutSessions, ReadParticipants, WriteStats,
     DelPresence, CloseMediaRoom, WriteTotal, FinalSteps
<1> QED
  BY <1>3, <1>4, <1>5, <1>6, <1>7, <1>8, <1>9, <1>10, <1>11, <1>12, <1>13
  DEF Step, JoinStep, LeaveStep, KickStep

LEMMA GoingStep ==
  ASSUME TypeOK, CallsInv, OrderInv, DataInv, GoingInv, [Next]_vars
  PROVE  GoingInv'
<1> SUFFICES ASSUME lost' = 0, status' = "ACTIVE",
                    NEW s \in Sids, conn'[s] = "in", Owner[s] \notin members'
             PROVE  \/ Joined(s) \in After(queue', Unchecked')
                    \/ \E d \in Calls : at'[d] \in {"active", "eject"} /\ job'[d].user = Owner[s]
  BY DEF GoingInv
<1> DEFINE Goes == \/ Joined(s) \in After(queue', Unchecked')
                   \/ \E d \in Calls : at'[d] \in {"active", "eject"} /\ job'[d].user = Owner[s]
<1>1. ASSUME NEW t \in Sids, Connect(t)
      PROVE  Goes
  <2>1. After(queue', Unchecked') = After(queue, Unchecked) \cup {Joined(t)}
    BY <1>1, JoinedIs, AppendGoing DEF Connect, Joined, CallsInv, local
  <2>2. CASE s # t
    <3>1. conn[s] = "in"
      BY <1>1, <2>2 DEF Connect
    <3> QED BY <1>1, <2>1, <3>1 DEF Connect, GoingInv, local, meeting, bounds
  <2> QED BY <2>1, <2>2
<1>2. ASSUME NEW t \in Sids, Leave(t)
      PROVE  Goes
  <2>1. After(queue', Unchecked') = After(queue, Unchecked) \cup {Left(t)}
    BY <1>2, LeftIs, AppendGoing DEF Leave, Left, CallsInv, local
  <2>2. conn[s] = "in"
    BY <1>2 DEF Leave, TypeOK
  <2> QED BY <1>2, <2>1, <2>2 DEF Leave, GoingInv, local, meeting, bounds
<1>3. CASE FinishRoom
  BY <1>3 DEF FinishRoom
<1>4. ASSUME NEW h \in Hooks, Deliver(h)
      PROVE  Goes
  <2>1. Unchecked' = 0 /\ Unchecked = 0
    BY <1>4, DeliverIs, CallsAssumption DEF Deliver, Unchecked, Settling
  <2>2. \A d \in Calls : at[d] \in {"active", "eject"} => at'[d] = at[d] /\ job'[d] = job[d]
    BY <1>4, DeliverIs
  <2> QED BY <1>4, <2>1, <2>2 DEF Deliver, GoingInv, meeting, bounds
<1>5. CASE TimeOut
  <2>1. After(queue, Unchecked) \subseteq After(queue, 0) /\ Unchecked' = 0
    BY <1>5, BehindOne DEF TimeOut, Unchecked
  <2> QED BY <1>5, <2>1 DEF TimeOut, GoingInv, meeting, local
<1>6. CASE GiveUp
  BY <1>6 DEF GiveUp, TypeOK
<1>7. ASSUME NEW r \in Requests, EndByHost(r) \/ \E u \in Users : Kick(r, u)
      PROVE  Goes
  <2>1. PICK step \in {"end", "drop"} : Goto(r, step)
    BY <1>7 DEF EndByHost, Kick
  <2>2. r \in Calls /\ at[r] = "idle" /\ UNCHANGED <<queue, sent>>
    BY <1>7 DEF EndByHost, Kick, livekit, Calls
  <2>3. at'[r] = step /\ \A d \in Calls : d # r => at'[d] = at[d] /\ job'[d] = job[d]
    BY <1>7, <2>1, <2>2, GotoIs DEF EndByHost, Kick, TypeOK, Steps
  <2>4. After(queue, Unchecked) \subseteq After(queue', Unchecked')
    BY <2>2, <2>3, GotoGoing DEF Settling
  <2>5. UNCHANGED <<conn, members, status, lost>>
    BY <1>7 DEF EndByHost, Kick, livekit, meeting
  <2> QED BY <2>2, <2>3, <2>4, <2>5 DEF GoingInv
<1>8. ASSUME NEW c \in Calls, Step(c) \/ Fail(c)
      PROVE  Goes
  BY <1>8, StepGoing
<1>9. CASE UNCHANGED vars
  BY <1>9 DEF vars, GoingInv, Unchecked
<1> QED BY <1>1, <1>2, <1>3, <1>4, <1>5, <1>6, <1>7, <1>8, <1>9 DEF Next

-----------------------------------------------------------------------------
(* The sessions *)

\* An event is done with when its handler has taken its last step.
LEMMA StepAnswers ==
  ASSUME TypeOK, CallsInv, NEW c \in Calls, Step(c) \/ Fail(c)
  PROVE  \/ queue' = queue
         \/ /\ sent = c /\ queue # << >> /\ queue[1] = job[c] /\ queue' = Tail(queue)
            /\ \/ RemoveIntruder(c) \/ CountPeak(c) \/ RemovePresence(c) \/ DelPresence(c)
               \/ CheckStillIn(c) /\ StillIn(Member(c))
<1>1. ASSUME Answer(c)
      PROVE  \/ queue' = queue
             \/ sent = c /\ queue # << >> /\ queue[1] = job[c] /\ queue' = Tail(queue)
  BY <1>1, AnswerIs DEF CallsInv
<1>2. CASE JoinStep(c)
  BY <1>1, <1>2 DEF JoinStep, FindMeeting, CheckAccess, RemoveIntruder, UpsertParticipant,
     PushSession, AddPresence, CountPeak, livekit
<1>3. CASE LeaveStep(c)
  BY <1>1, <1>3 DEF LeaveStep, CloseSession, CheckStillIn, RemovePresence, livekit, Member
<1>4. CASE EndStep(c)
  BY <1>1, <1>4 DEF EndStep, EndMeeting, ShutSessions, ReadParticipants, WriteStats,
     DelPresence, CloseMediaRoom, WriteTotal, livekit
<1>5. CASE KickStep(c) \/ Fail(c)
  BY <1>5 DEF KickStep, RemoveMember, FindActive, Eject, Fail, livekit
<1> QED BY <1>2, <1>3, <1>4, <1>5 DEF Step

\* A session is opened by the handler of its join only, and closed by the
\* handler of its leave, or when the meeting is settled.
LEMMA StepOpens ==
  ASSUME TypeOK, NEW c \in Calls, Step(c) \/ Fail(c), NEW s \in Sids
  PROVE  \/ sessions'[s] = sessions[s]
         \/ PushSession(c) /\ s = job[c].sid /\ sessions[s] = "none" /\ sessions'[s] = "open"
         \/ CloseSession(c) /\ s = job[c].sid /\ sessions[s] = "open" /\ sessions'[s] = "left"
         \/ ShutSessions(c) /\ sessions[s] = "open" /\ sessions'[s] = "ended"
<1>1. CASE PushSession(c)
  BY <1>1 DEF PushSession, TypeOK
<1>2. CASE CloseSession(c)
  BY <1>2 DEF CloseSession, TypeOK
<1>3. CASE ShutSessions(c)
  BY <1>3 DEF ShutSessions, TypeOK
<1>4. CASE sessions' = sessions \/ \E u \in Users : WriteTotal(c, u)
  BY <1>4 DEF WriteTotal
<1> QED BY <1>1, <1>2, <1>3, <1>4, StepWrites

\* No step of a call takes back a timeout or a loss.
LEMMA StepFaults ==
  ASSUME TypeOK, NEW c \in Calls, Step(c) \/ Fail(c)
  PROVE  timeouts' = timeouts /\ (lost' = lost \/ lost' = lost + 1)
BY DEF Fail, TypeOK, Step, JoinStep, LeaveStep, EndStep, KickStep, bounds,
   FindMeeting, CheckAccess, RemoveIntruder, UpsertParticipant, PushSession, AddPresence,
   CountPeak, CloseSession, CheckStillIn, RemovePresence, EndMeeting, ShutSessions,
   ReadParticipants, WriteTotal, WriteStats, DelPresence, CloseMediaRoom, RemoveMember,
   FindActive, Eject

\* An event behind the oldest is behind nothing new when the oldest is done with.
LEMMA TailBehind ==
  ASSUME TypeOK, queue # << >>, queue' = Tail(queue)
  PROVE  /\ After(queue', 0) = After(queue, 1) /\ After(queue', 1) \subseteq After(queue, 1)
         /\ After(queue, 0) = {queue[1]} \cup After(queue, 1)
         /\ 1 \in 1..Len(queue)
<1>1. /\ After(queue', 0) = After(queue, 0 + 1) /\ After(queue', 1) = After(queue, 1 + 1)
      /\ After(queue, 0) = {queue[1]} \cup After(queue, 1) /\ Len(queue) \in Nat \ {0}
  BY QueueTail DEF TypeOK
<1>2. After(queue, 2) \subseteq After(queue, 1)
  BY DEF After
<1> QED BY <1>1, <1>2

\* An event put behind the others.
LEMMA AppendBehind ==
  ASSUME TypeOK, NEW e \in Events, queue' = Append(queue, e)
  PROVE  /\ After(queue', 0) = After(queue, 0) \cup {e}
         /\ After(queue', 1) \subseteq After(queue, 1) \cup {e}
         /\ queue' # << >> /\ (queue # << >> => queue'[1] = queue[1])
<1>1. Len(queue) \in Nat
  BY LenProperties DEF TypeOK
<1>2. /\ \A k \in 0..Len(queue) : After(queue', k) = After(queue, k) \cup {e}
      /\ After(queue', Len(queue) + 1) = {}
      /\ queue' # << >> /\ (queue # << >> => queue'[1] = queue[1])
  BY QueueAppend DEF TypeOK
<1>3. CASE Len(queue) = 0
  BY <1>2, <1>3
<1>4. CASE Len(queue) # 0
  BY <1>1, <1>2, <1>4
<1> QED BY <1>2, <1>3, <1>4

\* Of a meeting from which nobody is kicked: which event is still to bring
\* the session of a connection up to date.
TabsInv ==
  lost = 0 /\ status = "ACTIVE" /\ members = Users =>
    /\ \A s \in Sids :
         /\ sessions[s] = "none" /\ conn[s] # "fresh" => Joined(s) \in After(queue, 0)
         /\ conn[s] = "gone" => sessions[s] = "left" \/ Left(s) \in After(queue, 0)
    /\ \A c \in Calls : at[c] \in {"still", "srem"} => sessions[job[c].sid] # "open"

LEMMA TabsInit == Init => TabsInv
<1> SUFFICES ASSUME Init PROVE TabsInv
  OBVIOUS
<1> QED BY DEF Init, TabsInv

LEMMA StepTabs ==
  ASSUME TypeOK, CallsInv, OrderInv, DataInv, TabsInv, NEW c \in Calls, Step(c) \/ Fail(c),
         lost' = 0, status' = "ACTIVE", members' = Users
  PROVE  /\ \A s \in Sids :
              /\ sessions'[s] = "none" /\ conn'[s] # "fresh" => Joined(s) \in After(queue', 0)
              /\ conn'[s] = "gone" => sessions'[s] = "left" \/ Left(s) \in After(queue', 0)
         /\ \A d \in Calls : at'[d] \in {"still", "srem"} => sessions'[job'[d].sid] # "open"
<1>0. /\ lost = 0 /\ status = "ACTIVE" /\ members = Users
      /\ \A d \in Calls : at[d] \notin FinalSteps \cup {"media"}
      /\ \A s \in Sids : sessions[s] # "ended"
  <2>1. lost = 0 /\ status = "ACTIVE" /\ members = Users
    BY StepFaults, StepWrites DEF Grows, TypeOK
  <2> QED BY <2>1 DEF DataInv, ActiveInv
<1>1. /\ \A s \in Sids :
           /\ sessions[s] = "none" /\ conn[s] # "fresh" => Joined(s) \in After(queue, 0)
           /\ conn[s] = "gone" => sessions[s] = "left" \/ Left(s) \in After(queue, 0)
      /\ \A d \in Calls : at[d] \in {"still", "srem"} => sessions[job[d].sid] # "open"
  BY <1>0 DEF TabsInv
<1>2. ~ShutSessions(c) /\ ~DelPresence(c)
  BY <1>0 DEF ShutSessions, DelPresence, FinalSteps
<1>3. \A d \in Calls : at[d] \in LeaveSteps =>
        /\ job[d].sid \in Sids /\ job[d] = Left(job[d].sid) /\ conn[job[d].sid] = "gone"
        /\ sessions[job[d].sid] # "none"
  BY <1>1 DEF CallsInv, WorkInv, Works, OrderInv, HandlerInv
<1>4. \A d \in Calls : at[d] \in JoinSteps => job[d].sid \in Sids /\ job[d] = Joined(job[d].sid)
  BY DEF CallsInv, WorkInv, Works
<1>5. \A s \in Sids : sessions[s] # "none" => sessions'[s] # "none"
  BY StepWrites DEF Grows
<1>6. ASSUME NEW s \in Sids, sessions'[s] = "none", conn'[s] # "fresh"
      PROVE  Joined(s) \in After(queue', 0)
  <2>1. sessions[s] = "none" /\ Joined(s) \in After(queue, 0)
    BY <1>1, <1>5, <1>6, StepFrame DEF Drops
  <2>2. CASE /\ queue # << >> /\ queue[1] = job[c] /\ queue' = Tail(queue)
             /\ RemoveIntruder(c) \/ CountPeak(c) \/ RemovePresence(c) \/ CheckStillIn(c)
    <3>1. job[c] # Joined(s)
      <4>1. CASE RemoveIntruder(c)
        <5>1. Owner[job[c].sid] \in Users
          BY <1>4, <4>1, OwnerAssumption DEF RemoveIntruder, JoinSteps
        <5> QED BY <1>0, <4>1, <5>1 DEF RemoveIntruder, DataInv, FoundInv, Member
      <4>2. CASE CountPeak(c)
        BY <2>1, <4>2, JoinedIs DEF CountPeak, DataInv, FoundInv
      <4>3. CASE RemovePresence(c) \/ CheckStillIn(c)
        BY <1>3, <4>3, JoinedIs, LeftIs DEF RemovePresence, CheckStillIn, LeaveSteps
      <4> QED BY <2>2, <4>1, <4>2, <4>3
    <3> QED BY <2>1, <2>2, <3>1, TailBehind
  <2> QED BY <1>2, <2>1, <2>2, StepAnswers
<1>7. ASSUME NEW s \in Sids, conn'[s] = "gone"
      PROVE  sessions'[s] = "left" \/ Left(s) \in After(queue', 0)
  <2>1. conn[s] = "gone"
    BY <1>7, StepFrame DEF Drops
  <2>2. CASE sessions[s] = "left"
    BY <2>2, StepOpens
  <2>3. CASE sessions[s] # "left"
    <3>1. Left(s) \in After(queue, 0)
      BY <1>1, <2>1, <2>3
    <3>2. CASE /\ queue # << >> /\ queue[1] = job[c] /\ queue' = Tail(queue)
               /\ RemoveIntruder(c) \/ CountPeak(c) \/ RemovePresence(c) \/ CheckStillIn(c)
      <4>1. job[c] # Left(s)
        <5>1. CASE RemoveIntruder(c) \/ CountPeak(c)
          BY <1>4, <5>1, JoinedIs, LeftIs DEF RemoveIntruder, CountPeak, JoinSteps
        <5>2. ASSUME RemovePresence(c) \/ CheckStillIn(c), job[c] = Left(s)
              PROVE  FALSE
          <6>1. job[c].sid = s /\ at[c] \in {"still", "srem"} /\ at[c] \in LeaveSteps
            BY <5>2, LeftIs DEF RemovePresence, CheckStillIn, LeaveSteps
          <6>2. sessions[s] # "none" /\ sessions[s] # "open"
            BY <1>1, <1>3, <6>1
          <6> QED BY <1>0, <2>3, <6>2 DEF TypeOK, Marks
        <5> QED BY <3>2, <5>1, <5>2
      <4> QED BY <3>1, <3>2, <4>1, TailBehind
    <3> QED BY <1>2, <3>1, <3>2, StepAnswers
  <2> QED BY <2>2, <2>3
<1>8. ASSUME NEW d \in Calls, at'[d] \in {"still", "srem"}
      PROVE  sessions'[job'[d].sid] # "open"
  <2>1. at[d] \in LeaveSteps /\ job'[d] = job[d]
    BY <1>8, StepFrame DEF Keeps, LeaveSteps
  <2> DEFINE s == job[d].sid
  <2>2. s \in Sids /\ sessions[s] # "none"
    BY <1>3, <2>1
  <2>3. CASE at[d] \in {"still", "srem"}
    <3>1. sessions[s] # "open"
      BY <1>1, <2>3
    <3> HIDE DEF s
    <3>2. sessions'[s] # "open"
      BY <2>2, <3>1, StepOpens
    <3> QED BY <2>1, <3>2 DEF s
  <2>4. CASE at[d] = "close"
    <3>1. c = d /\ CloseSession(c)
      <4>1. c = d
        BY <1>8, <2>4, StepOthers
      <4>2. ~Fail(c)
        BY <1>8, <4>1, ForgetIs DEF Fail
      <4> QED BY <2>4, <4>1, <4>2 DEF Step, JoinStep, LeaveStep, EndStep, KickStep, FindMeeting,
           CheckAccess, RemoveIntruder, UpsertParticipant, PushSession, AddPresence, CountPeak,
           CheckStillIn, RemovePresence, EndMeeting, ShutSessions, ReadParticipants, WriteTotal,
           WriteStats, DelPresence, CloseMediaRoom, RemoveMember, FindActive, Eject
    <3>2. sessions'[s] # "open"
      BY <2>2, <3>1 DEF CloseSession, TypeOK
    <3> QED BY <2>1, <3>2
  <2> QED BY <2>1, <2>3, <2>4 DEF LeaveSteps
<1> QED BY <1>6, <1>7, <1>8

LEMMA TabsStep ==
  ASSUME TypeOK, CallsInv, OrderInv, DataInv, TabsInv, [Next]_vars
  PROVE  TabsInv'
<1>1. ASSUME NEW s \in Sids, Connect(s)
      PROVE  TabsInv'
  <2>1. After(queue', 0) = After(queue, 0) \cup {Joined(s)}
    BY <1>1, JoinedIs, AppendBehind DEF Connect, Joined
  <2>2. \A t \in Sids : /\ conn'[t] # "fresh" => conn[t] # "fresh" \/ t = s
                        /\ conn'[t] = "gone" => conn[t] = "gone"
    BY <1>1 DEF Connect, TypeOK
  <2> QED BY <1>1, <2>1, <2>2 DEF Connect, TabsInv, meeting, local, bounds
<1>2. ASSUME NEW s \in Sids, Leave(s)
      PROVE  TabsInv'
  <2>1. After(queue', 0) = After(queue, 0) \cup {Left(s)}
    BY <1>2, LeftIs, AppendBehind DEF Leave, Left
  <2>2. \A t \in Sids : /\ conn'[t] # "fresh" => conn[t] # "fresh"
                        /\ conn'[t] = "gone" => conn[t] = "gone" \/ t = s
    BY <1>2 DEF Leave, TypeOK
  <2> QED BY <1>2, <2>1, <2>2 DEF Leave, TabsInv, meeting, local, bounds
<1>3. CASE FinishRoom
  <2>1. After(queue', 0) = After(queue, 0) \cup {Finished}
    BY <1>3, FinishedIs, AppendBehind DEF FinishRoom, Finished
  <2> QED BY <1>3, <2>1 DEF FinishRoom, TabsInv, meeting, local, bounds
<1>4. ASSUME NEW h \in Hooks, Deliver(h)
      PROVE  TabsInv'
  <2>1. \A d \in Calls : at'[d] \in {"still", "srem"} => at'[d] = at[d] /\ job'[d] = job[d]
    BY <1>4, DeliverIs
  <2> QED BY <1>4, <2>1 DEF Deliver, TabsInv, meeting, bounds
<1>5. CASE TimeOut
  BY <1>5 DEF TimeOut, TabsInv, meeting, local
<1>6. CASE GiveUp
  BY <1>6 DEF GiveUp, TabsInv, TypeOK
<1>7. ASSUME NEW r \in Requests, EndByHost(r) \/ \E u \in Users : Kick(r, u)
      PROVE  TabsInv'
  <2>1. PICK step \in {"end", "drop"} : Goto(r, step)
    BY <1>7 DEF EndByHost, Kick
  <2>2. \A d \in Calls : at'[d] \in {"still", "srem"} => at'[d] = at[d] /\ job'[d] = job[d]
    BY <1>7, <2>1, GotoIs DEF EndByHost, Kick, TypeOK, Steps, Calls
  <2>3. UNCHANGED <<conn, queue, members, status, sessions, lost>>
    BY <1>7 DEF EndByHost, Kick, livekit, meeting
  <2> QED BY <2>2, <2>3 DEF TabsInv
<1>8. ASSUME NEW c \in Calls, Step(c) \/ Fail(c)
      PROVE  TabsInv'
  <2> SUFFICES ASSUME lost' = 0, status' = "ACTIVE", members' = Users
               PROVE  TabsInv'
    BY DEF TabsInv
  <2> QED BY <1>8, StepTabs DEF TabsInv
<1>9. CASE UNCHANGED vars
  BY <1>9 DEF vars, TabsInv
<1> QED BY <1>1, <1>2, <1>3, <1>4, <1>5, <1>6, <1>7, <1>8, <1>9 DEF Next

-----------------------------------------------------------------------------
(* Presence and the call, while no answer is late and no event is lost *)

HeadIs(e) == queue # << >> /\ queue[1] = e

\* A session is there only when its join is at the handler or done with; an
\* open one waits for its leave; who is taken out has none open.
CalmInv ==
  Undisturbed =>
    /\ \A s \in Sids :
         /\ sessions[s] # "none" => Joined(s) \notin After(queue, 1)
         /\ sessions[s] = "open" => Here(s) \/ Left(s) \in After(queue, 0)
    /\ \A c \in Calls :
         /\ at[c] \in {"still", "srem"} => sessions[job[c].sid] # "open"
         /\ at[c] = "srem" => ~StillIn(Member(c))

\* Presence, the open sessions and LiveKit's connections differ only by what
\* the oldest event, half handled, has still to set right.
CallInv ==
  Undisturbed /\ status = "ACTIVE" =>
    /\ \A c \in Calls : at[c] = "count" => Member(c) \in presence
    /\ \A u \in presence : StillIn(u) \/ \E s \in Sids : HeadIs(Left(s)) /\ Owner[s] = u
    /\ \A s \in Sids : conn[s] = "in" =>
         /\ sessions[s] = "open" \/ Joined(s) \in After(queue, 0)
         /\ sessions[s] = "open" => Owner[s] \in presence \/ HeadIs(Joined(s))

LEMMA CalmInit == Init => CalmInv /\ CallInv
<1> SUFFICES ASSUME Init PROVE CalmInv /\ CallInv
  OBVIOUS
<1>1. CalmInv
  BY DEF Init, CalmInv
<1>2. CallInv
  BY DEF Init, CallInv
<1> QED BY <1>1, <1>2

\* The only handler at work works on the oldest event.
LEMMA OnlyHandler ==
  ASSUME TypeOK, CallsInv, timeouts = 0, NEW c \in Calls, at[c] \in JoinSteps \cup LeaveSteps
  PROVE  /\ c \in Hooks /\ sent = c /\ queue # << >> /\ queue[1] = job[c]
         /\ job[c].sid \in Sids
         /\ at[c] \in JoinSteps => job[c] = Joined(job[c].sid)
         /\ at[c] \in LeaveSteps => job[c] = Left(job[c].sid)
<1>1. /\ c \in Hooks /\ job[c].sid \in Sids /\ at[c] # "idle"
      /\ at[c] \in JoinSteps => job[c] = Joined(job[c].sid)
      /\ at[c] \in LeaveSteps => job[c] = Left(job[c].sid)
  BY DEF CallsInv, WorkInv, Works, JoinSteps, LeaveSteps
<1>2. sent = c /\ sent # NoCall
  BY <1>1, CallsAssumption DEF CallsInv, AloneInv
<1> QED BY <1>1, <1>2 DEF CallsInv, SentInv

\* How a call comes to the steps that follow a look at the sessions.
LEMMA ComesTo ==
  ASSUME TypeOK, NEW c \in Calls, Step(c) \/ Fail(c)
  PROVE  /\ at'[c] = "still" => CloseSession(c) /\ job' = job
         /\ at'[c] = "srem" => CheckStillIn(c) /\ ~StillIn(Member(c)) /\ job' = job
         /\ at'[c] = "count" => AddPresence(c) /\ job' = job
<1>1. ASSUME Forget(c) PROVE at'[c] = "idle"
  BY <1>1, ForgetIs
<1>2. CASE JoinStep(c)
  BY <1>1, <1>2 DEF JoinStep, FindMeeting, CheckAccess, RemoveIntruder, UpsertParticipant,
     PushSession, AddPresence, CountPeak, Answer, Goto, TypeOK
<1>3. CASE LeaveStep(c)
  BY <1>1, <1>3 DEF LeaveStep, CloseSession, CheckStillIn, RemovePresence, Answer, Goto, TypeOK,
     Member
<1>4. CASE EndStep(c)
  BY <1>1, <1>4 DEF EndStep, EndMeeting, ShutSessions, ReadParticipants, WriteStats,
     DelPresence, CloseMediaRoom, WriteTotal, Answer, Goto, TypeOK
<1>5. CASE KickStep(c) \/ Fail(c)
  BY <1>1, <1>5 DEF KickStep, RemoveMember, FindActive, Eject, Fail, Goto, TypeOK
<1> QED BY <1>2, <1>3, <1>4, <1>5 DEF Step

LEMMA StepCalm ==
  ASSUME TypeOK, CallsInv, OrderInv, DataInv, CalmInv, NEW c \in Calls, Step(c) \/ Fail(c),
         Undisturbed'
  PROVE  CalmInv'
<1>0. Undisturbed /\ timeouts = 0
  BY StepFaults DEF Undisturbed, TypeOK
<1>1. /\ \A s \in Sids :
           /\ sessions[s] # "none" => Joined(s) \notin After(queue, 1)
           /\ sessions[s] = "open" => Here(s) \/ Left(s) \in After(queue, 0)
      /\ \A d \in Calls :
           /\ at[d] \in {"still", "srem"} => sessions[job[d].sid] # "open"
           /\ at[d] = "srem" => ~StillIn(Member(d))
  BY <1>0 DEF CalmInv
<1>2. ASSUME PushSession(c)
      PROVE  /\ job[c].sid \in Sids /\ queue # << >> /\ queue[1] = Joined(job[c].sid)
             /\ queue' = queue /\ conn' = conn /\ sent = c
             /\ Joined(job[c].sid) \notin After(queue, 1)
             /\ Here(job[c].sid) \/ Left(job[c].sid) \in After(queue, 0)
  <2>1. /\ job[c].sid \in Sids /\ queue # << >> /\ queue[1] = Joined(job[c].sid) /\ sent = c
        /\ queue' = queue /\ conn' = conn /\ conn[job[c].sid] # "fresh"
    BY <1>0, <1>2, OnlyHandler DEF PushSession, JoinSteps, livekit, OrderInv, HandlerInv
  <2>2. 1 \in 1..Len(queue) /\ After(queue, 1) \subseteq After(queue, 0)
    <3>1. Len(queue) \in Nat \ {0}
      BY <2>1, QueueTail DEF TypeOK
    <3> QED BY <3>1, BehindOne
  <2>3. Joined(job[c].sid) \notin After(queue, 1)
    BY <2>1, <2>2 DEF OrderInv, PlaceInv
  <2>4. conn[job[c].sid] = "gone" => Left(job[c].sid) \in After(queue, 1)
    BY <2>1, <2>2 DEF OrderInv, PlaceInv
  <2> QED BY <2>1, <2>2, <2>3, <2>4 DEF Here, TypeOK
<1>3. ASSUME NEW s \in Sids, sessions'[s] = "open"
      PROVE  sessions[s] = "open" \/ (PushSession(c) /\ s = job[c].sid)
  BY <1>3, StepOpens
<1>4. ASSUME NEW s \in Sids, sessions'[s] # "none"
      PROVE  Joined(s) \notin After(queue', 1)
  <2>1. CASE sessions[s] # "none"
    <3>1. After(queue', 1) \subseteq After(queue, 1)
      BY TailBehind, StepFrame DEF Shrinks
    <3> QED BY <1>1, <2>1, <3>1
  <2>2. CASE sessions[s] = "none"
    BY <1>2, <1>4, <2>2, StepOpens
  <2> QED BY <2>1, <2>2
<1>5. ASSUME NEW s \in Sids, sessions'[s] = "open"
      PROVE  conn'[s] \in {"in", "dropped"} \/ Left(s) \in After(queue', 0)
  <2>1. CASE PushSession(c) /\ s = job[c].sid
    BY <1>2, <2>1 DEF Here
  <2>2. CASE sessions[s] = "open"
    <3>1. CASE Here(s)
      BY <3>1, StepFrame DEF Here, Drops
    <3>2. CASE Left(s) \in After(queue, 0)
      <4>1. CASE queue' = queue
        BY <3>2, <4>1
      <4>2. CASE queue' # queue
        <5>1. /\ queue # << >> /\ queue[1] = job[c] /\ queue' = Tail(queue)
              /\ \/ RemoveIntruder(c) \/ CountPeak(c) \/ RemovePresence(c) \/ DelPresence(c)
                 \/ CheckStillIn(c)
              /\ sent = c
          BY <4>2, StepAnswers
        <5>2. ASSUME job[c] = Left(s) PROVE FALSE
          <6>1. job[c].sid = s /\ c \in Hooks
            BY <5>1, <5>2, LeftIs, CallsAssumption DEF TypeOK, Calls
          <6>2. CASE RemovePresence(c) \/ CheckStillIn(c)
            <7>1. at[c] \in {"still", "srem"}
              BY <6>2 DEF RemovePresence, CheckStillIn
            <7> QED BY <1>1, <2>2, <6>1, <7>1
          <6>3. CASE RemoveIntruder(c) \/ CountPeak(c)
            <7>1. at[c] \in JoinSteps
              BY <6>3 DEF RemoveIntruder, CountPeak, JoinSteps
            <7> QED BY <1>0, <5>2, <7>1, OnlyHandler, JoinedIs, LeftIs
          <6>4. CASE DelPresence(c)
            <7>1. job[c] = Finished
              BY <6>1, <6>4, CallsAssumption DEF DelPresence, FinalSteps, CallsInv, WorkInv, Works
            <7> QED BY <5>2, <7>1, LeftIs, FinishedIs
          <6> QED BY <5>1, <6>2, <6>3, <6>4
        <5> QED BY <3>2, <5>1, <5>2, TailBehind
      <4> QED BY <4>1, <4>2
    <3> QED BY <1>1, <2>2, <3>1, <3>2
  <2> QED BY <1>3, <1>5, <2>1, <2>2
<1>6. ASSUME NEW d \in Calls, at'[d] \in {"still", "srem"}
      PROVE  /\ sessions'[job'[d].sid] # "open"
             /\ at'[d] = "srem" => ~ \E s \in Sids : sessions'[s] = "open" /\ Owner[s] = Owner[job'[d].sid]
  <2>1. at[d] \in LeaveSteps /\ job'[d] = job[d]
    BY <1>6, StepFrame DEF Keeps, LeaveSteps
  <2>2. sent = d /\ job[d].sid \in Sids
    BY <1>0, <2>1, OnlyHandler
  <2>3. ~PushSession(c)
    <3>1. PushSession(c) => at[c] \in JoinSteps /\ at[c] \notin LeaveSteps
      BY DEF PushSession, JoinSteps, LeaveSteps
    <3> QED BY <1>2, <2>1, <2>2, <3>1
  <2>4. \A s \in Sids : sessions'[s] = "open" => sessions[s] = "open"
    BY <1>3, <2>3
  <2>5. CASE d # c
    BY <1>1, <1>6, <2>1, <2>2, <2>4, <2>5, StepOthers DEF StillIn, Open, Member
  <2>6. CASE d = c /\ at'[c] = "still"
    <3>1. CloseSession(c)
      BY <2>6, ComesTo
    <3>2. sessions'[job[c].sid] # "open"
      BY <2>2, <2>6, <3>1 DEF CloseSession, TypeOK
    <3> QED BY <2>1, <2>6, <3>2
  <2>7. CASE d = c /\ at'[c] = "srem"
    <3>1. ~StillIn(Member(c)) /\ at[c] = "still"
      BY <2>7, ComesTo DEF CheckStillIn
    <3> QED BY <1>1, <2>1, <2>2, <2>4, <2>7, <3>1 DEF StillIn, Open, Member
  <2> QED BY <1>6, <2>5, <2>6, <2>7
<1> QED BY <1>4, <1>5, <1>6 DEF CalmInv, Here, StillIn, Open, Member

LEMMA StepCall ==
  ASSUME TypeOK, CallsInv, OrderInv, DataInv, CalmInv, CallInv, NEW c \in Calls,
         Step(c) \/ Fail(c), Undisturbed', status' = "ACTIVE"
  PROVE  CallInv'
<1>0. /\ Undisturbed /\ timeouts = 0 /\ status = "ACTIVE"
      /\ \A d \in Calls : at[d] \notin FinalSteps \cup {"media"}
      /\ \A s \in Sids : sessions[s] # "ended"
  <2>1. Undisturbed /\ timeouts = 0 /\ status = "ACTIVE"
    BY StepFaults, StepWrites DEF Undisturbed, Grows, TypeOK
  <2> QED BY <2>1 DEF DataInv, ActiveInv
<1>1. /\ \A d \in Calls : at[d] = "count" => Member(d) \in presence
      /\ \A u \in presence : StillIn(u) \/ \E s \in Sids : HeadIs(Left(s)) /\ Owner[s] = u
      /\ \A s \in Sids : conn[s] = "in" =>
           /\ sessions[s] = "open" \/ Joined(s) \in After(queue, 0)
           /\ sessions[s] = "open" => Owner[s] \in presence \/ HeadIs(Joined(s))
  BY <1>0 DEF CallInv
<1>2. ~ShutSessions(c) /\ ~DelPresence(c)
  BY <1>0 DEF ShutSessions, DelPresence, FinalSteps
<1>3. \/ presence' = presence
      \/ AddPresence(c) /\ presence' = presence \cup {Member(c)}
      \/ RemovePresence(c) /\ presence' = presence \ {Member(c)}
  BY <1>2 DEF Step, JoinStep, LeaveStep, EndStep, KickStep, Fail,
     FindMeeting, CheckAccess, RemoveIntruder, UpsertParticipant, PushSession, AddPresence,
     CountPeak, CloseSession, CheckStillIn, RemovePresence, EndMeeting, ReadParticipants,
     WriteTotal, WriteStats, CloseMediaRoom, RemoveMember, FindActive, Eject, Member
\* The session of a join that is past its push.
<1>4. ASSUME at[c] \in {"sadd", "count"}
      PROVE  job[c].sid \in Sids /\ sessions[job[c].sid] = "open"
  <2>1. job[c].sid \in Sids /\ queue # << >> /\ queue[1] = Joined(job[c].sid)
    BY <1>0, <1>4, OnlyHandler DEF JoinSteps
  <2>2. Joined(job[c].sid) \in After(queue, 0)
    BY <2>1, QueueTail DEF TypeOK
  <2>3. sessions[job[c].sid] # "none" /\ sessions[job[c].sid] # "left"
    BY <1>4, <2>1, <2>2 DEF DataInv, FoundInv, SessionInv
  <2> QED BY <1>0, <2>1, <2>3 DEF TypeOK, Marks
<1>5. ASSUME NEW d \in Calls, at'[d] = "count"
      PROVE  Owner[job'[d].sid] \in presence'
  <2>1. CASE d = c
    BY <1>5, <2>1, ComesTo DEF AddPresence
  <2>2. CASE d # c
    <3>1. at[d] = "count" /\ job'[d] = job[d]
      BY <1>5, <2>2, StepOthers
    <3>2. sent = d
      BY <1>0, <3>1, OnlyHandler DEF JoinSteps
    <3>3. ~RemovePresence(c)
      BY <1>0, <2>2, <3>2, OnlyHandler DEF RemovePresence, LeaveSteps
    <3> QED BY <1>1, <1>3, <3>1, <3>3 DEF Member
  <2> QED BY <2>1, <2>2
<1>6. ASSUME NEW u \in presence'
      PROVE  \/ \E s \in Sids : sessions'[s] = "open" /\ Owner[s] = u
             \/ \E s \in Sids : queue' # << >> /\ queue'[1] = Left(s) /\ Owner[s] = u
  <2>1. CASE AddPresence(c) /\ u = Member(c)
    <3>1. sessions' = sessions /\ at[c] = "sadd"
      BY <2>1 DEF AddPresence, meeting
    <3> QED BY <1>4, <2>1, <3>1 DEF Member
  <2>2. CASE u \in presence
    <3>1. ASSUME NEW s \in Sids, sessions[s] = "open", Owner[s] = u
          PROVE  \/ sessions'[s] = "open"
                 \/ queue' # << >> /\ queue'[1] = Left(s)
      <4>1. CASE CloseSession(c) /\ s = job[c].sid
        <5>1. queue # << >> /\ queue[1] = Left(s) /\ queue' = queue
          BY <1>0, <4>1, OnlyHandler DEF CloseSession, LeaveSteps, livekit
        <5> QED BY <5>1
      <4> QED BY <1>2, <3>1, <4>1, StepOpens
    <3>2. ASSUME NEW s \in Sids, HeadIs(Left(s)), Owner[s] = u
          PROVE  \/ StillIn(u) /\ sessions' = sessions
                 \/ queue' # << >> /\ queue'[1] = Left(s)
      <4>1. CASE queue' = queue
        BY <3>2, <4>1 DEF HeadIs
      <4>2. CASE queue' # queue
        <5>1. /\ queue[1] = job[c] /\ job[c] = Left(s) /\ job[c].sid = s
              /\ \/ RemoveIntruder(c) \/ CountPeak(c) \/ RemovePresence(c)
                 \/ CheckStillIn(c) /\ StillIn(Member(c))
          BY <1>2, <3>2, <4>2, StepAnswers, LeftIs DEF HeadIs
        <5>2. CASE RemoveIntruder(c) \/ CountPeak(c)
          BY <1>0, <5>1, <5>2, OnlyHandler, JoinedIs, LeftIs DEF RemoveIntruder, CountPeak, JoinSteps
        <5>3. CASE RemovePresence(c)
          BY <3>2, <5>1, <5>3 DEF RemovePresence
        <5>4. CASE CheckStillIn(c) /\ StillIn(Member(c))
          BY <3>2, <5>1, <5>4 DEF CheckStillIn, Member, meeting
        <5> QED BY <5>1, <5>2, <5>3, <5>4
      <4> QED BY <4>1, <4>2
    <3> QED BY <1>1, <2>2, <3>1, <3>2 DEF StillIn, Open
  <2> QED BY <1>3, <1>6, <2>1, <2>2
<1>7. ASSUME NEW s \in Sids, conn'[s] = "in"
      PROVE  /\ sessions'[s] = "open" \/ Joined(s) \in After(queue', 0)
             /\ sessions'[s] = "open" => \/ Owner[s] \in presence'
                                         \/ queue' # << >> /\ queue'[1] = Joined(s)
  <2>0. conn[s] = "in"
    BY <1>7, StepFrame DEF Drops
\* The oldest event, when it is the join of s and is done with.
  <2>1. ASSUME HeadIs(Joined(s)), queue' # queue
        PROVE  sessions'[s] = "open" /\ Owner[s] \in presence'
    <3>1. /\ queue[1] = job[c] /\ job[c] = Joined(s) /\ job[c].sid = s
          /\ RemoveIntruder(c) \/ CountPeak(c) \/ RemovePresence(c) \/ CheckStillIn(c)
      BY <1>2, <2>1, StepAnswers, JoinedIs DEF HeadIs
    <3>2. ~RemoveIntruder(c)
      BY <1>7, <3>1 DEF RemoveIntruder, DropUser
    <3>3. ~RemovePresence(c) /\ ~CheckStillIn(c)
      BY <1>0, <3>1, OnlyHandler, JoinedIs, LeftIs DEF RemovePresence, CheckStillIn, LeaveSteps
    <3>4. CountPeak(c) /\ at[c] = "count"
      BY <3>1, <3>2, <3>3 DEF CountPeak
    <3> QED BY <1>1, <1>4, <3>1, <3>4 DEF CountPeak, Member
  <2>2. sessions'[s] = "open" \/ Joined(s) \in After(queue', 0)
    <3>1. CASE sessions[s] = "open"
      <4>1. ~(CloseSession(c) /\ s = job[c].sid)
        BY <2>0 DEF CloseSession, OrderInv, HandlerInv, LeaveSteps
      <4> QED BY <1>2, <3>1, <4>1, StepOpens
    <3>2. CASE Joined(s) \in After(queue, 0)
      <4>1. CASE queue' = queue
        BY <3>2, <4>1
      <4>2. CASE queue' # queue
        <5>1. queue # << >> /\ queue' = Tail(queue)
          BY <4>2, StepAnswers
        <5> QED BY <2>1, <3>2, <4>2, <5>1, TailBehind DEF HeadIs
      <4> QED BY <4>1, <4>2
    <3> QED BY <1>1, <2>0, <3>1, <3>2
  <2>3. ASSUME sessions'[s] = "open"
        PROVE  Owner[s] \in presence' \/ (queue' # << >> /\ queue'[1] = Joined(s))
    <3>1. CASE PushSession(c) /\ s = job[c].sid
      BY <1>0, <3>1, OnlyHandler DEF PushSession, JoinSteps, livekit
    <3>2. CASE sessions[s] = "open"
      <4>1. CASE Owner[s] \in presence
        <5>1. ASSUME RemovePresence(c) PROVE Owner[s] # Member(c)
          BY <1>0, <3>2, <5>1 DEF RemovePresence, CalmInv, StillIn, Open
        <5> QED BY <1>3, <4>1, <5>1
      <4>2. CASE HeadIs(Joined(s))
        BY <2>1, <4>2 DEF HeadIs
      <4> QED BY <1>1, <2>0, <3>2, <4>1, <4>2
    <3> QED BY <2>3, <3>1, <3>2, StepOpens
  <2> QED BY <2>2, <2>3
<1> QED BY <1>5, <1>6, <1>7 DEF CallInv, HeadIs, StillIn, Open, Member

\* A connection that comes, goes or is dropped, and its event behind the others.
LEMMA EventCalm ==
  ASSUME TypeOK, CallsInv, OrderInv, DataInv, CalmInv, CallInv, NEW e \in Events,
         queue' = Append(queue, e), UNCHANGED <<meeting, presence, local, bounds>>,
         \A s \in Sids : /\ e = Joined(s) => conn[s] = "fresh"
                         /\ Here(s) => Here(s)' \/ e = Left(s)
                         /\ conn'[s] = "in" => conn[s] = "in" \/ e = Joined(s)
  PROVE  CalmInv' /\ CallInv'
<1>1. /\ After(queue', 0) = After(queue, 0) \cup {e}
      /\ After(queue', 1) \subseteq After(queue, 1) \cup {e}
      /\ queue' # << >> /\ (queue # << >> => queue'[1] = queue[1])
  BY AppendBehind
<1>2. \A s \in Sids : e = Joined(s) => sessions[s] = "none"
  BY DEF DataInv, SessionInv
<1>3. UNCHANGED <<status, sessions, at, job, timeouts, lost>>
  BY DEF meeting, local, bounds
<1>4. CalmInv'
  BY <1>1, <1>2, <1>3 DEF CalmInv, Undisturbed, Here, StillIn, Open, Member
<1>5. CallInv'
  BY <1>1, <1>2, <1>3 DEF CallInv, Undisturbed, HeadIs, StillIn, Open, Member
<1> QED BY <1>4, <1>5

LEMMA CalmStep ==
  ASSUME TypeOK, CallsInv, OrderInv, DataInv, CalmInv, CallInv, [Next]_vars
  PROVE  CalmInv' /\ CallInv'
<1>1. ASSUME NEW s \in Sids, Connect(s)
      PROVE  CalmInv' /\ CallInv'
  <2>1. \A t \in Sids : /\ Joined(s) = Joined(t) => s = t
                        /\ Here(t) => Here(t)'
                        /\ conn'[t] = "in" => conn[t] = "in" \/ t = s
    BY <1>1, JoinedIs DEF Connect, Here, TypeOK
  <2> QED BY <1>1, <2>1, JoinedIs, EventCalm DEF Connect, Joined
<1>2. ASSUME NEW s \in Sids, Leave(s)
      PROVE  CalmInv' /\ CallInv'
  <2>1. \A t \in Sids : /\ Left(s) # Joined(t)
                        /\ Here(t) => Here(t)' \/ t = s
                        /\ conn'[t] = "in" => conn[t] = "in"
    BY <1>2, JoinedIs, LeftIs DEF Leave, Here, TypeOK
  <2> QED BY <1>2, <2>1, LeftIs, EventCalm DEF Leave, Left
<1>3. CASE FinishRoom
  <2>1. \A t \in Sids : Finished # Joined(t)
    BY JoinedIs, FinishedIs
  <2> QED BY <1>3, <2>1, FinishedIs, EventCalm DEF FinishRoom, Finished, Here
<1>4. ASSUME NEW h \in Hooks, Deliver(h)
      PROVE  CalmInv' /\ CallInv'
  <2>1. \A d \in Calls : at'[d] \in {"still", "srem", "count"} => at'[d] = at[d] /\ job'[d] = job[d]
    BY <1>4, DeliverIs
  <2>2. UNCHANGED <<status, sessions, timeouts, lost, queue, conn, presence>>
    BY <1>4 DEF Deliver, meeting, bounds
  <2>3. CalmInv'
    BY <2>1, <2>2 DEF CalmInv, Undisturbed, Here, StillIn, Open, Member
  <2>4. CallInv'
    BY <2>1, <2>2 DEF CallInv, Undisturbed, HeadIs, StillIn, Open, Member
  <2> QED BY <2>3, <2>4
<1>5. CASE TimeOut \/ GiveUp
  BY <1>5 DEF TimeOut, GiveUp, CalmInv, CallInv, Undisturbed, TypeOK
<1>6. ASSUME NEW r \in Requests, EndByHost(r) \/ \E u \in Users : Kick(r, u)
      PROVE  CalmInv' /\ CallInv'
  <2>1. PICK step \in {"end", "drop"} : Goto(r, step)
    BY <1>6 DEF EndByHost, Kick
  <2>2. \A d \in Calls : at'[d] \in {"still", "srem", "count"} => at'[d] = at[d] /\ job'[d] = job[d]
    BY <1>6, <2>1, GotoIs DEF EndByHost, Kick, TypeOK, Steps, Calls
  <2>3. UNCHANGED <<status, sessions, timeouts, lost, queue, conn, presence>>
    BY <1>6 DEF EndByHost, Kick, livekit, meeting
  <2>4. CalmInv'
    BY <2>2, <2>3 DEF CalmInv, Undisturbed, Here, StillIn, Open, Member
  <2>5. CallInv'
    BY <2>2, <2>3 DEF CallInv, Undisturbed, HeadIs, StillIn, Open, Member
  <2> QED BY <2>4, <2>5
<1>7. ASSUME NEW c \in Calls, Step(c) \/ Fail(c)
      PROVE  CalmInv' /\ CallInv'
  <2>1. CASE ~Undisturbed'
    BY <2>1 DEF CalmInv, CallInv, Undisturbed
  <2>2. CASE Undisturbed'
    <3>1. CalmInv'
      BY <1>7, <2>2, StepCalm
    <3>2. CallInv'
      <4>1. CASE status' = "ACTIVE"
        BY <1>7, <2>2, <4>1, StepCall
      <4>2. CASE status' # "ACTIVE"
        BY <4>2 DEF CallInv
      <4> QED BY <4>1, <4>2
    <3> QED BY <3>1, <3>2
  <2> QED BY <2>1, <2>2
<1>8. CASE UNCHANGED vars
  <2>1. CalmInv'
    BY <1>8 DEF vars, CalmInv, Undisturbed, Here, StillIn, Open, Member
  <2>2. CallInv'
    BY <1>8 DEF vars, CallInv, Undisturbed, HeadIs, StillIn, Open, Member
  <2> QED BY <2>1, <2>2
<1> QED BY <1>1, <1>2, <1>3, <1>4, <1>5, <1>6, <1>7, <1>8 DEF Next

-----------------------------------------------------------------------------
(* The peak *)

\* The users LiveKit had when it told of the k-th event of the queue: they have
\* come, their join is no later, and they are there still or leave later.
Visible(t, k) == /\ conn[t] # "fresh"
                 /\ Joined(t) \notin After(queue, k)
                 /\ Here(t) \/ Left(t) \in After(queue, k)
Seen(k) == {Owner[t] : t \in {s \in Sids : Visible(s, k)}}

\* A join that is half handled may be in presence already.
JoinAhead == queue # << >> /\ queue[1].type = "joined"
Told == IF JoinAhead THEN Seen(1) ELSE Seen(0)
Joining == {Owner[s] : s \in {t \in Sids : HeadIs(Joined(t))}}

CrowdInv == \A k \in 0..Len(queue) : Cardinality(Seen(k)) <= crowd
RealInv == Undisturbed => presence \subseteq Told /\ peak <= crowd
CountedInv ==
  Undisturbed /\ status = "ACTIVE" => Cardinality((presence \cap members) \ Joining) <= peak
PeakInv == CrowdInv /\ RealInv /\ CountedInv

LEMMA UsersFinite ==
  ASSUME NEW S \in SUBSET Users
  PROVE  /\ IsFiniteSet(S) /\ Cardinality(S) \in Nat
         /\ \A T \in SUBSET S : Cardinality(T) <= Cardinality(S)
<1>1. IsFiniteSet(S)
  BY FiniteAssumption, FS_Subset
<1> QED BY <1>1, FS_Subset, FS_CardinalityType

LEMMA SeenUsers == \A k : Seen(k) \subseteq Users
BY OwnerAssumption DEF Seen

LEMMA PeakInit == Init => PeakInv
<1> SUFFICES ASSUME Init PROVE PeakInv
  OBVIOUS
<1>1. \A k : Seen(k) = {}
  BY DEF Init, Seen, Visible
<1>2. Cardinality({}) = 0
  BY FS_EmptySet
<1>3. CrowdInv
  <2>1. ASSUME NEW k \in 0..Len(queue) PROVE Cardinality(Seen(k)) <= crowd
    <3>1. Seen(k) = {} /\ crowd = 0
      BY <1>1 DEF Init
    <3> QED BY <1>2, <3>1
  <2> QED BY <2>1 DEF CrowdInv
<1>4. RealInv
  BY DEF Init, RealInv
<1>5. (presence \cap members) \ Joining = {}
  BY DEF Init
<1>6. CountedInv
  BY <1>2, <1>5 DEF Init, CountedInv
<1> QED BY <1>3, <1>4, <1>6 DEF PeakInv

\* Who is dropped is still there; a queue one shorter is seen one further on.
LEMMA SeenKeeps ==
  ASSUME TypeOK, Drops, queue' = queue, NEW k
  PROVE  Seen(k)' = Seen(k)
<1>1. \A t \in Sids : Visible(t, k)' <=> Visible(t, k)
  BY DEF Visible, Here, Drops
<1> QED BY <1>1 DEF Seen

LEMMA SeenTail ==
  ASSUME TypeOK, Drops, queue # << >>, queue' = Tail(queue), NEW k \in Nat
  PROVE  Seen(k)' = Seen(k + 1)
<1>0. After(queue', k) = After(queue, k + 1)
  BY QueueTail DEF TypeOK
<1>1. \A t \in Sids : Visible(t, k)' <=> Visible(t, k + 1)
  BY <1>0 DEF Visible, Here, Drops
<1> QED BY <1>1 DEF Seen

\* With a join one more is seen.
LEMMA SeenJoin ==
  ASSUME TypeOK, NEW k \in Nat, k + 1 \in 1..Len(queue), queue[k + 1].type = "joined"
  PROVE  Seen(k) \subseteq Seen(k + 1)
<1>0. After(queue, k) \subseteq {queue[k + 1]} \cup After(queue, k + 1)
  <2>1. Len(queue) \in Nat
    BY LenProperties DEF TypeOK
  <2> QED BY <2>1 DEF After
<1>1. After(queue, k + 1) \subseteq After(queue, k)
  BY DEF After
<1>2. \A t \in Sids : Visible(t, k) => Visible(t, k + 1)
  BY <1>0, <1>1, LeftIs DEF Visible
<1> QED BY <1>2 DEF Seen

LEMMA FrameCrowd ==
  ASSUME TypeOK, CrowdInv, Drops, Shrinks, crowd' = crowd
  PROVE  CrowdInv'
<1> SUFFICES ASSUME NEW k \in 0..Len(queue') PROVE Cardinality(Seen(k)') <= crowd
  BY DEF CrowdInv
<1>1. CASE queue' = queue
  BY <1>1, SeenKeeps DEF CrowdInv
<1>2. CASE queue # << >> /\ queue' = Tail(queue)
  <2>1. k + 1 \in 0..Len(queue) /\ k \in Nat
    BY <1>2, QueueTail DEF TypeOK
  <2> QED BY <1>2, <2>1, SeenTail DEF CrowdInv
<1> QED BY <1>1, <1>2 DEF Shrinks

LEMMA ConnectSeen ==
  ASSUME TypeOK, OrderInv, NEW s \in Sids, Connect(s)
  PROVE  /\ \A k \in 0..Len(queue) : Seen(k)' = Seen(k)
         /\ \A k : k = Len(queue) + 1 =>
              Seen(k)' = {Owner[t] : t \in {u \in Sids : conn'[u] \in {"in", "dropped"}}}
<1>0. /\ \A k \in 0..Len(queue) : After(queue', k) = After(queue, k) \cup {Joined(s)}
      /\ After(queue', Len(queue) + 1) = {}
  BY JoinedIs, QueueAppend DEF Connect, Joined, TypeOK
<1>1. \A t \in Sids : /\ conn'[t] = "fresh" <=> conn[t] = "fresh" /\ t # s
                      /\ Here(t)' <=> Here(t) \/ t = s
  BY DEF Connect, TypeOK, Here
<1>2. \A t \in Sids : Left(t) # Joined(s) /\ (Joined(t) = Joined(s) <=> t = s)
  BY JoinedIs, LeftIs
<1>3. conn[s] = "fresh" /\ ~Here(s)
  BY DEF Connect, Here
<1>4. ASSUME NEW k \in 0..Len(queue)
      PROVE  Seen(k)' = Seen(k)
  <2>1. \A t \in Sids : Visible(t, k)' <=> Visible(t, k)
    BY <1>0, <1>1, <1>2, <1>3 DEF Visible
  <2> QED BY <2>1 DEF Seen
<1>5. ASSUME NEW k, k = Len(queue) + 1
      PROVE  Seen(k)' = {Owner[t] : t \in {u \in Sids : conn'[u] \in {"in", "dropped"}}}
  <2>1. After(queue', k) = {}
    BY <1>0, <1>5
  <2>2. \A t \in Sids : Visible(t, k)' <=> conn'[t] \in {"in", "dropped"}
    BY <2>1 DEF Visible, Here
  <2> QED BY <2>2 DEF Seen
<1> QED BY <1>4, <1>5

LEMMA LeaveSeen ==
  ASSUME TypeOK, OrderInv, NEW s \in Sids, Leave(s)
  PROVE  /\ \A k \in 0..Len(queue) : Seen(k)' = Seen(k)
         /\ \A k : k = Len(queue) + 1 => Seen(k)' \subseteq Seen(Len(queue))
<1>0. /\ \A k \in 0..Len(queue) : After(queue', k) = After(queue, k) \cup {Left(s)}
      /\ After(queue', Len(queue) + 1) = {} /\ Len(queue) \in Nat
  BY LeftIs, QueueAppend, LenProperties DEF Leave, Left, TypeOK
<1>1. \A t \in Sids : /\ conn'[t] = "fresh" <=> conn[t] = "fresh"
                      /\ Here(t)' <=> Here(t) /\ t # s
  BY DEF Leave, TypeOK, Here
<1>2. \A t \in Sids : Joined(t) # Left(s) /\ (Left(t) = Left(s) <=> t = s)
  BY JoinedIs, LeftIs
<1>3. conn[s] # "fresh" /\ Here(s)
  BY DEF Leave, Here
<1>4. ASSUME NEW k \in 0..Len(queue)
      PROVE  Seen(k)' = Seen(k)
  <2>1. \A t \in Sids : Visible(t, k)' <=> Visible(t, k)
    BY <1>0, <1>1, <1>2, <1>3 DEF Visible
  <2> QED BY <2>1 DEF Seen
<1>5. ASSUME NEW k, k = Len(queue) + 1
      PROVE  Seen(k)' \subseteq Seen(Len(queue))
  <2>1. After(queue', k) = {}
    BY <1>0, <1>5
  <2>0. After(queue, Len(queue)) = {}
    <3>1. \A i \in 1..Len(queue) : ~(i > Len(queue))
      BY <1>0
    <3> QED BY <3>1 DEF After
  <2>2. \A t \in Sids : Visible(t, k)' => Visible(t, Len(queue))
    BY <1>1, <2>0, <2>1 DEF Visible
  <2> QED BY <2>2 DEF Seen
<1> QED BY <1>4, <1>5

LEMMA FinishSeen ==
  ASSUME TypeOK, OrderInv, FinishRoom
  PROVE  /\ \A k \in 0..Len(queue) : Seen(k)' = Seen(k)
         /\ \A k : k = Len(queue) + 1 => Seen(k)' = {}
<1>0. /\ \A k \in 0..Len(queue) : After(queue', k) = After(queue, k) \cup {Finished}
      /\ After(queue', Len(queue) + 1) = {}
  BY FinishedIs, QueueAppend DEF FinishRoom, Finished, TypeOK
<1>1. conn' = conn /\ \A t \in Sids : ~Here(t)
  BY DEF FinishRoom, Here
<1>2. \A t \in Sids : Joined(t) # Finished /\ Left(t) # Finished
  BY JoinedIs, LeftIs, FinishedIs
<1>4. ASSUME NEW k \in 0..Len(queue)
      PROVE  Seen(k)' = Seen(k)
  <2>1. \A t \in Sids : Visible(t, k)' <=> Visible(t, k)
    BY <1>0, <1>1, <1>2 DEF Visible, Here
  <2> QED BY <2>1 DEF Seen
<1>5. ASSUME NEW k, k = Len(queue) + 1
      PROVE  Seen(k)' = {}
  <2>1. After(queue', k) = {}
    BY <1>0, <1>5
  <2>2. \A t \in Sids : ~Visible(t, k)'
    BY <1>1, <2>1 DEF Visible, Here
  <2> QED BY <2>2 DEF Seen
<1> QED BY <1>4, <1>5

\* LiveKit's people come and go behind the events it has still to send.
LEMMA EventPeak ==
  ASSUME TypeOK, OrderInv, PeakInv, NEW e \in Events, queue' = Append(queue, e),
         UNCHANGED <<status, members, presence, peak, timeouts, lost>>,
         crowd \in Nat, crowd' \in Nat, crowd <= crowd',
         \A k \in 0..Len(queue) : Seen(k)' = Seen(k),
         \A k : k = Len(queue) + 1 => Cardinality(Seen(k)') <= crowd',
         queue = << >> /\ e.type = "joined" => \A k : k = 1 => Seen(0) \subseteq Seen(k)'
  PROVE  PeakInv'
<1>0. Len(queue) \in Nat /\ Len(queue') = Len(queue) + 1
  BY QueueAppend, LenProperties DEF TypeOK
<1>1. CrowdInv'
  <2> SUFFICES ASSUME NEW k \in 0..Len(queue') PROVE Cardinality(Seen(k)') <= crowd'
    BY DEF CrowdInv
  <2>1. CASE k \in 0..Len(queue)
    <3>1. Cardinality(Seen(k)) <= crowd /\ Cardinality(Seen(k)) \in Nat
      BY <2>1, SeenUsers, UsersFinite DEF PeakInv, CrowdInv
    <3> QED BY <2>1, <3>1
  <2>2. CASE k = Len(queue) + 1
    BY <2>2
  <2> QED BY <1>0, <2>1, <2>2
<1>2. Told \subseteq Told'
  <2>1. CASE queue # << >>
    <3>0. queue' # << >> /\ queue'[1] = queue[1]
      BY <2>1, AppendBehind
    <3>1. 1 \in 0..Len(queue) /\ 0 \in 0..Len(queue)
      BY <1>0, <2>1, QueueTail DEF TypeOK
    <3>2. \A k : k \in {0, 1} => Seen(k)' = Seen(k)
      BY <3>1
    <3> QED BY <2>1, <3>0, <3>2 DEF Told, JoinAhead
  <2>2. CASE queue = << >>
    <3>1. queue' # << >> /\ queue'[1] = e /\ 0 \in 0..Len(queue)
      <4>1. queue'[Len(queue) + 1] = e /\ queue' # << >>
        BY QueueAppend DEF TypeOK
      <4>2. Len(queue) = 0 /\ Len(queue) + 1 = 1 /\ 0 \in 0..Len(queue)
        <5>1. Len(queue) = 0
          BY <2>2, EmptySeq
        <5> QED BY <5>1
      <4> QED BY <4>1, <4>2
    <3>2. \A k : k = 0 => Seen(k)' = Seen(k)
      BY <3>1
    <3> QED BY <2>2, <3>1, <3>2 DEF Told, JoinAhead
  <2> QED BY <2>1, <2>2
<1>3. RealInv'
  <2>1. crowd >= peak => crowd' >= peak
    BY DEF TypeOK
  <2> QED BY <1>2, <2>1 DEF PeakInv, RealInv, Undisturbed, TypeOK
<1>4. CountedInv'
  <2>1. Joining \subseteq Joining'
    BY <1>0, QueueAppend DEF Joining, HeadIs, TypeOK
  <2>2. ((presence \cap members) \ Joining)' \subseteq (presence \cap members) \ Joining
    BY <2>1
  <2>3. Cardinality(((presence \cap members) \ Joining)') <= Cardinality((presence \cap members) \ Joining)
        /\ Cardinality((presence \cap members) \ Joining) \in Nat
        /\ Cardinality(((presence \cap members) \ Joining)') \in Nat
    BY <2>2, UsersFinite DEF TypeOK
  <2> QED BY <2>3 DEF PeakInv, CountedInv, Undisturbed, TypeOK
<1> QED BY <1>1, <1>3, <1>4 DEF PeakInv

LEMMA StepReal ==
  ASSUME TypeOK, CallsInv, OrderInv, DataInv, CalmInv, PeakInv, NEW c \in Calls,
         Step(c) \/ Fail(c), Undisturbed'
  PROVE  presence' \subseteq Told' /\ peak' <= crowd'
<1>0. /\ Undisturbed /\ timeouts = 0
      /\ presence \subseteq Told /\ peak <= crowd /\ Drops
  BY StepFaults, StepFrame DEF Undisturbed, TypeOK, PeakInv, RealInv
<1>1. crowd' = crowd /\ (peak' = peak \/ (CountPeak(c) /\ peak' \in {peak, Cardinality(presence)}))
  BY DEF Step, JoinStep, LeaveStep, EndStep, KickStep, Fail, meeting,
     FindMeeting, CheckAccess, RemoveIntruder, UpsertParticipant, PushSession, AddPresence,
     CountPeak, CloseSession, CheckStillIn, RemovePresence, EndMeeting, ShutSessions,
     ReadParticipants, WriteTotal, WriteStats, DelPresence, CloseMediaRoom, RemoveMember,
     FindActive, Eject
<1>2. \/ presence' \subseteq presence
      \/ AddPresence(c) /\ presence' = presence \cup {Member(c)}
  BY DEF Step, JoinStep, LeaveStep, EndStep, KickStep, Fail,
     FindMeeting, CheckAccess, RemoveIntruder, UpsertParticipant, PushSession, AddPresence,
     CountPeak, CloseSession, CheckStillIn, RemovePresence, EndMeeting, ShutSessions,
     ReadParticipants, WriteTotal, WriteStats, DelPresence, CloseMediaRoom, RemoveMember,
     FindActive, Eject, Member
<1>3. ASSUME at[c] \in JoinSteps
      PROVE  /\ JoinAhead /\ Told = Seen(1) /\ Member(c) \in Seen(1)
             /\ 1 \in 1..Len(queue) /\ queue[1] = Joined(job[c].sid) /\ job[c].sid \in Sids
  <2>1. /\ queue # << >> /\ job[c].sid \in Sids /\ queue[1] = Joined(job[c].sid)
        /\ conn[job[c].sid] # "fresh"
    BY <1>0, <1>3, OnlyHandler DEF OrderInv, HandlerInv
  <2>2. JoinAhead
    BY <2>1, JoinedIs DEF JoinAhead
  <2>3. 1 \in 1..Len(queue)
    <3>1. Len(queue) \in Nat \ {0}
      BY <2>1, QueueTail DEF TypeOK
    <3> QED BY <3>1
  <2>4. Visible(job[c].sid, 1)
    BY <2>1, <2>3 DEF OrderInv, PlaceInv, Visible, Here, TypeOK
  <2> QED BY <2>1, <2>2, <2>3, <2>4 DEF Told, Seen, Member
<1>4. peak' <= crowd'
  <2>1. CASE CountPeak(c)
    <3>1. presence \subseteq Seen(1) /\ 1 \in 0..Len(queue)
      BY <1>0, <1>3, <2>1 DEF CountPeak, JoinSteps
    <3>2. Cardinality(presence) <= Cardinality(Seen(1))
      BY <3>1, SeenUsers, UsersFinite
    <3>3. Cardinality(Seen(1)) <= crowd /\ Cardinality(Seen(1)) \in Nat /\ Cardinality(presence) \in Nat
      BY <3>1, SeenUsers, UsersFinite DEF PeakInv, CrowdInv, TypeOK
    <3> QED BY <1>0, <1>1, <3>2, <3>3 DEF TypeOK
  <2> QED BY <1>0, <1>1, <2>1
<1>5. ASSUME queue' = queue
      PROVE  presence' \subseteq Told'
  <2>1. \A k : Seen(k)' = Seen(k)
    BY <1>0, <1>5, SeenKeeps
  <2>2. Told' = Told
    <3>1. \A k : k \in {0, 1} => Seen(k)' = Seen(k)
      BY <2>1
    <3> QED BY <1>5, <3>1 DEF Told, JoinAhead
  <2>3. AddPresence(c) => Member(c) \in Told
    BY <1>3 DEF AddPresence, JoinSteps
  <2> QED BY <1>0, <1>2, <2>2, <2>3
<1>6. ASSUME queue # << >>, queue' = Tail(queue), queue[1] = job[c],
             \/ RemoveIntruder(c) \/ CountPeak(c) \/ RemovePresence(c) \/ DelPresence(c)
             \/ CheckStillIn(c) /\ StillIn(Member(c))
      PROVE  presence' \subseteq Told'
  <2>0. \A k \in Nat : Seen(k)' = Seen(k + 1)
    BY <1>0, <1>6, SeenTail
  <2>1. Seen(1) \subseteq Told'
    <3>1. CASE JoinAhead'
      <4>1. Len(queue') \in Nat \ {0} /\ Len(queue') = Len(queue) - 1 /\ queue'[1] = queue[1 + 1]
            /\ Len(queue) \in Nat
        <5>1. Tail(queue) \in Seq(Events) /\ Len(Tail(queue)) = Len(queue) - 1 /\ Len(queue) \in Nat
              /\ \A k \in 1..Len(Tail(queue)) : Tail(queue)[k] = queue[k + 1]
          BY <1>6, QueueTail DEF TypeOK
        <5>2. Len(Tail(queue)) \in Nat \ {0}
          BY <1>6, <3>1, <5>1, QueueTail DEF JoinAhead
        <5>3. 1 \in 1..Len(Tail(queue))
          BY <5>2
        <5> QED BY <1>6, <5>1, <5>2, <5>3
      <4>2. 1 + 1 \in 1..Len(queue) /\ queue[1 + 1].type = "joined"
        BY <3>1, <4>1 DEF JoinAhead
      <4>3. Seen(1) \subseteq Seen(1 + 1)
        BY <4>2, SeenJoin
      <4>4. \A k : k = 1 => Seen(k)' = Seen(1 + 1)
        BY <2>0
      <4> QED BY <3>1, <4>3, <4>4 DEF Told
    <3>2. CASE ~JoinAhead'
      <4>1. \A k : k = 0 => Seen(k)' = Seen(0 + 1)
        BY <2>0
      <4> QED BY <3>2, <4>1 DEF Told
    <3> QED BY <3>1, <3>2
  <2>2. CASE RemoveIntruder(c) \/ CountPeak(c)
    <3>1. at[c] \in JoinSteps /\ presence' = presence
      BY <2>2 DEF RemoveIntruder, CountPeak, JoinSteps
    <3> QED BY <1>0, <1>3, <2>1, <3>1
  <2>3. CASE DelPresence(c)
    BY <2>3 DEF DelPresence
  <2>4. CASE RemovePresence(c) \/ (CheckStillIn(c) /\ StillIn(Member(c)))
    <3>1. /\ at[c] \in {"still", "srem"} /\ job[c].sid \in Sids
          /\ queue[1] = Left(job[c].sid) /\ queue[1].type # "joined"
      <4>1. at[c] \in {"still", "srem"} /\ at[c] \in LeaveSteps
        BY <2>4 DEF RemovePresence, CheckStillIn, LeaveSteps
      <4>2. job[c].sid \in Sids /\ queue[1] = Left(job[c].sid)
        BY <1>0, <4>1, OnlyHandler
      <4> QED BY <4>1, <4>2, LeftIs
    <3>2. presence \subseteq Seen(0)
      BY <1>0, <3>1 DEF Told, JoinAhead
    <3>3. After(queue, 0) = {queue[1]} \cup After(queue, 1)
      BY <1>6, QueueTail DEF TypeOK
    <3>4. \A t \in Sids : Left(t) = Left(job[c].sid) => t = job[c].sid
      BY <3>1, LeftIs
    <3>5. ASSUME NEW u \in presence, u # Member(c)
          PROVE  u \in Seen(1)
      <4>1. PICK t \in Sids : Visible(t, 0) /\ Owner[t] = u
        BY <3>2, <3>5 DEF Seen
      <4>2. t # job[c].sid
        BY <3>5, <4>1 DEF Member
      <4>3. Visible(t, 1)
        BY <3>1, <3>3, <3>4, <4>1, <4>2 DEF Visible
      <4> QED BY <4>1, <4>3 DEF Seen
    <3>6. ASSUME StillIn(Member(c)) PROVE Member(c) \in Seen(1)
      <4>1. PICK t \in Sids : sessions[t] = "open" /\ Owner[t] = Member(c)
        BY <3>6 DEF StillIn, Open
      <4>2. t # job[c].sid /\ conn[t] # "fresh"
        BY <1>0, <3>1, <4>1 DEF CalmInv, DataInv, SessionInv
      <4>3. Joined(t) \notin After(queue, 1) /\ (Here(t) \/ Left(t) \in After(queue, 0))
        BY <1>0, <4>1 DEF CalmInv
      <4>4. Visible(t, 1)
        BY <3>1, <3>3, <3>4, <4>2, <4>3 DEF Visible
      <4> QED BY <4>1, <4>4 DEF Seen
    <3>7. presence' \subseteq Seen(1)
      BY <2>4, <3>5, <3>6 DEF RemovePresence, CheckStillIn, Member
    <3> QED BY <2>1, <3>7
  <2> QED BY <1>6, <2>2, <2>3, <2>4
<1> QED BY <1>4, <1>5, <1>6, StepAnswers

LEMMA StepCounted ==
  ASSUME TypeOK, TypeOK', CallsInv, OrderInv, DataInv, CalmInv, PeakInv, NEW c \in Calls,
         Step(c) \/ Fail(c), Undisturbed', status' = "ACTIVE"
  PROVE  Cardinality(((presence \cap members) \ Joining)') <= peak'
<1> DEFINE P == (presence \cap members) \ Joining
<1>0. /\ Undisturbed /\ timeouts = 0 /\ status = "ACTIVE"
      /\ \A d \in Calls : at[d] \notin FinalSteps \cup {"media"}
      /\ members' \subseteq members
  <2>1. Undisturbed /\ timeouts = 0 /\ status = "ACTIVE" /\ members' \subseteq members
    BY StepFaults, StepWrites DEF Undisturbed, Grows, TypeOK
  <2> QED BY <2>1 DEF DataInv, ActiveInv
<1>1. /\ Cardinality(P) <= peak /\ Cardinality(P) \in Nat /\ P \in SUBSET Users
      /\ Cardinality(P') \in Nat /\ peak \in Nat /\ peak' \in Nat
  <2>1. P \in SUBSET Users /\ P' \in SUBSET Users /\ Cardinality(Users) \in Nat
    BY UsersFinite DEF TypeOK
  <2>2. Cardinality(P) <= peak /\ Cardinality(P) \in Nat /\ Cardinality(P') \in Nat
    <3>1. Cardinality(P) <= peak
      BY <1>0 DEF PeakInv, CountedInv
    <3> HIDE DEF P
    <3> QED BY <2>1, <3>1, UsersFinite
  <2> QED BY <2>1, <2>2 DEF TypeOK
<1>2. CASE CountPeak(c)
  <2>1. presence' = presence /\ Cardinality(presence) <= peak' /\ Cardinality(presence) \in Nat
    <3>1. Cardinality(presence) \in Nat
      BY UsersFinite DEF TypeOK
    <3> QED BY <1>1, <1>2, <3>1 DEF CountPeak
  <2>2. P' \subseteq presence
    BY <2>1
  <2>3. Cardinality(P') <= Cardinality(presence)
    <3> HIDE DEF P
    <3> QED BY <2>2, UsersFinite DEF TypeOK
  <2> HIDE DEF P
  <2> QED BY <1>1, <2>1, <2>3 DEF P
<1>3. CASE ~CountPeak(c)
  <2>1. peak' = peak
    BY <1>3 DEF Step, JoinStep, LeaveStep, EndStep, KickStep, Fail, meeting,
       FindMeeting, CheckAccess, RemoveIntruder, UpsertParticipant, PushSession, AddPresence,
       CloseSession, CheckStillIn, RemovePresence, EndMeeting, ShutSessions,
       ReadParticipants, WriteTotal, WriteStats, DelPresence, CloseMediaRoom, RemoveMember,
       FindActive, Eject
  <2>2. P' \subseteq P
    <3>1. CASE queue' = queue
      <4>1. Joining' = Joining
        BY <3>1 DEF Joining, HeadIs
      <4>2. CASE AddPresence(c)
        <5>1. Member(c) \in Joining
          <6>1. HeadIs(Joined(job[c].sid)) /\ job[c].sid \in Sids
            BY <1>0, <4>2, OnlyHandler DEF AddPresence, JoinSteps, HeadIs
          <6> QED BY <6>1 DEF Joining, Member
        <5> QED BY <1>0, <4>1, <4>2, <5>1 DEF AddPresence, Member
      <4>3. CASE ~AddPresence(c)
        <5>1. presence' \subseteq presence
          BY <4>3 DEF Step, JoinStep, LeaveStep, EndStep, KickStep, Fail,
             FindMeeting, CheckAccess, RemoveIntruder, UpsertParticipant, PushSession, CountPeak,
             CloseSession, CheckStillIn, RemovePresence, EndMeeting, ShutSessions,
             ReadParticipants, WriteTotal, WriteStats, DelPresence, CloseMediaRoom, RemoveMember,
             FindActive, Eject
        <5> QED BY <1>0, <4>1, <5>1
      <4> QED BY <4>2, <4>3
    <3>2. CASE queue[1] = job[c] /\ RemoveIntruder(c)
      <4>1. Member(c) \notin members /\ presence' = presence /\ job[c].sid \in Sids
        BY <1>0, <3>2, OnlyHandler DEF RemoveIntruder, JoinSteps, DataInv, FoundInv
      <4>2. Joining \subseteq {Member(c)}
        BY <3>2, JoinedIs DEF Joining, HeadIs, Member
      <4> QED BY <1>0, <4>1, <4>2
    <3>3. CASE queue[1] = job[c] /\ (RemovePresence(c) \/ CheckStillIn(c))
      <4>1. job[c] = Left(job[c].sid) /\ job[c].sid \in Sids /\ presence' \subseteq presence
        BY <1>0, <3>3, OnlyHandler DEF RemovePresence, CheckStillIn, LeaveSteps
      <4>2. Joining = {}
        BY <3>3, <4>1, JoinedIs, LeftIs DEF Joining, HeadIs
      <4> QED BY <1>0, <4>1, <4>2
    <3>4. ~DelPresence(c)
      BY <1>0 DEF DelPresence, FinalSteps
    <3> QED BY <1>3, <3>1, <3>2, <3>3, <3>4, StepAnswers
  <2>3. Cardinality(P') <= Cardinality(P)
    <3> HIDE DEF P
    <3> QED BY <1>1, <2>2, UsersFinite
  <2> HIDE DEF P
  <2> QED BY <1>1, <2>1, <2>3 DEF P
<1> QED BY <1>2, <1>3

LEMMA PeakStep ==
  ASSUME TypeOK, TypeOK', CallsInv, OrderInv, DataInv, CalmInv, PeakInv, [Next]_vars
  PROVE  PeakInv'
<1>1. ASSUME NEW s \in Sids, Connect(s)
      PROVE  PeakInv'
  <2> DEFINE people == {Owner[t] : t \in {u \in Sids : conn'[u] \in {"in", "dropped"}}}
  <2>1. /\ \A k \in 0..Len(queue) : Seen(k)' = Seen(k)
        /\ \A k : k = Len(queue) + 1 => Seen(k)' = people
    BY <1>1, ConnectSeen
  <2>2. people \in SUBSET Users
    BY OwnerAssumption
  <2>3. crowd' = IF Cardinality(people) > crowd THEN Cardinality(people) ELSE crowd
    BY <1>1 DEF Connect
  <2>4. queue = << >> => Seen(0) \subseteq people
    <3>1. ASSUME queue = << >>, NEW t \in Sids, Visible(t, 0)
          PROVE  conn'[t] \in {"in", "dropped"}
      BY <1>1, <3>1, QueueEmpty DEF Visible, Here, Connect, TypeOK
    <3> QED BY <3>1 DEF Seen
  <2> HIDE DEF people
  <2>5. Cardinality(people) \in Nat /\ crowd \in Nat
    BY <2>2, UsersFinite DEF TypeOK
  <2>6. crowd' \in Nat /\ crowd <= crowd' /\ Cardinality(people) <= crowd'
    BY <2>3, <2>5
  <2>7. queue = << >> => \A k : k = 1 => Seen(0) \subseteq Seen(k)'
    BY <2>1, <2>4, EmptySeq
  <2>8. \A k : k = Len(queue) + 1 => Cardinality(Seen(k)') <= crowd'
    BY <2>1, <2>6
  <2>9. queue' = Append(queue, Joined(s)) /\ UNCHANGED <<status, members, presence, peak, timeouts, lost>>
    BY <1>1 DEF Connect, Joined, meeting, bounds
  <2> QED BY <2>1, <2>5, <2>6, <2>7, <2>8, <2>9, JoinedIs, EventPeak
<1>2. ASSUME NEW s \in Sids, Leave(s)
      PROVE  PeakInv'
  <2>1. /\ \A k \in 0..Len(queue) : Seen(k)' = Seen(k)
        /\ \A k : k = Len(queue) + 1 => Seen(k)' \subseteq Seen(Len(queue))
    BY <1>2, LeaveSeen
  <2>2. /\ Len(queue) \in 0..Len(queue) /\ crowd \in Nat /\ crowd' = crowd
        /\ Seen(Len(queue)) \in SUBSET Users
    BY <1>2, LenProperties, SeenUsers DEF Leave, TypeOK
  <2>3. \A k : k = Len(queue) + 1 => Cardinality(Seen(k)') <= crowd'
    <3>1. ASSUME NEW k, k = Len(queue) + 1 PROVE Cardinality(Seen(k)') <= crowd'
      <4>1. /\ Cardinality(Seen(Len(queue))) <= crowd /\ Cardinality(Seen(Len(queue))) \in Nat
            /\ Cardinality(Seen(k)') <= Cardinality(Seen(Len(queue)))
            /\ Cardinality(Seen(k)') \in Nat
        <5>1. Seen(k)' \in SUBSET Users
          BY <2>1, <2>2, <3>1
        <5> QED BY <2>1, <2>2, <3>1, <5>1, UsersFinite DEF PeakInv, CrowdInv
      <4> QED BY <2>2, <4>1
    <3> QED BY <3>1
  <2>4. /\ queue' = Append(queue, Left(s)) /\ Left(s).type # "joined"
        /\ UNCHANGED <<status, members, presence, peak, timeouts, lost>>
    BY <1>2, LeftIs DEF Leave, Left, meeting, bounds
  <2> QED BY <2>1, <2>2, <2>3, <2>4, LeftIs, EventPeak
<1>3. CASE FinishRoom
  <2>1. /\ \A k \in 0..Len(queue) : Seen(k)' = Seen(k)
        /\ \A k : k = Len(queue) + 1 => Seen(k)' = {}
    BY <1>3, FinishSeen
  <2>2. Cardinality({}) = 0 /\ crowd \in Nat /\ crowd' = crowd
    BY <1>3, FS_EmptySet DEF FinishRoom, TypeOK
  <2>3. \A k : k = Len(queue) + 1 => Cardinality(Seen(k)') <= crowd'
    <3>1. ASSUME NEW k, k = Len(queue) + 1 PROVE Cardinality(Seen(k)') <= crowd'
      <4>1. Seen(k)' = {}
        BY <2>1, <3>1
      <4>2. Cardinality(Seen(k)') = 0
        BY <2>2, <4>1
      <4> QED BY <2>2, <4>2
    <3> QED BY <3>1
  <2>4. /\ queue' = Append(queue, Finished) /\ Finished.type # "joined"
        /\ UNCHANGED <<status, members, presence, peak, timeouts, lost>>
    BY <1>3, FinishedIs DEF FinishRoom, Finished, meeting, bounds
  <2> QED BY <2>1, <2>2, <2>3, <2>4, FinishedIs, EventPeak
<1>4. ASSUME UNCHANGED <<status, members, conn, queue, presence, peak, crowd, timeouts, lost>>
      PROVE  PeakInv'
  <2>1. CrowdInv'
    BY <1>4, FrameCrowd DEF PeakInv, Drops, Shrinks
  <2>2. RealInv'
    BY <1>4 DEF PeakInv, RealInv, Undisturbed, Told, JoinAhead, Seen, Visible, Here
  <2>3. CountedInv'
    BY <1>4 DEF PeakInv, CountedInv, Undisturbed, Joining, HeadIs
  <2> QED BY <2>1, <2>2, <2>3 DEF PeakInv
<1>5. ASSUME NEW h \in Hooks, Deliver(h)
      PROVE  PeakInv'
  BY <1>4, <1>5 DEF Deliver, meeting, bounds
<1>6. ASSUME NEW r \in Requests, EndByHost(r) \/ \E u \in Users : Kick(r, u)
      PROVE  PeakInv'
  BY <1>4, <1>6 DEF EndByHost, Kick, livekit, meeting
<1>7. CASE UNCHANGED vars
  BY <1>4, <1>7 DEF vars
<1>8. CASE TimeOut \/ GiveUp
  <2>1. ~Undisturbed'
    BY <1>8 DEF TimeOut, GiveUp, Undisturbed, TypeOK
  <2>2. CrowdInv'
    BY <1>8, FrameCrowd DEF TimeOut, GiveUp, PeakInv, Drops, Shrinks
  <2> QED BY <2>1, <2>2 DEF PeakInv, RealInv, CountedInv
<1>9. ASSUME NEW c \in Calls, Step(c) \/ Fail(c)
      PROVE  PeakInv'
  <2>1. crowd' = crowd
    BY <1>9 DEF Step, JoinStep, LeaveStep, EndStep, KickStep, Fail,
       FindMeeting, CheckAccess, RemoveIntruder, UpsertParticipant, PushSession, AddPresence,
       CountPeak, CloseSession, CheckStillIn, RemovePresence, EndMeeting, ShutSessions,
       ReadParticipants, WriteTotal, WriteStats, DelPresence, CloseMediaRoom, RemoveMember,
       FindActive, Eject
  <2>2. CrowdInv'
    BY <1>9, <2>1, StepFrame, FrameCrowd DEF PeakInv
  <2>3. RealInv'
    BY <1>9, StepReal DEF RealInv
  <2>4. CountedInv'
    BY <1>9, StepCounted DEF CountedInv
  <2> QED BY <2>2, <2>3, <2>4 DEF PeakInv
<1> QED BY <1>1, <1>2, <1>3, <1>5, <1>6, <1>7, <1>8, <1>9 DEF Next

-----------------------------------------------------------------------------
(* The figures of an ended meeting *)

\* LiveKit has told everything there is to tell.
Final == media = "closed" /\ Finished \notin After(queue, 0)
Figures == totals = sessions /\ total = Cardinality(docs)

\* A finalize that no join and no leave can disturb: that of room_finished, the
\* last event, and those after it.
Settles(c) == at[c] \in FinalSteps /\ (c \in Hooks \/ Final)
Exact(c) ==
  /\ at[c] = "totals" => /\ seen[c] = [docs |-> docs, marks |-> sessions]
                         /\ \A s \in Sids : Owner[s] \notin todo[c] => totals[s] = sessions[s]
  /\ at[c] = "del" => Figures

ClosedInv == Undisturbed =>
  /\ Final => queue = << >> /\ Open = {} /\ presence = {}
  /\ \A c \in Calls : Settles(c) /\ at[c] # "shut" => Open = {}
OneFinal == ~overlap => \A c, d \in Calls : at[c] \in FinalSteps /\ at[d] \in FinalSteps => c = d
ExactInv == ~overlap /\ Undisturbed =>
  /\ Final => Figures
  /\ \A c \in Calls : Settles(c) => Exact(c)
FinalInv == ClosedInv /\ OneFinal /\ ExactInv

LEMMA FinalInit == Init => FinalInv
<1> SUFFICES ASSUME Init PROVE FinalInv
  OBVIOUS
<1>1. ~Final /\ \A c \in Calls : at[c] \notin FinalSteps
  BY DEF Init, Final, FinalSteps
<1> QED BY <1>1 DEF FinalInv, ClosedInv, OneFinal, ExactInv, Settles

LEMMA EmptyQueue ==
  ASSUME TypeOK, After(queue, 0) = {}
  PROVE  queue = << >>
<1> SUFFICES ASSUME queue # << >> PROVE FALSE
  OBVIOUS
<1> QED BY QueueTail DEF TypeOK

\* Only endMeeting begins a finalize.
LEMMA FinalBegins ==
  ASSUME TypeOK, NEW c \in Calls, Step(c) \/ Fail(c)
  PROVE  /\ at'[c] \in FinalSteps => at[c] \in FinalSteps \/ EndMeeting(c)
         /\ ~overlap' => ~overlap
         /\ EndMeeting(c) /\ ~overlap' => \A d \in Calls \ {c} : at[d] \notin FinalSteps
<1>1. ASSUME at'[c] \in FinalSteps
      PROVE  at[c] \in FinalSteps \/ EndMeeting(c)
  <2>1. CASE JoinStep(c)
    <3>1. at'[c] \in {"idle", "access", "remove", "upsert", "push", "sadd", "count"}
      BY <2>1 DEF JoinStep, FindMeeting, CheckAccess, RemoveIntruder, UpsertParticipant,
         PushSession, AddPresence, CountPeak, Answer, Forget, Goto, TypeOK
    <3> QED BY <1>1, <3>1 DEF FinalSteps
  <2>2. CASE LeaveStep(c) \/ KickStep(c) \/ Fail(c)
    <3>1. at'[c] \in {"idle", "still", "srem", "active", "eject"}
      BY <2>2 DEF LeaveStep, KickStep, Fail, CloseSession, CheckStillIn, RemovePresence,
         RemoveMember, FindActive, Eject, Answer, Forget, Goto, TypeOK
    <3> QED BY <1>1, <3>1 DEF FinalSteps
  <2>3. CASE EndStep(c)
    <3>1. \/ EndMeeting(c) \/ at[c] \in FinalSteps
          \/ CloseMediaRoom(c)
      BY <2>3 DEF EndStep, ShutSessions, ReadParticipants, WriteTotal, WriteStats, DelPresence,
         FinalSteps
    <3>2. CloseMediaRoom(c) => at'[c] = "idle"
      BY DEF CloseMediaRoom, Forget, Goto, TypeOK
    <3> QED BY <1>1, <3>1, <3>2 DEF FinalSteps
  <2> QED BY <2>1, <2>2, <2>3 DEF Step
<1>2. overlap' = overlap \/ (EndMeeting(c)
        /\ overlap' = (overlap \/ \E d \in Calls \ {c} : at[d] \in FinalSteps))
  BY DEF Fail, Step, JoinStep, LeaveStep, EndStep, KickStep,
     FindMeeting, CheckAccess, RemoveIntruder, UpsertParticipant, PushSession, AddPresence,
     CountPeak, CloseSession, CheckStillIn, RemovePresence, EndMeeting, ShutSessions,
     ReadParticipants, WriteTotal, WriteStats, DelPresence, CloseMediaRoom, RemoveMember,
     FindActive, Eject
<1>3. EndMeeting(c) => overlap' = (overlap \/ \E d \in Calls \ {c} : at[d] \in FinalSteps)
  BY DEF EndMeeting
<1>4. ~overlap' => ~overlap
  BY <1>2, <1>3
<1>5. EndMeeting(c) /\ ~overlap' => \A d \in Calls \ {c} : at[d] \notin FinalSteps
  BY <1>3
<1> QED BY <1>1, <1>4, <1>5

\* A request that does not finalize writes no figures.
LEMMA RequestWrites ==
  ASSUME TypeOK, CallsInv, NEW c \in Requests, Step(c) \/ Fail(c)
  PROVE  /\ at[c] \notin FinalSteps => UNCHANGED <<docs, sessions, totals, total, presence>>
         /\ docs' = docs
<1>1. at[c] \notin JoinSteps \cup LeaveSteps
  BY CallsAssumption DEF CallsInv, WorkInv, Works, Calls
<1>2. ~JoinStep(c) /\ ~LeaveStep(c)
  BY <1>1 DEF JoinStep, LeaveStep, JoinSteps, LeaveSteps, FindMeeting, CheckAccess,
     RemoveIntruder, UpsertParticipant, PushSession, AddPresence, CountPeak, CloseSession,
     CheckStillIn, RemovePresence
<1>3. CASE EndStep(c)
  BY <1>3 DEF EndStep, EndMeeting, ShutSessions, ReadParticipants, WriteTotal, WriteStats,
     DelPresence, CloseMediaRoom, FinalSteps, meeting
<1>4. CASE KickStep(c) \/ Fail(c)
  BY <1>4 DEF KickStep, Fail, RemoveMember, FindActive, Eject, meeting
<1> QED BY <1>2, <1>3, <1>4 DEF Step

\* While LiveKit waits for a hook and no answer was late the others are idle.
LEMMA OthersRequest ==
  ASSUME CallsInv, timeouts = 0, NEW c \in Calls, NEW d \in Calls, c # d, at[c] # "idle",
         at[d] # "idle", d \in Hooks
  PROVE  c \in Requests
BY DEF CallsInv, AloneInv, Calls

\* Those who work beside a finalize that nothing disturbs write no figures.
LEMMA BesideFinal ==
  ASSUME TypeOK, CallsInv, OneFinal, ~overlap, timeouts = 0, NEW c \in Calls, NEW d \in Calls,
         c # d, Settles(d), Final => queue = << >>, Step(c) \/ Fail(c), ~overlap'
  PROVE  UNCHANGED <<docs, sessions, totals, total>>
<1>1. at[c] # "idle" \/ EndMeeting(c)
  BY DEF Fail, Step, JoinStep, LeaveStep, EndStep, KickStep,
     FindMeeting, CheckAccess, RemoveIntruder, UpsertParticipant, PushSession, AddPresence,
     CountPeak, CloseSession, CheckStillIn, RemovePresence, EndMeeting, ShutSessions,
     ReadParticipants, WriteTotal, WriteStats, DelPresence, CloseMediaRoom, RemoveMember,
     FindActive, Eject
<1>2. at[c] # "idle"
  BY <1>1 DEF EndMeeting
<1>3. at[d] \in FinalSteps /\ at[d] # "idle" /\ at[c] \notin FinalSteps
  BY DEF Settles, FinalSteps, OneFinal
<1>4. c \in Requests
  <2>1. CASE d \in Hooks
    BY <1>2, <1>3, <2>1, OthersRequest
  <2>2. CASE Final
    BY <1>2, <2>2, CallsAssumption DEF CallsInv, AloneInv, SentInv, Calls
  <2> QED BY <2>1, <2>2 DEF Settles
<1> QED BY <1>3, <1>4, RequestWrites

\* A finalize goes on exactly.
LEMMA GoesExactly ==
  ASSUME TypeOK, CallsInv, DataInv, NEW c \in Calls, Settles(c) => Exact(c),
         Settles(c) /\ at[c] # "shut" => Open = {}, Settles(c)', Final' => Final \/ at[c] \notin FinalSteps \/ at'[c] \notin FinalSteps,
         Step(c) \/ Fail(c)
  PROVE  Exact(c)'
<1>1. CASE EndMeeting(c)
  <2>1. at'[c] = "shut"
    BY <1>1 DEF EndMeeting, Goto, TypeOK
  <2> QED BY <2>1 DEF Exact
<1>2. ASSUME ~EndMeeting(c)
      PROVE  /\ at[c] \in FinalSteps /\ Exact(c) /\ (at[c] # "shut" => Open = {})
             /\ \/ ShutSessions(c) \/ ReadParticipants(c) \/ WriteStats(c)
                \/ \E u \in Users : WriteTotal(c, u)
  <2>1. at'[c] \in FinalSteps /\ at[c] \in FinalSteps
    BY <1>2, FinalBegins DEF Settles
  <2>2. Exact(c) /\ (at[c] # "shut" => Open = {})
    BY <2>1 DEF Settles
  <2>3. ~JoinStep(c) /\ ~LeaveStep(c) /\ ~KickStep(c) /\ ~CloseMediaRoom(c)
    BY <2>1 DEF JoinStep, LeaveStep, KickStep, FinalSteps, FindMeeting, CheckAccess,
       RemoveIntruder, UpsertParticipant, PushSession, AddPresence, CountPeak, CloseSession,
       CheckStillIn, RemovePresence, RemoveMember, FindActive, Eject, CloseMediaRoom
  <2>4. ~Fail(c) /\ ~DelPresence(c)
    <3>1. Fail(c) \/ DelPresence(c) => at'[c] \in {"idle", "media"}
      BY DEF Fail, DelPresence, Answer, Forget, Goto, TypeOK
    <3> QED BY <2>1, <3>1 DEF FinalSteps
  <2> QED BY <1>2, <2>1, <2>2, <2>3, <2>4 DEF Step, EndStep
<1>3. CASE ShutSessions(c)
  <2>1. at'[c] = "read"
    BY <1>3 DEF ShutSessions, Goto, TypeOK
  <2> QED BY <2>1 DEF Exact
<1>4. CASE ReadParticipants(c)
  <2>1. at'[c] = "totals" /\ Open = {}
    BY <1>2, <1>4 DEF ReadParticipants, EndMeeting, Goto, TypeOK, Exact
  <2>2. /\ seen'[c] = [docs |-> docs, marks |-> sessions] /\ todo'[c] = docs
        /\ UNCHANGED <<docs, sessions, totals, total>>
    BY <1>4 DEF ReadParticipants, meeting, TypeOK
  <2>3. \A s \in Sids : Owner[s] \notin docs => totals[s] = sessions[s]
    BY DEF DataInv, SessionInv
  <2> QED BY <2>1, <2>2, <2>3 DEF Exact, Open
<1>5. ASSUME NEW u \in Users, WriteTotal(c, u)
      PROVE  Exact(c)'
  <2>1. /\ at'[c] = "totals" /\ Open = {}
        /\ seen[c] = [docs |-> docs, marks |-> sessions]
        /\ \A s \in Sids : Owner[s] \notin todo[c] => totals[s] = sessions[s]
    BY <1>2, <1>5 DEF WriteTotal, EndMeeting, Exact
  <2>2. UNCHANGED <<docs, sessions, seen>> /\ todo'[c] = todo[c] \ {u}
    BY <1>5 DEF WriteTotal, TypeOK
  <2>3. ASSUME NEW s \in Sids, Owner[s] \notin todo'[c]
        PROVE  totals'[s] = sessions[s]
    BY <1>5, <2>1, <2>2, <2>3 DEF WriteTotal, Open
  <2> QED BY <2>1, <2>2, <2>3 DEF Exact, Open
<1>6. CASE WriteStats(c)
  <2>1. /\ at'[c] = "del" /\ Open = {} /\ todo[c] = {}
        /\ seen[c] = [docs |-> docs, marks |-> sessions]
        /\ \A s \in Sids : Owner[s] \notin todo[c] => totals[s] = sessions[s]
    BY <1>2, <1>6 DEF WriteStats, EndMeeting, Exact, Goto, TypeOK
  <2>2. UNCHANGED <<docs, sessions, totals>> /\ total' = Cardinality(docs)
    BY <1>6, <2>1 DEF WriteStats
  <2>3. totals = sessions
    BY <2>1 DEF TypeOK
  <2> QED BY <2>1, <2>2, <2>3 DEF Exact, Figures, Open
<1> QED BY <1>1, <1>2, <1>3, <1>4, <1>5, <1>6

\* The last event is done with when its finalize has written everything.
LEMMA FinalReached ==
  ASSUME TypeOK, CallsInv, OrderInv, ClosedInv, ExactInv, Undisturbed, ~Final, Final',
         NEW c \in Calls, Step(c) \/ Fail(c)
  PROVE  /\ at[c] \in FinalSteps /\ at'[c] \notin FinalSteps
         /\ queue' = << >> /\ Open' = {} /\ presence' = {}
         /\ ~overlap => Figures'
<1>1. media = "closed" /\ Finished \in After(queue, 0) /\ Finished \notin After(queue', 0)
  BY StepFrame DEF Final, Closes
<1>2. /\ sent = c /\ queue # << >> /\ queue[1] = job[c] /\ queue' = Tail(queue)
      /\ \/ RemoveIntruder(c) \/ CountPeak(c) \/ RemovePresence(c) \/ DelPresence(c)
         \/ CheckStillIn(c)
  BY <1>1, StepAnswers
<1>3. job[c] = Finished
  BY <1>1, <1>2, TailBehind
<1>4. DelPresence(c)
  <2>1. at[c] \notin JoinSteps \cup LeaveSteps
    BY <1>3, JoinedIs, LeftIs, FinishedIs DEF CallsInv, WorkInv, Works
  <2> QED BY <1>2, <2>1 DEF JoinSteps, LeaveSteps, RemoveIntruder, CountPeak, RemovePresence,
         CheckStillIn
<1>5. c \in Hooks
  BY <1>2, CallsAssumption DEF TypeOK, Calls
<1>6. Open = {} /\ at[c] \in FinalSteps /\ (~overlap => Figures)
  BY <1>4, <1>5 DEF ClosedInv, ExactInv, Settles, Exact, DelPresence, FinalSteps
<1>7. UNCHANGED <<docs, sessions, totals, total>> /\ presence' = {} /\ at'[c] = "idle"
  BY <1>4, <1>5 DEF DelPresence, meeting, Answer, Forget, Goto, TypeOK
<1>8. queue' = << >>
  <2>1. After(queue', 0) = After(queue, 1) /\ 1 \in 1..Len(queue)
    BY <1>2, TailBehind
  <2>2. After(queue', 0) = {}
    BY <1>2, <1>3, <2>1 DEF OrderInv, PlaceInv
  <2>3. queue' \in Seq(Events)
    BY <1>2, QueueTail DEF TypeOK
  <2>4. queue' # << >> => queue'[1] \in After(queue', 0)
    BY <2>3, QueueTail
  <2> QED BY <2>2, <2>4
<1> QED BY <1>6, <1>7, <1>8 DEF FinalSteps, Figures, Open

\* After the last event and before its answer no other handler of one works.
LEMMA NoOtherHook ==
  ASSUME CallsInv, ClosedInv, Undisturbed, NEW c \in Hooks, at[c] # "idle"
  PROVE  ~Final /\ \A d \in Calls : Settles(d) => c = d
<1>1. sent = c /\ sent # NoCall
  BY CallsAssumption DEF CallsInv, AloneInv, Undisturbed
<1>2. ~Final
  BY <1>1 DEF CallsInv, SentInv, ClosedInv
<1>3. \A d \in Hooks : at[d] \in FinalSteps => c = d
  BY <1>1 DEF CallsInv, AloneInv, Undisturbed, FinalSteps
<1> QED BY <1>2, <1>3 DEF Settles

LEMMA StepClosed ==
  ASSUME TypeOK, CallsInv, OrderInv, ClosedInv, ExactInv, NEW c \in Calls, Step(c) \/ Fail(c)
  PROVE  ClosedInv'
<1> SUFFICES ASSUME Undisturbed'
             PROVE  /\ Final' => queue' = << >> /\ Open' = {} /\ presence' = {}
                    /\ \A d \in Calls : Settles(d)' /\ at'[d] # "shut" => Open' = {}
  BY DEF ClosedInv
<1>0. Undisturbed
  BY StepFaults DEF Undisturbed, TypeOK
\* Only a join opens a session or adds somebody.
<1>1. ASSUME c \notin Hooks \/ at[c] \in FinalSteps
      PROVE  (Open = {} => Open' = {}) /\ (presence = {} => presence' = {})
  <2>1. ~PushSession(c) /\ ~AddPresence(c)
    BY <1>1 DEF CallsInv, WorkInv, Works, JoinSteps, FinalSteps, PushSession, AddPresence
  <2>2. Open = {} => Open' = {}
    BY <2>1, StepOpens DEF Open
  <2>3. presence' \subseteq presence
    BY <2>1 DEF Step, JoinStep, LeaveStep, EndStep, KickStep, Fail,
       FindMeeting, CheckAccess, RemoveIntruder, UpsertParticipant, CountPeak,
       CloseSession, CheckStillIn, RemovePresence, EndMeeting, ShutSessions,
       ReadParticipants, WriteTotal, WriteStats, DelPresence, CloseMediaRoom, RemoveMember,
       FindActive, Eject
  <2> QED BY <2>2, <2>3
<1>2. at[c] # "idle" \/ c \notin Hooks
  BY CallsAssumption DEF Fail, Step, JoinStep, LeaveStep, EndStep, KickStep,
     FindMeeting, CheckAccess, RemoveIntruder, UpsertParticipant, PushSession, AddPresence,
     CountPeak, CloseSession, CheckStillIn, RemovePresence, EndMeeting, ShutSessions,
     ReadParticipants, WriteTotal, WriteStats, DelPresence, CloseMediaRoom, RemoveMember,
     FindActive, Eject
<1>3. ASSUME Final' PROVE queue' = << >> /\ Open' = {} /\ presence' = {}
  <2>1. CASE Final
    <3>1. queue = << >> /\ Open = {} /\ presence = {} /\ c \notin Hooks
      BY <1>0, <1>2, <2>1, NoOtherHook DEF ClosedInv
    <3> QED BY <1>1, <3>1, StepAnswers
  <2> QED BY <1>0, <1>3, <2>1, FinalReached
<1>4. ASSUME Settles(c)', at'[c] # "shut" PROVE Open' = {}
  <2>1. at[c] \in FinalSteps
    <3>1. EndMeeting(c) => at'[c] = "shut"
      BY DEF EndMeeting, Goto, TypeOK
    <3> QED BY <1>4, <3>1, FinalBegins DEF Settles
  <2>2. CASE at[c] = "shut"
    <3>1. ShutSessions(c) \/ Fail(c)
      BY <2>2 DEF Step, JoinStep, LeaveStep, EndStep, KickStep,
         FindMeeting, CheckAccess, RemoveIntruder, UpsertParticipant, PushSession, AddPresence,
         CountPeak, CloseSession, CheckStillIn, RemovePresence, EndMeeting,
         ReadParticipants, WriteTotal, WriteStats, DelPresence, CloseMediaRoom, RemoveMember,
         FindActive, Eject
    <3>2. ~Fail(c)
      BY <1>4 DEF Fail, Forget, Goto, TypeOK, Settles, FinalSteps
    <3> QED BY <3>1, <3>2 DEF ShutSessions, Open
  <2>3. CASE at[c] # "shut" /\ (Final \/ ~Final')
    BY <1>0, <1>1, <1>4, <2>1, <2>3 DEF ClosedInv, Settles
  <2> QED BY <1>3, <2>2, <2>3
<1>5. ASSUME NEW d \in Calls, d # c, Settles(d)', at'[d] # "shut" PROVE Open' = {}
  <2>1. at[d] = at'[d]
    BY <1>5, StepOthers
  <2>2. CASE Final \/ ~Final'
    <3>1. Settles(d) /\ Open = {}
      BY <1>0, <1>5, <2>1, <2>2 DEF ClosedInv, Settles
    <3>2. c \notin Hooks
      BY <1>0, <1>2, <1>5, <3>1, NoOtherHook
    <3> QED BY <1>1, <3>1, <3>2
  <2> QED BY <1>3, <2>2
<1> QED BY <1>3, <1>4, <1>5

\* After the last event a second finalize writes what is there already.
LEMMA FinalStays ==
  ASSUME TypeOK, CallsInv, ClosedInv, ExactInv, ~overlap, Undisturbed, Final,
         NEW c \in Calls, Step(c) \/ Fail(c)
  PROVE  Figures'
<1>1. Open = {} /\ Figures
  BY DEF ClosedInv, ExactInv
<1>2. c \in Requests
  <2>1. at[c] # "idle" \/ c \notin Hooks
    BY CallsAssumption DEF Fail, Step, JoinStep, LeaveStep, EndStep, KickStep,
       FindMeeting, CheckAccess, RemoveIntruder, UpsertParticipant, PushSession, AddPresence,
       CountPeak, CloseSession, CheckStillIn, RemovePresence, EndMeeting, ShutSessions,
       ReadParticipants, WriteTotal, WriteStats, DelPresence, CloseMediaRoom, RemoveMember,
       FindActive, Eject
  <2> QED BY <2>1, NoOtherHook DEF Calls
<1>3. CASE at[c] \notin FinalSteps
  BY <1>1, <1>2, <1>3, RequestWrites DEF Figures
<1>4. CASE at[c] \in FinalSteps
  <2>1. Exact(c)
    BY <1>4 DEF ExactInv, Settles
  <2>2. \/ ShutSessions(c) \/ WriteStats(c) \/ \E u \in Users : WriteTotal(c, u)
        \/ UNCHANGED <<docs, sessions, totals, total>>
    BY <1>4 DEF Fail, Step, JoinStep, LeaveStep, EndStep, KickStep, FinalSteps, meeting,
       FindMeeting, CheckAccess, RemoveIntruder, UpsertParticipant, PushSession, AddPresence,
       CountPeak, CloseSession, CheckStillIn, RemovePresence, EndMeeting, ReadParticipants,
       DelPresence, CloseMediaRoom, RemoveMember, FindActive, Eject
  <2>3. CASE ShutSessions(c)
    <3>1. sessions' = sessions
      BY <1>1, <2>3 DEF ShutSessions, Open, TypeOK
    <3> QED BY <1>1, <2>3, <3>1 DEF ShutSessions, Figures
  <2>4. ASSUME NEW u \in Users, WriteTotal(c, u) PROVE Figures'
    <3>1. seen[c].marks = sessions
      BY <2>1, <2>4 DEF WriteTotal, Exact
    <3>2. totals' = totals
      BY <1>1, <2>4, <3>1 DEF WriteTotal, Figures, Open, TypeOK
    <3> QED BY <1>1, <2>4, <3>2 DEF WriteTotal, Figures
  <2>5. CASE WriteStats(c)
    <3>1. total' = Cardinality(docs)
      BY <2>1, <2>5 DEF WriteStats, Exact
    <3> QED BY <1>1, <2>5, <3>1 DEF WriteStats, Figures
  <2>6. CASE UNCHANGED <<docs, sessions, totals, total>>
    BY <1>1, <2>6 DEF Figures
  <2> QED BY <2>2, <2>3, <2>4, <2>5, <2>6
<1> QED BY <1>3, <1>4

LEMMA StepFinal ==
  ASSUME TypeOK, CallsInv, OrderInv, DataInv, FinalInv, NEW c \in Calls, Step(c) \/ Fail(c)
  PROVE  FinalInv'
<1>1. /\ ~overlap' => ~overlap
      /\ Undisturbed' => Undisturbed
      /\ \A d \in Calls : d # c => /\ at'[d] = at[d] /\ seen'[d] = seen[d]
                                   /\ todo'[d] = todo[d]
  <2>1. ~overlap' => ~overlap
    BY FinalBegins
  <2>2. Undisturbed' => Undisturbed
    BY StepFaults DEF Undisturbed, TypeOK
  <2> QED BY <2>1, <2>2, StepOthers
<1>2. OneFinal'
  <2> SUFFICES ASSUME ~overlap', NEW d \in Calls, NEW e \in Calls,
                      at'[d] \in FinalSteps, at'[e] \in FinalSteps
               PROVE  d = e
    BY DEF OneFinal
  <2>1. CASE at[c] \in FinalSteps \/ at'[c] \notin FinalSteps
    BY <1>1, <2>1 DEF FinalInv, OneFinal
  <2>2. CASE EndMeeting(c)
    BY <1>1, <2>2, FinalBegins
  <2> QED BY <2>1, <2>2, FinalBegins
<1>3. ExactInv'
  <2> SUFFICES ASSUME ~overlap', Undisturbed'
               PROVE  (Final' => Figures') /\ \A d \in Calls : Settles(d)' => Exact(d)'
    BY DEF ExactInv
  <2>0. ~overlap /\ Undisturbed /\ timeouts = 0
    BY <1>1 DEF Undisturbed
  <2>1. Final' => Figures'
    BY <2>0, FinalReached, FinalStays DEF FinalInv
  <2>2. ASSUME Settles(c)' PROVE Exact(c)'
    <3>1. (Settles(c) => Exact(c)) /\ (Settles(c) /\ at[c] # "shut" => Open = {})
      BY <2>0 DEF FinalInv, ExactInv, ClosedInv
    <3>2. Final' => Final \/ at'[c] \notin FinalSteps
      BY <2>0, FinalReached DEF FinalInv
    <3> QED BY <2>2, <3>1, <3>2, GoesExactly
  <2>3. ASSUME NEW d \in Calls, d # c, Settles(d)' PROVE Exact(d)'
    <3>1. at[d] \in FinalSteps
      BY <1>1, <2>3 DEF Settles
    <3>2. Settles(d)
      <4>1. CASE Final' /\ ~Final
        <5>1. at[c] \in FinalSteps
          BY <2>0, <4>1, FinalReached DEF FinalInv
        <5> QED BY <2>0, <2>3, <3>1, <5>1 DEF FinalInv, OneFinal
      <4> QED BY <2>3, <3>1, <4>1 DEF Settles
    <3>3. Exact(d) /\ (Final => queue = << >>)
      BY <2>0, <3>2 DEF FinalInv, ClosedInv, ExactInv
    <3>4. UNCHANGED <<docs, sessions, totals, total>>
      BY <2>0, <2>3, <3>2, <3>3, BesideFinal DEF FinalInv
    <3> QED BY <1>1, <2>3, <3>3, <3>4 DEF Exact, Figures
  <2> QED BY <2>1, <2>2, <2>3
<1>4. ClosedInv'
  BY StepClosed DEF FinalInv
<1> QED BY <1>2, <1>3, <1>4 DEF FinalInv

LEMMA FinalStep ==
  ASSUME TypeOK, CallsInv, OrderInv, DataInv, FinalInv, [Next]_vars
  PROVE  FinalInv'
<1>1. ASSUME UNCHANGED <<docs, sessions, totals, total, presence, seen, todo, overlap>>,
             Undisturbed' => Undisturbed, Final' => Final /\ queue' = queue,
             \A d \in Calls : at'[d] \in FinalSteps => at'[d] = at[d]
      PROVE  FinalInv'
  <2>1. OneFinal'
    BY <1>1 DEF FinalInv, OneFinal
  <2>2. ClosedInv'
    <3>1. \A d \in Calls : Settles(d)' => Settles(d) /\ at'[d] = at[d]
      BY <1>1 DEF Settles
    <3> QED BY <1>1, <3>1 DEF FinalInv, ClosedInv, Open
  <2>3. ASSUME ~overlap', Undisturbed', Final' PROVE Figures'
    BY <1>1, <2>3 DEF FinalInv, ExactInv, Figures
  <2>4. ASSUME ~overlap', Undisturbed', NEW d \in Calls, Settles(d)' PROVE Exact(d)'
    <3>1. at'[d] = at[d] /\ Settles(d)
      BY <1>1, <2>4 DEF Settles
    <3>2. Exact(d)
      BY <1>1, <2>4, <3>1 DEF FinalInv, ExactInv
    <3> QED BY <1>1, <3>1, <3>2 DEF Exact, Figures
  <2> QED BY <2>1, <2>2, <2>3, <2>4 DEF FinalInv, ExactInv
<1>2. ASSUME NEW s \in Sids, Connect(s) \/ Leave(s)
      PROVE  FinalInv'
  <2>1. media # "closed" /\ media' = media
    BY <1>2 DEF Connect, Leave, OrderInv, ToldInv, Here
  <2> QED BY <1>1, <1>2, <2>1 DEF Connect, Leave, Final, Undisturbed, meeting, local, bounds
<1>3. CASE FinishRoom
  <2>1. Finished \in After(queue', 0)
    BY <1>3, FinishedIs, AppendBehind DEF FinishRoom, Finished
  <2> QED BY <1>1, <1>3, <2>1 DEF FinishRoom, Final, Undisturbed, meeting, local, bounds
<1>4. CASE TimeOut \/ GiveUp
  <2>1. ~Undisturbed'
    BY <1>4 DEF TimeOut, GiveUp, Undisturbed, TypeOK
  <2>2. UNCHANGED <<at, overlap>>
    BY <1>4 DEF TimeOut, GiveUp, local
  <2> QED BY <2>1, <2>2 DEF FinalInv, ClosedInv, OneFinal, ExactInv
<1>5. ASSUME NEW h \in Hooks, Deliver(h)
      PROVE  FinalInv'
  <2>1. at'[h] \in {"find", "close", "end"} /\ \A d \in Calls : d # h => at'[d] = at[d]
    <3>1. queue[1] \in Events /\ Head(queue) = queue[1]
      BY <1>5, QueueTail DEF Deliver, TypeOK
    <3>2. Head(queue).type \in {"joined", "left", "finished"}
      BY <3>1, EventCases
    <3> QED BY <1>5, <3>2 DEF Deliver, TypeOK, Calls
  <2>2. \A d \in Calls : at'[d] \in FinalSteps => at'[d] = at[d]
    BY <2>1 DEF FinalSteps
  <2> QED BY <1>1, <1>5, <2>2 DEF Deliver, Final, Undisturbed, meeting, bounds
<1>6. ASSUME NEW r \in Requests, EndByHost(r) \/ \E u \in Users : Kick(r, u)
      PROVE  FinalInv'
  <2>1. \A d \in Calls : at'[d] \in FinalSteps => at'[d] = at[d]
    BY <1>6 DEF EndByHost, Kick, Goto, TypeOK, FinalSteps
  <2> QED BY <1>1, <1>6, <2>1 DEF EndByHost, Kick, Final, Undisturbed, livekit, meeting
<1>7. CASE UNCHANGED vars
  BY <1>1, <1>7 DEF vars, Final, Undisturbed
<1> QED BY <1>2, <1>3, <1>4, <1>5, <1>6, <1>7, StepFinal DEF Next

-----------------------------------------------------------------------------
(* The theorems *)

CallsKept == TypeOK /\ CallsInv /\ OrderInv /\ DataInv
IInv == CallsKept /\ KickInv /\ TabsInv /\ CalmInv /\ CallInv /\ PeakInv /\ FinalInv

LEMMA IInvInit == Init => IInv
BY TypeInit, CallsInit, OrderInit, DataInit, KickInit, TabsInit, CalmInit, PeakInit, FinalInit
   DEF IInv, CallsKept

LEMMA IInvStep == IInv /\ [Next]_vars => IInv'
<1> SUFFICES ASSUME IInv, [Next]_vars PROVE IInv'
  OBVIOUS
<1> USE DEF IInv, CallsKept
<1>1. TypeOK'
  BY TypeStep DEF CallsInv
<1>2. CallsInv' /\ OrderInv' /\ DataInv'
  BY CallsStep, OrderStep, DataStep
<1>3. KickInv'
  <2>1. GoingInv'
    BY GoingStep DEF KickInv
  <2>2. ClosingInv'
    BY ClosingStep
  <2> QED BY <2>1, <2>2 DEF KickInv
<1>4. TabsInv' /\ CalmInv' /\ CallInv'
  BY TabsStep, CalmStep
<1>5. PeakInv'
  BY <1>1, PeakStep
<1>6. FinalInv'
  BY FinalStep
<1> QED BY <1>1, <1>2, <1>3, <1>4, <1>5, <1>6

\* Every reachable state keeps the order of the events, and each store differs
\* from LiveKit's room only by what an event or a call has still to set right
\* (handleWebhook, endMeeting, finalizeMeeting, removeFromActiveMeeting).
THEOREM PresenceInvariant == Spec => []IInv
<1> QED BY IInvInit, IInvStep, PTL DEF Spec

\* What the three stores and the handlers hold is always of its type; the peak
\* and the total never exceed the number of users.
THEOREM TypeCorrect == Spec => []TypeOK
<1>1. IInv => TypeOK
  BY DEF IInv, CallsKept
<1> QED BY PresenceInvariant, <1>1, PTL

\* At rest no event is told of and no call is under way.
LEMMA RestIs ==
  ASSUME Rest
  PROVE  /\ \A k \in {0, 1} : After(queue, k) = {}
         /\ \A c \in Calls : at[c] \notin JoinSteps \cup LeaveSteps \cup FinalSteps
                                            \cup {"media", "active", "eject"}
         /\ \A s \in Sids : Here(s) <=> conn[s] = "in"
         /\ \A e : ~HeadIs(e)
<1>1. \A k \in {0, 1} : After(queue, k) = {}
  BY QueueEmpty DEF Rest
<1>2. "idle" \notin JoinSteps \cup LeaveSteps \cup FinalSteps \cup {"media", "active", "eject"}
  BY DEF JoinSteps, LeaveSteps, FinalSteps
<1> QED BY <1>1, <1>2 DEF Rest, Here, HeadIs

\* Who is kicked has left the call once everything is through, at whatever
\* point the kick met the handler of his join and although his token outlives
\* it (kickMember, removeFromActiveMeeting, handleParticipantJoined).
THEOREM KickCorrect == Spec => []KickedLeavesCall
<1>1. ASSUME IInv PROVE KickedLeavesCall
  <2> SUFFICES ASSUME Rest, lost = 0, status = "ACTIVE" \/ failures = 0,
                      NEW s \in Sids, conn[s] = "in"
               PROVE  Owner[s] \in members
    BY DEF KickedLeavesCall
  <2> USE <1>1 DEF IInv, CallsKept
  <2>1. CASE status = "ACTIVE"
    <3>1. Unchecked \in {0, 1}
      BY DEF Unchecked
    <3>2. ~\E c \in Calls : at[c] \in {"active", "eject"} /\ job[c].user = Owner[s]
      BY RestIs
    <3> QED BY <2>1, <3>1, <3>2, RestIs DEF KickInv, GoingInv
  <2>2. CASE status = "ENDED" /\ failures = 0
    <3>1. media # "closed"
      BY DEF OrderInv, ToldInv, Here
    <3>2. ~\E r \in Requests : at[r] \in FinalSteps \cup {"media"}
      BY RestIs DEF Calls
    <3> QED BY <2>2, <3>1, <3>2 DEF KickInv, ClosingInv
  <2> QED BY <2>1, <2>2 DEF TypeOK
<1> QED BY PresenceInvariant, <1>1, PTL

\* Every connection has exactly one open session while it lasts, however often
\* an event was sent again while its first handler still ran
\* (handleParticipantJoined, handleParticipantLeft).
THEOREM SessionsCorrect == Spec => []SessionsSurviveRedelivery
<1>1. ASSUME IInv PROVE SessionsSurviveRedelivery
  <2> SUFFICES ASSUME Rest, lost = 0, status = "ACTIVE", members = Users,
                      NEW s \in Sids
               PROVE  sessions[s] = "open" <=> conn[s] = "in"
    BY DEF SessionsSurviveRedelivery, Open, InCall
  <2> USE <1>1 DEF IInv, CallsKept
  <2>1. /\ sessions[s] = "none" => conn[s] = "fresh"
        /\ conn[s] = "gone" => sessions[s] = "left"
    BY RestIs DEF TabsInv
  <2>2. /\ conn[s] = "fresh" => sessions[s] = "none"
        /\ sessions[s] = "left" => conn[s] = "gone"
        /\ sessions[s] # "ended"
    BY DEF DataInv, ActiveInv, SessionInv
  <2>3. conn[s] \in {"fresh", "in", "gone"} /\ sessions[s] \in {"none", "open", "left"}
    BY <2>2 DEF Rest, TypeOK, Marks
  <2> QED BY <2>1, <2>2, <2>3
<1> QED BY PresenceInvariant, <1>1, PTL

\* Presence in Redis is who is in the call once the events are through, also
\* after second tabs, kicks and handlers that were run again after a failure.
THEOREM PresenceCorrect == Spec => []PresenceIsCall
<1>1. ASSUME IInv PROVE PresenceIsCall
  <2> SUFFICES ASSUME Rest, Undisturbed, status = "ACTIVE"
               PROVE  presence = {Owner[s] : s \in InCall}
    BY DEF PresenceIsCall
  <2> USE <1>1 DEF IInv, CallsKept
  <2>1. ASSUME NEW u \in presence PROVE \E s \in InCall : Owner[s] = u
    <3>1. StillIn(u)
      BY RestIs DEF CallInv
    <3>2. PICK s \in Sids : sessions[s] = "open" /\ Owner[s] = u
      BY <3>1 DEF StillIn, Open
    <3>3. conn[s] = "in"
      BY <3>2, RestIs DEF CalmInv
    <3> QED BY <3>2, <3>3 DEF InCall
  <2>2. ASSUME NEW s \in InCall PROVE Owner[s] \in presence
    BY RestIs DEF InCall, CallInv
  <2> QED BY <2>1, <2>2
<1> QED BY PresenceInvariant, <1>1, PTL

\* The peak is a number of users that were in the call at once, and at rest no
\* fewer than are in it now (SCARD and $max in handleParticipantJoined).
THEOREM PeakCorrect == Spec => []PeakIsReal
<1>1. ASSUME IInv, KickedLeavesCall, PresenceIsCall PROVE PeakIsReal
  <2> USE <1>1 DEF IInv, CallsKept
  <2>1. Undisturbed => peak <= crowd
    BY DEF PeakInv, RealInv
  <2>2. ASSUME Undisturbed, Rest, status = "ACTIVE"
        PROVE  Cardinality(presence) <= peak
    <3>1. presence \subseteq members
      BY <2>2 DEF PresenceIsCall, KickedLeavesCall, InCall, Undisturbed
    <3>2. Joining = {}
      BY <2>2, RestIs DEF Joining
    <3>3. (presence \cap members) \ Joining = presence
      BY <3>1, <3>2
    <3> QED BY <2>2, <3>3 DEF PeakInv, CountedInv
  <2> QED BY <2>1, <2>2 DEF PeakIsReal
<1> QED BY PresenceInvariant, KickCorrect, PresenceCorrect, <1>1, PTL

\* When the call is over and the meeting has ended, once the events are through,
\* nobody is present and every session is closed; and the totals are those of
\* the sessions unless two finalizes met (endMeeting, finalizeMeeting).
THEOREM EndCorrect == Spec => []EndedIsSettled
<1>1. ASSUME IInv PROVE EndedIsSettled
  <2> SUFFICES ASSUME Rest, Undisturbed, media = "closed"
               PROVE  /\ Open = {} /\ presence = {}
                      /\ ~overlap => totals = sessions /\ total = Cardinality(docs)
    BY DEF EndedIsSettled
  <2>1. Final
    BY RestIs DEF Final
  <2> QED BY <1>1, <2>1 DEF IInv, FinalInv, ClosedInv, ExactInv, Figures
<1> QED BY PresenceInvariant, <1>1, PTL

=============================================================================
