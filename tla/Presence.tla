------------------------------ MODULE Presence ------------------------------
(***************************************************************************)
(* Who is in one meeting, as the backend learns it from LiveKit's webhooks: *)
(* the participants and their sessions in Mongo, the presence set in Redis *)
(* and the figures written when the meeting ends.                          *)
(*                                                                         *)
(* LiveKit queues the events of a room and sends one at a time.  An event  *)
(* that is answered 500 is sent again; so is one whose answer is late, and *)
(* then its first handler still runs beside the second and beside those of *)
(* the events that follow.  Requests (the host ends the meeting, a member  *)
(* is kicked) run beside all of them.  Each await is a step of its own.    *)
(***************************************************************************)
EXTENDS Integers, FiniteSets, Sequences

CONSTANTS
  Users,        \* members of the room when the meeting starts
  Sids,         \* connections to LiveKit, one sid each
  Owner,        \* the user of each connection
  Hooks,        \* webhook handlers that may run at once
  Requests,     \* HTTP requests that may run at once
  NoCall,       \* no delivery is waiting for its answer
  NoJob,        \* an idle call
  MaxRequests,  \* bound: requests
  MaxTimeouts,  \* bound: answers that come too late
  MaxFailures,  \* bound: handlers that throw, instances that stop
  MaxLost,      \* bound: events LiveKit gives up, kicks whose LiveKit call fails
  MaxFaults     \* bound: timeouts, failures and losses together

ASSUME OwnerAssumption == Owner \in [Sids -> Users]
ASSUME CallsAssumption == Hooks \cap Requests = {} /\ NoCall \notin Hooks \cup Requests
ASSUME FiniteAssumption == IsFiniteSet(Users) /\ IsFiniteSet(Sids)
ASSUME BoundsAssumption == MaxRequests \in Nat /\ MaxTimeouts \in Nat
                              /\ MaxFailures \in Nat /\ MaxLost \in Nat
                              /\ MaxFaults \in Nat

Calls == Hooks \cup Requests

VARIABLES
  status,    \* of the meeting in Mongo
  members,   \* users with a room member document
  media,     \* LiveKit's room: open, closing (dropping everybody) or closed
  conn,      \* each connection: fresh, in, dropped (left is to come) or gone
  queue,     \* events LiveKit has still to deliver, oldest first
  sent,      \* the handler LiveKit waits for, working on the oldest event
  docs,      \* users with a participant document
  sessions,  \* per sid: none, open, left (real leftAt) or ended (leftAt = endedAt)
  totals,    \* how each session counts in the totalDurationSeconds of its user
  total,     \* totalParticipants
  peak,      \* peakParticipants
  presence,  \* presence:{meetingId}
  at,        \* what each call does next
  job,       \* the event or the request it works on
  seen,      \* what each finalize has read: the documents and their sessions
  todo,      \* users whose total it has still to write
  crowd,     \* the most users LiveKit had at once, the dropped ones too (ghost)
  overlap,   \* two finalizes have run at once (ghost)
  asked,
  timeouts,
  failures,
  lost

livekit == <<media, conn, queue, sent>>
meeting == <<status, docs, sessions, totals, total, peak>>
local   == <<at, job, seen, todo>>
bounds  == <<asked, timeouts, failures, lost>>
vars    == <<status, members, media, conn, queue, sent, docs, sessions, totals, total,
             peak, presence, at, job, seen, todo, crowd, overlap, asked, timeouts,
             failures, lost>>

FaultsLeft == timeouts + failures + lost < MaxFaults

JoinSteps  == {"find", "access", "remove", "upsert", "push", "sadd", "count"}
LeaveSteps == {"close", "still", "srem"}
FinalSteps == {"shut", "read", "totals", "del"}
Steps == {"idle", "end", "media", "drop", "active", "eject"}
           \cup JoinSteps \cup LeaveSteps \cup FinalSteps

Marks == {"none", "open", "left", "ended"}
Event(type, s) == [type |-> type, sid |-> s]
Events == [type : {"joined", "left"}, sid : Sids] \cup {[type |-> "finished"]}
Jobs == Events \cup [type : {"kick"}, user : Users] \cup {[type |-> "end"], NoJob}
Nothing == [docs |-> {}, marks |-> [s \in Sids |-> "none"]]

Init ==
  /\ status = "ACTIVE"
  /\ members = Users
  /\ media = "open"
  /\ conn = [s \in Sids |-> "fresh"]
  /\ queue = <<>>
  /\ sent = NoCall
  /\ docs = {}
  /\ sessions = [s \in Sids |-> "none"]
  /\ totals = [s \in Sids |-> "none"]
  /\ total = 0
  /\ peak = 0
  /\ presence = {}
  /\ at = [c \in Calls |-> "idle"]
  /\ job = [c \in Calls |-> NoJob]
  /\ seen = [c \in Calls |-> Nothing]
  /\ todo = [c \in Calls |-> {}]
  /\ crowd = 0
  /\ overlap = FALSE
  /\ asked = 0 /\ timeouts = 0 /\ failures = 0 /\ lost = 0

InCall == {s \in Sids : conn[s] = "in"}
Open   == {s \in Sids : sessions[s] = "open"}

-----------------------------------------------------------------------------
(* LiveKit *)

\* A token outlives a kick and the end of the meeting.  A second tab has the
\* same identity: LiveKit drops the first.  auto_create is off: no room, no entry.
Connect(s) ==
  /\ media = "open"
  /\ conn[s] = "fresh"
  /\ conn' = [t \in Sids |-> IF t = s THEN "in"
                             ELSE IF conn[t] = "in" /\ Owner[t] = Owner[s] THEN "dropped"
                             ELSE conn[t]]
  /\ queue' = Append(queue, Event("joined", s))
  /\ LET people == {Owner[t] : t \in {u \in Sids : conn'[u] \in {"in", "dropped"}}} IN
       crowd' = IF Cardinality(people) > crowd THEN Cardinality(people) ELSE crowd
  /\ UNCHANGED <<members, media, sent, meeting, presence, local, overlap, bounds>>

\* participant_left, or connection_aborted, which is handled the same way.
Leave(s) ==
  /\ conn[s] \in {"in", "dropped"}
  /\ conn' = [conn EXCEPT ![s] = "gone"]
  /\ queue' = Append(queue, Event("left", s))
  /\ UNCHANGED <<members, media, sent, meeting, presence, local, crowd, overlap, bounds>>

\* Everybody has been dropped, or the room has been empty for its timeout.
FinishRoom ==
  /\ media # "closed"
  /\ \A s \in Sids : conn[s] \notin {"in", "dropped"}
  /\ media' = "closed"
  /\ queue' = Append(queue, [type |-> "finished"])
  /\ UNCHANGED <<members, conn, sent, meeting, presence, local, crowd, overlap, bounds>>

\* The oldest event goes out when no answer is awaited.
Deliver(h) ==
  /\ queue # <<>> /\ sent = NoCall
  /\ at[h] = "idle"
  /\ sent' = h
  /\ job' = [job EXCEPT ![h] = Head(queue)]
  /\ at' = [at EXCEPT ![h] = CASE Head(queue).type = "joined"   -> "find"
                               [] Head(queue).type = "left"     -> "close"
                               [] Head(queue).type = "finished" -> "end"]
  /\ UNCHANGED <<members, media, conn, queue, meeting, presence, seen, todo, crowd, overlap, bounds>>

\* LiveKit stops waiting; the handler does not stop working.
TimeOut ==
  /\ sent # NoCall
  /\ timeouts < MaxTimeouts /\ FaultsLeft
  /\ timeouts' = timeouts + 1
  /\ sent' = NoCall
  /\ UNCHANGED <<members, media, conn, queue, meeting, presence, local, crowd, overlap,
                 asked, failures, lost>>

\* The oldest event has passed its MaxAge.
GiveUp ==
  /\ queue # <<>> /\ sent = NoCall
  /\ lost < MaxLost /\ FaultsLeft
  /\ lost' = lost + 1
  /\ queue' = Tail(queue)
  /\ UNCHANGED <<members, media, conn, sent, meeting, presence, local, crowd, overlap,
                 asked, timeouts, failures>>

-----------------------------------------------------------------------------
Goto(c, step) == at' = [at EXCEPT ![c] = step]

Forget(c) ==
  /\ Goto(c, "idle")
  /\ job' = [job EXCEPT ![c] = NoJob]
  /\ seen' = [seen EXCEPT ![c] = Nothing]
  /\ todo' = [todo EXCEPT ![c] = {}]

\* 200: LiveKit goes on to the next event, unless it has stopped waiting.
Answer(c) ==
  /\ Forget(c)
  /\ IF sent = c THEN queue' = Tail(queue) /\ sent' = NoCall ELSE UNCHANGED <<queue, sent>>

-----------------------------------------------------------------------------
(* participant_joined *)

\* The meeting as the handler will know it from here on.
FindMeeting(c) ==
  /\ at[c] = "find"
  /\ Goto(c, IF status = "ACTIVE" THEN "access" ELSE "remove")
  /\ UNCHANGED <<members, livekit, meeting, presence, job, seen, todo, crowd, overlap, bounds>>

\* Variant: whoever has a token may stay.
CheckAccess_Token(c) ==
  /\ at[c] = "access"
  /\ Goto(c, "upsert")
  /\ UNCHANGED <<members, livekit, meeting, presence, job, seen, todo, crowd, overlap, bounds>>

CheckAccess(c) ==
  /\ at[c] = "access"
  /\ Goto(c, IF Owner[job[c].sid] \in members THEN "upsert" ELSE "remove")
  /\ UNCHANGED <<members, livekit, meeting, presence, job, seen, todo, crowd, overlap, bounds>>

\* LiveKit drops whatever connection the user has at this moment.
DropUser(u) ==
  conn' = [s \in Sids |-> IF conn[s] = "in" /\ Owner[s] = u THEN "dropped" ELSE conn[s]]

RemoveIntruder(c) ==
  /\ at[c] = "remove"
  /\ DropUser(Owner[job[c].sid])
  /\ Answer(c)
  /\ UNCHANGED <<members, media, meeting, presence, crowd, overlap, bounds>>

UpsertParticipant(c) ==
  /\ at[c] = "upsert"
  /\ docs' = docs \cup {Owner[job[c].sid]}
  /\ Goto(c, "push")
  /\ UNCHANGED <<members, livekit, status, sessions, totals, total, peak, presence,
                 job, seen, todo, crowd, overlap, bounds>>

\* Variant: no filter on the sid.
PushSession_Again(c) ==
  /\ at[c] = "push"
  /\ sessions' = [sessions EXCEPT ![job[c].sid] = "open"]
  /\ Goto(c, "sadd")
  /\ UNCHANGED <<members, livekit, status, docs, totals, total, peak, presence,
                 job, seen, todo, crowd, overlap, bounds>>

\* A sid that has a session already gets no second one.
PushSession(c) ==
  /\ at[c] = "push"
  /\ sessions' = [sessions EXCEPT ![job[c].sid] = IF @ = "none" THEN "open" ELSE @]
  /\ Goto(c, "sadd")
  /\ UNCHANGED <<members, livekit, status, docs, totals, total, peak, presence,
                 job, seen, todo, crowd, overlap, bounds>>

AddPresence(c) ==
  /\ at[c] = "sadd"
  /\ presence' = presence \cup {Owner[job[c].sid]}
  /\ Goto(c, "count")
  /\ UNCHANGED <<members, livekit, meeting, job, seen, todo, crowd, overlap, bounds>>

\* Variant: $inc for every join.
CountPeak_Inc(c) ==
  /\ at[c] = "count"
  /\ peak' = peak + 1
  /\ Answer(c)
  /\ UNCHANGED <<members, media, conn, status, docs, sessions, totals, total, presence,
                 crowd, overlap, bounds>>

\* SCARD and $max: nobody reads the peak, and $max commutes, so that the write
\* may be taken with the read.
CountPeak(c) ==
  /\ at[c] = "count"
  /\ peak' = IF Cardinality(presence) > peak THEN Cardinality(presence) ELSE peak
  /\ Answer(c)
  /\ UNCHANGED <<members, media, conn, status, docs, sessions, totals, total, presence,
                 crowd, overlap, bounds>>

-----------------------------------------------------------------------------
(* participant_left *)

\* Only the session with this sid, and only while it has no leftAt.
CloseSession(c) ==
  /\ at[c] = "close"
  /\ sessions' = [sessions EXCEPT ![job[c].sid] = IF @ = "open" THEN "left" ELSE @]
  /\ Goto(c, "still")
  /\ UNCHANGED <<members, livekit, status, docs, totals, total, peak, presence,
                 job, seen, todo, crowd, overlap, bounds>>

\* Variant: a participant with any session is taken to be still in.
StillIn_AnySession(u) == \E s \in Sids : Owner[s] = u /\ sessions[s] # "none"

StillIn(u) == \E s \in Open : Owner[s] = u

\* Variant: the user leaves the set with any of his tabs.
CheckStillIn_Never(c) ==
  /\ at[c] = "still"
  /\ Goto(c, "srem")
  /\ UNCHANGED <<members, livekit, meeting, presence, job, seen, todo, crowd, overlap, bounds>>

CheckStillIn(c) ==
  /\ at[c] = "still"
  /\ IF StillIn(Owner[job[c].sid])
     THEN Answer(c)
     ELSE Goto(c, "srem") /\ UNCHANGED <<queue, sent, job, seen, todo>>
  /\ UNCHANGED <<members, media, conn, meeting, presence, crowd, overlap, bounds>>

RemovePresence(c) ==
  /\ at[c] = "srem"
  /\ presence' = presence \ {Owner[job[c].sid]}
  /\ Answer(c)
  /\ UNCHANGED <<members, media, conn, meeting, crowd, overlap, bounds>>

-----------------------------------------------------------------------------
(* endMeeting: by the host, or by room_finished *)

EndByHost(r) ==
  /\ at[r] = "idle"
  /\ asked < MaxRequests
  /\ asked' = asked + 1
  /\ Goto(r, "end")
  /\ job' = [job EXCEPT ![r] = [type |-> "end"]]
  /\ UNCHANGED <<members, livekit, meeting, presence, seen, todo, crowd, overlap,
                 timeouts, failures, lost>>

\* Variant: nothing left to do for a meeting that has ended.
EndMeeting_ReturnIfEnded(c) ==
  /\ at[c] = "end"
  /\ status' = "ENDED"
  /\ IF status = "ACTIVE"
     THEN /\ Goto(c, "shut")
          /\ overlap' = (overlap \/ \E d \in Calls \ {c} : at[d] \in FinalSteps)
          /\ UNCHANGED <<queue, sent, job, seen, todo>>
     ELSE /\ IF c \in Hooks THEN Answer(c)
             ELSE Goto(c, "media") /\ UNCHANGED <<queue, sent, job, seen, todo>>
          /\ UNCHANGED overlap
  /\ UNCHANGED <<members, media, conn, docs, sessions, totals, total, peak, presence,
                 crowd, bounds>>

\* Sets the status of an active meeting; finalize runs either way.  The reason
\* and the whiteboard are in Meetings and Whiteboard.
EndMeeting(c) ==
  /\ at[c] = "end"
  /\ status' = "ENDED"
  /\ Goto(c, "shut")
  /\ overlap' = (overlap \/ \E d \in Calls \ {c} : at[d] \in FinalSteps)
  /\ UNCHANGED <<members, livekit, docs, sessions, totals, total, peak, presence,
                 job, seen, todo, crowd, bounds>>

ShutSessions(c) ==
  /\ at[c] = "shut"
  /\ sessions' = [s \in Sids |-> IF sessions[s] = "open" THEN "ended" ELSE sessions[s]]
  /\ Goto(c, "read")
  /\ UNCHANGED <<members, livekit, status, docs, totals, total, peak, presence,
                 job, seen, todo, crowd, overlap, bounds>>

ReadParticipants(c) ==
  /\ at[c] = "read"
  /\ seen' = [seen EXCEPT ![c] = [docs |-> docs, marks |-> sessions]]
  /\ todo' = [todo EXCEPT ![c] = docs]
  /\ Goto(c, "totals")
  /\ UNCHANGED <<members, livekit, meeting, presence, job, crowd, overlap, bounds>>

\* The total of one participant; an open session counts up to endedAt.
WriteTotal(c, u) ==
  /\ at[c] = "totals" /\ u \in todo[c]
  /\ totals' = [s \in Sids |-> IF Owner[s] # u THEN totals[s]
                               ELSE IF seen[c].marks[s] = "open" THEN "ended"
                               ELSE seen[c].marks[s]]
  /\ todo' = [todo EXCEPT ![c] = @ \ {u}]
  /\ UNCHANGED <<members, livekit, status, docs, sessions, total, peak, presence,
                 at, job, seen, crowd, overlap, bounds>>

WriteStats(c) ==
  /\ at[c] = "totals" /\ todo[c] = {}
  /\ total' = Cardinality(seen[c].docs)
  /\ Goto(c, "del")
  /\ UNCHANGED <<members, livekit, status, docs, sessions, totals, peak, presence,
                 job, seen, todo, crowd, overlap, bounds>>

DelPresence(c) ==
  /\ at[c] = "del"
  /\ presence' = {}
  /\ IF c \in Hooks
     THEN Answer(c)
     ELSE Goto(c, "media") /\ UNCHANGED <<queue, sent, job, seen, todo>>
  /\ UNCHANGED <<members, media, conn, meeting, crowd, overlap, bounds>>

\* closeRoom: nobody gets in any more and everybody is dropped.
CloseMediaRoom(c) ==
  /\ at[c] = "media"
  /\ media' = IF media = "open" THEN "closing" ELSE media
  /\ conn' = [s \in Sids |-> IF conn[s] = "in" THEN "dropped" ELSE conn[s]]
  /\ Forget(c)
  /\ UNCHANGED <<members, queue, sent, meeting, presence, crowd, overlap, bounds>>

-----------------------------------------------------------------------------
(* kickMember, leaveRoom: delete the member, then removeFromActiveMeeting *)

Kick(r, u) ==
  /\ at[r] = "idle"
  /\ asked < MaxRequests
  /\ asked' = asked + 1
  /\ u \in members
  /\ Goto(r, "drop")
  /\ job' = [job EXCEPT ![r] = [type |-> "kick", user |-> u]]
  /\ UNCHANGED <<members, livekit, meeting, presence, seen, todo, crowd, overlap,
                 timeouts, failures, lost>>

\* Gone already, removed by another request: kickMember answers 404, leaveRoom
\* goes on.
RemoveMember(c) ==
  /\ at[c] = "drop"
  /\ members' = members \ {job[c].user}
  /\ \/ Goto(c, "active") /\ UNCHANGED <<job, seen, todo>>
     \/ job[c].user \notin members /\ Forget(c)
  /\ UNCHANGED <<livekit, meeting, presence, crowd, overlap, bounds>>

\* No ACTIVE meeting: nothing to do.
FindActive(c) ==
  /\ at[c] = "active"
  /\ IF status = "ACTIVE" THEN Goto(c, "eject") /\ UNCHANGED <<job, seen, todo>> ELSE Forget(c)
  /\ UNCHANGED <<members, livekit, meeting, presence, crowd, overlap, bounds>>

Eject(c) ==
  /\ at[c] = "eject"
  /\ DropUser(job[c].user)
  /\ Forget(c)
  /\ UNCHANGED <<members, media, queue, sent, meeting, presence, crowd, overlap, bounds>>

-----------------------------------------------------------------------------
(* Failures *)

\* A handler throws or its instance stops.  LiveKit sees 500 or a closed
\* connection; removeFromActiveMeeting has its error logged and is not run again.
Fail(c) ==
  /\ at[c] # "idle"
  /\ failures < MaxFailures /\ FaultsLeft
  /\ failures' = failures + 1
  /\ IF at[c] \in {"active", "eject"}
     THEN lost < MaxLost /\ lost' = lost + 1
     ELSE UNCHANGED lost
  /\ sent' = IF sent = c THEN NoCall ELSE sent
  /\ Forget(c)
  /\ UNCHANGED <<members, media, conn, queue, meeting, presence, crowd, overlap,
                 asked, timeouts>>

-----------------------------------------------------------------------------
JoinStep(c) ==
  \/ FindMeeting(c) \/ CheckAccess(c) \/ RemoveIntruder(c) \/ UpsertParticipant(c)
  \/ PushSession(c) \/ AddPresence(c) \/ CountPeak(c)
LeaveStep(c) == CloseSession(c) \/ CheckStillIn(c) \/ RemovePresence(c)
EndStep(c) ==
  \/ EndMeeting(c) \/ ShutSessions(c) \/ ReadParticipants(c) \/ WriteStats(c)
  \/ DelPresence(c) \/ CloseMediaRoom(c) \/ \E u \in Users : WriteTotal(c, u)
KickStep(c) == RemoveMember(c) \/ FindActive(c) \/ Eject(c)
Step(c) == JoinStep(c) \/ LeaveStep(c) \/ EndStep(c) \/ KickStep(c)

Next ==
  \/ \E s \in Sids : Connect(s) \/ Leave(s)
  \/ FinishRoom \/ TimeOut \/ GiveUp
  \/ \E h \in Hooks : Deliver(h)
  \/ \E r \in Requests : EndByHost(r) \/ \E u \in Users : Kick(r, u)
  \/ \E c \in Calls : Step(c) \/ Fail(c)

Spec == Init /\ [][Next]_vars

-----------------------------------------------------------------------------
(* What is promised about a meeting's participants *)

\* The variables hold what the three stores can hold; the figures never exceed
\* the number of users, for both are set, not incremented.
TypeOK ==
  /\ status \in {"ACTIVE", "ENDED"}
  /\ members \subseteq Users
  /\ media \in {"open", "closing", "closed"}
  /\ conn \in [Sids -> {"fresh", "in", "dropped", "gone"}]
  /\ queue \in Seq(Events)
  /\ sent \in Hooks \cup {NoCall}
  /\ docs \subseteq Users
  /\ sessions \in [Sids -> Marks]
  /\ totals \in [Sids -> Marks]
  /\ total \in 0..Cardinality(Users)
  /\ peak \in 0..Cardinality(Users)
  /\ presence \subseteq Users
  /\ at \in [Calls -> Steps]
  /\ job \in [Calls -> Jobs]
  /\ seen \in [Calls -> [docs : SUBSET Users, marks : [Sids -> Marks]]]
  /\ todo \in [Calls -> SUBSET Users]
  /\ crowd \in Nat
  /\ overlap \in BOOLEAN
  /\ asked \in Nat /\ timeouts \in Nat /\ failures \in Nat /\ lost \in Nat

\* Nothing is under way: no event, no handler, no request.
Rest == /\ queue = <<>>
        /\ \A c \in Calls : at[c] = "idle"
        /\ \A s \in Sids : conn[s] # "dropped"

Undisturbed == timeouts = 0 /\ lost = 0

\* Once the events are through, presence is exactly who is in the call: second
\* tabs, kicks, and events sent again after a 500 included.
PresenceIsCall ==
  Rest /\ Undisturbed /\ status = "ACTIVE" => presence = {Owner[s] : s \in InCall}

\* Spec 6.1: sessions are keyed by sid, so that an event sent again while its
\* first handler still runs leaves the sessions right (of a meeting from which
\* nobody is kicked).
SessionsSurviveRedelivery ==
  Rest /\ lost = 0 /\ status = "ACTIVE" /\ members = Users => Open = InCall

\* peakParticipants is a number of users that really were in the call at once,
\* and at rest no fewer than are in it now.
PeakIsReal ==
  Undisturbed =>
    /\ peak <= crowd
    /\ Rest /\ status = "ACTIVE" => Cardinality(presence) <= peak

\* Spec 7.1, 9.3: an ended meeting whose call is over has no open session and
\* nobody present, although people join and leave while the host ends it and a
\* finalize fails half way; and its figures are those of its sessions, unless
\* two finalizes ran at once: the slower may write what it had read earlier.
EndedIsSettled ==
  Rest /\ Undisturbed /\ status = "ENDED" /\ media = "closed" =>
    /\ Open = {} /\ presence = {}
    /\ ~overlap => totals = sessions /\ total = Cardinality(docs)

\* Spec 6.3, 8: who is no longer a member has left the call when everything is
\* through, also when coming back with an old token, and whenever the kick hits
\* the handler of the join.  Not when endMeeting failed after it had set the
\* status: the call is still up, and a kick that finds no ACTIVE meeting drops nobody.
KickedLeavesCall ==
  Rest /\ lost = 0 /\ (status = "ACTIVE" \/ failures = 0) =>
    \A s \in Sids : conn[s] = "in" => Owner[s] \in members

\* meetings.service.ts:187, spec 6.1: LiveKit may send an event again while its
\* first handler still runs, and all the same presence ends up right.
RedeliveryIsHarmless ==
  Rest /\ lost = 0 /\ status = "ACTIVE" => presence = {Owner[s] : s \in InCall}

=============================================================================
