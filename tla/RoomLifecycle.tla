--------------------------- MODULE RoomLifecycle ---------------------------
(***************************************************************************)
(* What the meetings of one room promise, with no LiveKit, no requests and *)
(* no webhooks: at most one meeting runs at a time, each is started once,  *)
(* ends once, for one reason that stands, and its figures are settled only *)
(* after it ended.                                                         *)
(***************************************************************************)
CONSTANTS
  Meetings,
  Reasons,
  NoMeeting,
  NoReason

VARIABLES
  running,  \* the meeting that runs, or NoMeeting
  ended,    \* why each meeting ended, or NoReason
  settled   \* meetings whose figures have been settled

lifeVars == <<running, ended, settled>>

LifeInit ==
  /\ running = NoMeeting
  /\ ended = [m \in Meetings |-> NoReason]
  /\ settled = {}

Begin(m) ==
  /\ running = NoMeeting
  /\ ended[m] = NoReason
  /\ running' = m
  /\ UNCHANGED <<ended, settled>>

Finish(m, r) ==
  /\ running = m
  /\ running' = NoMeeting
  /\ ended' = [ended EXCEPT ![m] = r]
  /\ UNCHANGED settled

Settle(m) ==
  /\ ended[m] # NoReason
  /\ settled' = settled \cup {m}
  /\ UNCHANGED <<running, ended>>

LifeNext ==
  \E m \in Meetings : Begin(m) \/ Settle(m) \/ \E r \in Reasons : Finish(m, r)

LifeSpec == LifeInit /\ [][LifeNext]_lifeVars

=============================================================================
