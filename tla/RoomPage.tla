------------------------------- MODULE RoomPage -------------------------------
(***************************************************************************)
(* The page of a room: RoomView with its tabs and dialogs, and what the    *)
(* backend answers it.  The page loads the room, its members and its       *)
(* meetings by three requests that nothing orders or cancels, works        *)
(* through a dialog and a request of its own, and loads again.             *)
(*                                                                         *)
(* The server's state is one number for each thing loaded, which counts    *)
(* its changes: an even number of members' changes and Bob is a member, an *)
(* odd number of the meetings' and one is running.  Which tab is drawn and *)
(* whether the menu is open is left out: each button is a click away.      *)
(***************************************************************************)
EXTENDS AuthContext, FiniteSets

CONSTANTS
  MaxRenewed,   \* bound: the tokens that this page is given, of MaxTokens
  MaxLoads,     \* bound: runs of the effect that loads
  MaxChanges,   \* bound: changes of the room on the server, with requests lost
  MaxWork       \* bound: requests of dialogs under way at once

ASSUME LoadsAssumption ==
  MaxRenewed \in Nat /\ MaxLoads \in Nat /\ MaxChanges \in Nat /\ MaxWork \in Nat

VARIABLES
  at,           \* "room", the page the tab has gone to, or "elsewhere": not visited
  hosting,      \* the user is HOST of the room
  inside,       \* the user is a member, and the room not dissolved
  version,      \* the changes of each thing on the server
  loads,        \* runs of the effect
  asked3,       \* requests of a load that are under way
  answers3,     \* their answers, on their way
  drawn,        \* what the page shows of each thing, and of which load
  active,       \* activeBackendMeeting
  removed,      \* removedMembers holds Bob
  dialog,       \* the dialog that is open
  doing,        \* the requests of the dialogs
  losses,       \* requests lost so far, counted
  own,          \* the version of each thing that the page's own work led to (ghost)
  begun         \* what own was when each load began (ghost)

serverVars == <<hosting, inside, version>>
loadVars == <<loads, asked3, answers3>>
shownVars == <<drawn, active, removed>>
roomPageVars == <<at, serverVars, loadVars, shownVars, dialog, doing, losses, own, begun>>
rpVars == <<authVars, roomPageVars>>

Things == {"text", "members", "meetings"}
HostWork == {"save", "invite", "remove", "end", "delete"}
Work == HostWork \cup {"start", "leave"}

Touches == [w \in Work |-> CASE w = "save" -> "text"
                             [] w \in {"invite", "remove"} -> "members"
                             [] OTHER -> "meetings"]

Idle3 == [state |-> "idle", version |-> 0]
Nothing == [version |-> -1, load |-> 0]

\* The meeting that runs after v changes, or 0.
Running(v) == IF v % 2 = 1 THEN v ELSE 0

RoomPageInit ==
  /\ AuthInit
  /\ at \in {"room", "elsewhere"} /\ hosting \in BOOLEAN /\ inside = TRUE
  /\ version = [k \in Things |-> 0]
  /\ loads = 0 /\ asked3 = {} /\ answers3 = {}
  /\ drawn = [k \in Things |-> Nothing] /\ active = 0 /\ removed = FALSE
  /\ dialog = "none" /\ doing = [w \in Work |-> Idle3] /\ own = [k \in Things |-> 0]
  /\ begun = [n \in 0 .. MaxLoads |-> own]
  /\ losses = 0

AtRoom == at = "room"

\* backendRoom: the answer to getRoom also says who is host.
RoomLoaded == drawn["text"].version >= 0
ManagesHere == hosting /\ RoomLoaded

-----------------------------------------------------------------------------
(* Loading.                                                                *)

\* The effect returns early without a token.  The page has done that much by now.
Load(t, done) ==
  IF t = 0 THEN UNCHANGED <<loads, asked3, begun>>
  ELSE /\ loads < MaxLoads
       /\ loads' = loads + 1
       /\ asked3' = asked3 \cup {<<loads + 1, k>> : k \in Things}
       /\ begun' = [begun EXCEPT ![loads + 1] = done]

\* A new token loads anew.  Without one the page stays as it is.
RoomToken ==
  /\ AtRoom
  /\ ApplySession \/ Refresh
  /\ given' <= MaxRenewed
  /\ IF token' # token THEN Load(token', own) ELSE UNCHANGED <<loads, asked3, begun>>
  /\ UNCHANGED <<at, serverVars, answers3, shownVars, dialog, doing, losses, own>>

Total == losses + version["text"] + version["members"] + version["meetings"]

\* A request that fails although nothing speaks against it is a loss.
MayFail(refused) == IF refused THEN UNCHANGED losses
                    ELSE Total < MaxChanges /\ losses' = losses + 1

\* The three questions are members only.
AnswerLoad(n, k) ==
  /\ AtRoom /\ <<n, k>> \in asked3 /\ inside
  /\ asked3' = asked3 \ {<<n, k>>}
  /\ answers3' = answers3 \cup {<<n, k, version[k]>>}
  /\ UNCHANGED <<authVars, at, serverVars, loads, shownVars, dialog, doing, losses, own, begun>>

\* Refused, or lost: the page says so on the console.
LoadFails(n, k) ==
  /\ AtRoom /\ <<n, k>> \in asked3 /\ MayFail(~inside)
  /\ asked3' = asked3 \ {<<n, k>>}
  /\ UNCHANGED <<authVars, at, serverVars, loads, answers3, shownVars, dialog, doing, own, begun>>

\* Each answer is shown as it comes.
Arrive(n, k, v) ==
  /\ AtRoom /\ <<n, k, v>> \in answers3
  /\ answers3' = answers3 \ {<<n, k, v>>}
  /\ drawn' = [drawn EXCEPT ![k] = [version |-> v, load |-> n]]
  /\ active' = IF k = "meetings" THEN Running(v) ELSE active
  /\ UNCHANGED <<authVars, at, serverVars, loads, asked3, removed, dialog, doing, losses, own, begun>>

\* Bob is listed with the members that were loaded, unless he was removed here.
BobIsListed == drawn["members"].version \in Nat /\ drawn["members"].version % 2 = 0 /\ ~removed

-----------------------------------------------------------------------------
(* The dialogs.                                                            *)

\* One of the meetings drawn is running: the list may know of one that the page
\* has just ended, or has lost sight of.
DrawnAsLive == LET v == drawn["meetings"].version IN v > 0 /\ Running(v) # 0

\* The buttons that open one: those of the host, and the others.
Offered(w) ==
  CASE w \in {"save", "invite", "delete"} -> ManagesHere
    [] w = "end"                          -> ManagesHere /\ (active # 0 \/ DrawnAsLive)
    [] w = "remove"                       -> ManagesHere /\ BobIsListed
    [] w = "start"                        -> TRUE
    [] w = "leave"                        -> ~ManagesHere

OpenDialog(w) ==
  /\ AtRoom /\ dialog = "none" /\ Offered(w)
  /\ dialog' = w
  /\ UNCHANGED <<authVars, at, serverVars, loadVars, shownVars, doing, losses, own, begun>>

\* A dialog closes without waiting for the request it may have made.
CloseDialog ==
  /\ AtRoom /\ dialog # "none"
  /\ dialog' = "none"
  /\ UNCHANGED <<authVars, at, serverVars, loadVars, shownVars, doing, losses, own, begun>>

\* The page says that it is done although it asked nobody: without a token, or
\* before the room is loaded.  A text that nobody saved is not told apart.
Pretend(w) ==
  /\ dialog' = "none"
  /\ removed' = (removed \/ w = "remove")
  /\ at' = IF w \in {"delete", "leave"} THEN "dashboard" ELSE at
  /\ UNCHANGED <<doing, active>>

\* What each handler needs before it asks.
CanAsk(w) ==
  /\ token # 0
  /\ w \in {"save", "start", "delete", "leave"} => RoomLoaded
  /\ w = "end" => active # 0

Ask(w) ==
  /\ doing' = [doing EXCEPT ![w] = [state |-> "asked", version |-> IF w = "end" THEN active ELSE 0]]
  /\ dialog' = IF w = "start" THEN "none" ELSE dialog
  /\ UNCHANGED <<at, removed, active>>

\* The handler of a dialog's button.  Nothing keeps the user from a second click;
\* here (a bound) one request of a kind is under way at a time.
Confirm(w) ==
  /\ AtRoom /\ dialog = w /\ doing[w].state = "idle"
  /\ Cardinality({v \in Work : doing[v].state # "idle"}) < MaxWork
  /\ IF CanAsk(w) THEN Ask(w) ELSE Pretend(w)
  /\ UNCHANGED <<authVars, serverVars, loadVars, drawn, losses, own, begun>>

-----------------------------------------------------------------------------
(* The server.                                                             *)

\* What the services refuse: a stranger, a member where the host is asked for,
\* Bob twice in or out, a second meeting.
Allowed(w) ==
  /\ inside
  /\ w = "leave" <=> ~hosting
  /\ w = "invite" => version["members"] % 2 = 1
  /\ w = "remove" => version["members"] % 2 = 0
  /\ w = "start" => version["meetings"] % 2 = 0

\* To end a meeting that has ended is no error, and changes nothing.
Changes(w) ==
  \/ w \in {"save", "invite", "remove", "start"}
  \/ w = "end" /\ version["meetings"] = doing[w].version

Perform(w) ==
  /\ doing[w].state = "asked" /\ Allowed(w)
  /\ LET k == Touches[w] IN
       /\ version' = IF Changes(w) THEN [version EXCEPT ![k] = @ + 1] ELSE version
       /\ Changes(w) => Total < MaxChanges
       /\ doing' = [doing EXCEPT ![w] = [state |-> "done", version |-> version'[k]]]
  /\ inside' = (w \notin {"delete", "leave"})
  /\ UNCHANGED <<authVars, at, hosting, loadVars, shownVars, dialog, losses, own, begun>>

\* Refused, or lost before it was done.
RefuseWork(w) ==
  /\ doing[w].state = "asked" /\ MayFail(~Allowed(w))
  /\ doing' = [doing EXCEPT ![w].state = "failed"]
  /\ UNCHANGED <<authVars, at, serverVars, loadVars, shownVars, dialog, own, begun>>

\* Another tab, or another member, who joins by the code and leaves, and hosts
\* whose meetings begin and end.
OthersWork(k) ==
  /\ AtRoom /\ inside /\ Total < MaxChanges
  /\ version' = [version EXCEPT ![k] = @ + 1]
  /\ UNCHANGED <<authVars, at, hosting, inside, loadVars, shownVars, dialog, doing, losses, own, begun>>

-----------------------------------------------------------------------------
(* What the handlers do with the answer.                                   *)

\* The dialog closes but nothing is loaded again.
WorkDone_NoReload(w) ==
  /\ doing[w].state = "done"
  /\ w \in {"save", "invite", "remove", "end"} /\ AtRoom
  /\ doing' = [doing EXCEPT ![w] = Idle3]
  /\ dialog' = "none"
  /\ drawn' = IF w = "save" THEN [drawn EXCEPT !["text"].version = doing[w].version] ELSE drawn
  /\ removed' = (removed \/ w = "remove")
  /\ active' = IF w = "end" THEN 0 ELSE active
  /\ own' = [own EXCEPT ![Touches[w]] = doing[w].version]
  /\ UNCHANGED <<authVars, at, serverVars, loadVars, losses, begun>>

\* notify closes whatever dialog is open by now, and the page loads again.
WorkDone(w) ==
  /\ doing[w].state = "done"
  /\ w \in {"save", "invite", "remove", "end"} /\ AtRoom
  /\ doing' = [doing EXCEPT ![w] = Idle3]
  /\ dialog' = "none"
  /\ drawn' = IF w = "save" THEN [drawn EXCEPT !["text"].version = doing[w].version] ELSE drawn
  /\ removed' = (removed \/ w = "remove")
  /\ active' = IF w = "end" THEN 0 ELSE active
  /\ own' = [own EXCEPT ![Touches[w]] = doing[w].version]
  /\ Load(token, own')
  /\ UNCHANGED <<authVars, at, serverVars, answers3, losses>>

\* The handler goes on to another page, also when the user has gone already.
WorkLeads(w) ==
  /\ doing[w].state = "done" /\ w \in {"start", "delete", "leave"}
  /\ at' = IF w = "start" THEN "meeting" ELSE "dashboard"
  /\ asked3' = {} /\ answers3' = {}
  /\ doing' = [doing EXCEPT ![w] = Idle3]
  /\ UNCHANGED <<authVars, serverVars, loads, shownVars, dialog, losses, own, begun>>

\* The message closes the dialog; only a start that is refused loads again, to
\* show the meeting that is there.
WorkFailed(w) ==
  /\ AtRoom /\ doing[w].state = "failed"
  /\ doing' = [doing EXCEPT ![w] = Idle3]
  /\ dialog' = "none"
  /\ IF w = "start" THEN Load(token, own) ELSE UNCHANGED <<loads, asked3, begun>>
  /\ UNCHANGED <<authVars, at, serverVars, answers3, shownVars, losses, own>>

\* The page goes with what it showed; nobody sees what comes for it.
LeaveRoomPage(place) ==
  /\ AtRoom /\ dialog = "none"
  /\ at' = place /\ asked3' = {} /\ answers3' = {}
  /\ drawn' = [k \in Things |-> Nothing] /\ active' = 0 /\ removed' = FALSE
  /\ UNCHANGED <<authVars, serverVars, loads, dialog, doing, losses, own, begun>>

\* The running meeting, or one of the list.
OpenMeeting == (active # 0 \/ drawn["meetings"].version > 0) /\ LeaveRoomPage("meeting")

GoElsewhere == LeaveRoomPage("rooms")

RoomPageNext ==
  \/ RoomToken
  \/ \E n \in 1 .. MaxLoads, k \in Things :
       AnswerLoad(n, k) \/ LoadFails(n, k) \/ \E v \in 0 .. MaxChanges : Arrive(n, k, v)
  \/ \E w \in Work :
       \/ OpenDialog(w) \/ Confirm(w) \/ Perform(w) \/ RefuseWork(w)
       \/ WorkDone(w) \/ WorkLeads(w) \/ WorkFailed(w)
  \/ \E k \in Things : OthersWork(k)
  \/ CloseDialog \/ OpenMeeting \/ GoElsewhere

RoomPageSpec == RoomPageInit /\ [][RoomPageNext]_rpVars

-----------------------------------------------------------------------------
(* Properties.                                                             *)

\* An answer that is drawn, even one of an early load that overtakes those of
\* later ones, shows at least what the user had done on this page when its load
\* began, also after a text saved here was drawn over it; and while there is a
\* token, the latest load began after all that the user has done (the handlers of
\* RoomView, the effect that loads).  What the page says without having asked the
\* server (Pretend), and the filter that goes on hiding a member who was removed
\* here and invited again (removedMembers), are not drawn answers.
OwnWorkIsShown ==
  AtRoom =>
    /\ \A k \in Things : drawn[k].load # 0 => drawn[k].version >= begun[drawn[k].load][k]
    /\ token # 0 => begun[loads] = own
=============================================================================
