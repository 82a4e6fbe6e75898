------------------------------- MODULE RoomLists -------------------------------
(***************************************************************************)
(* Three places that look rooms and users up: RoomListView, which fetches  *)
(* the user's rooms page by page, DashboardView, which shows the first     *)
(* page, and InviteDialog, which searches while a query is typed; and the  *)
(* two ways into a room that the first two offer.                          *)
(*                                                                         *)
(* A room is the number of its joining: the backend lists the greatest     *)
(* first.  A room that is fetched twice counts once.                       *)
(***************************************************************************)
EXTENDS AuthContext, FiniteSets

CONSTANTS
  MaxRooms,     \* bound: memberships
  PageLimit,    \* rooms of one page
  MaxRuns,      \* bound: runs of the effects that list and search
  Queries,      \* what may be typed, but for the blanks around it
  TooShort      \* a query of less than two letters

ASSUME ListsAssumption ==
  /\ MaxRooms \in Nat /\ PageLimit \in Nat \ {0} /\ MaxRuns \in Nat
  /\ TooShort \notin Queries

VARIABLES
  view,         \* "rooms", "dashboard" or "invite", or the page gone to
  joinedRooms,  \* memberships of the user
  dissolved,    \* those of rooms that are dissolved
  run,          \* what each run of the effect has done
  liveRun,      \* the run that is not cancelled, or 0
  rooms,        \* the rooms drawn, and the run that fetched them
  isLoading, loadError,
  modal,        \* the dialog open: "none", "create" or "join"
  modalBusy,
  entering,     \* POST /rooms or /rooms/join
  typed,        \* the query in the input
  result,       \* the query whose users were found, and the run that found them
  searchError,  \* the query whose search failed, and the run that failed
  selected,     \* the query that found the selected user, or TooShort
  blanks        \* nothing but blanks changed since the last search (ghost)

memberships == <<joinedRooms, dissolved>>
listVars == <<rooms, isLoading, loadError>>
entryVars == <<modal, modalBusy, entering>>
searchVars == <<typed, result, searchError, selected, blanks>>
roomListsVars == <<view, memberships, run, liveRun, listVars, entryVars, searchVars>>
rlVars == <<authVars, roomListsVars>>

ListRuns == 1 .. MaxRuns
NoAnswer == [query |-> TooShort, of |-> 0]
NewRun == [step |-> "none", page |-> 1, got |-> {}, more |-> FALSE, whole |-> {}, quiet |-> TRUE,
           query |-> TooShort]

RoomListsInit ==
  /\ AuthInit
  /\ view \in {"rooms", "dashboard", "invite"}
  /\ \E n \in 0 .. MaxRooms : joinedRooms = 1 .. n
  /\ dissolved = {}
  /\ run = [n \in ListRuns |-> NewRun] /\ liveRun = 0
  /\ rooms = [of |-> 0, list |-> {}]
  /\ isLoading = (view = "rooms") /\ loadError = FALSE
  /\ modal = "none" /\ modalBusy = FALSE /\ entering = "none"
  /\ typed = TooShort /\ result = NoAnswer /\ searchError = NoAnswer
  /\ selected = TooShort /\ blanks = FALSE

Listing == view \in {"rooms", "dashboard"}

\* An effect runs again: the run before is cancelled.
RunAgain(step, query) ==
  \E n \in ListRuns :
    /\ run[n].step = "none" /\ \A m \in ListRuns : m < n => run[m].step # "none"
    /\ run' = [run EXCEPT ![n].step = step, ![n].query = query]
    /\ liveRun' = n

\* isActive is never cleared.
IsActive_Always(n) == TRUE

\* isActive: the run has not been cancelled.
IsActive(n) == n = liveRun

-----------------------------------------------------------------------------
(* GET /rooms.                                                             *)

\* Dissolved rooms are dropped before the page is cut.
MyRooms == joinedRooms \ dissolved

Before(r) == Cardinality({q \in MyRooms : q > r})

Page(p) == {r \in MyRooms : (p - 1) * PageLimit <= Before(r) /\ Before(r) < p * PageLimit}

\* One row more than the page is read, to know whether there is another.
WithPage(x) ==
  [x EXCEPT !.step = "answered", !.got = @ \cup Page(x.page),
            !.more = Cardinality(MyRooms) > x.page * PageLimit,
            !.whole = IF x.page = 1 THEN MyRooms ELSE @,
            !.quiet = x.page = 1 \/ (@ /\ x.whole = MyRooms)]

AnswerPage(n) ==
  /\ Listing /\ run[n].step = "asked"
  /\ run' = [run EXCEPT ![n] = WithPage(@)]
  /\ UNCHANGED <<authVars, view, memberships, liveRun, listVars, entryVars, searchVars>>

FailRun(n) ==
  /\ run[n].step = "asked"
  /\ run' = [run EXCEPT ![n].step = "failed"]
  /\ UNCHANGED <<authVars, view, memberships, liveRun, listVars, entryVars, searchVars>>

\* A membership that begins or ends elsewhere, and a room that is dissolved.
MembershipChanges ==
  /\ \/ \E r \in 1 .. MaxRooms :
          /\ \A q \in joinedRooms : q < r
          /\ joinedRooms' = joinedRooms \cup {r} /\ UNCHANGED dissolved
     \/ \E r \in MyRooms :
          \/ joinedRooms' = joinedRooms \ {r} /\ UNCHANGED dissolved
          \/ dissolved' = dissolved \cup {r} /\ UNCHANGED joinedRooms
  /\ Listing
  /\ UNCHANGED <<authVars, view, run, liveRun, listVars, entryVars, searchVars>>

-----------------------------------------------------------------------------
(* The two lists.                                                          *)

\* A page that knows that nobody is signed in goes to the login page; a token
\* lists or searches anew.
ListToken ==
  /\ Listing
  /\ AskRefresh \/ ApplySession
  /\ view' = IF token' = 0 /\ ~authLoading' THEN "login" ELSE view
  /\ IF token' # token /\ token' # 0
     THEN RunAgain("asked", TooShort) /\ isLoading' = TRUE /\ loadError' = FALSE /\ UNCHANGED rooms
     ELSE /\ UNCHANGED <<run, listVars>>
          /\ liveRun' = IF token' = 0 THEN 0 ELSE liveRun
  /\ UNCHANGED <<memberships, entryVars, searchVars>>

\* RoomListView goes on as long as there is more, cancelled or not; DashboardView
\* shows one page.
NextPage(n) ==
  /\ view = "rooms" /\ run[n].step = "answered" /\ run[n].more
  /\ run' = [run EXCEPT ![n].step = "asked", ![n].page = @ + 1]
  /\ UNCHANGED <<authVars, view, memberships, liveRun, listVars, entryVars, searchVars>>

Ready(n) ==
  \/ run[n].step = "failed"
  \/ run[n].step = "answered" /\ (view = "rooms" => ~run[n].more)

Draw(n) ==
  /\ isLoading' = FALSE
  /\ IF run[n].step = "failed"
     THEN loadError' = (view = "rooms") /\ UNCHANGED rooms
     ELSE rooms' = [of |-> n, list |-> run[n].got] /\ UNCHANGED loadError

\* RoomListView draws the latest run only, DashboardView any.
Listed(n) ==
  /\ Listing /\ Ready(n)
  /\ run' = [run EXCEPT ![n].step = "over"]
  /\ IF view = "rooms" /\ ~IsActive(n) THEN UNCHANGED listVars ELSE Draw(n)
  /\ UNCHANGED <<authVars, view, memberships, liveRun, entryVars, searchVars>>

-----------------------------------------------------------------------------
(* The ways into a room.                                                   *)

\* RoomListView offers them beside the list, or in place of an empty one.
OpenModal(m) ==
  /\ Listing /\ modal = "none" /\ ~authLoading
  /\ view = "rooms" => ~isLoading /\ (rooms.list # {} \/ ~loadError)
  /\ modal' = m
  /\ UNCHANGED <<authVars, view, memberships, run, liveRun, listVars, modalBusy, entering, searchVars>>

\* The cross closes it at any time.
CloseModal ==
  /\ Listing /\ modal # "none" /\ modal' = "none"
  /\ UNCHANGED <<authVars, view, memberships, run, liveRun, listVars, modalBusy, entering, searchVars>>

SubmitModal ==
  /\ Listing /\ modal # "none" /\ ~modalBusy /\ token # 0
  /\ modalBusy' = TRUE /\ entering' = "asked"
  /\ UNCHANGED <<authVars, view, memberships, run, liveRun, listVars, modal, searchVars>>

\* A new room, one of a code, the same again for who is in it already; or none.
EnterRoom ==
  /\ entering = "asked"
  /\ \/ /\ \E r \in 1 .. MaxRooms :
             (r \in MyRooms \/ \A q \in joinedRooms : q < r) /\ joinedRooms' = joinedRooms \cup {r}
        /\ entering' = "done"
     \/ entering' = "refused" /\ UNCHANGED joinedRooms
  /\ UNCHANGED <<authVars, view, dissolved, run, liveRun, listVars, modal, modalBusy, searchVars>>

\* From wherever the tab has gone since, the room is opened.
Entered ==
  /\ entering \in {"done", "refused"}
  /\ view' = IF entering = "done" THEN "room" ELSE view
  /\ modal' = IF entering = "done" /\ view = "dashboard" THEN "none" ELSE modal
  /\ modalBusy' = FALSE /\ entering' = "none"
  /\ UNCHANGED <<authVars, memberships, run, liveRun, listVars, searchVars>>

PickRoom ==
  /\ Listing /\ modal = "none" /\ rooms.list # {} /\ (view = "rooms" => ~isLoading /\ ~loadError)
  /\ view' = "room"
  /\ UNCHANGED <<authVars, memberships, run, liveRun, listVars, entryVars, searchVars>>

-----------------------------------------------------------------------------
(* InviteDialog.                                                           *)

\* The effect depends on the query and on the token; it waits before it asks.
SearchAgain(t, q) ==
  IF t = 0 \/ q = TooShort THEN liveRun' = 0 /\ UNCHANGED run ELSE RunAgain("waiting", q)

SearchToken ==
  /\ view = "invite"
  /\ AskRefresh \/ ApplySession
  /\ IF token' # token
     THEN SearchAgain(token', typed) /\ blanks' = (blanks /\ token' = 0)
     ELSE UNCHANGED <<run, liveRun, blanks>>
  /\ UNCHANGED <<view, memberships, listVars, entryVars, typed, result, searchError, selected>>

\* Whatever changes in the input takes the users and the error away, but only
\* another query is searched.
Type(q) ==
  /\ view = "invite"
  /\ typed' = q /\ result' = NoAnswer /\ searchError' = NoAnswer /\ selected' = TooShort
  /\ IF q # typed THEN SearchAgain(token, q) ELSE UNCHANGED <<run, liveRun>>
  /\ blanks' = (q = typed)
  /\ UNCHANGED <<authVars, view, memberships, listVars, entryVars>>

\* 300 ms without another run.
AskSearch(n) ==
  /\ view = "invite" /\ n = liveRun /\ run[n].step = "waiting"
  /\ run' = [run EXCEPT ![n].step = "asked"]
  /\ UNCHANGED <<authVars, view, memberships, liveRun, listVars, entryVars, searchVars>>

AnswerSearch(n) ==
  /\ view = "invite" /\ run[n].step = "asked"
  /\ run' = [run EXCEPT ![n].step = "answered"]
  /\ UNCHANGED <<authVars, view, memberships, liveRun, listVars, entryVars, searchVars>>

\* The latest run only sets the users found, or the error; neither clears the
\* other.
Searched(n) ==
  /\ view = "invite" /\ run[n].step \in {"answered", "failed"}
  /\ run' = [run EXCEPT ![n].step = "over"]
  /\ LET answer == [query |-> run[n].query, of |-> n] IN
       /\ result' = IF IsActive(n) /\ run[n].step = "answered" THEN answer ELSE result
       /\ searchError' = IF IsActive(n) /\ run[n].step = "failed" THEN answer ELSE searchError
  /\ UNCHANGED <<authVars, view, memberships, liveRun, listVars, entryVars, typed, selected, blanks>>

\* hasSearchError, visibleUsers: an answer to another query is not shown.
HasError == searchError.query = typed
HasResult == result.query = typed

\* The error is drawn before the users.
SelectUser ==
  /\ view = "invite" /\ typed # TooShort /\ HasResult /\ ~HasError
  /\ selected' = typed
  /\ UNCHANGED <<authVars, view, memberships, run, liveRun, listVars, entryVars, typed, result,
                 searchError, blanks>>

RoomListsNext ==
  \/ ListToken \/ MembershipChanges \/ CloseModal \/ SubmitModal \/ EnterRoom \/ Entered \/ PickRoom
  \/ SearchToken \/ SelectUser
  \/ \E n \in ListRuns :
       \/ AnswerPage(n) \/ FailRun(n) \/ NextPage(n) \/ Listed(n)
       \/ AskSearch(n) \/ AnswerSearch(n) \/ Searched(n)
  \/ \E m \in {"create", "join"} : OpenModal(m)
  \/ \E q \in Queries \cup {TooShort} : Type(q)

RoomListsSpec == RoomListsInit /\ [][RoomListsNext]_rlVars

-----------------------------------------------------------------------------
(* Properties.                                                             *)

\* The list that RoomListView draws as the whole one is that of the latest run,
\* and holds every room if none came or went while the pages were fetched.
ListIsLatest ==
  view = "rooms" /\ liveRun # 0 /\ ~isLoading /\ ~loadError =>
    /\ rooms.of = liveRun
    /\ run[liveRun].quiet => rooms.list = run[liveRun].whole

\* A search that is shown to go on goes on, unless nothing but blanks was typed
\* since: these take the answer away and search for nothing.
SearchGoesOn ==
  view = "invite" /\ token # 0 /\ typed # TooShort /\ ~HasResult /\ ~HasError =>
    \/ blanks
    \/ liveRun # 0 /\ run[liveRun].step \notin {"none", "over"}

\* The run whose answer is drawn, or 0.
DrawnRun == IF HasError THEN searchError.of ELSE IF HasResult THEN result.of ELSE 0

\* Once the latest search is over the answer drawn is its own, and not that of a
\* search before it, were it of the same query.  One case is excused: the error of
\* an earlier search of this query, that nothing has been typed since to clear,
\* is drawn in front of the users that the latest has found.
SearchIsLatest ==
  view = "invite" /\ typed # TooShort /\ liveRun # 0 /\ run[liveRun].step = "over" /\ DrawnRun # 0 =>
    \/ DrawnRun = liveRun
    \/ HasError /\ HasResult /\ result.of = liveRun

\* An answer that comes late changes nothing, whatever tokens, answers and keys
\* come in whatever order: the list drawn is the latest and whole, the answer to
\* a search is that of the latest, and a search that is said to go on does, but
\* for the two excuses above (loadRooms in RoomListView, the effect of
\* InviteDialog, listMyRooms).
LatestAnswerShown == ListIsLatest /\ SearchGoesOn /\ SearchIsLatest
=============================================================================
