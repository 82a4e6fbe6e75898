----------------------------- MODULE MeetingPage -----------------------------
(***************************************************************************)
(* The page of a meeting: MeetingWorkspace and what it shows.  It joins    *)
(* over HTTP, hands the media token to LiveKitRoom and follows what        *)
(* LiveKit reports.  Every new access token joins anew, so that several    *)
(* joins may be under way; only the latest may still change the page.      *)
(***************************************************************************)
EXTENDS AuthContext, FiniteSets

CONSTANT MaxJoins     \* bound: runs of the effect that joins

ASSUME JoinsAssumption == MaxJoins \in Nat

VARIABLES
  where,        \* "here", where the page has gone, or "elsewhere": not visited
  validId,      \* the id in the address has the form of one
  host,         \* myRole is HOST
  running,      \* the meeting is ACTIVE on the server
  request,      \* what became of each join
  current,      \* the run of the effect that is not cancelled, or 0
  join,         \* the run whose answer is in join, or 0
  joinError,
  ended,        \* "none", or whether the screen of the end offers to retry
  media,        \* the connection of LiveKitRoom
  wasConnected, \* connectedRef
  confirming,   \* the dialog that ends the meeting is open
  ending,       \* POST end is under way
  panel,        \* the tab of the side panel, or "closed"
  pinned        \* what the user has pinned

joinVars == <<request, current, join, joinError>>
callVars == <<ended, media, wasConnected>>
panelVars == <<confirming, panel, pinned>>
meetingPageVars == <<where, validId, host, running, joinVars, callVars, panelVars, ending>>
mpVars == <<authVars, meetingPageVars>>

Runs == 1 .. MaxJoins

MeetingPageInit ==
  /\ AuthInit
  /\ where \in {"here", "elsewhere"} /\ validId \in BOOLEAN /\ host \in BOOLEAN /\ running = TRUE
  /\ request = [r \in Runs |-> "none"]
  /\ current = 0 /\ join = 0 /\ joinError = FALSE
  /\ ended = "none" /\ media = "off" /\ wasConnected = FALSE
  /\ confirming = FALSE /\ ending = FALSE /\ panel = "chat" /\ pinned = "nothing"

Here == where = "here"

\* Which of the screens is drawn, in the order of the returns.  isJoining decides
\* nothing: without a join and without an error the wheel turns either way.
Screen ==
  IF ~validId THEN "invalid"
  ELSE IF ended # "none" THEN "ended"
  ELSE IF join # 0 THEN "live"
  ELSE IF joinError THEN "error"
  ELSE "spinner"

-----------------------------------------------------------------------------
(* Joining.                                                                *)

\* The effect runs again: the run before is cancelled, and a request leaves if
\* there is a token and an id.
JoinAgain(t) ==
  IF t = 0 \/ ~validId
  THEN current' = 0 /\ UNCHANGED request
  ELSE \E r \in Runs :
         /\ request[r] = "none" /\ \A q \in Runs : q < r => request[q] # "none"
         /\ request' = [request EXCEPT ![r] = "asked"]
         /\ current' = r

\* A page without a token goes to the login page once the tab knows.
Follow == where' = IF token' = 0 /\ ~authLoading' THEN "login" ELSE "here"

TokenChanges ==
  /\ Here
  /\ AskRefresh \/ ApplySession \/ SignOut
  /\ Follow
  /\ IF token' # token THEN JoinAgain(token') ELSE UNCHANGED <<request, current>>
  /\ UNCHANGED <<validId, host, running, join, joinError, callVars, panelVars, ending>>

\* A member gets a media token while the meeting is ACTIVE, unless something fails.
AnswerJoin(r) ==
  /\ request[r] = "asked"
  /\ \/ running /\ request' = [request EXCEPT ![r] = "token"]
     \/ request' = [request EXCEPT ![r] = "refused"]
  /\ UNCHANGED <<authVars, where, validId, host, running, current, join, joinError,
                 callVars, panelVars, ending>>

\* then, catch and finally: nothing of a run that was cancelled.
JoinAnswered(r) ==
  /\ Here /\ request[r] \in {"token", "refused"}
  /\ request' = [request EXCEPT ![r] = "over"]
  /\ IF r # current THEN UNCHANGED <<join, joinError>>
     ELSE IF request[r] = "token" THEN join' = r /\ joinError' = FALSE
     ELSE joinError' = TRUE /\ UNCHANGED join
  /\ UNCHANGED <<authVars, where, validId, host, running, current, callVars, panelVars, ending>>

CanRetry == \/ Screen = "ended" /\ ended = "retry"
            \/ Screen = "error"

\* The button clears the page and leaves the effect as it was.
Retry_NoAttempt ==
  /\ Here /\ CanRetry
  /\ wasConnected' = FALSE /\ join' = 0 /\ joinError' = FALSE /\ ended' = "none"
  /\ UNCHANGED <<request, current>>
  /\ UNCHANGED <<authVars, where, validId, host, running, media, panelVars, ending>>

\* A new attempt: the effect runs again.
Retry ==
  /\ Here /\ CanRetry
  /\ wasConnected' = FALSE /\ join' = 0 /\ joinError' = FALSE /\ ended' = "none"
  /\ JoinAgain(token)
  /\ UNCHANGED <<authVars, where, validId, host, running, media, panelVars, ending>>

-----------------------------------------------------------------------------
(* The call.                                                               *)

Leave(place) ==
  /\ where' = place /\ media' = "off"
  /\ UNCHANGED <<authVars, validId, host, running, joinVars, ended, wasConnected, panel, pinned, ending>>

\* handleBack.
GoBack == Leave("room") /\ UNCHANGED confirming

\* With the screen of the end, what the call drew is gone.
CallChanges(e, m, w) ==
  /\ ended' = e /\ media' = m /\ wasConnected' = w
  /\ IF e = "none" THEN UNCHANGED <<confirming, panel>> ELSE confirming' = FALSE /\ panel' = "chat"
  /\ UNCHANGED <<authVars, where, validId, host, running, joinVars, pinned, ending>>

\* LiveKitRoom connects as soon as it is drawn.
OnConnected == Here /\ Screen = "live" /\ media = "off" /\ CallChanges("none", "on", TRUE)

\* An error before the first connection ends the page; a later one does not.
OnError ==
  /\ Here /\ Screen = "live"
  /\ CallChanges(IF wasConnected THEN "none" ELSE "retry", IF wasConnected THEN media ELSE "off", wasConnected)

\* The meeting was closed, the user removed, or the same user came in elsewhere:
\* no way back.  Anything else may be tried again.
OnDisconnected ==
  /\ Here /\ media = "on"
  /\ \/ CallChanges("final", "off", wasConnected)
     \/ running /\ CallChanges("retry", "off", wasConnected)

\* The user's own doing leads back.
OnClientLeave == Here /\ media = "on" /\ GoBack

\* Somebody else ends the meeting.
MeetingEnds ==
  /\ running /\ running' = FALSE
  /\ UNCHANGED <<authVars, where, validId, host, joinVars, callVars, panelVars, ending>>

-----------------------------------------------------------------------------
(* The buttons.                                                            *)

\* The host is asked first, everybody else goes.
LeaveOrEnd ==
  /\ Here /\ Screen = "live"
  /\ IF host
     THEN /\ confirming' = TRUE
          /\ UNCHANGED <<authVars, where, validId, host, running, joinVars, callVars, panel, pinned, ending>>
     ELSE GoBack

Hangup == Here /\ Screen = "live" /\ GoBack

CloseConfirm ==
  /\ Here /\ Screen = "live" /\ confirming /\ confirming' = FALSE
  /\ UNCHANGED <<authVars, where, validId, host, running, joinVars, callVars, panel, pinned, ending>>

\* The dialog closes, the request leaves, and the page waits for its answer.
ConfirmEnd ==
  /\ Here /\ Screen = "live" /\ confirming
  /\ confirming' = FALSE /\ ending' = TRUE
  /\ UNCHANGED <<authVars, where, validId, host, running, joinVars, callVars, panel, pinned>>

EndOnServer ==
  /\ ending /\ running /\ running' = FALSE
  /\ UNCHANGED <<authVars, where, validId, host, joinVars, callVars, panelVars, ending>>

\* Also after an error, and from wherever the tab has gone since.
EndAnswered ==
  /\ ending
  /\ where' = "room" /\ media' = "off" /\ ending' = FALSE
  /\ UNCHANGED <<authVars, validId, host, running, joinVars, ended, wasConnected, panelVars>>

Back == Here /\ Screen \in {"ended", "error"} /\ GoBack

BackHome == Here /\ Screen = "invalid" /\ Leave("dashboard") /\ UNCHANGED confirming

\* What is pinned is the user's own; a picture hides the board and leaves it there.
Pin(what) ==
  /\ Here /\ Screen = "live"
  /\ pinned' = IF pinned = what THEN "nothing" ELSE what
  /\ UNCHANGED <<authVars, where, validId, host, running, joinVars, callVars, confirming, panel, ending>>

OpenPanel(tab) ==
  /\ Here /\ Screen = "live" /\ panel # tab
  /\ panel' = tab
  /\ UNCHANGED <<authVars, where, validId, host, running, joinVars, callVars, confirming, pinned, ending>>

MeetingPageNext ==
  \/ TokenChanges \/ Retry
  \/ \E r \in Runs : AnswerJoin(r) \/ JoinAnswered(r)
  \/ OnConnected \/ OnError \/ OnDisconnected \/ OnClientLeave \/ MeetingEnds
  \/ LeaveOrEnd \/ Hangup \/ CloseConfirm \/ ConfirmEnd \/ EndOnServer \/ EndAnswered
  \/ Back \/ BackHome
  \/ \E what \in {"track", "whiteboard"} : Pin(what)
  \/ \E tab \in {"chat", "people", "ai", "closed"} : OpenPanel(tab)

MeetingPageSpec == MeetingPageInit /\ [][MeetingPageNext]_mpVars

-----------------------------------------------------------------------------
(* Properties.                                                             *)

\* The page turns its wheel only while a join is under way that may still change
\* it, or while the tab does not know yet whether anybody is signed in: whatever
\* tokens, answers and retries come in whatever order, the user is not left
\* waiting for nothing (MeetingWorkspace: the effect, retry, the screens).
NoEndlessSpinner ==
  Here /\ Screen = "spinner" =>
    \/ authLoading
    \/ current # 0 /\ request[current] \in {"asked", "token", "refused"}
=============================================================================
