--------------------------------- MODULE Web ---------------------------------
(***************************************************************************)
(* The pages of the web client, each under the router on its own: a page   *)
(* mounts afresh, keeps its state to itself and shares with the others     *)
(* only the access token, so that a behaviour is about one of them.        *)
(***************************************************************************)
EXTENDS Files, MeetingPage, RoomPage, RoomLists, Accounts

VARIABLE route    \* the page that is open

webVars == <<route, authVars, filesVars, meetingPageVars, roomPageVars, roomListsVars, accountsVars>>

\* The composer stands in the page of the room and in that of the meeting.
Routes == {"chat", "meeting", "room", "lists", "account"}

\* What varies in a page that is not open does not matter.
WebInit ==
  /\ route \in Routes
  /\ FilesInit /\ MeetingPageInit /\ RoomPageInit /\ RoomListsInit /\ AccountsInit
  /\ route # "chat" => place = "room"
  /\ IF route = "meeting" THEN where = "here" ELSE where = "elsewhere" /\ validId /\ host
  /\ IF route = "room" THEN at = "room" ELSE at = "elsewhere" /\ hosting
  /\ route # "lists" => view = "rooms" /\ joinedRooms = {}
  /\ route # "account" => screen = "login"

WebNext ==
  /\ UNCHANGED route
  /\ \/ /\ route = "chat" /\ FilesNext
        /\ UNCHANGED <<authVars, meetingPageVars, roomPageVars, roomListsVars, accountsVars>>
     \/ /\ route = "meeting" /\ MeetingPageNext
        /\ UNCHANGED <<filesVars, roomPageVars, roomListsVars, accountsVars>>
     \/ /\ route = "room" /\ RoomPageNext
        /\ UNCHANGED <<filesVars, meetingPageVars, roomListsVars, accountsVars>>
     \/ /\ route = "lists" /\ RoomListsNext
        /\ UNCHANGED <<filesVars, meetingPageVars, roomPageVars, accountsVars>>
     \/ /\ route = "account" /\ AccountsNext
        /\ UNCHANGED <<filesVars, meetingPageVars, roomPageVars, roomListsVars>>

WebSpec == WebInit /\ [][WebNext]_webVars
=============================================================================
