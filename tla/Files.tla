-------------------------------- MODULE Files --------------------------------
(***************************************************************************)
(* The attachments of a room's chat: the documents of "files" in Mongo,    *)
(* the objects in S3, the messages that point at them, and the composer of *)
(* one page.  A file goes to S3 past the backend: the page asks for a URL, *)
(* PUTs the bytes, has them confirmed and then sends the message.          *)
(*                                                                         *)
(* Anyone with a token may make the same calls in any order: that is       *)
(* "api".  Size and MIME type of a file are its shape.                     *)
(***************************************************************************)
EXTENDS Integers, FiniteSets

CONSTANTS
  MaxFiles,     \* bound: documents in files
  Shapes,       \* size and MIME type, as one value
  Accepted,     \* shapes of 1 byte to 20 MiB and of a type on the list
  Named,        \* those whose name ends as the type wants
  NoShape,
  NoFile,
  Viewer,       \* the user of the page
  Other,        \* another user
  MaxSends,     \* bound: chat:send events
  MaxCalls,     \* bound: calls that no page makes
  MaxFaults     \* bound: failures, lost rights and lost sockets

ASSUME FileAssumption ==
  /\ Named \subseteq Accepted /\ Accepted \subseteq Shapes
  /\ NoShape \notin Shapes /\ NoFile \notin Nat /\ Viewer # Other
  /\ MaxFiles \in Nat /\ MaxSends \in Nat /\ MaxCalls \in Nat /\ MaxFaults \in Nat

VARIABLES
  fileDoc,      \* the documents in files
  object,       \* the objects in S3
  call,         \* the calls that are running
  send,         \* the chat:send events
  admitted,     \* members of the room
  inMeeting,    \* users who may tag a message with the meeting
  place,        \* RoomChat or MeetingChat
  link,         \* the socket of the page
  picked,       \* selectedFile
  upload,       \* what sendFile waits for
  cleared,      \* how often the composer was emptied by sending (ghost)
  calls,        \* calls made past the page, counted
  faults        \* faults so far, counted

dataVars == <<fileDoc, object>>
rightVars == <<admitted, inMeeting>>
composerVars == <<place, link, picked, upload, cleared>>
countVars == <<calls, faults>>
filesVars == <<dataVars, call, send, rightVars, composerVars, countVars>>

FileIds == 1 .. MaxFiles
Callers == {"page", "api"}
SendIds == 1 .. MaxSends
FileUsers == {Viewer, Other}
Tags == {"room", "meeting"}

NoDoc == [status |-> "none", by |-> Viewer, tag |-> "room", shape |-> NoShape]
NoCall == [step |-> "idle", by |-> Viewer, tag |-> "room", shape |-> NoShape, file |-> NoFile]
NoSend == [step |-> "free", by |-> Viewer, from |-> "api", tag |-> "room", file |-> NoFile]

FilesInit ==
  /\ fileDoc = [f \in FileIds |-> NoDoc]
  /\ object = [f \in FileIds |-> NoShape]
  /\ call = [k \in Callers |-> NoCall]
  /\ send = [s \in SendIds |-> NoSend]
  /\ admitted = FileUsers /\ inMeeting = FileUsers
  /\ place \in Tags
  /\ link = "connecting" /\ picked = NoShape
  /\ upload = "none" /\ cleared = 0
  /\ calls = 0 /\ faults = 0

-----------------------------------------------------------------------------
(* The calls.  An answer is "done" or "failed".                            *)

MayTag(u, tag) == tag = "meeting" => u \in inMeeting

\* Nobody looks at the answer of a call that no page makes.
StepTo(k, step) ==
  call' = [call EXCEPT ![k] = IF k = "api" /\ step \in {"done", "failed"} THEN NoCall
                              ELSE [@ EXCEPT !.step = step]]

\* createUpload up to the insert: the room, the tag, then the metadata.
CheckUpload(k) ==
  /\ call[k].step = "create"
  /\ StepTo(k, IF call[k].by \in admitted /\ MayTag(call[k].by, call[k].tag) /\ call[k].shape \in Named
               THEN "insert" ELSE "failed")
  /\ UNCHANGED <<dataVars, send, rightVars, composerVars, countVars>>

\* The URL is signed for this type and this length, and the file is PENDING.
InsertFile(k) ==
  /\ call[k].step = "insert"
  /\ \E f \in FileIds :
       /\ fileDoc[f].status = "none"
       /\ fileDoc' = [fileDoc EXCEPT ![f] =
            [status |-> "PENDING", by |-> call[k].by, tag |-> call[k].tag, shape |-> call[k].shape]]
       /\ \A e \in FileIds : e < f => fileDoc[e].status # "none"
       /\ call' = [call EXCEPT ![k] = IF k = "api" THEN NoCall
                                      ELSE [@ EXCEPT !.step = "done", !.file = f]]
  /\ UNCHANGED <<object, send, rightVars, composerVars, countVars>>

\* S3 lets the signed type and length through, for five minutes, and replaces
\* what was there.
PutObject(k) ==
  /\ call[k].step = "put"
  /\ \/ /\ call[k].shape = fileDoc[call[k].file].shape
        /\ object' = [object EXCEPT ![call[k].file] = call[k].shape]
        /\ StepTo(k, "done")
     \/ UNCHANGED object /\ StepTo(k, "failed")
  /\ UNCHANGED <<fileDoc, send, rightVars, composerVars, countVars>>

\* completeUpload: the caller's own file; one that is READY is answered again.
FindFile(k) ==
  /\ call[k].step = "find"
  /\ LET d == fileDoc[call[k].file]
     IN StepTo(k, IF call[k].by \notin admitted \/ d.status = "none" \/ d.by # call[k].by THEN "failed"
                  ELSE IF d.status = "READY" THEN "done" ELSE "head")
  /\ UNCHANGED <<dataVars, send, rightVars, composerVars, countVars>>

\* The object need only be there.
HeadObject_Unread(k) ==
  /\ call[k].step = "head"
  /\ StepTo(k, "save")
  /\ UNCHANGED <<dataVars, send, rightVars, composerVars, countVars>>

\* A 404 of S3 is no object; another shape than the declared one is refused.
HeadObject(k) ==
  /\ call[k].step = "head"
  /\ StepTo(k, IF object[call[k].file] = fileDoc[call[k].file].shape THEN "save" ELSE "failed")
  /\ UNCHANGED <<dataVars, send, rightVars, composerVars, countVars>>

SaveReady(k) ==
  /\ call[k].step = "save"
  /\ fileDoc' = [fileDoc EXCEPT ![call[k].file].status = "READY"]
  /\ StepTo(k, "done")
  /\ UNCHANGED <<object, send, rightVars, composerVars, countVars>>

\* The server, S3 or the network fails, with the answer perhaps on its way.
FailCall(k) ==
  /\ call[k].step \notin {"idle", "failed"} /\ faults < MaxFaults
  /\ faults' = faults + 1
  /\ StepTo(k, "failed")
  /\ UNCHANGED <<dataVars, send, rightVars, composerVars, calls>>

\* A call that no page makes, in any order.
ApiCall ==
  /\ call["api"].step = "idle" /\ calls < MaxCalls
  /\ calls' = calls + 1
  /\ \/ \E u \in FileUsers, t \in Tags, x \in Shapes :
          call' = [call EXCEPT !["api"] = [NoCall EXCEPT !.step = "create", !.by = u, !.tag = t, !.shape = x]]
     \/ \E f \in FileIds, x \in Shapes :
          /\ fileDoc[f].status # "none"
          /\ call' = [call EXCEPT !["api"] = [NoCall EXCEPT !.step = "put", !.file = f, !.shape = x]]
     \/ \E f \in FileIds, u \in FileUsers :
          /\ fileDoc[f].status # "none"
          /\ call' = [call EXCEPT !["api"] = [NoCall EXCEPT !.step = "find", !.file = f, !.by = u]]
  /\ UNCHANGED <<dataVars, send, rightVars, composerVars, faults>>

-----------------------------------------------------------------------------
(* The messages.                                                           *)

Free(s) == send[s].step = "free" /\ \A r \in SendIds : r < s => send[r].step # "free"

ApiSend(s) ==
  /\ Free(s) /\ calls < MaxCalls
  /\ calls' = calls + 1
  /\ \E u \in FileUsers, t \in Tags, f \in FileIds :
       send' = [send EXCEPT ![s] = [step |-> "sent", by |-> u, from |-> "api", tag |-> t, file |-> f]]
  /\ UNCHANGED <<dataVars, call, rightVars, composerVars, faults>>

\* A message that is refused or lost is forgotten.
Over(m) == [NoSend EXCEPT !.step = "over", !.from = m.from]

\* Rights, tag and file, as sendMessage reads them.
Fits(m) ==
  /\ m.by \in admitted /\ MayTag(m.by, m.tag)
  /\ m.file # NoFile =>
       LET d == fileDoc[m.file] IN d.status = "READY" /\ d.by = m.by /\ d.tag = m.tag

CheckSend(s) ==
  /\ send[s].step = "sent"
  /\ send' = [send EXCEPT ![s] = IF Fits(@) THEN [@ EXCEPT !.step = "create"] ELSE Over(@)]
  /\ UNCHANGED <<dataVars, call, rightVars, composerVars, countVars>>

StoreMessage(s) ==
  /\ send[s].step = "create"
  /\ send' = [send EXCEPT ![s].step = "stored"]
  /\ UNCHANGED <<dataVars, call, rightVars, composerVars, countVars>>

\* The event is lost with its socket, or the server fails.
LoseSend(s) ==
  /\ send[s].step \in {"sent", "create"} /\ faults < MaxFaults
  /\ faults' = faults + 1
  /\ send' = [send EXCEPT ![s] = Over(@)]
  /\ UNCHANGED <<dataVars, call, rightVars, composerVars, calls>>

\* A user is removed from the room, or leaves the meeting or sees it end.
LoseRight(u) ==
  /\ faults < MaxFaults /\ faults' = faults + 1
  /\ \/ u \in admitted /\ admitted' = admitted \ {u} /\ inMeeting' = inMeeting \ {u}
     \/ u \in inMeeting /\ inMeeting' = inMeeting \ {u} /\ UNCHANGED admitted
  /\ UNCHANGED <<dataVars, call, send, composerVars, calls>>

-----------------------------------------------------------------------------
(* The composer.  What its input holds is left out: a text may be sent at  *)
(* any time.                                                               *)

ChangeLink(state) ==
  /\ link' = state
  /\ UNCHANGED <<dataVars, call, send, rightVars, place, picked, upload, cleared, calls>>

LinkUp == link \in {"connecting", "disconnected"} /\ ChangeLink("connected") /\ UNCHANGED faults

LinkDown ==
  /\ link = "connected" /\ faults < MaxFaults /\ faults' = faults + 1
  /\ ChangeLink("disconnected")

\* A new access token closes the socket and opens another.
RenewLink ==
  /\ link \in {"connected", "disconnected"} /\ faults < MaxFaults /\ faults' = faults + 1
  /\ ChangeLink("connecting")

\* The page is left: an upload goes on, without a socket.
LeaveChat == link # "gone" /\ ChangeLink("gone") /\ UNCHANGED faults

Compose(p, u, c) ==
  /\ picked' = p /\ upload' = u /\ cleared' = c
  /\ UNCHANGED <<dataVars, rightVars, place, link, countVars>>

\* isUploading is set in the event that starts the upload and cleared with the
\* file, so that what the buttons show is what sendFile checks.
Idle == link = "connected" /\ upload = "none"

Choose(x) ==
  /\ Idle /\ x \in Accepted
  /\ Compose(x, upload, cleared)
  /\ UNCHANGED <<call, send>>

Unpick ==
  /\ link # "gone" /\ upload = "none" /\ picked # NoShape
  /\ Compose(NoShape, upload, cleared)
  /\ UNCHANGED <<call, send>>

Emit(file) ==
  \E s \in SendIds :
    /\ Free(s)
    /\ send' = [send EXCEPT ![s] =
         [step |-> "sent", by |-> Viewer, from |-> "page", tag |-> place, file |-> file]]

\* Nobody answers chat:send: the input is emptied when the event is out.
SendText ==
  /\ Idle /\ picked = NoShape
  /\ Emit(NoFile)
  /\ Compose(NoShape, "none", cleared + 1)
  /\ UNCHANGED call

SendFile ==
  /\ Idle /\ picked # NoShape
  /\ call' = [call EXCEPT !["page"] =
       [step |-> "create", by |-> Viewer, tag |-> place, shape |-> picked, file |-> NoFile]]
  /\ Compose(picked, "create", cleared)
  /\ UNCHANGED send

Submit(p) == place = p /\ (SendText \/ SendFile)

\* uploadFile: the bytes are read when they are sent; the file may be another
\* by then.
PutFile ==
  /\ upload = "create" /\ call["page"].step = "done"
  /\ \E x \in Shapes : call' = [call EXCEPT !["page"].step = "put", !["page"].shape = x]
  /\ Compose(picked, "put", cleared)
  /\ UNCHANGED send

AskComplete ==
  /\ upload = "put" /\ call["page"].step = "done"
  /\ StepTo("page", "find")
  /\ Compose(picked, "complete", cleared)
  /\ UNCHANGED send

\* The socket is taken for connected, since it was when the upload began.
FinishUpload_NoRecheck ==
  /\ upload = "complete" /\ call["page"].step = "done"
  /\ call' = [call EXCEPT !["page"] = NoCall]
  /\ IF link = "connected" THEN Emit(call["page"].file) ELSE UNCHANGED send
  /\ Compose(NoShape, "none", cleared + 1)

\* The socket is looked up anew, and the file stays where it is without one.
\* The input is emptied too, of what was typed since as well.
FinishUpload ==
  /\ upload = "complete" /\ call["page"].step = "done"
  /\ call' = [call EXCEPT !["page"] = NoCall]
  /\ IF link = "connected"
     THEN Emit(call["page"].file) /\ Compose(NoShape, "none", cleared + 1)
     ELSE UNCHANGED send /\ Compose(picked, "none", cleared)

\* Any of the three calls may throw: the composer keeps what it holds.
UploadFails ==
  /\ upload # "none" /\ call["page"].step = "failed"
  /\ call' = [call EXCEPT !["page"] = NoCall]
  /\ Compose(picked, "none", cleared)
  /\ UNCHANGED send

-----------------------------------------------------------------------------

FilesNext ==
  \/ \E k \in Callers :
       \/ CheckUpload(k) \/ InsertFile(k) \/ PutObject(k)
       \/ FindFile(k) \/ HeadObject(k) \/ SaveReady(k) \/ FailCall(k)
  \/ ApiCall
  \/ \E s \in SendIds : ApiSend(s) \/ CheckSend(s) \/ StoreMessage(s) \/ LoseSend(s)
  \/ \E u \in FileUsers : LoseRight(u)
  \/ LinkUp \/ LinkDown \/ RenewLink \/ LeaveChat
  \/ \E x \in Shapes : Choose(x)
  \/ Unpick \/ (\E p \in Tags : Submit(p))
  \/ PutFile \/ AskComplete \/ FinishUpload \/ UploadFails

FilesSpec == FilesInit /\ [][FilesNext]_filesVars

-----------------------------------------------------------------------------
(* Properties.                                                             *)

\* A message that points at a file points at one that is READY, its sender's
\* and of the same meeting, and what S3 holds is what was declared, however
\* the calls are ordered and also when they are made again (ADR-025 in
\* docs/decisions.md, completeUpload, sendMessage).
AttachmentIsThere ==
  \A s \in SendIds :
    send[s].step = "stored" /\ send[s].file # NoFile =>
      LET d == fileDoc[send[s].file]
      IN /\ d.status = "READY" /\ d.by = send[s].by /\ d.tag = send[s].tag
         /\ object[send[s].file] = d.shape

\* The composer is emptied by sending once for every message that leaves on a
\* connected socket: a file whose upload outlives the socket stays, and none is
\* sent twice (sendFile in useRoomChat, handleSendMessage).
ComposerSends ==
  cleared = Cardinality({s \in SendIds : send[s].from = "page" /\ send[s].step # "free"})
=============================================================================
