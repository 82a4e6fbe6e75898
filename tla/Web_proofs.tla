----------------------------- MODULE Web_proofs -----------------------------
(***************************************************************************)
(* The pages of the web client, each on its own and then under the router, *)
(* for any number of files, tokens, requests, rooms, accounts and faults:  *)
(* an attachment that a message points at is there, the composer is        *)
(* emptied for what it has sent, the page of a meeting does not turn its   *)
(* wheel for nothing, the page of a room does not forget what its user has *)
(* done, the lists show the latest answer they were given, and whatever a  *)
(* person shows leads to one account.                                      *)
(***************************************************************************)
EXTENDS Web, FiniteSetTheorems, TLAPS

(***************************************************************************)
(* Files: the composer and its uploads.                                    *)
(***************************************************************************)

AnyShape == Shapes \cup {NoShape}
AnyFile == FileIds \cup {NoFile}

DocRecord ==
  [status : {"none", "PENDING", "READY"}, by : FileUsers, tag : Tags, shape : AnyShape]
CallRecord ==
  [step : {"idle", "create", "insert", "put", "find", "head", "save", "done", "failed"},
   by : FileUsers, tag : Tags, shape : AnyShape, file : AnyFile]
SendRecord ==
  [step : {"free", "sent", "create", "stored", "over"}, by : FileUsers, from : {"api", "page"},
   tag : Tags, file : AnyFile]

FileTypeOK ==
  /\ fileDoc \in [FileIds -> DocRecord]
  /\ object \in [FileIds -> AnyShape]
  /\ call \in [Callers -> CallRecord]
  /\ send \in [SendIds -> SendRecord]
  /\ picked \in AnyShape /\ place \in Tags

\* What is confirmed is what was declared.
ReadyInv == \A f \in FileIds : fileDoc[f].status = "READY" => object[f] = fileDoc[f].shape

\* What a call has found out stays true while it goes on.
CallInv ==
  \A k \in Callers :
    /\ call[k].step \in {"put", "find", "head", "save", "done"} => call[k].file \in FileIds
    /\ call[k].step \in {"head", "save"} => fileDoc[call[k].file].status # "none"
    /\ call[k].step = "save" => object[call[k].file] = fileDoc[call[k].file].shape

\* What a message was let through for stays true.
SendInv ==
  \A s \in SendIds :
    send[s].step \in {"create", "stored"} /\ send[s].file # NoFile =>
      LET d == fileDoc[send[s].file]
      IN d.status = "READY" /\ d.by = send[s].by /\ d.tag = send[s].tag

FileInv == FileTypeOK /\ ReadyInv /\ CallInv /\ SendInv

LEMMA FileInit == ASSUME FilesInit PROVE FileInv
<1>1. FileTypeOK
  BY DEF FilesInit, FileTypeOK, DocRecord, CallRecord, SendRecord, AnyShape, AnyFile, FileUsers, Tags,
         NoDoc, NoCall, NoSend
<1> QED BY <1>1 DEF FilesInit, FileInv, ReadyInv, CallInv, SendInv, NoDoc, NoCall, NoSend

-----------------------------------------------------------------------------
(* The calls.                                                              *)

\* One call goes on, and no document or object changes.
LEMMA CallGoesOn ==
  ASSUME FileInv, UNCHANGED <<dataVars, send, picked, place>>, NEW k \in Callers, NEW c \in CallRecord,
         call' = [call EXCEPT ![k] = c],
         c.step \in {"put", "find", "head", "save", "done"} => c.file \in FileIds,
         c.step \in {"head", "save"} => fileDoc[c.file].status # "none",
         c.step = "save" => object[c.file] = fileDoc[c.file].shape
  PROVE  FileInv'
<1>1. FileTypeOK'
  BY DEF FileInv, FileTypeOK, dataVars
<1>2. CallInv'
  BY DEF FileInv, FileTypeOK, CallInv, dataVars
<1> QED BY <1>1, <1>2 DEF FileInv, ReadyInv, SendInv, dataVars

\* What StepTo makes of a call.
LEMMA StepToFields ==
  ASSUME FileTypeOK, NEW k \in Callers, NEW step \in {"insert", "find", "head", "save", "done", "failed"},
         StepTo(k, step)
  PROVE  \E c \in CallRecord :
           /\ call' = [call EXCEPT ![k] = c]
           /\ \/ c.step = "idle"
              \/ c.step = step /\ c.file = call[k].file
<1>1. call[k] \in CallRecord
  BY DEF FileTypeOK
<1>2. NoCall \in CallRecord /\ NoCall.step = "idle"
  BY DEF NoCall, CallRecord, FileUsers, Tags, AnyShape, AnyFile
<1>3. [call[k] EXCEPT !.step = step] \in CallRecord
  BY <1>1 DEF CallRecord
<1>4. [call[k] EXCEPT !.step = step].step = step /\ [call[k] EXCEPT !.step = step].file = call[k].file
  BY <1>1 DEF CallRecord
<1>5. CASE k = "api" /\ step \in {"done", "failed"}
  BY <1>2, <1>5 DEF StepTo
<1>6. CASE ~(k = "api" /\ step \in {"done", "failed"})
  <2>1. call' = [call EXCEPT ![k] = [call[k] EXCEPT !.step = step]]
    BY <1>6 DEF StepTo
  <2> QED BY <1>3, <1>4, <2>1
<1> QED BY <1>5, <1>6

LEMMA CallKeeps ==
  ASSUME FileInv, NEW k \in Callers,
         CheckUpload(k) \/ FindFile(k) \/ HeadObject(k) \/ FailCall(k)
  PROVE  FileInv'
<1>1. call[k] \in CallRecord /\ FileTypeOK
  BY DEF FileInv, FileTypeOK
<1>2. UNCHANGED <<dataVars, send, picked, place>>
  BY DEF CheckUpload, FindFile, HeadObject, FailCall, composerVars
<1>3. CASE CheckUpload(k)
  <2>1. PICK step \in {"insert", "failed"} : StepTo(k, step)
    BY <1>3 DEF CheckUpload
  <2>2. PICK c \in CallRecord : /\ call' = [call EXCEPT ![k] = c]
                                /\ c.step \in {"idle", "insert", "failed"}
    BY <1>1, <2>1, StepToFields
  <2> QED BY <1>2, <2>2, CallGoesOn
<1>4. CASE FindFile(k)
  <2>1. call[k].file \in FileIds
    BY <1>4 DEF FindFile, FileInv, CallInv
  <2>2. PICK step \in {"failed", "done", "head"} :
          /\ StepTo(k, step)
          /\ step = "head" => fileDoc[call[k].file].status # "none"
    BY <1>4 DEF FindFile
  <2>3. PICK c \in CallRecord : /\ call' = [call EXCEPT ![k] = c]
                                /\ c.step = "idle" \/ (c.step = step /\ c.file = call[k].file)
    BY <1>1, <2>2, StepToFields
  <2> QED BY <1>2, <2>1, <2>2, <2>3, CallGoesOn
<1>5. CASE HeadObject(k)
  <2>1. call[k].file \in FileIds /\ fileDoc[call[k].file].status # "none"
    BY <1>5 DEF HeadObject, FileInv, CallInv
  <2>2. PICK step \in {"failed", "save"} :
          /\ StepTo(k, step)
          /\ step = "save" => object[call[k].file] = fileDoc[call[k].file].shape
    BY <1>5 DEF HeadObject
  <2>3. PICK c \in CallRecord : /\ call' = [call EXCEPT ![k] = c]
                                /\ c.step = "idle" \/ (c.step = step /\ c.file = call[k].file)
    BY <1>1, <2>2, StepToFields
  <2> QED BY <1>2, <2>1, <2>2, <2>3, CallGoesOn
<1>6. CASE FailCall(k)
  <2>1. StepTo(k, "failed")
    BY <1>6 DEF FailCall
  <2>2. PICK c \in CallRecord : /\ call' = [call EXCEPT ![k] = c]
                                /\ c.step \in {"idle", "failed"}
    BY <1>1, <2>1, StepToFields
  <2> QED BY <1>2, <2>2, CallGoesOn
<1> QED BY <1>3, <1>4, <1>5, <1>6

\* A document that is new was none before: nothing was known of it.
LEMMA InsertKeeps ==
  ASSUME FileInv, NEW k \in Callers, InsertFile(k)
  PROVE  FileInv'
<1> DEFINE doc == [status |-> "PENDING", by |-> call[k].by, tag |-> call[k].tag, shape |-> call[k].shape]
<1>1. call[k] \in CallRecord
  BY DEF FileInv, FileTypeOK
<1>2. PICK f \in FileIds :
        /\ fileDoc[f].status = "none"
        /\ fileDoc' = [fileDoc EXCEPT ![f] = doc]
        /\ call' = [call EXCEPT ![k] = IF k = "api" THEN NoCall
                                       ELSE [@ EXCEPT !.step = "done", !.file = f]]
  BY DEF InsertFile
<1>3. UNCHANGED <<object, send, picked, place>>
  BY DEF InsertFile, composerVars
<1>4. doc \in DocRecord /\ doc.status = "PENDING"
  BY <1>1 DEF DocRecord, CallRecord
<1> HIDE DEF doc
<1>5. PICK c \in CallRecord : /\ call' = [call EXCEPT ![k] = c]
                              /\ c.step = "idle" \/ (c.step = "done" /\ c.file = f)
  <2>1. NoCall \in CallRecord /\ NoCall.step = "idle"
    BY DEF NoCall, CallRecord, FileUsers, Tags, AnyShape, AnyFile
  <2>2. [call[k] EXCEPT !.step = "done", !.file = f] \in CallRecord
    BY <1>1 DEF CallRecord, AnyFile
  <2>3. /\ [call[k] EXCEPT !.step = "done", !.file = f].step = "done"
        /\ [call[k] EXCEPT !.step = "done", !.file = f].file = f
    BY <1>1 DEF CallRecord
  <2>4. CASE k = "api"
    BY <1>2, <2>1, <2>4
  <2>5. CASE k # "api"
    <3>1. call' = [call EXCEPT ![k] = [call[k] EXCEPT !.step = "done", !.file = f]]
      BY <1>2, <2>5
    <3> QED BY <2>2, <2>3, <3>1
  <2> QED BY <2>4, <2>5
<1>6. FileTypeOK'
  BY <1>2, <1>3, <1>4, <1>5 DEF FileInv, FileTypeOK
<1>7. ReadyInv'
  BY <1>2, <1>3, <1>4 DEF FileInv, FileTypeOK, ReadyInv
<1>8. CallInv'
  BY <1>2, <1>3, <1>4, <1>5 DEF FileInv, FileTypeOK, CallInv
<1>9. SendInv'
  <2>1. SUFFICES ASSUME NEW s \in SendIds, send[s].step \in {"create", "stored"}, send[s].file # NoFile
                 PROVE  fileDoc'[send[s].file] = fileDoc[send[s].file]
    BY <1>3 DEF FileInv, SendInv
  <2>2. send[s].file \in FileIds /\ fileDoc[send[s].file].status = "READY"
    BY <2>1 DEF FileInv, FileTypeOK, SendInv, SendRecord, AnyFile
  <2> QED BY <1>2, <2>2 DEF FileInv, FileTypeOK
<1> QED BY <1>6, <1>7, <1>8, <1>9 DEF FileInv

LEMMA PutKeeps ==
  ASSUME FileInv, NEW k \in Callers, PutObject(k)
  PROVE  FileInv'
<1>1. call[k] \in CallRecord /\ call[k].step = "put" /\ call[k].file \in FileIds
      /\ UNCHANGED <<fileDoc, send, picked, place>>
  BY DEF PutObject, FileInv, FileTypeOK, CallInv, composerVars
<1>2. PICK step \in {"done", "failed"} : StepTo(k, step)
  BY DEF PutObject
<1>3. PICK c \in CallRecord : /\ call' = [call EXCEPT ![k] = c]
                              /\ c.step = "idle" \/ (c.step = step /\ c.file = call[k].file)
  BY <1>2, StepToFields DEF FileInv
<1>4. \/ UNCHANGED object
      \/ object' = [object EXCEPT ![call[k].file] = fileDoc[call[k].file].shape]
  BY DEF PutObject
<1>5. \A f \in FileIds : object[f] = fileDoc[f].shape => object'[f] = fileDoc'[f].shape
  BY <1>1, <1>4 DEF FileInv, FileTypeOK
<1>6. object' \in [FileIds -> AnyShape]
  BY <1>1, <1>4 DEF FileInv, FileTypeOK, DocRecord
<1>7. FileTypeOK'
  BY <1>1, <1>3, <1>6 DEF FileInv, FileTypeOK
<1>8. ReadyInv'
  BY <1>1, <1>5 DEF FileInv, ReadyInv
<1>9. CallInv'
  BY <1>1, <1>3, <1>5 DEF FileInv, FileTypeOK, CallInv
<1>10. SendInv'
  BY <1>1 DEF FileInv, SendInv
<1> QED BY <1>7, <1>8, <1>9, <1>10 DEF FileInv

LEMMA SaveKeeps ==
  ASSUME FileInv, NEW k \in Callers, SaveReady(k)
  PROVE  FileInv'
<1> DEFINE f == call[k].file
<1>1. /\ call[k] \in CallRecord /\ f \in FileIds /\ fileDoc[f].status # "none"
      /\ object[f] = fileDoc[f].shape /\ UNCHANGED <<object, send, picked, place>>
  BY DEF SaveReady, FileInv, FileTypeOK, CallInv, composerVars
<1>2. PICK c \in CallRecord : /\ call' = [call EXCEPT ![k] = c]
                              /\ c.step = "idle" \/ (c.step = "done" /\ c.file = f)
  BY StepToFields DEF SaveReady, FileInv
<1>3. fileDoc' = [fileDoc EXCEPT ![f].status = "READY"]
  BY DEF SaveReady
<1>4. /\ fileDoc' \in [FileIds -> DocRecord]
      /\ fileDoc'[f].status = "READY"
      /\ \A e \in FileIds : e # f => fileDoc'[e].status = fileDoc[e].status
      /\ \A e \in FileIds : /\ fileDoc'[e].by = fileDoc[e].by /\ fileDoc'[e].tag = fileDoc[e].tag
                            /\ fileDoc'[e].shape = fileDoc[e].shape
  BY <1>1, <1>3 DEF FileInv, FileTypeOK, DocRecord
<1> HIDE DEF f
<1>5. FileTypeOK'
  BY <1>1, <1>2, <1>4 DEF FileInv, FileTypeOK
<1>6. ReadyInv'
  BY <1>1, <1>4 DEF FileInv, ReadyInv
<1>7. CallInv'
  BY <1>1, <1>2, <1>4 DEF FileInv, FileTypeOK, CallInv
<1>8. SendInv'
  <2>1. SUFFICES ASSUME NEW s \in SendIds, send[s].step \in {"create", "stored"}, send[s].file # NoFile
                 PROVE  /\ fileDoc'[send[s].file].status = "READY"
                        /\ fileDoc'[send[s].file].by = send[s].by
                        /\ fileDoc'[send[s].file].tag = send[s].tag
    BY <1>1 DEF SendInv
  <2>2. /\ send[s].file \in FileIds /\ fileDoc[send[s].file].status = "READY"
        /\ fileDoc[send[s].file].by = send[s].by /\ fileDoc[send[s].file].tag = send[s].tag
    BY <2>1 DEF FileInv, FileTypeOK, SendInv, SendRecord, AnyFile
  <2> QED BY <1>4, <2>2
<1> QED BY <1>5, <1>6, <1>7, <1>8 DEF FileInv

LEMMA ApiCallKeeps ==
  ASSUME FileInv, ApiCall
  PROVE  FileInv'
<1>1. UNCHANGED <<dataVars, send, picked, place>> /\ "api" \in Callers
  BY DEF ApiCall, composerVars, Callers
<1>2. ASSUME NEW u \in FileUsers, NEW t \in Tags, NEW x \in Shapes,
             call' = [call EXCEPT !["api"] = [NoCall EXCEPT !.step = "create", !.by = u, !.tag = t, !.shape = x]]
      PROVE  FileInv'
  <2>1. [NoCall EXCEPT !.step = "create", !.by = u, !.tag = t, !.shape = x] \in CallRecord
    BY DEF NoCall, CallRecord, AnyShape, AnyFile
  <2>2. [NoCall EXCEPT !.step = "create", !.by = u, !.tag = t, !.shape = x].step = "create"
    BY DEF NoCall
  <2> QED BY <1>1, <1>2, <2>1, <2>2, CallGoesOn
<1>3. ASSUME NEW f \in FileIds, NEW x \in Shapes,
             call' = [call EXCEPT !["api"] = [NoCall EXCEPT !.step = "put", !.file = f, !.shape = x]]
      PROVE  FileInv'
  <2>1. [NoCall EXCEPT !.step = "put", !.file = f, !.shape = x] \in CallRecord
    BY DEF NoCall, CallRecord, AnyShape, AnyFile, FileUsers, Tags
  <2>2. /\ [NoCall EXCEPT !.step = "put", !.file = f, !.shape = x].step = "put"
        /\ [NoCall EXCEPT !.step = "put", !.file = f, !.shape = x].file = f
    BY DEF NoCall
  <2> QED BY <1>1, <1>3, <2>1, <2>2, CallGoesOn
<1>4. ASSUME NEW f \in FileIds, NEW u \in FileUsers,
             call' = [call EXCEPT !["api"] = [NoCall EXCEPT !.step = "find", !.file = f, !.by = u]]
      PROVE  FileInv'
  <2>1. [NoCall EXCEPT !.step = "find", !.file = f, !.by = u] \in CallRecord
    BY DEF NoCall, CallRecord, AnyShape, AnyFile, FileUsers, Tags
  <2>2. /\ [NoCall EXCEPT !.step = "find", !.file = f, !.by = u].step = "find"
        /\ [NoCall EXCEPT !.step = "find", !.file = f, !.by = u].file = f
    BY DEF NoCall
  <2> QED BY <1>1, <1>4, <2>1, <2>2, CallGoesOn
<1> QED BY <1>2, <1>3, <1>4 DEF ApiCall

-----------------------------------------------------------------------------
(* The messages.                                                           *)

\* One message goes on, and no document or object changes.
LEMMA SendGoesOn ==
  ASSUME FileInv, UNCHANGED <<dataVars, place>>, picked' \in AnyShape,
         call' = call \/ (call' = [call EXCEPT !["page"] = NoCall]),
         NEW s \in SendIds, NEW m \in SendRecord,
         send' = [send EXCEPT ![s] = m],
         m.step \in {"create", "stored"} /\ m.file # NoFile =>
           LET d == fileDoc[m.file] IN d.status = "READY" /\ d.by = m.by /\ d.tag = m.tag
  PROVE  FileInv'
<1>1. NoCall \in CallRecord /\ NoCall.step = "idle" /\ "page" \in Callers
  BY DEF NoCall, CallRecord, FileUsers, Tags, AnyShape, AnyFile, Callers
<1>2. \A k \in Callers : call'[k] = call[k] \/ call'[k] = NoCall
  BY <1>1 DEF FileInv, FileTypeOK
<1>3. FileTypeOK'
  BY <1>1 DEF FileInv, FileTypeOK, dataVars
<1>4. CallInv'
  BY <1>1, <1>2 DEF FileInv, CallInv, dataVars
<1>5. SendInv'
  BY DEF FileInv, FileTypeOK, SendInv, dataVars
<1> QED BY <1>3, <1>4, <1>5 DEF FileInv, ReadyInv, dataVars

LEMMA OverFields ==
  ASSUME NEW m \in SendRecord
  PROVE  Over(m) \in SendRecord /\ Over(m).step = "over" /\ Over(m).from = m.from
BY DEF Over, SendRecord, NoSend, FileUsers, Tags, AnyFile

LEMMA SendKeeps ==
  ASSUME FileInv, NEW s \in SendIds, ApiSend(s) \/ CheckSend(s) \/ StoreMessage(s) \/ LoseSend(s)
  PROVE  FileInv'
<1>1. UNCHANGED <<dataVars, place, call, picked>> /\ picked' \in AnyShape
  BY DEF ApiSend, CheckSend, StoreMessage, LoseSend, composerVars, FileInv, FileTypeOK
<1>2. send[s] \in SendRecord
  BY DEF FileInv, FileTypeOK
<1>3. CASE ApiSend(s)
  <2>1. PICK u \in FileUsers, t \in Tags, f \in FileIds :
          send' = [send EXCEPT ![s] = [step |-> "sent", by |-> u, from |-> "api", tag |-> t, file |-> f]]
    BY <1>3 DEF ApiSend
  <2>2. [step |-> "sent", by |-> u, from |-> "api", tag |-> t, file |-> f] \in SendRecord
    BY DEF SendRecord, AnyFile
  <2> QED BY <1>1, <2>1, <2>2, SendGoesOn
<1>4. CASE CheckSend(s) /\ Fits(send[s])
  <2>1. send' = [send EXCEPT ![s] = [send[s] EXCEPT !.step = "create"]]
    BY <1>4 DEF CheckSend
  <2>2. [send[s] EXCEPT !.step = "create"] \in SendRecord
    BY <1>2 DEF SendRecord
  <2>3. /\ [send[s] EXCEPT !.step = "create"].file = send[s].file
        /\ [send[s] EXCEPT !.step = "create"].by = send[s].by
        /\ [send[s] EXCEPT !.step = "create"].tag = send[s].tag
    BY <1>2 DEF SendRecord
  <2>4. send[s].file # NoFile =>
          LET d == fileDoc[send[s].file]
          IN d.status = "READY" /\ d.by = send[s].by /\ d.tag = send[s].tag
    BY <1>4 DEF Fits
  <2> QED BY <1>1, <2>1, <2>2, <2>3, <2>4, SendGoesOn
<1>5. CASE (CheckSend(s) /\ ~Fits(send[s])) \/ LoseSend(s)
  <2>1. send' = [send EXCEPT ![s] = Over(send[s])]
    BY <1>5 DEF CheckSend, LoseSend
  <2>2. Over(send[s]) \in SendRecord /\ Over(send[s]).step = "over"
    BY <1>2, OverFields
  <2> QED BY <1>1, <2>1, <2>2, SendGoesOn
<1>6. CASE StoreMessage(s)
  <2>1. send[s].step = "create" /\ send' = [send EXCEPT ![s] = [send[s] EXCEPT !.step = "stored"]]
    BY <1>6 DEF StoreMessage
  <2>2. [send[s] EXCEPT !.step = "stored"] \in SendRecord
    BY <1>2 DEF SendRecord
  <2>3. /\ [send[s] EXCEPT !.step = "stored"].file = send[s].file
        /\ [send[s] EXCEPT !.step = "stored"].by = send[s].by
        /\ [send[s] EXCEPT !.step = "stored"].tag = send[s].tag
    BY <1>2 DEF SendRecord
  <2> QED BY <1>1, <2>1, <2>2, <2>3, SendGoesOn DEF FileInv, SendInv
<1> QED BY <1>3, <1>4, <1>5, <1>6

-----------------------------------------------------------------------------
(* The composer.                                                           *)

\* What the page sends.
LEMMA EmitKeeps ==
  ASSUME FileInv, NEW file \in AnyFile, Emit(file), UNCHANGED <<dataVars, place>>, picked' \in AnyShape,
         call' = call \/ (call' = [call EXCEPT !["page"] = NoCall])
  PROVE  FileInv'
<1>1. PICK s \in SendIds :
        send' = [send EXCEPT ![s] = [step |-> "sent", by |-> Viewer, from |-> "page", tag |-> place, file |-> file]]
  BY DEF Emit
<1>2. [step |-> "sent", by |-> Viewer, from |-> "page", tag |-> place, file |-> file] \in SendRecord
  BY DEF SendRecord, FileUsers, FileInv, FileTypeOK
<1> QED BY <1>1, <1>2, SendGoesOn

\* What the composer does without a call or a message.
LEMMA ComposerKeeps ==
  ASSUME FileInv, UNCHANGED <<dataVars, send, place>>, picked' \in AnyShape,
         call' = call \/ (call' = [call EXCEPT !["page"] = NoCall])
  PROVE  FileInv'
<1>1. NoCall \in CallRecord /\ NoCall.step = "idle" /\ "page" \in Callers
  BY DEF NoCall, CallRecord, FileUsers, Tags, AnyShape, AnyFile, Callers
<1>2. \A k \in Callers : call'[k] = call[k] \/ call'[k] = NoCall
  BY <1>1 DEF FileInv, FileTypeOK
<1>3. FileTypeOK'
  BY <1>1 DEF FileInv, FileTypeOK, dataVars
<1>4. CallInv'
  BY <1>1, <1>2 DEF FileInv, CallInv, dataVars
<1> QED BY <1>3, <1>4 DEF FileInv, ReadyInv, SendInv, dataVars

\* The three calls that the page makes.
LEMMA PageCallKeeps ==
  ASSUME FileInv, SendFile \/ PutFile \/ AskComplete
  PROVE  FileInv'
<1>1. "page" \in Callers /\ UNCHANGED <<dataVars, send, picked, place>>
  BY DEF Callers, SendFile, PutFile, AskComplete, Compose
<1>2. call["page"] \in CallRecord
  BY <1>1 DEF FileInv, FileTypeOK
<1>3. CASE SendFile
  <2>1. call' = [call EXCEPT !["page"] =
                   [step |-> "create", by |-> Viewer, tag |-> place, shape |-> picked, file |-> NoFile]]
    BY <1>3 DEF SendFile
  <2>2. [step |-> "create", by |-> Viewer, tag |-> place, shape |-> picked, file |-> NoFile] \in CallRecord
    BY DEF CallRecord, FileUsers, FileInv, FileTypeOK, AnyFile
  <2> QED BY <1>1, <2>1, <2>2, CallGoesOn
<1>4. CASE PutFile
  <2>1. PICK x \in Shapes : call' = [call EXCEPT !["page"].step = "put", !["page"].shape = x]
    BY <1>4 DEF PutFile
  <2>2. call["page"].file \in FileIds
    BY <1>1, <1>4 DEF PutFile, FileInv, CallInv
  <2>3. call' = [call EXCEPT !["page"] = [call["page"] EXCEPT !.step = "put", !.shape = x]]
    BY <1>1, <1>2, <2>1 DEF FileInv, FileTypeOK, CallRecord
  <2>4. [call["page"] EXCEPT !.step = "put", !.shape = x] \in CallRecord
    BY <1>2 DEF CallRecord, AnyShape
  <2>5. /\ [call["page"] EXCEPT !.step = "put", !.shape = x].step = "put"
        /\ [call["page"] EXCEPT !.step = "put", !.shape = x].file = call["page"].file
    BY <1>2 DEF CallRecord
  <2> QED BY <1>1, <2>2, <2>3, <2>4, <2>5, CallGoesOn
<1>5. CASE AskComplete
  <2>1. call["page"].file \in FileIds
    BY <1>1, <1>5 DEF AskComplete, FileInv, CallInv
  <2>2. PICK c \in CallRecord : /\ call' = [call EXCEPT !["page"] = c]
                                /\ c.step = "idle" \/ (c.step = "find" /\ c.file = call["page"].file)
    BY <1>1, <1>5, StepToFields DEF AskComplete, FileInv
  <2> QED BY <1>1, <2>1, <2>2, CallGoesOn
<1> QED BY <1>3, <1>4, <1>5

LEMMA PageKeeps ==
  ASSUME FileInv,
         \/ \E u \in FileUsers : LoseRight(u)
         \/ LinkUp \/ LinkDown \/ RenewLink \/ LeaveChat
         \/ \E x \in Shapes : Choose(x)
         \/ Unpick \/ \E p \in Tags : Submit(p)
         \/ PutFile \/ AskComplete \/ FinishUpload \/ UploadFails
  PROVE  FileInv'
<1>1. picked \in AnyShape /\ NoShape \in AnyShape
  BY DEF FileInv, FileTypeOK, AnyShape
<1>2. ASSUME NEW u \in FileUsers, LoseRight(u) PROVE FileInv'
  BY <1>1, <1>2, ComposerKeeps DEF LoseRight, composerVars
<1>3. CASE LinkUp \/ LinkDown \/ RenewLink \/ LeaveChat
  <2>1. PICK state : ChangeLink(state)
    BY <1>3 DEF LinkUp, LinkDown, RenewLink, LeaveChat
  <2> QED BY <1>1, <2>1, ComposerKeeps DEF ChangeLink
<1>4. ASSUME NEW x \in Shapes, Choose(x) PROVE FileInv'
  BY <1>4, ComposerKeeps DEF Choose, Compose, AnyShape
<1>5. CASE Unpick
  BY <1>1, <1>5, ComposerKeeps DEF Unpick, Compose
<1>6. CASE SendText
  BY <1>1, <1>6, EmitKeeps DEF SendText, Compose, AnyFile
<1>7. CASE SendFile \/ PutFile \/ AskComplete
  BY <1>7, PageCallKeeps
<1>8. CASE FinishUpload /\ link = "connected"
  <2>1. call["page"].file \in AnyFile
    BY <1>8 DEF FinishUpload, FileInv, CallInv, Callers, AnyFile
  <2> QED BY <1>1, <1>8, <2>1, EmitKeeps DEF FinishUpload, Compose
<1>9. CASE (FinishUpload /\ link # "connected") \/ UploadFails
  BY <1>1, <1>9, ComposerKeeps DEF FinishUpload, UploadFails, Compose
<1> QED BY <1>2, <1>3, <1>4, <1>5, <1>6, <1>7, <1>8, <1>9 DEF Submit

LEMMA FileStep ==
  ASSUME FileInv, [FilesNext]_filesVars
  PROVE  FileInv'
<1>1. ASSUME NEW k \in Callers,
             \/ CheckUpload(k) \/ InsertFile(k) \/ PutObject(k)
             \/ FindFile(k) \/ HeadObject(k) \/ SaveReady(k) \/ FailCall(k)
      PROVE  FileInv'
  BY <1>1, CallKeeps, InsertKeeps, PutKeeps, SaveKeeps
<1>2. CASE ApiCall
  BY <1>2, ApiCallKeeps
<1>3. ASSUME NEW s \in SendIds, ApiSend(s) \/ CheckSend(s) \/ StoreMessage(s) \/ LoseSend(s)
      PROVE  FileInv'
  BY <1>3, SendKeeps
<1>4. CASE \/ \E u \in FileUsers : LoseRight(u)
           \/ LinkUp \/ LinkDown \/ RenewLink \/ LeaveChat
           \/ \E x \in Shapes : Choose(x)
           \/ Unpick \/ \E p \in Tags : Submit(p)
           \/ PutFile \/ AskComplete \/ FinishUpload \/ UploadFails
  BY <1>4, PageKeeps
<1>5. CASE UNCHANGED filesVars
  BY <1>5, ComposerKeeps DEF filesVars, composerVars, FileInv, FileTypeOK
<1> QED BY <1>1, <1>2, <1>3, <1>4, <1>5 DEF FilesNext

LEMMA FileInvIsEnough == ASSUME FileInv PROVE AttachmentIsThere
<1>1. SUFFICES ASSUME NEW s \in SendIds, send[s].step = "stored", send[s].file # NoFile
               PROVE  LET d == fileDoc[send[s].file]
                      IN /\ d.status = "READY" /\ d.by = send[s].by /\ d.tag = send[s].tag
                         /\ object[send[s].file] = d.shape
  BY DEF AttachmentIsThere
<1>2. send[s].file \in FileIds
  BY <1>1 DEF FileInv, FileTypeOK, SendRecord, AnyFile
<1> QED BY <1>1, <1>2 DEF FileInv, ReadyInv, SendInv

\* However calls of any number of users for any number of files are ordered,
\* repeated and lost, a message that points at a file points at one that is
\* READY, its sender's, of the same meeting, and in S3 as it was declared
\* (completeUpload, sendMessage).
THEOREM AttachmentStays == FilesSpec => []AttachmentIsThere
BY FileInit, FileStep, FileInvIsEnough, PTL DEF FilesSpec

-----------------------------------------------------------------------------
(* What was sent is counted.                                               *)

SentByPage == {s \in SendIds : send[s].from = "page" /\ send[s].step # "free"}

SentInv == FileInv /\ cleared = Cardinality(SentByPage)

LEMMA SentIsFinite == IsFiniteSet(SentByPage)
<1>1. IsFiniteSet(SendIds)
  BY FileAssumption, FS_Interval DEF SendIds
<1> QED BY <1>1, FS_Subset DEF SentByPage

\* A message that goes on stays counted, or uncounted.
LEMMA SentStays ==
  ASSUME SentInv, UNCHANGED cleared, NEW s \in SendIds, NEW m \in SendRecord,
         send' = [send EXCEPT ![s] = m],
         m.from = "page" /\ m.step # "free" <=> s \in SentByPage
  PROVE  UNCHANGED SentByPage /\ cleared' = Cardinality(SentByPage')
<1>1. UNCHANGED SentByPage
  BY DEF SentInv, FileInv, FileTypeOK, SentByPage
<1> QED BY <1>1 DEF SentInv

LEMMA EmitCounts ==
  ASSUME SentInv, NEW file \in AnyFile, Emit(file), cleared' = cleared + 1
  PROVE  cleared' = Cardinality(SentByPage')
<1>1. PICK s \in SendIds :
        /\ Free(s)
        /\ send' = [send EXCEPT ![s] = [step |-> "sent", by |-> Viewer, from |-> "page", tag |-> place, file |-> file]]
  BY DEF Emit
<1>2. s \notin SentByPage
  BY <1>1 DEF Free, SentByPage
<1>3. SentByPage' = SentByPage \cup {s}
  BY <1>1 DEF SentInv, FileInv, FileTypeOK, SentByPage
<1> QED BY <1>2, <1>3, SentIsFinite, FS_AddElement DEF SentInv

LEMMA SendCounts ==
  ASSUME SentInv, NEW s \in SendIds, ApiSend(s) \/ CheckSend(s) \/ StoreMessage(s) \/ LoseSend(s)
  PROVE  cleared' = Cardinality(SentByPage')
<1>1. UNCHANGED cleared
  BY DEF ApiSend, CheckSend, StoreMessage, LoseSend, composerVars
<1>2. send[s] \in SendRecord
  BY DEF SentInv, FileInv, FileTypeOK
<1>3. CASE ApiSend(s)
  <2>1. PICK u \in FileUsers, t \in Tags, f \in FileIds :
          send' = [send EXCEPT ![s] = [step |-> "sent", by |-> u, from |-> "api", tag |-> t, file |-> f]]
    BY <1>3 DEF ApiSend
  <2>2. [step |-> "sent", by |-> u, from |-> "api", tag |-> t, file |-> f] \in SendRecord
    BY DEF SendRecord, AnyFile
  <2>3. s \notin SentByPage
    BY <1>3 DEF ApiSend, Free, SentByPage
  <2> QED BY <1>1, <2>1, <2>2, <2>3, SentStays
<1>4. CASE (CheckSend(s) /\ Fits(send[s])) \/ StoreMessage(s)
  <2>1. PICK step \in {"create", "stored"} :
          /\ send[s].step # "free"
          /\ send' = [send EXCEPT ![s] = [send[s] EXCEPT !.step = step]]
    BY <1>4 DEF CheckSend, StoreMessage
  <2>2. [send[s] EXCEPT !.step = step] \in SendRecord
    BY <1>2 DEF SendRecord
  <2>3. [send[s] EXCEPT !.step = step].from = send[s].from /\ [send[s] EXCEPT !.step = step].step # "free"
    BY <1>2 DEF SendRecord
  <2> QED BY <1>1, <2>1, <2>2, <2>3, SentStays DEF SentByPage
<1>5. CASE (CheckSend(s) /\ ~Fits(send[s])) \/ LoseSend(s)
  <2>1. send[s].step # "free" /\ send' = [send EXCEPT ![s] = Over(send[s])]
    BY <1>5 DEF CheckSend, LoseSend
  <2>2. Over(send[s]) \in SendRecord /\ Over(send[s]).step = "over" /\ Over(send[s]).from = send[s].from
    BY <1>2, OverFields
  <2> QED BY <1>1, <2>1, <2>2, SentStays DEF SentByPage
<1> QED BY <1>3, <1>4, <1>5

LEMMA SentStep ==
  ASSUME SentInv, [FilesNext]_filesVars
  PROVE  SentInv'
<1>1. FileInv'
  BY FileStep DEF SentInv
<1>2. cleared' = Cardinality(SentByPage')
  <2>1. CASE UNCHANGED <<send, cleared>>
    BY <2>1 DEF SentInv, SentByPage
  <2>2. ASSUME NEW s \in SendIds, ApiSend(s) \/ CheckSend(s) \/ StoreMessage(s) \/ LoseSend(s)
        PROVE  cleared' = Cardinality(SentByPage')
    BY <2>2, SendCounts
  <2>3. CASE SendText
    BY <2>3, EmitCounts DEF SendText, Compose, AnyFile
  <2>4. CASE FinishUpload /\ link = "connected"
    <3>1. call["page"].file \in AnyFile
      BY <2>4 DEF FinishUpload, SentInv, FileInv, CallInv, Callers, AnyFile
    <3> QED BY <2>4, <3>1, EmitCounts DEF FinishUpload, Compose
  <2>5. CASE FinishUpload /\ link # "connected"
    BY <2>1, <2>5 DEF FinishUpload, Compose
  <2>6. ASSUME NEW k \in Callers,
               \/ CheckUpload(k) \/ InsertFile(k) \/ PutObject(k)
               \/ FindFile(k) \/ HeadObject(k) \/ SaveReady(k) \/ FailCall(k)
        PROVE  UNCHANGED <<send, cleared>>
    BY <2>6 DEF CheckUpload, InsertFile, PutObject, FindFile, HeadObject, SaveReady, FailCall, composerVars
  <2>7. ASSUME \/ ApiCall \/ \E u \in FileUsers : LoseRight(u)
               \/ LinkUp \/ LinkDown \/ RenewLink \/ LeaveChat
        PROVE  UNCHANGED <<send, cleared>>
    BY <2>7 DEF ApiCall, LoseRight, LinkUp, LinkDown, RenewLink, LeaveChat, ChangeLink, composerVars
  <2>8. ASSUME \/ \E x \in Shapes : Choose(x)
               \/ Unpick \/ SendFile \/ PutFile \/ AskComplete \/ UploadFails
        PROVE  UNCHANGED <<send, cleared>>
    BY <2>8 DEF Choose, Unpick, SendFile, PutFile, AskComplete, UploadFails, Compose
  <2>9. CASE UNCHANGED filesVars
    BY <2>1, <2>9 DEF filesVars, composerVars
  <2> QED BY <2>1, <2>2, <2>3, <2>4, <2>5, <2>6, <2>7, <2>8, <2>9 DEF FilesNext, Submit
<1> QED BY <1>1, <1>2 DEF SentInv

LEMMA SentInit == ASSUME FilesInit PROVE SentInv
<1>1. SentByPage = {} /\ cleared = 0
  BY DEF FilesInit, SentByPage, NoSend
<1> QED BY <1>1, FileInit, FS_EmptySet DEF SentInv

LEMMA SentInvIsEnough == ASSUME SentInv PROVE AttachmentIsThere /\ ComposerSends
BY FileInvIsEnough DEF SentInv, SentByPage, ComposerSends

\* For any number of files and faults: the composer is emptied by sending as
\* often as a message has left on a connected socket (handleSendMessage, sendFile
\* in useRoomChat).
THEOREM ComposerCounts == FilesSpec => []ComposerSends
BY SentInit, SentStep, SentInvIsEnough, PTL DEF FilesSpec

(***************************************************************************)
(* Accounts: however the commands to Mongo fall.                           *)
(***************************************************************************)

AccountRecord ==
  [email : Emails \cup {NoEmail}, name : 0 .. MaxNames, google : Googles \cup {NoGoogle},
   password : Passwords \cup {NoPassword}, providers : SUBSET {"local", "google"}]

HandlerSteps ==
  {"idle", "email", "name", "insert", "google", "link", "check", "read", "set", "done", "failed"}

HandlerRecord ==
  [kind : {"none", "register", "login", "google", "password"}, step : HandlerSteps,
   email : Emails \cup {NoEmail}, name : 0 .. MaxNames, google : Googles \cup {NoGoogle},
   password : Passwords \cup {NoPassword}, current : Passwords \cup {NoPassword},
   user : 0 .. MaxAccounts]

Live(acc) == {u \in AccountIds : acc[u].email # NoEmail}

\* An identity is linked to the account of its own e-mail only, and the
\* providers say how one signs in.
AccountOK(d) ==
  /\ d.name \in Names
  /\ d.google # NoGoogle => d.email = EmailOf[d.google]
  /\ "local" \in d.providers <=> d.password # NoPassword
  /\ "google" \in d.providers <=> d.google # NoGoogle

\* The indexes hold.
AccountsOK(acc) ==
  /\ acc \in [AccountIds -> AccountRecord]
  /\ \A u \in Live(acc) : AccountOK(acc[u])
  /\ \A u, v \in Live(acc) :
       u # v => /\ acc[u].email # acc[v].email /\ acc[u].name # acc[v].name
                /\ acc[u].google # NoGoogle => acc[u].google # acc[v].google

\* An identity is that of the account of its e-mail, linked now or before.
Belongs(i, u, acc) ==
  \/ i = <<"email", acc[u].email>>
  \/ i = <<"name", acc[u].name>>
  \/ \E g \in Googles : i = <<"google", g>> /\ acc[u].email = EmailOf[g]

Found(h, acc) ==
  h.step = "done" => h.user \in Live(acc) /\ \A i \in Shown(h) : Belongs(i, h.user, acc)

RegisterOK(h, acc) ==
  /\ h.kind = "register" /\ h.step \in {"email", "name", "insert", "done", "failed"}
  /\ h.email \in Emails /\ h.name \in Names /\ h.google = NoGoogle /\ h.password \in Passwords
  /\ Found(h, acc)

LoginOK(h, acc) ==
  /\ h.kind = "login" /\ h.step \in {"check", "done", "failed"}
  /\ h.google = NoGoogle /\ (h.email = NoEmail) # (h.name = 0)
  /\ Found(h, acc)

GoogleOK(h, acc) ==
  /\ h.kind = "google" /\ h.step \in {"google", "email", "name", "insert", "link", "done", "failed"}
  /\ h.google \in Googles /\ h.email = EmailOf[h.google]
  /\ h.step \in {"name", "insert"} => h.name \in Names
  /\ h.step = "link" => h.user \in Live(acc) /\ acc[h.user].email = h.email
  /\ Found(h, acc)

PasswordOK(h, acc) ==
  /\ h.kind = "password" /\ h.step \in {"read", "set", "done", "failed"}
  /\ h.password \in Passwords /\ h.user \in Live(acc)

HandlerOK(h, acc) ==
  h.step = "idle" \/ RegisterOK(h, acc) \/ LoginOK(h, acc) \/ GoogleOK(h, acc) \/ PasswordOK(h, acc)

AnswerOK(a, acc) == a[2] \in Live(acc) /\ Belongs(a[1], a[2], acc)

AccountInv ==
  /\ AccountsOK(account)
  /\ handler \in [Tabs -> HandlerRecord]
  /\ \A k \in Tabs : HandlerOK(handler[k], account)
  /\ \A a \in answered : AnswerOK(a, account)

LEMMA AccountInit == ASSUME AccountsInit PROVE AccountInv
<1>1. account \in [AccountIds -> AccountRecord] /\ Live(account) = {}
  BY AccountsAssumption DEF AccountsInit, AccountRecord, NoAccount, Live, Names
<1>2. handler \in [Tabs -> HandlerRecord]
  BY AccountsAssumption DEF AccountsInit, HandlerRecord, HandlerSteps, NoHandler, Names
<1> QED BY <1>1, <1>2 DEF AccountsInit, AccountInv, AccountsOK, HandlerOK, NoHandler

-----------------------------------------------------------------------------
(* What stays true.                                                        *)

\* Accounts are added, and none loses its e-mail or its name.
Grows(acc, new) ==
  \A u \in Live(acc) : u \in Live(new) /\ new[u].email = acc[u].email /\ new[u].name = acc[u].name

LEMMA BelongsStays ==
  ASSUME NEW acc, NEW new, Grows(acc, new), NEW u \in Live(acc), NEW i, Belongs(i, u, acc)
  PROVE  u \in Live(new) /\ Belongs(i, u, new)
BY DEF Grows, Belongs

LEMMA HandlerStays ==
  ASSUME NEW acc, NEW new, Grows(acc, new), NEW h, HandlerOK(h, acc)
  PROVE  HandlerOK(h, new)
<1>1. Found(h, acc) => Found(h, new)
  <2>1. SUFFICES ASSUME Found(h, acc), h.step = "done"
                 PROVE  h.user \in Live(new) /\ \A i \in Shown(h) : Belongs(i, h.user, new)
    BY DEF Found
  <2>2. h.user \in Live(acc) /\ \A i \in Shown(h) : Belongs(i, h.user, acc)
    BY <2>1 DEF Found
  <2>3. h.user \in Live(new)
    BY <2>2 DEF Grows
  <2>4. ASSUME NEW i \in Shown(h) PROVE Belongs(i, h.user, new)
    BY <2>2, BelongsStays
  <2> QED BY <2>3, <2>4
<1>2. \A u \in Live(acc) : u \in Live(new) /\ new[u].email = acc[u].email
  BY DEF Grows
<1>3. RegisterOK(h, acc) => RegisterOK(h, new)
  BY <1>1 DEF RegisterOK
<1>4. LoginOK(h, acc) => LoginOK(h, new)
  BY <1>1 DEF LoginOK
<1>5. GoogleOK(h, acc) => GoogleOK(h, new)
  BY <1>1, <1>2 DEF GoogleOK
<1>6. PasswordOK(h, acc) => PasswordOK(h, new)
  BY <1>2 DEF PasswordOK
<1> QED BY <1>3, <1>4, <1>5, <1>6 DEF HandlerOK

\* One request goes on.
LEMMA RequestGoesOn ==
  ASSUME AccountInv, NEW k \in Tabs, NEW h \in HandlerRecord,
         AccountsOK(account'), Grows(account, account'),
         handler' = [handler EXCEPT ![k] = h], HandlerOK(h, account'),
         \A a \in answered' : a \in answered \/ AnswerOK(a, account)
  PROVE  AccountInv'
<1>1. \A j \in Tabs : j # k => handler'[j] = handler[j]
  BY DEF AccountInv
<1>2. handler'[k] = h /\ handler' \in [Tabs -> HandlerRecord]
  BY DEF AccountInv
<1>3. \A j \in Tabs : HandlerOK(handler'[j], account')
  BY <1>1, <1>2, HandlerStays DEF AccountInv
<1>4. \A a \in answered' : AnswerOK(a, account')
  BY BelongsStays DEF AccountInv, AnswerOK
<1> QED BY <1>2, <1>3, <1>4 DEF AccountInv

\* The accounts stay as they are.
LEMMA AccountsStay ==
  ASSUME AccountInv, UNCHANGED <<account, answered>>, NEW k \in Tabs, NEW h \in HandlerRecord,
         handler' = [handler EXCEPT ![k] = h], HandlerOK(h, account)
  PROVE  AccountInv'
<1>1. Grows(account, account') /\ AccountsOK(account')
  BY DEF Grows, AccountInv
<1> QED BY <1>1, RequestGoesOn

LEMMA StepNames ==
  /\ "email" \in HandlerSteps /\ "name" \in HandlerSteps /\ "insert" \in HandlerSteps
  /\ "link" \in HandlerSteps /\ "set" \in HandlerSteps /\ "done" \in HandlerSteps
  /\ "failed" \in HandlerSteps
BY DEF HandlerSteps

\* What another step makes of a request.
LEMMA StepFields ==
  ASSUME NEW x \in HandlerRecord, NEW s \in HandlerSteps
  PROVE  LET h == [x EXCEPT !.step = s]
         IN /\ h \in HandlerRecord /\ h.step = s /\ h.kind = x.kind /\ h.email = x.email /\ h.name = x.name
            /\ h.google = x.google /\ h.password = x.password /\ h.user = x.user
BY DEF HandlerRecord

AtUser(x, s, u) == [x EXCEPT !.step = s, !.user = u]

LEMMA UserFields ==
  ASSUME NEW x \in HandlerRecord, NEW s \in HandlerSteps, NEW u \in AccountIds
  PROVE  /\ AtUser(x, s, u) \in HandlerRecord
         /\ AtUser(x, s, u).step = s
         /\ AtUser(x, s, u).kind = x.kind
         /\ AtUser(x, s, u).email = x.email
         /\ AtUser(x, s, u).name = x.name
         /\ AtUser(x, s, u).google = x.google
         /\ AtUser(x, s, u).password = x.password
         /\ AtUser(x, s, u).user = u
<1>1. u \in 0 .. MaxAccounts
  BY AccountsAssumption DEF AccountIds
<1> QED BY <1>1 DEF HandlerRecord, AtUser

AtName(x, s, n) == [x EXCEPT !.step = s, !.name = n]

LEMMA NameFields ==
  ASSUME NEW x \in HandlerRecord, NEW s \in HandlerSteps, NEW n \in 0 .. MaxNames
  PROVE  /\ AtName(x, s, n) \in HandlerRecord
         /\ AtName(x, s, n).step = s
         /\ AtName(x, s, n).kind = x.kind
         /\ AtName(x, s, n).email = x.email
         /\ AtName(x, s, n).name = n
         /\ AtName(x, s, n).google = x.google
         /\ AtName(x, s, n).password = x.password
         /\ AtName(x, s, n).user = x.user
BY DEF HandlerRecord, AtName

\* The kind of a request tells what is known of it.
LEMMA KindOf ==
  ASSUME NEW h, NEW acc, HandlerOK(h, acc), h.step # "idle"
  PROVE  /\ h.kind = "register" => RegisterOK(h, acc)
         /\ h.kind = "login" => LoginOK(h, acc)
         /\ h.kind = "google" => GoogleOK(h, acc)
         /\ h.kind = "password" => PasswordOK(h, acc)
         /\ h.kind \in {"register", "login", "google", "password"}
BY DEF HandlerOK, RegisterOK, LoginOK, GoogleOK, PasswordOK

\* What a request shows.
LEMMA ShownOf ==
  ASSUME NEW h, NEW acc, NEW u
  PROVE  /\ RegisterOK(h, acc) /\ acc[u].email = h.email /\ acc[u].name = h.name =>
              \A i \in Shown(h) : Belongs(i, u, acc)
         /\ GoogleOK(h, acc) /\ acc[u].email = h.email =>
              \A i \in Shown(h) : Belongs(i, u, acc)
<1>1. ASSUME RegisterOK(h, acc), acc[u].email = h.email, acc[u].name = h.name, NEW i \in Shown(h)
      PROVE  Belongs(i, u, acc)
  <2>1. i = <<"email", h.email>> \/ i = <<"name", h.name>>
    BY <1>1 DEF Shown, RegisterOK
  <2> QED BY <1>1, <2>1 DEF Belongs
<1>2. ASSUME GoogleOK(h, acc), acc[u].email = h.email, NEW i \in Shown(h)
      PROVE  Belongs(i, u, acc)
  <2>1. i = <<"email", h.email>> \/ i = <<"google", h.google>>
    BY <1>2 DEF Shown, GoogleOK
  <2> QED BY <1>2, <2>1 DEF Belongs, GoogleOK
<1> QED BY <1>1, <1>2

-----------------------------------------------------------------------------
(* The requests.                                                           *)

\* None is of any kind yet.
LEMMA NoHandlerType == NoHandler \in HandlerRecord /\ 0 \in 0 .. MaxNames /\ 0 \in 0 .. MaxAccounts
<1>1. 0 \in 0 .. MaxNames /\ 0 \in 0 .. MaxAccounts
  BY AccountsAssumption
<1> QED BY <1>1 DEF NoHandler, HandlerRecord, HandlerSteps

LEMMA RegisterAsked ==
  ASSUME AccountInv, NEW k \in Tabs, AskRegister(k)
  PROVE  AccountInv'
<1>1. PICK e \in Emails, n \in Names, p \in Passwords :
        Request(k, {"register"}, [NoHandler EXCEPT !.kind = "register", !.step = "email",
                                  !.email = e, !.name = n, !.password = p])
  BY DEF AskRegister
<1> DEFINE h == [NoHandler EXCEPT !.kind = "register", !.step = "email",
                                  !.email = e, !.name = n, !.password = p]
<1>2. h \in HandlerRecord
  <2>1. n \in 0 .. MaxNames
    BY AccountsAssumption DEF Names
  <2> QED BY <2>1, NoHandlerType DEF HandlerRecord, HandlerSteps
<1>3. /\ h.kind = "register" /\ h.step = "email" /\ h.email = e /\ h.name = n /\ h.password = p
      /\ h.google = NoGoogle
  BY DEF NoHandler
<1> HIDE DEF h
<1>4. HandlerOK(h, account)
  BY <1>3 DEF HandlerOK, RegisterOK, Found
<1> QED BY <1>1, <1>2, <1>4, AccountsStay DEF Request, h

LEMMA LoginAsked ==
  ASSUME AccountInv, NEW k \in Tabs, AskLogin(k)
  PROVE  AccountInv'
<1>1. PICK p \in Passwords, e \in Emails \cup {NoEmail}, n \in 0 .. MaxNames :
        /\ (e = NoEmail) # (n = 0)
        /\ Request(k, {"login"}, [NoHandler EXCEPT !.kind = "login", !.step = "check",
                                  !.email = e, !.name = n, !.password = p])
  BY DEF AskLogin
<1> DEFINE h == [NoHandler EXCEPT !.kind = "login", !.step = "check",
                                  !.email = e, !.name = n, !.password = p]
<1>2. h \in HandlerRecord
  BY NoHandlerType DEF HandlerRecord, HandlerSteps
<1>3. /\ h.kind = "login" /\ h.step = "check" /\ h.email = e /\ h.name = n /\ h.google = NoGoogle
  BY DEF NoHandler
<1> HIDE DEF h
<1>4. HandlerOK(h, account)
  BY <1>1, <1>3 DEF HandlerOK, LoginOK, Found
<1> QED BY <1>1, <1>2, <1>4, AccountsStay DEF Request, h

LEMMA GoogleAsked ==
  ASSUME AccountInv, NEW k \in Tabs, AskGoogle(k)
  PROVE  AccountInv'
<1>1. PICK g \in Googles :
        Request(k, {"login", "register"}, [NoHandler EXCEPT !.kind = "google", !.step = "google",
                                           !.google = g, !.email = EmailOf[g]])
  BY DEF AskGoogle
<1> DEFINE h == [NoHandler EXCEPT !.kind = "google", !.step = "google",
                                  !.google = g, !.email = EmailOf[g]]
<1>2. h \in HandlerRecord
  <2>1. EmailOf[g] \in Emails
    BY AccountsAssumption
  <2> QED BY <2>1, NoHandlerType DEF HandlerRecord, HandlerSteps
<1>3. h.kind = "google" /\ h.step = "google" /\ h.google = g /\ h.email = EmailOf[g]
  BY DEF NoHandler
<1> HIDE DEF h
<1>4. HandlerOK(h, account)
  BY <1>3 DEF HandlerOK, GoogleOK, Found
<1> QED BY <1>1, <1>2, <1>4, AccountsStay DEF Request, h

LEMMA PasswordAsked ==
  ASSUME AccountInv, NEW k \in Tabs, AskPassword(k)
  PROVE  AccountInv'
<1>1. PICK u \in Existing, p \in Passwords, c \in Passwords \cup {NoPassword} :
        Request(k, {"settings"}, [NoHandler EXCEPT !.kind = "password", !.step = "read",
                                  !.user = u, !.password = p, !.current = c])
  BY DEF AskPassword
<1> DEFINE h == [NoHandler EXCEPT !.kind = "password", !.step = "read",
                                  !.user = u, !.password = p, !.current = c]
<1>2. u \in Live(account) /\ u \in 0 .. MaxAccounts
  BY AccountsAssumption DEF Existing, Live, AccountIds
<1>3. h \in HandlerRecord
  BY <1>2, NoHandlerType DEF HandlerRecord, HandlerSteps
<1>4. h.kind = "password" /\ h.step = "read" /\ h.user = u /\ h.password = p
  BY DEF NoHandler
<1> HIDE DEF h
<1>5. HandlerOK(h, account)
  BY <1>2, <1>4 DEF HandlerOK, PasswordOK
<1> QED BY <1>1, <1>3, <1>5, AccountsStay DEF Request, h

-----------------------------------------------------------------------------
(* The handlers.                                                           *)

\* A request fails.
LEMMA GoFailed ==
  ASSUME AccountInv, NEW k \in Tabs, handler[k].step # "idle", Go(k, "failed")
  PROVE  AccountInv'
<1> DEFINE x == handler[k]
           h == [x EXCEPT !.step = "failed"]
<1>1. x \in HandlerRecord /\ HandlerOK(x, account)
  BY DEF AccountInv
<1>2. /\ h \in HandlerRecord /\ h.step = "failed" /\ h.kind = x.kind /\ h.email = x.email /\ h.name = x.name
      /\ h.google = x.google /\ h.password = x.password /\ h.user = x.user
  BY <1>1, StepFields, StepNames
<1>3. handler' = [handler EXCEPT ![k] = h] /\ UNCHANGED <<account, answered>>
  BY DEF Go
<1> HIDE DEF h
<1>4. HandlerOK(h, account)
  BY <1>1, <1>2 DEF HandlerOK, RegisterOK, LoginOK, GoogleOK, PasswordOK, Found
<1> QED BY <1>2, <1>3, <1>4, AccountsStay

LEMMA FindByGoogleKeeps ==
  ASSUME AccountInv, NEW k \in Tabs, FindByGoogle(k)
  PROVE  AccountInv'
<1> DEFINE x == handler[k]
<1>1. x \in HandlerRecord /\ HandlerOK(x, account) /\ x.step = "google"
  BY DEF AccountInv, FindByGoogle, AtStep
<1>2. GoogleOK(x, account) /\ x.kind = "google"
  BY <1>1 DEF HandlerOK, RegisterOK, LoginOK, GoogleOK, PasswordOK
<1>3. CASE Go(k, "email")
  <2> DEFINE h == [x EXCEPT !.step = "email"]
  <2>1. /\ h \in HandlerRecord /\ h.step = "email" /\ h.kind = x.kind /\ h.email = x.email
        /\ h.google = x.google
    BY <1>1, StepFields, StepNames
  <2>2. handler' = [handler EXCEPT ![k] = h] /\ UNCHANGED <<account, answered>>
    BY <1>3 DEF Go
  <2> HIDE DEF h
  <2>3. HandlerOK(h, account)
    BY <1>2, <2>1 DEF HandlerOK, GoogleOK, Found
  <2> QED BY <2>1, <2>2, <2>3, AccountsStay
<1>4. ASSUME NEW u \in ByGoogle(x.google), GoWith(k, "done", u)
      PROVE  AccountInv'
  <2> DEFINE h == AtUser(x, "done", u)
  <2>1. u \in Live(account) /\ u \in AccountIds /\ account[u].google = x.google
    BY DEF ByGoogle, Existing, Live
  <2>2. account[u].email = x.email
    BY <1>2, <2>1, AccountsAssumption DEF GoogleOK, AccountInv, AccountsOK, AccountOK
  <2>3. /\ h \in HandlerRecord /\ h.step = "done" /\ h.kind = x.kind /\ h.email = x.email /\ h.name = x.name
        /\ h.google = x.google /\ h.user = u
    <3>1. x \in HandlerRecord /\ "done" \in HandlerSteps /\ u \in AccountIds
      BY <1>1, <2>1, StepNames
    <3> QED BY <3>1, UserFields
  <2>4. handler' = [handler EXCEPT ![k] = h] /\ UNCHANGED <<account, answered>>
    BY <1>1, <1>4 DEF GoWith, AccountInv, HandlerRecord, AtUser
  <2> HIDE DEF h
  <2>5. Shown(h) = Shown(x)
    BY <2>3 DEF Shown
  <2>6. \A i \in Shown(x) : Belongs(i, u, account)
    BY <1>2, <2>2, ShownOf
  <2>7. HandlerOK(h, account)
    BY <1>2, <2>1, <2>3, <2>5, <2>6 DEF HandlerOK, GoogleOK, Found
  <2> QED BY <2>3, <2>4, <2>7, AccountsStay
<1> QED BY <1>3, <1>4 DEF FindByGoogle

LEMMA FindByEmailKeeps ==
  ASSUME AccountInv, NEW k \in Tabs, FindByEmail(k)
  PROVE  AccountInv'
<1> DEFINE x == handler[k]
<1>1. x \in HandlerRecord /\ HandlerOK(x, account) /\ x.step = "email"
  BY DEF AccountInv, FindByEmail, AtStep
<1>2. RegisterOK(x, account) \/ GoogleOK(x, account)
  BY <1>1 DEF HandlerOK, LoginOK, PasswordOK
<1>3. CASE ByEmail(x.email) = {}
  <2> DEFINE n == IF x.kind = "google" THEN BaseOf[x.google] ELSE x.name
             h == AtName(x, "name", n)
  <2>1. n \in Names /\ n \in 0 .. MaxNames
    BY <1>2, AccountsAssumption DEF RegisterOK, GoogleOK, Names
  <2>2. handler' = [handler EXCEPT ![k] = h] /\ UNCHANGED <<account, answered>>
    BY <1>1, <1>3 DEF FindByEmail, AccountInv, HandlerRecord, AtName
  <2>3. (x.kind = "register" => n = x.name)
    OBVIOUS
  <2> HIDE DEF n
  <2>4. /\ h \in HandlerRecord /\ h.step = "name" /\ h.kind = x.kind /\ h.email = x.email /\ h.name = n
        /\ h.google = x.google /\ h.password = x.password
    <3>1. x \in HandlerRecord /\ "name" \in HandlerSteps /\ n \in 0 .. MaxNames
      BY <1>1, <2>1, StepNames
    <3> QED BY <3>1, NameFields
  <2> HIDE DEF h
  <2>5. RegisterOK(x, account) => x.kind = "register"
    BY DEF RegisterOK
  <2>6. HandlerOK(h, account)
    <3>1. CASE GoogleOK(x, account)
      BY <2>1, <2>4, <3>1 DEF HandlerOK, GoogleOK, Found
    <3>2. CASE RegisterOK(x, account)
      <4>1. h.step = "name" /\ h.name \in Names
        BY <2>1, <2>4
      <4>2. Found(h, account)
        BY <4>1 DEF Found
      <4>3. RegisterOK(h, account) \/ h.step = "idle"
        <5>1. x.kind = "register" /\ x.email \in Emails /\ x.google = NoGoogle /\ x.password \in Passwords
          BY <3>2 DEF RegisterOK
        <5> QED BY <2>4, <4>1, <4>2, <5>1 DEF RegisterOK
      <4> QED BY <4>3 DEF HandlerOK
    <3> QED BY <1>2, <3>1, <3>2
  <2> QED BY <2>2, <2>4, <2>6, AccountsStay
<1>4. CASE Go(k, "failed")
  BY <1>1, <1>4, GoFailed
<1>5. ASSUME NEW u \in ByEmail(x.email), x.kind # "register", GoWith(k, "link", u)
      PROVE  AccountInv'
  <2> DEFINE h == AtUser(x, "link", u)
  <2>1. u \in Live(account) /\ u \in AccountIds /\ account[u].email = x.email
    BY DEF ByEmail, Existing, Live
  <2>2. GoogleOK(x, account)
    BY <1>2, <1>5 DEF RegisterOK
  <2>3. /\ h \in HandlerRecord /\ h.step = "link" /\ h.kind = x.kind /\ h.email = x.email
        /\ h.google = x.google /\ h.user = u
    <3>1. x \in HandlerRecord /\ "link" \in HandlerSteps /\ u \in AccountIds
      BY <1>1, <2>1, StepNames
    <3> QED BY <3>1, UserFields
  <2>4. handler' = [handler EXCEPT ![k] = h] /\ UNCHANGED <<account, answered>>
    BY <1>1, <1>5 DEF GoWith, AccountInv, HandlerRecord, AtUser
  <2> HIDE DEF h
  <2>5. HandlerOK(h, account)
    BY <2>1, <2>2, <2>3 DEF HandlerOK, GoogleOK, Found
  <2> QED BY <2>3, <2>4, <2>5, AccountsStay
<1> QED BY <1>3, <1>4, <1>5 DEF FindByEmail

LEMMA FindByNameKeeps ==
  ASSUME AccountInv, NEW k \in Tabs, FindByName(k)
  PROVE  AccountInv'
<1> DEFINE x == handler[k]
<1>1. x \in HandlerRecord /\ HandlerOK(x, account) /\ x.step = "name"
  BY DEF AccountInv, FindByName, AtStep
<1>2. RegisterOK(x, account) \/ GoogleOK(x, account)
  BY <1>1 DEF HandlerOK, LoginOK, PasswordOK
<1>3. CASE Go(k, "insert")
  <2> DEFINE h == [x EXCEPT !.step = "insert"]
  <2>1. /\ h \in HandlerRecord /\ h.step = "insert" /\ h.kind = x.kind /\ h.email = x.email /\ h.name = x.name
        /\ h.google = x.google /\ h.password = x.password
    BY <1>1, StepFields, StepNames
  <2>2. handler' = [handler EXCEPT ![k] = h] /\ UNCHANGED <<account, answered>>
    BY <1>3 DEF Go
  <2> HIDE DEF h
  <2>3. HandlerOK(h, account)
    BY <1>1, <1>2, <2>1 DEF HandlerOK, RegisterOK, GoogleOK, Found
  <2> QED BY <2>1, <2>2, <2>3, AccountsStay
<1>4. CASE Go(k, "failed")
  BY <1>1, <1>4, GoFailed
<1>5. CASE /\ x.kind # "register" /\ x.name < MaxNames
           /\ handler' = [handler EXCEPT ![k].name = @ + 1] /\ UNCHANGED <<account, answered>>
  <2> DEFINE h == AtName(x, "name", x.name + 1)
  <2>1. GoogleOK(x, account)
    BY <1>2, <1>5 DEF RegisterOK
  <2>2. x.name + 1 \in Names /\ x.name + 1 \in 0 .. MaxNames
    BY <1>1, <1>5, <2>1, AccountsAssumption DEF GoogleOK, Names
  <2>3. /\ h \in HandlerRecord /\ h.step = "name" /\ h.kind = x.kind /\ h.email = x.email
        /\ h.name = x.name + 1 /\ h.google = x.google
    <3>1. x \in HandlerRecord /\ "name" \in HandlerSteps /\ x.name + 1 \in 0 .. MaxNames
      BY <1>1, <2>2, StepNames
    <3> QED BY <3>1, NameFields
  <2>4. handler' = [handler EXCEPT ![k] = h]
    BY <1>1, <1>5 DEF AccountInv, HandlerRecord, AtName
  <2> HIDE DEF h
  <2>5. HandlerOK(h, account)
    BY <2>1, <2>2, <2>3 DEF HandlerOK, GoogleOK, Found
  <2> QED BY <1>5, <2>3, <2>4, <2>5, AccountsStay
<1> QED BY <1>3, <1>4, <1>5 DEF FindByName

\* A document that the indexes let in is like no other.
LEMMA RowInsertKeeps ==
  ASSUME AccountInv, NEW k \in Tabs, InsertUser(k)
  PROVE  AccountInv'
<1> DEFINE x == handler[k]
<1>1. x \in HandlerRecord /\ HandlerOK(x, account) /\ x.step = "insert"
  BY DEF AccountInv, InsertUser, AtStep
<1>2. RegisterOK(x, account) \/ GoogleOK(x, account)
  BY <1>1 DEF HandlerOK, LoginOK, PasswordOK
<1>3. CASE Go(k, "failed")
  BY <1>1, <1>3, GoFailed
<1>4. CASE /\ ByEmail(x.email) = {} /\ ByName(x.name) = {}
           /\ x.google = NoGoogle \/ ByGoogle(x.google) = {}
           /\ Insert(k)
  <2> DEFINE d == Document(x)
  <2>1. /\ d.email = x.email /\ d.name = x.name /\ d.google = x.google /\ d \in AccountRecord
        /\ "local" \in d.providers <=> d.password # NoPassword
        /\ "google" \in d.providers <=> d.google # NoGoogle
        /\ d.email \in Emails /\ d.name \in Names
        /\ d.google # NoGoogle => d.email = EmailOf[d.google]
    <3>1. CASE RegisterOK(x, account)
      BY <1>1, <3>1, AccountsAssumption DEF RegisterOK, Document, AccountRecord, HandlerRecord
    <3>2. CASE GoogleOK(x, account)
      BY <1>1, <3>2, AccountsAssumption DEF GoogleOK, Document, AccountRecord, HandlerRecord
    <3> QED BY <1>2, <3>1, <3>2
  <2>2. PICK u \in AccountIds \ Existing :
          /\ account' = [account EXCEPT ![u] = d]
          /\ handler' = [handler EXCEPT ![k].step = "done", ![k].user = u]
          /\ UNCHANGED answered
    BY <1>4 DEF Insert
  <2> HIDE DEF d
  <2>3. /\ account' \in [AccountIds -> AccountRecord] /\ account'[u] = d
        /\ \A v \in AccountIds : v # u => account'[v] = account[v]
    BY <2>1, <2>2 DEF AccountInv, AccountsOK
  <2>4. u \notin Live(account) /\ u \in Live(account') /\ Live(account') \subseteq Live(account) \cup {u}
    <3>1. d.email # NoEmail
      BY <2>1, AccountsAssumption
    <3> QED BY <2>2, <2>3, <3>1 DEF Existing, Live
  <2>5. Grows(account, account')
    BY <2>3, <2>4 DEF Grows, Live
  <2>6. AccountsOK(account')
    <3>1. \A v \in Live(account) :
            /\ v \in AccountIds /\ v # u /\ account'[v] = account[v]
            /\ account[v].email # d.email /\ account[v].name # d.name
            /\ d.google # NoGoogle => account[v].google # d.google
      BY <1>4, <2>1, <2>3, <2>4 DEF ByEmail, ByName, ByGoogle, Existing, Live
    <3>2. \A v \in Live(account') : AccountOK(account'[v])
      <4>1. AccountOK(d)
        BY <2>1 DEF AccountOK
      <4> QED BY <2>3, <2>4, <3>1, <4>1 DEF AccountInv, AccountsOK
    <3>3. \A v, w \in Live(account') :
            v # w => /\ account'[v].email # account'[w].email /\ account'[v].name # account'[w].name
                     /\ account'[v].google # NoGoogle => account'[v].google # account'[w].google
      BY <2>3, <2>4, <3>1 DEF AccountInv, AccountsOK
    <3> QED BY <2>3, <3>2, <3>3 DEF AccountsOK
  <2> DEFINE h == AtUser(x, "done", u)
  <2>7. /\ h \in HandlerRecord /\ h.step = "done" /\ h.kind = x.kind /\ h.email = x.email /\ h.name = x.name
        /\ h.google = x.google /\ h.password = x.password /\ h.user = u
    <3>1. x \in HandlerRecord /\ "done" \in HandlerSteps /\ u \in AccountIds
      BY <1>1, <2>2, StepNames
    <3> QED BY <3>1, UserFields
  <2>8. handler' = [handler EXCEPT ![k] = h]
    BY <1>1, <2>2 DEF AccountInv, HandlerRecord, AtUser
  <2> HIDE DEF h
  <2>9. Shown(h) = Shown(x)
    BY <2>7 DEF Shown
  <2>10. HandlerOK(x, account')
    BY <1>1, <2>5, HandlerStays
  <2>11. RegisterOK(x, account') \/ GoogleOK(x, account')
    BY <1>1, <1>2, <2>10 DEF HandlerOK, RegisterOK, GoogleOK, LoginOK, PasswordOK
  <2>12. \A i \in Shown(h) : Belongs(i, u, account')
    <3>1. account'[u].email = x.email /\ account'[u].name = x.name
      BY <2>1, <2>3
    <3> QED BY <2>9, <2>11, <3>1, ShownOf
  <2>13. HandlerOK(h, account')
    <3>1. Found(h, account')
      BY <2>4, <2>7, <2>12 DEF Found
    <3>2. CASE RegisterOK(x, account')
      BY <2>7, <3>1, <3>2 DEF RegisterOK, HandlerOK
    <3>3. CASE GoogleOK(x, account')
      BY <2>7, <3>1, <3>3 DEF GoogleOK, HandlerOK
    <3> QED BY <2>11, <3>2, <3>3
  <2> QED BY <2>2, <2>5, <2>6, <2>7, <2>8, <2>13, RequestGoesOn
<1> QED BY <1>3, <1>4 DEF InsertUser

\* An identity is linked to the account of its e-mail.
LEMMA LinkKeeps ==
  ASSUME AccountInv, NEW k \in Tabs, LinkGoogle(k)
  PROVE  AccountInv'
<1> DEFINE x == handler[k]
           u == x.user
           g == x.google
<1>1. x \in HandlerRecord /\ HandlerOK(x, account) /\ x.step = "link"
  BY DEF AccountInv, LinkGoogle, AtStep
<1>2. /\ GoogleOK(x, account) /\ g \in Googles /\ g # NoGoogle /\ u \in Live(account)
      /\ account[u].email = EmailOf[g] /\ account[u].email = x.email
  BY <1>1, AccountsAssumption DEF HandlerOK, RegisterOK, LoginOK, GoogleOK, PasswordOK
<1>3. CASE Go(k, "failed")
  BY <1>1, <1>3, GoFailed
<1>4. CASE /\ ByGoogle(g) \subseteq {u}
           /\ account' = [account EXCEPT ![u].google = g, ![u].providers = @ \cup {"google"}]
           /\ handler' = [handler EXCEPT ![k].step = "done"]
           /\ UNCHANGED answered
  <2> HIDE DEF u, g
  <2>1. u \in AccountIds /\ account[u] \in AccountRecord
    BY <1>2 DEF Live, AccountInv, AccountsOK
  <2>2. /\ account' \in [AccountIds -> AccountRecord]
        /\ account'[u].google = g /\ account'[u].providers = account[u].providers \cup {"google"}
        /\ account'[u].email = account[u].email /\ account'[u].name = account[u].name
        /\ account'[u].password = account[u].password
        /\ \A v \in AccountIds : v # u => account'[v] = account[v]
    BY <1>2, <1>4, <2>1 DEF AccountInv, AccountsOK, AccountRecord
  <2>3. Live(account') = Live(account) /\ Grows(account, account')
    BY <2>2 DEF Live, Grows
  <2>4. \A v \in Live(account) : v # u => account[v].google # g
    BY <1>4 DEF ByGoogle, Existing, Live
  <2>5. AccountsOK(account')
    <3>1. \A v \in Live(account') : v # u => account'[v] = account[v]
      BY <2>2 DEF Live
    <3>2. \A v \in Live(account') : AccountOK(account'[v])
      <4>1. AccountOK(account'[u])
        <5>1. AccountOK(account[u])
          BY <1>2 DEF AccountInv, AccountsOK, u
        <5> QED BY <1>2, <2>2, <5>1 DEF AccountOK
      <4> QED BY <2>3, <3>1, <4>1 DEF AccountInv, AccountsOK
    <3>3. \A v, w \in Live(account') :
            v # w => /\ account'[v].email # account'[w].email /\ account'[v].name # account'[w].name
                     /\ account'[v].google # NoGoogle => account'[v].google # account'[w].google
      BY <1>2, <2>2, <2>3, <2>4, <3>1 DEF AccountInv, AccountsOK
    <3> QED BY <2>2, <3>2, <3>3 DEF AccountsOK
  <2> DEFINE h == [x EXCEPT !.step = "done"]
  <2>6. /\ h \in HandlerRecord /\ h.step = "done" /\ h.kind = x.kind /\ h.email = x.email /\ h.name = x.name
        /\ h.google = x.google /\ h.user = x.user
    BY <1>1, StepFields, StepNames
  <2>7. handler' = [handler EXCEPT ![k] = h]
    BY <1>4
  <2> HIDE DEF h
  <2>8. Shown(h) = Shown(x)
    BY <2>6 DEF Shown
  <2>9. HandlerOK(x, account')
    BY <1>1, <2>3, HandlerStays
  <2>10. GoogleOK(x, account')
    BY <1>1, <1>2, <2>9 DEF HandlerOK, RegisterOK, GoogleOK, LoginOK, PasswordOK
  <2>11. \A i \in Shown(h) : Belongs(i, u, account')
    <3>1. account'[u].email = x.email
      BY <1>2, <2>2
    <3> QED BY <2>8, <2>10, <3>1, ShownOf
  <2>12. HandlerOK(h, account')
    <3>1. Found(h, account')
      BY <1>2, <2>3, <2>6, <2>11 DEF Found, u
    <3> QED BY <2>6, <2>10, <3>1 DEF GoogleOK, HandlerOK
  <2> QED BY <1>4, <2>3, <2>5, <2>6, <2>7, <2>12, RequestGoesOn
<1> QED BY <1>3, <1>4 DEF LinkGoogle

\* Who is found has the e-mail or the name.
LEMMA CheckKeeps ==
  ASSUME AccountInv, NEW k \in Tabs, CheckPassword(k)
  PROVE  AccountInv'
<1> DEFINE x == handler[k]
<1>1. x \in HandlerRecord /\ HandlerOK(x, account) /\ x.step = "check"
  BY DEF AccountInv, CheckPassword, AtStep
<1>2. LoginOK(x, account)
  BY <1>1 DEF HandlerOK, RegisterOK, GoogleOK, PasswordOK
<1>3. CASE Go(k, "failed")
  BY <1>1, <1>3, GoFailed
<1>4. ASSUME NEW u \in Existing, account[u].email = x.email \/ account[u].name = x.name,
             GoWith(k, "done", u)
      PROVE  AccountInv'
  <2> DEFINE h == AtUser(x, "done", u)
  <2>1. u \in Live(account) /\ u \in AccountIds /\ account[u].email # NoEmail /\ account[u].name # 0
    BY AccountsAssumption DEF Existing, Live, AccountInv, AccountsOK, AccountOK, Names
  <2>2. /\ h \in HandlerRecord /\ h.step = "done" /\ h.kind = x.kind /\ h.email = x.email /\ h.name = x.name
        /\ h.google = x.google /\ h.user = u
    <3>1. x \in HandlerRecord /\ "done" \in HandlerSteps /\ u \in AccountIds
      BY <1>1, <2>1, StepNames
    <3> QED BY <3>1, UserFields
  <2>3. handler' = [handler EXCEPT ![k] = h] /\ UNCHANGED <<account, answered>>
    BY <1>1, <1>4 DEF GoWith, AccountInv, HandlerRecord, AtUser
  <2> HIDE DEF h
  <2>4. ASSUME NEW i \in Shown(h) PROVE Belongs(i, u, account)
    <3>1. \/ i = <<"email", x.email>> /\ x.email # NoEmail
          \/ i = <<"name", x.name>> /\ x.name # 0
      BY <1>2, <2>2, <2>4 DEF Shown, LoginOK
    <3>2. i = <<"email", account[u].email>> \/ i = <<"name", account[u].name>>
      BY <1>2, <1>4, <2>1, <3>1 DEF LoginOK
    <3> QED BY <3>2 DEF Belongs
  <2>5. HandlerOK(h, account)
    <3>1. Found(h, account)
      BY <2>1, <2>2, <2>4 DEF Found
    <3> QED BY <1>2, <2>2, <3>1 DEF LoginOK, HandlerOK
  <2> QED BY <2>2, <2>3, <2>5, AccountsStay
<1> QED BY <1>3, <1>4 DEF CheckPassword

LEMMA ReadKeeps ==
  ASSUME AccountInv, NEW k \in Tabs, ReadPassword(k)
  PROVE  AccountInv'
<1> DEFINE x == handler[k]
<1>1. x \in HandlerRecord /\ HandlerOK(x, account) /\ x.step = "read"
  BY DEF AccountInv, ReadPassword, AtStep
<1>2. PasswordOK(x, account)
  BY <1>1 DEF HandlerOK, RegisterOK, GoogleOK, LoginOK
<1>3. CASE Go(k, "failed")
  BY <1>1, <1>3, GoFailed
<1>4. CASE Go(k, "set")
  <2> DEFINE h == [x EXCEPT !.step = "set"]
  <2>1. /\ h \in HandlerRecord /\ h.step = "set" /\ h.kind = x.kind /\ h.password = x.password
        /\ h.user = x.user
    BY <1>1, StepFields, StepNames
  <2>2. handler' = [handler EXCEPT ![k] = h] /\ UNCHANGED <<account, answered>>
    BY <1>4 DEF Go
  <2> HIDE DEF h
  <2>3. HandlerOK(h, account)
    BY <1>2, <2>1 DEF HandlerOK, PasswordOK
  <2> QED BY <2>1, <2>2, <2>3, AccountsStay
<1> QED BY <1>3, <1>4 DEF ReadPassword

LEMMA SetKeeps ==
  ASSUME AccountInv, NEW k \in Tabs, SetPassword(k)
  PROVE  AccountInv'
<1> DEFINE x == handler[k]
           u == x.user
<1>1. x \in HandlerRecord /\ HandlerOK(x, account) /\ x.step = "set"
  BY DEF AccountInv, SetPassword, AtStep
<1>2. /\ PasswordOK(x, account) /\ x.password \in Passwords /\ x.password # NoPassword
      /\ u \in Live(account)
  BY <1>1, AccountsAssumption DEF HandlerOK, RegisterOK, GoogleOK, LoginOK, PasswordOK
<1>3. /\ account' = [account EXCEPT ![u].password = x.password, ![u].providers = @ \cup {"local"}]
      /\ handler' = [handler EXCEPT ![k].step = "done"] /\ UNCHANGED answered
  BY DEF SetPassword
<1> HIDE DEF u
<1>4. u \in AccountIds /\ account[u] \in AccountRecord /\ AccountOK(account[u])
  BY <1>2 DEF Live, AccountInv, AccountsOK
<1>5. /\ account' \in [AccountIds -> AccountRecord]
      /\ account'[u].password = x.password /\ account'[u].providers = account[u].providers \cup {"local"}
      /\ account'[u].email = account[u].email /\ account'[u].name = account[u].name
      /\ account'[u].google = account[u].google
      /\ \A v \in AccountIds : v # u => account'[v] = account[v]
  BY <1>2, <1>3, <1>4 DEF AccountInv, AccountsOK, AccountRecord
<1>6. Live(account') = Live(account) /\ Grows(account, account')
  BY <1>5 DEF Live, Grows
<1>7. AccountsOK(account')
  <2>1. AccountOK(account'[u])
    BY <1>2, <1>4, <1>5 DEF AccountOK
  <2>2. \A v \in Live(account') : v # u => account'[v] = account[v]
    BY <1>5 DEF Live
  <2>3. \A v \in Live(account') : AccountOK(account'[v])
    BY <1>6, <2>1, <2>2 DEF AccountInv, AccountsOK
  <2>4. \A v, w \in Live(account') :
          v # w => /\ account'[v].email # account'[w].email /\ account'[v].name # account'[w].name
                   /\ account'[v].google # NoGoogle => account'[v].google # account'[w].google
    BY <1>2, <1>5, <1>6, <2>2 DEF AccountInv, AccountsOK
  <2> QED BY <1>5, <2>3, <2>4 DEF AccountsOK
<1> DEFINE h == [x EXCEPT !.step = "done"]
<1>8. /\ h \in HandlerRecord /\ h.step = "done" /\ h.kind = x.kind /\ h.password = x.password
      /\ h.user = x.user
  BY <1>1, StepFields, StepNames
<1>9. handler' = [handler EXCEPT ![k] = h]
  BY <1>3
<1> HIDE DEF h
<1>10. HandlerOK(h, account')
  BY <1>2, <1>6, <1>8 DEF HandlerOK, PasswordOK, u
<1> QED BY <1>3, <1>6, <1>7, <1>8, <1>9, <1>10, RequestGoesOn

\* Who is signed in is told what was shown.
LEMMA AnswerKeeps ==
  ASSUME AccountInv, NEW k \in Tabs, AnswerSignIn(k) \/ AnswerPassword(k) \/ AnswerFailed(k)
  PROVE  AccountInv'
<1> DEFINE x == handler[k]
<1>1. NoHandler \in HandlerRecord /\ HandlerOK(NoHandler, account)
  BY NoHandlerType DEF HandlerOK, NoHandler
<1>2. handler' = [handler EXCEPT ![k] = NoHandler] /\ UNCHANGED account
  BY DEF AnswerSignIn, AnswerPassword, AnswerFailed
<1>3. Grows(account, account') /\ AccountsOK(account') /\ HandlerOK(NoHandler, account')
  BY <1>1, <1>2 DEF Grows, AccountInv
<1>4. CASE UNCHANGED answered
  BY <1>1, <1>2, <1>4, AccountsStay
<1>5. CASE AnswerSignIn(k)
  <2>1. HandlerOK(x, account) /\ x.step = "done" /\ x.kind # "password"
    BY <1>5 DEF AccountInv, AnswerSignIn, AtStep
  <2>2. Found(x, account)
    BY <2>1 DEF HandlerOK, RegisterOK, LoginOK, GoogleOK, PasswordOK
  <2>3. answered' = answered \cup {<<i, x.user>> : i \in Shown(x)}
    BY <1>5 DEF AnswerSignIn
  <2> HIDE DEF x
  <2>4. ASSUME NEW a \in answered' PROVE a \in answered \/ AnswerOK(a, account)
    <3>1. CASE a \in answered
      BY <3>1
    <3>2. ASSUME NEW i \in Shown(x), a = <<i, x.user>> PROVE AnswerOK(a, account)
      BY <2>1, <2>2, <3>2 DEF Found, AnswerOK
    <3> QED BY <2>3, <2>4, <3>1, <3>2
  <2> QED BY <1>1, <1>2, <1>3, <2>4, RequestGoesOn
<1> QED BY <1>4, <1>5 DEF AnswerPassword, AnswerFailed

LEMMA AccountStep ==
  ASSUME AccountInv, [AccountsNext]_acVars
  PROVE  AccountInv'
<1>1. ASSUME NEW k \in Tabs, AskRegister(k) \/ AskLogin(k) \/ AskGoogle(k) \/ AskPassword(k)
      PROVE  AccountInv'
  BY <1>1, RegisterAsked, LoginAsked, GoogleAsked, PasswordAsked
<1>2. ASSUME NEW k \in Tabs, FindByGoogle(k) \/ FindByEmail(k) \/ FindByName(k)
      PROVE  AccountInv'
  BY <1>2, FindByGoogleKeeps, FindByEmailKeeps, FindByNameKeeps
<1>3. ASSUME NEW k \in Tabs,
             InsertUser(k) \/ LinkGoogle(k) \/ CheckPassword(k) \/ ReadPassword(k) \/ SetPassword(k)
      PROVE  AccountInv'
  BY <1>3, RowInsertKeeps, LinkKeeps, CheckKeeps, ReadKeeps, SetKeeps
<1>4. ASSUME NEW k \in Tabs, AnswerSignIn(k) \/ AnswerPassword(k) \/ AnswerFailed(k)
      PROVE  AccountInv'
  BY <1>4, AnswerKeeps
<1>5. CASE OpenSettings \/ TokenOfPage \/ UNCHANGED acVars
  <2>1. UNCHANGED <<account, handler, answered>>
    BY <1>5 DEF OpenSettings, TokenOfPage, acVars, accountsVars
  <2> QED BY <2>1 DEF AccountInv
<1> QED BY <1>1, <1>2, <1>3, <1>4, <1>5 DEF AccountsNext

LEMMA AccountInvIsEnough == ASSUME AccountInv PROVE OneAccount
<1>1. SameAccount
  <2>1. SUFFICES ASSUME NEW a \in answered, NEW b \in answered, a[1] = b[1]
                 PROVE  a[2] = b[2]
    BY DEF SameAccount
  <2>2. /\ a[2] \in Live(account) /\ b[2] \in Live(account)
        /\ Belongs(a[1], a[2], account) /\ Belongs(a[1], b[2], account)
    BY <2>1 DEF AccountInv, AnswerOK
  <2>3. \/ account[a[2]].email = account[b[2]].email
        \/ account[a[2]].name = account[b[2]].name
    BY <2>2 DEF Belongs
  <2> QED BY <2>1, <2>2, <2>3 DEF AccountInv, AccountsOK
<1>2. ProvidersTold
  BY DEF AccountInv, AccountsOK, AccountOK, ProvidersTold, Existing, Live
<1> QED BY <1>1, <1>2 DEF OneAccount

\* For any number of accounts, requests, e-mails, names and identities: whatever
\* a person shows leads to the same account each time, and the providers of an
\* account say how one signs in to it (register, validateLocalUser,
\* validateGoogleUser, setPassword, linkGoogleAccount).
THEOREM OneAccountStays == AccountsSpec => []OneAccount
BY AccountInit, AccountStep, AccountInvIsEnough, PTL DEF AccountsSpec

(***************************************************************************)
(* The page of a meeting.                                                  *)
(***************************************************************************)

\* A page that is drawn has a token, or does not know yet; with a token and an
\* id, its latest join is on its way or has left a trace.
JoinInv ==
  /\ request \in [Runs -> {"none", "asked", "token", "refused", "over"}]
  /\ token \in Nat /\ given \in Nat
  /\ Here /\ ~authLoading => token # 0
  /\ Here /\ validId /\ token # 0 =>
       /\ current \in Runs
       /\ request[current] \in {"asked", "token", "refused", "over"}
       /\ request[current] = "over" => join # 0 \/ joinError

LEMMA JoinInit == ASSUME MeetingPageInit PROVE JoinInv
BY DEF MeetingPageInit, AuthInit, JoinInv, Here, Runs

\* Running the effect again leaves a join on its way.
LEMMA JoinAgainAsks ==
  ASSUME request \in [Runs -> {"none", "asked", "token", "refused", "over"}],
         NEW t, JoinAgain(t)
  PROVE  /\ request' \in [Runs -> {"none", "asked", "token", "refused", "over"}]
         /\ t # 0 /\ validId => current' \in Runs /\ request'[current'] = "asked"
<1>1. CASE t = 0 \/ ~validId
  BY <1>1 DEF JoinAgain
<1>2. CASE t # 0 /\ validId
  <2>1. PICK r \in Runs : /\ request' = [request EXCEPT ![r] = "asked"]
                          /\ current' = r
    BY <1>2 DEF JoinAgain
  <2> QED BY <2>1
<1> QED BY <1>1, <1>2

LEMMA TokenKeepsJoin ==
  ASSUME JoinInv, TokenChanges
  PROVE  JoinInv'
<1> USE DEF JoinInv, Here
<1>1. token' \in Nat /\ given' \in Nat
  BY DEF TokenChanges, AskRefresh, ApplySession, Answered, SignOut
<1>2. validId' = validId /\ join' = join /\ joinError' = joinError
  BY DEF TokenChanges
<1>3. where' = "here" /\ ~authLoading' => token' # 0
  BY DEF TokenChanges, Follow
<1>4. CASE token' # token
  <2>1. JoinAgain(token')
    BY <1>4 DEF TokenChanges
  <2> QED BY <1>1, <1>2, <1>3, <2>1, JoinAgainAsks
<1>5. CASE token' = token
  <2>1. request' = request /\ current' = current /\ Here
    BY <1>5 DEF TokenChanges
  <2> QED BY <1>1, <1>2, <1>3, <1>5, <2>1
<1> QED BY <1>4, <1>5

LEMMA AnswerKeepsJoin ==
  ASSUME JoinInv, NEW r \in Runs, AnswerJoin(r) \/ JoinAnswered(r)
  PROVE  JoinInv'
<1> USE DEF JoinInv, Here, authVars
<1>1. CASE AnswerJoin(r)
  BY <1>1 DEF AnswerJoin
<1>2. CASE JoinAnswered(r) /\ r # current
  BY <1>2 DEF JoinAnswered
<1>3. CASE JoinAnswered(r) /\ r = current
  <2>1. join' = r \/ joinError'
    BY <1>3 DEF JoinAnswered
  <2>2. r # 0
    BY DEF Runs
  <2> QED BY <1>3, <2>1, <2>2 DEF JoinAnswered
<1> QED BY <1>1, <1>2, <1>3

LEMMA RetryKeepsJoin ==
  ASSUME JoinInv, Retry
  PROVE  JoinInv'
<1>1. JoinAgain(token) /\ UNCHANGED <<token, authLoading, given, where, validId>>
  BY DEF Retry, authVars
<1> QED BY <1>1, JoinAgainAsks DEF JoinInv, Here

\* Every other step leaves the joins alone, and goes to another page or stays.
OtherStep ==
  /\ UNCHANGED <<authVars, validId, joinVars>>
  /\ where' = where \/ where' # "here"

LEMMA OthersKeepJoin ==
  ASSUME JoinInv, OtherStep
  PROVE  JoinInv'
BY DEF JoinInv, Here, OtherStep, authVars, joinVars

LEMMA CallIsOther ==
  ASSUME OnConnected \/ OnError \/ OnDisconnected \/ OnClientLeave \/ MeetingEnds
  PROVE  OtherStep
<1> USE DEF OtherStep, authVars, joinVars
<1>1. CASE OnConnected
  BY <1>1 DEF OnConnected, CallChanges
<1>2. CASE OnError
  BY <1>2 DEF OnError, CallChanges
<1>3. CASE OnDisconnected
  BY <1>3 DEF OnDisconnected, CallChanges
<1>4. CASE OnClientLeave
  BY <1>4 DEF OnClientLeave, GoBack, Leave
<1>5. CASE MeetingEnds
  BY <1>5 DEF MeetingEnds
<1> QED BY <1>1, <1>2, <1>3, <1>4, <1>5

LEMMA ButtonIsOther ==
  ASSUME \/ LeaveOrEnd \/ Hangup \/ CloseConfirm \/ ConfirmEnd \/ EndOnServer \/ EndAnswered
         \/ Back \/ BackHome
         \/ \E what \in {"track", "whiteboard"} : Pin(what)
         \/ \E tab \in {"chat", "people", "ai", "closed"} : OpenPanel(tab)
  PROVE  OtherStep
<1> USE DEF OtherStep, authVars, joinVars
<1>1. CASE LeaveOrEnd
  BY <1>1 DEF LeaveOrEnd, GoBack, Leave
<1>2. CASE Hangup \/ Back \/ BackHome
  BY <1>2 DEF Hangup, Back, BackHome, GoBack, Leave
<1>3. CASE CloseConfirm \/ ConfirmEnd
  BY <1>3 DEF CloseConfirm, ConfirmEnd
<1>4. CASE EndOnServer \/ EndAnswered
  BY <1>4 DEF EndOnServer, EndAnswered
<1>5. CASE \E what \in {"track", "whiteboard"} : Pin(what)
  BY <1>5 DEF Pin
<1>6. CASE \E tab \in {"chat", "people", "ai", "closed"} : OpenPanel(tab)
  BY <1>6 DEF OpenPanel
<1> QED BY <1>1, <1>2, <1>3, <1>4, <1>5, <1>6

LEMMA JoinStep ==
  ASSUME JoinInv, [MeetingPageNext]_mpVars
  PROVE  JoinInv'
<1>1. CASE TokenChanges
  BY <1>1, TokenKeepsJoin
<1>2. CASE Retry
  BY <1>2, RetryKeepsJoin
<1>3. CASE \E r \in Runs : AnswerJoin(r) \/ JoinAnswered(r)
  BY <1>3, AnswerKeepsJoin
<1>4. CASE OnConnected \/ OnError \/ OnDisconnected \/ OnClientLeave \/ MeetingEnds
  BY <1>4, CallIsOther, OthersKeepJoin
<1>5. CASE \/ LeaveOrEnd \/ Hangup \/ CloseConfirm \/ ConfirmEnd \/ EndOnServer \/ EndAnswered
           \/ Back \/ BackHome
           \/ \E what \in {"track", "whiteboard"} : Pin(what)
           \/ \E tab \in {"chat", "people", "ai", "closed"} : OpenPanel(tab)
  BY <1>5, ButtonIsOther, OthersKeepJoin
<1>6. CASE UNCHANGED mpVars
  BY <1>6, OthersKeepJoin DEF OtherStep, mpVars, meetingPageVars
<1> QED BY <1>1, <1>2, <1>3, <1>4, <1>5, <1>6 DEF MeetingPageNext

LEMMA JoinInvIsEnough == ASSUME JoinInv PROVE NoEndlessSpinner
<1>1. Screen = "spinner" => validId /\ join = 0 /\ ~joinError
  BY DEF Screen
<1>2. 0 \notin Runs
  BY DEF Runs
<1> QED BY <1>1, <1>2 DEF JoinInv, NoEndlessSpinner

\* The wheel turns only while a join is under way that may still change the
\* page, or while the tab does not know who is signed in (MeetingWorkspace).
THEOREM SpinnerEnds == MeetingPageSpec => []NoEndlessSpinner
BY JoinInit, JoinStep, JoinInvIsEnough, PTL DEF MeetingPageSpec

-----------------------------------------------------------------------------

(***************************************************************************)
(* The page of a room.                                                     *)
(***************************************************************************)

LoadTypeOK ==
  /\ token \in Nat /\ given \in Nat /\ loads \in 0 .. MaxLoads
  /\ version \in [Things -> Nat] /\ own \in [Things -> Nat]
  /\ begun \in [0 .. MaxLoads -> [Things -> Nat]]
  /\ drawn \in [Things -> [version : Int, load : 0 .. MaxLoads]]
  /\ doing \in [Work -> [state : {"idle", "asked", "done", "failed"}, version : Nat]]
  /\ asked3 \subseteq (1 .. MaxLoads) \X Things
  /\ answers3 \subseteq (1 .. MaxLoads) \X Things \X Nat
  /\ active \in Nat

\* The page's own work and the loads that began after it are behind the server;
\* a text is saved by one work only, so that its own versions go forward.
BegunInv ==
  /\ \A k \in Things : own[k] <= version[k]
  /\ \A n \in 0 .. loads : \A k \in Things : begun[n][k] <= version[k]
  /\ \A n \in 0 .. loads : begun[n]["text"] <= own["text"]
  /\ token # 0 => begun[loads] = own
  /\ \A w \in Work : doing[w].state = "done" => doing[w].version <= version[Touches[w]]
  /\ doing["save"].state = "done" => own["text"] <= doing["save"].version

\* No answer, on its way or drawn, is behind what its load began with.
AnswersInv ==
  /\ \A x \in asked3 : x[1] <= loads
  /\ \A x \in answers3 : x[1] <= loads /\ x[3] >= begun[x[1]][x[2]]
  /\ \A k \in Things :
       /\ drawn[k].load <= loads
       /\ drawn[k].load # 0 => drawn[k].version >= begun[drawn[k].load][k]

LoadInv == LoadTypeOK /\ BegunInv /\ AnswersInv

LEMMA LoadInit == ASSUME RoomPageInit PROVE LoadInv
<1> USE LoadsAssumption
<1>1. LoadTypeOK
  BY DEF RoomPageInit, AuthInit, LoadTypeOK, Nothing, Idle3
<1>2. \A n \in 0 .. MaxLoads : begun[n] = [k \in Things |-> 0]
  BY DEF RoomPageInit
<1>3. BegunInv
  BY <1>2 DEF RoomPageInit, AuthInit, BegunInv, Idle3, Things, Work, HostWork
<1>4. AnswersInv
  BY DEF RoomPageInit, AnswersInv, Nothing
<1> QED BY <1>1, <1>3, <1>4 DEF LoadInv

LEMMA TouchesType == Touches \in [Work -> Things] /\ \A w \in Work : Touches[w] = "text" => w = "save"
BY DEF Touches, Work, HostWork, Things

\* A load is later than whatever the page has asked for.
LEMMA LoadIsNew ==
  ASSUME LoadInv, NEW t \in Nat, NEW d \in [Things -> Nat], Load(t, d)
  PROVE  /\ t = 0 => UNCHANGED <<loads, asked3, begun>>
         /\ t # 0 => /\ loads' = loads + 1 /\ loads' \in 0 .. MaxLoads
                     /\ asked3' \subseteq (1 .. MaxLoads) \X Things
                     /\ \A x \in asked3' : x[1] <= loads'
                     /\ begun' \in [0 .. MaxLoads -> [Things -> Nat]]
                     /\ begun'[loads'] = d /\ \A n \in 0 .. loads : begun'[n] = begun[n]
<1> USE LoadsAssumption
<1>1. CASE t = 0
  BY <1>1 DEF Load
<1>2. CASE t # 0
  <2>1. /\ loads' = loads + 1 /\ loads < MaxLoads
        /\ asked3' = asked3 \cup {<<loads + 1, k>> : k \in Things}
        /\ begun' = [begun EXCEPT ![loads + 1] = d]
    BY <1>2 DEF Load
  <2>2. /\ asked3 \subseteq (1 .. MaxLoads) \X Things /\ \A x \in asked3 : x[1] <= loads
        /\ loads \in 0 .. MaxLoads /\ begun \in [0 .. MaxLoads -> [Things -> Nat]]
    BY DEF LoadInv, LoadTypeOK, AnswersInv
  <2>3. loads + 1 \in 1 .. MaxLoads
    BY <2>1, <2>2
  <2>4. asked3' \subseteq (1 .. MaxLoads) \X Things /\ \A x \in asked3' : x[1] <= loads'
    BY <2>1, <2>2, <2>3
  <2>5. /\ begun' \in [0 .. MaxLoads -> [Things -> Nat]]
        /\ begun'[loads'] = d /\ \A n \in 0 .. loads : begun'[n] = begun[n]
    BY <2>1, <2>2, <2>3
  <2> QED BY <1>2, <2>1, <2>3, <2>4, <2>5
<1> QED BY <1>1, <1>2

\* A load begins with what the page has done so far.
LEMMA LoadKeeps ==
  ASSUME LoadInv, Load(token', own'), UNCHANGED <<version, answers3>>, token' \in Nat,
         own' \in [Things -> Nat], \A k \in Things : own'[k] <= version[k],
         own["text"] <= own'["text"],
         \A k \in Things :
           /\ drawn'[k].load = drawn[k].load
           /\ drawn[k].load # 0 => drawn'[k].version >= begun[drawn[k].load][k]
  PROVE  /\ loads' \in 0 .. MaxLoads /\ asked3' \subseteq (1 .. MaxLoads) \X Things
         /\ begun' \in [0 .. MaxLoads -> [Things -> Nat]]
         /\ \A n \in 0 .. loads' : \A k \in Things : begun'[n][k] <= version[k]
         /\ \A n \in 0 .. loads' : begun'[n]["text"] <= own'["text"]
         /\ token' # 0 => begun'[loads'] = own'
         /\ AnswersInv'
<1> USE LoadsAssumption
<1>0. /\ loads \in 0 .. MaxLoads /\ begun \in [0 .. MaxLoads -> [Things -> Nat]] /\ "text" \in Things
      /\ own \in [Things -> Nat] /\ version \in [Things -> Nat]
      /\ answers3 \subseteq (1 .. MaxLoads) \X Things \X Nat
      /\ asked3 \subseteq (1 .. MaxLoads) \X Things
      /\ drawn \in [Things -> [version : Int, load : 0 .. MaxLoads]]
  BY DEF LoadInv, LoadTypeOK, Things
<1>1. /\ \A n \in 0 .. loads : \A k \in Things : begun[n][k] <= version[k]
      /\ \A n \in 0 .. loads : begun[n]["text"] <= own["text"]
  BY DEF LoadInv, BegunInv
<1>2. CASE token' = 0
  <2>1. UNCHANGED <<loads, asked3, begun>>
    BY <1>2, LoadIsNew
  <2>2. \A n \in 0 .. loads : begun[n]["text"] <= own'["text"]
    <3>1. \A n \in 0 .. loads : begun[n]["text"] \in Nat
      BY <1>0
    <3> QED BY <1>0, <1>1, <3>1
  <2>3. AnswersInv'
    BY <2>1 DEF LoadInv, AnswersInv
  <2> QED BY <1>0, <1>1, <1>2, <2>1, <2>2, <2>3
<1>3. CASE token' # 0
  <2>1. /\ loads' = loads + 1 /\ loads' \in 0 .. MaxLoads
        /\ asked3' \subseteq (1 .. MaxLoads) \X Things
        /\ \A x \in asked3' : x[1] <= loads'
        /\ begun' \in [0 .. MaxLoads -> [Things -> Nat]]
        /\ begun'[loads'] = own' /\ \A n \in 0 .. loads : begun'[n] = begun[n]
    BY <1>3, LoadIsNew
  <2>2. \A n \in 0 .. loads' : n = loads' \/ n \in 0 .. loads
    BY <1>0, <2>1
  <2>3. \A n \in 0 .. loads' : \A k \in Things : begun'[n][k] <= version[k]
    BY <1>1, <2>1, <2>2
  <2>4. \A n \in 0 .. loads' : begun'[n]["text"] <= own'["text"]
    <3> SUFFICES ASSUME NEW n \in 0 .. loads' PROVE begun'[n]["text"] <= own'["text"]
      OBVIOUS
    <3>1. CASE n = loads'
      BY <1>0, <2>1, <3>1
    <3>2. CASE n \in 0 .. loads
      <4>1. begun'[n] = begun[n] /\ begun[n]["text"] <= own["text"] /\ begun[n]["text"] \in Nat
        BY <1>0, <1>1, <2>1, <3>2
      <4> QED BY <1>0, <4>1
    <3> QED BY <2>2, <3>1, <3>2
  <2>5. \A x \in answers3 : x[1] <= loads' /\ x[3] >= begun'[x[1]][x[2]]
    <3> SUFFICES ASSUME NEW x \in answers3 PROVE x[1] <= loads' /\ x[3] >= begun'[x[1]][x[2]]
      OBVIOUS
    <3>1. x[1] \in 1 .. MaxLoads /\ x[1] <= loads /\ x[3] >= begun[x[1]][x[2]]
      BY <1>0 DEF LoadInv, AnswersInv
    <3>2. x[1] \in 0 .. loads /\ x[1] <= loads + 1
      <4>1. loads \in Int /\ MaxLoads \in Int
        BY <1>0
      <4>2. \A i \in 1 .. MaxLoads : i <= loads => i \in 0 .. loads /\ i <= loads + 1
        BY <4>1
      <4> QED BY <3>1, <4>2
    <3>3. begun'[x[1]] = begun[x[1]]
      BY <2>1, <3>2
    <3> QED BY <2>1, <3>1, <3>2, <3>3
  <2>6. ASSUME NEW k \in Things
        PROVE  /\ drawn'[k].load <= loads'
               /\ drawn'[k].load # 0 => drawn'[k].version >= begun'[drawn'[k].load][k]
    <3>1. drawn[k].load \in 0 .. MaxLoads /\ drawn[k].load <= loads
      BY <1>0 DEF LoadInv, AnswersInv
    <3>2. drawn[k].load \in 0 .. loads /\ drawn[k].load <= loads + 1
      BY <1>0, <3>1
    <3>3. begun'[drawn[k].load] = begun[drawn[k].load]
      BY <2>1, <3>2
    <3>4. drawn'[k].load = drawn[k].load
      OBVIOUS
    <3>5. drawn[k].load # 0 => drawn'[k].version >= begun[drawn[k].load][k]
      OBVIOUS
    <3> QED BY <2>1, <3>2, <3>3, <3>4, <3>5
  <2>7. AnswersInv'
    BY <2>1, <2>5, <2>6 DEF AnswersInv
  <2> QED BY <1>0, <2>1, <2>3, <2>4, <2>7
<1> QED BY <1>2, <1>3

LEMMA TokenKeepsLoads ==
  ASSUME LoadInv, RoomToken
  PROVE  LoadInv'
<1>1. token' \in Nat /\ given' \in Nat
  BY DEF RoomToken, ApplySession, Refresh, Answered, LoadInv, LoadTypeOK
<1>2. UNCHANGED <<version, answers3, drawn, active, doing, own>>
  BY DEF RoomToken, serverVars, shownVars
<1>3. CASE token' = token
  <2>1. UNCHANGED <<loads, asked3, begun>>
    BY <1>3 DEF RoomToken
  <2> QED BY <1>1, <1>2, <1>3, <2>1 DEF LoadInv, LoadTypeOK, BegunInv, AnswersInv
<1>4. CASE token' # token
  <2>1. Load(token', own')
    BY <1>2, <1>4 DEF RoomToken
  <2>2. /\ own \in [Things -> Nat] /\ "text" \in Things /\ \A k \in Things : own[k] <= version[k]
        /\ \A k \in Things : drawn[k].load # 0 => drawn[k].version >= begun[drawn[k].load][k]
    BY DEF LoadInv, LoadTypeOK, BegunInv, AnswersInv, Things
  <2>3. own["text"] <= own["text"]
    BY <2>2
  <2>4. /\ loads' \in 0 .. MaxLoads /\ asked3' \subseteq (1 .. MaxLoads) \X Things
        /\ begun' \in [0 .. MaxLoads -> [Things -> Nat]]
        /\ \A n \in 0 .. loads' : \A k \in Things : begun'[n][k] <= version[k]
        /\ \A n \in 0 .. loads' : begun'[n]["text"] <= own'["text"]
        /\ token' # 0 => begun'[loads'] = own'
        /\ AnswersInv'
    BY <1>1, <1>2, <2>1, <2>2, <2>3, LoadKeeps
  <2>5. LoadTypeOK' /\ BegunInv'
    BY <1>1, <1>2, <2>4 DEF LoadInv, LoadTypeOK, BegunInv
  <2> QED BY <2>4, <2>5 DEF LoadInv
<1> QED BY <1>3, <1>4

LEMMA AnswersKeepLoads ==
  ASSUME LoadInv, NEW n \in 1 .. MaxLoads, NEW k \in Things,
         AnswerLoad(n, k) \/ LoadFails(n, k) \/ \E v \in Nat : Arrive(n, k, v)
  PROVE  LoadInv'
<1> USE LoadsAssumption DEF authVars, serverVars, shownVars
<1>1. CASE AnswerLoad(n, k)
  <2>1. /\ asked3' = asked3 \ {<<n, k>>} /\ <<n, k>> \in asked3
        /\ answers3' = answers3 \cup {<<n, k, version[k]>>}
        /\ UNCHANGED <<token, given, loads, version, own, drawn, doing, active, begun>>
    BY <1>1 DEF AnswerLoad
  <2>2. version[k] \in Nat /\ n <= loads /\ loads \in Nat
    BY <2>1 DEF LoadInv, LoadTypeOK, AnswersInv
  <2>3. begun[n][k] <= version[k] /\ begun[n][k] \in Nat
    BY <2>2 DEF LoadInv, LoadTypeOK, BegunInv
  <2>4. LoadTypeOK'
    <3>1. answers3' \subseteq (1 .. MaxLoads) \X Things \X Nat
      BY <2>1, <2>2 DEF LoadInv, LoadTypeOK
    <3>2. asked3' \subseteq (1 .. MaxLoads) \X Things
      BY <2>1 DEF LoadInv, LoadTypeOK
    <3> QED BY <2>1, <3>1, <3>2 DEF LoadInv, LoadTypeOK
  <2>5. AnswersInv'
    BY <2>1, <2>2, <2>3 DEF LoadInv, AnswersInv
  <2>6. BegunInv'
    BY <2>1 DEF LoadInv, BegunInv
  <2> QED BY <2>4, <2>5, <2>6 DEF LoadInv
<1>2. CASE LoadFails(n, k)
  <2>1. /\ asked3' = asked3 \ {<<n, k>>}
        /\ UNCHANGED <<token, given, loads, version, own, drawn, doing, active, answers3, begun>>
    BY <1>2 DEF LoadFails
  <2> QED BY <2>1 DEF LoadInv, LoadTypeOK, BegunInv, AnswersInv
<1>3. ASSUME NEW v \in Nat, Arrive(n, k, v) PROVE LoadInv'
  <2>1. /\ <<n, k, v>> \in answers3 /\ answers3' = answers3 \ {<<n, k, v>>}
        /\ drawn' = [drawn EXCEPT ![k] = [version |-> v, load |-> n]]
        /\ UNCHANGED <<token, given, loads, version, own, doing, asked3, begun>>
    BY <1>3 DEF Arrive
  <2>2. active' \in Nat
    BY <1>3 DEF Arrive, Running, LoadInv, LoadTypeOK
  <2>3. n <= loads /\ v >= begun[n][k]
    BY <2>1 DEF LoadInv, AnswersInv
  <2>4. LoadTypeOK'
    <3>1. drawn' \in [Things -> [version : Int, load : 0 .. MaxLoads]]
      <4>1. [version |-> v, load |-> n] \in [version : Int, load : 0 .. MaxLoads]
        OBVIOUS
      <4>2. drawn \in [Things -> [version : Int, load : 0 .. MaxLoads]]
        BY DEF LoadInv, LoadTypeOK
      <4> QED BY <2>1, <4>1, <4>2
    <3>2. answers3' \subseteq (1 .. MaxLoads) \X Things \X Nat
      BY <2>1 DEF LoadInv, LoadTypeOK
    <3> QED BY <2>1, <2>2, <3>1, <3>2 DEF LoadInv, LoadTypeOK
  <2>5. AnswersInv'
    BY <2>1, <2>3 DEF LoadInv, LoadTypeOK, AnswersInv
  <2>6. BegunInv'
    BY <2>1 DEF LoadInv, BegunInv
  <2> QED BY <2>4, <2>5, <2>6 DEF LoadInv
<1> QED BY <1>1, <1>2, <1>3

\* The dialogs.
LEMMA DialogsKeepLoads ==
  ASSUME LoadInv, NEW w \in Work, OpenDialog(w) \/ CloseDialog \/ Confirm(w)
  PROVE  LoadInv'
<1> USE DEF authVars, serverVars, loadVars, shownVars
<1>1. CASE OpenDialog(w) \/ CloseDialog
  BY <1>1 DEF OpenDialog, CloseDialog, LoadInv, LoadTypeOK, BegunInv, AnswersInv
<1>2. CASE Confirm(w)
  <2>1. UNCHANGED <<token, given, loads, version, own, drawn, asked3, answers3, active, begun>>
    BY <1>2 DEF Confirm, Pretend, Ask
  <2>2. \/ doing' = doing
        \/ \E v \in Nat : doing' = [doing EXCEPT ![w] = [state |-> "asked", version |-> v]]
    BY <1>2 DEF Confirm, Pretend, Ask, LoadInv, LoadTypeOK
  <2>3. /\ doing' \in [Work -> [state : {"idle", "asked", "done", "failed"}, version : Nat]]
        /\ \A v \in Work : doing'[v].state = "done" => doing'[v] = doing[v]
    <3>1. doing \in [Work -> [state : {"idle", "asked", "done", "failed"}, version : Nat]]
      BY DEF LoadInv, LoadTypeOK
    <3> QED BY <2>2, <3>1
  <2>4. "save" \in Work
    BY DEF Work, HostWork
  <2> QED BY <2>1, <2>3, <2>4 DEF LoadInv, LoadTypeOK, BegunInv, AnswersInv
<1> QED BY <1>1, <1>2

\* The server only counts on.
LEMMA ServerKeepsLoads ==
  ASSUME LoadInv, NEW w \in Work, NEW k \in Things, Perform(w) \/ RefuseWork(w) \/ OthersWork(k)
  PROVE  LoadInv'
<1> USE DEF authVars, loadVars, shownVars
<1>0. "save" \in Work /\ "text" \in Things
  BY DEF Work, HostWork, Things
<1>1. ASSUME version' \in [Things -> Nat], \A j \in Things : version[j] <= version'[j],
             UNCHANGED <<token, given, loads, own, drawn, asked3, answers3, active, begun>>,
             doing' \in [Work -> [state : {"idle", "asked", "done", "failed"}, version : Nat]],
             \A v \in Work : doing'[v].state = "done" => doing'[v].version <= version'[Touches[v]],
             doing'["save"].state = "done" => own["text"] <= doing'["save"].version
      PROVE  LoadInv'
  <2>1. LoadTypeOK'
    BY <1>1 DEF LoadInv, LoadTypeOK
  <2>2. \A j \in Things : own[j] <= version'[j]
    BY <1>1 DEF LoadInv, LoadTypeOK, BegunInv
  <2>3. ASSUME NEW n \in 0 .. loads, NEW j \in Things PROVE begun[n][j] <= version'[j]
    <3>1. begun[n][j] \in Nat /\ version[j] \in Nat /\ version'[j] \in Nat
      <4>1. /\ loads \in 0 .. MaxLoads /\ version \in [Things -> Nat]
            /\ begun \in [0 .. MaxLoads -> [Things -> Nat]]
        BY DEF LoadInv, LoadTypeOK
      <4>2. n \in 0 .. MaxLoads
        BY <4>1, LoadsAssumption
      <4> QED BY <1>1, <4>1, <4>2
    <3>2. begun[n][j] <= version[j]
      BY DEF LoadInv, BegunInv
    <3> QED BY <1>1, <3>1, <3>2
  <2>4. BegunInv'
    BY <1>1, <2>2, <2>3 DEF LoadInv, BegunInv
  <2>5. AnswersInv'
    BY <1>1 DEF LoadInv, AnswersInv
  <2> QED BY <2>1, <2>4, <2>5 DEF LoadInv
<1>2. CASE Perform(w)
  <2> DEFINE i == Touches[w]
  <2>1. i \in Things
    BY TouchesType
  <2>2. /\ version' = version \/ version' = [version EXCEPT ![i] = @ + 1]
        /\ doing' = [doing EXCEPT ![w] = [state |-> "done", version |-> version'[i]]]
        /\ UNCHANGED <<token, given, loads, own, drawn, asked3, answers3, active, begun>>
    BY <1>2 DEF Perform
  <2>3. version' \in [Things -> Nat] /\ \A j \in Things : version[j] <= version'[j]
    <3>1. version \in [Things -> Nat]
      BY DEF LoadInv, LoadTypeOK
    <3> HIDE DEF i
    <3> QED BY <2>1, <2>2, <3>1
  <2>4. \A v \in Work : doing'[v].state = "done" => doing'[v].version <= version'[Touches[v]]
    <3> SUFFICES ASSUME NEW v \in Work, doing'[v].state = "done"
                 PROVE  doing'[v].version <= version'[Touches[v]]
      OBVIOUS
    <3>1. CASE v = w
      BY <2>1, <2>2, <2>3, <3>1 DEF LoadInv, LoadTypeOK
    <3>2. CASE v # w
      <4>1. doing'[v] = doing[v]
        BY <2>2, <3>2 DEF LoadInv, LoadTypeOK
      <4>2. Touches[v] \in Things /\ version[Touches[v]] <= version'[Touches[v]]
        BY <2>3, TouchesType
      <4>3. doing[v].version <= version[Touches[v]]
        BY <4>1 DEF LoadInv, BegunInv
      <4>4. /\ doing[v].version \in Nat /\ version[Touches[v]] \in Nat /\ version'[Touches[v]] \in Nat
        BY <2>3, <4>2 DEF LoadInv, LoadTypeOK
      <4> QED BY <4>1, <4>2, <4>3, <4>4
    <3> QED BY <3>1, <3>2
  <2>5. doing' \in [Work -> [state : {"idle", "asked", "done", "failed"}, version : Nat]]
    BY <2>1, <2>2, <2>3 DEF LoadInv, LoadTypeOK
  <2>6. ASSUME doing'["save"].state = "done" PROVE own["text"] <= doing'["save"].version
    <3>1. CASE w = "save"
      <4>1. i = "text"
        BY <3>1 DEF Touches, Work, HostWork
      <4>2. doing'["save"].version = version'["text"]
        BY <1>0, <2>2, <3>1, <4>1 DEF LoadInv, LoadTypeOK
      <4>3. own["text"] \in Nat /\ version["text"] \in Nat /\ version'["text"] \in Nat
            /\ own["text"] <= version["text"]
        BY <1>0, <2>3 DEF LoadInv, LoadTypeOK, BegunInv
      <4> QED BY <1>0, <2>3, <4>2, <4>3
    <3>2. CASE w # "save"
      <4>1. doing'["save"] = doing["save"]
        BY <2>2, <3>2 DEF LoadInv, LoadTypeOK
      <4> QED BY <2>6, <4>1 DEF LoadInv, BegunInv
    <3> QED BY <3>1, <3>2
  <2> QED BY <1>1, <2>2, <2>3, <2>4, <2>5, <2>6
<1>3. CASE RefuseWork(w)
  <2>1. /\ doing' = [doing EXCEPT ![w].state = "failed"]
        /\ UNCHANGED <<token, given, version, loads, own, drawn, asked3, answers3, active, begun>>
    BY <1>3 DEF RefuseWork, serverVars
  <2>2. /\ doing' \in [Work -> [state : {"idle", "asked", "done", "failed"}, version : Nat]]
        /\ \A v \in Work : doing'[v].state = "done" => doing'[v] = doing[v]
    BY <2>1 DEF LoadInv, LoadTypeOK
  <2> QED BY <1>0, <2>1, <2>2 DEF LoadInv, LoadTypeOK, BegunInv, AnswersInv
<1>4. CASE OthersWork(k)
  <2>1. /\ version' = [version EXCEPT ![k] = @ + 1]
        /\ UNCHANGED <<token, given, loads, own, drawn, doing, asked3, answers3, active, begun>>
    BY <1>4 DEF OthersWork
  <2>2. version' \in [Things -> Nat] /\ \A j \in Things : version[j] <= version'[j]
    BY <2>1 DEF LoadInv, LoadTypeOK
  <2>3. ASSUME NEW v \in Work, doing[v].state = "done" PROVE doing[v].version <= version'[Touches[v]]
    <3>1. Touches[v] \in Things /\ doing[v].version <= version[Touches[v]]
      BY <2>3, TouchesType DEF LoadInv, BegunInv
    <3>2. doing[v].version \in Nat /\ version[Touches[v]] \in Nat /\ version'[Touches[v]] \in Nat
      BY <2>2, <3>1 DEF LoadInv, LoadTypeOK
    <3> QED BY <2>2, <3>1, <3>2
  <2> QED BY <1>1, <2>1, <2>2, <2>3 DEF LoadInv, LoadTypeOK, BegunInv
<1> QED BY <1>2, <1>3, <1>4

\* What the page's own work led to counts only with a load that begins with it.
LEMMA WorkKeepsLoads ==
  ASSUME LoadInv, NEW w \in Work, WorkDone(w) \/ WorkLeads(w) \/ WorkFailed(w)
  PROVE  LoadInv'
<1> USE DEF authVars, serverVars, shownVars
<1> DEFINE i == Touches[w]
<1>0. i \in Things /\ (i = "text" => w = "save") /\ "text" \in Things /\ "save" \in Work
  BY TouchesType DEF Things, Work, HostWork
<1>t. token \in Nat /\ own \in [Things -> Nat] /\ version \in [Things -> Nat]
      /\ \A k \in Things : own[k] <= version[k]
  BY DEF LoadInv, LoadTypeOK, BegunInv
<1>1. ASSUME doing' = [doing EXCEPT ![w] = Idle3]
      PROVE  /\ doing' \in [Work -> [state : {"idle", "asked", "done", "failed"}, version : Nat]]
             /\ doing'[w].state = "idle"
             /\ \A v \in Work : doing'[v].state = "done" => v # w /\ doing'[v] = doing[v]
  BY <1>1 DEF LoadInv, LoadTypeOK, Idle3
<1>2. ASSUME doing' = [doing EXCEPT ![w] = Idle3], UNCHANGED <<token, given, version, answers3>>,
             Load(token, own'), own' \in [Things -> Nat], \A k \in Things : own'[k] <= version[k],
             own["text"] <= own'["text"], w # "save" => own'["text"] = own["text"], active' \in Nat,
             drawn' \in [Things -> [version : Int, load : 0 .. MaxLoads]],
             \A k \in Things :
               /\ drawn'[k].load = drawn[k].load
               /\ drawn[k].load # 0 => drawn'[k].version >= begun[drawn[k].load][k]
      PROVE  LoadInv'
  <2>1. /\ loads' \in 0 .. MaxLoads /\ asked3' \subseteq (1 .. MaxLoads) \X Things
        /\ begun' \in [0 .. MaxLoads -> [Things -> Nat]]
        /\ \A n \in 0 .. loads' : \A k \in Things : begun'[n][k] <= version[k]
        /\ \A n \in 0 .. loads' : begun'[n]["text"] <= own'["text"]
        /\ token' # 0 => begun'[loads'] = own'
        /\ AnswersInv'
    BY <1>2, <1>t, LoadKeeps
  <2>2. LoadTypeOK'
    BY <1>1, <1>2, <2>1 DEF LoadInv, LoadTypeOK
  <2>3. doing'["save"].state = "done" => own'["text"] <= doing'["save"].version
    BY <1>0, <1>1, <1>2 DEF LoadInv, BegunInv
  <2>4. \A v \in Work : doing'[v].state = "done" => doing'[v].version <= version'[Touches[v]]
    BY <1>1, <1>2 DEF LoadInv, BegunInv
  <2>5. BegunInv'
    BY <1>2, <2>1, <2>3, <2>4 DEF BegunInv
  <2> QED BY <2>1, <2>2, <2>5 DEF LoadInv
<1>3. CASE WorkDone(w)
  <2>1. /\ doing[w].state = "done" /\ doing' = [doing EXCEPT ![w] = Idle3]
        /\ own' = [own EXCEPT ![i] = doing[w].version]
        /\ UNCHANGED <<token, given, version, answers3>>
        /\ Load(token, own')
        /\ drawn' = IF w = "save" THEN [drawn EXCEPT !["text"].version = doing[w].version] ELSE drawn
    BY <1>3 DEF WorkDone
  <2>2. doing[w].version \in Nat /\ doing[w].version <= version[i]
    BY <2>1 DEF LoadInv, LoadTypeOK, BegunInv
  <2>3. own' \in [Things -> Nat] /\ \A k \in Things : own'[k] <= version[k]
    BY <1>0, <1>t, <2>1, <2>2
  <2>4. w = "save" => i = "text" /\ own["text"] <= doing[w].version
    BY <2>1 DEF LoadInv, BegunInv, Touches, Work, HostWork
  <2>5. own["text"] <= own'["text"] /\ (w # "save" => own'["text"] = own["text"])
    <3> HIDE DEF i
    <3>1. CASE w = "save"
      BY <1>0, <1>t, <2>1, <2>4, <3>1
    <3>2. CASE w # "save"
      BY <1>0, <1>t, <2>1, <3>2
    <3> QED BY <3>1, <3>2
  <2>6. active' \in Nat
    BY <1>3 DEF WorkDone, LoadInv, LoadTypeOK
  <2>7. drawn' \in [Things -> [version : Int, load : 0 .. MaxLoads]]
    <3>1. drawn \in [Things -> [version : Int, load : 0 .. MaxLoads]]
      BY DEF LoadInv, LoadTypeOK
    <3>2. CASE w = "save"
      <4>1. [drawn["text"] EXCEPT !.version = doing[w].version] \in [version : Int, load : 0 .. MaxLoads]
        BY <1>0, <2>2, <3>1
      <4>2. drawn' = [drawn EXCEPT !["text"] = [drawn["text"] EXCEPT !.version = doing[w].version]]
        BY <2>1, <3>2
      <4> QED BY <3>1, <4>1, <4>2
    <3> QED BY <2>1, <3>1, <3>2
  <2>8. ASSUME NEW k \in Things
        PROVE  /\ drawn'[k].load = drawn[k].load
               /\ drawn[k].load # 0 => drawn'[k].version >= begun[drawn[k].load][k]
    <3>1. CASE w = "save" /\ k = "text"
      <4>1. drawn'[k].load = drawn[k].load /\ drawn'[k].version = doing[w].version
        BY <2>1, <3>1 DEF LoadInv, LoadTypeOK
      <4>2. drawn[k].load \in 0 .. MaxLoads /\ drawn[k].load \in 0 .. loads /\ loads \in 0 .. MaxLoads
        BY LoadsAssumption DEF LoadInv, LoadTypeOK, AnswersInv
      <4>3. begun[drawn[k].load][k] \in Nat /\ begun[drawn[k].load][k] <= own["text"]
        BY <3>1, <4>2 DEF LoadInv, LoadTypeOK, BegunInv
      <4> QED BY <1>0, <1>t, <2>2, <2>4, <3>1, <4>1, <4>3
    <3>2. CASE ~(w = "save" /\ k = "text")
      <4>1. drawn'[k] = drawn[k]
        BY <2>1, <3>2 DEF LoadInv, LoadTypeOK
      <4> QED BY <4>1 DEF LoadInv, AnswersInv
    <3> QED BY <3>1, <3>2
  <2> HIDE DEF i
  <2> QED BY <1>2, <2>1, <2>3, <2>5, <2>6, <2>7, <2>8
<1>4. CASE WorkLeads(w)
  <2>1. /\ asked3' = {} /\ answers3' = {} /\ doing' = [doing EXCEPT ![w] = Idle3]
        /\ UNCHANGED <<token, given, version, loads, drawn, active, own, begun>>
    BY <1>4 DEF WorkLeads
  <2> QED BY <1>0, <1>1, <2>1 DEF LoadInv, LoadTypeOK, BegunInv, AnswersInv
<1>5. CASE WorkFailed(w)
  <2>1. /\ doing' = [doing EXCEPT ![w] = Idle3]
        /\ UNCHANGED <<token, given, version, answers3, drawn, active, own>>
        /\ Load(token, own) \/ UNCHANGED <<loads, asked3, begun>>
    BY <1>5 DEF WorkFailed
  <2>2. CASE UNCHANGED <<loads, asked3, begun>>
    BY <1>0, <1>1, <2>1, <2>2 DEF LoadInv, LoadTypeOK, BegunInv, AnswersInv
  <2>3. CASE Load(token, own)
    <3>1. /\ active \in Nat /\ drawn \in [Things -> [version : Int, load : 0 .. MaxLoads]]
          /\ \A k \in Things : drawn[k].load # 0 => drawn[k].version >= begun[drawn[k].load][k]
          /\ own["text"] <= own["text"]
      BY <1>0, <1>t DEF LoadInv, LoadTypeOK, AnswersInv
    <3> HIDE DEF i
    <3> QED BY <1>2, <1>t, <2>1, <2>3, <3>1
  <2> QED BY <2>1, <2>2, <2>3
<1> QED BY <1>3, <1>4, <1>5

LEMMA LeavingKeepsLoads ==
  ASSUME LoadInv, NEW p, LeaveRoomPage(p)
  PROVE  LoadInv'
<1>1. /\ asked3' = {} /\ answers3' = {} /\ drawn' = [k \in Things |-> Nothing] /\ active' = 0
      /\ UNCHANGED <<token, given, version, loads, doing, own, begun>>
  BY DEF LeaveRoomPage, authVars, serverVars
<1>2. LoadTypeOK'
  <2>1. Nothing \in [version : Int, load : 0 .. MaxLoads]
    BY LoadsAssumption DEF Nothing
  <2>2. drawn' \in [Things -> [version : Int, load : 0 .. MaxLoads]]
    BY <1>1, <2>1
  <2> QED BY <1>1, <2>2 DEF LoadInv, LoadTypeOK
<1>3. BegunInv'
  BY <1>1 DEF LoadInv, BegunInv
<1>4. AnswersInv'
  BY <1>1 DEF LoadInv, LoadTypeOK, AnswersInv, Nothing
<1> QED BY <1>2, <1>3, <1>4 DEF LoadInv

LEMMA LoadStep ==
  ASSUME LoadInv, [RoomPageNext]_rpVars
  PROVE  LoadInv'
<1> USE LoadsAssumption
<1>1. CASE RoomToken
  BY <1>1, TokenKeepsLoads
<1>2. ASSUME NEW n \in 1 .. MaxLoads, NEW k \in Things,
             AnswerLoad(n, k) \/ LoadFails(n, k) \/ \E v \in 0 .. MaxChanges : Arrive(n, k, v)
      PROVE  LoadInv'
  BY <1>2, AnswersKeepLoads
<1>3. ASSUME NEW w \in Work,
             \/ OpenDialog(w) \/ Confirm(w) \/ Perform(w) \/ RefuseWork(w)
             \/ WorkDone(w) \/ WorkLeads(w) \/ WorkFailed(w)
      PROVE  LoadInv'
  <2>1. "text" \in Things
    BY DEF Things
  <2> QED BY <1>3, <2>1, DialogsKeepLoads, ServerKeepsLoads, WorkKeepsLoads
<1>4. CASE \E k \in Things : OthersWork(k)
  <2>1. "save" \in Work
    BY DEF Work, HostWork
  <2> QED BY <1>4, <2>1, ServerKeepsLoads
<1>5. CASE CloseDialog
  <2>1. "save" \in Work
    BY DEF Work, HostWork
  <2> QED BY <1>5, <2>1, DialogsKeepLoads
<1>6. CASE OpenMeeting \/ GoElsewhere
  BY <1>6, LeavingKeepsLoads DEF OpenMeeting, GoElsewhere
<1>7. CASE UNCHANGED rpVars
  BY <1>7 DEF rpVars, authVars, roomPageVars, serverVars, loadVars, shownVars, LoadInv, LoadTypeOK, BegunInv, AnswersInv
<1> QED BY <1>1, <1>2, <1>3, <1>4, <1>5, <1>6, <1>7 DEF RoomPageNext

LEMMA LoadInvIsEnough == ASSUME LoadInv PROVE OwnWorkIsShown
BY DEF LoadInv, BegunInv, AnswersInv, OwnWorkIsShown

\* Every answer drawn, also an overtaken one, shows what the user had done on the
\* page when its load began, and the latest load began after all of it, whatever
\* is lost or late (RoomView).
THEOREM OwnWorkStays == RoomPageSpec => []OwnWorkIsShown
BY LoadInit, LoadStep, LoadInvIsEnough, PTL DEF RoomPageSpec

-----------------------------------------------------------------------------

(***************************************************************************)
(* The list of rooms and the search.                                       *)
(***************************************************************************)

\* The rooms that come first in a list, as many as fit.
First(W, n) == {r \in W : Cardinality({q \in W : q > r}) < n}

LEMMA FirstNone ==
  ASSUME NEW W, IsFiniteSet(W)
  PROVE  First(W, 0) = {}
<1> SUFFICES ASSUME NEW r \in W PROVE ~(Cardinality({q \in W : q > r}) < 0)
  BY DEF First
<1>1. IsFiniteSet({q \in W : q > r})
  BY FS_Subset
<1> QED BY <1>1, FS_CardinalityType

LEMMA FirstAll ==
  ASSUME NEW W \in SUBSET Nat, IsFiniteSet(W), NEW n \in Nat, ~(Cardinality(W) > n)
  PROVE  First(W, n) = W
<1> SUFFICES ASSUME NEW r \in W PROVE Cardinality({q \in W : q > r}) < n
  BY DEF First
<1> DEFINE B == {q \in W : q > r}
<1>1. B \in SUBSET W /\ r \notin B
  BY DEF First
<1>2. IsFiniteSet(B) /\ Cardinality(B) <= Cardinality(W) /\ Cardinality(B) # Cardinality(W)
  BY <1>1, FS_Subset
<1>3. Cardinality(B) \in Nat /\ Cardinality(W) \in Nat
  BY <1>2, FS_CardinalityType
<1> QED BY <1>2, <1>3

RunSteps == {"none", "waiting", "asked", "answered", "failed", "over"}
RoomIds == 1 .. MaxRooms

RunRecord ==
  [step : RunSteps, page : Nat \ {0}, got : SUBSET RoomIds, more : BOOLEAN,
   whole : SUBSET RoomIds, quiet : BOOLEAN, query : Queries \cup {TooShort}]

RunTypeOK ==
  /\ token \in Nat /\ given \in Nat
  /\ joinedRooms \subseteq RoomIds
  /\ liveRun \in ListRuns \cup {0}
  /\ run \in [ListRuns -> RunRecord]

\* How far a run has come: while nothing changes, it has the first rooms.
Fetched(x) ==
  /\ x.step \in {"none", "asked"} =>
       /\ x.page = 1 => x.got = {}
       /\ x.quiet => x.got = First(x.whole, (x.page - 1) * PageLimit)
  /\ x.step = "answered" /\ x.quiet =>
       /\ x.got = First(x.whole, x.page * PageLimit)
       /\ x.more = (Cardinality(x.whole) > x.page * PageLimit)

DrawnInv ==
  view = "rooms" =>
    /\ \A n \in ListRuns : run[n].step # "waiting" /\ Fetched(run[n])
    /\ liveRun # 0 /\ ~isLoading /\ ~loadError =>
         /\ run[liveRun].step = "over" /\ rooms.of = liveRun
         /\ run[liveRun].quiet => rooms.list = run[liveRun].whole

\* The latest search has left its answer: users, or an error.
LatestDrawn ==
  \/ HasError /\ searchError.of = liveRun
  \/ HasResult /\ result.of = liveRun

\* The latest search is for what is typed, and once it is over its answer is
\* there until a key is pressed.
SearchInv ==
  view = "invite" /\ typed # TooShort =>
    /\ token # 0 => blanks \/ liveRun # 0
    /\ liveRun # 0 =>
         /\ run[liveRun].query = typed /\ run[liveRun].step # "none"
         /\ run[liveRun].step = "over" => LatestDrawn \/ (blanks /\ ~HasError /\ ~HasResult)

ListInv == RunTypeOK /\ DrawnInv /\ SearchInv /\ typed \in Queries \cup {TooShort}

LEMMA RoomsAreFinite == ASSUME NEW W \in SUBSET RoomIds PROVE IsFiniteSet(W) /\ W \in SUBSET Nat
<1>1. IsFiniteSet(RoomIds)
  BY ListsAssumption, FS_Interval DEF RoomIds
<1>2. IsFiniteSet(W)
  BY <1>1, FS_Subset
<1>3. RoomIds \subseteq Nat
  BY ListsAssumption DEF RoomIds
<1> QED BY <1>2, <1>3

LEMMA NewRunFetched == Fetched(NewRun)
<1>1. (1 - 1) * PageLimit = 0
  BY ListsAssumption
<1>2. First({}, (1 - 1) * PageLimit) = {}
  BY DEF First
<1> QED BY <1>2 DEF Fetched, NewRun

LEMMA ListInit == ASSUME RoomListsInit PROVE ListInv
<1>1. RunTypeOK
  BY ListsAssumption DEF RoomListsInit, AuthInit, RunTypeOK, RunRecord, NewRun, RunSteps, RoomIds, ListRuns
<1>2. DrawnInv
  BY NewRunFetched DEF RoomListsInit, DrawnInv, NewRun
<1> QED BY <1>1, <1>2 DEF ListInv, SearchInv, LatestDrawn, HasError, HasResult, RoomListsInit, AuthInit

\* Another run begins, and the types and the fetches stay.
LEMMA RunAgainKeeps ==
  ASSUME RunTypeOK, UNCHANGED joinedRooms, token' \in Nat, given' \in Nat,
         NEW s \in {"waiting", "asked"}, NEW q \in Queries \cup {TooShort}, RunAgain(s, q)
  PROVE  /\ RunTypeOK'
         /\ liveRun' \in ListRuns /\ run'[liveRun'].step = s /\ run'[liveRun'].query = q
         /\ (\A n \in ListRuns : run[n].step # "waiting" /\ Fetched(run[n])) /\ s = "asked" =>
              \A n \in ListRuns : run'[n].step # "waiting" /\ Fetched(run'[n])
<1>1. PICK n \in ListRuns : /\ run[n].step = "none"
                            /\ run' = [run EXCEPT ![n].step = s, ![n].query = q] /\ liveRun' = n
  BY DEF RunAgain
<1>2. /\ run'[n].step = s /\ run'[n].query = q
      /\ run'[n].page = run[n].page /\ run'[n].got = run[n].got
      /\ run'[n].whole = run[n].whole /\ run'[n].quiet = run[n].quiet
      /\ \A k \in ListRuns : k # n => run'[k] = run[k]
  BY <1>1 DEF RunTypeOK, RunRecord
<1>3. RunTypeOK'
  <2>1. run[n] \in RunRecord
    BY DEF RunTypeOK
  <2>2. [run[n] EXCEPT !.step = s, !.query = q] \in RunRecord
    BY <2>1 DEF RunSteps, RunRecord
  <2>3. run' = [run EXCEPT ![n] = [run[n] EXCEPT !.step = s, !.query = q]]
    BY <1>1 DEF RunTypeOK
  <2> QED BY <1>1, <2>2, <2>3 DEF RunTypeOK
<1>4. Fetched(run[n]) /\ s = "asked" => Fetched(run'[n])
  BY <1>1, <1>2 DEF Fetched
<1> QED BY <1>1, <1>2, <1>3, <1>4

\* A step of one run that leaves the rest of it alone.
LEMMA RunGoesOn ==
  ASSUME RunTypeOK, NEW n \in ListRuns, NEW s \in RunSteps,
         run' = [run EXCEPT ![n].step = s], UNCHANGED <<authVars, joinedRooms, liveRun>>
  PROVE  /\ RunTypeOK'
         /\ run'[n].step = s /\ run'[n].query = run[n].query
         /\ run'[n].whole = run[n].whole /\ run'[n].quiet = run[n].quiet
         /\ s \notin {"none", "asked", "answered"} => Fetched(run'[n])
         /\ \A k \in ListRuns : k # n => run'[k] = run[k]
<1>1. /\ run'[n].step = s /\ run'[n].query = run[n].query
      /\ run'[n].whole = run[n].whole /\ run'[n].quiet = run[n].quiet
      /\ \A k \in ListRuns : k # n => run'[k] = run[k]
  BY DEF RunTypeOK, RunRecord
<1>2. RunTypeOK'
  BY DEF RunTypeOK, RunRecord, authVars
<1>3. s \notin {"none", "asked", "answered"} => Fetched(run'[n])
  BY <1>1 DEF Fetched
<1> QED BY <1>1, <1>2, <1>3

\* A page is answered with the rooms that are there.
LEMMA PageFollows ==
  ASSUME NEW W \in SUBSET RoomIds, NEW p \in Nat \ {0}, MyRooms = W
  PROVE  First(W, (p - 1) * PageLimit) \cup Page(p) = First(W, p * PageLimit)
<1>1. p * PageLimit = (p - 1) * PageLimit + PageLimit /\ (p - 1) * PageLimit \in Int
  BY ListsAssumption
<1> DEFINE a == (p - 1) * PageLimit
           b == p * PageLimit
<1>2. a <= b /\ a \in Int /\ b \in Int
  BY <1>1, ListsAssumption
<1>3. Page(p) = {r \in W : a <= Before(r) /\ Before(r) < b}
  BY DEF Page
<1>4. \A r \in W : Before(r) = Cardinality({q \in W : q > r})
  BY DEF Before
<1>5. ASSUME NEW r \in W PROVE Before(r) \in Int
  <2>1. IsFiniteSet(W) /\ {q \in W : q > r} \in SUBSET W
    BY RoomsAreFinite
  <2>2. IsFiniteSet({q \in W : q > r})
    BY <2>1, FS_Subset
  <2>3. Cardinality({q \in W : q > r}) \in Nat
    BY <2>2, FS_CardinalityType
  <2> QED BY <1>4, <2>3
<1> HIDE DEF a, b
<1>6. First(W, a) \cup Page(p) = First(W, b)
  BY <1>2, <1>3, <1>4, <1>5 DEF First
<1> QED BY <1>6 DEF a, b

\* What an answer makes of a run.
AnsweredWith(x, g, m, w, q) ==
  [x EXCEPT !.step = "answered", !.got = g, !.more = m, !.whole = w, !.quiet = q]

LEMMA AnsweredFields ==
  ASSUME NEW x \in RunRecord, NEW g \in SUBSET RoomIds, NEW m \in BOOLEAN, NEW w \in SUBSET RoomIds,
         NEW q \in BOOLEAN
  PROVE  /\ AnsweredWith(x, g, m, w, q) \in RunRecord
         /\ AnsweredWith(x, g, m, w, q).step = "answered"
         /\ AnsweredWith(x, g, m, w, q).page = x.page /\ AnsweredWith(x, g, m, w, q).query = x.query
         /\ AnsweredWith(x, g, m, w, q).got = g /\ AnsweredWith(x, g, m, w, q).whole = w
         /\ AnsweredWith(x, g, m, w, q).more = m /\ AnsweredWith(x, g, m, w, q).quiet = q
BY DEF RunRecord, RunSteps, AnsweredWith

LEMMA WithPageFields ==
  ASSUME NEW x \in RunRecord, MyRooms \in SUBSET RoomIds, NEW y, y = WithPage(x)
  PROVE  /\ y \in RunRecord /\ y.step = "answered" /\ y.page = x.page /\ y.query = x.query
         /\ y.got = x.got \cup Page(x.page)
         /\ y.whole = (IF x.page = 1 THEN MyRooms ELSE x.whole)
         /\ y.more = (Cardinality(MyRooms) > x.page * PageLimit)
         /\ y.quiet = (x.page = 1 \/ (x.quiet /\ x.whole = MyRooms))
<1> DEFINE g == x.got \cup Page(x.page)
           m == Cardinality(MyRooms) > x.page * PageLimit
           w == IF x.page = 1 THEN MyRooms ELSE x.whole
           q == x.page = 1 \/ (x.quiet /\ x.whole = MyRooms)
<1>1. g \in SUBSET RoomIds /\ w \in SUBSET RoomIds
  BY DEF RunRecord, Page
<1>2. m \in BOOLEAN /\ q \in BOOLEAN
  OBVIOUS
<1>3. y = AnsweredWith(x, g, m, w, q)
  BY Zenon DEF WithPage, AnsweredWith
<1> HIDE DEF g, m, w, q
<1>4. /\ AnsweredWith(x, g, m, w, q) \in RunRecord /\ y.step = "answered" /\ y.page = x.page
      /\ y.query = x.query /\ y.got = g /\ y.whole = w
  BY <1>1, <1>2, <1>3, AnsweredFields
<1>5. y.more = m /\ y.quiet = q
  BY <1>1, <1>2, <1>3, AnsweredFields
<1> QED BY <1>3, <1>4, <1>5, Zenon DEF g, m, w, q

LEMMA AnswerPageKeeps ==
  ASSUME ListInv, NEW n \in ListRuns, AnswerPage(n)
  PROVE  ListInv'
<1> DEFINE x == run[n]
           y == run'[n]
<1>0. x \in RunRecord /\ MyRooms \in SUBSET RoomIds /\ y = WithPage(x)
  BY DEF AnswerPage, ListInv, RunTypeOK, MyRooms
<1>1. /\ Listing /\ x.step = "asked"
      /\ y.step = "answered" /\ y.page = x.page /\ y.query = x.query
      /\ y.got = x.got \cup Page(x.page)
      /\ y.more = (Cardinality(MyRooms) > x.page * PageLimit)
      /\ y.whole = (IF x.page = 1 THEN MyRooms ELSE x.whole)
      /\ y.quiet = (x.page = 1 \/ (x.quiet /\ x.whole = MyRooms))
      /\ \A k \in ListRuns : k # n => run'[k] = run[k]
      /\ UNCHANGED <<token, given, view, joinedRooms, liveRun, rooms, isLoading, loadError, typed, result, searchError, blanks>>
  BY <1>0, WithPageFields DEF AnswerPage, ListInv, RunTypeOK, authVars, memberships, listVars, searchVars
<1>2. MyRooms \in SUBSET RoomIds
  BY DEF MyRooms, ListInv, RunTypeOK
<1>3. RunTypeOK'
  <2>1. y \in RunRecord
    BY <1>0, WithPageFields
  <2>3. run' \in [ListRuns -> RunRecord]
    BY <1>0, <2>1 DEF AnswerPage, ListInv, RunTypeOK
  <2> QED BY <1>1, <2>3 DEF ListInv, RunTypeOK
<1>4. SearchInv'
  BY <1>1 DEF ListInv, SearchInv, LatestDrawn, HasError, HasResult, Listing
<1>5. ASSUME view = "rooms" PROVE Fetched(y)
  <2>1. Fetched(x) /\ x.page \in Nat \ {0}
    BY <1>5 DEF ListInv, DrawnInv, RunTypeOK, RunRecord
  <2>2. SUFFICES ASSUME y.quiet
                 PROVE  y.got = First(y.whole, y.page * PageLimit)
                        /\ y.more = (Cardinality(y.whole) > y.page * PageLimit)
    BY <1>1 DEF Fetched
  <2>3. y.whole = MyRooms
    BY <1>1, <2>2
  <2>4. First(MyRooms, (x.page - 1) * PageLimit) = x.got
    <3>1. CASE x.page = 1
      <4>1. (x.page - 1) * PageLimit = 0
        BY <3>1, ListsAssumption
      <4> QED BY <1>1, <1>2, <2>1, <3>1, <4>1, RoomsAreFinite, FirstNone DEF Fetched
    <3>2. CASE x.page # 1
      BY <1>1, <2>1, <2>2, <3>2 DEF Fetched
    <3> QED BY <3>1, <3>2
  <2>5. x.got \cup Page(x.page) = First(MyRooms, x.page * PageLimit)
    BY <1>2, <2>1, <2>4, PageFollows
  <2> HIDE DEF x, y
  <2> QED BY <1>1, <2>3, <2>5
<1>6. DrawnInv'
  <2> HIDE DEF x, y
  <2>1. ASSUME view = "rooms" PROVE \A k \in ListRuns : run'[k].step # "waiting" /\ Fetched(run'[k])
    BY <1>1, <1>5, <2>1 DEF y, ListInv, DrawnInv
  <2>2. ASSUME view = "rooms", liveRun # 0, ~isLoading, ~loadError
        PROVE  liveRun # n /\ liveRun \in ListRuns
    BY <1>1, <2>2 DEF x, ListInv, DrawnInv, RunTypeOK
  <2> QED BY <1>1, <2>1, <2>2 DEF ListInv, DrawnInv
<1> QED BY <1>1, <1>3, <1>4, <1>6 DEF ListInv

LEMMA NextPageKeeps ==
  ASSUME ListInv, NEW n \in ListRuns, NextPage(n)
  PROVE  ListInv'
<1> DEFINE x == run[n]
           y == run'[n]
<1>1. /\ view = "rooms" /\ x.step = "answered"
      /\ y.step = "asked" /\ y.page = x.page + 1 /\ y.query = x.query
      /\ y.got = x.got /\ y.whole = x.whole /\ y.quiet = x.quiet
      /\ \A k \in ListRuns : k # n => run'[k] = run[k]
      /\ UNCHANGED <<token, given, view, joinedRooms, liveRun, rooms, isLoading, loadError, typed, result, searchError, blanks>>
  BY DEF NextPage, ListInv, RunTypeOK, RunRecord, authVars, memberships, listVars, searchVars
<1>2. RunTypeOK'
  <2>1. run' \in [ListRuns -> RunRecord]
    BY DEF NextPage, ListInv, RunTypeOK, RunSteps, RunRecord
  <2> QED BY <1>1, <2>1 DEF ListInv, RunTypeOK
<1>3. SearchInv'
  BY <1>1 DEF ListInv, SearchInv, LatestDrawn, HasError, HasResult
<1>4. Fetched(y)
  <2>1. Fetched(x) /\ x.page \in Nat \ {0}
    BY <1>1 DEF ListInv, DrawnInv, RunTypeOK, RunRecord
  <2>2. y.page - 1 = x.page /\ y.page # 1
    BY <1>1, <2>1
  <2> QED BY <1>1, <2>1, <2>2 DEF Fetched
<1>5. DrawnInv'
  <2> HIDE DEF x, y
  <2>1. \A k \in ListRuns : run'[k].step # "waiting" /\ Fetched(run'[k])
    BY <1>1, <1>4 DEF y, ListInv, DrawnInv
  <2>2. ASSUME liveRun # 0, ~isLoading, ~loadError
        PROVE  liveRun # n /\ liveRun \in ListRuns
    BY <1>1, <2>2 DEF x, ListInv, DrawnInv, RunTypeOK
  <2> QED BY <1>1, <2>1, <2>2 DEF ListInv, DrawnInv
<1> QED BY <1>1, <1>2, <1>3, <1>5 DEF ListInv

LEMMA FailRunKeeps ==
  ASSUME ListInv, NEW n \in ListRuns, FailRun(n)
  PROVE  ListInv'
<1>1. /\ run[n].step = "asked" /\ run' = [run EXCEPT ![n].step = "failed"]
      /\ UNCHANGED <<authVars, view, joinedRooms, liveRun, rooms, isLoading, loadError, typed, result, searchError, blanks>>
  BY DEF FailRun, memberships, listVars, searchVars
<1>2. /\ RunTypeOK' /\ run'[n].step = "failed" /\ run'[n].query = run[n].query /\ Fetched(run'[n])
      /\ \A k \in ListRuns : k # n => run'[k] = run[k]
  BY <1>1, RunGoesOn DEF ListInv, RunSteps
<1>3. SearchInv'
  BY <1>1, <1>2 DEF ListInv, SearchInv, LatestDrawn, HasError, HasResult, authVars
<1>4. ASSUME view = "rooms", liveRun # 0, ~isLoading, ~loadError
      PROVE  liveRun # n /\ liveRun \in ListRuns
  BY <1>1, <1>4 DEF ListInv, DrawnInv, RunTypeOK
<1>5. DrawnInv'
  BY <1>1, <1>2, <1>4 DEF ListInv, DrawnInv
<1> QED BY <1>1, <1>2, <1>3, <1>5 DEF ListInv

\* What leaves the runs, the list and the search alone.
LEMMA ListKept ==
  ASSUME ListInv, view' \in {view, "room", "login"}, joinedRooms' \subseteq RoomIds,
         UNCHANGED <<authVars, run, liveRun, listVars, typed, result, searchError, blanks>>
  PROVE  ListInv'
<1>1. RunTypeOK'
  BY DEF ListInv, RunTypeOK, authVars
<1>2. DrawnInv'
  BY DEF ListInv, DrawnInv, listVars
<1>3. SearchInv'
  BY DEF ListInv, SearchInv, LatestDrawn, HasError, HasResult, authVars
<1> QED BY <1>1, <1>2, <1>3 DEF ListInv

LEMMA EntryKeeps ==
  ASSUME ListInv,
         \/ MembershipChanges \/ CloseModal \/ SubmitModal \/ EnterRoom \/ Entered \/ PickRoom
         \/ SelectUser \/ \E m \in {"create", "join"} : OpenModal(m)
  PROVE  ListInv'
<1> USE DEF memberships, listVars, searchVars
<1>1. joinedRooms \subseteq RoomIds
  BY DEF ListInv, RunTypeOK
<1>2. CASE MembershipChanges
  <2>1. joinedRooms' \subseteq RoomIds
    BY <1>1, <1>2 DEF MembershipChanges, RoomIds
  <2> QED BY <1>2, <2>1, ListKept DEF MembershipChanges
<1>3. CASE EnterRoom
  <2>1. joinedRooms' \subseteq RoomIds
    BY <1>1, <1>3 DEF EnterRoom, RoomIds
  <2> QED BY <1>3, <2>1, ListKept DEF EnterRoom
<1>4. CASE Entered
  BY <1>1, <1>4, ListKept DEF Entered
<1>5. CASE PickRoom
  BY <1>1, <1>5, ListKept DEF PickRoom
<1>6. CASE SelectUser
  BY <1>1, <1>6, ListKept DEF SelectUser
<1>7. CASE CloseModal \/ SubmitModal
  BY <1>1, <1>7, ListKept DEF CloseModal, SubmitModal
<1>8. ASSUME NEW m \in {"create", "join"}, OpenModal(m) PROVE ListInv'
  BY <1>1, <1>8, ListKept DEF OpenModal
<1> QED BY <1>2, <1>3, <1>4, <1>5, <1>6, <1>7, <1>8

LEMMA ListTokenKeeps ==
  ASSUME ListInv, ListToken
  PROVE  ListInv'
<1>1. token' \in Nat /\ given' \in Nat /\ typed \in Queries \cup {TooShort}
  BY DEF ListToken, AskRefresh, ApplySession, Answered, ListInv, RunTypeOK
<1>2. /\ view \in {"rooms", "dashboard"} /\ view' \in {"login", view}
      /\ UNCHANGED <<joinedRooms, rooms, typed, result, searchError, blanks>>
  BY DEF ListToken, Listing, memberships, searchVars, listVars
<1>3. CASE token' # token /\ token' # 0
  <2>1. RunAgain("asked", TooShort) /\ isLoading'
    BY <1>3 DEF ListToken
  <2>2. RunTypeOK'
    BY <1>1, <1>2, <2>1, RunAgainKeeps DEF ListInv
  <2>3. view' = "rooms" => \A n \in ListRuns : run'[n].step # "waiting" /\ Fetched(run'[n])
    BY <1>1, <1>2, <2>1, RunAgainKeeps DEF ListInv, DrawnInv
  <2> QED BY <1>1, <1>2, <2>1, <2>2, <2>3 DEF ListInv, DrawnInv, SearchInv, LatestDrawn, HasError, HasResult
<1>4. CASE ~(token' # token /\ token' # 0)
  <2>1. UNCHANGED <<run, listVars>> /\ liveRun' \in {0, liveRun}
    BY <1>4 DEF ListToken
  <2>2. RunTypeOK'
    BY <1>1, <1>2, <2>1 DEF ListInv, RunTypeOK
  <2> QED BY <1>1, <1>2, <2>1, <2>2 DEF ListInv, DrawnInv, SearchInv, LatestDrawn, HasError, HasResult, listVars
<1> QED BY <1>3, <1>4

LEMMA ListedKeeps ==
  ASSUME ListInv, NEW n \in ListRuns, Listed(n)
  PROVE  ListInv'
<1>1. /\ Listing /\ Ready(n) /\ run' = [run EXCEPT ![n].step = "over"]
      /\ UNCHANGED <<authVars, view, joinedRooms, liveRun, typed, result, searchError, blanks>>
  BY DEF Listed, memberships, searchVars
<1>2. /\ RunTypeOK' /\ run'[n].step = "over" /\ Fetched(run'[n])
      /\ run'[n].whole = run[n].whole /\ run'[n].quiet = run[n].quiet
      /\ \A k \in ListRuns : k # n => run'[k] = run[k]
  BY <1>1, RunGoesOn DEF ListInv, RunSteps
<1>3. SearchInv' /\ typed' \in Queries \cup {TooShort}
  BY <1>1 DEF ListInv, SearchInv, LatestDrawn, HasError, HasResult, Listing
<1>4. ASSUME view = "rooms" PROVE \A k \in ListRuns : run'[k].step # "waiting" /\ Fetched(run'[k])
  BY <1>1, <1>2, <1>4 DEF ListInv, DrawnInv
<1>5. ASSUME view = "rooms", n # liveRun, liveRun # 0, ~isLoading', ~loadError'
      PROVE  /\ run'[liveRun].step = "over" /\ rooms'.of = liveRun
             /\ run'[liveRun].quiet => rooms'.list = run'[liveRun].whole
  <2>1. UNCHANGED <<rooms, isLoading, loadError>>
    BY <1>5 DEF Listed, IsActive, listVars
  <2>2. liveRun \in ListRuns
    BY <1>5 DEF ListInv, RunTypeOK
  <2> QED BY <1>2, <1>5, <2>1, <2>2 DEF ListInv, DrawnInv
<1>6. ASSUME view = "rooms", n = liveRun, ~loadError'
      PROVE  /\ rooms'.of = n
             /\ run[n].quiet => rooms'.list = run[n].whole
  <2>1. Draw(n)
    BY <1>6 DEF Listed, IsActive
  <2>2. run[n].step = "answered" /\ ~run[n].more /\ rooms' = [of |-> n, list |-> run[n].got]
    BY <1>1, <1>6, <2>1 DEF Draw, Ready
  <2>3. ASSUME run[n].quiet PROVE run[n].got = run[n].whole
    <3>1. Fetched(run[n]) /\ run[n] \in RunRecord
      BY <1>6 DEF ListInv, DrawnInv, RunTypeOK
    <3>2. /\ run[n].got = First(run[n].whole, run[n].page * PageLimit)
          /\ ~(Cardinality(run[n].whole) > run[n].page * PageLimit)
      BY <2>2, <2>3, <3>1 DEF Fetched
    <3>3. run[n].whole \in SUBSET RoomIds /\ run[n].page * PageLimit \in Nat
      BY <3>1, ListsAssumption DEF RunRecord
    <3> QED BY <3>2, <3>3, RoomsAreFinite, FirstAll
  <2> QED BY <2>2, <2>3
<1>7. DrawnInv'
  BY <1>1, <1>2, <1>4, <1>5, <1>6 DEF DrawnInv
<1> QED BY <1>2, <1>3, <1>7 DEF ListInv

\* The search begins again, unless there is nothing to search for.
LEMMA SearchAgainKeeps ==
  ASSUME ListInv, view = "invite", view' = view, UNCHANGED joinedRooms,
         token' \in Nat, given' \in Nat, typed' \in Queries \cup {TooShort},
         SearchAgain(token', typed')
  PROVE  ListInv'
<1>1. CASE token' = 0 \/ typed' = TooShort
  <2>1. UNCHANGED run /\ liveRun' = 0
    BY <1>1 DEF SearchAgain
  <2> QED BY <1>1, <2>1 DEF ListInv, RunTypeOK, DrawnInv, SearchInv, LatestDrawn, HasError, HasResult
<1>2. CASE ~(token' = 0 \/ typed' = TooShort)
  <2>1. RunAgain("waiting", typed')
    BY <1>2 DEF SearchAgain
  <2>2. RunTypeOK' /\ liveRun' \in ListRuns /\ run'[liveRun'].step = "waiting" /\ run'[liveRun'].query = typed'
    BY <2>1, RunAgainKeeps DEF ListInv
  <2>3. liveRun' # 0
    BY <2>2 DEF ListRuns
  <2> QED BY <2>2, <2>3 DEF ListInv, DrawnInv, SearchInv, LatestDrawn, HasError, HasResult
<1> QED BY <1>1, <1>2

LEMMA SearchTokenKeeps ==
  ASSUME ListInv, SearchToken
  PROVE  ListInv'
<1>1. /\ view = "invite" /\ UNCHANGED <<view, joinedRooms, rooms, isLoading, loadError, typed, result, searchError>>
      /\ token' \in Nat /\ given' \in Nat /\ typed' \in Queries \cup {TooShort}
  BY DEF SearchToken, AskRefresh, ApplySession, Answered, ListInv, RunTypeOK, memberships, listVars
<1>2. CASE token' # token
  <2>1. SearchAgain(token', typed')
    BY <1>1, <1>2 DEF SearchToken
  <2> QED BY <1>1, <2>1, SearchAgainKeeps
<1>3. CASE token' = token
  <2>1. UNCHANGED <<run, liveRun, blanks>>
    BY <1>3 DEF SearchToken
  <2> QED BY <1>1, <1>3, <2>1 DEF ListInv, RunTypeOK, DrawnInv, SearchInv, LatestDrawn, HasError, HasResult
<1> QED BY <1>2, <1>3

LEMMA TypeKeeps ==
  ASSUME ListInv, NEW q \in Queries \cup {TooShort}, Type(q)
  PROVE  ListInv'
<1>1. /\ view = "invite" /\ UNCHANGED <<view, joinedRooms, rooms, isLoading, loadError>>
      /\ typed' = q /\ token' \in Nat /\ given' \in Nat /\ token' = token /\ given' = given
      /\ blanks' = (q = typed)
  BY DEF Type, ListInv, RunTypeOK, memberships, listVars, authVars
<1>2. CASE q # typed
  <2>1. SearchAgain(token', typed')
    BY <1>1, <1>2 DEF Type
  <2> QED BY <1>1, <2>1, SearchAgainKeeps
<1>3. CASE q = typed
  <2>1. UNCHANGED <<run, liveRun>>
    BY <1>3 DEF Type
  <2>2. blanks'
    BY <1>1, <1>3, Zenon
  <2>3. (~HasError' /\ ~HasResult') \/ typed' = TooShort
    BY DEF Type, NoAnswer, HasError, HasResult
  <2> QED BY <1>1, <1>3, <2>1, <2>2, <2>3 DEF ListInv, RunTypeOK, DrawnInv, SearchInv, LatestDrawn, HasError, HasResult
<1> QED BY <1>2, <1>3

LEMMA SearchKeeps ==
  ASSUME ListInv, NEW n \in ListRuns, AskSearch(n) \/ AnswerSearch(n) \/ Searched(n)
  PROVE  ListInv'
<1>1. /\ view = "invite" /\ run[n].step \in {"waiting", "asked", "answered", "failed"}
      /\ UNCHANGED <<authVars, view, joinedRooms, liveRun, rooms, isLoading, loadError, typed, blanks>>
  BY DEF AskSearch, AnswerSearch, Searched, memberships, listVars, searchVars
<1>2. PICK s \in {"asked", "answered", "over"} :
        /\ run' = [run EXCEPT ![n].step = s]
        /\ \/ UNCHANGED <<result, searchError>> /\ (n = liveRun => s # "over")
           \/ n = liveRun /\ result' = [query |-> run[n].query, of |-> n] /\ UNCHANGED searchError
           \/ n = liveRun /\ searchError' = [query |-> run[n].query, of |-> n] /\ UNCHANGED result
  BY DEF AskSearch, AnswerSearch, Searched, IsActive, searchVars
<1>3. /\ RunTypeOK' /\ run'[n].step = s /\ run'[n].query = run[n].query
      /\ \A k \in ListRuns : k # n => run'[k] = run[k]
  BY <1>1, <1>2, RunGoesOn DEF ListInv, RunSteps
<1>4. SearchInv'
  BY <1>1, <1>2, <1>3 DEF ListInv, SearchInv, LatestDrawn, HasError, HasResult, authVars
<1> QED BY <1>1, <1>3, <1>4 DEF ListInv, DrawnInv

LEMMA ListStep ==
  ASSUME ListInv, [RoomListsNext]_rlVars
  PROVE  ListInv'
<1>1. CASE \/ MembershipChanges \/ CloseModal \/ SubmitModal \/ EnterRoom \/ Entered \/ PickRoom
           \/ SelectUser \/ \E m \in {"create", "join"} : OpenModal(m)
  BY <1>1, EntryKeeps
<1>2. CASE ListToken
  BY <1>2, ListTokenKeeps
<1>3. CASE SearchToken
  BY <1>3, SearchTokenKeeps
<1>4. ASSUME NEW q \in Queries \cup {TooShort}, Type(q) PROVE ListInv'
  BY <1>4, TypeKeeps
<1>5. ASSUME NEW n \in ListRuns,
             \/ AnswerPage(n) \/ FailRun(n) \/ NextPage(n) \/ Listed(n)
             \/ AskSearch(n) \/ AnswerSearch(n) \/ Searched(n)
      PROVE  ListInv'
  BY <1>5, AnswerPageKeeps, FailRunKeeps, NextPageKeeps, ListedKeeps, SearchKeeps
<1>6. CASE UNCHANGED rlVars
  <2>1. joinedRooms' \subseteq RoomIds /\ view' = view
        /\ UNCHANGED <<authVars, run, liveRun, listVars, typed, result, searchError, blanks>>
    BY <1>6 DEF rlVars, roomListsVars, memberships, listVars, searchVars, ListInv, RunTypeOK
  <2> QED BY <2>1, ListKept
<1> QED BY <1>1, <1>2, <1>3, <1>4, <1>5, <1>6 DEF RoomListsNext

LEMMA ListInvIsEnough == ASSUME ListInv PROVE LatestAnswerShown
<1>1. ListIsLatest
  BY DEF ListInv, DrawnInv, ListIsLatest
<1>2. SearchGoesOn
  BY DEF ListInv, SearchInv, LatestDrawn, SearchGoesOn
<1>3. SearchIsLatest
  BY DEF ListInv, SearchInv, LatestDrawn, SearchIsLatest, DrawnRun
<1> QED BY <1>1, <1>2, <1>3 DEF LatestAnswerShown

\* Whatever tokens, answers and keys come in whatever order, for any number of
\* rooms, of any page size: RoomListView draws the list of its latest run, whole
\* if no membership changed meanwhile; InviteDialog draws the answer of its latest
\* search once that is over, or an earlier error of the same query in front of
\* it, and waits for no search that was not begun, but after blanks (loadRooms,
\* the effect of InviteDialog, listMyRooms).
THEOREM LatestStays == RoomListsSpec => []LatestAnswerShown
BY ListInit, ListStep, ListInvIsEnough, PTL DEF RoomListsSpec

-----------------------------------------------------------------------------

(***************************************************************************)
(* Under the router.                                                       *)
(***************************************************************************)

\* The page that is open keeps its invariant; of the others all that matters is
\* that they are not open.
WebInv ==
  /\ SentInv /\ AccountInv
  /\ IF route = "meeting" THEN JoinInv ELSE ~Here
  /\ IF route = "room" THEN LoadInv ELSE ~AtRoom
  /\ IF route = "lists" THEN ListInv ELSE view = "rooms" /\ liveRun = 0

LEMMA WebInitInv == ASSUME WebInit PROVE WebInv
<1>1. FilesInit /\ MeetingPageInit /\ RoomPageInit /\ RoomListsInit /\ AccountsInit
  BY DEF WebInit
<1>2. SentInv /\ AccountInv /\ JoinInv /\ LoadInv /\ ListInv
  BY <1>1, SentInit, AccountInit, JoinInit, LoadInit, ListInit
<1>3. /\ route # "meeting" => ~Here
      /\ route # "room" => ~AtRoom
      /\ route # "lists" => view = "rooms" /\ liveRun = 0
  BY DEF WebInit, Here, AtRoom, RoomListsInit
<1> QED BY <1>2, <1>3 DEF WebInv

\* A step is one of the open page, or nothing; a page that is not open keeps all
\* that is its own.
LEMMA WebStep ==
  ASSUME WebInv, [WebNext]_webVars
  PROVE  WebInv'
<1>1. route' = route
  BY DEF WebNext, webVars
<1>2. SentInv'
  <2>1. [FilesNext]_filesVars
    BY DEF WebNext, webVars
  <2> QED BY <2>1, SentStep DEF WebInv
<1>3. AccountInv'
  <2>1. CASE route = "account"
    <3>1. [AccountsNext]_acVars
      BY <2>1 DEF WebNext, webVars, acVars
    <3> QED BY <3>1, AccountStep DEF WebInv
  <2>2. CASE route # "account"
    <3>1. UNCHANGED accountsVars
      BY <2>2 DEF WebNext, webVars
    <3> QED BY <3>1 DEF accountsVars, WebInv, AccountInv
  <2> QED BY <2>1, <2>2
<1>4. IF route = "meeting" THEN JoinInv' ELSE ~Here'
  <2>1. CASE route = "meeting"
    <3>1. [MeetingPageNext]_mpVars
      BY <2>1 DEF WebNext, webVars, mpVars
    <3> QED BY <2>1, <3>1, JoinStep DEF WebInv
  <2>2. CASE route # "meeting"
    <3>1. UNCHANGED meetingPageVars
      BY <2>2 DEF WebNext, webVars
    <3> QED BY <2>2, <3>1 DEF meetingPageVars, WebInv, Here
  <2> QED BY <2>1, <2>2
<1>5. IF route = "room" THEN LoadInv' ELSE ~AtRoom'
  <2>1. CASE route = "room"
    <3>1. [RoomPageNext]_rpVars
      BY <2>1 DEF WebNext, webVars, rpVars
    <3> QED BY <2>1, <3>1, LoadStep DEF WebInv
  <2>2. CASE route # "room"
    <3>1. UNCHANGED roomPageVars
      BY <2>2 DEF WebNext, webVars
    <3> QED BY <2>2, <3>1 DEF roomPageVars, WebInv, AtRoom
  <2> QED BY <2>1, <2>2
<1>6. IF route = "lists" THEN ListInv' ELSE view' = "rooms" /\ liveRun' = 0
  <2>1. CASE route = "lists"
    <3>1. [RoomListsNext]_rlVars
      BY <2>1 DEF WebNext, webVars, rlVars
    <3> QED BY <2>1, <3>1, ListStep DEF WebInv
  <2>2. CASE route # "lists"
    <3>1. UNCHANGED roomListsVars
      BY <2>2 DEF WebNext, webVars
    <3> QED BY <2>2, <3>1 DEF roomListsVars, WebInv
  <2> QED BY <2>1, <2>2
<1> QED BY <1>1, <1>2, <1>3, <1>4, <1>5, <1>6 DEF WebInv

LEMMA WebInvIsEnough ==
  ASSUME WebInv
  PROVE  /\ AttachmentIsThere /\ ComposerSends /\ NoEndlessSpinner
         /\ OwnWorkIsShown /\ LatestAnswerShown /\ OneAccount
<1>1. AttachmentIsThere /\ ComposerSends
  BY SentInvIsEnough DEF WebInv
<1>2. NoEndlessSpinner
  BY JoinInvIsEnough DEF WebInv, NoEndlessSpinner
<1>3. OwnWorkIsShown
  BY LoadInvIsEnough DEF WebInv, OwnWorkIsShown
<1>4. LatestAnswerShown
  <2>1. view = "rooms" /\ liveRun = 0 => LatestAnswerShown
    BY DEF LatestAnswerShown, ListIsLatest, SearchGoesOn, SearchIsLatest
  <2> QED BY <2>1, ListInvIsEnough DEF WebInv
<1>5. OneAccount
  BY AccountInvIsEnough DEF WebInv
<1> QED BY <1>1, <1>2, <1>3, <1>4, <1>5

\* The web client as it is checked, one page under the router and the token
\* shared: what each page promises by itself, it promises there.
THEOREM PagesKeepPromises ==
  WebSpec => [](/\ AttachmentIsThere /\ ComposerSends /\ NoEndlessSpinner
                /\ OwnWorkIsShown /\ LatestAnswerShown /\ OneAccount)
BY WebInitInv, WebStep, WebInvIsEnough, PTL DEF WebSpec
=============================================================================
