----------------------------- MODULE LambdaApi -----------------------------
(***************************************************************************)
(* The REST interface UserInterface/lambda.rb that wrapper.rb starts.  The *)
(* server runs one handler per connection, so several requests are in      *)
(* progress at once; every database command is a step of its own, because  *)
(* between two of them the handlers of other requests, and the lambda      *)
(* service, use the same collections.                                      *)
(*                                                                         *)
(* A handler that replies without having changed anything (Duplicate       *)
(* Function, unknown name, GET) is a stuttering step: it is the negation   *)
(* of the guard of the action that starts the request.                     *)
(*                                                                         *)
(* Definitions named X_Y are faulty variants of X that the properties must *)
(* tell from X; no specification uses them.                                *)
(***************************************************************************)
EXTENDS Mongo

CONSTANTS
  Requests,      \* connections the server handles at the same time
  Operations,    \* the operations the clients ask for
  UpdateFields,  \* the metadata fields PUT requests may carry
  LastUploadId   \* bound: no upload starts once this ObjectId is used

ASSUME ApiAssumption ==
  /\ Operations \subseteq {"upload", "register", "update", "delete"}
  /\ UpdateFields \subseteq {"etype", "source", "memory"}
  /\ LastUploadId \in 0..MaxId

VARIABLE req    \* req[r]: what the handler of connection r holds

apiVars == <<mapping, files, chunks, nextId, req>>

Idle == [pc |-> "idle"]

Opening == [pc : {"open"}, user : Users, file : FileNames, size : 1..MaxChunks]
Uploading == [pc : {"chunks", "commit"}, id : Ids, user : Users,
              file : FileNames, size : 1..MaxChunks]
Registering == [pc : {"count", "find"}, user : Users, file : FileNames,
                meta : Metadata]
Inserting == [pc : {"insert"}, user : Users, file : FileNames,
              meta : Metadata, todo : SUBSET Ids]
Updating == [pc : {"set"}, user : Users, file : FileNames, meta : Metadata,
             fields : SUBSET UpdateFields]
Deleting == [pc : {"delFile", "delChunk", "delDoc"}, id : Ids, user : Users,
             file : FileNames]

Handler == {Idle} \union Opening \union Uploading \union Registering
             \union Inserting \union Updating \union Deleting

ApiTypeOK == MongoTypeOK /\ req \in [Requests -> Handler]

ApiInit == MongoInit /\ req = [r \in Requests |-> Idle]

Goto(r, state) == req' = [req EXCEPT ![r] = state]

----------------------------------------------------------------------------
(* POST /lambda/fileupload *)

\* The count of uploaded files of that name is 0.
UploadBegin(r, u, f, n) ==
  /\ req[r] = Idle
  /\ UploadedFiles(u, f) = {}
  /\ nextId <= LastUploadId
  /\ Goto(r, [pc |-> "open", user |-> u, file |-> f, size |-> n])
  /\ UNCHANGED dbVars

\* The upload stream chooses the _id of the file.
UploadOpen(r) ==
  /\ req[r].pc = "open"
  /\ nextId <= LastUploadId
  /\ nextId' = nextId + 1
  /\ Goto(r, [pc |-> "chunks", id |-> nextId, user |-> req[r].user,
              file |-> req[r].file, size |-> req[r].size])
  /\ UNCHANGED <<mapping, files, chunks>>

UploadChunks_OneMore(r) ==
  /\ req[r].pc = "chunks"
  /\ chunks' = chunks \union ChunksOf(req[r].id, req[r].size + 1)
  /\ Goto(r, [req[r] EXCEPT !.pc = "commit"])
  /\ UNCHANGED <<mapping, files, nextId>>

\* Writing the stream inserts the chunks ...
UploadChunks(r) ==
  /\ req[r].pc = "chunks"
  /\ chunks' = chunks \union ChunksOf(req[r].id, req[r].size)
  /\ Goto(r, [req[r] EXCEPT !.pc = "commit"])
  /\ UNCHANGED <<mapping, files, nextId>>

\* ... and closing it inserts the file document, with the user as metadata.
UploadCommit(r) ==
  /\ req[r].pc = "commit"
  /\ files' = files \union {[id |-> req[r].id, user |-> req[r].user,
                             name |-> req[r].file, size |-> req[r].size]}
  /\ Goto(r, Idle)
  /\ UNCHANGED <<mapping, chunks, nextId>>

----------------------------------------------------------------------------
(* POST /lambda *)

\* The count of mapping documents of the function is 0.
RegisterBegin(r, u, f, m) ==
  /\ req[r] = Idle
  /\ FunctionDocs(u, f) = {}
  /\ Goto(r, [pc |-> "count", user |-> u, file |-> f, meta |-> m])
  /\ UNCHANGED dbVars

\* The count of uploaded files; "No function found" ends the request.
RegisterCount(r) ==
  /\ req[r].pc = "count"
  /\ Goto(r, IF UploadedFiles(req[r].user, req[r].file) = {} THEN Idle
             ELSE [req[r] EXCEPT !.pc = "find"])
  /\ UNCHANGED dbVars

\* The cursor over the uploaded files fetches its batch.
RegisterFind_AnyOwner(r) ==
  LET found == {g.id : g \in {h \in files : h.name = req[r].file}}
  IN  /\ req[r].pc = "find"
      /\ Goto(r, IF found = {} THEN Idle
                 ELSE [pc |-> "insert", user |-> req[r].user,
                       file |-> req[r].file, meta |-> req[r].meta,
                       todo |-> found])
      /\ UNCHANGED dbVars

RegisterFind(r) ==
  LET found == {g.id : g \in UploadedFiles(req[r].user, req[r].file)}
  IN  /\ req[r].pc = "find"
      /\ Goto(r, IF found = {} THEN Idle
                 ELSE [pc |-> "insert", user |-> req[r].user,
                       file |-> req[r].file, meta |-> req[r].meta,
                       todo |-> found])
      /\ UNCHANGED dbVars

\* One registration per file, under the _id of the file; a duplicate _id
\* raises and ends the request.
RegisterInsert(r) ==
  /\ req[r].pc = "insert"
  /\ \E i \in req[r].todo :
       IF i \in DocIds
       THEN Goto(r, Idle) /\ UNCHANGED mapping
       ELSE /\ InsertDoc([id |-> i, pos |-> i, user |-> req[r].user,
                          file |-> req[r].file,
                          source |-> req[r].meta.source,
                          etype |-> req[r].meta.etype,
                          memory |-> req[r].meta.memory,
                          seq |-> 0, run |-> NoRun])
            /\ Goto(r, IF req[r].todo = {i} THEN Idle
                       ELSE [req[r] EXCEPT !.todo = @ \ {i}])
  /\ UNCHANGED <<files, chunks, nextId>>

----------------------------------------------------------------------------
(* PUT /lambda *)

\* The function exists: the fields that are not nil are set one by one.
UpdateBegin(r, u, f, m, fields) ==
  /\ req[r] = Idle
  /\ FunctionDocs(u, f) # {}
  /\ fields # {}
  /\ Goto(r, [pc |-> "set", user |-> u, file |-> f, meta |-> m,
              fields |-> fields])
  /\ UNCHANGED dbVars

\* The order of the if statements of the handler.
NextField(fields) ==
  IF "etype" \in fields THEN "etype"
  ELSE IF "source" \in fields THEN "source" ELSE "memory"

UpdateField(r) ==
  LET field == NextField(req[r].fields)
      rest == req[r].fields \ {field}
  IN  /\ req[r].pc = "set"
      /\ SetFirst(FunctionDocs(req[r].user, req[r].file), field,
                  req[r].meta[field])
      /\ Goto(r, IF rest = {} THEN Idle ELSE [req[r] EXCEPT !.fields = rest])
      /\ UNCHANGED <<files, chunks, nextId>>

----------------------------------------------------------------------------
(* DELETE /lambda/:UserName/:FileName *)

\* The body of the loop over the function's documents returns, so only the
\* first document is deleted.
DeleteBegin_AnyOwner(r, u, f) ==
  /\ req[r] = Idle
  /\ \E d \in First({e \in mapping : e.file = f}) :
       Goto(r, [pc |-> "delFile", id |-> d.id, user |-> u, file |-> f])
  /\ UNCHANGED dbVars

DeleteBegin(r, u, f) ==
  /\ req[r] = Idle
  /\ \E d \in First(FunctionDocs(u, f)) :
       Goto(r, [pc |-> "delFile", id |-> d.id, user |-> u, file |-> f])
  /\ UNCHANGED dbVars

DeleteFile_ChunkFirst(r) ==
  /\ req[r].pc = "delFile"
  /\ DeleteOneChunk(req[r].id)
  /\ Goto(r, [req[r] EXCEPT !.pc = "delChunk"])
  /\ UNCHANGED <<mapping, files, nextId>>

DeleteFile(r) ==
  /\ req[r].pc = "delFile"
  /\ DeleteFileDoc(req[r].id)
  /\ Goto(r, [req[r] EXCEPT !.pc = "delChunk"])
  /\ UNCHANGED <<mapping, chunks, nextId>>

DeleteChunk(r) ==
  /\ req[r].pc = "delChunk"
  /\ DeleteOneChunk(req[r].id)
  /\ Goto(r, [req[r] EXCEPT !.pc = "delDoc"])
  /\ UNCHANGED <<mapping, files, nextId>>

\* The last deletion; the reply is "Function Deleted!".
DeleteDoc(r) ==
  /\ req[r].pc = "delDoc"
  /\ DeleteDocument(req[r].id)
  /\ Goto(r, Idle)
  /\ UNCHANGED <<files, chunks, nextId>>

----------------------------------------------------------------------------
\* A database command of the handler raises (lost connection, the server is
\* stopped): the request ends where it is.
RequestFails(r) ==
  /\ req[r] # Idle
  /\ Goto(r, Idle)
  /\ UNCHANGED dbVars

HandlerStep(r) ==
  \/ UploadOpen(r) \/ UploadChunks(r) \/ UploadCommit(r)
  \/ RegisterCount(r) \/ RegisterFind(r) \/ RegisterInsert(r)
  \/ UpdateField(r)
  \/ DeleteFile(r) \/ DeleteChunk(r) \/ DeleteDoc(r)

RequestBegins(r) ==
  \E u \in Users, f \in FileNames :
    \/ /\ "upload" \in Operations
       /\ \E n \in 1..MaxChunks : UploadBegin(r, u, f, n)
    \/ /\ "register" \in Operations
       /\ \E m \in Metadata : RegisterBegin(r, u, f, m)
    \/ /\ "update" \in Operations
       /\ \E m \in Metadata, fields \in SUBSET UpdateFields :
            UpdateBegin(r, u, f, m, fields)
    \/ /\ "delete" \in Operations
       /\ DeleteBegin(r, u, f)

ApiNext ==
  \E r \in Requests : RequestBegins(r) \/ HandlerStep(r) \/ RequestFails(r)

ApiSpec == ApiInit /\ [][ApiNext]_apiVars
=============================================================================
