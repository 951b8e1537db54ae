-------------------------- MODULE LambdaApiProofs --------------------------
(***************************************************************************)
(* ApiInv is an invariant of the REST interface for every number of users, *)
(* files, connections, ObjectIds and chunks, and with it the properties of *)
(* LambdaApiProperties.                                                    *)
(***************************************************************************)
EXTENDS LambdaApiProperties, TLAPS

\* What the type invariant says of a handler, by its program counter.
LEMMA HandlerType ==
  ASSUME ApiTypeOK, NEW r \in Requests
  PROVE  /\ req[r] \in Handler
         /\ req[r] = Idle <=> req[r].pc = "idle"
         /\ req[r].pc = "open" => req[r] \in Opening
         /\ Uploads(r) => req[r] \in Uploading
         /\ req[r].pc \in {"count", "find"} => req[r] \in Registering
         /\ req[r].pc = "insert" => req[r] \in Inserting
         /\ req[r].pc = "set" => req[r] \in Updating
         /\ Deletes(r) => req[r] \in Deleting
<1>1. req[r] \in Handler
  BY DEF ApiTypeOK
<1>2. CASE req[r] = Idle
  BY <1>1, <1>2 DEF Idle, Uploads, Deletes
<1>3. CASE req[r] \in Uploading
  BY <1>1, <1>3 DEF Idle, Uploads, Deletes, Uploading
<1>4. CASE req[r] \in Registering
  BY <1>1, <1>4 DEF Idle, Uploads, Deletes, Registering
<1>5. CASE req[r] \in Inserting
  BY <1>1, <1>5 DEF Idle, Uploads, Deletes, Inserting
<1>6. CASE req[r] \in Updating
  BY <1>1, <1>6 DEF Idle, Uploads, Deletes, Updating
<1>7. CASE req[r] \in Deleting
  BY <1>1, <1>7 DEF Idle, Uploads, Deletes, Deleting
<1>8. CASE req[r] \in Opening
  BY <1>1, <1>8 DEF Idle, Uploads, Deletes, Opening
<1>. QED
  BY <1>1, <1>2, <1>3, <1>4, <1>5, <1>6, <1>7, <1>8 DEF Handler

\* A step of one handler leaves the type of the others alone.
LEMMA GotoType ==
  ASSUME ApiTypeOK, NEW r \in Requests, NEW state \in Handler, Goto(r, state)
  PROVE  /\ req' \in [Requests -> Handler]
         /\ req'[r] = state
         /\ \A s \in Requests \ {r} : req'[s] = req[s]
BY DEF ApiTypeOK, Goto

LEMMA ApiTypeInit == ApiInit => ApiTypeOK
BY TypesAssumption DEF ApiInit, MongoInit, ApiTypeOK, MongoTypeOK, Handler

\* An inserted registration is a mapping document.
LEMMA InsertType ==
  ASSUME mapping \subseteq Document, NEW doc \in Document, InsertDoc(doc)
  PROVE  mapping' \subseteq Document
BY DEF InsertDoc, FreePositions, Document, Ids

\* RegisterInsert adds one document at most, under the _id of the file.
LEMMA InsertStep ==
  ASSUME NEW r \in Requests, NEW i,
         InsertDoc([id |-> i, pos |-> i, user |-> req[r].user,
                    file |-> req[r].file, source |-> req[r].meta.source,
                    etype |-> req[r].meta.etype,
                    memory |-> req[r].meta.memory, seq |-> 0, run |-> NoRun])
  PROVE  \A d \in mapping' :
             \/ d \in mapping
             \/ d.id = i /\ d.user = req[r].user /\ d.file = req[r].file
BY DEF InsertDoc

\* $set of one of the three fields a PUT can name keeps mapping documents
\* mapping documents of the same function.
LEMMA SetType ==
  ASSUME mapping \subseteq Document, NEW docs \in SUBSET mapping,
         NEW meta \in Metadata, NEW field \in {"etype", "source", "memory"},
         SetFirst(docs, field, meta[field])
  PROVE  /\ mapping' \subseteq Document
         /\ \A d \in mapping' : \E e \in mapping :
              d.id = e.id /\ d.user = e.user /\ d.file = e.file
<1>1. CASE UNCHANGED mapping
  BY <1>1
<1>2. ASSUME NEW d \in First(docs),
             mapping' = (mapping \ {d}) \union {[d EXCEPT ![field] = meta[field]]}
      PROVE  /\ mapping' \subseteq Document
             /\ \A e \in mapping' : \E g \in mapping :
                  e.id = g.id /\ e.user = g.user /\ e.file = g.file
  <2>1. d \in mapping /\ d \in Document
    BY DEF First
  <2>2. /\ [d EXCEPT ![field] = meta[field]] \in Document
        /\ [d EXCEPT ![field] = meta[field]].id = d.id
        /\ [d EXCEPT ![field] = meta[field]].user = d.user
        /\ [d EXCEPT ![field] = meta[field]].file = d.file
    <3>1. CASE field = "etype"
      BY <2>1, <3>1 DEF Document, Metadata
    <3>2. CASE field = "source"
      BY <2>1, <3>2 DEF Document, Metadata
    <3>3. CASE field = "memory"
      BY <2>1, <3>3 DEF Document, Metadata
    <3>. QED
      BY <3>1, <3>2, <3>3
  <2>. QED
    BY <1>2, <2>1, <2>2
<1>. QED
  BY <1>1, <1>2 DEF SetFirst

----------------------------------------------------------------------------
(* Type correctness. *)

LEMMA ApiTypeNext ==
  ASSUME ApiTypeOK, ApiNext
  PROVE  ApiTypeOK'
<1>. USE DEF ApiTypeOK, MongoTypeOK
<1>1. PICK r \in Requests : RequestBegins(r) \/ HandlerStep(r) \/ RequestFails(r)
  BY DEF ApiNext
<1>2. ASSUME NEW u \in Users, NEW f \in FileNames, NEW n \in 1..MaxChunks,
             UploadBegin(r, u, f, n)
      PROVE  ApiTypeOK'
  <2>1. [pc |-> "open", user |-> u, file |-> f, size |-> n] \in Handler
    BY DEF Handler, Opening
  <2>. QED
    BY <1>2, <2>1, GotoType DEF UploadBegin, dbVars
<1>3. ASSUME NEW u \in Users, NEW f \in FileNames, NEW m \in Metadata,
             RegisterBegin(r, u, f, m)
      PROVE  ApiTypeOK'
  <2>1. [pc |-> "count", user |-> u, file |-> f, meta |-> m] \in Handler
    BY DEF Handler, Registering
  <2>. QED
    BY <1>3, <2>1, GotoType DEF RegisterBegin, dbVars
<1>4. ASSUME NEW u \in Users, NEW f \in FileNames, NEW m \in Metadata,
             NEW fields \in SUBSET UpdateFields,
             UpdateBegin(r, u, f, m, fields)
      PROVE  ApiTypeOK'
  <2>1. [pc |-> "set", user |-> u, file |-> f, meta |-> m, fields |-> fields]
          \in Handler
    BY DEF Handler, Updating
  <2>. QED
    BY <1>4, <2>1, GotoType DEF UpdateBegin, dbVars
<1>5. ASSUME NEW u \in Users, NEW f \in FileNames, DeleteBegin(r, u, f)
      PROVE  ApiTypeOK'
  <2>1. PICK d \in mapping :
          Goto(r, [pc |-> "delFile", id |-> d.id, user |-> u, file |-> f])
    BY <1>5 DEF DeleteBegin, First, FunctionDocs
  <2>2. [pc |-> "delFile", id |-> d.id, user |-> u, file |-> f] \in Handler
    BY DEF Handler, Deleting, Document
  <2>. QED
    BY <1>5, <2>1, <2>2, GotoType DEF DeleteBegin, dbVars
<1>6. CASE UploadChunks(r)
  <2>1. req[r] \in Uploading
    BY <1>6, HandlerType DEF UploadChunks, Uploads
  <2>2. [req[r] EXCEPT !.pc = "commit"] \in Handler
    BY <2>1 DEF Handler, Uploading
  <2>3. ChunksOf(req[r].id, req[r].size) \subseteq (Ids \X (1..MaxChunks))
    BY <2>1, TypesAssumption DEF ChunksOf, Uploading
  <2>. QED
    BY <1>6, <2>2, <2>3, GotoType DEF UploadChunks
<1>7. CASE UploadCommit(r)
  <2>1. req[r] \in Uploading
    BY <1>7, HandlerType DEF UploadCommit, Uploads
  <2>2. [id |-> req[r].id, user |-> req[r].user, name |-> req[r].file,
         size |-> req[r].size] \in File
    BY <2>1 DEF Uploading, File
  <2>. QED
    BY <1>7, <2>2, GotoType DEF UploadCommit, Handler
<1>8. CASE RegisterCount(r)
  <2>1. req[r] \in Registering
    BY <1>8, HandlerType DEF RegisterCount
  <2>2. Idle \in Handler /\ [req[r] EXCEPT !.pc = "find"] \in Handler
    BY <2>1 DEF Handler, Registering
  <2>. QED
    BY <1>8, <2>2, GotoType DEF RegisterCount, dbVars
<1>9. CASE RegisterFind(r)
  <2>. DEFINE found == {g.id : g \in UploadedFiles(req[r].user, req[r].file)}
  <2>1. req[r] \in Registering
    BY <1>9, HandlerType DEF RegisterFind
  <2>2. found \subseteq Ids
    BY DEF UploadedFiles, File
  <2>3. /\ Idle \in Handler
        /\ [pc |-> "insert", user |-> req[r].user, file |-> req[r].file,
            meta |-> req[r].meta, todo |-> found] \in Handler
    BY <2>1, <2>2 DEF Handler, Registering, Inserting
  <2>. QED
    BY <1>9, <2>3, GotoType DEF RegisterFind, dbVars
<1>10. CASE RegisterInsert(r)
  <2>1. req[r] \in Inserting
    BY <1>10, HandlerType DEF RegisterInsert
  <2>2. PICK i \in req[r].todo :
          \/ Goto(r, Idle) /\ UNCHANGED mapping
          \/ /\ InsertDoc([id |-> i, pos |-> i, user |-> req[r].user,
                           file |-> req[r].file,
                           source |-> req[r].meta.source,
                           etype |-> req[r].meta.etype,
                           memory |-> req[r].meta.memory,
                           seq |-> 0, run |-> NoRun])
             /\ \/ Goto(r, Idle)
                \/ Goto(r, [req[r] EXCEPT !.todo = @ \ {i}])
    BY <1>10 DEF RegisterInsert
  <2>3. /\ Idle \in Handler
        /\ [req[r] EXCEPT !.todo = @ \ {i}] \in Handler
    BY <2>1 DEF Handler, Inserting
  <2>4. [id |-> i, pos |-> i, user |-> req[r].user, file |-> req[r].file,
         source |-> req[r].meta.source, etype |-> req[r].meta.etype,
         memory |-> req[r].meta.memory, seq |-> 0, run |-> NoRun] \in Document
    BY <2>1 DEF Inserting, Metadata, Document, NoRun
  <2>5. mapping' \subseteq Document
    BY <2>2, <2>4, InsertType
  <2>6. req' \in [Requests -> Handler]
    BY <2>2, <2>3, GotoType
  <2>. QED
    BY <1>10, <2>5, <2>6 DEF RegisterInsert
<1>11. CASE UpdateField(r)
  <2>. DEFINE field == NextField(req[r].fields)
              rest == req[r].fields \ {field}
  <2>1. req[r] \in Updating
    BY <1>11, HandlerType DEF UpdateField
  <2>2. field \in {"etype", "source", "memory"}
    BY DEF NextField
  <2>3. SetFirst(FunctionDocs(req[r].user, req[r].file), field,
                 req[r].meta[field])
    BY <1>11 DEF UpdateField
  <2>4. mapping' \subseteq Document
    <3>1. FunctionDocs(req[r].user, req[r].file) \in SUBSET mapping
      BY DEF FunctionDocs
    <3>2. req[r].meta \in Metadata
      BY <2>1 DEF Updating
    <3>. HIDE DEF field
    <3>. QED
      BY <2>2, <2>3, <3>1, <3>2, SetType
  <2>5. Idle \in Handler /\ [req[r] EXCEPT !.fields = rest] \in Handler
    BY <2>1 DEF Handler, Updating
  <2>6. Goto(r, IF rest = {} THEN Idle ELSE [req[r] EXCEPT !.fields = rest])
    BY <1>11 DEF UpdateField
  <2>. QED
    BY <1>11, <2>4, <2>5, <2>6, GotoType DEF UpdateField
<1>12. CASE DeleteFile(r) \/ DeleteChunk(r)
  <2>1. req[r] \in Deleting
    BY <1>12, HandlerType DEF DeleteFile, DeleteChunk, Deletes
  <2>2. \A p \in {"delChunk", "delDoc"} : [req[r] EXCEPT !.pc = p] \in Handler
    BY <2>1 DEF Handler, Deleting
  <2>. QED
    BY <1>12, <2>2, GotoType
    DEF DeleteFile, DeleteChunk, DeleteFileDoc, DeleteOneChunk
<1>13. CASE DeleteDoc(r)
  BY <1>13, GotoType DEF DeleteDoc, DeleteDocument, Handler
<1>14. CASE RequestFails(r)
  BY <1>14, GotoType DEF RequestFails, Handler, dbVars
<1>15. CASE UploadOpen(r)
  <2>. DEFINE state == [pc |-> "chunks", id |-> nextId, user |-> req[r].user,
                        file |-> req[r].file, size |-> req[r].size]
  <2>1. req[r] \in Opening
    BY <1>15, HandlerType DEF UploadOpen
  <2>2. state \in Handler /\ nextId' \in 1..(MaxId + 1)
    BY <1>15, <2>1, TypesAssumption, ApiAssumption
    DEF UploadOpen, Handler, Opening, Uploading, Ids
  <2>. QED
    BY <1>15, <2>2, GotoType DEF UploadOpen
<1>. QED
  BY <1>1, <1>2, <1>3, <1>4, <1>5, <1>6, <1>7, <1>8, <1>9, <1>10, <1>11,
     <1>12, <1>13, <1>14, <1>15 DEF RequestBegins, HandlerStep

\* Every database document and every handler of the REST interface has the
\* shape lambda.rb gives it, in every state the requests can reach.
THEOREM ApiTypeCorrect == ApiSpec => []ApiTypeOK
<1>1. ApiTypeOK /\ UNCHANGED apiVars => ApiTypeOK'
  BY DEF apiVars, ApiTypeOK, MongoTypeOK
<1>. QED
  BY <1>1, ApiTypeInit, ApiTypeNext, PTL DEF ApiSpec

----------------------------------------------------------------------------
(* Who owns which ObjectId. *)

\* The ids a handler holds depend on that handler alone.
LEMMA HeldByOthers ==
  ASSUME ApiTypeOK, NEW r \in Requests, NEW state \in Handler,
         Goto(r, state), NEW s \in Requests \ {r}
  PROVE  /\ HeldIds(s)' = HeldIds(s)
         /\ Uploads(s)' = Uploads(s)
         /\ req'[s] = req[s]
BY GotoType DEF HeldIds, Uploads, Deletes

\* A step of a request makes no new claim, except for an ObjectId that is new.
ClaimStep ==
  \/ Claims' \subseteq Claims /\ UNCHANGED nextId
  \/ /\ \E u, f : Claims' \subseteq Claims \union {<<nextId, u, f>>}
     /\ nextId' = nextId + 1

\* Ownership survives such a step.
LEMMA OwnershipKept ==
  ASSUME ApiTypeOK, Ownership, ClaimStep
  PROVE  Ownership'
<1>1. CASE Claims' \subseteq Claims /\ UNCHANGED nextId
  BY <1>1 DEF Ownership
<1>2. ASSUME NEW u, NEW f, Claims' \subseteq Claims \union {<<nextId, u, f>>},
             nextId' = nextId + 1
      PROVE  Ownership'
  <2>1. nextId \in Nat
    BY DEF ApiTypeOK, MongoTypeOK
  <2>2. \A a \in Claims : a[1] \in Nat
    <3>1. /\ \A g \in files : g.id \in Nat
          /\ \A d \in mapping : d.id \in Nat
          /\ \A s \in Requests : HeldIds(s) \subseteq Nat
      BY DEF ApiTypeOK, MongoTypeOK, Document, File, HeldIds, Ids
    <3>. QED
      BY <3>1 DEF Claims
  <2>. QED
    BY <1>2, <2>1, <2>2 DEF Ownership
<1>. QED
  BY <1>1, <1>2 DEF ClaimStep

\* A step introduces no claim when the documents it leaves and the ids its
\* handler holds afterwards were claimed for the same function before.
LEMMA ClaimsOfStep ==
  ASSUME ApiTypeOK, NEW r \in Requests, NEW state \in Handler,
         Goto(r, state),
         \A g \in files' : <<g.id, g.user, g.name>> \in Claims,
         \A d \in mapping' : <<d.id, d.user, d.file>> \in Claims,
         \A i \in HeldIds(r)' : <<i, req'[r].user, req'[r].file>> \in Claims
  PROVE  Claims' \subseteq Claims
<1>1. ASSUME NEW s \in Requests, NEW i \in HeldIds(s)'
      PROVE  <<i, req'[s].user, req'[s].file>> \in Claims
  <2>1. CASE s = r
    BY <2>1, <1>1
  <2>2. CASE s # r
    BY <2>2, <1>1, HeldByOthers DEF Claims
  <2>. QED
    BY <2>1, <2>2
<1>. QED
  BY <1>1 DEF Claims

\* The claims there are before a step.
LEMMA ClaimsNow ==
  /\ \A g \in files : <<g.id, g.user, g.name>> \in Claims
  /\ \A d \in mapping : <<d.id, d.user, d.file>> \in Claims
  /\ \A s \in Requests : \A i \in HeldIds(s) :
       <<i, req[s].user, req[s].file>> \in Claims
BY DEF Claims

LEMMA ClaimsNext ==
  ASSUME ApiTypeOK, ApiNext
  PROVE  ClaimStep
<1>1. PICK r \in Requests : RequestBegins(r) \/ HandlerStep(r) \/ RequestFails(r)
  BY DEF ApiNext
<1>2. CASE UploadOpen(r)
  <2>. DEFINE u == req[r].user
              f == req[r].file
              state == [pc |-> "chunks", id |-> nextId, user |-> u,
                        file |-> f, size |-> req[r].size]
  <2>0. req[r] \in Opening
    BY <1>2, HandlerType DEF UploadOpen
  <2>1. state \in Handler /\ Goto(r, state)
    BY <1>2, <2>0, TypesAssumption, ApiAssumption
    DEF UploadOpen, Handler, Opening, Uploading, Ids, ApiTypeOK, MongoTypeOK
  <2>2. Claims' \subseteq Claims \union {<<nextId, u, f>>}
    <3>1. HeldIds(r)' \subseteq {nextId} /\ req'[r].user = u /\ req'[r].file = f
      BY <2>1, GotoType DEF HeldIds, Uploads, Deletes
    <3>2. ASSUME NEW s \in Requests, NEW i \in HeldIds(s)'
          PROVE  <<i, req'[s].user, req'[s].file>>
                   \in Claims \union {<<nextId, u, f>>}
      BY <2>1, <3>1, <3>2, HeldByOthers, ClaimsNow
    <3>. QED
      BY <1>2, <3>2 DEF Claims, UploadOpen
  <2>3. nextId' = nextId + 1
    BY <1>2 DEF UploadOpen
  <2>. QED
    BY <2>2, <2>3 DEF ClaimStep
<1>3. ASSUME NEW state \in Handler, Goto(r, state), UNCHANGED nextId,
             files' \subseteq files, mapping' \subseteq mapping,
             \/ HeldIds(r)' = {}
             \/ /\ HeldIds(r)' \subseteq HeldIds(r)
                /\ req'[r].user = req[r].user /\ req'[r].file = req[r].file
      PROVE  ClaimStep
  BY <1>3, ClaimsNow, ClaimsOfStep DEF ClaimStep
<1>4. CASE \E u \in Users, f \in FileNames :
             \/ \E n \in 1..MaxChunks : UploadBegin(r, u, f, n)
             \/ \E m \in Metadata :
                  \/ RegisterBegin(r, u, f, m)
                  \/ \E fields \in SUBSET UpdateFields :
                       UpdateBegin(r, u, f, m, fields)
  <2>1. PICK state \in Opening \union Registering \union Updating :
          Goto(r, state) /\ UNCHANGED dbVars
    BY <1>4 DEF UploadBegin, RegisterBegin, UpdateBegin, Opening, Registering,
       Updating
  <2>2. state \in Handler /\ state.pc \in {"open", "count", "find", "set"}
    BY <2>1 DEF Handler, Opening, Registering, Updating
  <2>3. HeldIds(r)' = {}
    BY <2>1, <2>2, GotoType DEF HeldIds, Uploads, Deletes
  <2>. QED
    BY <2>1, <2>2, <2>3, <1>3 DEF dbVars
<1>5. ASSUME NEW u \in Users, NEW f \in FileNames, DeleteBegin(r, u, f)
      PROVE  ClaimStep
  <2>1. PICK d \in mapping :
          /\ d.user = u /\ d.file = f
          /\ Goto(r, [pc |-> "delFile", id |-> d.id, user |-> u, file |-> f])
    BY <1>5 DEF DeleteBegin, First, FunctionDocs
  <2>2. [pc |-> "delFile", id |-> d.id, user |-> u, file |-> f] \in Handler
    BY DEF Handler, Deleting, Document, ApiTypeOK, MongoTypeOK
  <2>3. HeldIds(r)' \subseteq {d.id} /\ req'[r].user = u /\ req'[r].file = f
    BY <2>1, <2>2, GotoType DEF HeldIds, Uploads, Deletes
  <2>4. \A i \in HeldIds(r)' : <<i, req'[r].user, req'[r].file>> \in Claims
    BY <2>1, <2>3, ClaimsNow
  <2>. QED
    BY <1>5, <2>1, <2>2, <2>4, ClaimsNow, ClaimsOfStep
    DEF DeleteBegin, dbVars, ClaimStep
<1>6. CASE UploadChunks(r)
  <2>1. req[r] \in Uploading
    BY <1>6, HandlerType DEF UploadChunks, Uploads
  <2>2. /\ [req[r] EXCEPT !.pc = "commit"] \in Handler
        /\ Goto(r, [req[r] EXCEPT !.pc = "commit"])
    BY <1>6, <2>1 DEF Handler, Uploading, UploadChunks
  <2>3. /\ HeldIds(r)' \subseteq HeldIds(r)
        /\ req'[r].user = req[r].user /\ req'[r].file = req[r].file
    BY <1>6, <2>1, <2>2, GotoType
    DEF HeldIds, Uploads, Deletes, Uploading, UploadChunks
  <2>. QED
    BY <1>6, <2>2, <2>3, <1>3 DEF UploadChunks
<1>7. CASE UploadCommit(r)
  <2>1. req[r] \in Uploading /\ req[r].id \in HeldIds(r)
    BY <1>7, HandlerType DEF UploadCommit, Uploads, HeldIds, Uploading
  <2>2. Idle \in Handler /\ Goto(r, Idle)
    BY <1>7 DEF Handler, UploadCommit
  <2>3. HeldIds(r)' = {}
    BY <2>2, GotoType DEF HeldIds, Uploads, Deletes, Idle
  <2>4. \A g \in files' : <<g.id, g.user, g.name>> \in Claims
    <3>1. <<req[r].id, req[r].user, req[r].file>> \in Claims
      BY <2>1, ClaimsNow
    <3>2. \A g \in files' :
            \/ g \in files
            \/ /\ g.id = req[r].id /\ g.user = req[r].user
               /\ g.name = req[r].file
      BY <1>7 DEF UploadCommit
    <3>. QED
      BY <3>1, <3>2, ClaimsNow
  <2>. QED
    BY <1>7, <2>2, <2>3, <2>4, ClaimsNow, ClaimsOfStep
    DEF UploadCommit, ClaimStep
<1>8. CASE RegisterCount(r)
  <2>1. req[r] \in Registering
    BY <1>8, HandlerType DEF RegisterCount
  <2>2. PICK state \in {Idle, [req[r] EXCEPT !.pc = "find"]} : Goto(r, state)
    BY <1>8 DEF RegisterCount
  <2>3. state \in Handler /\ state.pc \in {"idle", "find"}
    BY <2>1, <2>2 DEF Handler, Registering, Idle
  <2>4. HeldIds(r)' = {}
    BY <2>2, <2>3, GotoType DEF HeldIds, Uploads, Deletes
  <2>. QED
    BY <1>8, <2>2, <2>3, <2>4, <1>3 DEF RegisterCount, dbVars
<1>9. CASE RegisterFind(r)
  <2>. DEFINE found == {g.id : g \in UploadedFiles(req[r].user, req[r].file)}
              state == IF found = {} THEN Idle
                       ELSE [pc |-> "insert", user |-> req[r].user,
                             file |-> req[r].file, meta |-> req[r].meta,
                             todo |-> found]
  <2>1. req[r] \in Registering
    BY <1>9, HandlerType DEF RegisterFind
  <2>2. found \subseteq Ids
    BY DEF UploadedFiles, File, ApiTypeOK, MongoTypeOK
  <2>3. state \in Handler /\ Goto(r, state)
    BY <1>9, <2>1, <2>2 DEF Handler, Registering, Inserting, RegisterFind
  <2>4. \A i \in HeldIds(r)' : <<i, req'[r].user, req'[r].file>> \in Claims
    <3>1. CASE found = {}
      BY <3>1, <2>3, GotoType DEF HeldIds, Uploads, Deletes, Idle
    <3>2. CASE found # {}
      <4>. HIDE DEF found
      <4>0. req'[r] = [pc |-> "insert", user |-> req[r].user,
                       file |-> req[r].file, meta |-> req[r].meta,
                       todo |-> found]
        <5>1. req'[r] = state
          <6>. HIDE DEF state
          <6>. QED
            BY ONLY ApiTypeOK, r \in Requests, <2>3, GotoType
        <5>. QED
          BY <5>1, <3>2
      <4>1. HeldIds(r)' \subseteq found /\ req'[r].user = req[r].user
                                      /\ req'[r].file = req[r].file
        BY ONLY <4>0 DEF HeldIds, Uploads, Deletes
      <4>2. \A i \in found : <<i, req[r].user, req[r].file>> \in Claims
        BY ClaimsNow DEF UploadedFiles, found
      <4>. QED
        BY <4>1, <4>2
    <3>. QED
      BY <3>1, <3>2
  <2>. QED
    BY <1>9, <2>3, <2>4, ClaimsNow, ClaimsOfStep
    DEF RegisterFind, dbVars, ClaimStep
<1>10. CASE RegisterInsert(r)
  <2>1. req[r] \in Inserting
    BY <1>10, HandlerType DEF RegisterInsert
  <2>2. PICK i \in req[r].todo :
          /\ \A d \in mapping' :
             \/ d \in mapping
             \/ d.id = i /\ d.user = req[r].user /\ d.file = req[r].file
          /\ \/ Goto(r, Idle)
             \/ Goto(r, [req[r] EXCEPT !.todo = @ \ {i}])
    BY <1>10, InsertStep DEF RegisterInsert
  <2>3. /\ Idle \in Handler
        /\ [req[r] EXCEPT !.todo = @ \ {i}] \in Handler
    BY <2>1 DEF Handler, Inserting
  <2>4. \A d \in mapping' : <<d.id, d.user, d.file>> \in Claims
    <3>1. i \in HeldIds(r)
      BY <1>10, <2>1 DEF HeldIds, Inserting, RegisterInsert
    <3>2. <<i, req[r].user, req[r].file>> \in Claims
      BY <3>1, ClaimsNow
    <3>. QED
      BY <2>2, <3>2, ClaimsNow
  <2>5. \A j \in HeldIds(r)' : <<j, req'[r].user, req'[r].file>> \in Claims
    <3>1. CASE Goto(r, Idle)
      BY <3>1, <2>3, GotoType DEF HeldIds, Uploads, Deletes, Idle
    <3>2. CASE Goto(r, [req[r] EXCEPT !.todo = @ \ {i}])
      <4>1. /\ HeldIds(r)' \subseteq HeldIds(r)
            /\ req'[r].user = req[r].user /\ req'[r].file = req[r].file
        BY <3>2, <2>1, <2>3, GotoType
        DEF HeldIds, Uploads, Deletes, Inserting
      <4>. QED
        BY <4>1, ClaimsNow
    <3>. QED
      BY <2>2, <3>1, <3>2
  <2>. QED
    BY <1>10, <2>2, <2>3, <2>4, <2>5, ClaimsNow, ClaimsOfStep
    DEF RegisterInsert, ClaimStep
<1>11. CASE UpdateField(r)
  <2>. DEFINE field == NextField(req[r].fields)
              rest == req[r].fields \ {field}
              state == IF rest = {} THEN Idle
                       ELSE [req[r] EXCEPT !.fields = rest]
  <2>1. req[r] \in Updating
    BY <1>11, HandlerType DEF UpdateField
  <2>2. state \in Handler /\ Goto(r, state) /\ state.pc \in {"idle", "set"}
    BY <1>11, <2>1 DEF Handler, Updating, UpdateField, Idle
  <2>3. HeldIds(r)' = {}
    BY <2>2, GotoType DEF HeldIds, Uploads, Deletes
  <2>4. \A d \in mapping' : <<d.id, d.user, d.file>> \in Claims
    <3>1. field \in {"etype", "source", "memory"}
      BY DEF NextField
    <3>2. SetFirst(FunctionDocs(req[r].user, req[r].file), field,
                   req[r].meta[field])
      BY <1>11 DEF UpdateField
    <3>3. FunctionDocs(req[r].user, req[r].file) \in SUBSET mapping
      BY DEF FunctionDocs
    <3>4. req[r].meta \in Metadata /\ mapping \subseteq Document
      BY <2>1 DEF Updating, ApiTypeOK, MongoTypeOK
    <3>. HIDE DEF field
    <3>5. \A d \in mapping' : \E e \in mapping :
            d.id = e.id /\ d.user = e.user /\ d.file = e.file
      BY <3>1, <3>2, <3>3, <3>4, SetType
    <3>. QED
      BY <3>5, ClaimsNow
  <2>. QED
    BY <1>11, <2>2, <2>3, <2>4, ClaimsNow, ClaimsOfStep
    DEF UpdateField, ClaimStep
<1>12. CASE DeleteFile(r) \/ DeleteChunk(r)
  <2>1. req[r] \in Deleting
    BY <1>12, HandlerType DEF DeleteFile, DeleteChunk, Deletes
  <2>2. PICK p \in {"delChunk", "delDoc"} : Goto(r, [req[r] EXCEPT !.pc = p])
    BY <1>12 DEF DeleteFile, DeleteChunk
  <2>3. [req[r] EXCEPT !.pc = p] \in Handler
    BY <2>1 DEF Handler, Deleting
  <2>4. /\ HeldIds(r)' \subseteq HeldIds(r)
        /\ req'[r].user = req[r].user /\ req'[r].file = req[r].file
    BY <2>1, <2>2, <2>3, GotoType DEF HeldIds, Uploads, Deletes, Deleting
  <2>. QED
    BY <1>12, <2>2, <2>3, <2>4, <1>3 DEF DeleteFile, DeleteChunk, DeleteFileDoc
<1>13. CASE DeleteDoc(r) \/ RequestFails(r)
  <2>1. /\ Idle \in Handler /\ Goto(r, Idle)
        /\ UNCHANGED <<files, nextId>> /\ mapping' \subseteq mapping
    BY <1>13 DEF DeleteDoc, DeleteDocument, RequestFails, dbVars, Handler
  <2>2. HeldIds(r)' = {}
    BY <2>1, GotoType DEF HeldIds, Uploads, Deletes, Idle
  <2>. QED
    BY <2>1, <2>2, <1>3
<1>. QED
  BY <1>1, <1>2, <1>4, <1>5, <1>6, <1>7, <1>8, <1>9, <1>10, <1>11, <1>12,
     <1>13 DEF RequestBegins, HandlerStep

----------------------------------------------------------------------------
(* Uploads in progress are private. *)

LEMMA PrivateStep ==
  ASSUME ApiTypeOK, UploadsPrivate, NEW r \in Requests,
         NEW state \in Handler, Goto(r, state),
         FileIds' \union DocIds' \union HeldIds(r)'
           \subseteq FileIds \union DocIds \union HeldIds(r),
         Uploads(r)' => /\ Uploads(r) /\ req'[r].id = req[r].id
                        /\ FileIds' \subseteq FileIds
                        /\ DocIds' \subseteq DocIds
  PROVE  UploadsPrivate'
<1>. SUFFICES ASSUME NEW t \in Requests, Uploads(t)'
              PROVE  /\ req'[t].id \notin FileIds' \union DocIds'
                     /\ \A s \in Requests \ {t} : req'[t].id \notin HeldIds(s)'
  BY DEF UploadsPrivate
<1>1. CASE t = r
  BY <1>1, HeldByOthers DEF UploadsPrivate
<1>2. CASE t # r
  <2>1. Uploads(t) /\ req'[t].id = req[t].id
    BY <1>2, HeldByOthers
  <2>2. req[t].id \notin FileIds \union DocIds \union HeldIds(r)
    BY <1>2, <2>1 DEF UploadsPrivate
  <2>3. \A s \in Requests \ {r, t} : req[t].id \notin HeldIds(s)'
    BY <2>1, HeldByOthers DEF UploadsPrivate
  <2>. QED
    BY <2>1, <2>2, <2>3
<1>. QED
  BY <1>1, <1>2

LEMMA UploadsPrivateNext ==
  ASSUME ApiTypeOK, Ownership, UploadsPrivate, ApiNext
  PROVE  UploadsPrivate'
<1>1. PICK r \in Requests : RequestBegins(r) \/ HandlerStep(r) \/ RequestFails(r)
  BY DEF ApiNext
<1>2. CASE UploadOpen(r)
  <2>. DEFINE u == req[r].user
              f == req[r].file
              state == [pc |-> "chunks", id |-> nextId, user |-> u,
                        file |-> f, size |-> req[r].size]
  <2>0. req[r] \in Opening
    BY <1>2, HandlerType DEF UploadOpen
  <2>1. state \in Handler /\ Goto(r, state)
    BY <1>2, <2>0, TypesAssumption, ApiAssumption
    DEF UploadOpen, Handler, Opening, Uploading, Ids, ApiTypeOK, MongoTypeOK
  <2>2. HeldIds(r)' \subseteq {nextId} /\ req'[r].id = nextId
    BY <2>1, GotoType DEF HeldIds, Uploads, Deletes
  <2>3. /\ \A g \in files : g.id # nextId
        /\ \A d \in mapping : d.id # nextId
        /\ \A s \in Requests : nextId \notin HeldIds(s)
    <3>1. \A a \in Claims : a[1] # nextId
      <4>1. nextId \in Nat
        BY DEF ApiTypeOK, MongoTypeOK
      <4>. QED
        BY <4>1 DEF Ownership
    <3>. QED
      BY <3>1, ClaimsNow
  <2>4. FileIds' = FileIds /\ DocIds' = DocIds
    BY <1>2 DEF UploadOpen, FileIds, DocIds
  <2>. SUFFICES ASSUME NEW t \in Requests, Uploads(t)'
                PROVE  /\ req'[t].id \notin FileIds' \union DocIds'
                       /\ \A s \in Requests \ {t} :
                            req'[t].id \notin HeldIds(s)'
    BY DEF UploadsPrivate
  <2>5. CASE t = r
    BY <2>1, <2>2, <2>3, <2>4, <2>5, HeldByOthers DEF FileIds, DocIds
  <2>6. CASE t # r
    <3>1. Uploads(t) /\ req'[t].id = req[t].id
      BY <2>1, <2>6, HeldByOthers
    <3>2. req[t].id \in HeldIds(t)
      BY <3>1, HandlerType DEF HeldIds, Uploading
    <3>3. req[t].id # nextId
      BY <2>3, <3>2
    <3>4. \A s \in Requests \ {r, t} : req[t].id \notin HeldIds(s)'
      BY <2>1, <3>1, HeldByOthers DEF UploadsPrivate
    <3>. QED
      BY <2>2, <2>4, <3>1, <3>3, <3>4 DEF UploadsPrivate
  <2>. QED
    BY <2>5, <2>6
<1>3. CASE \E u \in Users, f \in FileNames :
             \/ \E n \in 1..MaxChunks : UploadBegin(r, u, f, n)
             \/ \E m \in Metadata :
                  \/ RegisterBegin(r, u, f, m)
                  \/ \E fields \in SUBSET UpdateFields :
                       UpdateBegin(r, u, f, m, fields)
  <2>1. PICK state \in Opening \union Registering \union Updating :
          Goto(r, state) /\ UNCHANGED dbVars
    BY <1>3 DEF UploadBegin, RegisterBegin, UpdateBegin, Opening, Registering,
       Updating
  <2>2. state \in Handler /\ state.pc \in {"open", "count", "find", "set"}
    BY <2>1 DEF Handler, Opening, Registering, Updating
  <2>3. HeldIds(r)' = {} /\ ~Uploads(r)'
    BY <2>1, <2>2, GotoType DEF HeldIds, Uploads, Deletes
  <2>. QED
    BY <2>1, <2>2, <2>3, PrivateStep DEF dbVars, FileIds, DocIds
<1>4. ASSUME NEW u \in Users, NEW f \in FileNames, DeleteBegin(r, u, f)
      PROVE  UploadsPrivate'
  <2>1. PICK d \in mapping :
          Goto(r, [pc |-> "delFile", id |-> d.id, user |-> u, file |-> f])
    BY <1>4 DEF DeleteBegin, First, FunctionDocs
  <2>2. [pc |-> "delFile", id |-> d.id, user |-> u, file |-> f] \in Handler
    BY DEF Handler, Deleting, Document, ApiTypeOK, MongoTypeOK
  <2>3. HeldIds(r)' \subseteq {d.id} /\ ~Uploads(r)'
    BY <2>1, <2>2, GotoType DEF HeldIds, Uploads, Deletes
  <2>. QED
    BY <1>4, <2>1, <2>2, <2>3, PrivateStep
    DEF DeleteBegin, dbVars, FileIds, DocIds
<1>5. CASE UploadChunks(r)
  <2>1. req[r] \in Uploading
    BY <1>5, HandlerType DEF UploadChunks, Uploads
  <2>2. /\ [req[r] EXCEPT !.pc = "commit"] \in Handler
        /\ Goto(r, [req[r] EXCEPT !.pc = "commit"])
    BY <1>5, <2>1 DEF Handler, Uploading, UploadChunks
  <2>3. /\ HeldIds(r)' \subseteq HeldIds(r) /\ Uploads(r)
        /\ req'[r].id = req[r].id
    BY <1>5, <2>1, <2>2, GotoType
    DEF HeldIds, Uploads, Deletes, Uploading, UploadChunks
  <2>. QED
    BY <1>5, <2>2, <2>3, PrivateStep DEF UploadChunks, FileIds, DocIds
<1>6. CASE UploadCommit(r)
  <2>1. req[r] \in Uploading /\ req[r].id \in HeldIds(r)
    BY <1>6, HandlerType DEF UploadCommit, Uploads, HeldIds, Uploading
  <2>2. Idle \in Handler /\ Goto(r, Idle)
    BY <1>6 DEF Handler, UploadCommit
  <2>3. HeldIds(r)' = {} /\ ~Uploads(r)'
    BY <2>2, GotoType DEF HeldIds, Uploads, Deletes, Idle
  <2>4. FileIds' \subseteq FileIds \union {req[r].id} /\ DocIds' = DocIds
    BY <1>6 DEF UploadCommit, FileIds, DocIds
  <2>. QED
    BY <2>1, <2>2, <2>3, <2>4, PrivateStep
<1>7. CASE RegisterCount(r)
  <2>1. req[r] \in Registering
    BY <1>7, HandlerType DEF RegisterCount
  <2>2. PICK state \in {Idle, [req[r] EXCEPT !.pc = "find"]} : Goto(r, state)
    BY <1>7 DEF RegisterCount
  <2>3. state \in Handler /\ state.pc \in {"idle", "find"}
    BY <2>1, <2>2 DEF Handler, Registering, Idle
  <2>4. HeldIds(r)' = {} /\ ~Uploads(r)'
    BY <2>2, <2>3, GotoType DEF HeldIds, Uploads, Deletes
  <2>. QED
    BY <1>7, <2>2, <2>3, <2>4, PrivateStep
    DEF RegisterCount, dbVars, FileIds, DocIds
<1>8. CASE RegisterFind(r)
  <2>. DEFINE found == {g.id : g \in UploadedFiles(req[r].user, req[r].file)}
              state == IF found = {} THEN Idle
                       ELSE [pc |-> "insert", user |-> req[r].user,
                             file |-> req[r].file, meta |-> req[r].meta,
                             todo |-> found]
  <2>1. req[r] \in Registering
    BY <1>8, HandlerType DEF RegisterFind
  <2>2. found \subseteq Ids /\ found \subseteq FileIds
    BY DEF UploadedFiles, File, FileIds, ApiTypeOK, MongoTypeOK
  <2>3. state \in Handler /\ Goto(r, state)
    BY <1>8, <2>1, <2>2 DEF Handler, Registering, Inserting, RegisterFind
  <2>4. HeldIds(r)' \subseteq found /\ ~Uploads(r)'
    <3>1. CASE found = {}
      BY <3>1, <2>3, GotoType DEF HeldIds, Uploads, Deletes, Idle
    <3>2. CASE found # {}
      BY <3>2, <2>3, GotoType DEF HeldIds, Uploads, Deletes
    <3>. QED
      BY <3>1, <3>2
  <2>5. FileIds' = FileIds /\ DocIds' = DocIds
    BY <1>8 DEF RegisterFind, dbVars, FileIds, DocIds
  <2>. HIDE DEF found, state
  <2>. QED
    BY <2>2, <2>3, <2>4, <2>5, PrivateStep
<1>9. CASE RegisterInsert(r)
  <2>1. req[r] \in Inserting
    BY <1>9, HandlerType DEF RegisterInsert
  <2>2. PICK i \in req[r].todo :
          /\ \A d \in mapping' :
             \/ d \in mapping
             \/ d.id = i /\ d.user = req[r].user /\ d.file = req[r].file
          /\ \/ Goto(r, Idle)
             \/ Goto(r, [req[r] EXCEPT !.todo = @ \ {i}])
    BY <1>9, InsertStep DEF RegisterInsert
  <2>3. i \in HeldIds(r) /\ DocIds' \subseteq DocIds \union {i}
    BY <1>9, <2>1, <2>2 DEF HeldIds, Inserting, RegisterInsert, DocIds
  <2>4. FileIds' = FileIds
    BY <1>9 DEF RegisterInsert, FileIds
  <2>5. CASE Goto(r, Idle)
    <3>1. Idle \in Handler /\ HeldIds(r)' = {} /\ ~Uploads(r)'
      BY <2>5, GotoType DEF HeldIds, Uploads, Deletes, Idle, Handler
    <3>. QED
      BY <2>3, <2>4, <2>5, <3>1, PrivateStep
  <2>6. CASE Goto(r, [req[r] EXCEPT !.todo = @ \ {i}])
    <3>1. [req[r] EXCEPT !.todo = @ \ {i}] \in Handler
      BY <2>1 DEF Handler, Inserting
    <3>2. HeldIds(r)' \subseteq HeldIds(r) /\ ~Uploads(r)'
      BY <2>1, <2>6, <3>1, GotoType DEF HeldIds, Uploads, Deletes, Inserting
    <3>. QED
      BY <2>3, <2>4, <2>6, <3>1, <3>2, PrivateStep
  <2>. QED
    BY <2>2, <2>5, <2>6
<1>10. CASE UpdateField(r)
  <2>. DEFINE field == NextField(req[r].fields)
              rest == req[r].fields \ {field}
              state == IF rest = {} THEN Idle
                       ELSE [req[r] EXCEPT !.fields = rest]
  <2>1. req[r] \in Updating
    BY <1>10, HandlerType DEF UpdateField
  <2>2. state \in Handler /\ Goto(r, state) /\ state.pc \in {"idle", "set"}
    BY <1>10, <2>1 DEF Handler, Updating, UpdateField, Idle
  <2>. HIDE DEF state
  <2>3. HeldIds(r)' = {} /\ ~Uploads(r)'
    BY <2>2, GotoType DEF HeldIds, Uploads, Deletes
  <2>4. DocIds' \subseteq DocIds /\ FileIds' = FileIds
    <3>1. field \in {"etype", "source", "memory"}
      BY DEF NextField
    <3>2. /\ SetFirst(FunctionDocs(req[r].user, req[r].file), field,
                      req[r].meta[field])
          /\ UNCHANGED files
      BY <1>10 DEF UpdateField
    <3>3. FunctionDocs(req[r].user, req[r].file) \in SUBSET mapping
      BY DEF FunctionDocs
    <3>4. req[r].meta \in Metadata /\ mapping \subseteq Document
      BY <2>1 DEF Updating, ApiTypeOK, MongoTypeOK
    <3>. HIDE DEF field
    <3>5. \A d \in mapping' : \E e \in mapping : d.id = e.id
      BY <3>1, <3>2, <3>3, <3>4, SetType
    <3>. QED
      BY <3>2, <3>5 DEF DocIds, FileIds
  <2>. QED
    BY <2>2, <2>3, <2>4, PrivateStep
<1>11. CASE DeleteFile(r) \/ DeleteChunk(r)
  <2>1. req[r] \in Deleting
    BY <1>11, HandlerType DEF DeleteFile, DeleteChunk, Deletes
  <2>2. PICK p \in {"delChunk", "delDoc"} : Goto(r, [req[r] EXCEPT !.pc = p])
    BY <1>11 DEF DeleteFile, DeleteChunk
  <2>3. [req[r] EXCEPT !.pc = p] \in Handler
    BY <2>1 DEF Handler, Deleting
  <2>4. HeldIds(r)' \subseteq HeldIds(r) /\ ~Uploads(r)'
    BY <2>1, <2>2, <2>3, GotoType DEF HeldIds, Uploads, Deletes, Deleting
  <2>5. FileIds' \subseteq FileIds /\ DocIds' = DocIds
    BY <1>11 DEF DeleteFile, DeleteChunk, DeleteFileDoc, FileIds, DocIds
  <2>. QED
    BY <2>2, <2>3, <2>4, <2>5, PrivateStep
<1>12. CASE DeleteDoc(r) \/ RequestFails(r)
  <2>1. Idle \in Handler /\ Goto(r, Idle)
    BY <1>12 DEF DeleteDoc, RequestFails, Handler
  <2>2. FileIds' = FileIds /\ DocIds' \subseteq DocIds
    BY <1>12 DEF DeleteDoc, DeleteDocument, RequestFails, dbVars, FileIds, DocIds
  <2>3. HeldIds(r)' = {} /\ ~Uploads(r)'
    BY <2>1, GotoType DEF HeldIds, Uploads, Deletes, Idle
  <2>. QED
    BY <2>1, <2>2, <2>3, PrivateStep
<1>. QED
  BY <1>1, <1>2, <1>3, <1>4, <1>5, <1>6, <1>7, <1>8, <1>9, <1>10, <1>11,
     <1>12 DEF RequestBegins, HandlerStep

----------------------------------------------------------------------------
(* Listed files keep their chunks. *)

\* A step that leaves the documents alone and moves its handler to a
\* program counter CommitReady and FileGone say nothing of.
LEMMA FilesStep ==
  ASSUME ApiTypeOK, FilesComplete, CommitReady, FileGone,
         NEW r \in Requests, NEW state \in Handler, Goto(r, state),
         files' \subseteq files, UNCHANGED chunks,
         state.pc \notin {"commit", "delChunk", "delDoc"}
  PROVE  FilesComplete' /\ CommitReady' /\ FileGone'
<1>1. \A s \in Requests : \/ req'[s] = req[s]
                         \/ req'[s].pc \notin {"commit", "delChunk", "delDoc"}
  BY GotoType
<1>. QED
  BY <1>1 DEF FilesComplete, CommitReady, FileGone, FileIds, ChunksOf

LEMMA FilesNext ==
  ASSUME ApiTypeOK, FilesComplete, UploadsPrivate, CommitReady, FileGone,
         ApiNext
  PROVE  FilesComplete' /\ CommitReady' /\ FileGone'
<1>1. PICK r \in Requests : RequestBegins(r) \/ HandlerStep(r) \/ RequestFails(r)
  BY DEF ApiNext
<1>2. CASE UploadOpen(r)
  <2>. DEFINE u == req[r].user
              f == req[r].file
              state == [pc |-> "chunks", id |-> nextId, user |-> u,
                        file |-> f, size |-> req[r].size]
  <2>0. req[r] \in Opening
    BY <1>2, HandlerType DEF UploadOpen
  <2>1. state \in Handler /\ Goto(r, state)
    BY <1>2, <2>0, TypesAssumption, ApiAssumption
    DEF UploadOpen, Handler, Opening, Uploading, Ids, ApiTypeOK, MongoTypeOK
  <2>. QED
    BY <1>2, <2>1, FilesStep DEF UploadOpen
<1>3. CASE \E u \in Users, f \in FileNames :
             \/ \E n \in 1..MaxChunks : UploadBegin(r, u, f, n)
             \/ \E m \in Metadata :
                  \/ RegisterBegin(r, u, f, m)
                  \/ \E fields \in SUBSET UpdateFields :
                       UpdateBegin(r, u, f, m, fields)
  <2>1. PICK state \in Opening \union Registering \union Updating :
          Goto(r, state) /\ UNCHANGED dbVars
    BY <1>3 DEF UploadBegin, RegisterBegin, UpdateBegin, Opening, Registering,
       Updating
  <2>2. state \in Handler /\ state.pc \in {"open", "count", "find", "set"}
    BY <2>1 DEF Handler, Opening, Registering, Updating
  <2>. QED
    BY <2>1, <2>2, FilesStep DEF dbVars
<1>4. ASSUME NEW u \in Users, NEW f \in FileNames, DeleteBegin(r, u, f)
      PROVE  FilesComplete' /\ CommitReady' /\ FileGone'
  <2>1. PICK d \in mapping :
          Goto(r, [pc |-> "delFile", id |-> d.id, user |-> u, file |-> f])
    BY <1>4 DEF DeleteBegin, First, FunctionDocs
  <2>2. [pc |-> "delFile", id |-> d.id, user |-> u, file |-> f] \in Handler
    BY DEF Handler, Deleting, Document, ApiTypeOK, MongoTypeOK
  <2>. QED
    BY <1>4, <2>1, <2>2, FilesStep DEF DeleteBegin, dbVars
<1>5. CASE UploadChunks(r)
  <2>1. req[r] \in Uploading
    BY <1>5, HandlerType DEF UploadChunks, Uploads
  <2>2. /\ [req[r] EXCEPT !.pc = "commit"] \in Handler
        /\ Goto(r, [req[r] EXCEPT !.pc = "commit"])
    BY <1>5, <2>1 DEF Handler, Uploading, UploadChunks
  <2>3. /\ req'[r].id = req[r].id /\ req'[r].size = req[r].size
        /\ req'[r].pc = "commit"
        /\ \A s \in Requests \ {r} : req'[s] = req[s]
    BY <2>1, <2>2, GotoType DEF Uploading
  <2>4. UNCHANGED files /\ chunks' = chunks \union ChunksOf(req[r].id, req[r].size)
    BY <1>5 DEF UploadChunks
  <2>. QED
    BY <2>3, <2>4 DEF FilesComplete, CommitReady, FileGone, FileIds, ChunksOf
<1>6. CASE UploadCommit(r)
  <2>1. req[r] \in Uploading /\ Uploads(r) /\ req[r].pc = "commit"
    BY <1>6, HandlerType DEF UploadCommit, Uploads
  <2>2. /\ req'[r] = Idle
        /\ \A s \in Requests \ {r} : req'[s] = req[s]
    BY <1>6, GotoType DEF UploadCommit, Handler
  <2>3. \A s \in Requests \ {r} :
          req[s].pc \in {"delChunk", "delDoc"} => req[s].id # req[r].id
    BY <2>1, HandlerType DEF UploadsPrivate, HeldIds, Deletes, Deleting
  <2>4. /\ \A g \in files' :
             g \in files \/ (g.id = req[r].id /\ g.size = req[r].size)
        /\ UNCHANGED chunks
    BY <1>6 DEF UploadCommit
  <2>5. FilesComplete'
    BY <2>1, <2>4 DEF FilesComplete, CommitReady, ChunksOf
  <2>6. CommitReady'
    BY <2>2, <2>4 DEF CommitReady, Idle, ChunksOf
  <2>7. FileGone'
    BY <2>2, <2>3, <2>4 DEF FileGone, FileIds, Idle
  <2>. QED
    BY <2>5, <2>6, <2>7
<1>7. CASE RegisterCount(r)
  <2>1. req[r] \in Registering
    BY <1>7, HandlerType DEF RegisterCount
  <2>2. PICK state \in {Idle, [req[r] EXCEPT !.pc = "find"]} : Goto(r, state)
    BY <1>7 DEF RegisterCount
  <2>3. state \in Handler /\ state.pc \in {"idle", "find"}
    BY <2>1, <2>2 DEF Handler, Registering, Idle
  <2>. QED
    BY <1>7, <2>2, <2>3, FilesStep DEF RegisterCount, dbVars
<1>8. CASE RegisterFind(r)
  <2>. DEFINE found == {g.id : g \in UploadedFiles(req[r].user, req[r].file)}
              state == IF found = {} THEN Idle
                       ELSE [pc |-> "insert", user |-> req[r].user,
                             file |-> req[r].file, meta |-> req[r].meta,
                             todo |-> found]
  <2>1. req[r] \in Registering
    BY <1>8, HandlerType DEF RegisterFind
  <2>2. found \subseteq Ids
    BY DEF UploadedFiles, File, FileIds, ApiTypeOK, MongoTypeOK
  <2>3. /\ state \in Handler /\ Goto(r, state)
        /\ state.pc \in {"idle", "insert"}
    BY <1>8, <2>1, <2>2 DEF Handler, Registering, Inserting, RegisterFind, Idle
  <2>. HIDE DEF state
  <2>. QED
    BY <1>8, <2>3, FilesStep DEF RegisterFind, dbVars
<1>9. CASE RegisterInsert(r)
  <2>1. req[r] \in Inserting
    BY <1>9, HandlerType DEF RegisterInsert
  <2>2. PICK i \in req[r].todo :
          \/ Goto(r, Idle)
          \/ Goto(r, [req[r] EXCEPT !.todo = @ \ {i}])
    BY <1>9 DEF RegisterInsert
  <2>3. /\ Idle \in Handler /\ Idle.pc = "idle"
        /\ [req[r] EXCEPT !.todo = @ \ {i}] \in Handler
        /\ [req[r] EXCEPT !.todo = @ \ {i}].pc = "insert"
    BY <2>1 DEF Handler, Inserting, Idle
  <2>. QED
    BY <1>9, <2>2, <2>3, FilesStep DEF RegisterInsert
<1>10. CASE UpdateField(r)
  <2>. DEFINE rest == req[r].fields \ {NextField(req[r].fields)}
              state == IF rest = {} THEN Idle
                       ELSE [req[r] EXCEPT !.fields = rest]
  <2>1. req[r] \in Updating
    BY <1>10, HandlerType DEF UpdateField
  <2>2. state \in Handler /\ Goto(r, state) /\ state.pc \in {"idle", "set"}
    BY <1>10, <2>1 DEF Handler, Updating, UpdateField, Idle
  <2>. HIDE DEF state
  <2>. QED
    BY <1>10, <2>2, FilesStep DEF UpdateField
<1>11. CASE DeleteFile(r)
  <2>1. req[r] \in Deleting
    BY <1>11, HandlerType DEF DeleteFile, Deletes
  <2>2. [req[r] EXCEPT !.pc = "delChunk"] \in Handler
    BY <2>1 DEF Handler, Deleting
  <2>3. /\ req'[r].pc = "delChunk" /\ req'[r].id = req[r].id
        /\ \A s \in Requests \ {r} : req'[s] = req[s]
    BY <1>11, <2>1, <2>2, GotoType DEF DeleteFile, Deleting
  <2>4. /\ files' = {g \in files : g.id # req[r].id}
        /\ UNCHANGED chunks
    BY <1>11 DEF DeleteFile, DeleteFileDoc
  <2>. QED
    BY <2>3, <2>4 DEF FilesComplete, CommitReady, FileGone, FileIds, ChunksOf
<1>12. CASE DeleteChunk(r)
  <2>1. req[r] \in Deleting /\ req[r].id \in HeldIds(r) /\ req[r].pc = "delChunk"
    BY <1>12, HandlerType DEF DeleteChunk, Deletes, HeldIds, Deleting
  <2>2. [req[r] EXCEPT !.pc = "delDoc"] \in Handler
    BY <2>1 DEF Handler, Deleting
  <2>3. /\ req'[r].pc = "delDoc" /\ req'[r].id = req[r].id
        /\ \A s \in Requests \ {r} : req'[s] = req[s]
    BY <1>12, <2>1, <2>2, GotoType DEF DeleteChunk, Deleting
  <2>4. /\ UNCHANGED files
        /\ \A c \in chunks : c \in chunks' \/ c[1] = req[r].id
    BY <1>12 DEF DeleteChunk, DeleteOneChunk
  <2>5. \A g \in files : g.id # req[r].id
    BY <2>1 DEF FileGone, FileIds
  <2>6. \A s \in Requests : req[s].pc = "commit" => req[s].id # req[r].id
    BY <2>1 DEF UploadsPrivate, Uploads
  <2>7. FilesComplete'
    BY <2>4, <2>5 DEF FilesComplete, ChunksOf
  <2>8. CommitReady'
    BY <2>3, <2>4, <2>6 DEF CommitReady, ChunksOf
  <2>9. FileGone'
    BY <2>1, <2>3, <2>4 DEF FileGone, FileIds
  <2>. QED
    BY <2>7, <2>8, <2>9
<1>13. CASE DeleteDoc(r) \/ RequestFails(r)
  <2>1. Idle \in Handler /\ Idle.pc = "idle" /\ Goto(r, Idle)
    BY <1>13 DEF DeleteDoc, RequestFails, Handler, Idle
  <2>. QED
    BY <1>13, <2>1, FilesStep DEF DeleteDoc, RequestFails, dbVars
<1>. QED
  BY <1>1, <1>2, <1>3, <1>4, <1>5, <1>6, <1>7, <1>8, <1>9, <1>10, <1>11,
     <1>12, <1>13 DEF RequestBegins, HandlerStep

----------------------------------------------------------------------------
(* The theorems. *)

LEMMA ApiInvInit == ApiInit => ApiInv
<1>. SUFFICES ASSUME ApiInit PROVE ApiInv
  OBVIOUS
<1>1. \A r \in Requests : req[r].pc = "idle"
  BY DEF ApiInit, Idle
<1>2. files = {} /\ mapping = {} /\ \A r \in Requests : HeldIds(r) = {}
  BY <1>1 DEF ApiInit, MongoInit, HeldIds, Uploads, Deletes
<1>3. Claims = {}
  BY <1>2 DEF Claims
<1>. QED
  BY <1>1, <1>2, <1>3, ApiTypeInit
  DEF ApiInv, FilesComplete, Ownership, UploadsPrivate, CommitReady,
      FileGone, Uploads

LEMMA ApiInvStutter == ApiInv /\ UNCHANGED apiVars => ApiInv'
BY DEF apiVars, ApiInv, ApiTypeOK, MongoTypeOK, FilesComplete, Ownership,
       Claims, HeldIds, UploadsPrivate, Uploads, Deletes, FileIds, DocIds,
       CommitReady, FileGone

\* However the requests of lambda.rb interleave and fail, the handlers in
\* progress agree with the database about whose code an ObjectId is.
THEOREM ApiInvariant == ApiSpec => []ApiInv
<1>1. ApiInv /\ ApiNext => ApiInv'
  BY ApiTypeNext, ClaimsNext, OwnershipKept, UploadsPrivateNext, FilesNext
  DEF ApiInv
<1>. QED
  BY <1>1, ApiInvInit, ApiInvStutter, PTL DEF ApiSpec

\* A file listed in fs.files has all its chunks in every reachable state.
THEOREM FilesCompleteCorrect == ApiSpec => []FilesComplete
<1>1. ApiInv => FilesComplete
  BY DEF ApiInv
<1>. QED
  BY <1>1, ApiInvariant, PTL

\* A registration never attaches one user's code to another's function.
THEOREM MappingMatchesFileCorrect == ApiSpec => []MappingMatchesFile
<1>1. ApiInv => MappingMatchesFile
  <2>. SUFFICES ASSUME ApiInv, NEW d \in mapping, NEW g \in files,
                       d.id = g.id
                PROVE  d.user = g.user /\ d.file = g.name
    BY DEF MappingMatchesFile
  <2>1. /\ <<d.id, d.user, d.file>> \in Claims
        /\ <<g.id, g.user, g.name>> \in Claims
    BY ClaimsNow
  <2>. QED
    BY <2>1 DEF ApiInv, Ownership
<1>. QED
  BY <1>1, ApiInvariant, PTL

\* What DELETE removes is of the function the request names.
LEMMA DeletesOnly ==
  ASSUME ApiInv, ApiNext, NEW r \in Requests,
         req[r].pc \in {"delFile", "delDoc"}, req'[r] # req[r]
  PROVE  /\ \A d \in mapping \ mapping' :
              d.user = req[r].user /\ d.file = req[r].file
         /\ \A g \in files \ files' :
              g.user = req[r].user /\ g.name = req[r].file
<1>1. PICK s \in Requests : RequestBegins(s) \/ HandlerStep(s) \/ RequestFails(s)
  BY DEF ApiNext
<1>2. \A t \in Requests : RequestBegins(t) => req[t].pc = "idle"
  <2>1. \A t \in Requests : RequestBegins(t) => req[t] = Idle
    BY ZenonT(60) DEF RequestBegins, UploadBegin, RegisterBegin, UpdateBegin,
       DeleteBegin
  <2>. QED
    BY <2>1 DEF Idle
<1>3. \E state : Goto(s, state)
  <2>1. CASE RequestBegins(s)
    BY <2>1 DEF RequestBegins, UploadBegin, RegisterBegin, UpdateBegin,
       DeleteBegin
  <2>2. CASE HandlerStep(s)
    BY <2>2 DEF HandlerStep, UploadOpen, UploadChunks, UploadCommit, RegisterCount,
       RegisterFind, RegisterInsert, UpdateField, DeleteFile, DeleteChunk,
       DeleteDoc
  <2>. QED
    BY <1>1, <2>1, <2>2 DEF RequestFails
<1>4. s = r
  BY <1>3 DEF Goto, ApiInv, ApiTypeOK
<1>5. DeleteFile(r) \/ DeleteDoc(r) \/ RequestFails(r)
  BY <1>1, <1>2, <1>4 DEF HandlerStep, UploadOpen, UploadChunks, UploadCommit,
     RegisterCount, RegisterFind, RegisterInsert, UpdateField, DeleteChunk
<1>6. <<req[r].id, req[r].user, req[r].file>> \in Claims
  <2>1. req[r].id \in HeldIds(r)
    BY HandlerType DEF ApiInv, HeldIds, Deletes, Deleting
  <2>. QED
    BY <2>1, ClaimsNow
<1>7. /\ \A d \in mapping : d.id = req[r].id =>
           d.user = req[r].user /\ d.file = req[r].file
      /\ \A g \in files : g.id = req[r].id =>
           g.user = req[r].user /\ g.name = req[r].file
  BY <1>6, ClaimsNow DEF ApiInv, Ownership
<1>8. /\ \A d \in mapping \ mapping' : d.id = req[r].id
      /\ \A g \in files \ files' : g.id = req[r].id
  BY <1>5 DEF DeleteFile, DeleteDoc, RequestFails, DeleteFileDoc,
     DeleteDocument, dbVars
<1>. QED
  BY <1>7, <1>8

\* DELETE removes only documents of the function its URL names.
THEOREM DeletesOnlyItsFunctionCorrect == ApiSpec => DeletesOnlyItsFunction
<1>1. ApiInv /\ [ApiNext]_apiVars => [DeleteStep]_apiVars
  BY DeletesOnly DEF DeleteStep
<1>. QED
  BY <1>1, ApiInvariant, PTL DEF ApiSpec, DeletesOnlyItsFunction

=============================================================================
