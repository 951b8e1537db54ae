------------------------------- MODULE Mongo -------------------------------
(***************************************************************************)
(* The database lambdaD that the REST interface (Ruby) and the lambda      *)
(* service (Python) share.  The server is external: the module states what *)
(* the handlers rely on, one atomic operator per single-document command.  *)
(*                                                                         *)
(*   mapping  the registrations and the execution records of functions     *)
(*   files    GridFS fs.files, one document per uploaded file              *)
(*   chunks   GridFS fs.chunks, the pieces of the files' contents          *)
(*   nextId   the next fresh ObjectId; later ids compare greater           *)
(*                                                                         *)
(* A mapping document written by POST /lambda carries the _id of the file  *)
(* it registers and no log_uuid (run = NoRun); one written by              *)
(* Database.updateSequenceCount carries a fresh _id and the log_uuid of    *)
(* the execution it records.                                               *)
(*                                                                         *)
(* Definitions named X_Y are faulty variants of X that the properties must *)
(* tell from X; no specification uses them.                                *)
(***************************************************************************)
EXTENDS LambdaTypes

VARIABLES mapping, files, chunks, nextId

dbVars == <<mapping, files, chunks, nextId>>

Metadata == [source : Sources, etype : Types, memory : Memories]

Document == [id : Ids, pos : Ids, user : Users, file : FileNames,
             source : Sources, etype : Types, memory : Memories,
             seq : Nat, run : Runs \union {NoRun}]

File == [id : Ids, user : Users, name : FileNames, size : 1..MaxChunks]

MongoTypeOK ==
  /\ mapping \subseteq Document
  /\ files \subseteq File
  /\ chunks \subseteq (Ids \X (1..MaxChunks))
  /\ nextId \in 1..(MaxId + 1)

MongoInit ==
  /\ mapping = {}
  /\ files = {}
  /\ chunks = {}
  /\ nextId = 1

----------------------------------------------------------------------------
(* Queries. *)

\* db[:mapping].find(:username => u, :filename => f)
FunctionDocs(u, f) == {d \in mapping : d.user = u /\ d.file = f}

\* db.mapping.find({"username": u})
UserDocs(u) == {d \in mapping : d.user = u}

\* db[:'fs.files'].find(:metadata => u, :filename => f)
UploadedFiles(u, f) == {g \in files : g.user = u /\ g.name = f}

\* The first document of a cursor without sort, as a set of at most one
\* document: the natural order of the collection is the order of the storage
\* positions.
First(docs) == {d \in docs : \A e \in docs : d.pos <= e.pos}

Latest_Ascending(docs) == {d \in docs : \A e \in docs : d.id <= e.id}

\* sort([('_id', DESCENDING)]).limit(1), as a set of at most one document.
Latest(docs) == {d \in docs : \A e \in docs : e.id <= d.id}

DocIds == {d.id : d \in mapping}
FileIds == {g.id : g \in files}

\* Positions an inserted document can get: the end of the collection, or,
\* as the storage engine of MongoDB 3.0 does, the room a removed one left.
FreePositions ==
  {p \in Ids : /\ \A d \in mapping : d.pos # p
               /\ p = 1 \/ \E d \in mapping : d.pos >= p - 1}

\* The pieces of a file that fs.chunks holds.
ChunksOf(id, size) == {<<id, k>> : k \in 1..size}

----------------------------------------------------------------------------
(* Updates of a single document. *)

\* insert_one into mapping; the caller has checked that the _id is new.
InsertDoc(doc) ==
  \E p \in FreePositions :
    mapping' = mapping \union {[doc EXCEPT !.pos = p]}

\* find_one_and_replace({'$set' => ...}) on the first match, if there is one.
SetFirst(docs, field, value) ==
  \/ docs = {} /\ UNCHANGED mapping
  \/ \E d \in First(docs) :
       mapping' = (mapping \ {d}) \union {[d EXCEPT ![field] = value]}

\* delete_one(:_id => id) on the three collections.
DeleteDocument(id) == mapping' = {d \in mapping : d.id # id}
DeleteFileDoc(id) == files' = {g \in files : g.id # id}
DeleteOneChunk(id) ==
  \/ (\A c \in chunks : c[1] # id) /\ UNCHANGED chunks
  \/ \E c \in chunks : c[1] = id /\ chunks' = chunks \ {c}
=============================================================================
