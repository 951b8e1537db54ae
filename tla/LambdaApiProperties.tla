------------------------ MODULE LambdaApiProperties ------------------------
(***************************************************************************)
(* What the handlers of LambdaApi guarantee, and the invariant that the    *)
(* proofs of LambdaApiProofs rest on.                                      *)
(***************************************************************************)
EXTENDS LambdaApi

\* A file that fs.files lists has all its chunks: uploads insert the chunks
\* first and DELETE removes the file document first, whatever requests
\* interleave or fail in the middle, so a GridFS read that finds the file
\* document and is not overtaken by a DELETE never meets a missing chunk.
FilesComplete ==
  \A g \in files : ChunksOf(g.id, g.size) \subseteq chunks

\* A mapping document under the _id of an uploaded file names the owner and
\* the name of that file: however uploads, registrations and deletions
\* interleave, registering never attaches one user's code to another.
MappingMatchesFile ==
  \A d \in mapping, g \in files :
    d.id = g.id => d.user = g.user /\ d.file = g.name

\* DELETE works with an _id it read before: the documents it removes three
\* commands later still belong to the function the request names.
DeleteStep ==
  \A r \in Requests :
    (req[r].pc \in {"delFile", "delDoc"} /\ req'[r] # req[r]) =>
      /\ \A d \in mapping \ mapping' :
           d.user = req[r].user /\ d.file = req[r].file
      /\ \A g \in files \ files' :
           g.user = req[r].user /\ g.name = req[r].file
DeletesOnlyItsFunction == [][DeleteStep]_apiVars

----------------------------------------------------------------------------
(* The inductive invariant. *)

Uploads(r) == req[r].pc \in {"chunks", "commit"}
Deletes(r) == req[r].pc \in {"delFile", "delChunk", "delDoc"}

\* The ObjectIds the handler of connection r holds.
HeldIds(r) ==
  {i \in Ids : \/ (Uploads(r) \/ Deletes(r)) /\ i = req[r].id
               \/ req[r].pc = "insert" /\ i \in req[r].todo}

\* Who owns which ObjectId, according to fs.files, to mapping and to the
\* handlers in progress.
Claims ==
  {<<g.id, g.user, g.name>> : g \in files}
    \union {<<d.id, d.user, d.file>> : d \in mapping}
    \union UNION {{<<i, req[r].user, req[r].file>> : i \in HeldIds(r)} :
                    r \in Requests}

\* All these agree, and no claim is about an ObjectId not yet handed out.
Ownership ==
  /\ \A a, b \in Claims : a[1] = b[1] => a = b
  /\ \A a \in Claims : a[1] < nextId

\* Until an upload commits, nothing but its handler holds the _id it chose.
UploadsPrivate ==
  \A r \in Requests : Uploads(r) =>
    /\ req[r].id \notin FileIds \union DocIds
    /\ \A s \in Requests \ {r} : req[r].id \notin HeldIds(s)

\* The chunks are there before the file document, which is gone before the
\* first chunk is deleted.
CommitReady ==
  \A r \in Requests :
    req[r].pc = "commit" => ChunksOf(req[r].id, req[r].size) \subseteq chunks
FileGone ==
  \A r \in Requests :
    req[r].pc \in {"delChunk", "delDoc"} => req[r].id \notin FileIds

\* The inductive strengthening of FilesComplete and MappingMatchesFile:
\* every handler in progress holds ids that nobody else can turn into
\* something different, and works on chunks in the order that keeps listed
\* files whole.
ApiInv ==
  /\ ApiTypeOK
  /\ FilesComplete
  /\ Ownership
  /\ UploadsPrivate
  /\ CommitReady
  /\ FileGone
=============================================================================
