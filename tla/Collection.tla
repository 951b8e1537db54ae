----------------------------- MODULE Collection -----------------------------
(***************************************************************************)
(* pymongo/collection.py, with the index cache of connection.py: the       *)
(* threads of one connection write to the collections of a database, and   *)
(* create, ensure and drop their indexes.  A pair is a collection and the  *)
(* name of an index; a document is the dict it was made from and its _id,  *)
(* <<dict, number, who drew the _id>>.                                     *)
(*                                                                         *)
(* A write is one step, whether it is safe or not: nothing here depends on *)
(* its outcome but what the user does next, who may repeat it.  excused    *)
(* records, for the property, the pairs that the cache may be wrong about. *)
(***************************************************************************)
EXTENDS DriverTypes, Naturals, Sequences, FiniteSets

CONSTANTS Names,         \* the collections
          Indexes,       \* the names of indexes
          Dicts,         \* the dicts that are stored, each used by one thread
          MaxDraws       \* bound on the _ids that are drawn for a dict

ASSUME CollectionAssumption == MaxDraws \in Nat

VARIABLES indexes,       \* the pairs that exist on the server
          stored,        \* the documents of every collection
          indexCache,    \* __index_cache, without the expired entries
          idOf,          \* the _id in every dict, 0 if there is none
          drawn,         \* how many _ids were drawn for every dict
          job,           \* what every thread is doing to which pairs
          excused

collectionVars ==
  <<indexes, stored, indexCache, idOf, drawn, job, excused>>

Pairs == Names \X Indexes
Documents == Dicts \X (1..MaxDraws) \X {"client", "server"}

IndexJob == [pc : {"idle", "create", "cache", "purge", "drop"},
             pairs : SUBSET Pairs, gone : SUBSET Names]

NoJob == [pc |-> "idle", pairs |-> {}, gone |-> {}]

CollectionTypeOK ==
  /\ indexes \subseteq Pairs /\ indexCache \subseteq Pairs
  /\ excused \subseteq Pairs
  /\ stored \in [Names -> SUBSET Documents]
  /\ idOf \in [Dicts -> 0..MaxDraws] /\ drawn \in [Dicts -> 0..MaxDraws]
  /\ job \in [Threads -> IndexJob]

CollectionInit ==
  /\ indexes = {} /\ indexCache = {} /\ excused = {}
  /\ stored = [n \in Names |-> {}]
  /\ idOf = [d \in Dicts |-> 0] /\ drawn = [d \in Dicts |-> 0]
  /\ job = [t \in Threads |-> NoJob]

SetJob(t, j) == job' = [job EXCEPT ![t] = j]

PairsIn(pcs) == UNION {job[t].pairs : t \in {u \in Threads : job[u].pc \in pcs}}
Creating == PairsIn({"create", "cache"})
Dropping == PairsIn({"purge", "drop"})

DocumentsUnchanged == UNCHANGED <<stored, idOf, drawn>>

----------------------------------------------------------------------------
(* create_index and ensure_index *)

BeginCreate(t, p) ==
  /\ job[t].pc = "idle"
  /\ SetJob(t, [NoJob EXCEPT !.pc = "create", !.pairs = {p}])
  /\ excused' = excused \union ({p} \intersect Dropping)
  /\ UNCHANGED <<indexes, indexCache>>
  /\ DocumentsUnchanged

\* An index that is cached is not asked for.
EnsureIndex(t, p) == p \notin indexCache /\ BeginCreate(t, p)

\* The safe insertion into system.indexes, which may raise, with the index
\* created or not.
CreateIndex(t) ==
  LET created == indexes' = indexes \union job[t].pairs
  IN  /\ job[t].pc = "create"
      /\ \/ created /\ SetJob(t, [job[t] EXCEPT !.pc = "cache"])
         \/ (created \/ UNCHANGED indexes) /\ SetJob(t, NoJob)
      /\ UNCHANGED <<indexCache, excused>>
      /\ DocumentsUnchanged

CacheIndex(t) ==
  /\ job[t].pc = "cache"
  /\ indexCache' = indexCache \union job[t].pairs
  /\ SetJob(t, NoJob)
  /\ UNCHANGED <<indexes, excused>>
  /\ DocumentsUnchanged

Expire(p) ==
  /\ p \in indexCache
  /\ indexCache' = indexCache \ {p}
  /\ UNCHANGED <<indexes, job, excused>>
  /\ DocumentsUnchanged

----------------------------------------------------------------------------
(* drop_index, drop_indexes, drop_collection and drop_database *)

\* Mutant: the cache is not purged.
BeginDrop_NoPurge(t, pairs, gone) ==
  /\ job[t].pc = "idle"
  /\ SetJob(t, [pc |-> "drop", pairs |-> pairs, gone |-> gone])
  /\ excused' = excused \union (pairs \intersect Creating)
  /\ UNCHANGED <<indexes, indexCache>>
  /\ DocumentsUnchanged

\* _purge_index looks whether there is something to delete.
BeginDrop(t, pairs, gone) ==
  /\ job[t].pc = "idle"
  /\ SetJob(t, [pc |-> IF pairs \intersect indexCache = {} THEN "drop"
                       ELSE "purge", pairs |-> pairs, gone |-> gone])
  /\ excused' = excused \union (pairs \intersect Creating)
  /\ UNCHANGED <<indexes, indexCache>>
  /\ DocumentsUnchanged

DropIndex(t, p) == BeginDrop(t, {p}, {})
DropIndexes(t, n) == BeginDrop(t, {n} \X Indexes, {})
DropCollection(t, n) == BeginDrop(t, {n} \X Indexes, {n})
DropDatabase(t) == BeginDrop(t, Pairs, Names)

\* KeyError if another thread has deleted it in between: nothing is dropped.
PurgeIndex(t) ==
  LET purged == job[t].pairs \intersect indexCache
  IN  /\ job[t].pc = "purge"
      /\ indexCache' = indexCache \ purged
      /\ SetJob(t, IF purged = {} THEN NoJob ELSE [job[t] EXCEPT !.pc = "drop"])
      /\ UNCHANGED <<indexes, excused>>
      /\ DocumentsUnchanged

\* The command, which may fail before or after it has had its effect.
DropCommand(t) ==
  /\ job[t].pc = "drop"
  /\ SetJob(t, NoJob)
  /\ \/ /\ indexes' = indexes \ job[t].pairs
        /\ stored' = [n \in Names |-> IF n \in job[t].gone THEN {}
                                      ELSE stored[n]]
     \/ UNCHANGED <<indexes, stored>>
  /\ UNCHANGED <<indexCache, idOf, drawn, excused>>

\* The indexes go with the collection; a target that exists must be dropped.
\* The cache of neither collection is purged.
Rename(t, n, m, dropTarget) ==
  LET At(c) == {p \in indexes : p[1] = c}
  IN  /\ job[t].pc = "idle" /\ n # m
      /\ dropTarget \/ (At(m) = {} /\ stored[m] = {})
      /\ indexes' = (indexes \ (At(n) \union At(m)))
                      \union {<<m, p[2]>> : p \in At(n)}
      /\ stored' = [stored EXCEPT ![m] = stored[n], ![n] = {}]
      /\ excused' = excused \union ({n, m} \X Indexes)
      /\ UNCHANGED <<indexCache, idOf, drawn, job>>

\* Through another connection, whose cache this is not.
DropElsewhere(n) ==
  /\ indexes' = indexes \ ({n} \X Indexes)
  /\ excused' = excused \union ({n} \X Indexes)
  /\ UNCHANGED <<indexCache, job>>
  /\ DocumentsUnchanged

----------------------------------------------------------------------------
(* insert, save, update and remove *)

\* Mutant: a dict that has an _id gets a new one.
Inject_Always(ds) ==
  /\ \A d \in ds : drawn[d] < MaxDraws
  /\ drawn' = [d \in Dicts |-> IF d \in ds THEN drawn[d] + 1 ELSE drawn[d]]
  /\ idOf' = [d \in Dicts |-> IF d \in ds THEN drawn'[d] ELSE idOf[d]]

\* ObjectIdInjector: the _id is put into the user's own dict.
Inject(ds) ==
  /\ \A d \in ds : idOf[d] = 0 => drawn[d] < MaxDraws
  /\ drawn' = [d \in Dicts |-> IF d \in ds /\ idOf[d] = 0 THEN drawn[d] + 1
                               ELSE drawn[d]]
  /\ idOf' = [d \in Dicts |-> IF d \in ds /\ idOf[d] = 0 THEN drawn'[d]
                              ELSE idOf[d]]

WithId(d) == <<d, idOf'[d], "client">>

\* A bulk insertion ends at the first duplicate _id, unless it continues.
Stored(n, docs, continue_on_error) ==
  LET Duplicate(i) == docs[i] \in stored[n] \/ \E j \in 1..(i - 1) : docs[j] = docs[i]
      Reached(i) == continue_on_error \/ \A j \in 1..i : ~Duplicate(j)
  IN  stored[n] \union {docs[i] : i \in {j \in 1..Len(docs) : Reached(j)}}

\* The message may be lost, and so may the reply.
Write(n, documents) ==
  /\ \/ stored' = [stored EXCEPT ![n] = documents]
     \/ UNCHANGED stored
  /\ UNCHANGED <<indexes, indexCache, job, excused>>

Insert(n, ds, continue_on_error) ==
  /\ Inject({ds[i] : i \in 1..Len(ds)})
  /\ Write(n, Stored(n, [i \in 1..Len(ds) |-> WithId(ds[i])], continue_on_error))

\* Without manipulate the server draws an _id, which the user is not told.
InsertPlain(n, d) ==
  /\ IF idOf[d] = 0
     THEN /\ drawn[d] < MaxDraws
          /\ drawn' = [drawn EXCEPT ![d] = @ + 1]
          /\ Write(n, stored[n] \union {<<d, drawn'[d], "server">>})
     ELSE /\ Write(n, stored[n] \union {<<d, idOf[d], "client">>})
          /\ UNCHANGED drawn
  /\ UNCHANGED idOf

\* insert if there is no _id, or else an update with upsert.
Save(n, d) ==
  /\ Inject({d})
  /\ Write(n, stored[n] \union {WithId(d)})

\* An update without upsert changes a document that exists, or nothing; remove
\* takes an _id, a spec of any documents, or none for all.
RemoveDocuments(n) ==
  /\ \E documents \in SUBSET stored[n] : Write(n, documents)
  /\ UNCHANGED <<idOf, drawn>>

CollectionNext ==
  \/ \E t \in Threads :
       \/ \E p \in Pairs :
            BeginCreate(t, p) \/ EnsureIndex(t, p) \/ DropIndex(t, p)
       \/ \E n \in Names : DropIndexes(t, n) \/ DropCollection(t, n)
       \/ \E n, m \in Names, dropTarget \in BOOLEAN : Rename(t, n, m, dropTarget)
       \/ CreateIndex(t) \/ CacheIndex(t)
       \/ DropDatabase(t) \/ PurgeIndex(t) \/ DropCommand(t)
  \/ \E p \in Pairs : Expire(p)
  \/ \E n \in Names :
       \/ DropElsewhere(n)
       \/ \E ds \in UNION {[1..k -> Dicts] : k \in 1..2}, c \in BOOLEAN :
            Insert(n, ds, c)
       \/ \E d \in Dicts : InsertPlain(n, d) \/ Save(n, d)
       \/ RemoveDocuments(n)

CollectionSpec == CollectionInit /\ [][CollectionNext]_collectionVars

----------------------------------------------------------------------------
(* What a collection promises. *)

\* "ensure_index only attempts to create indexes that might not already exist":
\* an index it does not ask for exists, whatever fails and whatever other
\* threads drop and create at the same time, unless the index was dropped
\* through another connection or while it was created, or its collection was
\* renamed.
EnsuredExists == indexCache \ excused \subseteq indexes

\* However often an insertion or a save is repeated because its reply was lost,
\* alone or in a bulk, a collection has one document of a dict, unless the
\* server has drawn the _id.
StoredOnce ==
  \A n \in Names, d \in Dicts :
    Cardinality({k \in 1..MaxDraws : <<d, k, "client">> \in stored[n]}) <= 1
=============================================================================
