------------------------------- MODULE Driver -------------------------------
(***************************************************************************)
(* The vendored driver, pymongo 2.3: the parts that have models, which     *)
(* share no state, and what is said of several of them at once.            *)
(***************************************************************************)
EXTENDS ConnectionPool, NodeDiscovery, Credentials, ReplicaSet, Collection,
        Cursor, GridFS, Routing, ObjectIds

DriverSpec ==
  /\ PoolSpec /\ DiscoverySpec /\ AuthSpec /\ RsSpec /\ CollectionSpec
  /\ CursorSpec /\ GridSpec /\ RoutingSpec /\ OidSpec

DriverTypeOK ==
  /\ PoolTypeOK /\ DiscoveryTypeOK /\ AuthTypeOK /\ RsTypeOK /\ CollectionTypeOK
  /\ CursorTypeOK /\ GridTypeOK /\ RoutingTypeOK /\ OidTypeOK

\* No document is stored twice, because an insertion that is repeated brings
\* the same _id, and no two documents get the same ObjectId.
IdsUnique == StoredOnce /\ OidsUnique
=============================================================================
