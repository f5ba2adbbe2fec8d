---------------------------- MODULE MCDesignCache ----------------------------
(***************************************************************************)
(* Instances of DesignCache for TLC: two clients, each with the requests   *)
(* that a run lets it issue, and two threads for detached work.            *)
(***************************************************************************)
EXTENDS DesignCache, TLC

CONSTANTS c1, c2, a, b

\* Requests with these operations on these names; 5 bytes hold one archive and
\* not a second one (the size only matters to SetCacheMaxBytes).
Req(ops, names) == [op : ops, name : names, max : {5}]

\* Loads of one name by every route, joined, failing, retried and cleared.
LoadScript ==
    (c1 :> <<Req({"GetDesign", "LoadDesignAsync"}, {a}),
             Req({"GetDesign", "RequestLoad"}, {a})>>)
 @@ (c2 :> <<Req({"GetDesign", "GetFileArchive", "Clear"}, {a})>>)

\* One client reads while the other replaces what it reads and may read it back.
InvalidateScript ==
    (c1 :> <<Req({"GetDesign", "GetFileArchive"}, {a}), Req({"GetFileArchive"}, {a})>>)
 @@ (c2 :> <<Req({"AddFileArchive", "InvalidateDesign", "Upload"}, {a}),
             Req({"GetDesign"}, {a})>>)

\* Two names that do not fit the budget together; a name may be evicted while its
\* design load runs on the archive cached before.
ReadBoth(more) == Req({"GetDesign", "SerializeResponses"} \cup more, {a, b})
EvictScript ==
    (c1 :> <<ReadBoth({"GetFileArchive"}), ReadBoth({})>>)
 @@ (c2 :> <<Req({"GetFileArchive", "SaveNewArchive", "SetCacheMaxBytes"}, {b})>>)

\* A read and an invalidation of the same name.
ReadAndInvalidate ==
    (c1 :> <<Req({"GetDesign"}, {a})>>) @@ (c2 :> <<Req({"InvalidateDesign"}, {a})>>)

\* A read and an injection of the same name.
ReadAndInject ==
    (c1 :> <<Req({"GetDesign"}, {a})>>) @@ (c2 :> <<Req({"AddFileArchive"}, {a})>>)

\* Two reads of the same name, by the two routes.
TwoReads ==
    (c1 :> <<Req({"GetDesign"}, {a})>>) @@ (c2 :> <<Req({"GetFileArchive"}, {a})>>)

\* One client alone: an injection, a read, then an upload of the same name.
InjectReadUpload ==
    (c1 :> <<Req({"AddFileArchive"}, {a}), Req({"GetDesign"}, {a}), Req({"Upload"}, {a})>>)
 @@ (c2 :> << >>)

OnDisk == [n \in Names |-> 1]
NotOnDisk == [n \in Names |-> 0]
=============================================================================
