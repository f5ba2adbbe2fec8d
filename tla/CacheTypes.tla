------------------------------ MODULE CacheTypes ------------------------------
(***************************************************************************)
(* Values shared by the modules that make up Odb::Lib::App::DesignCache.   *)
(*                                                                         *)
(* A cached object (a FileArchive or a ProductModel::Design) is reduced to *)
(* what the cache can tell apart:                                          *)
(*   id   - the identity of the shared_ptr; only Designs are ever compared *)
(*          by identity, so every FileArchive has id 0;                    *)
(*   ver  - which installed contents of the name the object was built      *)
(*          from: each upload or injection of a name installs the next     *)
(*          version.                                                       *)
(***************************************************************************)
EXTENDS Integers, FiniteSets

CONSTANTS
    Names,          \* design names (archive file stems)
    Threads,        \* request threads and background threads
    NoThread        \* "no owner"

ASSUME NamesAssumption == Names # {} /\ IsFiniteSet(Names)
ASSUME ThreadsAssumption == IsFiniteSet(Threads) /\ NoThread \notin Threads

\* The two instantiations of GetOrLoadSingleFlight<T>.
Kinds == {"archive", "design"}

Object == [id : Nat, ver : Nat]

\* nullptr; no installed contents has version 0.
Nil == [id |-> 0, ver |-> 0]
=============================================================================
