------------------------------- MODULE RestApi -------------------------------
(***************************************************************************)
(* The REST controllers: authentication, the order in which a handler        *)
(* decides, and the conditional GET of the per-design data endpoints.  One   *)
(* design, one client that revalidates what it holds, and everything that    *)
(* can change what the server serves meanwhile: uploads, posted archives,    *)
(* evictions, loads in flight, and a restart of the process.  The contents   *)
(* of an archive are a version number; the cache is the part of DesignCache  *)
(* that a GET sees, with the abandon checkpoint of a load and its insert as  *)
(* one step (DesignCache.tla has the window between them).                   *)
(***************************************************************************)
EXTENDS Integers, Sequences, FiniteSets

CONSTANTS MaxVersion,   \* bound: contents that exist
          MaxGen,       \* bound: invalidations of one process
          MaxRestarts   \* bound: restarts

VARIABLES disk,     \* version of the archive file, 0 when there is none
          cached,   \* version of the cached archive, 0 when there is none
          gen,      \* the design's invalidation generation
          flight,   \* the registered load: its generation, whether it has
                    \* recorded Loading, and the version it has read
          state,    \* the load state recorded for the design
          charged,  \* the design has an LRU entry
          writer,   \* the upload, post or eviction in progress, by what it
                    \* does next
          latest,   \* highest version made so far
          get,      \* the GET in progress
          client,   \* what the client holds: tag, version, whether it was
                    \* fetched from this process while nothing was changing,
                    \* and the posted contents it was fetched after
          reply,    \* the answer the last step gave
          process,  \* which run of the server
          posted    \* history: the posted contents, until an upload, an eviction
                    \* or a restart drops them

objectVars == <<disk, cached, gen, flight, state, charged>>
restVars == <<objectVars, writer, latest, get, client, reply, process, posted>>

NoFlight == [gen |-> -1, announced |-> FALSE, version |-> 0]
Registered == [gen |-> gen, announced |-> FALSE, version |-> 0]
NoTag == [file |-> 0, gen |-> 0]
Idle == [pc |-> "idle"]
NoReply == [code |-> 0, held |-> 0, serves |-> 0, quiet |-> FALSE, sound |-> FALSE]

RestInit == /\ disk \in {0, 1} /\ cached = 0 /\ gen = 0 /\ flight = NoFlight
            /\ state = "Unloaded" /\ charged = FALSE
            /\ writer = "none" /\ latest = 1 /\ get = Idle
            /\ client = [tag |-> NoTag, version |-> 0, clean |-> FALSE, after |-> 0]
            /\ reply = NoReply /\ process = 0 /\ posted = 0
-----------------------------------------------------------------------------
(* Authentication *)

(* What an Authorization header can be; credentials are compared with the    *)
(* environment's, or with the defaults.                                      *)
Header == {"absent", "short", "empty", "undecodable", "noColon", "wrong", "right"}

(* RequestAuthenticationBase, then BasicRequestAuthentication.  A header of  *)
(* fewer than six characters makes substr(6) throw.                          *)
Authenticate(disabled, header) ==
    IF disabled THEN 200
    ELSE CASE header = "short" -> 500
           [] header \in {"absent", "empty", "undecodable", "noColon"} -> 401
           [] header = "wrong" -> 403
           [] header = "right" -> 200
-----------------------------------------------------------------------------
(* The handlers: the names in a route, in the order they are checked, and    *)
(* whether the endpoint answers conditional GETs.                            *)

Route(names, conditional) == [names |-> names, conditional |-> conditional]
NameIn(req, name) == IF name = "netlist" THEN req.last ELSE req[name]

StepFileRoutes == [r \in {"eda_data", "attrlist", "profile", "stephdr"} |->
                      Route(<<"design", "step">>, TRUE)]
StepRoutes == [r \in {"step", "symbol_units"} |-> Route(<<"design", "step">>, TRUE)]
LayerRoutes == [r \in {"layer"} |-> Route(<<"design", "step", "last">>, TRUE)]
LayerFileRoutes == [r \in {"components", "features", "layer_attrlist"} |->
                       Route(<<"design", "step", "last">>, TRUE)]
NetlistRoutes == [r \in {"netlist"} |-> Route(<<"design", "step", "netlist">>, TRUE)]
SymbolRoutes == [r \in {"symbol", "symbol_features", "symbol_attrlist"} |->
                    Route(<<"design", "last">>, TRUE)]
FileModelRoute == [r \in {"filemodel"} |-> Route(<<"design">>, TRUE)]
RootRoutes == [r \in {"misc_attrlist", "matrix", "misc_info", "fonts"} |->
                  Route(<<"design">>, TRUE)]
DesignRoutes == [r \in {"components", "nets", "parts", "packages"} |->
                    Route(<<"design">>, FALSE)]
ListRoutes == [r \in {"steps", "symbols"} |-> Route(<<"design">>, FALSE)]
StepListRoutes == [r \in {"netlists", "layers"} |-> Route(<<"design", "step">>, FALSE)]

RouteTables == {StepFileRoutes, StepRoutes, LayerRoutes, LayerFileRoutes,
                NetlistRoutes, SymbolRoutes, FileModelRoute, RootRoutes,
                DesignRoutes, ListRoutes, StepListRoutes}
Routes == UNION {{t[r] : r \in DOMAIN t} : t \in RouteTables}

(* The netlist handler tests the step's name twice and its own never. *)
EmptyName(route, req) ==
    \E i \in DOMAIN route.names :
        route.names[i] # "netlist" /\ NameIn(req, route.names[i]) = "empty"
MissingName(route, req) ==
    \E i \in 2..Len(route.names) : NameIn(req, route.names[i]) # "known"

(* The last name is the layer's, the netlist's or the symbol's. *)
Request == [design : {"known", "empty"}, step : {"known", "empty"},
            last : {"known", "unknown", "empty"}]
(* TryGetFileArchive(): a corrupt archive throws, a missing one is null. *)
ArchiveCode(loaded) == CASE loaded = "corrupt" -> 500 [] loaded = "none" -> 404
                         [] OTHER -> 200
-----------------------------------------------------------------------------
(* ETag and conditional GET *)

(* MakeDesignEtag(): the file's mtime and size and the generation; none      *)
(* without a file.  The endpoint path hashed in is the route's pattern.      *)
MakeEtagFileOnly == IF disk = 0 THEN NoTag ELSE [file |-> disk, gen |-> 0]
FindDesignArchiveFile == disk
MakeEtag == IF FindDesignArchiveFile = 0 THEN NoTag
            ELSE [file |-> FindDesignArchiveFile, gen |-> gen]

(* The If-None-Match header: a list of tags, here the one the client holds.  *)
IfNoneMatchMatches(tags, etag) == etag # NoTag /\ etag \in tags

Quiet == writer = "none"
Serves == IF cached # 0 THEN cached ELSE disk

Answer(code) == reply' = [NoReply EXCEPT !.code = code]
NoAnswer == reply' = NoReply

(* Every route's lambda authenticates before it does anything else. *)
Refuse ==
    /\ get.pc = "idle"
    /\ \E header \in Header : LET auth == Authenticate(FALSE, header)
                             IN auth # 200 /\ Answer(auth)
    /\ UNCHANGED <<objectVars, writer, latest, get, client, process, posted>>

(* The handler of an authenticated GET, up to checkConditionalGet(). *)
GetStart ==
    /\ get.pc = "idle"
    /\ \E route \in Routes, req \in Request :
        LET tag == MakeEtag
        IN IF EmptyName(route, req) THEN Answer(400) /\ UNCHANGED get
           ELSE IF route.conditional /\ IfNoneMatchMatches({client.tag}, tag)
                THEN /\ reply' = [code |-> 304, held |-> client.version,
                                  serves |-> Serves, quiet |-> Quiet,
                                  sound |-> client.clean]
                     /\ UNCHANGED get
           ELSE /\ get' = [pc |-> "fetch", tag |-> IF route.conditional THEN tag ELSE NoTag,
                           missing |-> MissingName(route, req), quiet |-> Quiet,
                           after |-> IF Quiet THEN posted ELSE 0]
                /\ NoAnswer
    /\ UNCHANGED <<objectVars, writer, latest, client, process, posted>>

(* The archive is served: cache headers and the body, or a name in it that   *)
(* is not there.                                                             *)
Deliver(version, sound) ==
    /\ get' = Idle
    /\ IF version = 0 THEN Answer(404) /\ UNCHANGED client
       ELSE IF get.missing THEN Answer(404) /\ UNCHANGED client
       ELSE /\ Answer(200)
            /\ client' = [tag |-> get.tag, version |-> version,
                          clean |-> sound /\ get.quiet /\ Quiet /\ MakeEtag = get.tag,
                          after |-> IF get.after = posted THEN posted ELSE 0]

GetHit == /\ get.pc = "fetch" /\ cached # 0
          /\ Deliver(cached, TRUE)
          /\ UNCHANGED <<objectVars, writer, latest, process, posted>>

(* Join the load in flight, or register one. *)
GetJoin == /\ get.pc = "fetch" /\ cached = 0
           /\ get' = [get EXCEPT !.pc = "join"]
           /\ flight' = IF flight = NoFlight THEN Registered ELSE flight
           /\ NoAnswer
           /\ UNCHANGED <<disk, cached, gen, state, charged, writer, latest,
                          client, process, posted>>

(* The background load of RequestLoadDesign and of the auto-warm. *)
LoadDesignAsync == /\ flight = NoFlight /\ cached = 0 /\ disk # 0
                   /\ flight' = Registered
                   /\ NoAnswer
                   /\ UNCHANGED <<disk, cached, gen, state, charged, writer,
                                  latest, get, client, process, posted>>

(* Only now is the name recorded as Loading, and safe from eviction. *)
LoadAnnounces == /\ flight # NoFlight /\ ~flight.announced
                 /\ flight' = [flight EXCEPT !.announced = TRUE]
                 /\ state' = "Loading"
                 /\ NoAnswer
                 /\ UNCHANGED <<disk, cached, gen, charged, writer, latest, get,
                                client, process, posted>>

LoadReads == /\ flight.announced /\ flight.version = 0 /\ disk # 0
             /\ flight' = [flight EXCEPT !.version = disk]
             /\ NoAnswer
             /\ UNCHANGED <<disk, cached, gen, state, charged, writer, latest,
                            get, client, process, posted>>

(* The load ends: its value goes to those who joined it, and into the cache  *)
(* unless the generation has moved since it registered.  A parse may fail.   *)
LoadEnds(value, code) ==
    /\ flight' = NoFlight
    /\ IF get.pc = "join"
       THEN IF code = 200 THEN Deliver(value, flight.gen = gen)
            ELSE get' = Idle /\ Answer(code) /\ UNCHANGED client
       ELSE NoAnswer /\ UNCHANGED <<get, client>>
    /\ UNCHANGED <<disk, gen, writer, latest, process, posted>>

Kept == flight.gen = gen

(* What is kept is charged and recorded as Loaded; the state stays what it   *)
(* is when the load was raced.                                               *)
LoadRecords == /\ charged' = (Kept \/ charged)
               /\ state' = IF Kept THEN "Loaded" ELSE state

LoadDeliversOverwrites ==
    /\ flight.version # 0
    /\ cached' = IF Kept THEN flight.version ELSE cached
    /\ LoadRecords
    /\ LoadEnds(flight.version, 200)
LoadDelivers ==
    /\ flight.version # 0
    /\ LET value == IF Kept /\ cached # 0 THEN cached ELSE flight.version
       IN /\ cached' = IF Kept THEN value ELSE cached
          /\ LoadRecords
          /\ LoadEnds(value, 200)

(* A design that is not found has its state erased, a failed parse is Failed. *)
LoadFails == /\ flight.announced
             /\ \/ /\ disk = 0 /\ flight.version = 0
                   /\ state' = "Unloaded" /\ LoadEnds(0, ArchiveCode("none"))
                \/ /\ flight.version # 0
                   /\ state' = "Failed" /\ LoadEnds(0, ArchiveCode("corrupt"))
             /\ UNCHANGED <<cached, charged>>
-----------------------------------------------------------------------------
(* What changes the contents *)

(* handleOctetStreamUpload(): the file is moved in place, then autoWarm      *)
(* invalidates a design whose state is not Unloaded: the objects go first,   *)
(* then the generation moves, then the state is recorded.                    *)
UploadSaves == /\ Quiet /\ latest < MaxVersion /\ gen < MaxGen
               /\ disk' = latest + 1 /\ latest' = latest + 1
               /\ writer' = "uploaded" /\ posted' = 0
               /\ NoAnswer
               /\ UNCHANGED <<cached, gen, flight, state, charged, get, client,
                              process>>
UploadInvalidates ==
    /\ writer = "uploaded"
    /\ IF state # "Unloaded"
       THEN cached' = 0 /\ writer' = "drop" ELSE writer' = "none" /\ UNCHANGED cached
    /\ NoAnswer
    /\ UNCHANGED <<disk, gen, flight, state, charged, latest, get, client,
                   process, posted>>

(* filemodels_post_route_handler() -> AddFileArchive(save = false) *)
PostFileModel == /\ Quiet /\ latest < MaxVersion /\ gen < MaxGen
                 /\ cached' = latest + 1 /\ latest' = latest + 1
                 /\ posted' = latest + 1 /\ writer' = "add"
                 /\ NoAnswer
                 /\ UNCHANGED <<disk, gen, flight, state, charged, get, client,
                                process>>

Bump == /\ writer \in {"drop", "add"}
        /\ gen' = gen + 1
        /\ writer' = IF writer = "add" THEN "loaded" ELSE "unloaded"
        /\ NoAnswer
        /\ UNCHANGED <<disk, cached, flight, state, charged, latest, get,
                       client, process, posted>>

(* The last step of AddFileArchive, which also charges the archive, of       *)
(* InvalidateDesign and of EvictCacheEntries.                                *)
RecordState == /\ writer \in {"loaded", "unloaded"}
               /\ state' = IF writer = "loaded" THEN "Loaded" ELSE "Unloaded"
               /\ charged' = (charged \/ writer = "loaded")
               /\ writer' = "none"
               /\ NoAnswer
               /\ UNCHANGED <<disk, cached, gen, flight, latest, get, client,
                              process, posted>>

(* EvictOverBudgetLocked() takes the LRU entry of a design that is not       *)
(* recorded as Loading, in flight or not; EvictCacheEntries() moves the      *)
(* generation first, and the objects go after.                               *)
EvictBumps == /\ Quiet /\ charged /\ state # "Loading" /\ gen < MaxGen
              /\ gen' = gen + 1 /\ writer' = "evict" /\ posted' = 0
              /\ charged' = FALSE
              /\ NoAnswer
              /\ UNCHANGED <<disk, cached, flight, state, latest, get, client, process>>
EvictErases == /\ writer = "evict"
               /\ cached' = 0 /\ writer' = "unloaded"
               /\ NoAnswer
               /\ UNCHANGED <<disk, gen, flight, state, charged, latest, get,
                              client, process, posted>>

(* The process ends and starts again: files stay, generations do not. *)
Restart == /\ process < MaxRestarts
           /\ process' = process + 1 /\ cached' = 0 /\ gen' = 0
           /\ flight' = NoFlight /\ state' = "Unloaded" /\ charged' = FALSE
           /\ writer' = "none" /\ get' = Idle
           /\ posted' = 0 /\ reply' = NoReply
           /\ client' = [client EXCEPT !.clean = FALSE]
           /\ UNCHANGED <<disk, latest>>

(* design_route_handler(): the file model is left out of a copy of the       *)
(* cached Design unless the request asks for it, so the cache is left alone. *)
DesignRoute ==
    /\ get.pc = "idle" /\ cached # 0
    /\ Answer(200)
    /\ UNCHANGED <<objectVars, writer, latest, get, client, process, posted>>

(* makeLoadedFileModelsResponse(): the lists of designs.                     *)
ListDesigns ==
    /\ get.pc = "idle"
    /\ Answer(IF disk = 0 THEN 204 ELSE 200)
    /\ UNCHANGED <<objectVars, writer, latest, get, client, process, posted>>

RestNext == \/ Refuse \/ GetStart \/ GetHit \/ GetJoin \/ LoadDesignAsync
            \/ LoadAnnounces \/ LoadReads \/ LoadDelivers \/ LoadFails
            \/ UploadSaves \/ UploadInvalidates \/ PostFileModel \/ Bump
            \/ RecordState \/ EvictBumps \/ EvictErases \/ Restart
            \/ DesignRoute \/ ListDesigns
-----------------------------------------------------------------------------
(* Properties *)

(* A client that fetched while nothing was changing the design, and          *)
(* revalidates with the same server process, is told 304 only for the very   *)
(* contents a fetch would give it now, whatever uploads, posts, evictions    *)
(* and loads happened in between (RouteController::checkConditionalGet).     *)
CleanCopyRevalidates ==
    (reply.code = 304 /\ reply.quiet /\ reply.sound) => reply.held = reply.serves

(* A GET that begins when a post is over is answered with the posted         *)
(* archive, as long as no upload, eviction or restart drops it: a load that  *)
(* was in flight during the post, and that read the file before it, never    *)
(* puts its own archive in the place of the posted one (AddFileArchive,      *)
(* GetOrLoadSingleFlight).                                                   *)
PostedIsServed == client.after # 0 => client.version = client.after

(* "a client revalidating with the stale tag's If-None-Match no longer       *)
(* matches and receives a fresh 200" (Utils/ETag.h): once an upload, post or *)
(* eviction is over, no 304 for contents other than the ones a fetch would   *)
(* give now.                                                                 *)
RevalidationIsFresh ==
    (reply.code = 304 /\ reply.quiet) => reply.held = reply.serves
=============================================================================
