---------------------------- MODULE ServerProofs ----------------------------
(***************************************************************************)
(* Theorems about the server process, for every value of the bounds, with   *)
(* and without a gRPC port or a terminal: no thread outlives the            *)
(* application object, a configuration in range whatever the file holds,    *)
(* the two promises of the REST controllers, streams that deliver each      *)
(* record of a layer once and in order, and symbols at the positions that   *)
(* features refer to.  A step of Server moves one of the three parts and    *)
(* leaves the variables of the others alone, so each part has an invariant  *)
(* over its own variables only.                                             *)
(***************************************************************************)
EXTENDS Server, FiniteSetTheorems, WellFoundedInduction, TLAPS

(* Max and Min of FiniteSetsExt choose an element; on two integers the       *)
(* choice is the larger and the smaller one.                                 *)
LEMMA MinOfTwo ==
    ASSUME NEW a \in Int, NEW b \in Int
    PROVE  Min({a, b}) = IF a <= b THEN a ELSE b
BY DEF Min

LEMMA MaxOfTwo ==
    ASSUME NEW a \in Int, NEW b \in Int
    PROVE  Max({a, b}) = IF a >= b THEN a ELSE b
BY DEF Max
-----------------------------------------------------------------------------
(* The lifecycle: where the threads can be while main() is at each point.  A *)
(* thread is started by main() only, m_grpcServer is set only between        *)
(* GrpcSet and GrpcClear, and main() is past a join only with the thread     *)
(* gone.                                                                     *)
ThreadsFollowMain ==
    /\ main \in {"init", "startGrpc", "startConsole", "runCrow", "serving",
                 "joinConsole", "shutGrpc", "joinGrpc", "destroy", "exited",
                 "crashed"}
    /\ main \in {"init", "startGrpc"} => grpc = "none"
    /\ main \in {"init", "startGrpc", "startConsole"} => console = "none"
    /\ main \in {"shutGrpc", "joinGrpc"} => console \in {"none", "done"}
    /\ grpcServer => grpc \in {"wait", "clear"}
    /\ NoThreadOutlivesApp

(* What a configuration file can hold: every field of the configuration is a *)
(* default or a clamped number, whatever integer the file has.               *)
LEMMA ClampInRange ==
    ASSUME NEW lo \in Int, NEW hi \in Int, lo <= hi, NEW v \in Int
    PROVE  Clamp(lo, hi, v) \in lo..hi
<1>1. Min({hi, v}) \in Int /\ Min({hi, v}) <= hi
  BY MinOfTwo
<1>2. QED
  BY <1>1, MaxOfTwo DEF Clamp

LEMMA NarrowIsInt ==
    ASSUME NEW v \in Int
    PROVE  Narrow(v) \in Int
<1>1. 2^IntBits = 8192 /\ 2^(IntBits - 1) = 4096
  BY DEF IntBits
<1>2. QED
  BY <1>1 DEF Narrow

LEMMA MessageBytesPositive ==
    ASSUME NEW mb \in Int, mb >= 1
    PROVE  MessageBytes(mb, 16) > 0
<1>1. 2^(IntBits - 1) = 4096
  BY DEF IntBits
<1>2. QED
  BY <1>1, MinOfTwo DEF MessageBytes
-----------------------------------------------------------------------------
LEMMA ThreadsInit == LifeInit => ThreadsFollowMain
BY DEF LifeInit, ThreadsFollowMain, NoThreadOutlivesApp

LEMMA ThreadsStep ==
    ASSUME ThreadsFollowMain, LifeNext
    PROVE  ThreadsFollowMain'
<1> USE DEF ThreadsFollowMain, NoThreadOutlivesApp
<1>1. CASE BaseRun
  BY <1>1 DEF BaseRun
<1>2. CASE Help
  BY <1>2 DEF Help
<1>3. CASE StartGrpc
  BY <1>3 DEF StartGrpc
<1>4. CASE StartConsole
  BY <1>4 DEF StartConsole
<1>5. CASE RunCrow
  BY <1>5 DEF RunCrow
<1>6. CASE CrowSignal
  BY <1>6 DEF CrowSignal
<1>7. CASE CrowReturns
  BY <1>7 DEF CrowReturns
<1>8. CASE JoinConsole
  BY <1>8 DEF JoinConsole
<1>9. CASE ShutGrpc
  BY <1>9 DEF ShutGrpc
<1>10. CASE JoinGrpc
  BY <1>10 DEF JoinGrpc
<1>11. CASE Destroy
  BY <1>11 DEF Destroy
<1>12. CASE ConsoleQuit
  BY <1>12 DEF ConsoleQuit
<1>13. CASE ConsoleEnds
  BY <1>13 DEF ConsoleEnds
<1>14. CASE ConsoleShutGrpc
  BY <1>14 DEF ConsoleShutGrpc
<1>15. CASE ConsoleJoinGrpc
  BY <1>15 DEF ConsoleJoinGrpc
<1>16. CASE GrpcLoadConfig
  BY <1>16 DEF GrpcLoadConfig
<1>17. CASE GrpcBuild
  BY <1>17 DEF GrpcBuild
<1>18. CASE GrpcSet
  BY <1>18 DEF GrpcSet
<1>19. CASE GrpcWait
  BY <1>19 DEF GrpcWait
<1>20. CASE GrpcClear
  BY <1>20 DEF GrpcClear
<1>21. QED
  BY <1>1, <1>2, <1>3, <1>4, <1>5, <1>6, <1>7, <1>8, <1>9, <1>10, <1>11, <1>12,
     <1>13, <1>14, <1>15, <1>16, <1>17, <1>18, <1>19, <1>20
     DEF LifeNext, MainStep, ConsoleStep, GrpcStep

LEMMA ThreadsStutter ==
    ASSUME ThreadsFollowMain, UNCHANGED lifeVars
    PROVE  ThreadsFollowMain'
BY DEF ThreadsFollowMain, NoThreadOutlivesApp, lifeVars

(* No server thread outlives the application: main() reaches the destructors *)
(* only with the gRPC thread ended, its server released and the console      *)
(* thread ended, with and without a gRPC port or a terminal                  *)
(* (OdbServerAppBase::Run).                                                  *)
THEOREM ThreadsEndBeforeApp == Spec => []NoThreadOutlivesApp
<1>1. Init => ThreadsFollowMain
  BY ThreadsInit DEF Init
<1>2. ThreadsFollowMain /\ [Next]_serverVars => ThreadsFollowMain'
  BY ThreadsStep, ThreadsStutter DEF Next, serverVars
<1>3. ThreadsFollowMain => NoThreadOutlivesApp
  BY DEF ThreadsFollowMain
<1>4. QED
  BY <1>1, <1>2, <1>3, PTL DEF Spec
-----------------------------------------------------------------------------
(* A key of a file is a number in its range or the default. *)
LEMMA KeyInRange ==
    ASSUME NEW lo \in Int, NEW hi \in Int, lo <= hi, NEW n \in Int
    PROVE  Clamp(lo, hi, Narrow(n)) \in lo..hi
BY NarrowIsInt, ClampInRange

(* The property, of a configuration rather than of the variable. *)
InRange(c) ==
    /\ c.receive \in 1..1000 /\ c.send \in 1..1000
    /\ c.batch \in 100..1000 /\ c.threads \in 1..64
    /\ c.pollers \in 1..16 /\ c.time \in 1..3600
    /\ c.timeout \in 1..300

LEMMA ReceivePositive ==
    ASSUME NEW c, InRange(c)
    PROVE  MessageBytes(c.receive, 16) > 0
<1>1. c.receive \in 1..1000
  BY DEF InRange
<1>2. c.receive \in Int /\ c.receive >= 1
  BY <1>1
<1>3. QED
  BY <1>2, MessageBytesPositive

LEMMA DefaultInRange == InRange(DefaultConfig)
BY DEF InRange, DefaultConfig

(* The keys of a JSON file of the model are any subset of the numeric keys   *)
(* and its numbers are any integers.                                         *)
LEMMA ConfigOfInRange ==
    ASSUME NEW file, \A k \in DOMAIN file.numbers : file.numbers[k] \in Int
    PROVE  InRange(ConfigOf(file))
<1> DEFINE num(key, lo, hi) == IF key \in DOMAIN file.numbers
                               THEN Clamp(lo, hi, Narrow(file.numbers[key]))
                               ELSE DefaultConfig[key]
<1>0. ASSUME NEW key, NEW lo \in Int, NEW hi \in Int, lo <= hi,
             DefaultConfig[key] \in lo..hi
      PROVE  num(key, lo, hi) \in lo..hi
  <2>1. CASE key \in DOMAIN file.numbers
    BY <1>0, <2>1, KeyInRange
  <2>2. CASE key \notin DOMAIN file.numbers
    BY <1>0, <2>2
  <2>3. QED
    BY <2>1, <2>2
<1> HIDE DEF num
<1>1. num("receive", 1, 1000) \in 1..1000
  <2> DEFINE lo == 1 hi == 1000
  <2>1. lo \in Int /\ hi \in Int /\ lo <= hi /\ DefaultConfig["receive"] \in lo..hi
    BY DEF DefaultConfig
  <2> HIDE DEF lo, hi
  <2>2. num("receive", lo, hi) \in lo..hi
    BY <1>0, <2>1, Zenon
  <2>3. QED
    BY <2>2 DEF lo, hi
<1>2. num("send", 1, 1000) \in 1..1000
  <2> DEFINE lo == 1 hi == 1000
  <2>1. lo \in Int /\ hi \in Int /\ lo <= hi /\ DefaultConfig["send"] \in lo..hi
    BY DEF DefaultConfig
  <2> HIDE DEF lo, hi
  <2>2. num("send", lo, hi) \in lo..hi
    BY <1>0, <2>1, Zenon
  <2>3. QED
    BY <2>2 DEF lo, hi
<1>3. num("batch", 100, 1000) \in 100..1000
  <2> DEFINE lo == 100 hi == 1000
  <2>1. lo \in Int /\ hi \in Int /\ lo <= hi /\ DefaultConfig["batch"] \in lo..hi
    BY DEF DefaultConfig
  <2> HIDE DEF lo, hi
  <2>2. num("batch", lo, hi) \in lo..hi
    BY <1>0, <2>1, Zenon
  <2>3. QED
    BY <2>2 DEF lo, hi
<1>4. num("threads", 1, 64) \in 1..64
  <2> DEFINE lo == 1 hi == 64
  <2>1. lo \in Int /\ hi \in Int /\ lo <= hi /\ DefaultConfig["threads"] \in lo..hi
    BY DEF DefaultConfig
  <2> HIDE DEF lo, hi
  <2>2. num("threads", lo, hi) \in lo..hi
    BY <1>0, <2>1, Zenon
  <2>3. QED
    BY <2>2 DEF lo, hi
<1>5. num("pollers", 1, 16) \in 1..16
  <2> DEFINE lo == 1 hi == 16
  <2>1. lo \in Int /\ hi \in Int /\ lo <= hi /\ DefaultConfig["pollers"] \in lo..hi
    BY DEF DefaultConfig
  <2> HIDE DEF lo, hi
  <2>2. num("pollers", lo, hi) \in lo..hi
    BY <1>0, <2>1, Zenon
  <2>3. QED
    BY <2>2 DEF lo, hi
<1>6. num("time", 1, 3600) \in 1..3600
  <2> DEFINE lo == 1 hi == 3600
  <2>1. lo \in Int /\ hi \in Int /\ lo <= hi /\ DefaultConfig["time"] \in lo..hi
    BY DEF DefaultConfig
  <2> HIDE DEF lo, hi
  <2>2. num("time", lo, hi) \in lo..hi
    BY <1>0, <2>1, Zenon
  <2>3. QED
    BY <2>2 DEF lo, hi
<1>7. num("timeout", 1, 300) \in 1..300
  <2> DEFINE lo == 1 hi == 300
  <2>1. lo \in Int /\ hi \in Int /\ lo <= hi /\ DefaultConfig["timeout"] \in lo..hi
    BY DEF DefaultConfig
  <2> HIDE DEF lo, hi
  <2>2. num("timeout", lo, hi) \in lo..hi
    BY <1>0, <2>1, Zenon
  <2>3. QED
    BY <2>2 DEF lo, hi
<1>8. ConfigOf(file) =
         [receive |-> num("receive", 1, 1000), send |-> num("send", 1, 1000),
          level |-> CompressionOf(file.compression),
          streaming |-> file.streaming,
          batch |-> num("batch", 100, 1000),
          threads |-> num("threads", 1, 64), pollers |-> num("pollers", 1, 16),
          time |-> num("time", 1, 3600), timeout |-> num("timeout", 1, 300)]
  BY Zenon DEF ConfigOf, num
<1>9. QED
  BY <1>1, <1>2, <1>3, <1>4, <1>5, <1>6, <1>7, <1>8 DEF InRange

LEMMA FileInRange ==
    ASSUME NEW file \in ConfigFile
    PROVE  InRange(LoadFromFile(file))
<1>1. CASE file.kind # "json"
  BY <1>1, DefaultInRange DEF LoadFromFile
<1>2. CASE file.kind = "json"
  <2>1. \A n \in Numbers : n \in Int
    BY NumbersAssumption
  <2>2. PICK n \in Numbers, l \in {"absent", "low", "bogus"} : file = JsonFile(n, l)
    <3>1. file \notin BrokenFile
      BY <1>2 DEF BrokenFile
    <3>2. QED
      BY <3>1 DEF ConfigFile
  <2>3. file.numbers = [k \in {"receive", "batch", "threads", "time"} |-> n]
    BY <2>2 DEF JsonFile
  <2>4. \A k \in DOMAIN file.numbers : file.numbers[k] \in Int
    BY <2>1, <2>3
  <2>5. QED
    BY <1>2, <2>4, ConfigOfInRange DEF LoadFromFile
<1>3. QED
  BY <1>1, <1>2

LEMMA AbsentIsDefault == InRange(LoadFromFile(Absent))
BY DefaultInRange DEF LoadFromFile, Absent

LEMMA ConfigInit == LifeInit => InRange(config)
BY DefaultInRange DEF LifeInit

LEMMA ConfigStep ==
    ASSUME InRange(config), LifeNext
    PROVE  InRange(config)'
<1>1. CASE GrpcLoadConfig
  <2>1. PICK env \in ConfigFile, other \in ConfigFile :
            config' \in {LoadFromFile(ConfigPath(env, other, Absent)),
                         LoadFromFile(ConfigPath(env, Absent, other))}
    BY <1>1 DEF GrpcLoadConfig
  <2>2. /\ ConfigPath(env, other, Absent) \in {env, other, Absent}
        /\ ConfigPath(env, Absent, other) \in {env, other, Absent}
    BY DEF ConfigPath
  <2>3. \E f \in {env, other, Absent} : config' = LoadFromFile(f)
    BY <2>1, <2>2
  <2>4. InRange(config')
    BY <2>3, FileInRange, AbsentIsDefault
  <2>5. QED
    BY <2>4 DEF InRange
<1>2. CASE ~GrpcLoadConfig
  <2>1. UNCHANGED config
    BY <1>2 DEF LifeNext, MainStep, ConsoleStep, GrpcStep, BaseRun, Help, StartGrpc,
       StartConsole, RunCrow, CrowSignal, CrowReturns, JoinConsole, ShutGrpc,
       JoinGrpc, Destroy, ConsoleQuit, ConsoleEnds, ConsoleShutGrpc,
       ConsoleJoinGrpc, GrpcBuild, GrpcSet, GrpcWait, GrpcClear
  <2>2. QED
    BY <2>1 DEF InRange
<1>3. QED
  BY <1>1, <1>2

(* Whatever the configuration file holds, and whichever file is found, the   *)
(* service starts with every number inside its documented range and a        *)
(* message limit that is not negative (GrpcServiceConfig::LoadFromFile,      *)
(* OdbDesignServerApp::RunGrpcServer).                                       *)
THEOREM ConfigAlwaysInRange == Spec => []ConfigInRange
<1>1. Init => InRange(config)
  BY ConfigInit DEF Init
<1>2. InRange(config) /\ [Next]_serverVars => InRange(config)'
  <2>1. ASSUME InRange(config), UNCHANGED lifeVars
        PROVE  InRange(config)'
    BY <2>1 DEF InRange, lifeVars
  <2>2. [Next]_serverVars => LifeNext \/ UNCHANGED lifeVars
    BY DEF Next, serverVars
  <2>3. QED
    BY <2>1, <2>2, ConfigStep
<1>3. InRange(config) => ConfigInRange
  <2>1. ASSUME InRange(config) PROVE MessageBytes(config.receive, 16) > 0
    BY <2>1, ReceivePositive
  <2>2. QED
    BY <2>1 DEF InRange, ConfigInRange
<1>4. QED
  BY <1>1, <1>2, <1>3, PTL DEF Spec
-----------------------------------------------------------------------------
(* The REST controllers: the types of their state. *)
Tags == [file : Nat, gen : Nat]
Fetching == [pc : {"fetch", "join"}, tag : Tags, missing : BOOLEAN,
             quiet : BOOLEAN, after : Nat]

Flights == [gen : Nat \cup {-1}, announced : BOOLEAN, version : Nat]

RestTypeOK ==
    /\ disk \in Nat /\ cached \in Nat /\ gen \in Nat /\ latest \in Nat
    /\ process \in Nat /\ posted \in Nat
    /\ flight \in Flights
    /\ state \in {"Unloaded", "Loading", "Loaded", "Failed"} /\ charged \in BOOLEAN
    /\ writer \in {"none", "uploaded", "drop", "add", "loaded", "unloaded", "evict"}
    /\ get = Idle \/ get \in Fetching
    /\ client \in [tag : Tags, version : Nat, clean : BOOLEAN, after : Nat]

(* Versions are handed out in order, so a version seen before an upload or a *)
(* post is older than the one it makes.                                      *)
VersionsKnown ==
    /\ disk <= latest /\ posted <= latest
    /\ get.pc # "idle" => get.after <= latest

(* A clean copy whose tag is the current one is the archive in the cache,    *)
(* unless a writer is about to move the generation: an upload has made the   *)
(* tag's file old, an eviction has moved the generation before it erases,    *)
(* and a clean copy is one the cache held when it was fetched.               *)
CleanCopyCached ==
    client.clean =>
        /\ client.tag.file <= disk /\ client.tag.gen <= gen
        /\ (client.tag.file = disk /\ client.tag.gen = gen /\ disk # 0)
              => /\ writer \in {"none", "drop", "add"}
                 /\ writer = "none" => cached # 0 /\ cached = client.version

(* Posted contents stay in the cache until they are dropped, and a GET that  *)
(* joined a load did not start after the post they came from.                *)
PostedCached ==
    /\ posted # 0 => cached = posted /\ writer \in {"none", "add", "loaded"}
    /\ get.pc = "join" => posted = 0 \/ get.after # posted

RestInv == /\ RestTypeOK /\ VersionsKnown /\ CleanCopyCached /\ PostedCached
           /\ CleanCopyRevalidates /\ PostedIsServed

LEMMA RestInitInv == RestInit => RestInv
<1> SUFFICES ASSUME RestInit PROVE RestInv
  OBVIOUS
<1> USE DEF RestInit
<1>1. RestTypeOK
  <2>1. flight \in Flights /\ charged \in BOOLEAN
    BY DEF Flights, NoFlight
  <2>2. client \in [tag : Tags, version : Nat, clean : BOOLEAN, after : Nat]
    BY DEF NoTag, Tags
  <2>3. QED
    BY <2>1, <2>2 DEF RestTypeOK
<1>2. VersionsKnown
  BY DEF VersionsKnown, Idle
<1>3. CleanCopyCached /\ PostedIsServed
  BY DEF CleanCopyCached, PostedIsServed
<1>4. PostedCached
  BY DEF PostedCached, Idle
<1>5. CleanCopyRevalidates
  BY DEF CleanCopyRevalidates, NoReply
<1>6. QED
  BY <1>1, <1>2, <1>3, <1>4, <1>5 DEF RestInv

(* The answers that are not a 304 say nothing about a copy. *)
LEMMA OtherAnswers ==
    ASSUME NEW code, code # 304, Answer(code)
    PROVE  CleanCopyRevalidates'
BY DEF Answer, NoReply, CleanCopyRevalidates

LEMMA Silent == NoAnswer => CleanCopyRevalidates'
BY DEF NoAnswer, NoReply, CleanCopyRevalidates
-----------------------------------------------------------------------------
(* Steps that touch neither the client's copy nor a GET. *)
LEMMA UploadSavesInv ==
    ASSUME RestInv, UploadSaves
    PROVE  RestInv'
<1> USE DEF UploadSaves, RestInv, NoAnswer, NoReply, Quiet
<1>1. RestTypeOK'
  BY DEF RestTypeOK
<1>2. VersionsKnown'
  BY DEF VersionsKnown, RestTypeOK, Fetching, Idle
<1>3. CleanCopyCached'
  BY DEF CleanCopyCached, RestTypeOK, VersionsKnown, Tags
<1>4. PostedCached' /\ PostedIsServed' /\ CleanCopyRevalidates'
  BY DEF PostedCached, PostedIsServed, CleanCopyRevalidates
<1>5. QED
  BY <1>1, <1>2, <1>3, <1>4

LEMMA UploadInvalidatesInv ==
    ASSUME RestInv, UploadInvalidates
    PROVE  RestInv'
<1> USE DEF UploadInvalidates, RestInv, NoAnswer, NoReply
<1>1. RestTypeOK'
  BY DEF RestTypeOK
<1>2. VersionsKnown'
  BY DEF VersionsKnown, RestTypeOK, Fetching, Idle
<1>3. CleanCopyCached'
  BY DEF CleanCopyCached, RestTypeOK, VersionsKnown, Tags
<1>4. PostedCached' /\ PostedIsServed' /\ CleanCopyRevalidates'
  BY DEF PostedCached, PostedIsServed, CleanCopyRevalidates, RestTypeOK, VersionsKnown, Fetching, Idle
<1>5. QED
  BY <1>1, <1>2, <1>3, <1>4

LEMMA PostFileModelInv ==
    ASSUME RestInv, PostFileModel
    PROVE  RestInv'
<1> USE DEF PostFileModel, Quiet, RestInv, NoAnswer, NoReply
<1>1. RestTypeOK'
  BY DEF RestTypeOK
<1>2. VersionsKnown'
  BY DEF VersionsKnown, RestTypeOK, Fetching, Idle
<1>3. CleanCopyCached'
  BY DEF CleanCopyCached, RestTypeOK, VersionsKnown, Tags
<1>4. PostedCached' /\ PostedIsServed' /\ CleanCopyRevalidates'
  BY DEF PostedCached, PostedIsServed, CleanCopyRevalidates, RestTypeOK, VersionsKnown, Fetching, Idle
<1>5. QED
  BY <1>1, <1>2, <1>3, <1>4

LEMMA BumpInv ==
    ASSUME RestInv, Bump
    PROVE  RestInv'
<1> USE DEF Bump, RestInv, NoAnswer, NoReply
<1>1. RestTypeOK'
  BY DEF RestTypeOK
<1>2. VersionsKnown'
  BY DEF VersionsKnown, RestTypeOK, Fetching, Idle
<1>3. CleanCopyCached'
  BY DEF CleanCopyCached, RestTypeOK, VersionsKnown, Tags
<1>4. PostedCached' /\ PostedIsServed' /\ CleanCopyRevalidates'
  BY DEF PostedCached, PostedIsServed, CleanCopyRevalidates, RestTypeOK, VersionsKnown, Fetching, Idle
<1>5. QED
  BY <1>1, <1>2, <1>3, <1>4

LEMMA RecordStateInv ==
    ASSUME RestInv, RecordState
    PROVE  RestInv'
<1> USE DEF RecordState, RestInv, NoAnswer, NoReply
<1>1. RestTypeOK'
  BY DEF RestTypeOK
<1>2. VersionsKnown'
  BY DEF VersionsKnown, RestTypeOK, Fetching, Idle
<1>3. CleanCopyCached'
  BY DEF CleanCopyCached, RestTypeOK, VersionsKnown, Tags
<1>4. PostedCached' /\ PostedIsServed' /\ CleanCopyRevalidates'
  BY DEF PostedCached, PostedIsServed, CleanCopyRevalidates, RestTypeOK, VersionsKnown, Fetching, Idle
<1>5. QED
  BY <1>1, <1>2, <1>3, <1>4

LEMMA EvictBumpsInv ==
    ASSUME RestInv, EvictBumps
    PROVE  RestInv'
<1> USE DEF EvictBumps, Quiet, RestInv, NoAnswer, NoReply
<1>1. RestTypeOK'
  <2>1. charged' \in BOOLEAN
    BY Zenon
  <2>2. QED
    BY <2>1 DEF RestTypeOK
<1>2. VersionsKnown'
  BY DEF VersionsKnown, RestTypeOK, Fetching, Idle
<1>3. CleanCopyCached'
  BY DEF CleanCopyCached, RestTypeOK, VersionsKnown, Tags
<1>4. PostedCached' /\ PostedIsServed' /\ CleanCopyRevalidates'
  BY DEF PostedCached, PostedIsServed, CleanCopyRevalidates, RestTypeOK, VersionsKnown, Fetching, Idle
<1>5. QED
  BY <1>1, <1>2, <1>3, <1>4

LEMMA EvictErasesInv ==
    ASSUME RestInv, EvictErases
    PROVE  RestInv'
<1> USE DEF EvictErases, RestInv, NoAnswer, NoReply
<1>1. RestTypeOK'
  BY DEF RestTypeOK
<1>2. VersionsKnown'
  BY DEF VersionsKnown, RestTypeOK, Fetching, Idle
<1>3. CleanCopyCached'
  BY DEF CleanCopyCached, RestTypeOK, VersionsKnown, Tags
<1>4. PostedCached' /\ PostedIsServed' /\ CleanCopyRevalidates'
  BY DEF PostedCached, PostedIsServed, CleanCopyRevalidates, RestTypeOK, VersionsKnown, Fetching, Idle
<1>5. QED
  BY <1>1, <1>2, <1>3, <1>4

LEMMA LoadDesignAsyncInv ==
    ASSUME RestInv, LoadDesignAsync
    PROVE  RestInv'
<1> USE DEF LoadDesignAsync, RestInv, NoAnswer, NoReply
<1>1. RestTypeOK'
  BY DEF RestTypeOK, Flights, Registered
<1>2. VersionsKnown'
  BY DEF VersionsKnown, RestTypeOK, Fetching, Idle
<1>3. CleanCopyCached'
  BY DEF CleanCopyCached, RestTypeOK, VersionsKnown, Tags
<1>4. PostedCached' /\ PostedIsServed' /\ CleanCopyRevalidates'
  BY DEF PostedCached, PostedIsServed, CleanCopyRevalidates, RestTypeOK, VersionsKnown, Fetching, Idle
<1>5. QED
  BY <1>1, <1>2, <1>3, <1>4

LEMMA LoadAnnouncesInv ==
    ASSUME RestInv, LoadAnnounces
    PROVE  RestInv'
<1> USE DEF LoadAnnounces, RestInv, NoAnswer, NoReply
<1>1. RestTypeOK'
  BY DEF RestTypeOK, Flights
<1>2. VersionsKnown'
  BY DEF VersionsKnown, RestTypeOK, Fetching, Idle
<1>3. CleanCopyCached'
  BY DEF CleanCopyCached, RestTypeOK, VersionsKnown, Tags
<1>4. PostedCached' /\ PostedIsServed' /\ CleanCopyRevalidates'
  BY DEF PostedCached, PostedIsServed, CleanCopyRevalidates, RestTypeOK, VersionsKnown, Fetching, Idle
<1>5. QED
  BY <1>1, <1>2, <1>3, <1>4

LEMMA LoadReadsInv ==
    ASSUME RestInv, LoadReads
    PROVE  RestInv'
<1> USE DEF LoadReads, RestInv, NoAnswer, NoReply
<1>1. RestTypeOK'
  BY DEF RestTypeOK, Flights
<1>2. VersionsKnown'
  BY DEF VersionsKnown, RestTypeOK, Fetching, Idle
<1>3. CleanCopyCached'
  BY DEF CleanCopyCached, RestTypeOK, VersionsKnown, Tags
<1>4. PostedCached' /\ PostedIsServed' /\ CleanCopyRevalidates'
  BY DEF PostedCached, PostedIsServed, CleanCopyRevalidates, RestTypeOK, VersionsKnown, Fetching, Idle
<1>5. QED
  BY <1>1, <1>2, <1>3, <1>4

LEMMA GetJoinInv ==
    ASSUME RestInv, GetJoin
    PROVE  RestInv'
<1> USE DEF GetJoin, RestInv, NoAnswer, NoReply
<1>1. RestTypeOK'
  BY DEF RestTypeOK, Flights, Registered, Fetching, Idle
<1>2. VersionsKnown'
  BY DEF VersionsKnown, RestTypeOK, Fetching, Idle
<1>3. CleanCopyCached'
  BY DEF CleanCopyCached, RestTypeOK, VersionsKnown, Tags
<1>4. PostedCached' /\ PostedIsServed' /\ CleanCopyRevalidates'
  BY DEF PostedCached, PostedIsServed, CleanCopyRevalidates, RestTypeOK, VersionsKnown, Fetching, Idle
<1>5. QED
  BY <1>1, <1>2, <1>3, <1>4

LEMMA RestartInv ==
    ASSUME RestInv, Restart
    PROVE  RestInv'
<1> USE DEF Restart, RestInv, NoAnswer, NoReply
<1>1. RestTypeOK'
  <2>1. client' \in [tag : Tags, version : Nat, clean : BOOLEAN, after : Nat]
    BY Zenon DEF RestTypeOK
  <2>2. flight' \in Flights /\ charged' \in BOOLEAN
    BY DEF Flights, NoFlight
  <2>3. QED
    BY <2>1, <2>2 DEF RestTypeOK
<1>2. VersionsKnown' /\ CleanCopyCached' /\ PostedCached' /\ PostedIsServed'
  BY DEF VersionsKnown, CleanCopyCached, PostedCached, PostedIsServed,
         RestTypeOK, Idle
<1>3. CleanCopyRevalidates'
  BY DEF CleanCopyRevalidates, NoReply
<1>4. QED
  BY <1>1, <1>2, <1>3
-----------------------------------------------------------------------------
(* A GET that is answered with an archive.  The load that answers it leaves  *)
(* what is in the cache alone, and a sound answer is what the cache holds    *)
(* after it.                                                                 *)
LEMMA DeliverInv ==
    ASSUME RestInv, NEW version \in Nat, NEW sound \in BOOLEAN,
           get.pc # "idle", Deliver(version, sound),
           UNCHANGED <<disk, gen, writer, latest, process, posted>>,
           cached' \in Nat, flight' \in Flights, charged' \in BOOLEAN,
           state' \in {"Unloaded", "Loading", "Loaded", "Failed"},
           cached # 0 => cached' = cached,
           sound => cached' = version,
           posted # 0 /\ get.after = posted => version = posted
    PROVE  RestInv'
<1>1. get' = Idle
  BY DEF Deliver
<1>2. get \in Fetching /\ get.tag \in Tags /\ get.missing \in BOOLEAN /\ get.quiet \in BOOLEAN
      /\ get.after \in Nat
  BY DEF RestInv, RestTypeOK, Fetching, Idle
<1>3. CleanCopyRevalidates'
  <2>1. Answer(404) \/ Answer(200)
    BY DEF Deliver
  <2>2. QED
    BY <2>1, OtherAnswers
<1>4. VersionsKnown' /\ PostedCached'
  BY <1>1 DEF RestInv, RestTypeOK, VersionsKnown, PostedCached, Idle
<1>5. CASE UNCHANGED client
  <2>1. RestTypeOK'
    BY <1>1, <1>5 DEF RestInv, RestTypeOK
  <2>2. CleanCopyCached' /\ PostedIsServed'
    BY <1>5 DEF RestInv, RestTypeOK, CleanCopyCached, PostedIsServed, Tags
  <2>3. QED
    BY <1>3, <1>4, <2>1, <2>2 DEF RestInv
<1>6. CASE /\ version # 0
           /\ client' = [tag |-> get.tag, version |-> version,
                         clean |-> sound /\ get.quiet /\ Quiet /\ MakeEtag = get.tag,
                         after |-> IF get.after = posted THEN posted ELSE 0]
  <2> DEFINE clean == sound /\ get.quiet /\ Quiet /\ MakeEtag = get.tag
  <2>1. clean \in BOOLEAN
    BY <1>2, Zenon
  <2>2. clean => /\ cached' = version /\ writer = "none"
                 /\ get.tag.file <= disk /\ get.tag.gen <= gen
    BY <1>2 DEF Quiet, MakeEtag, FindDesignArchiveFile, NoTag, RestInv, RestTypeOK
  <2> HIDE DEF clean
  <2>3. client' = [tag |-> get.tag, version |-> version, clean |-> clean,
                   after |-> IF get.after = posted THEN posted ELSE 0]
    BY <1>6, Zenon DEF clean
  <2>4. RestTypeOK'
    <3>1. (IF get.after = posted THEN posted ELSE 0) \in Nat
      BY DEF RestInv, RestTypeOK
    <3>2. client' \in [tag : Tags, version : Nat, clean : BOOLEAN, after : Nat]
      BY <1>2, <2>1, <2>3, <3>1
    <3>3. QED
      BY <1>1, <3>2 DEF RestInv, RestTypeOK
  <2>5. PostedIsServed'
    BY <2>3 DEF PostedIsServed
  <2>6. CleanCopyCached'
    BY <1>6, <2>2, <2>3 DEF CleanCopyCached
  <2>7. QED
    BY <1>3, <1>4, <2>4, <2>5, <2>6 DEF RestInv
<1>7. QED
  BY <1>5, <1>6 DEF Deliver

LEMMA GetHitInv ==
    ASSUME RestInv, GetHit
    PROVE  RestInv'
<1>1. Deliver(cached, TRUE) /\ get.pc # "idle"
  BY DEF GetHit
<1>2. /\ UNCHANGED <<disk, cached, gen, flight, state, charged, writer, latest,
                    process, posted>>
      /\ cached \in Nat /\ flight \in Flights /\ charged \in BOOLEAN
      /\ state \in {"Unloaded", "Loading", "Loaded", "Failed"}
      /\ posted # 0 => cached = posted
  BY DEF GetHit, RestInv, RestTypeOK, PostedCached, objectVars
<1>3. QED
  BY <1>1, <1>2, DeliverInv

(* A load that ends hands its value to the GET that joined it; the GET did   *)
(* not start after the current post.                                         *)
LEMMA LoadEndsInv ==
    ASSUME RestInv, NEW value \in Nat, NEW code, code # 304,
           LoadEnds(value, code), cached' \in Nat, charged' \in BOOLEAN,
           state' \in {"Unloaded", "Loading", "Loaded", "Failed"},
           cached # 0 => cached' = cached,
           flight.gen = gen /\ code = 200 => cached' = value
    PROVE  RestInv'
<1>1. /\ UNCHANGED <<disk, gen, writer, latest, process, posted>>
      /\ flight' \in Flights
  BY DEF LoadEnds, NoFlight, Flights
<1>2. CASE get.pc = "join" /\ code = 200
  <2>1. Deliver(value, flight.gen = gen) /\ get.pc # "idle"
    BY <1>2 DEF LoadEnds
  <2>2. ~(posted # 0 /\ get.after = posted)
    BY <1>2 DEF RestInv, PostedCached
  <2>3. (flight.gen = gen) \in BOOLEAN
    OBVIOUS
  <2>4. (flight.gen = gen) => cached' = value
    BY <1>2
  <2>5. QED
    BY <1>1, <2>1, <2>2, <2>3, <2>4, DeliverInv
<1>3. CASE get.pc = "join" /\ code # 200
  <2>1. get' = Idle /\ UNCHANGED client /\ CleanCopyRevalidates'
    BY <1>3, OtherAnswers DEF LoadEnds
  <2>2. RestTypeOK' /\ VersionsKnown' /\ PostedCached'
    BY <1>1, <2>1 DEF RestInv, RestTypeOK, VersionsKnown, PostedCached, Idle
  <2>3. CleanCopyCached' /\ PostedIsServed'
    BY <1>1, <2>1 DEF RestInv, RestTypeOK, CleanCopyCached, PostedIsServed, Tags
  <2>4. QED
    BY <2>1, <2>2, <2>3 DEF RestInv
<1>4. CASE get.pc # "join"
  <2>1. UNCHANGED <<get, client>> /\ CleanCopyRevalidates'
    BY <1>4, Silent DEF LoadEnds
  <2>2. RestTypeOK' /\ VersionsKnown' /\ PostedCached' /\ CleanCopyRevalidates'
    BY <1>1, <2>1 DEF RestInv, RestTypeOK, VersionsKnown, PostedCached
  <2>3. CleanCopyCached' /\ PostedIsServed'
    BY <1>1, <2>1 DEF RestInv, RestTypeOK, CleanCopyCached, PostedIsServed, Tags
  <2>4. QED
    BY <2>2, <2>3 DEF RestInv
<1>5. QED
  BY <1>2, <1>3, <1>4

LEMMA LoadDeliversInv ==
    ASSUME RestInv, LoadDelivers
    PROVE  RestInv'
<1> DEFINE value == IF flight.gen = gen /\ cached # 0 THEN cached ELSE flight.version
<1>1. value \in Nat /\ cached \in Nat
  BY DEF RestInv, RestTypeOK, Flights
<1>2. /\ cached' = IF flight.gen = gen THEN value ELSE cached
      /\ LoadEnds(value, 200)
      /\ LoadRecords
  BY DEF LoadDelivers, Kept
<1>3. /\ cached' \in Nat /\ cached # 0 => cached' = cached
      /\ flight.gen = gen => cached' = value
  BY <1>1, <1>2
<1>4. charged' \in BOOLEAN /\ state' \in {"Unloaded", "Loading", "Loaded", "Failed"}
  BY <1>2 DEF LoadRecords, Kept, RestInv, RestTypeOK
<1> HIDE DEF value
<1>5. QED
  BY <1>1, <1>2, <1>3, <1>4, LoadEndsInv

LEMMA LoadFailsInv ==
    ASSUME RestInv, LoadFails
    PROVE  RestInv'
<1>1. ArchiveCode("none") = 404 /\ ArchiveCode("corrupt") = 500
  BY DEF ArchiveCode
<1>2. PICK code \in {404, 500} : LoadEnds(0, code)
  BY <1>1 DEF LoadFails
<1>3. /\ cached' = cached /\ cached \in Nat /\ charged' \in BOOLEAN
      /\ state' \in {"Unloaded", "Loading", "Loaded", "Failed"}
  BY DEF LoadFails, RestInv, RestTypeOK
<1>4. code # 304 /\ code # 200
  BY <1>2
<1>5. QED
  BY <1>2, <1>3, <1>4, LoadEndsInv
-----------------------------------------------------------------------------
(* A step that only answers. *)
LEMMA AnswerInv ==
    ASSUME RestInv, CleanCopyRevalidates',
           UNCHANGED <<objectVars, writer, latest, get, client, process, posted>>
    PROVE  RestInv'
BY DEF RestInv, RestTypeOK, VersionsKnown, CleanCopyCached, PostedCached,
       PostedIsServed, objectVars

(* The tag of a 304 is the current one, so a clean copy is what the cache    *)
(* holds and what a fetch would be given.                                    *)
LEMMA NotModified ==
    ASSUME RestInv, IfNoneMatchMatches({client.tag}, MakeEtag),
           reply' = [code |-> 304, held |-> client.version, serves |-> Serves,
                     quiet |-> Quiet, sound |-> client.clean]
    PROVE  CleanCopyRevalidates'
<1>1. disk # 0 /\ client.tag = [file |-> disk, gen |-> gen]
  BY DEF IfNoneMatchMatches, MakeEtag, FindDesignArchiveFile, NoTag
<1>2. writer = "none" /\ client.clean => cached # 0 /\ cached = client.version
  BY <1>1 DEF RestInv, RestTypeOK, CleanCopyCached
<1>3. Quiet /\ client.clean => Serves = client.version
  BY <1>2 DEF Quiet, Serves
<1>4. QED
  BY <1>3 DEF CleanCopyRevalidates

(* A GET that passes the checks starts with the posted contents of the       *)
(* moment, and joins nothing yet.                                            *)
LEMMA FetchInv ==
    ASSUME RestInv, NEW tag \in Tags, NEW missing \in BOOLEAN,
           get' = [pc |-> "fetch", tag |-> tag, missing |-> missing,
                   quiet |-> Quiet, after |-> IF Quiet THEN posted ELSE 0],
           NoAnswer,
           UNCHANGED <<objectVars, writer, latest, client, process, posted>>
    PROVE  RestInv'
<1>1. Quiet \in BOOLEAN
  BY DEF Quiet
<1>2. (IF Quiet THEN posted ELSE 0) \in Nat /\ (IF Quiet THEN posted ELSE 0) <= latest
  BY DEF RestInv, RestTypeOK, VersionsKnown
<1> DEFINE after == IF Quiet THEN posted ELSE 0
<1>3. get' = [pc |-> "fetch", tag |-> tag, missing |-> missing,
              quiet |-> Quiet, after |-> after]
  BY Zenon
<1> HIDE DEF after
<1>4. get' \in Fetching /\ get'.pc = "fetch" /\ get'.after = after
  BY <1>1, <1>2, <1>3 DEF Fetching, after
<1>5. RestTypeOK'
  BY <1>4 DEF RestInv, RestTypeOK, objectVars
<1>6. VersionsKnown' /\ PostedCached'
  BY <1>2, <1>4 DEF RestInv, VersionsKnown, PostedCached, after, objectVars
<1>7. CleanCopyCached' /\ PostedIsServed' /\ CleanCopyRevalidates'
  BY Silent DEF RestInv, CleanCopyCached, PostedIsServed, objectVars
<1>8. QED
  BY <1>5, <1>6, <1>7 DEF RestInv

LEMMA GetStartInv ==
    ASSUME RestInv, GetStart
    PROVE  RestInv'
<1>1. UNCHANGED <<objectVars, writer, latest, client, process, posted>>
  BY DEF GetStart
<1>2. PICK route \in Routes, req \in Request :
        LET tag == MakeEtag
        IN IF EmptyName(route, req) THEN Answer(400) /\ UNCHANGED get
           ELSE IF route.conditional /\ IfNoneMatchMatches({client.tag}, tag)
                THEN /\ reply' = [code |-> 304, held |-> client.version,
                                  serves |-> Serves, quiet |-> Quiet,
                                  sound |-> client.clean]
                     /\ UNCHANGED get
           ELSE /\ get' = [pc |-> "fetch", tag |-> IF route.conditional THEN tag ELSE NoTag,
                           missing |-> MissingName(route, req), quiet |-> Quiet,
                           after |-> IF Quiet THEN posted ELSE 0]
                /\ NoAnswer
  BY DEF GetStart
<1>3. (IF route.conditional THEN MakeEtag ELSE NoTag) \in Tags
  BY DEF MakeEtag, FindDesignArchiveFile, NoTag, Tags, RestInv, RestTypeOK
<1>4. MissingName(route, req) \in BOOLEAN
  BY DEF MissingName
<1>5. CASE EmptyName(route, req)
  BY <1>1, <1>2, <1>5, OtherAnswers, AnswerInv
<1>6. CASE /\ ~EmptyName(route, req)
           /\ route.conditional /\ IfNoneMatchMatches({client.tag}, MakeEtag)
  BY <1>1, <1>2, <1>6, NotModified, AnswerInv
<1>7. CASE /\ ~EmptyName(route, req)
           /\ ~(route.conditional /\ IfNoneMatchMatches({client.tag}, MakeEtag))
  <2> DEFINE tag == IF route.conditional THEN MakeEtag ELSE NoTag
  <2>1. /\ get' = [pc |-> "fetch", tag |-> tag,
                   missing |-> MissingName(route, req), quiet |-> Quiet,
                   after |-> IF Quiet THEN posted ELSE 0]
        /\ NoAnswer
    BY <1>2, <1>7, Zenon
  <2> HIDE DEF tag
  <2>2. tag \in Tags
    BY <1>3 DEF tag
  <2>3. QED
    BY <1>1, <1>4, <2>1, <2>2, FetchInv
<1>8. QED
  BY <1>5, <1>6, <1>7

LEMMA RefuseInv ==
    ASSUME RestInv, Refuse
    PROVE  RestInv'
<1>1. UNCHANGED <<objectVars, writer, latest, get, client, process, posted>>
  BY DEF Refuse
<1>2. PICK header \in Header : Answer(Authenticate(FALSE, header))
  BY DEF Refuse
<1>3. Authenticate(FALSE, header) # 304
  BY DEF Authenticate, Header
<1>4. QED
  BY <1>1, <1>2, <1>3, OtherAnswers, AnswerInv

LEMMA DesignRouteInv ==
    ASSUME RestInv, DesignRoute \/ ListDesigns
    PROVE  RestInv'
<1>1. UNCHANGED <<objectVars, writer, latest, get, client, process, posted>>
  BY DEF DesignRoute, ListDesigns
<1>2. Answer(200) \/ Answer(204)
  BY DEF DesignRoute, ListDesigns
<1>3. QED
  BY <1>1, <1>2, OtherAnswers, AnswerInv

LEMMA RestInvStep ==
    ASSUME RestInv, RestNext
    PROVE  RestInv'
BY RefuseInv, GetStartInv, GetHitInv, GetJoinInv, LoadDesignAsyncInv,
   LoadAnnouncesInv, LoadReadsInv, LoadDeliversInv, LoadFailsInv,
   UploadSavesInv, UploadInvalidatesInv, PostFileModelInv, BumpInv,
   RecordStateInv, EvictBumpsInv, EvictErasesInv, RestartInv,
   DesignRouteInv
   DEF RestNext

LEMMA RestInvStutter ==
    ASSUME RestInv, UNCHANGED restVars
    PROVE  RestInv'
BY DEF restVars, objectVars, RestInv, RestTypeOK, VersionsKnown, CleanCopyCached,
       PostedCached, PostedIsServed, CleanCopyRevalidates

LEMMA RestInvariant == Spec => []RestInv
<1>1. Init => RestInv
  BY RestInitInv DEF Init
<1>2. RestInv /\ [Next]_serverVars => RestInv'
  <2>1. [Next]_serverVars => RestNext \/ UNCHANGED restVars
    BY DEF Next, serverVars
  <2>2. QED
    BY <2>1, RestInvStep, RestInvStutter
<1>3. QED
  BY <1>1, <1>2, PTL DEF Spec

(* A client that fetched while nothing was changing the design and           *)
(* revalidates with the same process is told 304 only for the contents a     *)
(* fetch would give it, through any number of uploads, posts, evictions,     *)
(* loads and restarts (RouteController::checkConditionalGet,                 *)
(* DesignCache::GetOrLoadSingleFlight).                                      *)
THEOREM CleanCopiesRevalidate == Spec => []CleanCopyRevalidates
<1>1. RestInv => CleanCopyRevalidates
  BY DEF RestInv
<1>2. QED
  BY <1>1, RestInvariant, PTL

(* A GET that begins after a post is answered with the posted archive as     *)
(* long as nothing drops it: no load in flight during the post replaces it,  *)
(* and no GET is answered by a load that began before it                     *)
(* (DesignCache::AddFileArchive, GetOrLoadSingleFlight).                     *)
THEOREM PostsAreServed == Spec => []PostedIsServed
<1>1. RestInv => PostedIsServed
  BY DEF RestInv
<1>2. QED
  BY <1>1, RestInvariant, PTL
-----------------------------------------------------------------------------
(* The streams.  While a stream runs, what was sent and what waits in the    *)
(* batch are the records before `next`, in order; a batch is written as soon *)
(* as it is full, so one that waits is not.                                  *)
StreamType ==
    call \in [rpc : {"stream"}, batching : BOOLEAN, records : Seq(BOOLEAN), next : Nat,
              batch : Seq(Nat), wire : Seq(Seq(Nat)), cancelled : BOOLEAN,
              connected : BOOLEAN,
              status : {"running", "OK", "CANCELLED", "UNIMPLEMENTED", "INTERNAL",
                        "NOT_FOUND"}]

AllSent == Sent(call.wire) = Present(call.records, Len(call.records))

StreamRuns ==
    /\ call.next \in 1..Len(call.records) + 1
    /\ Sent(call.wire) \cup Range(call.batch) = Present(call.records, call.next - 1)
    /\ Increasing(call.batch)
    /\ \A a \in Sent(call.wire), b \in Range(call.batch) : a < b
    /\ Len(call.batch) < BatchSize
    /\ call.batching => \A i \in DOMAIN call.wire : Len(call.wire[i]) = BatchSize
    /\ ~call.batching => call.batch = <<>>

WireOK ==
    /\ InOrder(call.wire)
    /\ \E n \in 0..Len(call.records) : Sent(call.wire) = Present(call.records, n)
    /\ \A i \in DOMAIN call.wire :
          /\ call.wire[i] # <<>>
          /\ call.batching /\ i < Len(call.wire) => Len(call.wire[i]) = BatchSize

StreamInv ==
    call.rpc = "stream" =>
        /\ StreamType /\ WireOK
        /\ call.status = "running" => StreamRuns
        /\ call.status = OK /\ call.connected => AllSent

(* One more message on the wire. *)
LEMMA SentAppend ==
    ASSUME NEW w \in Seq(Seq(Nat)), NEW m \in Seq(Nat)
    PROVE  Sent(Append(w, m)) = Sent(w) \cup Range(m)
<1> DEFINE v == Append(w, m)
<1>1. /\ DOMAIN v = DOMAIN w \cup {Len(w) + 1} /\ v[Len(w) + 1] = m
      /\ \A i \in DOMAIN w : v[i] = w[i]
  OBVIOUS
<1> HIDE DEF v
<1>2. Sent(v) = Sent(w) \cup Range(m)
  BY <1>1 DEF Sent
<1> QED
  BY <1>2 DEF v

LEMMA OrderAppend ==
    ASSUME NEW w \in Seq(Seq(Nat)), NEW m \in Seq(Nat), InOrder(w), Increasing(m),
           \A a \in Sent(w), b \in Range(m) : a < b
    PROVE  InOrder(Append(w, m))
<1> DEFINE v == Append(w, m)
<1>1. /\ DOMAIN v = DOMAIN w \cup {Len(w) + 1} /\ v[Len(w) + 1] = m
      /\ \A i \in DOMAIN w : v[i] = w[i]
      /\ \A i \in DOMAIN w : i \in Nat /\ i < Len(w) + 1
  OBVIOUS
<1>2. \A i \in DOMAIN w : Range(w[i]) \subseteq Sent(w)
  BY DEF Sent
<1> HIDE DEF v
<1>3. \A i \in DOMAIN v : Increasing(v[i])
  BY <1>1 DEF InOrder
<1>4. ASSUME NEW i \in DOMAIN v, NEW j \in DOMAIN v, i < j,
             NEW a \in Range(v[i]), NEW b \in Range(v[j])
      PROVE  a < b
  <2>1. i \in DOMAIN w
    BY <1>1, <1>4
  <2>2. CASE j \in DOMAIN w
    BY <1>1, <1>4, <2>1, <2>2 DEF InOrder
  <2>3. CASE j = Len(w) + 1
    BY <1>1, <1>2, <1>4, <2>1, <2>3
  <2> QED
    BY <1>1, <2>2, <2>3
<1> QED
  BY <1>3, <1>4 DEF InOrder, v

(* What was sent is a prefix of the records when only later ones wait. *)
LEMMA SentIsPrefix ==
    ASSUME NEW r \in Seq(BOOLEAN), NEW n \in 0..Len(r), NEW S, NEW b \in Seq(Nat),
           S \cup Range(b) = Present(r, n), Increasing(b), \A a \in S, x \in Range(b) : a < x
    PROVE  \E m \in 0..Len(r) : S = Present(r, m)
<1>1. CASE b = <<>>
  <2>1. Range(b) = {}
    BY <1>1 DEF Range
  <2> QED
    BY <2>1
<1>2. CASE b # <<>>
  <2>1. b[1] \in Range(b) /\ b[1] \in Nat
    BY <1>2 DEF Range
  <2>2. b[1] \in 1..n /\ b[1] - 1 \in 0..Len(r)
    BY <2>1 DEF Present
  <2>3. \A x \in Range(b) : x >= b[1]
    <3>1. SUFFICES ASSUME NEW i \in DOMAIN b PROVE b[i] >= b[1]
      BY DEF Range
    <3>2. i \in 1..Len(b) /\ b[i] \in Nat /\ 1 \in DOMAIN b
      BY <1>2
    <3> QED
      BY <2>1, <3>1, <3>2 DEF Increasing
  <2>4. \A a \in S : a < b[1]
    BY <2>1
  <2>5. S = Present(r, b[1] - 1)
    <3>1. ASSUME NEW k \in S PROVE k \in Present(r, b[1] - 1)
      BY <2>2, <2>4, <3>1 DEF Present
    <3>2. ASSUME NEW k \in Present(r, b[1] - 1) PROVE k \in S
      <4>1. k \in Present(r, n) /\ k < b[1]
        BY <2>2 DEF Present
      <4>2. k \notin Range(b)
        BY <2>2, <2>3, <4>1 DEF Present
      <4> QED
        BY <4>1, <4>2
    <3> QED
      BY <3>1, <3>2
  <2> QED
    BY <2>2, <2>5
<1> QED
  BY <1>1, <1>2

(* The records before the next one. *)
LEMMA PresentNext ==
    ASSUME NEW r \in Seq(BOOLEAN), NEW n \in 1..Len(r)
    PROVE  /\ r[n] => Present(r, n) = Present(r, n - 1) \cup {n}
           /\ ~r[n] => Present(r, n) = Present(r, n - 1)
  BY DEF Present

(* A stream that starts has sent nothing. *)
LEMMA StreamStartInv ==
    ASSUME StreamStart PROVE StreamInv'
<1>1. PICK batching \in BOOLEAN, records \in Records,
           status \in {"UNIMPLEMENTED", "INTERNAL", "NOT_FOUND", "running"} :
        call' = [rpc |-> "stream", batching |-> batching, records |-> records,
                 next |-> 1, batch |-> <<>>, wire |-> <<>>,
                 cancelled |-> FALSE, connected |-> TRUE, status |-> status]
  <2>1. PICK batching \in BOOLEAN, enabled \in BOOLEAN, records \in Records,
             d \in Names \cup {"corrupt"}, l \in Names :
          call' = [rpc |-> "stream", batching |-> batching, records |-> records,
                   next |-> 1, batch |-> <<>>, wire |-> <<>>,
                   cancelled |-> FALSE, connected |-> TRUE,
                   status |-> IF batching /\ ~enabled THEN "UNIMPLEMENTED"
                              ELSE IF FindLayer(d, "known", l) # OK
                                   THEN FindLayer(d, "known", l)
                              ELSE "running"]
    BY Zenon DEF StreamStart
  <2> DEFINE s == IF batching /\ ~enabled THEN "UNIMPLEMENTED"
                  ELSE IF FindLayer(d, "known", l) # OK THEN FindLayer(d, "known", l)
                  ELSE "running"
  <2>2. FindLayer(d, "known", l) \in {OK, "INTERNAL", "NOT_FOUND"}
    BY DEF FindLayer
  <2>3. s \in {"UNIMPLEMENTED", "INTERNAL", "NOT_FOUND", "running"}
    BY <2>2
  <2> QED
    BY <2>1, <2>3, Zenon
<1>2. records \in Seq(BOOLEAN) /\ Len(records) \in Nat
  BY DEF Records
<1>3. /\ call'.rpc = "stream" /\ call'.records = records /\ call'.next = 1
      /\ call'.batch = <<>> /\ call'.wire = <<>> /\ call'.status = status
      /\ call'.batching = batching
  BY <1>1
<1>4. StreamType'
  BY <1>1, <1>2 DEF StreamType
<1>5. /\ Sent(<<>>) = {} /\ Range(<<>>) = {} /\ Present(records, 0) = {} /\ InOrder(<<>>)
      /\ Increasing(<<>>)
  BY DEF Sent, Range, Present, InOrder, Increasing
<1>6. WireOK'
  <2>1. DOMAIN call'.wire = {} /\ InOrder(call'.wire)
    BY <1>3, <1>5
  <2>2. 0 \in 0..Len(call'.records)
    BY <1>2, <1>3
  <2>3. Sent(call'.wire) = Present(call'.records, 0)
    BY <1>3, <1>5, Zenon
  <2> QED
    BY <2>1, <2>2, <2>3 DEF WireOK
<1>7. StreamRuns'
  <2>1. 1 \in 1..Len(records) + 1 /\ 1 - 1 = 0 /\ Len(<<>>) < BatchSize
    BY <1>2, BatchSizePositive
  <2> QED
    BY <1>3, <1>5, <2>1 DEF StreamRuns
<1>8. status # OK
  BY DEF OK
<1> QED
  BY <1>3, <1>4, <1>6, <1>7, <1>8 DEF StreamInv

(* The fields of a call that a step of its stream changes. *)
Becomes(w, n, b, s) ==
    call' = [call EXCEPT !.wire = w, !.next = n, !.batch = b, !.status = s]

LEMMA StreamFields ==
    ASSUME StreamType, NEW w \in Seq(Seq(Nat)), NEW n \in Nat, NEW b \in Seq(Nat),
           NEW s \in {"running", "OK", "CANCELLED"},
           Becomes(w, n, b, s)
    PROVE  /\ StreamType' /\ call'.rpc = "stream"
           /\ call'.wire = w /\ call'.next = n /\ call'.batch = b /\ call'.status = s
           /\ call'.records = call.records /\ call'.batching = call.batching
           /\ call'.connected = call.connected
  BY DEF StreamType, Becomes

(* A message is written to a client that is there. *)
LEMMA StreamWrites ==
    ASSUME StreamInv, call.rpc = "stream", call.status = "running",
           NEW m \in Seq(Nat), NEW w, w = Append(call.wire, m),
           NEW n \in 0..Len(call.records), NEW s \in {"running", "OK"},
           m # <<>>, Increasing(m), \A a \in Sent(call.wire), b \in Range(m) : a < b,
           Sent(call.wire) \cup Range(m) = Present(call.records, n),
           \/ s = "running" /\ (call.batching => Len(m) = BatchSize)
           \/ s = "OK" /\ n = Len(call.records),
           Becomes(w, n + 1, <<>>, s)
    PROVE  StreamInv'
<1>1. StreamType /\ WireOK /\ StreamRuns
  BY DEF StreamInv
<1>2. /\ call.records \in Seq(BOOLEAN) /\ Len(call.records) \in Nat
      /\ call.wire \in Seq(Seq(Nat)) /\ n + 1 \in Nat /\ n + 1 - 1 = n
      /\ n + 1 \in 1..Len(call.records) + 1
  BY <1>1 DEF StreamType
<1>3. w \in Seq(Seq(Nat)) /\ <<>> \in Seq(Nat)
  BY <1>2
<1>4. Sent(w) = Sent(call.wire) \cup Range(m)
  BY <1>2, SentAppend
<1>5. InOrder(w)
  BY <1>1, <1>2, OrderAppend DEF WireOK
<1>6. /\ Len(w) = Len(call.wire) + 1 /\ DOMAIN w = DOMAIN call.wire \cup {Len(w)}
      /\ w[Len(w)] = m /\ \A i \in DOMAIN call.wire : w[i] = call.wire[i]
  <2>1. ASSUME NEW v \in Seq(Seq(Nat)), w = Append(v, m)
        PROVE  /\ Len(w) = Len(v) + 1 /\ DOMAIN w = DOMAIN v \cup {Len(w)}
               /\ w[Len(w)] = m /\ \A i \in DOMAIN v : w[i] = v[i]
    BY <2>1
  <2> QED
    BY <1>2, <2>1
<1>7. /\ StreamType' /\ call'.rpc = "stream" /\ call'.wire = w /\ call'.next = n + 1
      /\ call'.batch = <<>> /\ call'.status = s /\ call'.records = call.records
      /\ call'.batching = call.batching
  <2>1. s \in {"running", "OK", "CANCELLED"}
    OBVIOUS
  <2> QED
    BY <1>1, <1>2, <1>3, <2>1 DEF StreamType, Becomes
<1>8. Sent(w) = Present(call.records, n) /\ n \in 0..Len(call.records)
  BY <1>2, <1>4
<1>9. WireOK'
  <2>1. \A i \in DOMAIN w : w[i] # <<>>
    BY <1>1, <1>6 DEF WireOK
  <2>2. ASSUME call.batching, NEW i \in DOMAIN w, i < Len(w) PROVE Len(w[i]) = BatchSize
    <3>1. i \in DOMAIN call.wire
      BY <1>6, <2>2
    <3> QED
      BY <1>1, <1>6, <2>2, <3>1 DEF StreamRuns
  <2> QED
    BY <1>5, <1>7, <1>8, <2>1, <2>2 DEF WireOK
<1>10. s = "running" => StreamRuns'
  <2>1. Range(<<>>) = {} /\ Increasing(<<>>) /\ Len(<<>>) < BatchSize
    BY BatchSizePositive DEF Range, Increasing
  <2>2. s = "running" /\ call.batching => \A i \in DOMAIN w : Len(w[i]) = BatchSize
    BY <1>1, <1>6 DEF StreamRuns
  <2> QED
    BY <1>2, <1>7, <1>8, <2>1, <2>2 DEF StreamRuns
<1>11. s = "OK" => AllSent'
  <2>1. s = "OK" => n = Len(call.records)
    BY <1>2
  <2>2. s = "OK" => Sent(w) = Present(call.records, Len(call.records))
    BY <1>8, <2>1
  <2> QED
    BY <1>7, <2>2 DEF AllSent
<1> QED
  BY <1>7, <1>9, <1>10, <1>11 DEF StreamInv, OK

(* A step that writes nothing, and the end of a stream. *)
LEMMA StreamGoesOn ==
    ASSUME StreamInv, call.rpc = "stream", call.status = "running",
           NEW n \in 0..Len(call.records), NEW b \in Seq(Nat),
           Becomes(call.wire, n + 1, b, "running"),
           Sent(call.wire) \cup Range(b) = Present(call.records, n),
           Increasing(b), Len(b) < BatchSize, \A a \in Sent(call.wire), x \in Range(b) : a < x,
           ~call.batching => b = <<>>
    PROVE  StreamInv'
<1>1. StreamType /\ WireOK /\ StreamRuns
  BY DEF StreamInv
<1>2. call.wire \in Seq(Seq(Nat)) /\ n + 1 \in Nat /\ n + 1 - 1 = n
      /\ n + 1 \in 1..Len(call.records) + 1 /\ "running" \in {"running", "OK", "CANCELLED"}
  BY <1>1 DEF StreamType
<1>3. /\ StreamType' /\ call'.rpc = "stream" /\ call'.status = "running"
      /\ call'.wire = call.wire /\ call'.next = n + 1 /\ call'.batch = b
      /\ call'.records = call.records /\ call'.batching = call.batching
  BY <1>1, <1>2, StreamFields, Zenon
<1>4. WireOK'
  BY <1>1, <1>3 DEF WireOK
<1>5. StreamRuns'
  BY <1>1, <1>2, <1>3 DEF StreamRuns
<1> QED
  BY <1>3, <1>4, <1>5 DEF StreamInv, OK

LEMMA StreamEnds ==
    ASSUME StreamInv, call.rpc = "stream", call.status = "running", NEW s \in {"OK", "CANCELLED"},
           call' = [call EXCEPT !.status = s], s = "OK" /\ call.connected => AllSent
    PROVE  StreamInv'
<1>1. StreamType /\ WireOK
  BY DEF StreamInv
<1>2. /\ StreamType' /\ call'.rpc = "stream" /\ call'.status = s
      /\ call'.wire = call.wire /\ call'.records = call.records
      /\ call'.batching = call.batching /\ call'.connected = call.connected
  BY <1>1 DEF StreamType
<1>3. WireOK'
  BY <1>1, <1>2 DEF WireOK
<1>4. s = "OK" /\ call'.connected => AllSent'
  BY <1>2 DEF AllSent
<1> QED
  BY <1>2, <1>3, <1>4 DEF StreamInv, OK

(* One more record in the batch. *)
LEMMA BatchGrows ==
    ASSUME NEW b \in Seq(Nat), NEW n \in Nat, Increasing(b), \A a \in Range(b) : a < n
    PROVE  /\ Append(b, n) \in Seq(Nat) /\ Append(b, n) # <<>>
           /\ Len(b) \in Nat /\ Len(Append(b, n)) = Len(b) + 1
           /\ Range(Append(b, n)) = Range(b) \cup {n} /\ Increasing(Append(b, n))
<1> DEFINE m == Append(b, n)
<1>1. /\ m \in Seq(Nat) /\ m # <<>> /\ Len(b) \in Nat /\ Len(m) = Len(b) + 1
      /\ DOMAIN m = DOMAIN b \cup {Len(b) + 1}
      /\ m[Len(b) + 1] = n /\ \A i \in DOMAIN b : m[i] = b[i]
      /\ \A i \in DOMAIN b : i \in Nat /\ i < Len(b) + 1
  OBVIOUS
<1>2. \A i \in DOMAIN b : b[i] < n
  BY DEF Range
<1> HIDE DEF m
<1>3. Increasing(m)
  BY <1>1, <1>2 DEF Increasing
<1>4. Range(m) = Range(b) \cup {n}
  BY <1>1 DEF Range
<1> QED
  BY <1>1, <1>3, <1>4 DEF m

(* One record of a stream. *)
LEMMA StreamRecordInv ==
    ASSUME StreamInv, StreamRecord \/ BatchRecord PROVE StreamInv'
<1>0. /\ call.rpc = "stream" /\ call.status = "running" /\ call.next <= Len(call.records)
      /\ StreamType /\ WireOK /\ StreamRuns
  BY DEF StreamInv, StreamRecord, BatchRecord, Running, MoreRecords
<1>1. /\ call.records \in Seq(BOOLEAN) /\ Len(call.records) \in Nat
      /\ call.wire \in Seq(Seq(Nat)) /\ call.batch \in Seq(Nat) /\ call.next \in Nat
      /\ call.next \in 1..Len(call.records)
      /\ call.next \in 0..Len(call.records)
  BY <1>0 DEF StreamType, StreamRuns
<1>2. /\ Sent(call.wire) \cup Range(call.batch) = Present(call.records, call.next - 1)
      /\ Increasing(call.batch) /\ Len(call.batch) < BatchSize
      /\ \A a \in Sent(call.wire), x \in Range(call.batch) : a < x
      /\ ~call.batching => call.batch = <<>>
  BY <1>0 DEF StreamRuns
<1>3. \A a \in Sent(call.wire) \cup Range(call.batch) : a \in Nat /\ a < call.next
  <2>1. Present(call.records, call.next - 1) \subseteq 1..call.next - 1
    BY DEF Present
  <2> QED
    BY <1>1, <1>2, <2>1
<1> DEFINE m == Append(call.batch, call.next)
<1>4. /\ m \in Seq(Nat) /\ m # <<>> /\ Len(call.batch) \in Nat /\ Len(m) = Len(call.batch) + 1
      /\ Range(m) = Range(call.batch) \cup {call.next} /\ Increasing(m)
  BY <1>1, <1>2, <1>3, BatchGrows
<1>5. call.batch = <<>> => m = <<call.next>>
  OBVIOUS
<1>6. \/ call' = [call EXCEPT !.status = "CANCELLED"]
      \/ ~call.records[call.next] /\ call' = [call EXCEPT !.next = @ + 1]
      \/ /\ call.records[call.next]
         /\ call.batching => Len(m) >= BatchSize
         /\ WriteAndGo(m, call.next + 1, <<>>, FALSE)
      \/ /\ call.records[call.next] /\ call.batching /\ ~(Len(m) >= BatchSize)
         /\ call' = [call EXCEPT !.batch = m, !.next = @ + 1]
  <2>1. CASE StreamRecord
    <3>1. m = <<call.next>> /\ ~call.batching
      BY <1>2, <1>5, <2>1 DEF StreamRecord
    <3>2. \/ call.records[call.next] /\ WriteAndGo(<<call.next>>, call.next + 1, <<>>, FALSE)
          \/ ~call.records[call.next] /\ call' = [call EXCEPT !.next = @ + 1]
      BY <2>1, Zenon DEF StreamRecord
    <3> HIDE DEF m
    <3> QED
      BY <3>1, <3>2, Zenon
  <2>2. CASE BatchRecord
    BY <2>2, Zenon DEF BatchRecord
  <2> QED
    BY <2>1, <2>2
<1> HIDE DEF m
<1>7. \A a \in Sent(call.wire), x \in Range(m) : a < x
  BY <1>2, <1>3, <1>4
<1>8. /\ call.records[call.next]
           => Sent(call.wire) \cup Range(m) = Present(call.records, call.next)
      /\ ~call.records[call.next]
           => Sent(call.wire) \cup Range(call.batch) = Present(call.records, call.next)
  <2>1. /\ call.records[call.next]
             => Present(call.records, call.next)
                  = Present(call.records, call.next - 1) \cup {call.next}
        /\ ~call.records[call.next]
             => Present(call.records, call.next) = Present(call.records, call.next - 1)
    BY <1>1, PresentNext
  <2> QED
    BY <1>2, <1>4, <2>1
<1>9. /\ Len(m) >= BatchSize => Len(m) = BatchSize
      /\ ~(Len(m) >= BatchSize) => Len(m) < BatchSize
  BY <1>2, <1>4, BatchSizePositive
<1>10. CASE call' = [call EXCEPT !.status = "CANCELLED"]
  BY <1>0, <1>10, StreamEnds
<1>11. CASE ~call.records[call.next] /\ call' = [call EXCEPT !.next = @ + 1]
  <2>1. Becomes(call.wire, call.next + 1, call.batch, "running")
    BY <1>0, <1>11 DEF StreamType, Becomes
  <2> QED
    BY <1>0, <1>1, <1>2, <1>8, <1>11, <2>1, StreamGoesOn
<1>12. CASE /\ call.records[call.next]
            /\ call.batching => Len(m) >= BatchSize
            /\ WriteAndGo(m, call.next + 1, <<>>, FALSE)
  <2>1. CASE call.connected
    <3>1. Becomes(Append(call.wire, m), call.next + 1, <<>>, "running")
      BY <1>0, <1>12, <2>1 DEF WriteAndGo, StreamType, Becomes
    <3> QED
      BY <1>0, <1>1, <1>4, <1>7, <1>8, <1>9, <1>12, <3>1, StreamWrites
  <2>2. CASE ~call.connected
    <3>1. call' = [call EXCEPT !.status = "OK"]
      BY <1>12, <2>2 DEF WriteAndGo, OK
    <3> QED
      BY <1>0, <2>2, <3>1, StreamEnds
  <2> QED
    BY <2>1, <2>2
<1>13. CASE /\ call.records[call.next] /\ call.batching /\ ~(Len(m) >= BatchSize)
            /\ call' = [call EXCEPT !.batch = m, !.next = @ + 1]
  <2>1. Becomes(call.wire, call.next + 1, m, "running")
    BY <1>0, <1>13 DEF StreamType, Becomes
  <2> QED
    BY <1>0, <1>1, <1>4, <1>7, <1>8, <1>9, <1>13, <2>1, StreamGoesOn
<1> QED
  BY <1>6, <1>10, <1>11, <1>12, <1>13

(* The end of the records. *)
LEMMA StreamDoneInv ==
    ASSUME StreamInv, StreamDone \/ BatchDone PROVE StreamInv'
<1>0. /\ call.rpc = "stream" /\ call.status = "running" /\ ~(call.next <= Len(call.records))
      /\ StreamType /\ WireOK /\ StreamRuns
  BY DEF StreamInv, StreamDone, BatchDone, Running, MoreRecords
<1>1. /\ call.records \in Seq(BOOLEAN) /\ Len(call.records) \in Nat
      /\ call.wire \in Seq(Seq(Nat)) /\ call.batch \in Seq(Nat)
      /\ call.next \in 1..Len(call.records) + 1
      /\ call.next = Len(call.records) + 1 /\ call.next - 1 = Len(call.records)
      /\ Len(call.records) \in 0..Len(call.records)
  BY <1>0 DEF StreamType, StreamRuns
<1>2. Sent(call.wire) \cup Range(call.batch) = Present(call.records, Len(call.records))
  BY <1>0, <1>1 DEF StreamRuns
<1>3. ASSUME NEW s \in {"OK", "CANCELLED"}, call' = [call EXCEPT !.status = s],
             s = "OK" /\ call.connected => call.batch = <<>>
      PROVE  StreamInv'
  <2>1. s = "OK" /\ call.connected => AllSent
    <3>1. call.batch = <<>> => Range(call.batch) = {}
      BY DEF Range
    <3> QED
      BY <1>1, <1>2, <1>3, <3>1 DEF AllSent
  <2> QED
    BY <1>0, <1>3, <2>1, StreamEnds
<1>4. CASE StreamDone
  <2>1. call' = [call EXCEPT !.status = "OK"] /\ call.batch = <<>>
    BY <1>0, <1>4 DEF StreamDone, StreamRuns, OK
  <2> QED
    BY <1>3, <2>1
<1>5. CASE BatchDone
  <2>1. \/ call.batch = <<>> /\ call' = [call EXCEPT !.status = "OK"]
        \/ call' = [call EXCEPT !.status = "CANCELLED"]
        \/ call.batch # <<>> /\ WriteAndGo(call.batch, call.next, <<>>, TRUE)
    BY <1>5, Zenon DEF BatchDone, OK
  <2>2. CASE call.batch # <<>> /\ WriteAndGo(call.batch, call.next, <<>>, TRUE)
    <3>1. CASE call.connected
      <4>1. Becomes(Append(call.wire, call.batch), Len(call.records) + 1, <<>>, "OK")
        BY <1>0, <1>1, <2>2, <3>1 DEF WriteAndGo, StreamType, OK, Becomes
      <4>2. "OK" \in {"running", "OK"}
        OBVIOUS
      <4>3. Increasing(call.batch) /\ \A a \in Sent(call.wire), b \in Range(call.batch) : a < b
        BY <1>0 DEF StreamRuns
      <4> QED
        BY <1>0, <1>1, <1>2, <2>2, <4>1, <4>2, <4>3, StreamWrites
    <3>2. CASE ~call.connected
      <4>1. call' = [call EXCEPT !.status = "OK"]
        BY <2>2, <3>2 DEF WriteAndGo, OK
      <4> QED
        BY <1>3, <3>2, <4>1
    <3> QED
      BY <3>1, <3>2
  <2> QED
    BY <1>3, <2>1, <2>2
<1> QED
  BY <1>4, <1>5

LEMMA StreamStep ==
    ASSUME StreamInv, GrpcCallNext PROVE StreamInv'
<1>1. CASE UnaryCall
  <2>1. PICK d \in Names \cup {"corrupt"}, s \in {"none", "good", "bad"},
             l \in BOOLEAN, h \in {"", "OdbDesignService", "Other"} :
          call' = [rpc |-> "unary", design |-> GetDesign(d, s, l),
                   fonts |-> GetStandardFonts(d), health |-> HealthCheck(h)]
    BY <1>1 DEF UnaryCall
  <2> QED
    BY <2>1 DEF StreamInv
<1>2. CASE GetLayerSymbols
  <2>1. call'.rpc = "symbols"
    BY <1>2 DEF GetLayerSymbols
  <2> QED
    BY <2>1 DEF StreamInv
<1>3. CASE CallEnds
  BY <1>3 DEF CallEnds, NoCall, StreamInv
<1>4. CASE ClientCancels \/ ClientLeaves
  <2>1. /\ call.rpc = "stream" /\ call.status = "running" /\ StreamType /\ WireOK /\ StreamRuns
    BY <1>4 DEF ClientCancels, ClientLeaves, Running, StreamInv
  <2>2. /\ StreamType' /\ call'.status = "running"
        /\ \A f \in {"rpc", "wire", "next", "batch", "records", "batching"} : call'[f] = call[f]
    BY <1>4, <2>1 DEF ClientCancels, ClientLeaves, StreamType
  <2>3. WireOK'
    BY <2>1, <2>2 DEF WireOK
  <2>4. StreamRuns'
    BY <2>1, <2>2 DEF StreamRuns
  <2> QED
    BY <2>2, <2>3, <2>4 DEF StreamInv, OK
<1> QED
  BY <1>1, <1>2, <1>3, <1>4, StreamStartInv, StreamRecordInv, StreamDoneInv DEF GrpcCallNext

LEMMA StreamInvariant == Spec => []StreamInv
<1>1. Init => StreamInv
  BY DEF Init, NoCall, StreamInv
<1>2. StreamInv /\ [Next]_serverVars => StreamInv'
  <2> SUFFICES ASSUME StreamInv, [Next]_serverVars PROVE StreamInv'
    OBVIOUS
  <2>1. GrpcCallNext \/ call' = call
    BY DEF Next, serverVars
  <2>2. CASE call' = call
    BY <2>2 DEF StreamInv, StreamType, WireOK, StreamRuns, AllSent
  <2> QED
    BY <2>1, <2>2, StreamStep
<1> QED
  BY <1>1, <1>2, PTL DEF Spec

(* Both streams deliver the layer's records in order, each once and without  *)
(* a gap, in full batches but the last, and one that ends OK with its client *)
(* there has delivered them all: for any number of records, any batch size   *)
(* from one up and a client that cancels or leaves at any step               *)
(* (GetLayerFeaturesStream, GetLayerFeaturesBatchStream).                    *)
THEOREM StreamsAreExact == Spec => []StreamExact
<1>1. StreamInv => StreamExact
  BY DEF StreamInv, WireOK, AllSent, StreamExact
<1> QED
  BY <1>1, StreamInvariant, PTL
-----------------------------------------------------------------------------
(* The symbols of a layer.  First, sets of integers: least and greatest      *)
(* elements, and ranks.  The rank of an element grows with the element, and  *)
(* a finite set has an element of every rank below its cardinality, so two   *)
(* sets can be matched by rank.                                              *)
LEMMA LeastNat ==
    ASSUME NEW T \in SUBSET Nat, T # {}
    PROVE  \E m \in T : \A k \in T : m <= k
<1>1. PICK m \in T : \A k \in T : <<k, m>> \notin OpToRel(<, Nat)
  BY NatLessThanWellFounded, WFMin, Zenon
<1>2. \A k \in T : ~(k < m)
  BY <1>1 DEF OpToRel
<1> QED
  BY <1>2

LEMMA MinOfBounded ==
    ASSUME NEW S \in SUBSET Nat, S # {}
    PROVE  Min(S) \in S /\ \A y \in S : Min(S) <= y
BY LeastNat DEF Min

LEMMA MaxOfBounded ==
    ASSUME NEW S \in SUBSET Int, S # {}, NEW b \in Int, \A y \in S : y <= b
    PROVE  Max(S) \in S /\ \A y \in S : y <= Max(S)
<1> DEFINE T == {b - y : y \in S}
<1>1. T \in SUBSET Nat /\ T # {}
  <2>1. \A y \in S : b - y \in Nat
    OBVIOUS
  <2> QED
    BY <2>1
<1>2. PICK m \in T : \A k \in T : m <= k
  BY <1>1, LeastNat
<1>3. PICK x \in S : m = b - x
  OBVIOUS
<1>4. \A y \in S : y <= x
  <2> SUFFICES ASSUME NEW y \in S PROVE y <= x
    OBVIOUS
  <2>1. b - y \in T
    OBVIOUS
  <2>2. b - x <= b - y
    BY <1>2, <1>3, <2>1
  <2> QED
    BY <2>2
<1> QED
  BY <1>4 DEF Max

LEMMA RankType ==
    ASSUME NEW S \in SUBSET Nat, IsFiniteSet(S), NEW x \in S
    PROVE  Rank(S, x) \in Nat /\ Rank(S, x) < Cardinality(S)
<1> DEFINE B == {y \in S : y < x}
<1>1. B \in SUBSET S /\ B # S
  OBVIOUS
<1>2. IsFiniteSet(B) /\ Cardinality(B) <= Cardinality(S) /\ Cardinality(B) # Cardinality(S)
  BY <1>1, FS_Subset
<1>3. Cardinality(B) \in Nat /\ Cardinality(S) \in Nat
  BY <1>2, FS_CardinalityType
<1> QED
  BY <1>2, <1>3 DEF Rank

LEMMA RankGrows ==
    ASSUME NEW S \in SUBSET Nat, IsFiniteSet(S), NEW x \in S, NEW y \in S, x < y
    PROVE  Rank(S, x) < Rank(S, y)
<1> DEFINE B == {z \in S : z < y}
           A == {z \in S : z < x}
<1>1. B \in SUBSET S
  OBVIOUS
<1>2. IsFiniteSet(B)
  BY <1>1, FS_Subset
<1>3. A \in SUBSET B /\ A # B
  <2>1. \A z \in S : z \in Nat /\ (z < x => z < y) /\ ~(x < x)
    OBVIOUS
  <2>2. x \in B /\ x \notin A
    BY <2>1
  <2> QED
    BY <2>1, <2>2
<1>4. IsFiniteSet(A) /\ Cardinality(A) <= Cardinality(B) /\ Cardinality(A) # Cardinality(B)
  BY <1>2, <1>3, FS_Subset
<1>5. Cardinality(A) \in Nat /\ Cardinality(B) \in Nat
  BY <1>2, <1>4, FS_CardinalityType
<1> QED
  BY <1>4, <1>5 DEF Rank

(* Elements are in the order of their ranks, in one set or across two. *)
LEMMA RankOrders ==
    ASSUME NEW S \in SUBSET Nat, IsFiniteSet(S), NEW x \in S, NEW y \in S,
           Rank(S, x) <= Rank(S, y)
    PROVE  x <= y
<1>1. CASE y < x
  <2>1. Rank(S, y) < Rank(S, x) /\ Rank(S, x) \in Nat /\ Rank(S, y) \in Nat
    BY <1>1, RankGrows, RankType
  <2> QED
    BY <2>1
<1> QED
  BY <1>1

(* The element that follows x. *)
LEMMA NextRank ==
    ASSUME NEW S \in SUBSET Nat, IsFiniteSet(S), NEW x \in S,
           Rank(S, x) + 1 < Cardinality(S)
    PROVE  \E y \in S : Rank(S, y) = Rank(S, x) + 1
<1> DEFINE A == {z \in S : z < x}
           U == {z \in S : x < z}
<1>1. A \in SUBSET S /\ U \in SUBSET Nat /\ x \notin A
  <2>1. ~(x < x)
    OBVIOUS
  <2> QED
    BY <2>1
<1>2. IsFiniteSet(A)
  BY <1>1, FS_Subset
<1>3. Cardinality(A \cup {x}) = Cardinality(A) + 1
  BY <1>1, <1>2, FS_AddElement
<1>4. U # {}
  <2>1. CASE U = {}
    <3>0. \A z \in S : z < x \/ z = x \/ x < z
      OBVIOUS
    <3>1. S = A \cup {x}
      BY <2>1, <3>0
    <3>2. Cardinality(S) = Rank(S, x) + 1 /\ Rank(S, x) \in Nat
      BY <1>3, <3>1, RankType DEF Rank
    <3> QED
      BY <3>2
  <2> QED
    BY <2>1
<1>5. PICK y \in U : \A z \in U : y <= z
  BY <1>1, <1>4, LeastNat
<1>6. {z \in S : z < y} = A \cup {x}
  <2>1. ASSUME NEW z \in S PROVE z < y <=> z \in A \cup {x}
    <3>1. x \in Nat /\ y \in Nat /\ z \in Nat /\ x < y /\ (x < z => y <= z)
      BY <1>5
    <3> QED
      BY <3>1
  <2> QED
    BY <2>1
<1>7. y \in S /\ Rank(S, y) = Rank(S, x) + 1
  BY <1>3, <1>6 DEF Rank
<1> QED
  BY <1>7

LEMMA EveryRank ==
    ASSUME NEW S \in SUBSET Nat, IsFiniteSet(S), NEW k \in Nat, k < Cardinality(S)
    PROVE  \E x \in S : Rank(S, x) = k
<1> DEFINE T == {j \in Nat : j < Cardinality(S) /\ \A x \in S : Rank(S, x) # j}
<1>0. Cardinality(S) \in Nat
  BY FS_CardinalityType
<1>1. CASE T # {}
  <2>1. PICK j \in T : \A i \in T : j <= i
    BY <1>1, LeastNat
  <2>2. j \in Nat /\ j < Cardinality(S) /\ \A x \in S : Rank(S, x) # j
    BY <2>1
  <2>3. CASE j = 0
    <3>1. S # {}
      BY <2>2, FS_EmptySet
    <3>2. PICK x \in S : \A y \in S : x <= y
      BY <3>1, LeastNat
    <3>3. {y \in S : y < x} = {}
      <4>1. \A y \in S : ~(y < x)
        BY <3>2
      <4> QED
        BY <4>1
    <3>4. Rank(S, x) = 0
      BY <3>3, FS_EmptySet DEF Rank
    <3> QED
      BY <2>2, <2>3, <3>4
  <2>4. CASE j # 0
    <3>1. j - 1 \in Nat /\ j - 1 < Cardinality(S) /\ ~(j <= j - 1)
      BY <1>0, <2>2, <2>4
    <3>2. j - 1 \notin T
      BY <2>1, <3>1
    <3>3. PICK x \in S : Rank(S, x) = j - 1
      BY <3>1, <3>2
    <3>4. Rank(S, x) + 1 = j /\ Rank(S, x) + 1 < Cardinality(S)
      BY <2>2, <3>3
    <3>5. \E y \in S : Rank(S, y) = Rank(S, x) + 1
      BY <3>4, NextRank
    <3> QED
      BY <2>2, <3>4, <3>5
  <2> QED
    BY <2>3, <2>4
<1>2. CASE T = {}
  BY <1>2
<1> QED
  BY <1>1, <1>2

(* The parts of OrderSymbols, by name. *)
Indices(s, m) == {m} \cup {s[i].idx : i \in DOMAIN s}
Top(s, m) == Max(Indices(s, m))
Placed(s, m) == PlaceIndexed(s, Top(s, m) + 1)
Gaps(s, m) == {p \in 0..Top(s, m) : Placed(s, m)[p] = 0}
Loose(s) == {i \in DOMAIN s : s[i].idx < 0}
Extra(s, m) == Max({0, Cardinality(Loose(s)) - Cardinality(Gaps(s, m))})
Free(s, m) == Gaps(s, m) \cup (Top(s, m) + 1..Top(s, m) + Extra(s, m))
Filling(s, m, p) == {i \in Loose(s) : Rank(Loose(s), i) = Rank(Free(s, m), p)}
Fill(s, m, p) == IF Filling(s, m, p) = {} THEN 0 ELSE Min(Filling(s, m, p))

LEMMA OrderParts ==
    ASSUME NEW s, NEW m
    PROVE  OrderSymbols(s, m) =
             [p \in 0..Top(s, m) + Extra(s, m) |->
                 IF p \notin Free(s, m) THEN Placed(s, m)[p] ELSE Fill(s, m, p)]
BY DEF OrderSymbols, Indices, Top, Placed, Gaps, Loose, Extra, Free, Filling, Fill

LEMMA SymbolFacts ==
    ASSUME NEW s \in Symbols
    PROVE  /\ \E n \in Nat : DOMAIN s = 1..n
           /\ \A i \in DOMAIN s : s[i].idx \in -1..MaxIndex
           /\ Loose(s) \in SUBSET Nat /\ IsFiniteSet(Loose(s)) /\ 0 \notin DOMAIN s
<1>1. PICK n \in 0..MaxSymbols : s \in [1..n -> Symbol]
  BY DEF Symbols
<1>2. n \in Nat /\ DOMAIN s = 1..n /\ \A i \in 1..n : s[i] \in Symbol
  BY <1>1
<1>3. \A i \in DOMAIN s : s[i].idx \in -1..MaxIndex
  BY <1>2 DEF Symbol
<1>4. Loose(s) \in SUBSET (1..n)
  BY <1>2 DEF Loose
<1>5. IsFiniteSet(Loose(s))
  BY <1>2, <1>4, FS_Interval, FS_Subset
<1> QED
  BY <1>2, <1>3, <1>4, <1>5

LEMMA TopFacts ==
    ASSUME NEW s \in Symbols, NEW m \in -1..MaxIndex
    PROVE  /\ Top(s, m) \in Int /\ Top(s, m) >= -1 /\ m <= Top(s, m)
           /\ \A i \in DOMAIN s : s[i].idx <= Top(s, m)
<1>1. /\ Indices(s, m) \in SUBSET Int /\ Indices(s, m) # {} /\ m \in Indices(s, m)
      /\ \A y \in Indices(s, m) : y \in Int /\ y >= -1 /\ y <= MaxIndex
      /\ \A i \in DOMAIN s : s[i].idx \in Indices(s, m)
  BY SymbolFacts, MaxIndexAssumption DEF Indices
<1>2. Top(s, m) \in Indices(s, m) /\ \A y \in Indices(s, m) : y <= Top(s, m)
  <2>1. MaxIndex \in Int /\ \A y \in Indices(s, m) : y <= MaxIndex
    BY <1>1, MaxIndexAssumption
  <2>2. Max(Indices(s, m)) \in Indices(s, m) /\ \A y \in Indices(s, m) : y <= Max(Indices(s, m))
    BY <1>1, <2>1, MaxOfBounded, Zenon
  <2> QED
    BY <2>2 DEF Top
<1> QED
  BY <1>1, <1>2

(* What stands at a position after the declared indices are placed. *)
LEMMA PlacedAt ==
    ASSUME NEW s \in Symbols, NEW m \in -1..MaxIndex, NEW p \in 0..Top(s, m)
    PROVE  /\ IndexedAt(s, p) = {} => Placed(s, m)[p] = 0
           /\ IndexedAt(s, p) # {} =>
                 /\ Placed(s, m)[p] \in IndexedAt(s, p)
                 /\ \A j \in IndexedAt(s, p) : Placed(s, m)[p] <= j
<1>1. p \in 0..(Top(s, m) + 1) - 1
  BY TopFacts
<1>2. Placed(s, m)[p] = IF IndexedAt(s, p) = {} THEN 0 ELSE Min(IndexedAt(s, p))
  BY <1>1 DEF Placed, PlaceIndexed, FirstIndexed
<1>3. IndexedAt(s, p) \in SUBSET Nat
  BY SymbolFacts DEF IndexedAt
<1> QED
  BY <1>2, <1>3, MinOfBounded

(* There are as many free positions as symbols to put there, or more. *)
LEMMA FreeFacts ==
    ASSUME NEW s \in Symbols, NEW m \in -1..MaxIndex
    PROVE  /\ Extra(s, m) \in Nat
           /\ Free(s, m) \in SUBSET (0..Top(s, m) + Extra(s, m))
           /\ Free(s, m) \in SUBSET Nat /\ IsFiniteSet(Free(s, m))
           /\ Cardinality(Loose(s)) <= Cardinality(Free(s, m))
           /\ Cardinality(Loose(s)) \in Nat /\ Cardinality(Free(s, m)) \in Nat
<1> DEFINE top == Top(s, m)  extra == Extra(s, m)  gaps == Gaps(s, m)
           more == top + 1..top + extra
           n == Cardinality(Loose(s)) - Cardinality(gaps)
<1>1. top \in Int /\ top >= -1
  BY TopFacts
<1>2. gaps \in SUBSET (0..top)
  BY DEF Gaps
<1>3. IsFiniteSet(gaps) /\ IsFiniteSet(Loose(s))
  BY <1>1, <1>2, SymbolFacts, FS_Interval, FS_Subset
<1>4. Cardinality(gaps) \in Nat /\ Cardinality(Loose(s)) \in Nat
  BY <1>3, FS_CardinalityType
<1>5. n \in Int /\ extra = IF 0 >= n THEN 0 ELSE n
  BY <1>4, MaxOfTwo DEF Extra
<1>6. extra \in Nat /\ extra >= n
  BY <1>5
<1> HIDE DEF top, extra, gaps
<1>7. more \in SUBSET (0..top + extra) /\ gaps \in SUBSET (0..top + extra) /\ gaps \cap more = {}
  BY <1>1, <1>2, <1>6
<1>8. IsFiniteSet(more) /\ Cardinality(more) = extra
  <2>1. top + 1 \in Int /\ top + extra \in Int
    BY <1>1, <1>6
  <2>2. IsFiniteSet(more) /\ Cardinality(more) = IF top + 1 > top + extra THEN 0
                                                 ELSE (top + extra) - (top + 1) + 1
    BY <2>1, FS_Interval
  <2> QED
    BY <1>1, <1>6, <2>2
<1>9. IsFiniteSet(gaps \cup more) /\ Cardinality(gaps \cup more) = Cardinality(gaps) + extra
  <2>1. IsFiniteSet(gaps \cup more)
    BY <1>3, <1>8, FS_Union
  <2>2. Cardinality(gaps \cup more)
          = Cardinality(gaps) + Cardinality(more) - Cardinality(gaps \cap more)
    BY <1>3, <1>8, FS_Union
  <2> QED
    <3>1. Cardinality(gaps \cap more) = 0
      BY <1>7, FS_EmptySet, Zenon
    <3>2. Cardinality(gaps \cup more) = Cardinality(gaps) + extra - 0
      BY <1>8, <2>2, <3>1, Zenon
    <3> QED
      BY <1>4, <1>6, <2>1, <3>2
<1>10. Free(s, m) = gaps \cup more
  BY DEF Free, gaps, top, extra
<1>11. Free(s, m) \in SUBSET (0..top + extra)
  BY <1>7, <1>10
<1>12. Cardinality(Loose(s)) <= Cardinality(gaps) + extra
  BY <1>4, <1>6
<1> QED
  BY <1>4, <1>6, <1>9, <1>10, <1>11, <1>12 DEF top, extra

(* A symbol without an index has one position, the free one of its rank. *)
At(s, m, i) == {p \in DOMAIN OrderSymbols(s, m) : OrderSymbols(s, m)[p] = i}

LEMMA FillIs ==
    ASSUME NEW s \in Symbols, NEW m \in -1..MaxIndex, NEW p \in Free(s, m), NEW i \in Nat, i # 0
    PROVE  Fill(s, m, p) = i <=> i \in Loose(s) /\ Rank(Loose(s), i) = Rank(Free(s, m), p)
<1>1. Filling(s, m, p) \in SUBSET Nat
  BY SymbolFacts DEF Filling
<1>2. ASSUME Fill(s, m, p) = i
      PROVE  i \in Filling(s, m, p)
  BY <1>1, <1>2, MinOfBounded DEF Fill
<1>3. ASSUME i \in Filling(s, m, p)
      PROVE  Fill(s, m, p) = i
  <2>1. Fill(s, m, p) \in Filling(s, m, p)
    BY <1>1, <1>3, MinOfBounded DEF Fill
  <2> DEFINE j == Fill(s, m, p)
  <2>2. /\ i \in Loose(s) /\ j \in Loose(s) /\ Rank(Loose(s), i) = Rank(Loose(s), j)
        /\ i \in Nat /\ j \in Nat /\ Loose(s) \in SUBSET Nat /\ IsFiniteSet(Loose(s))
    BY <1>3, <2>1, SymbolFacts DEF Filling
  <2> HIDE DEF j
  <2>3. Rank(Loose(s), i) \in Nat /\ Rank(Loose(s), j) \in Nat
    BY <2>2, RankType
  <2>4. i <= j /\ j <= i
    BY <2>2, <2>3, RankOrders
  <2>5. i = j
    BY <2>2, <2>4
  <2> QED
    BY <2>5 DEF j
<1> QED
  BY <1>2, <1>3 DEF Filling

LEMMA TableAt ==
    ASSUME NEW s \in Symbols, NEW m \in -1..MaxIndex
    PROVE  /\ DOMAIN OrderSymbols(s, m) = 0..Top(s, m) + Extra(s, m)
           /\ \A p \in Free(s, m) : OrderSymbols(s, m)[p] = Fill(s, m, p)
           /\ \A p \in DOMAIN OrderSymbols(s, m) \ Free(s, m) :
                 /\ p \in 0..Top(s, m)
                 /\ OrderSymbols(s, m)[p] = Placed(s, m)[p] /\ Placed(s, m)[p] # 0
<1>1. /\ DOMAIN OrderSymbols(s, m) = 0..Top(s, m) + Extra(s, m)
      /\ \A p \in 0..Top(s, m) + Extra(s, m) :
            OrderSymbols(s, m)[p] = IF p \notin Free(s, m) THEN Placed(s, m)[p] ELSE Fill(s, m, p)
  BY OrderParts
<1>2. Free(s, m) \in SUBSET (0..Top(s, m) + Extra(s, m))
  BY FreeFacts
<1>3. ASSUME NEW p \in 0..Top(s, m) + Extra(s, m), p \notin Free(s, m)
      PROVE  p \in 0..Top(s, m) /\ Placed(s, m)[p] # 0
  <2>1. p \in 0..Top(s, m)
    BY <1>3, TopFacts, FreeFacts DEF Free
  <2> QED
    BY <1>3, <2>1 DEF Free, Gaps
<1> QED
  BY <1>1, <1>2, <1>3

LEMMA LooseAt ==
    ASSUME NEW s \in Symbols, NEW m \in -1..MaxIndex, NEW i \in Loose(s)
    PROVE  \E p \in Free(s, m) : /\ Rank(Free(s, m), p) = Rank(Loose(s), i)
                                 /\ At(s, m, i) = {p}
<1> DEFINE F == Free(s, m)
<1>1. /\ F \in SUBSET Nat /\ IsFiniteSet(F) /\ Cardinality(Loose(s)) <= Cardinality(F)
      /\ Cardinality(Loose(s)) \in Nat /\ Cardinality(F) \in Nat
      /\ F \in SUBSET DOMAIN OrderSymbols(s, m)
  BY FreeFacts, TableAt
<1>2. Rank(Loose(s), i) \in Nat /\ Rank(Loose(s), i) < Cardinality(F)
  <2>1. Rank(Loose(s), i) \in Nat /\ Rank(Loose(s), i) < Cardinality(Loose(s))
    BY SymbolFacts, RankType
  <2> QED
    BY <1>1, <2>1
<1> HIDE DEF F
<1>3. PICK p \in F : Rank(F, p) = Rank(Loose(s), i)
  BY <1>1, <1>2, EveryRank
<1>4. i \in Nat /\ i # 0 /\ i \in DOMAIN s /\ s[i].idx < 0
  BY SymbolFacts DEF Loose
<1>5. OrderSymbols(s, m)[p] = i
  BY <1>3, <1>4, FillIs, TableAt DEF F
<1>6. ASSUME NEW q \in DOMAIN OrderSymbols(s, m), OrderSymbols(s, m)[q] = i
      PROVE  q = p
  <2>1. CASE q \in F
    <3>1. Fill(s, m, q) = i
      BY <1>6, <2>1, TableAt DEF F
    <3>2. Rank(F, q) = Rank(F, p)
      BY <1>3, <1>4, <2>1, <3>1, FillIs DEF F
    <3>3. Rank(F, q) \in Nat /\ q \in Nat /\ p \in Nat
      BY <1>1, <2>1, RankType
    <3>4. q <= p /\ p <= q
      BY <1>1, <2>1, <3>2, <3>3, RankOrders
    <3> QED
      BY <3>3, <3>4
  <2>2. CASE q \notin F
    <3>1. q \in 0..Top(s, m) /\ Placed(s, m)[q] = i
      BY <1>6, <2>2, TableAt DEF F
    <3>2. i \in IndexedAt(s, q)
      BY <1>4, <3>1, PlacedAt
    <3> QED
      BY <1>4, <3>1, <3>2 DEF IndexedAt
  <2> QED
    BY <2>1, <2>2
<1>7. At(s, m, i) = {p}
  BY <1>1, <1>5, <1>6 DEF At
<1> QED
  BY <1>3, <1>7 DEF F

LEMMA DeclaredAt ==
    ASSUME NEW s \in Symbols, NEW m \in -1..MaxIndex, NEW i \in DOMAIN s, i \notin Loose(s),
           \A j \in 1..i - 1 : s[j].idx # s[i].idx
    PROVE  At(s, m, i) = {s[i].idx}
<1> DEFINE p == s[i].idx
<1>1. /\ i \in Nat /\ i # 0 /\ p \in Int /\ p >= 0 /\ p <= Top(s, m) /\ Top(s, m) \in Int
      /\ DOMAIN s \in SUBSET (Nat \ {0})
  <2>1. PICK n \in Nat : DOMAIN s = 1..n
    BY SymbolFacts
  <2>2. p \in -1..MaxIndex
    BY SymbolFacts
  <2>3. ~(p < 0)
    BY DEF Loose
  <2>4. Top(s, m) \in Int /\ p <= Top(s, m)
    BY TopFacts
  <2> QED
    BY <2>1, <2>2, <2>3, <2>4
<1>2. p \in 0..Top(s, m) /\ i \in IndexedAt(s, p)
  BY <1>1 DEF IndexedAt
<1>3. Placed(s, m)[p] = i
  <2>1. Placed(s, m)[p] \in IndexedAt(s, p) /\ Placed(s, m)[p] <= i
    BY <1>2, PlacedAt
  <2>2. /\ Placed(s, m)[p] \in DOMAIN s /\ s[Placed(s, m)[p]].idx = p
        /\ Placed(s, m)[p] \in Nat /\ Placed(s, m)[p] # 0
    BY <1>1, <2>1 DEF IndexedAt
  <2>3. ~(Placed(s, m)[p] < i)
    BY <1>1, <2>2
  <2> QED
    BY <1>1, <2>1, <2>2, <2>3
<1>4. p \notin Free(s, m)
  <2>1. p \notin Gaps(s, m)
    BY <1>1, <1>3 DEF Gaps
  <2>2. ~(Top(s, m) + 1 <= p)
    BY <1>1
  <2> QED
    BY <2>1, <2>2 DEF Free
<1>5. p \in DOMAIN OrderSymbols(s, m)
  BY <1>1, TableAt, FreeFacts
<1>6. OrderSymbols(s, m)[p] = i
  BY <1>3, <1>4, <1>5, TableAt
<1>7. ASSUME NEW q \in DOMAIN OrderSymbols(s, m), OrderSymbols(s, m)[q] = i
      PROVE  q = p
  <2>1. CASE q \in Free(s, m)
    <3>1. Fill(s, m, q) = i
      BY <1>7, <2>1, TableAt
    <3> QED
      BY <1>1, <2>1, <3>1, FillIs
  <2>2. CASE q \notin Free(s, m)
    <3>1. q \in 0..Top(s, m) /\ Placed(s, m)[q] = i
      BY <1>7, <2>2, TableAt
    <3>2. i \in IndexedAt(s, q)
      BY <1>1, <3>1, PlacedAt
    <3> QED
      BY <3>2 DEF IndexedAt
  <2> QED
    BY <2>1, <2>2
<1> QED
  BY <1>5, <1>6, <1>7 DEF At

(* The answer of GetLayerSymbols is the ordered table, of symbols whose units *)
(* were checked.                                                             *)
SymbolInv ==
    call.rpc = "symbols" =>
        /\ call.symbols \in Symbols /\ call.maxRef \in -1..MaxIndex
        /\ call.table = OrderSymbols(call.symbols, call.maxRef)
        /\ call.status = OK
             => \A i \in DOMAIN call.symbols : call.symbols[i].unit \in {"None", call.expected}

LEMMA UnitsChecked ==
    ASSUME NEW s, NEW e, ~UnitMismatch(s, e)
    PROVE  \A i \in DOMAIN s : s[i].unit \in {"None", e}
BY DEF UnitMismatch

LEMMA SymbolStep ==
    ASSUME StreamInv, GrpcCallNext PROVE SymbolInv'
<1>1. CASE GetLayerSymbols
  <2>1. PICK s \in Symbols, raw \in RawUnits, m \in -1..MaxIndex, agree \in BOOLEAN :
          call' = [rpc |-> "symbols", symbols |-> s, maxRef |-> m,
                   expected |-> ExpectedUnitType(NormalizeUnits(raw)),
                   status |-> IF \/ NormalizeUnits(raw) = "error"
                                 \/ UnitMismatch(s, ExpectedUnitType(NormalizeUnits(raw)))
                                 \/ ~agree
                              THEN "FAILED_PRECONDITION" ELSE OK,
                   table |-> OrderSymbols(s, m)]
    BY <1>1, Zenon DEF GetLayerSymbols
  <2> DEFINE e == ExpectedUnitType(NormalizeUnits(raw))
  <2>2. /\ call'.symbols = s /\ call'.maxRef = m /\ call'.table = OrderSymbols(s, m)
        /\ call'.expected = e
        /\ call'.status = OK => ~UnitMismatch(s, e)
    BY <2>1 DEF OK
  <2> HIDE DEF e
  <2>3. call'.status = OK => \A i \in DOMAIN s : s[i].unit \in {"None", e}
    BY <2>2, UnitsChecked
  <2> QED
    BY <2>2, <2>3 DEF SymbolInv
<1>2. CASE UnaryCall
  <2>1. PICK d \in Names \cup {"corrupt"}, s \in {"none", "good", "bad"},
             l \in BOOLEAN, h \in {"", "OdbDesignService", "Other"} :
          call' = [rpc |-> "unary", design |-> GetDesign(d, s, l),
                   fonts |-> GetStandardFonts(d), health |-> HealthCheck(h)]
    BY <1>2 DEF UnaryCall
  <2> QED
    BY <2>1 DEF SymbolInv
<1>3. CASE StreamStart
  <2>1. call'.rpc = "stream"
    BY <1>3 DEF StreamStart
  <2> QED
    BY <2>1 DEF SymbolInv
<1>4. CASE CallEnds
  BY <1>4 DEF CallEnds, NoCall, SymbolInv
<1>5. CASE \/ StreamRecord \/ StreamDone \/ BatchRecord \/ BatchDone
           \/ ClientCancels \/ ClientLeaves
  <2>1. call.rpc = "stream"
    BY <1>5 DEF StreamRecord, StreamDone, BatchRecord, BatchDone, ClientCancels,
       ClientLeaves, Running
  <2>2. StreamType
    BY <2>1 DEF StreamInv
  <2>3. call'.rpc = call.rpc
    BY <1>5, <2>2 DEF StreamType, StreamRecord, StreamDone, BatchRecord, BatchDone, ClientCancels,
       ClientLeaves, WriteAndGo
  <2> QED
    BY <2>1, <2>3 DEF SymbolInv
<1> QED
  BY <1>1, <1>2, <1>3, <1>4, <1>5 DEF GrpcCallNext

LEMMA SymbolsFollow == SymbolInv => SymbolsAligned
<1> SUFFICES ASSUME SymbolInv, call.rpc = "symbols", call.status = OK PROVE SymbolsAligned
  BY DEF SymbolsAligned
<1> DEFINE s == call.symbols  m == call.maxRef
<1>1. /\ s \in Symbols /\ m \in -1..MaxIndex /\ call.table = OrderSymbols(s, m)
      /\ \A i \in DOMAIN s : s[i].unit \in {"None", call.expected}
  BY DEF SymbolInv
<1> HIDE DEF s, m
<1>2. \A i \in DOMAIN s : {p \in DOMAIN call.table : call.table[p] = i} = At(s, m, i)
  BY <1>1 DEF At
<1>3. 0..m \subseteq DOMAIN call.table
  <2>1. /\ Top(s, m) \in Int /\ m \in Int /\ m <= Top(s, m) /\ Extra(s, m) \in Nat
        /\ DOMAIN call.table = 0..Top(s, m) + Extra(s, m)
    BY <1>1, TopFacts, FreeFacts, TableAt
  <2> QED
    BY <2>1
<1>4. ASSUME NEW i \in DOMAIN s, i \notin Loose(s), \A j \in 1..i - 1 : s[j].idx # s[i].idx
      PROVE  At(s, m, i) = {s[i].idx}
  BY <1>1, <1>4, DeclaredAt
<1>5. ASSUME NEW i \in Loose(s) PROVE Cardinality(At(s, m, i)) = 1
  <2>1. PICK p \in Free(s, m) : At(s, m, i) = {p}
    BY <1>1, LooseAt
  <2> QED
    BY <2>1, FS_Singleton
<1>6. ASSUME NEW i \in Loose(s), NEW j \in Loose(s), i < j
      PROVE  Min(At(s, m, i)) < Min(At(s, m, j))
  <2> DEFINE F == Free(s, m)
  <2>1. PICK p \in F : Rank(F, p) = Rank(Loose(s), i) /\ At(s, m, i) = {p}
    BY <1>1, LooseAt
  <2>2. PICK q \in F : Rank(F, q) = Rank(Loose(s), j) /\ At(s, m, j) = {q}
    BY <1>1, LooseAt
  <2>3. F \in SUBSET Nat /\ IsFiniteSet(F) /\ Loose(s) \in SUBSET Nat /\ IsFiniteSet(Loose(s))
    BY <1>1, FreeFacts, SymbolFacts
  <2> HIDE DEF F
  <2>4. /\ Rank(Loose(s), i) < Rank(Loose(s), j)
        /\ Rank(Loose(s), i) \in Nat /\ Rank(Loose(s), j) \in Nat
    BY <1>6, <2>3, RankGrows, RankType
  <2>5. ~(q <= p)
    <3>1. CASE q < p
      <4>1. Rank(F, q) < Rank(F, p)
        BY <2>3, <3>1, RankGrows
      <4> QED
        BY <2>1, <2>2, <2>4, <4>1
    <3>2. q # p
      BY <2>1, <2>2, <2>4
    <3> QED
      BY <2>3, <3>1, <3>2
  <2>6. p \in Nat /\ q \in Nat
    BY <2>3
  <2>7. Min({p}) = p /\ Min({q}) = q
    BY <2>6, MinOfBounded
  <2> QED
    BY <2>1, <2>2, <2>5, <2>6, <2>7
<1>7. Loose(s) = {i \in DOMAIN s : s[i].idx < 0}
  BY DEF Loose
<1>8. \A i \in DOMAIN s :
         (i \notin Loose(s) /\ \A j \in 1..i - 1 : s[j].idx # s[i].idx)
             => {p \in DOMAIN call.table : call.table[p] = i} = {s[i].idx}
  BY <1>2, <1>4
<1>9. \A i \in Loose(s) : Cardinality({p \in DOMAIN call.table : call.table[p] = i}) = 1
  BY <1>2, <1>5, <1>7
<1>10. \A i, j \in Loose(s) :
         i < j => Min({p \in DOMAIN call.table : call.table[p] = i})
                    < Min({p \in DOMAIN call.table : call.table[p] = j})
  BY <1>2, <1>6, <1>7
<1> QED
  BY <1>1, <1>3, <1>7, <1>8, <1>9, <1>10 DEF SymbolsAligned, s, m

(* A feature's symbol number finds its symbol: for any number of symbols,    *)
(* with duplicate, missing and scattered indices and any highest reference,  *)
(* a declared index keeps its position, symbols without one fill the gaps in *)
(* order and once each, and every referenced number has a row                *)
(* (GetLayerSymbols).                                                        *)
THEOREM SymbolsStayAligned == Spec => []SymbolsAligned
<1>1. Init => SymbolInv
  BY DEF Init, NoCall, SymbolInv
<1>2. StreamInv /\ SymbolInv /\ [Next]_serverVars => SymbolInv'
  <2> SUFFICES ASSUME StreamInv, SymbolInv, [Next]_serverVars PROVE SymbolInv'
    OBVIOUS
  <2>1. GrpcCallNext \/ call' = call
    BY DEF Next, serverVars
  <2>2. CASE call' = call
    BY <2>2 DEF SymbolInv
  <2> QED
    BY <2>1, <2>2, SymbolStep
<1> QED
  BY <1>1, <1>2, StreamInvariant, SymbolsFollow, PTL DEF Spec
=============================================================================
