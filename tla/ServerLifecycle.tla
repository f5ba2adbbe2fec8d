--------------------------- MODULE ServerLifecycle ---------------------------
(***************************************************************************)
(* OdbServerAppBase and OdbDesignServerApp: main() runs the Crow server on   *)
(* its own thread, the gRPC server on a second one, and on a terminal a      *)
(* third thread reads the console for "q".  Whoever stops the servers reads  *)
(* m_grpcServer, which the gRPC thread sets when it is built and clears when *)
(* it is shut down, without a lock.                                          *)
(***************************************************************************)
EXTENDS Integers, FiniteSets, FiniteSetsExt

CONSTANTS GrpcPort,  \* args().grpcPort() > 0
          Tty,       \* stdin is a terminal
          Numbers    \* what a numeric key of the configuration file may hold

ASSUME NumbersAssumption == Numbers \subseteq Int

VARIABLES main,         \* where main() is
          grpc,         \* where the gRPC thread is ("none" before it exists)
          console,      \* where the console thread is
          grpcServer,   \* m_grpcServer # nullptr
          grpcShut,     \* Shutdown() was called on the gRPC server
          crow,         \* the Crow server: "off", "running" or "stopped"
          shutdownFlag, \* m_shutdownFlag
          config,       \* the gRPC configuration the thread loaded
          quitSeen      \* history: what "q" found: "no", "early" or "up"

lifeVars == <<main, grpc, console, grpcServer, grpcShut, crow, shutdownFlag,
              config, quitSeen>>
-----------------------------------------------------------------------------
(* GrpcServiceConfig::LoadFromFile *)

(* A JSON number arrives as a 64 bit integer and is cast to int; the model's *)
(* int has IntBits bits.                                                     *)
IntBits == 13
Narrow(v) == LET m == v % 2^IntBits
             IN IF m >= 2^(IntBits - 1) THEN m - 2^IntBits ELSE m

(* std::max(lo, std::min(hi, value)), ClampBatchSize() *)
ClampUnchecked(lo, hi, v) == Min({hi, v})
Clamp(lo, hi, v) == Max({lo, Min({hi, v})})

DefaultConfig == [receive |-> 250, send |-> 250, level |-> "high", batch |-> 500,
                  streaming |-> TRUE, threads |-> 8, pollers |-> 1,
                  time |-> 30, timeout |-> 10]

ParseCompressionLevel(s) == IF s \in {"none", "low", "medium", "high"}
                            THEN s ELSE "high"

(* The "compression" section: an explicit level wins over the deprecated     *)
(* "enabled" key, whose FALSE is migrated to the level "none".               *)
CompressionOf(sec) == IF sec.level # "absent" THEN ParseCompressionLevel(sec.level)
                      ELSE IF sec.enabled = FALSE THEN "none"
                      ELSE DefaultConfig.level

(* The numeric keys, each read when present, cast and clamped. *)
ConfigOf(file) ==
    LET num(key, lo, hi) == IF key \in DOMAIN file.numbers
                            THEN Clamp(lo, hi, Narrow(file.numbers[key]))
                            ELSE DefaultConfig[key]
    IN [receive |-> num("receive", 1, 1000), send |-> num("send", 1, 1000),
        level |-> CompressionOf(file.compression),
        streaming |-> file.streaming,
        batch |-> num("batch", 100, 1000),
        threads |-> num("threads", 1, 64), pollers |-> num("pollers", 1, 16),
        time |-> num("time", 1, 3600), timeout |-> num("timeout", 1, 300)]

(* A missing, unreadable, empty or malformed file, or a value of the wrong   *)
(* type anywhere in it, leaves every default in force.                       *)
LoadFromFile(file) == IF file.kind = "json" THEN ConfigOf(file) ELSE DefaultConfig

(* GRPC_CONFIG_PATH when it names an existing .json file inside the allowed  *)
(* directories, else config.json beside the executable, else in the working  *)
(* directory.                                                                *)
ConfigPath(env, exe, cwd) == IF env.kind # "missing" /\ env.allowed THEN env
                             ELSE IF exe.kind # "missing" THEN exe
                             ELSE IF cwd.kind # "missing" THEN cwd ELSE exe

(* The files there may be: absent, broken, and with any of the Numbers.      *)
BrokenFile == {[kind |-> k, allowed |-> a] : k \in {"missing", "bad"}, a \in BOOLEAN}
JsonFile(n, level) ==
    [kind |-> "json", allowed |-> TRUE, streaming |-> n > 0,
     numbers |-> [k \in {"receive", "batch", "threads", "time"} |-> n],
     compression |-> [level |-> level, enabled |-> n # 0]]
ConfigFile == BrokenFile \cup {JsonFile(n, l) : n \in Numbers,
                                               l \in {"absent", "low", "bogus"}}
Absent == [kind |-> "missing", allowed |-> FALSE]

(* MB to bytes in 64 bits, clamped to what the int of the gRPC API holds.    *)
MessageBytes(mb, unit) == Min({mb * unit, 2^(IntBits - 1) - 1})
-----------------------------------------------------------------------------
LifeInit == /\ main = "init" /\ grpc = "none" /\ console = "none"
            /\ grpcServer = FALSE /\ grpcShut = FALSE /\ crow = "off"
            /\ shutdownFlag = FALSE /\ config = DefaultConfig
            /\ quitSeen = "no"

(* OdbAppBase::Run(): the logger starts, the cache is configured, and a      *)
(* design named on the command line that cannot be loaded ends the program.  *)
BaseRun == /\ main = "init"
           /\ main' \in {"startGrpc", "destroy"}
           /\ UNCHANGED <<grpc, console, grpcServer, grpcShut, crow,
                          shutdownFlag, config, quitSeen>>

(* --help: Run() returns before the logger is started, and ~OdbAppBase then  *)
(* stops it: stopProcessing() joins through the null pointer to a thread     *)
(* that start() never created.                                               *)
Help == /\ main = "init"
        /\ main' = "crashed"
        /\ UNCHANGED <<grpc, console, grpcServer, grpcShut, crow, shutdownFlag,
                       config, quitSeen>>

StartGrpc == /\ main = "startGrpc"
             /\ grpc' = IF GrpcPort THEN "load" ELSE "none"
             /\ main' = "startConsole"
             /\ UNCHANGED <<console, grpcServer, grpcShut, crow, shutdownFlag,
                            config, quitSeen>>

StartConsole == /\ main = "startConsole"
                /\ console' = IF Tty THEN "read" ELSE "none"
                /\ main' = "runCrow"
                /\ UNCHANGED <<grpc, grpcServer, grpcShut, crow, shutdownFlag,
                               config, quitSeen>>

(* m_crowApp.run(); main() waits in it until Crow is stopped. *)
RunCrow == /\ main = "runCrow"
           /\ crow' = "running" /\ main' = "serving"
           /\ UNCHANGED <<grpc, console, grpcServer, grpcShut, shutdownFlag,
                          config, quitSeen>>

(* Crow installs its own handler of SIGINT and SIGTERM (external). *)
CrowSignal == /\ crow = "running"
              /\ crow' = "stopped"
              /\ UNCHANGED <<main, grpc, console, grpcServer, grpcShut,
                             shutdownFlag, config, quitSeen>>

CrowReturns == /\ main = "serving" /\ crow = "stopped"
               /\ main' = "joinConsole"
               /\ UNCHANGED <<grpc, console, grpcServer, grpcShut, crow,
                              shutdownFlag, config, quitSeen>>

(* join_interactive_quit(): the thread leaves getline() only with a line. *)
JoinConsole == /\ main = "joinConsole" /\ console \in {"none", "done"}
               /\ main' = "shutGrpc"
               /\ UNCHANGED <<grpc, console, grpcServer, grpcShut, crow,
                              shutdownFlag, config, quitSeen>>

(* if (m_grpcServer) m_grpcServer->Shutdown(); in Run() *)
ShutGrpc == /\ main = "shutGrpc"
            /\ grpcShut' = (grpcShut \/ grpcServer)
            /\ main' = "joinGrpc"
            /\ UNCHANGED <<grpc, console, grpcServer, crow, shutdownFlag, config,
                           quitSeen>>

(* if (m_grpcThread && joinable()) join(); *)
JoinGrpcSkipped == /\ main = "joinGrpc" /\ main' = "destroy"
                   /\ UNCHANGED <<grpc, console, grpcServer, grpcShut, crow,
                                  shutdownFlag, config, quitSeen>>
JoinGrpc == /\ main = "joinGrpc" /\ grpc \in {"none", "done"}
            /\ main' = "destroy"
            /\ UNCHANGED <<grpc, console, grpcServer, grpcShut, crow,
                           shutdownFlag, config, quitSeen>>

(* ~OdbServerAppBase: stop_servers() finds nothing left to stop. *)
Destroy == /\ main = "destroy"
           /\ shutdownFlag' = TRUE /\ main' = "exited"
           /\ UNCHANGED <<grpc, console, grpcServer, grpcShut, crow, config,
                          quitSeen>>
-----------------------------------------------------------------------------
(* The console thread *)

(* A line that asks to quit runs HandleSignal -> stop_servers() here.  A     *)
(* stop of Crow that comes before run() created its server is lost.          *)
ConsoleQuit ==
    /\ console = "read"
    /\ IF shutdownFlag
       THEN /\ console' = "done" /\ UNCHANGED <<shutdownFlag, crow, quitSeen>>
       ELSE /\ console' = "shutGrpc" /\ shutdownFlag' = TRUE
            /\ crow' = IF crow = "running" THEN "stopped" ELSE crow
            /\ quitSeen' = IF crow # "off" /\ (grpcServer \/ grpc \in {"none", "done"})
                           THEN "up" ELSE "early"
    /\ UNCHANGED <<main, grpc, grpcServer, grpcShut, config>>

(* The end of the input, or any other line once Run() has asked the loop to  *)
(* stop.                                                                     *)
ConsoleEnds == /\ console = "read"
               /\ console' = "done"
               /\ UNCHANGED <<main, grpc, grpcServer, grpcShut, crow,
                              shutdownFlag, config, quitSeen>>

ConsoleShutGrpcForgets == /\ console = "shutGrpc" /\ console' = "joinGrpc"
                          /\ UNCHANGED <<main, grpc, grpcServer, grpcShut, crow,
                                         shutdownFlag, config, quitSeen>>
ConsoleShutGrpc == /\ console = "shutGrpc"
                   /\ grpcShut' = (grpcShut \/ grpcServer)
                   /\ console' = "joinGrpc"
                   /\ UNCHANGED <<main, grpc, grpcServer, crow, shutdownFlag,
                                  config, quitSeen>>

ConsoleJoinGrpc == /\ console = "joinGrpc" /\ grpc \in {"none", "done"}
                   /\ console' = "done"
                   /\ UNCHANGED <<main, grpc, grpcServer, grpcShut, crow,
                                  shutdownFlag, config, quitSeen>>
-----------------------------------------------------------------------------
(* The gRPC thread: RunGrpcServer() *)

GrpcLoadConfig ==
    /\ grpc = "load"
    /\ \E env, other \in ConfigFile :
          config' \in {LoadFromFile(ConfigPath(env, other, Absent)),
                      LoadFromFile(ConfigPath(env, Absent, other))}
    /\ grpc' = "build"
    /\ UNCHANGED <<main, console, grpcServer, grpcShut, crow, shutdownFlag,
                   quitSeen>>

(* BuildAndStart(); the port may be taken. *)
GrpcBuild == /\ grpc = "build"
             /\ grpc' \in {"set", "done"}
             /\ UNCHANGED <<main, console, grpcServer, grpcShut, crow,
                            shutdownFlag, config, quitSeen>>

GrpcSet == /\ grpc = "set"
           /\ grpcServer' = TRUE /\ grpc' = "wait"
           /\ UNCHANGED <<main, console, grpcShut, crow, shutdownFlag, config,
                          quitSeen>>

(* serverShared->Wait() returns once Shutdown() was called. *)
GrpcWait == /\ grpc = "wait" /\ grpcShut
            /\ grpc' = "clear"
            /\ UNCHANGED <<main, console, grpcServer, grpcShut, crow,
                           shutdownFlag, config, quitSeen>>

GrpcClear == /\ grpc = "clear"
             /\ grpcServer' = FALSE /\ grpc' = "done"
             /\ UNCHANGED <<main, console, grpcShut, crow, shutdownFlag, config,
                            quitSeen>>
-----------------------------------------------------------------------------
MainStep == BaseRun \/ StartGrpc \/ StartConsole \/ RunCrow \/ CrowReturns
            \/ JoinConsole \/ ShutGrpc \/ JoinGrpc \/ Destroy
ConsoleStep == ConsoleShutGrpc \/ ConsoleJoinGrpc
GrpcStep == GrpcLoadConfig \/ GrpcBuild \/ GrpcSet \/ GrpcWait \/ GrpcClear
LifeNext == Help \/ MainStep \/ ConsoleStep \/ GrpcStep \/ CrowSignal \/ ConsoleQuit
            \/ ConsoleEnds

(* Threads run; nobody has to type a line or send a signal. *)
LifeFairness == WF_lifeVars(MainStep) /\ WF_lifeVars(ConsoleStep)
                /\ WF_lifeVars(GrpcStep)
-----------------------------------------------------------------------------
(* Properties *)

(* No server thread outlives the object it runs on: main() reaches the       *)
(* destructors only with the gRPC thread ended and its server released, on   *)
(* the failed-initialisation path too (OdbServerAppBase::Run).               *)
NoThreadOutlivesApp ==
    main \in {"destroy", "exited"} =>
        /\ grpc \in {"none", "done"} /\ ~grpcServer
        /\ console \in {"none", "done"}

(* A "q" typed while both servers are up ends the process: the console       *)
(* thread's shutdown and main()'s never wait for each other                  *)
(* (stop_servers, Run).  A "q" typed before the gRPC thread has set          *)
(* m_grpcServer skips the Shutdown() and may wait for ever.                  *)
QuitEnds == (quitSeen = "up") ~> (main = "exited")

(* Whatever the file holds, the configuration the service gets is inside the *)
(* documented ranges and a message limit never turns negative, which gRPC    *)
(* would take for unlimited (GrpcServiceConfig.cpp, OdbDesignServerApp.cpp). *)
ConfigInRange ==
    /\ config.receive \in 1..1000 /\ config.send \in 1..1000
    /\ config.batch \in 100..1000 /\ config.threads \in 1..64
    /\ config.pollers \in 1..16 /\ config.time \in 1..3600
    /\ config.timeout \in 1..300
    /\ MessageBytes(config.receive, 16) > 0
=============================================================================
