----------------------------- MODULE ApiContainer -----------------------------
(***************************************************************************)
(* The API container from `npm run start:container' to its exit: wait for  *)
(* the services (wait-for-dependencies.js), apply the schema, initialise   *)
(* the sale, then run server.js until a signal shuts it down.  The steps   *)
(* are joined by && and the container is not restarted, so the first that  *)
(* fails ends it.                                                          *)
(*                                                                         *)
(* Three libraries decide what happens here.  A Redis client keeps trying  *)
(* to connect as long as nobody gives it a reconnectStrategy.  Express 5   *)
(* calls the callback of listen() for an error too, before any handler     *)
(* that is registered later.  close() of a Node server stops listening,    *)
(* drops the idle connections and waits for the others to close; after an  *)
(* answer a client may keep its connection for a while and send another    *)
(* request on it, also to a server that is closing.                        *)
(***************************************************************************)
EXTENDS Integers

CONSTANTS
  Connection,    \* what clients may have open at a time
  Signal,        \* SIGINT and SIGTERM
  MaxAttempts    \* DEPENDENCY_WAIT_ATTEMPTS

Service == {"postgres", "redis"}

ASSUME ContainerAssumption == MaxAttempts \in Nat \ {0}

VARIABLES
  up,           \* the services that can be reached
  stage,        \* the step of start:container, and within it the await
  attempt,      \* of the wait
  ready,        \* history: one attempt found both services
  server,       \* the variable `server' of server.js is set
  listener,     \* what has become of that server
  handlers,     \* signals whose once-handler is registered
  shutdown,     \* where each signal's call of shutdown stands
  inShutdown,   \* shutdownPromise is set
  pool,         \* the Postgres pool, and its end()
  redisClient,  \* and its quit()
  poolEnds,     \* history: calls of pool.end()
  broken,       \* history: an error after the server had started to listen
  connections,
  exit          \* how the container ended

serviceVars == <<up>>
waitVars == <<attempt, ready>>
serverVars == <<server, listener, broken>>
stopVars == <<handlers, shutdown, inShutdown>>
storeVars == <<pool, redisClient, poolEnds>>
containerVars == <<serviceVars, stage, waitVars, serverVars, stopVars, storeVars,
                   connections, exit>>

Stage == {"probePostgres", "probeRedis", "sleep", "schema", "init",
          "verifyPostgres", "connectRedis", "listen", "cleanup", "started",
          "exited"}

\* "running" carries a request, "kept" waits for the next one, and of "abandoned"
\* only the handler is left: its client has hung up.
ConnectionState == {"closed", "running", "kept", "abandoned"}

InFlight == {c \in Connection : connections[c] = "running"}
Kept == {c \in Connection : connections[c] = "kept"}

ContainerTypes ==
  /\ up \subseteq Service
  /\ stage \in Stage
  /\ attempt \in 1 .. MaxAttempts + 1 /\ ready \in BOOLEAN
  /\ server \in BOOLEAN /\ broken \in BOOLEAN /\ inShutdown \in BOOLEAN
  /\ listener \in {"none", "opening", "listening", "closing", "closed"}
  /\ handlers \subseteq Signal
  /\ shutdown \in [Signal -> {"no", "close", "shared", "cleanup"}]
  /\ pool \in {"open", "ending", "ended", "failed"}
  /\ redisClient \in {"closed", "open", "quitting", "failed"}
  /\ poolEnds \in Nat
  /\ connections \in [Connection -> ConnectionState]
  /\ exit \in {"none", "success", "failure", "killed"}

\* `server' is set exactly while there is a listener that is not closed.
ServerIsKnown ==
  ~broken => (server <=> /\ stage # "exited"
                         /\ listener \in {"opening", "listening", "closing"})

ContainerTypeOK ==
  ContainerTypes /\ ServerIsKnown /\ (exit = "none" <=> stage # "exited")

ContainerInit ==
  /\ up \in SUBSET Service
  /\ stage = "probePostgres" /\ attempt = 1 /\ ready = FALSE
  /\ server = FALSE /\ listener = "none" /\ broken = FALSE
  /\ handlers = {} /\ shutdown = [s \in Signal |-> "no"] /\ inShutdown = FALSE
  /\ pool = "open" /\ redisClient = "closed" /\ poolEnds = 0
  /\ connections = [c \in Connection |-> "closed"]
  /\ exit = "none"

ServiceFails(s) ==
  /\ s \in up
  /\ up' = up \ {s}
  /\ UNCHANGED <<stage, waitVars, serverVars, stopVars, storeVars, connections, exit>>

ServiceRecovers(s) ==
  /\ s \in Service \ up
  /\ up' = up \cup {s}
  /\ UNCHANGED <<stage, waitVars, serverVars, stopVars, storeVars, connections, exit>>

\* The process ends, and its connections and handlers with it.
Exit(how) ==
  /\ stage' = "exited" /\ exit' = how
  /\ server' = FALSE
  /\ connections' = [c \in Connection |-> "closed"]

GoTo(label) == stage' = label /\ UNCHANGED <<server, connections, exit>>

-----------------------------------------------------------------------------
(* wait:deps, db:schema, sale:init                                         *)

\* Faulty variant: the last attempt is not told from the others.
LastAttemptMissed(n) == n > MaxAttempts
LastAttempt(n) == n = MaxAttempts

AttemptFails ==
  IF LastAttempt(attempt) THEN Exit("failure") ELSE GoTo("sleep")

ProbePostgres ==
  /\ stage = "probePostgres"
  /\ \/ "postgres" \in up /\ GoTo("probeRedis")
     \/ AttemptFails
  /\ UNCHANGED <<serviceVars, waitVars, listener, broken, stopVars, storeVars>>

\* Without Redis the client neither connects nor gives up.
ProbeRedis ==
  /\ stage = "probeRedis"
  /\ "redis" \in up
  /\ \/ GoTo("schema") /\ ready' = TRUE
     \/ AttemptFails /\ UNCHANGED ready
  /\ UNCHANGED <<serviceVars, attempt, listener, broken, stopVars, storeVars>>

\* Faulty variant: attempts are not counted.
NextAttemptUncounted(n) == n
NextAttempt(n) == n + 1

\* A loop that ran past its last attempt would return as if all were well.
WakeUp ==
  /\ stage = "sleep"
  /\ attempt' = NextAttempt(attempt)
  /\ GoTo(IF attempt' <= MaxAttempts THEN "probePostgres" ELSE "schema")
  /\ UNCHANGED <<serviceVars, ready, listener, broken, stopVars, storeVars>>

ApplySchema ==
  /\ stage = "schema"
  /\ \/ "postgres" \in up /\ GoTo("init")
     \/ Exit("failure")
  /\ UNCHANGED <<serviceVars, waitVars, listener, broken, stopVars, storeVars>>

\* sale:init connects to Redis before it uses Postgres.
InitialiseSale ==
  /\ stage = "init"
  /\ "redis" \in up
  /\ \/ "postgres" \in up /\ GoTo("verifyPostgres")
     \/ Exit("failure")
  /\ UNCHANGED <<serviceVars, waitVars, listener, broken, stopVars, storeVars>>

-----------------------------------------------------------------------------
(* server.js: startServer and main.                                        *)

\* cleanupDependencies: quit(), if the client is open, and pool.end() start
\* together; either may fail.
ReleaseStores ==
  /\ pool' = "ending"
  /\ poolEnds' = poolEnds + 1
  /\ redisClient' = IF redisClient = "open" THEN "quitting" ELSE redisClient

VerifyPostgres ==
  /\ stage = "verifyPostgres"
  /\ \/ /\ "postgres" \in up
        /\ GoTo("connectRedis")
        /\ redisClient' = "open" /\ UNCHANGED <<pool, poolEnds>>
     \/ GoTo("cleanup") /\ ReleaseStores
  /\ UNCHANGED <<serviceVars, waitVars, listener, broken, stopVars>>

\* `server' is set as soon as listen() has been called.
ConnectRedis ==
  /\ stage = "connectRedis"
  /\ "redis" \in up
  /\ \/ /\ stage' = "listen" /\ server' = TRUE /\ listener' = "opening"
        /\ UNCHANGED <<storeVars, connections, exit>>
     \/ GoTo("cleanup") /\ ReleaseStores /\ UNCHANGED listener
  /\ UNCHANGED <<serviceVars, waitVars, broken, stopVars>>

Listening ==
  /\ stage = "listen"
  /\ GoTo("started")
  /\ listener' = "listening"
  /\ handlers' = Signal
  /\ UNCHANGED <<serviceVars, waitVars, broken, shutdown, inShutdown, storeVars>>

\* EADDRINUSE.  The callback, called first, resolves the promise; the handler of
\* server.js then clears `server' and rejects a promise that is settled.
ListenFails ==
  /\ stage = "listen"
  /\ stage' = "started"
  /\ server' = FALSE /\ listener' = "none"
  /\ handlers' = Signal
  /\ UNCHANGED <<serviceVars, waitVars, broken, shutdown, inShutdown, storeVars,
                 connections, exit>>

PoolSettles ==
  /\ stage # "exited" /\ pool = "ending"
  /\ pool' \in {"ended", "failed"}
  /\ UNCHANGED <<serviceVars, stage, waitVars, serverVars, stopVars, redisClient,
                 poolEnds, connections, exit>>

Quit(outcome) ==
  /\ stage # "exited" /\ redisClient = "quitting"
  /\ redisClient' = outcome
  /\ UNCHANGED <<serviceVars, stage, waitVars, serverVars, stopVars, pool, poolEnds,
                 connections, exit>>

QuitAnswered == "redis" \in up /\ Quit("closed")

\* The connection is lost before the answer; without one the command may wait.
QuitFails == Quit("failed")

\* Faulty variants: Promise.all, which is over with the first failure; and a
\* release that is repeated until it succeeds.
SettledAll ==
  \/ pool # "ending" /\ redisClient # "quitting"
  \/ pool = "failed" \/ redisClient = "failed"
SettledOnSuccess == pool = "ended" /\ redisClient = "closed"

\* Promise.allSettled: a release that has failed is over too.
Settled == pool # "ending" /\ redisClient # "quitting"

FailedStart ==
  /\ stage = "cleanup"
  /\ Settled
  /\ Exit("failure")
  /\ UNCHANGED <<serviceVars, waitVars, listener, broken, stopVars, storeVars>>

\* An accept that fails: the handler meant for listen() clears `server'.
ListenerFails ==
  /\ listener = "listening" /\ ~broken /\ stage = "started"
  /\ server' = FALSE /\ broken' = TRUE
  /\ UNCHANGED <<serviceVars, stage, waitVars, listener, stopVars, storeVars,
                 connections, exit>>

-----------------------------------------------------------------------------
(* Connections and their requests.                                         *)

SetConnection(c, state) ==
  /\ stage = "started"
  /\ connections' = [connections EXCEPT ![c] = state]
  /\ UNCHANGED <<serviceVars, stage, waitVars, serverVars, stopVars, storeVars, exit>>

\* A kept connection brings its next request whatever has become of the listener.
Arrive(c) ==
  /\ \/ connections[c] = "closed" /\ listener = "listening"
     \/ connections[c] = "kept"
  /\ SetConnection(c, "running")

Answer(c) ==
  \/ connections[c] = "running" /\ \E next \in {"kept", "closed"} : SetConnection(c, next)
  \/ connections[c] = "abandoned" /\ SetConnection(c, "closed")

\* keepAliveTimeout, or the client closes.
Disconnect(c) == connections[c] = "kept" /\ SetConnection(c, "closed")

\* The handler goes on, but the connection is gone, and close() counts those only.
HangUp(c) == connections[c] = "running" /\ SetConnection(c, "abandoned")

-----------------------------------------------------------------------------
(* shutdown.                                                               *)

\* The default action of a signal, before server.js has registered a handler or
\* after the handler has run once.
Kill(s) ==
  /\ stage # "exited"
  /\ s \notin handlers
  /\ Exit("killed")
  /\ UNCHANGED <<serviceVars, waitVars, listener, broken, stopVars, storeVars>>

\* Faulty variant: every signal shuts down by itself.
ShutdownNotShared == FALSE
ShutdownShared == inShutdown

\* A server that is closing already is "not running" to close().
ReceiveSignal(s) ==
  /\ stage = "started" /\ s \in handlers
  /\ handlers' = handlers \ {s}
  /\ inShutdown' = TRUE
  /\ IF ShutdownShared
       THEN /\ shutdown' = [shutdown EXCEPT ![s] = "shared"]
            /\ UNCHANGED <<server, listener, storeVars, connections>>
       ELSE IF server /\ listener = "listening"
       THEN /\ shutdown' = [shutdown EXCEPT ![s] = "close"]
            /\ listener' = "closing"
            /\ connections' = [c \in Connection |->
                                 IF c \in Kept THEN "closed" ELSE connections[c]]
            /\ UNCHANGED <<server, storeVars>>
       ELSE /\ shutdown' = [shutdown EXCEPT ![s] = "cleanup"]
            /\ server' = FALSE
            /\ ReleaseStores
            /\ UNCHANGED <<listener, connections>>
  /\ UNCHANGED <<serviceVars, stage, waitVars, broken, exit>>

\* Faulty variant: close() does not wait.
DrainedAtOnce == TRUE
Drained == InFlight \cup Kept = {}

\* Faulty variant: `server' keeps the closed server.
ServerAfterCloseKept == TRUE
ServerAfterClose == FALSE

ServerClosed(s) ==
  /\ stage = "started" /\ shutdown[s] = "close"
  /\ Drained
  /\ shutdown' = [shutdown EXCEPT ![s] = "cleanup"]
  /\ server' = ServerAfterClose /\ listener' = "closed"
  /\ ReleaseStores
  /\ UNCHANGED <<serviceVars, stage, waitVars, broken, handlers, inShutdown,
                 connections, exit>>

\* A release that has failed leaves no trace in the exit code.
ShutdownEnds(s) ==
  /\ stage = "started" /\ shutdown[s] = "cleanup"
  /\ Settled
  /\ Exit("success")
  /\ UNCHANGED <<serviceVars, waitVars, listener, broken, stopVars, storeVars>>

-----------------------------------------------------------------------------

StartUp ==
  \/ ProbePostgres \/ ProbeRedis \/ WakeUp \/ ApplySchema \/ InitialiseSale
  \/ VerifyPostgres \/ ConnectRedis \/ Listening \/ ListenFails \/ FailedStart

Stop(s) == ServerClosed(s) \/ ShutdownEnds(s)

Ended == stage = "exited" /\ UNCHANGED containerVars

ContainerNext ==
  \/ StartUp \/ ListenerFails \/ PoolSettles \/ QuitAnswered \/ QuitFails \/ Ended
  \/ \E s \in Service : ServiceFails(s) \/ ServiceRecovers(s)
  \/ \E c \in Connection : Arrive(c) \/ Answer(c) \/ Disconnect(c) \/ HangUp(c)
  \/ \E s \in Signal : Kill(s) \/ ReceiveSignal(s) \/ Stop(s)

ContainerSpec == ContainerInit /\ [][ContainerNext]_containerVars

\* The process runs, a client that keeps trying connects to a service that is
\* there again and again, and end() of a pool settles.  A command is answered by a
\* Redis that is there, and only then: otherwise it waits in the client, and the
\* request whose handler has sent it waits too (FlashSale, EveryRequestAnswered, has
\* the rest of its way).  An idle connection does not outlive keepAliveTimeout.
\* Nobody has to hang up or to fail, and a service may stay away for ever.
ContainerLiveSpec ==
  /\ ContainerSpec
  /\ SF_containerVars(StartUp)
  /\ WF_containerVars(PoolSettles) /\ WF_containerVars(QuitAnswered)
  /\ \A c \in Connection : /\ WF_containerVars("redis" \in up /\ Answer(c))
                           /\ WF_containerVars(Disconnect(c))
  /\ \A s \in Signal : WF_containerVars(Stop(s))

-----------------------------------------------------------------------------

\* A request never finds the pool ended or the Redis client closed under it:
\* not while several signals shut the process down, and not when it came on a
\* connection that outlived the listener (shutdown, server.close).  Two are the
\* exception: an error of the running listener, which clears `server', and the
\* request of a client that has hung up, for which close() does not wait.
RequestsHaveStores ==
  InFlight # {} /\ ~broken => pool = "open" /\ redisClient = "open"

\* server.test.js: 'returns the in-flight shutdown promise to concurrent
\* callers': however signals, failed starts and closing servers overlap, the
\* pool is ended once (a second end() throws).
PoolEndedOnce == poolEnds <= 1

\* The process does not exit by itself before each release that it has begun has
\* come to an end, also when the other one fails; and it stops with success only
\* after it has begun both (cleanupDependencies, allSettled).  It does not say that
\* a release succeeded: the exit code is 0 either way.
ReleasesAwaited ==
  /\ exit \in {"success", "failure"} => pool # "ending" /\ redisClient # "quitting"
  /\ exit = "success" => pool # "open" /\ redisClient # "open"

\* No step of the start is taken on services that were never found: a wait that
\* uses up its attempts ends the container (waitForDependencies).
StartsWhenReady ==
  stage \notin {"probePostgres", "probeRedis", "sleep", "exited"} => ready

\* No client uses the connection that it has kept for another request.
KeptStayIdle == \A c \in Kept : connections'[c] # "running"

\* Once told to stop the process ends, also if the releases fail, provided that
\* Redis comes to stay and that no client keeps on sending on the connection it
\* has: either would hold close() open for ever (shutdown, server.close).
StopEnds ==
  /\ <>[]("redis" \in up)
  /\ <>[][KeptStayIdle]_containerVars
  => (inShutdown ~> stage = "exited")

\* The start ends, with a process that runs or with an exit, while Postgres comes
\* and goes, provided that Redis comes to stay: the wait needs it in spite of its
\* bound, since connect() does not give up (verifyRedisConnection).
StartDecides ==
  <>[]("redis" \in up) => <>(stage \in {"started", "exited"})

=============================================================================
