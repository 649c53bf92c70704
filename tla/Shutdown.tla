------------------------------ MODULE Shutdown ------------------------------
(***************************************************************************)
(* The end of the daemon (daemon.Run, Close and close in                   *)
(* internal/daemon/daemon.go) while requests are being served: the two     *)
(* HTTP servers, ingestion, captive core, the JSON-RPC handler, the        *)
(* database, the preflight worker pool (PreflightPool) and the datastore   *)
(* are closed one after the other, with one grace period for the requests. *)
(*                                                                         *)
(* The request followed is simulateTransaction, which needs most of them:  *)
(* its method goroutine reads the latest ledger from the database and then *)
(* waits for the pool, whose worker reads entries from captive core.  The  *)
(* duration limiters may answer the client before the method returns.      *)
(* What ingestion does is in IngestService; here it runs, or has ended.    *)
(* An error of one step is collected and the next step is taken all the    *)
(* same.                                                                   *)
(***************************************************************************)
EXTENDS PreflightPool

CONSTANTS
    Closers     (* the goroutines that call Daemon.Close: Run, a test      *)

VARIABLES
    stage,      (* the step of close; "running" before, "done" after it    *)
    graceOver,  (* shutdownCtx has expired                                 *)
    request,    (* the HTTP request of each client                         *)
    method,     (* its method goroutine                                    *)
    met,        (* the closed components it has come upon                  *)
    admin,      (* the admin server has a request                          *)
    ingestion,  (* the ingestion goroutine                                 *)
    once,       (* where each call of Daemon.Close stands                  *)
    exited      (* the process has exited by itself                        *)

daemonVars == <<stage, graceOver, request, method, met, admin, ingestion, once, exited>>
allVars == <<vars, daemonVars>>

Stages == <<"server", "admin", "ingest", "core", "handler", "db", "pool", "datastore">>
Closed(s) ==
    \/ stage = "done"
    \/ \E i, j \in DOMAIN Stages : Stages[i] = s /\ Stages[j] = stage /\ i < j

ShutdownInit ==
    /\ Init
    /\ stage = "running"
    /\ graceOver = FALSE
    /\ request = [c \in Callers |-> "none"]
    /\ method = [c \in Callers |-> "none"]
    /\ met = [c \in Callers |-> {}]
    /\ admin = FALSE
    /\ ingestion = "running"
    /\ once = [k \in Closers |-> "idle"]
    /\ exited = FALSE

Meets(c, s) == met' = [met EXCEPT ![c] = IF Closed(s) THEN @ \cup {s} ELSE @]

-----------------------------------------------------------------------------
(***************************************************************************)
(* Requests.                                                               *)
(***************************************************************************)

\* A connection is accepted while the server listens; nothing of its client's
\* last request is left.
Accept(c) ==
    /\ stage = "running"
    /\ method[c] = "none"
    /\ Move(request, c, "none", "accepted")
    /\ met' = [met EXCEPT ![c] = {}]
    /\ UNCHANGED <<vars, stage, graceOver, method, admin, ingestion, once, exited>>

\* The request is read and dispatched by the handler; a closed one refuses it.
Dispatch(c) ==
    /\ Move(request, c, "accepted", IF Closed("handler") THEN "none" ELSE "active")
    /\ method' = [method EXCEPT ![c] = IF Closed("handler") THEN "none" ELSE "read"]
    /\ Meets(c, "handler")
    /\ UNCHANGED <<vars, stage, graceOver, admin, ingestion, once, exited>>

\* The method reads the latest ledger, which fails on the closed database.
ReadLedger(c) ==
    /\ Move(method, c, "read", IF Closed("db") THEN "finish" ELSE "preflight")
    /\ Meets(c, "db")
    /\ UNCHANGED <<vars, stage, graceOver, request, admin, ingestion, once, exited>>

\* The pool's part of the call.
CallPool(c) ==
    /\ method[c] = "preflight"
    /\ CallerStep(c)
    /\ UNCHANGED daemonVars

\* The pool has answered: the method is done and the response is sent, unless
\* the limiter has sent one.
Respond(c) ==
    /\ \/ method[c] = "preflight" /\ NextCall(c)
       \/ method[c] = "finish" /\ UNCHANGED vars
    /\ method' = [method EXCEPT ![c] = "none"]
    /\ request' = [request EXCEPT ![c] = "none"]
    /\ UNCHANGED <<stage, graceOver, met, admin, ingestion, once, exited>>

\* A duration limiter answers; the method goroutine goes on by itself.
LimitExceeded(c) ==
    /\ Move(request, c, "active", "none")
    /\ UNCHANGED <<vars, stage, graceOver, method, met, admin, ingestion, once, exited>>

\* A worker's step; running the simulation reads from core.
WorkPool(w) ==
    /\ WorkerStep(w)
    /\ IF worker[w] = "run" THEN Meets(job[w], "core") ELSE UNCHANGED met
    /\ UNCHANGED <<stage, graceOver, request, method, admin, ingestion, once, exited>>

\* A request of the admin server (metrics, profiles) begins or ends.
AdminRequest ==
    /\ admin \/ ~Closed("server")
    /\ admin' = ~admin
    /\ UNCHANGED <<vars, stage, graceOver, request, method, met, ingestion, once, exited>>

-----------------------------------------------------------------------------
(***************************************************************************)
(* Daemon.Close and close.                                                 *)
(***************************************************************************)
To(s) ==
    /\ stage' = s
    /\ UNCHANGED <<graceOver, request, method, met, admin, ingestion, once, exited>>

\* A signal for Run, or a call from outside.  closeOnce lets one call through.
CallClose(k) ==
    /\ Move(once, k, "idle", "called")
    /\ stage' = IF stage = "running" THEN "server" ELSE stage
    /\ UNCHANGED <<vars, graceOver, request, method, met, admin, ingestion, exited>>

\* Mutant: a flag in place of the sync.Once.
CloseIfFirst(k) ==
    /\ Move(once, k, "called", "returned")
    /\ stage = "done" \/ \E j \in Closers \ {k} : once[j] # "idle"
    /\ UNCHANGED <<vars, stage, graceOver, request, method, met, admin, ingestion, exited>>

\* Every call returns when close has been run.
CloseDaemonReturns(k) ==
    /\ Move(once, k, "called", "returned")
    /\ stage = "done"
    /\ UNCHANGED <<vars, stage, graceOver, request, method, met, admin, ingestion, exited>>

\* Mutant: the listeners are closed, and nobody waits.
CloseServer ==
    /\ stage = "server"
    /\ To("admin")
    /\ UNCHANGED vars

\* Mutant: Shutdown without a deadline.
ShutdownServerForever ==
    /\ stage = "server"
    /\ \A c \in Callers : request[c] = "none"
    /\ To("admin")
    /\ UNCHANGED vars

\* server.Shutdown returns when every connection is idle or at the end of the
\* grace period ...
ShutdownServer ==
    /\ stage = "server"
    /\ graceOver \/ \A c \in Callers : request[c] = "none"
    /\ To("admin")
    /\ UNCHANGED vars

\* ... which the admin server shares.
ShutdownAdminServer ==
    /\ stage = "admin"
    /\ graceOver \/ ~admin
    /\ To("ingest")
    /\ UNCHANGED vars

GraceOver ==
    /\ stage \in {"server", "admin"}
    /\ ~graceOver
    /\ graceOver' = TRUE
    /\ UNCHANGED <<vars, stage, request, method, met, admin, ingestion, once, exited>>

\* ingestService.Close: cancel the context and wait for the goroutine.
CloseIngestion ==
    /\ stage = "ingest"
    /\ ingestion # "running"
    /\ To("core")
    /\ UNCHANGED vars

\* Core, handler, database and datastore are closed where they stand.  (The
\* handler's bridge is external; that it waits for its calls is not relied on.)
CloseNow(s, next) ==
    /\ stage = s
    /\ To(next)
    /\ UNCHANGED vars

\* preflightWorkerPool.Close.
ClosePool ==
    /\ stage = "pool"
    /\ \/ (Close \/ CloseStep) /\ UNCHANGED daemonVars
       \/ closer = "closed" /\ To("datastore") /\ UNCHANGED vars

CloseDaemonStep ==
    \/ ShutdownServer \/ ShutdownAdminServer \/ CloseIngestion
    \/ CloseNow("core", "handler") \/ CloseNow("handler", "db") \/ CloseNow("db", "pool")
    \/ ClosePool
    \/ CloseNow("datastore", "done")

-----------------------------------------------------------------------------
(***************************************************************************)
(* Goroutines of a panic group.                                            *)
(***************************************************************************)

\* Ingestion ends when it is cancelled, or at the end of a load test.
IngestionEnds ==
    /\ ingestion = "running"
    /\ ingestion' = "ended"
    /\ UNCHANGED <<vars, stage, graceOver, request, method, met, admin, once, exited>>

\* Its deferred wg.Done runs before the panic is recovered.
IngestionPanics ==
    /\ ingestion = "running"
    /\ ingestion' = "panicked"
    /\ UNCHANGED <<vars, stage, graceOver, request, method, met, admin, once, exited>>

\* recoverRoutine: the panic is logged, and the process exits.
RecoverRoutine ==
    /\ ingestion = "panicked"
    /\ exited' = TRUE
    /\ UNCHANGED <<vars, stage, graceOver, request, method, met, admin, ingestion, once>>

\* Serve fails while nobody shuts down: fatal.
ServeFails ==
    /\ stage = "running"
    /\ exited' = TRUE
    /\ UNCHANGED <<vars, stage, graceOver, request, method, met, admin, ingestion, once>>

-----------------------------------------------------------------------------
Step ==
    \/ \E c \in Callers :
          Accept(c) \/ Dispatch(c) \/ ReadLedger(c) \/ CallPool(c) \/ Respond(c) \/ LimitExceeded(c)
    \/ \E w \in Workers : WorkPool(w)
    \/ AdminRequest
    \/ \E k \in Closers : CallClose(k) \/ CloseDaemonReturns(k)
    \/ GraceOver \/ CloseDaemonStep
    \/ IngestionEnds \/ IngestionPanics \/ RecoverRoutine \/ ServeFails

ShutdownNext == ~exited /\ Step

\* The workers run and every simulation returns, the timer of the grace period
\* fires, close goes on, the panic group does its work, and ingestion, once it
\* has been cancelled, ends.  Nothing is assumed of clients and of methods.
ShutdownSpec ==
    /\ ShutdownInit /\ [][ShutdownNext]_allVars
    /\ \A w \in Workers : WF_allVars(~exited /\ WorkPool(w))
    /\ WF_allVars(~exited /\ GraceOver)
    /\ WF_allVars(~exited /\ CloseDaemonStep)
    /\ WF_allVars(~exited /\ stage = "ingest" /\ IngestionEnds)
    /\ WF_allVars(~exited /\ RecoverRoutine)

-----------------------------------------------------------------------------
\* "First server.Shutdown closes all open listeners ...  it waits a grace
\* period": until the grace period is over a request whose client still waits
\* never comes upon a component that has been closed, whatever the pool's
\* workers and the limiters are doing.
GracefulForClients ==
    ~graceOver => \A c \in Callers : request[c] # "none" => met[c] = {}

\* When any call of Close has returned, and Run with it, nothing works on the
\* daemon's resources any more: ingestion has stopped and the pool's workers
\* have answered every job they had accepted.
QuietAfterClose ==
    (\E k \in Closers : once[k] = "returned") =>
        /\ ingestion # "running"
        /\ \A w \in Workers : worker[w] = "done"
        /\ requestChan = <<>> /\ \A c \in Callers : caller[c] # "wait"

\* The daemon stops once it has been told to, however long the clients, their
\* methods and profiles take.
ShutdownEnds == stage # "running" ~> stage = "done" \/ exited
=============================================================================
