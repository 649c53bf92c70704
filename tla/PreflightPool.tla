---------------------------- MODULE PreflightPool ----------------------------
(***************************************************************************)
(* The worker pool that runs transaction simulations                       *)
(* (internal/preflight/pool.go).  A caller checks that the pool is open,   *)
(* tries once to put its job into a buffered channel, and then waits for   *)
(* the result on a channel of its own that has no buffer.  Close closes    *)
(* the job channel and waits for the workers, which drain it first.  The   *)
(* simulation itself (a Rust library) is external; metrics are left out.   *)
(*                                                                         *)
(* A job stands for the request that sent it.  A caller's context may end  *)
(* at any time.  Sending to the closed channel panics; the panic is        *)
(* recovered by the duration limiter of the method (RequestLimits).        *)
(***************************************************************************)
EXTENDS Naturals, Sequences, FiniteSets

CONSTANTS
    Callers,            (* calls of GetPreflight at the same time          *)
    Workers,            (* worker goroutines                               *)
    JobQueueCapacity,   (* buffer of requestChan                           *)
    NoJob               (* a worker that waits for a job                   *)

ASSUME PoolAssumption ==
    /\ IsFiniteSet(Callers)
    /\ IsFiniteSet(Workers) /\ Workers # {}
    /\ JobQueueCapacity \in Nat \ {0}
    /\ NoJob \notin Callers

VARIABLES
    caller,       (* where each call of GetPreflight stands                *)
    requestChan,  (* the jobs in the channel                               *)
    job,          (* the job of each worker                                *)
    worker,       (* where each worker stands                              *)
    isClosed,     (* the atomic flag                                       *)
    chanClosed,   (* requestChan has been closed                           *)
    closer        (* where Close stands                                    *)

vars == <<caller, requestChan, job, worker, isClosed, chanClosed, closer>>

Init ==
    /\ caller = [c \in Callers |-> "idle"]
    /\ requestChan = <<>>
    /\ job = [w \in Workers |-> NoJob]
    /\ worker = [w \in Workers |-> "receive"]
    /\ isClosed = FALSE
    /\ chanClosed = FALSE
    /\ closer = "idle"

Move(p, x, from, to) == p[x] = from /\ p' = [p EXCEPT ![x] = to]

-----------------------------------------------------------------------------
(***************************************************************************)
(* WorkerPool.GetPreflight.                                                *)
(***************************************************************************)

\* The flag is read; a closed pool is an error.
GetPreflight(c) ==
    /\ Move(caller, c, "idle", IF isClosed THEN "returned" ELSE "submit")
    /\ UNCHANGED <<requestChan, job, worker, isClosed, chanClosed, closer>>

\* The select sends the job: the caller waits for its result.
Submit(c) ==
    /\ ~chanClosed
    /\ Len(requestChan) < JobQueueCapacity
    /\ Move(caller, c, "submit", "wait")
    /\ requestChan' = Append(requestChan, c)
    /\ UNCHANGED <<job, worker, isClosed, chanClosed, closer>>

\* The select panics on the channel that was closed after the flag was read.
SendOnClosedChannel(c) ==
    /\ chanClosed
    /\ Move(caller, c, "submit", "returned")
    /\ UNCHANGED <<requestChan, job, worker, isClosed, chanClosed, closer>>

\* Mutant: a caller that waits for its result gives up with its context.
ContextDoneWhileWaiting(c) ==
    /\ caller[c] \in {"submit", "wait"}
    /\ caller' = [caller EXCEPT ![c] = "returned"]
    /\ UNCHANGED <<requestChan, job, worker, isClosed, chanClosed, closer>>

\* The select sees the end of the context ...
ContextDone(c) ==
    /\ Move(caller, c, "submit", "returned")
    /\ UNCHANGED <<requestChan, job, worker, isClosed, chanClosed, closer>>

\* ... or takes its default: ErrPreflightQueueFull.
QueueFull(c) ==
    /\ ~chanClosed
    /\ Len(requestChan) >= JobQueueCapacity
    /\ Move(caller, c, "submit", "returned")
    /\ UNCHANGED <<requestChan, job, worker, isClosed, chanClosed, closer>>

\* The handler goroutine is done with the call; another one may come.
NextCall(c) ==
    /\ Move(caller, c, "returned", "idle")
    /\ UNCHANGED <<requestChan, job, worker, isClosed, chanClosed, closer>>

-----------------------------------------------------------------------------
(***************************************************************************)
(* WorkerPool.work: one turn of the loop is Receive, Run and Deliver.      *)
(***************************************************************************)

Receive(w) ==
    /\ requestChan # <<>>
    /\ Move(worker, w, "receive", "run")
    /\ job' = [job EXCEPT ![w] = Head(requestChan)]
    /\ requestChan' = Tail(requestChan)
    /\ UNCHANGED <<caller, isClosed, chanClosed, closer>>

\* The simulation returns, with a result or an error.
Run(w) ==
    /\ Move(worker, w, "run", "deliver")
    /\ UNCHANGED <<caller, requestChan, job, isClosed, chanClosed, closer>>

\* The result is handed to the caller, which waits for it and returns.
Deliver(w) ==
    /\ Move(worker, w, "deliver", "receive")
    /\ caller[job[w]] = "wait"
    /\ caller' = [caller EXCEPT ![job[w]] = "returned"]
    /\ job' = [job EXCEPT ![w] = NoJob]
    /\ UNCHANGED <<requestChan, isClosed, chanClosed, closer>>

\* The loop over the channel ends when it is closed and empty.
Exit(w) ==
    /\ chanClosed /\ requestChan = <<>>
    /\ Move(worker, w, "receive", "done")
    /\ UNCHANGED <<caller, requestChan, job, isClosed, chanClosed, closer>>

-----------------------------------------------------------------------------
(***************************************************************************)
(* WorkerPool.Close.                                                       *)
(***************************************************************************)

\* The compare-and-swap of the flag: one call of Close wins.
Close ==
    /\ closer = "idle"
    /\ isClosed' = TRUE
    /\ closer' = "close"
    /\ UNCHANGED <<caller, requestChan, job, worker, chanClosed>>

CloseRequestChan ==
    /\ closer = "close"
    /\ chanClosed' = TRUE
    /\ closer' = "wait"
    /\ UNCHANGED <<caller, requestChan, job, worker, isClosed>>

\* wg.Wait returns.
CloseReturns ==
    /\ closer = "wait"
    /\ \A w \in Workers : worker[w] = "done"
    /\ closer' = "closed"
    /\ UNCHANGED <<caller, requestChan, job, worker, isClosed, chanClosed>>

CallerStep(c) ==
    GetPreflight(c) \/ Submit(c) \/ SendOnClosedChannel(c) \/ ContextDone(c) \/ QueueFull(c)

WorkerStep(w) == Receive(w) \/ Run(w) \/ Deliver(w) \/ Exit(w)

CloseStep == CloseRequestChan \/ CloseReturns

Next ==
    \/ \E c \in Callers : CallerStep(c) \/ NextCall(c)
    \/ \E w \in Workers : WorkerStep(w)
    \/ Close \/ CloseStep

Spec == Init /\ [][Next]_vars

-----------------------------------------------------------------------------
\* A caller waits exactly when its job is in the channel or with a worker, and
\* it is there once: no result goes to a caller that has left, no worker is
\* stuck on a result nobody takes, and no job is run twice.
JobsAccounted ==
    /\ \A c \in Callers :
          caller[c] = "wait" <=> \/ \E i \in DOMAIN requestChan : requestChan[i] = c
                                \/ \E w \in Workers : job[w] = c
    /\ \A i, j \in DOMAIN requestChan : requestChan[i] = requestChan[j] => i = j
    /\ \A v, w \in Workers : job[v] = job[w] /\ job[v] # NoJob => v = w
    /\ \A i \in DOMAIN requestChan, w \in Workers : requestChan[i] # job[w]
=============================================================================
