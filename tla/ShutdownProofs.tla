--------------------------- MODULE ShutdownProofs ---------------------------
(***************************************************************************)
(* Proofs about the preflight worker pool and the daemon's shutdown, for   *)
(* any callers, workers, queue capacity and closers.                       *)
(*                                                                         *)
(* The pool's invariant is proved for the pool alone (Spec); every step of *)
(* the daemon is a step of the pool or leaves it as it is, so the daemon   *)
(* has it too (PoolInDaemon).                                              *)
(***************************************************************************)
EXTENDS Shutdown, TLAPS

PoolTypeOK ==
    /\ caller \in [Callers -> {"idle", "submit", "wait", "returned"}]
    /\ requestChan \in Seq(Callers)
    /\ job \in [Workers -> Callers \cup {NoJob}]
    /\ worker \in [Workers -> {"receive", "run", "deliver", "done"}]
    /\ chanClosed \in BOOLEAN
    /\ closer \in {"idle", "close", "wait", "closed"}

\* A worker has a job from Receive to Deliver.
Busy(w) == job[w] # NoJob
WorkersHaveJobs == \A w \in Workers : worker[w] \in {"run", "deliver"} <=> Busy(w)

\* A worker stops on an empty channel, which then stays empty.
StoppedOnEmpty == \A w \in Workers : worker[w] = "done" => chanClosed /\ requestChan = <<>>

ClosedMeansStopped == closer = "closed" => \A w \in Workers : worker[w] = "done"

PoolInv ==
    /\ PoolTypeOK
    /\ JobsAccounted
    /\ WorkersHaveJobs
    /\ StoppedOnEmpty
    /\ ClosedMeansStopped

-----------------------------------------------------------------------------
(***************************************************************************)
(* The pool.                                                               *)
(***************************************************************************)
LEMMA PoolInitial == Init => PoolInv
  <1>1. Init => PoolTypeOK
    <2>1. <<>> \in Seq(Callers)
      OBVIOUS
    <2>2. Init => /\ caller \in [Callers -> {"idle", "submit", "wait", "returned"}]
                  /\ job \in [Workers -> Callers \cup {NoJob}]
                  /\ worker \in [Workers -> {"receive", "run", "deliver", "done"}]
      BY DEF Init
    <2>3. QED
      BY <2>1, <2>2, Zenon DEF Init, PoolTypeOK
  <1>2. Init => JobsAccounted
    <2>1. ~\E i \in DOMAIN <<>> : TRUE
      OBVIOUS
    <2>2. QED
      BY <2>1, PoolAssumption DEF Init, JobsAccounted
  <1>3. QED
    BY <1>1, <1>2 DEF Init, PoolInv, WorkersHaveJobs, Busy, StoppedOnEmpty, ClosedMeansStopped

\* Steps that move a caller between states in which it does not wait.
LEMMA NotWaitingKeepsInv ==
    ASSUME PoolInv, NEW c \in Callers, caller[c] # "wait",
           NEW to \in {"idle", "submit", "returned"},
           caller' = [caller EXCEPT ![c] = to],
           UNCHANGED <<requestChan, job, worker, isClosed, chanClosed, closer>>
    PROVE  PoolInv'
  <1>1. PoolTypeOK'
    BY DEF PoolInv, PoolTypeOK
  <1>2. \A d \in Callers : caller'[d] = "wait" <=> caller[d] = "wait"
    BY DEF PoolInv, PoolTypeOK
  <1>3. JobsAccounted'
    BY <1>2 DEF PoolInv, JobsAccounted
  <1>4. QED
    BY <1>1, <1>3 DEF PoolInv, WorkersHaveJobs, Busy, StoppedOnEmpty, ClosedMeansStopped

LEMMA SubmitKeepsInv ==
    ASSUME PoolInv, NEW c \in Callers, Submit(c)
    PROVE  PoolInv'
  <1>1. PoolTypeOK'
    BY DEF PoolInv, PoolTypeOK, Submit, Move
  <1>2. /\ Len(requestChan') = Len(requestChan) + 1
        /\ requestChan'[Len(requestChan) + 1] = c
        /\ \A i \in 1..Len(requestChan) : requestChan'[i] = requestChan[i]
        /\ DOMAIN requestChan = 1..Len(requestChan)
        /\ DOMAIN requestChan' = 1..(Len(requestChan) + 1)
        /\ Len(requestChan) \in Nat
    BY DEF PoolInv, PoolTypeOK, Submit
  <1>3. /\ \A i \in 1..Len(requestChan) : requestChan[i] # c
        /\ \A w \in Workers : job[w] # c
    BY <1>2 DEF PoolInv, JobsAccounted, Submit, Move
  <1>4. \A d \in Callers : caller'[d] = "wait" <=> d = c \/ caller[d] = "wait"
    BY DEF PoolInv, PoolTypeOK, Submit, Move
  <1>5. JobsAccounted'
    <2>1. ASSUME NEW d \in Callers
          PROVE  caller'[d] = "wait" <=> \/ \E i \in DOMAIN requestChan' : requestChan'[i] = d
                                         \/ \E w \in Workers : job'[w] = d
      <3>1. (\E i \in DOMAIN requestChan' : requestChan'[i] = d)
               <=> d = c \/ \E i \in DOMAIN requestChan : requestChan[i] = d
        BY <1>2
      <3>2. QED
        BY <1>4, <3>1 DEF PoolInv, JobsAccounted, Submit
    <2>2. \A i, j \in DOMAIN requestChan' : requestChan'[i] = requestChan'[j] => i = j
      BY <1>2, <1>3 DEF PoolInv, JobsAccounted
    <2>3. \A i \in DOMAIN requestChan', w \in Workers : requestChan'[i] # job'[w]
      BY <1>2, <1>3 DEF PoolInv, JobsAccounted, Submit
    <2>4. \A v, w \in Workers : job'[v] = job'[w] /\ job'[v] # NoJob => v = w
      BY DEF PoolInv, JobsAccounted, Submit
    <2>5. QED
      BY <2>1, <2>2, <2>3, <2>4 DEF JobsAccounted
  <1>6. QED
    BY <1>1, <1>5 DEF PoolInv, WorkersHaveJobs, Busy, StoppedOnEmpty, ClosedMeansStopped, Submit, Move

LEMMA ReceiveKeepsInv ==
    ASSUME PoolInv, NEW w \in Workers, Receive(w)
    PROVE  PoolInv'
  <1> DEFINE n == Len(requestChan)
             c == Head(requestChan)
  <1>1. /\ n \in Nat \ {0} /\ c \in Callers /\ c = requestChan[1]
        /\ DOMAIN requestChan = 1..n
        /\ DOMAIN requestChan' = 1..(n - 1)
        /\ \A i \in 1..(n - 1) : requestChan'[i] = requestChan[i + 1]
    BY DEF PoolInv, PoolTypeOK, Receive
  <1>2. PoolTypeOK'
    BY <1>1 DEF PoolInv, PoolTypeOK, Receive, Move
  <1>3. \A v \in Workers : job'[v] = IF v = w THEN c ELSE job[v]
    BY DEF PoolInv, PoolTypeOK, Receive
  <1>4. c # NoJob /\ \A v \in Workers : job[v] # c
    BY <1>1, PoolAssumption DEF PoolInv, JobsAccounted
  <1>5. job[w] = NoJob
    BY DEF PoolInv, WorkersHaveJobs, Busy, Receive, Move
  <1> HIDE DEF n, c
  <1>6. JobsAccounted'
    <2>1. ASSUME NEW d \in Callers
          PROVE  caller'[d] = "wait" <=> \/ \E i \in DOMAIN requestChan' : requestChan'[i] = d
                                         \/ \E v \in Workers : job'[v] = d
      <3>1. (\E i \in DOMAIN requestChan : requestChan[i] = d)
               <=> d = c \/ \E i \in DOMAIN requestChan' : requestChan'[i] = d
        <4>1. ASSUME NEW i \in DOMAIN requestChan, requestChan[i] = d, i # 1
              PROVE  \E k \in DOMAIN requestChan' : requestChan'[k] = d
          <5>1. i - 1 \in 1..(n - 1) /\ requestChan'[i - 1] = requestChan[(i - 1) + 1]
            BY <1>1, <4>1
          <5>2. QED
            BY <1>1, <4>1, <5>1
        <4>2. QED
          BY <1>1, <4>1
      <3>2. (\E v \in Workers : job'[v] = d) <=> d = c \/ \E v \in Workers : job[v] = d
        BY <1>3, <1>5, PoolAssumption
      <3>3. caller' = caller
        BY DEF Receive
      <3>4. QED
        BY <3>1, <3>2, <3>3 DEF PoolInv, JobsAccounted
    <2>2. \A i, j \in DOMAIN requestChan' : requestChan'[i] = requestChan'[j] => i = j
      <3>1. SUFFICES ASSUME NEW i \in 1..(n - 1), NEW j \in 1..(n - 1),
                            requestChan[i + 1] = requestChan[j + 1]
                     PROVE  i = j
        BY <1>1
      <3>2. i + 1 \in DOMAIN requestChan /\ j + 1 \in DOMAIN requestChan
        BY <1>1
      <3>3. i + 1 = j + 1
        BY <3>1, <3>2 DEF PoolInv, JobsAccounted
      <3>4. QED
        BY <1>1, <3>3
    <2>3. \A i \in DOMAIN requestChan', v \in Workers : requestChan'[i] # job'[v]
      <3>1. SUFFICES ASSUME NEW i \in 1..(n - 1), NEW v \in Workers
                     PROVE  requestChan[i + 1] # job'[v]
        BY <1>1
      <3>2. i + 1 \in DOMAIN requestChan /\ 1 \in DOMAIN requestChan /\ i + 1 # 1
        BY <1>1
      <3>3. requestChan[i + 1] # requestChan[1] /\ requestChan[i + 1] # job[v]
        BY <3>2 DEF PoolInv, JobsAccounted
      <3>4. QED
        BY <1>1, <1>3, <3>3
    <2>4. \A u, v \in Workers : job'[u] = job'[v] /\ job'[u] # NoJob => u = v
      BY <1>3, <1>4 DEF PoolInv, JobsAccounted
    <2>5. QED
      BY <2>1, <2>2, <2>3, <2>4 DEF JobsAccounted
  <1>7. WorkersHaveJobs'
    BY <1>3, <1>4 DEF PoolInv, PoolTypeOK, WorkersHaveJobs, Busy, Receive, Move
  <1>8. StoppedOnEmpty' /\ ClosedMeansStopped'
    BY DEF PoolInv, PoolTypeOK, StoppedOnEmpty, ClosedMeansStopped, Receive, Move
  <1>9. QED
    BY <1>2, <1>6, <1>7, <1>8 DEF PoolInv

LEMMA DeliverKeepsInv ==
    ASSUME PoolInv, NEW w \in Workers, Deliver(w)
    PROVE  PoolInv'
  <1> DEFINE c == job[w]
  <1>1. c \in Callers /\ c # NoJob
    BY DEF PoolInv, PoolTypeOK, WorkersHaveJobs, Busy, Deliver, Move
  <1>2. PoolTypeOK'
    BY DEF PoolInv, PoolTypeOK, Deliver, Move
  <1>3. \A v \in Workers : job'[v] = IF v = w THEN NoJob ELSE job[v]
    BY DEF PoolInv, PoolTypeOK, Deliver
  <1>4. /\ \A v \in Workers : job[v] = c => v = w
        /\ \A i \in DOMAIN requestChan : requestChan[i] # c
    BY <1>1 DEF PoolInv, JobsAccounted
  <1>5. \A d \in Callers : caller'[d] = "wait" <=> d # c /\ caller[d] = "wait"
    BY <1>1 DEF PoolInv, PoolTypeOK, Deliver
  <1>6. \A i \in DOMAIN requestChan : requestChan[i] \in Callers
    BY DEF PoolInv, PoolTypeOK
  <1> HIDE DEF c
  <1>7. JobsAccounted'
    <2>1. requestChan' = requestChan
      BY DEF Deliver
    <2>2. ASSUME NEW d \in Callers
          PROVE  (\E v \in Workers : job'[v] = d) <=> d # c /\ \E v \in Workers : job[v] = d
      BY <1>3, <1>4, PoolAssumption DEF c
    <2>3. \A d \in Callers :
             caller'[d] = "wait" <=> \/ \E i \in DOMAIN requestChan : requestChan[i] = d
                                     \/ \E v \in Workers : job'[v] = d
      BY <1>4, <1>5, <2>2 DEF PoolInv, JobsAccounted
    <2>4. /\ \A u, v \in Workers : job'[u] = job'[v] /\ job'[u] # NoJob => u = v
          /\ \A i \in DOMAIN requestChan, v \in Workers : requestChan[i] # job'[v]
      BY <1>3, <1>6, PoolAssumption DEF PoolInv, JobsAccounted
    <2>5. QED
      BY <2>1, <2>3, <2>4 DEF PoolInv, JobsAccounted
  <1>8. WorkersHaveJobs'
    BY <1>3 DEF PoolInv, PoolTypeOK, WorkersHaveJobs, Busy, Deliver, Move
  <1>9. StoppedOnEmpty' /\ ClosedMeansStopped'
    BY DEF PoolInv, PoolTypeOK, StoppedOnEmpty, ClosedMeansStopped, Deliver, Move
  <1>10. QED
    BY <1>2, <1>7, <1>8, <1>9 DEF PoolInv

\* Steps that change neither callers, nor the channel's content, nor jobs.
LEMMA NoJobMovesKeepsInv ==
    ASSUME PoolInv, PoolTypeOK', UNCHANGED <<caller, requestChan, job>>,
           WorkersHaveJobs', StoppedOnEmpty', ClosedMeansStopped'
    PROVE  PoolInv'
  BY DEF PoolInv, JobsAccounted

LEMMA PoolStep == PoolInv /\ [Next]_vars => PoolInv'
  <1> SUFFICES ASSUME PoolInv, [Next]_vars PROVE PoolInv'
    OBVIOUS
  <1>1. ASSUME NEW c \in Callers, GetPreflight(c) PROVE PoolInv'
    <2>1. caller[c] # "wait"
      BY <1>1 DEF GetPreflight, Move
    <2>2. CASE isClosed
      BY <1>1, <2>1, <2>2, NotWaitingKeepsInv DEF GetPreflight, Move
    <2>3. CASE ~isClosed
      BY <1>1, <2>1, <2>3, NotWaitingKeepsInv DEF GetPreflight, Move
    <2>4. QED
      BY <2>2, <2>3
  <1>2. ASSUME NEW c \in Callers, Submit(c) PROVE PoolInv'
    BY <1>2, SubmitKeepsInv
  <1>3. ASSUME NEW c \in Callers, SendOnClosedChannel(c) PROVE PoolInv'
    BY <1>3, NotWaitingKeepsInv DEF SendOnClosedChannel, Move
  <1>4. ASSUME NEW c \in Callers, ContextDone(c) PROVE PoolInv'
    BY <1>4, NotWaitingKeepsInv DEF ContextDone, Move
  <1>5. ASSUME NEW c \in Callers, QueueFull(c) PROVE PoolInv'
    BY <1>5, NotWaitingKeepsInv DEF QueueFull, Move
  <1>6. ASSUME NEW c \in Callers, NextCall(c) PROVE PoolInv'
    BY <1>6, NotWaitingKeepsInv DEF NextCall, Move
  <1>7. ASSUME NEW w \in Workers, Receive(w) PROVE PoolInv'
    BY <1>7, ReceiveKeepsInv
  <1>8. ASSUME NEW w \in Workers, Run(w) PROVE PoolInv'
    BY <1>8, NoJobMovesKeepsInv
       DEF Run, Move, PoolInv, PoolTypeOK, WorkersHaveJobs, Busy, StoppedOnEmpty, ClosedMeansStopped
  <1>9. ASSUME NEW w \in Workers, Deliver(w) PROVE PoolInv'
    BY <1>9, DeliverKeepsInv
  <1>10. ASSUME NEW w \in Workers, Exit(w) PROVE PoolInv'
    BY <1>10, NoJobMovesKeepsInv
       DEF Exit, Move, PoolInv, PoolTypeOK, WorkersHaveJobs, Busy, StoppedOnEmpty, ClosedMeansStopped
  <1>11. CASE Close
    BY <1>11, NoJobMovesKeepsInv
       DEF Close, PoolInv, PoolTypeOK, WorkersHaveJobs, Busy, StoppedOnEmpty, ClosedMeansStopped
  <1>12. CASE CloseRequestChan
    BY <1>12, NoJobMovesKeepsInv
       DEF CloseRequestChan, PoolInv, PoolTypeOK, WorkersHaveJobs, Busy, StoppedOnEmpty,
           ClosedMeansStopped
  <1>13. CASE CloseReturns
    BY <1>13, NoJobMovesKeepsInv
       DEF CloseReturns, PoolInv, PoolTypeOK, WorkersHaveJobs, Busy, StoppedOnEmpty,
           ClosedMeansStopped
  <1>14. CASE UNCHANGED vars
    BY <1>14, NoJobMovesKeepsInv
       DEF vars, PoolInv, PoolTypeOK, WorkersHaveJobs, Busy, StoppedOnEmpty, ClosedMeansStopped
  <1>15. QED
    BY <1>1, <1>2, <1>3, <1>4, <1>5, <1>6, <1>7, <1>8, <1>9, <1>10, <1>11, <1>12, <1>13, <1>14
       DEF Next, CallerStep, WorkerStep, CloseStep

-----------------------------------------------------------------------------
(***************************************************************************)
(* The pool inside the daemon.                                             *)
(***************************************************************************)
LEMMA DaemonStepIsPoolStep == [ShutdownNext]_allVars => [Next]_vars
  <1> SUFFICES ASSUME [ShutdownNext]_allVars PROVE Next \/ UNCHANGED vars
    OBVIOUS
  <1>1. ASSUME NEW c \in Callers,
               \/ Accept(c) \/ Dispatch(c) \/ ReadLedger(c) \/ CallPool(c) \/ Respond(c)
               \/ LimitExceeded(c)
        PROVE  Next \/ UNCHANGED vars
    BY <1>1 DEF Accept, Dispatch, ReadLedger, CallPool, Respond, LimitExceeded, Next
  <1>2. ASSUME NEW w \in Workers, WorkPool(w) PROVE Next
    BY <1>2 DEF WorkPool, Next
  <1>3. ASSUME NEW k \in Closers, CallClose(k) \/ CloseDaemonReturns(k) PROVE UNCHANGED vars
    BY <1>3 DEF CallClose, CloseDaemonReturns
  <1>4. CASE CloseDaemonStep
    BY <1>4 DEF CloseDaemonStep, ShutdownServer, ShutdownAdminServer, CloseIngestion, CloseNow,
                ClosePool, Next
  <1>5. CASE AdminRequest \/ GraceOver \/ IngestionEnds \/ IngestionPanics \/ RecoverRoutine
             \/ ServeFails
    BY <1>5 DEF AdminRequest, GraceOver, IngestionEnds, IngestionPanics, RecoverRoutine, ServeFails
  <1>6. CASE UNCHANGED allVars
    BY <1>6 DEF allVars
  <1>7. QED
    BY <1>1, <1>2, <1>3, <1>4, <1>5, <1>6 DEF ShutdownNext, Step

\* The jobs of the pool are accounted for, for the pool by itself ...
THEOREM PoolJobsAreAccounted == Spec => []JobsAccounted
  <1>1. PoolInv => JobsAccounted
    BY DEF PoolInv
  <1>2. QED
    BY <1>1, PoolInitial, PoolStep, PTL DEF Spec

LEMMA PoolInDaemon == ShutdownSpec => []PoolInv
  <1>1. ShutdownInit => PoolInv
    BY PoolInitial DEF ShutdownInit
  <1>2. PoolInv /\ [ShutdownNext]_allVars => PoolInv'
    BY PoolStep, DaemonStepIsPoolStep
  <1>3. QED
    BY <1>1, <1>2, PTL DEF ShutdownSpec

\* ... and in a daemon that serves requests, shuts down and crashes: a caller
\* of GetPreflight waits exactly when the channel or one worker has its job.
THEOREM JobsAreAccounted == ShutdownSpec => []JobsAccounted
  <1>1. PoolInv => JobsAccounted
    BY DEF PoolInv
  <1>2. QED
    BY <1>1, PoolInDaemon, PTL

-----------------------------------------------------------------------------
(***************************************************************************)
(* The shutdown.                                                           *)
(***************************************************************************)
StageNames ==
    {"running", "server", "admin", "ingest", "core", "handler", "db", "pool", "datastore", "done"}

DaemonTypeOK ==
    /\ stage \in StageNames
    /\ request \in [Callers -> {"none", "accepted", "active"}]
    /\ met \in [Callers -> SUBSET StageNames]
    /\ once \in [Closers -> {"idle", "called", "returned"}]

\* The server's Shutdown has returned in time: no client waits any more.
ServerDrained ==
    ~graceOver /\ stage \notin {"running", "server"} => \A c \in Callers : request[c] = "none"

IngestionStopped ==
    stage \notin {"running", "server", "admin", "ingest"} => ingestion # "running"

PoolStopped == stage \in {"datastore", "done"} => closer = "closed"

ReturnedWhenDone == \A k \in Closers : once[k] = "returned" => stage = "done"

DaemonInv ==
    /\ DaemonTypeOK
    /\ ServerDrained
    /\ GracefulForClients
    /\ IngestionStopped
    /\ PoolStopped
    /\ ReturnedWhenDone

LEMMA DaemonInitial == ShutdownInit => DaemonInv
  BY DEF ShutdownInit, DaemonInv, DaemonTypeOK, StageNames, ServerDrained, GracefulForClients,
         IngestionStopped, PoolStopped, ReturnedWhenDone

\* Nothing is closed before the server's Shutdown has returned.
LEMMA NothingClosedEarly ==
    ASSUME stage \in {"running", "server"}, NEW s PROVE ~Closed(s)
  BY DEF Closed, Stages

\* Coming upon a component: while its client waits, none is closed in time.
LEMMA MeetsIsGraceful ==
    ASSUME DaemonInv, NEW c \in Callers, NEW s \in StageNames, Meets(c, s),
           UNCHANGED <<stage, graceOver>>,
           \A d \in Callers : request'[d] # "none" => request[d] # "none"
    PROVE  /\ met' \in [Callers -> SUBSET StageNames]
           /\ GracefulForClients'
           /\ ServerDrained'
  <1>1. met' \in [Callers -> SUBSET StageNames]
    BY DEF DaemonInv, DaemonTypeOK, Meets
  <1>2. ServerDrained'
    BY DEF DaemonInv, ServerDrained
  <1>3. CASE stage \in {"running", "server"}
    <2>1. met' = met
      BY <1>3, NothingClosedEarly DEF Meets, DaemonInv, DaemonTypeOK
    <2>2. QED
      BY <1>1, <1>2, <2>1 DEF DaemonInv, GracefulForClients
  <1>4. CASE stage \notin {"running", "server"}
    BY <1>1, <1>2, <1>4 DEF ServerDrained, GracefulForClients
  <1>5. QED
    BY <1>3, <1>4

\* What close and the panic group do to a request: nothing.
LEMMA RequestsKept ==
    ASSUME DaemonInv, UNCHANGED <<request, met, graceOver>>,
           stage' \in StageNames,
           \/ stage' = stage
           \/ stage' = "server"
           \/ graceOver \/ \A c \in Callers : request[c] = "none"
    PROVE  ServerDrained' /\ GracefulForClients'
  BY DEF DaemonInv, ServerDrained, GracefulForClients

\* The last two clauses, when close does not move.
LEMMA StageKept ==
    ASSUME DaemonInv, PoolInv, UNCHANGED stage, PoolInv',
           closer = "closed" => closer' = "closed",
           ingestion # "running" => ingestion' # "running",
           UNCHANGED once
    PROVE  IngestionStopped' /\ PoolStopped' /\ ReturnedWhenDone'
  BY DEF DaemonInv, IngestionStopped, PoolStopped, ReturnedWhenDone

LEMMA PoolStaysClosed == PoolInv /\ [Next]_vars => (closer = "closed" => closer' = "closed")
  BY DEF Next, vars, CallerStep, WorkerStep, CloseStep, GetPreflight, Submit, SendOnClosedChannel,
         ContextDone, QueueFull, NextCall, Receive, Run, Deliver, Exit, Close, CloseRequestChan,
         CloseReturns

LEMMA DaemonStep == PoolInv /\ DaemonInv /\ [ShutdownNext]_allVars => DaemonInv'
  <1> SUFFICES ASSUME PoolInv, DaemonInv, [ShutdownNext]_allVars PROVE DaemonInv'
    OBVIOUS
  <1>0. PoolInv' /\ (closer = "closed" => closer' = "closed")
    BY DaemonStepIsPoolStep, PoolStep, PoolStaysClosed
  <1>1. ASSUME NEW c \in Callers, Accept(c) PROVE DaemonInv'
    <2>1. DaemonTypeOK'
      BY <1>1 DEF Accept, Move, DaemonInv, DaemonTypeOK
    <2>2. ServerDrained' /\ GracefulForClients'
      BY <1>1 DEF Accept, Move, DaemonInv, DaemonTypeOK, ServerDrained, GracefulForClients
    <2>3. QED
      BY <1>0, <1>1, <2>1, <2>2, StageKept DEF Accept, DaemonInv
  <1>2. ASSUME NEW c \in Callers, Dispatch(c) PROVE DaemonInv'
    <2>1. \A d \in Callers : request'[d] # "none" => request[d] # "none"
      BY <1>2 DEF Dispatch, Move, DaemonInv, DaemonTypeOK
    <2>2. request' \in [Callers -> {"none", "accepted", "active"}]
      BY <1>2 DEF Dispatch, Move, DaemonInv, DaemonTypeOK
    <2>3. met' \in [Callers -> SUBSET StageNames] /\ ServerDrained' /\ GracefulForClients'
      BY <1>2, <2>1, MeetsIsGraceful DEF Dispatch, StageNames
    <2>4. QED
      BY <1>0, <1>2, <2>2, <2>3, StageKept DEF Dispatch, DaemonInv, DaemonTypeOK
  <1>3. ASSUME NEW c \in Callers, ReadLedger(c) PROVE DaemonInv'
    <2>1. met' \in [Callers -> SUBSET StageNames] /\ ServerDrained' /\ GracefulForClients'
      BY <1>3, MeetsIsGraceful DEF ReadLedger, StageNames
    <2>2. QED
      BY <1>0, <1>3, <2>1, StageKept DEF ReadLedger, DaemonInv, DaemonTypeOK
  <1>4. ASSUME NEW c \in Callers, CallPool(c) PROVE DaemonInv'
    <2>1. UNCHANGED daemonVars
      BY <1>4 DEF CallPool
    <2>2. QED
      BY <1>0, <2>1, StageKept, RequestsKept DEF daemonVars, DaemonInv, DaemonTypeOK
  <1>5. ASSUME NEW c \in Callers, Respond(c) \/ LimitExceeded(c) PROVE DaemonInv'
    <2>1. request' = [request EXCEPT ![c] = "none"]
      BY <1>5 DEF Respond, LimitExceeded, Move
    <2>2. UNCHANGED <<stage, graceOver, met, ingestion, once>>
      BY <1>5 DEF Respond, LimitExceeded
    <2>3. DaemonTypeOK' /\ ServerDrained' /\ GracefulForClients'
      BY <2>1, <2>2 DEF DaemonInv, DaemonTypeOK, ServerDrained, GracefulForClients
    <2>4. QED
      BY <1>0, <2>2, <2>3, StageKept DEF DaemonInv
  <1>6. ASSUME NEW w \in Workers, WorkPool(w) PROVE DaemonInv'
    <2>1. UNCHANGED <<stage, graceOver, request, ingestion, once>>
      BY <1>6 DEF WorkPool
    <2>2. DaemonTypeOK' /\ ServerDrained' /\ GracefulForClients'
      <3>1. CASE worker[w] = "run"
        <4>1. job[w] \in Callers
          BY <3>1 DEF PoolInv, PoolTypeOK, WorkersHaveJobs, Busy
        <4>2. Meets(job[w], "core")
          BY <1>6, <3>1 DEF WorkPool
        <4>3. met' \in [Callers -> SUBSET StageNames] /\ ServerDrained' /\ GracefulForClients'
          BY <2>1, <4>1, <4>2, MeetsIsGraceful DEF StageNames
        <4>4. QED
          BY <2>1, <4>3 DEF DaemonInv, DaemonTypeOK
      <3>2. CASE worker[w] # "run"
        <4>1. met' = met
          BY <1>6, <3>2 DEF WorkPool
        <4>2. QED
          BY <2>1, <4>1, RequestsKept DEF DaemonInv, DaemonTypeOK
      <3>3. QED
        BY <3>1, <3>2
    <2>3. QED
      BY <1>0, <2>1, <2>2, StageKept DEF DaemonInv
  <1>7. ASSUME NEW k \in Closers, CallClose(k) PROVE DaemonInv'
    <2>1. UNCHANGED <<request, met, graceOver, ingestion, closer>>
      BY <1>7 DEF CallClose, vars
    <2>2. /\ once[k] = "idle"
          /\ once' = [once EXCEPT ![k] = "called"]
          /\ stage' = IF stage = "running" THEN "server" ELSE stage
      BY <1>7 DEF CallClose, Move
    <2>3. DaemonTypeOK'
      BY <2>1, <2>2 DEF DaemonInv, DaemonTypeOK, StageNames
    <2>4. ServerDrained' /\ GracefulForClients'
      BY <2>1, <2>2, <2>3, RequestsKept DEF DaemonTypeOK
    <2>5. IngestionStopped' /\ PoolStopped'
      BY <2>1, <2>2 DEF DaemonInv, IngestionStopped, PoolStopped
    <2>6. ReturnedWhenDone'
      BY <2>2 DEF DaemonInv, DaemonTypeOK, ReturnedWhenDone
    <2>7. QED
      BY <2>3, <2>4, <2>5, <2>6 DEF DaemonInv
  <1>8. ASSUME NEW k \in Closers, CloseDaemonReturns(k) PROVE DaemonInv'
    <2>1. UNCHANGED <<stage, request, met, graceOver, ingestion, closer>>
      BY <1>8 DEF CloseDaemonReturns, vars
    <2>2. stage = "done" /\ once' = [once EXCEPT ![k] = "returned"]
      BY <1>8 DEF CloseDaemonReturns, Move
    <2>3. DaemonTypeOK'
      BY <2>1, <2>2 DEF DaemonInv, DaemonTypeOK
    <2>4. QED
      BY <2>1, <2>2, <2>3, RequestsKept
         DEF DaemonInv, DaemonTypeOK, IngestionStopped, PoolStopped, ReturnedWhenDone
  <1>9. CASE CloseDaemonStep
    <2>1. UNCHANGED <<graceOver, request, met, ingestion, once>>
      BY <1>9 DEF CloseDaemonStep, ShutdownServer, ShutdownAdminServer, CloseIngestion, CloseNow,
                  ClosePool, To, daemonVars
    <2>2. \/ stage' = stage
          \/ /\ stage = "server" /\ stage' = "admin"
             /\ graceOver \/ \A c \in Callers : request[c] = "none"
          \/ stage = "admin" /\ stage' = "ingest"
          \/ stage = "ingest" /\ stage' = "core" /\ ingestion # "running"
          \/ stage = "core" /\ stage' = "handler"
          \/ stage = "handler" /\ stage' = "db"
          \/ stage = "db" /\ stage' = "pool"
          \/ stage = "pool" /\ stage' = "datastore" /\ closer = "closed"
          \/ stage = "datastore" /\ stage' = "done"
      BY <1>9 DEF CloseDaemonStep, ShutdownServer, ShutdownAdminServer, CloseIngestion, CloseNow,
                  ClosePool, To, daemonVars
    <2>3. DaemonTypeOK'
      BY <2>1, <2>2 DEF DaemonInv, DaemonTypeOK, StageNames
    <2>4. ServerDrained' /\ GracefulForClients'
      BY <2>1, <2>2 DEF DaemonInv, ServerDrained, GracefulForClients
    <2>5. IngestionStopped' /\ ReturnedWhenDone'
      BY <2>1, <2>2 DEF DaemonInv, IngestionStopped, ReturnedWhenDone
    <2>6. PoolStopped'
      BY <1>0, <2>2 DEF DaemonInv, PoolStopped
    <2>7. QED
      BY <2>3, <2>4, <2>5, <2>6 DEF DaemonInv
  <1>10. CASE AdminRequest \/ IngestionEnds \/ IngestionPanics \/ RecoverRoutine \/ ServeFails
    <2>1. UNCHANGED <<stage, graceOver, request, met, once>>
      BY <1>10 DEF AdminRequest, IngestionEnds, IngestionPanics, RecoverRoutine, ServeFails
    <2>2. ingestion # "running" => ingestion' # "running"
      BY <1>10 DEF AdminRequest, IngestionEnds, IngestionPanics, RecoverRoutine, ServeFails
    <2>3. QED
      BY <1>0, <2>1, <2>2, StageKept, RequestsKept DEF DaemonInv, DaemonTypeOK
  <1>11. CASE GraceOver
    <2>1. graceOver' = TRUE /\ UNCHANGED <<stage, request, met, ingestion, once>>
      BY <1>11 DEF GraceOver
    <2>2. ServerDrained' /\ GracefulForClients'
      BY <2>1 DEF ServerDrained, GracefulForClients
    <2>3. QED
      BY <1>0, <2>1, <2>2, StageKept DEF DaemonInv, DaemonTypeOK
  <1>12. CASE UNCHANGED allVars
    <2>1. UNCHANGED <<stage, graceOver, request, met, ingestion, once>>
      BY <1>12 DEF allVars, daemonVars
    <2>2. QED
      BY <1>0, <2>1, StageKept, RequestsKept DEF DaemonInv, DaemonTypeOK
  <1>13. QED
    BY <1>1, <1>2, <1>3, <1>4, <1>5, <1>6, <1>7, <1>8, <1>9, <1>10, <1>11, <1>12
       DEF ShutdownNext, Step

LEMMA InvInDaemon == ShutdownSpec => [](PoolInv /\ DaemonInv)
  <1>1. ShutdownInit => DaemonInv
    BY DaemonInitial
  <1>2. QED
    BY <1>1, DaemonStep, PoolInDaemon, PTL DEF ShutdownSpec

\* Within the grace period a client that waits for its response never gets one
\* that was made with a closed component.
THEOREM ShutdownIsGraceful == ShutdownSpec => []GracefulForClients
  <1>1. DaemonInv => GracefulForClients
    BY DEF DaemonInv
  <1>2. QED
    BY <1>1, InvInDaemon, PTL

\* When a call of Close has returned, ingestion and the pool's workers have
\* stopped, and every job the pool had accepted has been answered.
THEOREM CloseLeavesQuiet == ShutdownSpec => []QuietAfterClose
  <1>1. ASSUME PoolInv, DaemonInv PROVE QuietAfterClose
    <2> SUFFICES ASSUME NEW k \in Closers, once[k] = "returned"
                 PROVE  /\ ingestion # "running"
                        /\ \A w \in Workers : worker[w] = "done"
                        /\ requestChan = <<>> /\ \A c \in Callers : caller[c] # "wait"
      BY DEF QuietAfterClose
    <2>1. stage = "done" /\ closer = "closed" /\ ingestion # "running"
      BY <1>1 DEF DaemonInv, ReturnedWhenDone, PoolStopped, IngestionStopped
    <2>2. \A w \in Workers : worker[w] = "done"
      BY <1>1, <2>1 DEF PoolInv, ClosedMeansStopped
    <2>3. requestChan = <<>>
      BY <1>1, <2>2, PoolAssumption DEF PoolInv, StoppedOnEmpty
    <2>4. \A w \in Workers : job[w] = NoJob
      BY <1>1, <2>2 DEF PoolInv, WorkersHaveJobs, Busy
    <2>5. ~\E i \in DOMAIN <<>> : TRUE
      OBVIOUS
    <2>6. \A c \in Callers : caller[c] # "wait"
      BY <1>1, <2>3, <2>4, <2>5, PoolAssumption DEF PoolInv, JobsAccounted
    <2>7. QED
      BY <2>1, <2>2, <2>3, <2>6
  <1>2. QED
    BY <1>1, InvInDaemon, PTL
=============================================================================
