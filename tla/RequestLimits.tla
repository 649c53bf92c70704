--------------------------- MODULE RequestLimits ---------------------------
(***************************************************************************)
(* What surrounds every JSON-RPC method (internal/network, wired together  *)
(* in internal/jsonrpc.go).  A request passes, from the outside in,        *)
(*   - the HTTP duration limiter, which starts a goroutine for the rest    *)
(*     and answers 504 when it takes too long;                             *)
(*   - the global backlog queue limiter, which counts the requests in it   *)
(*     and answers 503 above its limit;                                    *)
(*   - the JSON-RPC duration limiter of the method, which starts another   *)
(*     goroutine and answers -32001 when that takes too long;              *)
(*   - the backlog queue limiter of the method;                            *)
(*   - the method's handler.                                               *)
(* A goroutine whose limiter gave up on it keeps running and keeps its     *)
(* queue slots.  Timers fire at any time.  One method is modelled; log     *)
(* lines, the warning threshold and the gauges are left out.               *)
(***************************************************************************)
EXTENDS Naturals, FiniteSets

CONSTANTS
    Requests,       (* requests in flight at the same time                 *)
    GlobalLimit,    (* limit of the HTTP backlog queue limiter             *)
    MethodLimit     (* limit of the method's backlog queue limiter         *)

ASSUME LimitAssumption == GlobalLimit \in Nat \ {0} /\ MethodLimit \in Nat \ {0}
ASSUME RequestAssumption == IsFiniteSet(Requests)

VARIABLES
    server,         (* goroutine of the HTTP server, per request           *)
    bridge,         (* goroutine started by the HTTP duration limiter      *)
    handler,        (* goroutine started by the method's duration limiter  *)
    httpDone,       (* requestCompleted channel of the HTTP limiter        *)
    rpcDone,        (* requestCompleted channel of the method's limiter    *)
    outcome,        (* what the bridge goroutine is about to report        *)
    result,         (* what the handler goroutine is about to report       *)
    globalPending,  (* pending of the HTTP backlog queue limiter           *)
    methodPending   (* pending of the method's backlog queue limiter       *)

vars == <<server, bridge, handler, httpDone, rpcDone, outcome, result,
          globalPending, methodPending>>

\* A channel of capacity one holds at most one report.
Reports == {"none", "response", "busy", "timeout", "panic"}

Init ==
    /\ server = [r \in Requests |-> "idle"]
    /\ bridge = [r \in Requests |-> "idle"]
    /\ handler = [r \in Requests |-> "idle"]
    /\ httpDone = [r \in Requests |-> "none"]
    /\ rpcDone = [r \in Requests |-> "none"]
    /\ outcome = [r \in Requests |-> "none"]
    /\ result = [r \in Requests |-> "none"]
    /\ globalPending = 0
    /\ methodPending = 0

Move(p, r, from, to) == p[r] = from /\ p' = [p EXCEPT ![r] = to]

-----------------------------------------------------------------------------
(***************************************************************************)
(* httpRequestDurationLimiter.ServeHTTP.                                   *)
(***************************************************************************)

\* The request arrives: channel, context and goroutine are created.
ServeHTTP(r) ==
    /\ Move(server, r, "idle", "select")
    /\ Move(bridge, r, "idle", "enter")
    /\ UNCHANGED <<handler, httpDone, rpcDone, outcome, result, globalPending, methodPending>>

\* The limit timer is selected: 504.
HTTPLimit(r) ==
    /\ Move(server, r, "select", "answered")
    /\ UNCHANGED <<bridge, handler, httpDone, rpcDone, outcome, result,
                   globalPending, methodPending>>

\* requestCompleted is selected: the buffered response, or 500 after a panic.
HTTPCompleted(r) ==
    /\ httpDone[r] # "none"
    /\ Move(server, r, "select", "answered")
    /\ UNCHANGED <<bridge, handler, httpDone, rpcDone, outcome, result,
                   globalPending, methodPending>>

-----------------------------------------------------------------------------
(***************************************************************************)
(* BacklogHTTPQLimiter.ServeHTTP, on the bridge goroutine.                 *)
(***************************************************************************)

\* The atomic add and the comparison of its result with the limit.
EnterGlobalQueue(r) ==
    /\ bridge[r] = "enter"
    /\ globalPending' = globalPending + 1
    /\ bridge' = [bridge EXCEPT ![r] = IF globalPending + 1 > GlobalLimit
                                       THEN "refused" ELSE "call"]
    /\ UNCHANGED <<server, handler, httpDone, rpcDone, outcome, result, methodPending>>

\* Mutant: a refused request keeps its slot.
RefuseHTTPKeepsSlot(r) ==
    /\ Move(bridge, r, "refused", "return")
    /\ outcome' = [outcome EXCEPT ![r] = "busy"]
    /\ UNCHANGED <<server, handler, httpDone, rpcDone, result, globalPending, methodPending>>

\* Over the limit: give the slot back and answer 503.
RefuseHTTP(r) ==
    /\ Move(bridge, r, "refused", "return")
    /\ globalPending' = globalPending - 1
    /\ outcome' = [outcome EXCEPT ![r] = "busy"]
    /\ UNCHANGED <<server, handler, httpDone, rpcDone, result, methodPending>>

\* The deferred function of an admitted request.
LeaveGlobalQueue(r) ==
    /\ Move(bridge, r, "leave", "return")
    /\ globalPending' = globalPending - 1
    /\ UNCHANGED <<server, handler, httpDone, rpcDone, outcome, result, methodPending>>

\* The goroutine closes requestCompleted, or sends the panic's stack to it.
BridgeReturns(r) ==
    /\ Move(bridge, r, "return", "ended")
    /\ httpDone' = [httpDone EXCEPT ![r] = outcome[r]]
    /\ UNCHANGED <<server, handler, rpcDone, outcome, result, globalPending, methodPending>>

-----------------------------------------------------------------------------
(***************************************************************************)
(* RPCRequestDurationLimiter.Handle, on the bridge goroutine.              *)
(***************************************************************************)

\* The call reaches the method: channel, context and goroutine are created.
Handle(r) ==
    /\ Move(bridge, r, "call", "select")
    /\ Move(handler, r, "idle", "enter")
    /\ UNCHANGED <<server, httpDone, rpcDone, outcome, result, globalPending, methodPending>>

\* The request is not a call of the method, or the bridge panics.
NoHandler(r) ==
    /\ Move(bridge, r, "call", "leave")
    /\ \E o \in {"response", "panic"} : outcome' = [outcome EXCEPT ![r] = o]
    /\ UNCHANGED <<server, handler, httpDone, rpcDone, result, globalPending, methodPending>>

\* Mutant: the limit channel is never selected.
RPCLimitNever(r) == FALSE /\ UNCHANGED vars

\* The limit timer is selected: -32001.
RPCLimit(r) ==
    /\ Move(bridge, r, "select", "leave")
    /\ outcome' = [outcome EXCEPT ![r] = "timeout"]
    /\ UNCHANGED <<server, handler, httpDone, rpcDone, result, globalPending, methodPending>>

\* requestCompleted is selected: the handler's result, or -32003 when the
\* channel was closed without one.
RPCCompleted(r) ==
    /\ rpcDone[r] # "none"
    /\ Move(bridge, r, "select", "leave")
    /\ outcome' = [outcome EXCEPT ![r] = "response"]
    /\ UNCHANGED <<server, handler, httpDone, rpcDone, result, globalPending, methodPending>>

-----------------------------------------------------------------------------
(***************************************************************************)
(* BacklogJrpcQLimiter.Handle, on the handler goroutine.                   *)
(***************************************************************************)

\* Mutant: the counter is compared before the request is added to it.
EnterMethodQueueLate(r) ==
    /\ handler[r] = "enter"
    /\ methodPending' = methodPending + 1
    /\ handler' = [handler EXCEPT ![r] = IF methodPending > MethodLimit THEN "refused" ELSE "run"]
    /\ UNCHANGED <<server, bridge, httpDone, rpcDone, outcome, result, globalPending>>

EnterMethodQueue(r) ==
    /\ handler[r] = "enter"
    /\ methodPending' = methodPending + 1
    /\ handler' = [handler EXCEPT ![r] = IF methodPending + 1 > MethodLimit
                                         THEN "refused" ELSE "run"]
    /\ UNCHANGED <<server, bridge, httpDone, rpcDone, outcome, result, globalPending>>

RefuseRPC(r) ==
    /\ Move(handler, r, "refused", "return")
    /\ methodPending' = methodPending - 1
    /\ result' = [result EXCEPT ![r] = "busy"]
    /\ UNCHANGED <<server, bridge, httpDone, rpcDone, outcome, globalPending>>

\* The method's handler returns or panics.
RunHandler(r) ==
    /\ Move(handler, r, "run", "leave")
    /\ \E o \in {"response", "panic"} : result' = [result EXCEPT ![r] = o]
    /\ UNCHANGED <<server, bridge, httpDone, rpcDone, outcome, globalPending, methodPending>>

\* The deferred function gives the slot back, after a panic as well.
LeaveMethodQueue(r) ==
    /\ Move(handler, r, "leave", "return")
    /\ methodPending' = methodPending - 1
    /\ UNCHANGED <<server, bridge, httpDone, rpcDone, outcome, result, globalPending>>

\* Mutant: requestCompleted has no buffer, so that the send waits for a
\* receiver.
HandlerReturnsUnbuffered(r) ==
    /\ bridge[r] = "select"
    /\ Move(handler, r, "return", "ended")
    /\ rpcDone' = [rpcDone EXCEPT ![r] = result[r]]
    /\ UNCHANGED <<server, bridge, httpDone, outcome, result, globalPending, methodPending>>

\* The goroutine sends its result into requestCompleted, whose buffer has room
\* for it also when nobody receives any more, and closes it.
HandlerReturns(r) ==
    /\ Move(handler, r, "return", "ended")
    /\ rpcDone' = [rpcDone EXCEPT ![r] = result[r]]
    /\ UNCHANGED <<server, bridge, httpDone, outcome, result, globalPending, methodPending>>

-----------------------------------------------------------------------------
\* Nothing of the request is left; its place is taken by another request.
Finished(r) ==
    /\ server[r] = "answered" /\ bridge[r] = "ended" /\ handler[r] \in {"idle", "ended"}
    /\ server' = [server EXCEPT ![r] = "idle"]
    /\ bridge' = [bridge EXCEPT ![r] = "idle"]
    /\ handler' = [handler EXCEPT ![r] = "idle"]
    /\ httpDone' = [httpDone EXCEPT ![r] = "none"]
    /\ rpcDone' = [rpcDone EXCEPT ![r] = "none"]
    /\ outcome' = [outcome EXCEPT ![r] = "none"]
    /\ result' = [result EXCEPT ![r] = "none"]
    /\ UNCHANGED <<globalPending, methodPending>>

ServerStep(r) == HTTPLimit(r) \/ HTTPCompleted(r)

BridgeStep(r) ==
    \/ EnterGlobalQueue(r) \/ RefuseHTTP(r) \/ LeaveGlobalQueue(r) \/ BridgeReturns(r)
    \/ Handle(r) \/ NoHandler(r) \/ RPCLimit(r) \/ RPCCompleted(r)

HandlerStep(r) ==
    EnterMethodQueue(r) \/ RefuseRPC(r) \/ LeaveMethodQueue(r) \/ HandlerReturns(r)

Next ==
    \E r \in Requests :
        \/ ServeHTTP(r) \/ ServerStep(r) \/ BridgeStep(r) \/ HandlerStep(r)
        \/ RunHandler(r) \/ Finished(r)

Spec == Init /\ [][Next]_vars

\* Goroutines run and timers fire; a handler may hang forever.
FairSpec ==
    Spec /\ \A r \in Requests : WF_vars(ServerStep(r)) /\ WF_vars(BridgeStep(r))

\* A handler whose context is cancelled in time eventually returns.
HandlersReturn ==
    \A r \in Requests : WF_vars(HandlerStep(r)) /\ WF_vars(RunHandler(r))

-----------------------------------------------------------------------------
\* Every variable holds a value of its type.
TypeOK ==
    /\ server \in [Requests -> {"idle", "select", "answered"}]
    /\ bridge \in [Requests -> {"idle", "enter", "refused", "call", "select", "leave",
                                "return", "ended"}]
    /\ handler \in [Requests -> {"idle", "enter", "refused", "run", "leave", "return", "ended"}]
    /\ httpDone \in [Requests -> Reports]
    /\ rpcDone \in [Requests -> Reports]
    /\ outcome \in [Requests -> Reports]
    /\ result \in [Requests -> Reports]
    /\ globalPending \in Nat
    /\ methodPending \in Nat

GlobalHolders == {r \in Requests : bridge[r] \in {"refused", "call", "select", "leave"}}
MethodHolders == {r \in Requests : handler[r] \in {"refused", "run", "leave"}}

\* Both counters are exactly the requests that hold a slot or are giving a
\* refused one back: no order of timeouts, panics and refusals leaks a slot or
\* drives a counter below zero, where the unsigned value would refuse everybody
\* (backlogQ.go, the paired atomic adds).
SlotsAccounted ==
    /\ globalPending = Cardinality(GlobalHolders)
    /\ methodPending = Cardinality(MethodHolders)

\* No more requests than the limits are past the limiters, however their
\* arrivals interleave and although a request whose limiter timed out goes on.
WithinLimits ==
    /\ Cardinality({r \in GlobalHolders : bridge[r] # "refused"}) <= GlobalLimit
    /\ Cardinality({r \in MethodHolders : handler[r] # "refused"}) <= MethodLimit

\* Every request is answered and gives its global slot back, even when its
\* handler never returns (the limit timers of the two duration limiters).
RequestsAnswered ==
    \A r \in Requests :
        /\ server[r] = "select" ~> server[r] = "answered"
        /\ bridge[r] # "idle" ~> r \notin GlobalHolders

\* When handlers return, none of their goroutines stays behind: a result that
\* comes after its limiter gave up does not block its sender.
NoGoroutineLeft ==
    HandlersReturn => \A r \in Requests : handler[r] # "idle" ~> handler[r] \in {"idle", "ended"}
=============================================================================
