------------------------ MODULE RequestLimitsProofs ------------------------
(***************************************************************************)
(* The two backlog queue limiters count correctly, for every number of     *)
(* requests and every limit.  The inductive invariant is the conjunction   *)
(* of the three properties: the counters stay natural numbers because they *)
(* are cardinalities, and the limits hold because a request is admitted    *)
(* against the counter, which also counts the requests about to be         *)
(* refused.                                                                *)
(***************************************************************************)
EXTENDS RequestLimits, FiniteSetTheorems, TLAPS

\* How many requests stand, in p, at one of the places S.
Count(p, S) == Cardinality({q \in Requests : p[q] \in S})

GlobalHeld == {"refused", "call", "select", "leave"}
GlobalAdmitted == {"call", "select", "leave"}
MethodHeld == {"refused", "run", "leave"}
MethodAdmitted == {"run", "leave"}

\* The invariants of the two limiters, in terms of Count.
GlobalQueue ==
    globalPending = Count(bridge, GlobalHeld) /\ Count(bridge, GlobalAdmitted) <= GlobalLimit
MethodQueue ==
    methodPending = Count(handler, MethodHeld) /\ Count(handler, MethodAdmitted) <= MethodLimit

LimitInv == TypeOK /\ GlobalQueue /\ MethodQueue

\* LimitInv is the type invariant with the two safety properties.
LEMMA LimitInvMeaning == LimitInv <=> TypeOK /\ SlotsAccounted /\ WithinLimits
<1>1. /\ GlobalHolders = {q \in Requests : bridge[q] \in GlobalHeld}
      /\ {r \in GlobalHolders : bridge[r] # "refused"}
           = {q \in Requests : bridge[q] \in GlobalAdmitted}
  BY DEF GlobalHolders, GlobalHeld, GlobalAdmitted
<1>2. /\ MethodHolders = {q \in Requests : handler[q] \in MethodHeld}
      /\ {r \in MethodHolders : handler[r] # "refused"}
           = {q \in Requests : handler[q] \in MethodAdmitted}
  BY DEF MethodHolders, MethodHeld, MethodAdmitted
<1>. QED
  BY <1>1, <1>2 DEF LimitInv, GlobalQueue, MethodQueue, SlotsAccounted, WithinLimits, Count

\* A count is a natural number, and grows with the places.
LEMMA CountType ==
    ASSUME NEW p, NEW S, NEW T, T \subseteq S
    PROVE  Count(p, S) \in Nat /\ Count(p, T) \in Nat /\ Count(p, T) <= Count(p, S)
<1>. DEFINE A == {q \in Requests : p[q] \in S}
            B == {q \in Requests : p[q] \in T}
<1>1. IsFiniteSet(A)
  BY RequestAssumption, FS_Subset
<1>2. B \in SUBSET A
  OBVIOUS
<1>3. IsFiniteSet(B) /\ Cardinality(B) <= Cardinality(A)
  BY <1>1, <1>2, FS_Subset
<1>4. Cardinality(A) \in Nat /\ Cardinality(B) \in Nat
  BY <1>1, <1>3, FS_CardinalityType
<1>. QED
  BY <1>3, <1>4 DEF Count

\* From p to q only request r moves.
Moved(p, q, r) == \A x \in Requests : x # r => q[x] = p[x]

\* The count changes by the place that r leaves and the place that it enters.
LEMMA CountMove ==
    ASSUME NEW p, NEW q, NEW r \in Requests, Moved(p, q, r), NEW S
    PROVE  Count(q, S) =
             IF q[r] \in S
             THEN IF p[r] \in S THEN Count(p, S) ELSE Count(p, S) + 1
             ELSE IF p[r] \in S THEN Count(p, S) - 1 ELSE Count(p, S)
<1>. DEFINE A == {x \in Requests : p[x] \in S}
            B == {x \in Requests : q[x] \in S}
<1>1. IsFiniteSet(A)
  BY RequestAssumption, FS_Subset
<1>2. CASE q[r] \in S
  <2>1. B = A \cup {r}
    BY <1>2 DEF Moved
  <2>2. Cardinality(A \cup {r}) = IF r \in A THEN Cardinality(A) ELSE Cardinality(A) + 1
    BY <1>1, FS_AddElement
  <2>. QED BY <1>2, <2>1, <2>2 DEF Count
<1>3. CASE q[r] \notin S
  <2>1. B = A \ {r}
    BY <1>3 DEF Moved
  <2>2. Cardinality(A \ {r}) = IF r \in A THEN Cardinality(A) - 1 ELSE Cardinality(A)
    BY <1>1, FS_RemoveElement
  <2>. QED BY <1>3, <2>1, <2>2 DEF Count
<1>. QED
  BY <1>2, <1>3

\* The five ways a request moves with respect to a limiter with the places
\* held, of which adm are past it: around it, behind it, out of it, into it to
\* be refused, and into it to be admitted.
MoveEffect(p, q, r, held, adm, limit) ==
    /\ p[r] \notin held /\ q[r] \notin held =>
         Count(q, held) = Count(p, held) /\ Count(q, adm) <= limit
    /\ p[r] \in adm /\ q[r] \in adm =>
         Count(q, held) = Count(p, held) /\ Count(q, adm) <= limit
    /\ p[r] \in held /\ q[r] \notin held =>
         Count(q, held) = Count(p, held) - 1 /\ Count(q, adm) <= limit
    /\ p[r] \notin held /\ q[r] \in held /\ q[r] \notin adm =>
         Count(q, held) = Count(p, held) + 1 /\ Count(q, adm) <= limit
    /\ p[r] \notin held /\ q[r] \in adm /\ Count(p, held) + 1 <= limit =>
         Count(q, held) = Count(p, held) + 1 /\ Count(q, adm) <= limit

\* A move keeps the counts consistent and the limit.
LEMMA QueueMove ==
    ASSUME NEW p, NEW q, NEW r \in Requests, Moved(p, q, r),
           NEW held, NEW adm, adm \subseteq held,
           NEW limit \in Nat, Count(p, adm) <= limit
    PROVE  MoveEffect(p, q, r, held, adm, limit)
<1>. DEFINE ph == Count(p, held)
            pa == Count(p, adm)
            qh == Count(q, held)
            qa == Count(q, adm)
<1>1. ph \in Nat /\ pa \in Nat /\ pa <= ph /\ pa <= limit
  BY CountType
<1>2. qh = IF q[r] \in held THEN IF p[r] \in held THEN ph ELSE ph + 1
                            ELSE IF p[r] \in held THEN ph - 1 ELSE ph
  BY CountMove
<1>3. qa = IF q[r] \in adm THEN IF p[r] \in adm THEN pa ELSE pa + 1
                           ELSE IF p[r] \in adm THEN pa - 1 ELSE pa
  BY CountMove
<1>4. /\ p[r] \in adm => p[r] \in held
      /\ q[r] \in adm => q[r] \in held
  OBVIOUS
<1>. HIDE DEF ph, pa, qh, qa
<1>5. /\ p[r] \notin held /\ q[r] \notin held => qh = ph /\ qa <= limit
      /\ p[r] \in adm /\ q[r] \in adm => qh = ph /\ qa <= limit
      /\ p[r] \in held /\ q[r] \notin held => qh = ph - 1 /\ qa <= limit
      /\ p[r] \notin held /\ q[r] \in held /\ q[r] \notin adm => qh = ph + 1 /\ qa <= limit
      /\ p[r] \notin held /\ q[r] \in adm /\ ph + 1 <= limit => qh = ph + 1 /\ qa <= limit
  BY <1>1, <1>2, <1>3, <1>4
<1>. QED
  BY <1>5 DEF MoveEffect, ph, pa, qh, qa

\* A step of the bridge goroutine changes the global counter as it changes the
\* slots in use.
LEMMA GlobalStep ==
    ASSUME LimitInv, NEW r \in Requests,
           ServeHTTP(r) \/ BridgeStep(r) \/ Finished(r)
    PROVE  GlobalQueue' /\ globalPending' \in Nat
<1>. DEFINE Goal == /\ globalPending' = Count(bridge', GlobalHeld)
                    /\ Count(bridge', GlobalAdmitted) <= GlobalLimit
<1>1. /\ bridge \in [Requests -> {"idle", "enter", "refused", "call", "select", "leave",
                                "return", "ended"}]
      /\ GlobalAdmitted \subseteq GlobalHeld
      /\ GlobalLimit \in Nat
      /\ globalPending = Count(bridge, GlobalHeld)
      /\ Count(bridge, GlobalAdmitted) <= GlobalLimit
  BY LimitAssumption DEF LimitInv, TypeOK, GlobalQueue, GlobalAdmitted, GlobalHeld
<1>2. SUFFICES Goal
  BY CountType DEF GlobalQueue
<1>m. Moved(bridge, bridge', r) =>
        MoveEffect(bridge, bridge', r, GlobalHeld, GlobalAdmitted, GlobalLimit)
  BY <1>1, QueueMove
<1>3. CASE EnterGlobalQueue(r)
  <2>1. CASE globalPending + 1 > GlobalLimit
    <3>1. /\ bridge[r] = "enter" /\ bridge'[r] = "refused" /\ Moved(bridge, bridge', r)
          /\ globalPending' = globalPending + 1
      BY <1>1, <1>3, <2>1 DEF EnterGlobalQueue, Moved
    <3>2. "enter" \notin GlobalHeld /\ "refused" \in GlobalHeld /\ "refused" \notin GlobalAdmitted
      BY DEF GlobalHeld, GlobalAdmitted
    <3>. QED BY <1>1, <2>1, <3>1, <3>2, <1>m DEF MoveEffect
  <2>2. CASE ~(globalPending + 1 > GlobalLimit)
    <3>1. /\ bridge[r] = "enter" /\ bridge'[r] = "call" /\ Moved(bridge, bridge', r)
          /\ globalPending' = globalPending + 1
      BY <1>1, <1>3, <2>2 DEF EnterGlobalQueue, Moved
    <3>2. "enter" \notin GlobalHeld /\ "call" \in GlobalAdmitted
      BY DEF GlobalHeld, GlobalAdmitted
    <3>. QED BY <1>1, <2>2, <3>1, <3>2, <1>m DEF MoveEffect
  <2>. QED BY <2>1, <2>2
<1>4. CASE RefuseHTTP(r)
  <2>1. /\ bridge[r] = "refused" /\ bridge'[r] = "return" /\ Moved(bridge, bridge', r)
        /\ globalPending' = globalPending - 1
    BY <1>1, <1>4 DEF RefuseHTTP, Move, Moved
  <2>2. "refused" \in GlobalHeld /\ "refused" \notin GlobalAdmitted /\ "return" \notin GlobalHeld
    BY DEF GlobalHeld, GlobalAdmitted
  <2>. QED BY <1>1, <2>1, <2>2, <1>m DEF MoveEffect
<1>5. CASE LeaveGlobalQueue(r)
  <2>1. /\ bridge[r] = "leave" /\ bridge'[r] = "return" /\ Moved(bridge, bridge', r)
        /\ globalPending' = globalPending - 1
    BY <1>1, <1>5 DEF LeaveGlobalQueue, Move, Moved
  <2>2. "leave" \in GlobalAdmitted /\ "return" \notin GlobalHeld
    BY DEF GlobalHeld, GlobalAdmitted
  <2>. QED BY <1>1, <2>1, <2>2, <1>m DEF MoveEffect
<1>6. CASE Handle(r)
  <2>1. /\ bridge[r] = "call" /\ bridge'[r] = "select" /\ Moved(bridge, bridge', r)
        /\ globalPending' = globalPending
    BY <1>1, <1>6 DEF Handle, Move, Moved
  <2>2. "call" \in GlobalAdmitted /\ "select" \in GlobalAdmitted
    BY DEF GlobalHeld, GlobalAdmitted
  <2>. QED BY <1>1, <2>1, <2>2, <1>m DEF MoveEffect
<1>7. CASE NoHandler(r)
  <2>1. /\ bridge[r] = "call" /\ bridge'[r] = "leave" /\ Moved(bridge, bridge', r)
        /\ globalPending' = globalPending
    BY <1>1, <1>7 DEF NoHandler, Move, Moved
  <2>2. "call" \in GlobalAdmitted /\ "leave" \in GlobalAdmitted
    BY DEF GlobalHeld, GlobalAdmitted
  <2>. QED BY <1>1, <2>1, <2>2, <1>m DEF MoveEffect
<1>8. CASE RPCLimit(r) \/ RPCCompleted(r)
  <2>1. /\ bridge[r] = "select" /\ bridge'[r] = "leave" /\ Moved(bridge, bridge', r)
        /\ globalPending' = globalPending
    BY <1>1, <1>8 DEF RPCLimit, RPCCompleted, Move, Moved
  <2>2. "select" \in GlobalAdmitted /\ "leave" \in GlobalAdmitted
    BY DEF GlobalHeld, GlobalAdmitted
  <2>. QED BY <1>1, <2>1, <2>2, <1>m DEF MoveEffect
<1>9. CASE ServeHTTP(r)
  <2>1. /\ bridge[r] = "idle" /\ bridge'[r] = "enter" /\ Moved(bridge, bridge', r)
        /\ globalPending' = globalPending
    BY <1>1, <1>9 DEF ServeHTTP, Move, Moved
  <2>2. "idle" \notin GlobalHeld /\ "enter" \notin GlobalHeld
    BY DEF GlobalHeld, GlobalAdmitted
  <2>. QED BY <1>1, <2>1, <2>2, <1>m DEF MoveEffect
<1>10. CASE BridgeReturns(r)
  <2>1. /\ bridge[r] = "return" /\ bridge'[r] = "ended" /\ Moved(bridge, bridge', r)
        /\ globalPending' = globalPending
    BY <1>1, <1>10 DEF BridgeReturns, Move, Moved
  <2>2. "return" \notin GlobalHeld /\ "ended" \notin GlobalHeld
    BY DEF GlobalHeld, GlobalAdmitted
  <2>. QED BY <1>1, <2>1, <2>2, <1>m DEF MoveEffect
<1>11. CASE Finished(r)
  <2>1. /\ bridge[r] = "ended" /\ bridge'[r] = "idle" /\ Moved(bridge, bridge', r)
        /\ globalPending' = globalPending
    BY <1>1, <1>11 DEF Finished, Moved
  <2>2. "ended" \notin GlobalHeld /\ "idle" \notin GlobalHeld
    BY DEF GlobalHeld, GlobalAdmitted
  <2>. QED BY <1>1, <2>1, <2>2, <1>m DEF MoveEffect
<1>. QED
  BY <1>3, <1>4, <1>5, <1>6, <1>7, <1>8, <1>9, <1>10, <1>11 DEF BridgeStep

\* A step of the handler goroutine, likewise.
LEMMA MethodStep ==
    ASSUME LimitInv, NEW r \in Requests,
           Handle(r) \/ HandlerStep(r) \/ RunHandler(r) \/ Finished(r)
    PROVE  MethodQueue' /\ methodPending' \in Nat
<1>. DEFINE Goal == /\ methodPending' = Count(handler', MethodHeld)
                    /\ Count(handler', MethodAdmitted) <= MethodLimit
<1>1. /\ handler \in [Requests -> {"idle", "enter", "refused", "run", "leave", "return", "ended"}]
      /\ MethodAdmitted \subseteq MethodHeld
      /\ MethodLimit \in Nat
      /\ methodPending = Count(handler, MethodHeld)
      /\ Count(handler, MethodAdmitted) <= MethodLimit
  BY LimitAssumption DEF LimitInv, TypeOK, MethodQueue, MethodAdmitted, MethodHeld
<1>2. SUFFICES Goal
  BY CountType DEF MethodQueue
<1>m. Moved(handler, handler', r) =>
        MoveEffect(handler, handler', r, MethodHeld, MethodAdmitted, MethodLimit)
  BY <1>1, QueueMove
<1>3. CASE EnterMethodQueue(r)
  <2>1. CASE methodPending + 1 > MethodLimit
    <3>1. /\ handler[r] = "enter" /\ handler'[r] = "refused" /\ Moved(handler, handler', r)
          /\ methodPending' = methodPending + 1
      BY <1>1, <1>3, <2>1 DEF EnterMethodQueue, Moved
    <3>2. "enter" \notin MethodHeld /\ "refused" \in MethodHeld /\ "refused" \notin MethodAdmitted
      BY DEF MethodHeld, MethodAdmitted
    <3>. QED BY <1>1, <2>1, <3>1, <3>2, <1>m DEF MoveEffect
  <2>2. CASE ~(methodPending + 1 > MethodLimit)
    <3>1. /\ handler[r] = "enter" /\ handler'[r] = "run" /\ Moved(handler, handler', r)
          /\ methodPending' = methodPending + 1
      BY <1>1, <1>3, <2>2 DEF EnterMethodQueue, Moved
    <3>2. "enter" \notin MethodHeld /\ "run" \in MethodAdmitted
      BY DEF MethodHeld, MethodAdmitted
    <3>. QED BY <1>1, <2>2, <3>1, <3>2, <1>m DEF MoveEffect
  <2>. QED BY <2>1, <2>2
<1>4. CASE RefuseRPC(r)
  <2>1. /\ handler[r] = "refused" /\ handler'[r] = "return" /\ Moved(handler, handler', r)
        /\ methodPending' = methodPending - 1
    BY <1>1, <1>4 DEF RefuseRPC, Move, Moved
  <2>2. "refused" \in MethodHeld /\ "refused" \notin MethodAdmitted /\ "return" \notin MethodHeld
    BY DEF MethodHeld, MethodAdmitted
  <2>. QED BY <1>1, <2>1, <2>2, <1>m DEF MoveEffect
<1>5. CASE LeaveMethodQueue(r)
  <2>1. /\ handler[r] = "leave" /\ handler'[r] = "return" /\ Moved(handler, handler', r)
        /\ methodPending' = methodPending - 1
    BY <1>1, <1>5 DEF LeaveMethodQueue, Move, Moved
  <2>2. "leave" \in MethodAdmitted /\ "return" \notin MethodHeld
    BY DEF MethodHeld, MethodAdmitted
  <2>. QED BY <1>1, <2>1, <2>2, <1>m DEF MoveEffect
<1>6. CASE RunHandler(r)
  <2>1. /\ handler[r] = "run" /\ handler'[r] = "leave" /\ Moved(handler, handler', r)
        /\ methodPending' = methodPending
    BY <1>1, <1>6 DEF RunHandler, Move, Moved
  <2>2. "run" \in MethodAdmitted /\ "leave" \in MethodAdmitted
    BY DEF MethodHeld, MethodAdmitted
  <2>. QED BY <1>1, <2>1, <2>2, <1>m DEF MoveEffect
<1>7. CASE HandlerReturns(r)
  <2>1. /\ handler[r] = "return" /\ handler'[r] = "ended" /\ Moved(handler, handler', r)
        /\ methodPending' = methodPending
    BY <1>1, <1>7 DEF HandlerReturns, Move, Moved
  <2>2. "return" \notin MethodHeld /\ "ended" \notin MethodHeld
    BY DEF MethodHeld, MethodAdmitted
  <2>. QED BY <1>1, <2>1, <2>2, <1>m DEF MoveEffect
<1>8. CASE Handle(r)
  <2>1. /\ handler[r] = "idle" /\ handler'[r] = "enter" /\ Moved(handler, handler', r)
        /\ methodPending' = methodPending
    BY <1>1, <1>8 DEF Handle, Move, Moved
  <2>2. "idle" \notin MethodHeld /\ "enter" \notin MethodHeld
    BY DEF MethodHeld, MethodAdmitted
  <2>. QED BY <1>1, <2>1, <2>2, <1>m DEF MoveEffect
<1>9. CASE Finished(r)
  <2>1. CASE handler[r] = "ended"
    <3>1. /\ handler[r] = "ended" /\ handler'[r] = "idle" /\ Moved(handler, handler', r)
          /\ methodPending' = methodPending
      BY <1>1, <1>9, <2>1 DEF Finished, Moved
    <3>2. "ended" \notin MethodHeld /\ "idle" \notin MethodHeld
      BY DEF MethodHeld, MethodAdmitted
    <3>. QED BY <1>1, <2>1, <3>1, <3>2, <1>m DEF MoveEffect
  <2>2. CASE handler[r] = "idle"
    <3>1. /\ handler[r] = "idle" /\ handler'[r] = "idle" /\ Moved(handler, handler', r)
          /\ methodPending' = methodPending
      BY <1>1, <1>9, <2>2 DEF Finished, Moved
    <3>2. "idle" \notin MethodHeld /\ "idle" \notin MethodHeld
      BY DEF MethodHeld, MethodAdmitted
    <3>. QED BY <1>1, <2>2, <3>1, <3>2, <1>m DEF MoveEffect
  <2>. QED BY <2>1, <2>2, <1>9 DEF Finished
<1>. QED
  BY <1>3, <1>4, <1>5, <1>6, <1>7, <1>8, <1>9 DEF HandlerStep

\* Everything but the counters keeps its type.
LEMMA PlacesTyped ==
    ASSUME LimitInv, [Next]_vars, globalPending' \in Nat, methodPending' \in Nat
    PROVE  TypeOK'
<1>. USE DEF Move, Reports
<1>. SUFFICES ASSUME NEW r \in Requests,
                     \/ ServeHTTP(r) \/ ServerStep(r) \/ BridgeStep(r) \/ HandlerStep(r)
                     \/ RunHandler(r) \/ Finished(r)
              PROVE  TypeOK'
  BY DEF Next, vars, LimitInv, TypeOK
<1>1. CASE ServeHTTP(r)
  BY <1>1 DEF LimitInv, TypeOK, ServeHTTP
<1>2. CASE ServerStep(r)
  BY <1>2 DEF LimitInv, TypeOK, ServerStep, HTTPLimit, HTTPCompleted
<1>3. CASE EnterGlobalQueue(r) \/ RefuseHTTP(r) \/ LeaveGlobalQueue(r) \/ BridgeReturns(r)
  BY <1>3 DEF LimitInv, TypeOK, EnterGlobalQueue, RefuseHTTP, LeaveGlobalQueue, BridgeReturns
<1>4. CASE Handle(r) \/ NoHandler(r) \/ RPCLimit(r) \/ RPCCompleted(r)
  BY <1>4 DEF LimitInv, TypeOK, Handle, NoHandler, RPCLimit, RPCCompleted
<1>5. CASE HandlerStep(r)
  BY <1>5 DEF LimitInv, TypeOK, HandlerStep, EnterMethodQueue, RefuseRPC, LeaveMethodQueue,
              HandlerReturns
<1>6. CASE RunHandler(r)
  BY <1>6 DEF LimitInv, TypeOK, RunHandler
<1>7. CASE Finished(r)
  BY <1>7 DEF LimitInv, TypeOK, Finished
<1>. QED
  BY <1>1, <1>2, <1>3, <1>4, <1>5, <1>6, <1>7 DEF BridgeStep

\* LimitInv is inductive.
LEMMA LimitStep == LimitInv /\ [Next]_vars => LimitInv'
<1>. SUFFICES ASSUME LimitInv, [Next]_vars PROVE LimitInv'
  OBVIOUS
<1>1. UNCHANGED <<bridge, globalPending>> => GlobalQueue' /\ globalPending' \in Nat
  BY DEF LimitInv, TypeOK, GlobalQueue, Count
<1>2. UNCHANGED <<handler, methodPending>> => MethodQueue' /\ methodPending' \in Nat
  BY DEF LimitInv, TypeOK, MethodQueue, Count
<1>3. GlobalQueue' /\ globalPending' \in Nat
  <2>1. ASSUME NEW r \in Requests, ServerStep(r) \/ HandlerStep(r) \/ RunHandler(r)
        PROVE  UNCHANGED <<bridge, globalPending>>
    BY <2>1 DEF ServerStep, HTTPLimit, HTTPCompleted, HandlerStep, EnterMethodQueue, RefuseRPC,
                LeaveMethodQueue, HandlerReturns, RunHandler
  <2>2. UNCHANGED vars => UNCHANGED <<bridge, globalPending>>
    BY DEF vars
  <2>. QED BY <1>1, <2>1, <2>2, GlobalStep DEF Next
<1>4. MethodQueue' /\ methodPending' \in Nat
  <2>1. ASSUME NEW r \in Requests,
               ServeHTTP(r) \/ ServerStep(r) \/ (BridgeStep(r) /\ ~Handle(r))
        PROVE  UNCHANGED <<handler, methodPending>>
    BY <2>1 DEF ServeHTTP, ServerStep, HTTPLimit, HTTPCompleted, BridgeStep, EnterGlobalQueue,
                RefuseHTTP, LeaveGlobalQueue, BridgeReturns, NoHandler, RPCLimit, RPCCompleted
  <2>2. UNCHANGED vars => UNCHANGED <<handler, methodPending>>
    BY DEF vars
  <2>. QED BY <1>2, <2>1, <2>2, MethodStep DEF Next
<1>5. TypeOK'
  BY <1>3, <1>4, PlacesTyped
<1>. QED
  BY <1>3, <1>4, <1>5 DEF LimitInv

\* LimitInv holds in every behaviour.
LEMMA LimitInvariant == Spec => []LimitInv
<1>1. Init => LimitInv
  <2>. SUFFICES ASSUME Init PROVE LimitInv
    OBVIOUS
  <2>1. TypeOK
    BY DEF Init, TypeOK, Reports
  <2>2. /\ {q \in Requests : bridge[q] \in GlobalHeld} = {}
        /\ {q \in Requests : bridge[q] \in GlobalAdmitted} = {}
        /\ {q \in Requests : handler[q] \in MethodHeld} = {}
        /\ {q \in Requests : handler[q] \in MethodAdmitted} = {}
    BY DEF Init, GlobalHeld, GlobalAdmitted, MethodHeld, MethodAdmitted
  <2>3. GlobalQueue /\ MethodQueue
    BY <2>2, FS_EmptySet, LimitAssumption DEF Init, GlobalQueue, MethodQueue, Count
  <2>. QED BY <2>1, <2>3 DEF LimitInv
<1>. QED
  BY <1>1, LimitStep, PTL DEF Spec

\* The goroutines and channels of every request have their types, and neither
\* counter drops below zero (the unsigned pending of backlogQLimiter).
THEOREM LimitsTypeCorrect == Spec => []TypeOK
<1>. QED
  BY LimitInvariant, LimitInvMeaning, PTL

\* For every number of requests, the counters of the two backlog queue
\* limiters are exactly the slots in use.
THEOREM SlotsAreAccounted == Spec => []SlotsAccounted
<1>. QED
  BY LimitInvariant, LimitInvMeaning, PTL

\* For every number of requests and every limit, no more requests than the
\* limits are past the limiters.
THEOREM LimitsHold == Spec => []WithinLimits
<1>. QED
  BY LimitInvariant, LimitInvMeaning, PTL
=============================================================================
