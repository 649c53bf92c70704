--------------------------- MODULE CoreReadsProofs ---------------------------
(***************************************************************************)
(* Proofs about the handlers that read the ledger store and ask core, for  *)
(* any retention window, page limit, scan limit and filters, any contents  *)
(* of the ledgers and any number of ledgers.                               *)
(***************************************************************************)
EXTENDS CoreReads, FiniteSetTheorems, WellFoundedInduction, TLAPS

Position == [ledger : Int, pos : Int]
Cursor == [ledger : Int, pos : Nat]

CallType ==
    [pc : {"idle", "range", "read", "found", "seq", "raw", "simulate", "submitted"},
     method : Paged \cup {"none", "transaction", "latestLedger", "health", "entries", "simulate",
                          "send"},
     latest : LedgerOrNone, first : Nat, ledger : Nat, found : BOOLEAN]

SessionType ==
    [method : Paged \cup {"none"}, filters : FilterSets, start : Cursor, cursor : Cursor,
     got : SUBSET Cursor, repeated : BOOLEAN, seen : LedgerOrNone]

\* The store: the cache, when it is filled and not locked, is up to date, core
\* is not behind, and the client has not been told of a ledger to come.
StoreInv ==
    /\ newest \in LedgerOrNone /\ oldest \in Nat /\ cached \in LedgerOrNone
    /\ newest = 0 => oldest = 0
    /\ newest # 0 => oldest # 0
    /\ cached <= newest
    /\ ~committing /\ cached # 0 => cached = newest
    /\ core \in Nat /\ newest <= core
    /\ session.seen <= newest

\* A call in progress: the latest ledger it has read is at least the one that
\* the client knows, and what it has found is not newer.
CallInv ==
    /\ call \in CallType
    /\ call.pc = "idle" => call = IdleCall
    /\ call.pc \in {"seq", "raw", "simulate"} =>
          call.method \in {"latestLedger", "entries", "simulate"}
    /\ call.latest # 0 => session.seen <= call.latest /\ call.latest <= newest
    /\ call.pc \in {"raw", "simulate"} =>
          /\ call.ledger \in Ledger
          /\ session.seen <= call.ledger /\ call.ledger <= newest
    /\ call.pc = "read" /\ call.method # "send" => call.latest # 0
    /\ call.method = "transaction" /\ call.found =>
          call.ledger <= IF call.latest # 0 THEN call.latest ELSE newest
    /\ call.pc = "submitted" => call.latest < call.ledger
    /\ call.method \in Paged => session.method = call.method
    /\ call.pc = "found" => call.latest = 0

\* The entries of a simulation in progress.
SimulationInv ==
    /\ call.method = "simulate" /\ call.pc \in {"seq", "raw"} =>
          asked = {} /\ entries = {} /\ lost = {}
    /\ call.pc = "simulate" =>
          /\ call.method = "simulate"
          /\ call.first = call.ledger
          /\ lost \subseteq asked
          /\ entries = EntriesAt(call.ledger, asked \ lost)

\* The client: what it has got lies before its cursor.
SessionInv ==
    /\ session \in SessionType
    /\ session.method \in Paged => session.start.ledger \in Ledger /\ session.start.pos = 0
    /\ PagesSkipNothing
    /\ session.method \in {"ledgers", "events"} =>
          /\ ~session.repeated
          /\ \A x \in session.got : Continued /\ Upto(x, session.cursor)
    /\ session.method = "events" => session.cursor.pos <= Last

ReplyInv == FoundIsCovered /\ EntriesOfOneLedger /\ SentIsAhead

ReadInv == StoreInv /\ CallInv /\ SimulationInv /\ SessionInv /\ ReplyInv

\* What the next page must be.
PageOK(page, cursor) ==
    /\ page \in SUBSET Cursor /\ cursor \in Cursor
    /\ session.method \in {"ledgers", "events"} =>
          /\ cursor # NoCursor
          /\ \A x \in page : Upto(x, cursor) /\ ~(Continued /\ Upto(x, session.cursor))
          /\ Continued => Upto(session.cursor, cursor)
    /\ session.method = "events" => cursor.pos <= Last
    /\ \A x \in Items(session.method) :
          cursor # NoCursor /\ Wanted(x) /\ Upto(session.start, x) /\ Upto(x, cursor)
              => \/ x \in page
                 \/ Continued /\ Upto(x, session.cursor)
                 \/ session.method = "events" /\ x.ledger < oldest

Delivered ==
    \E page, cursor, latest :
        /\ PageOK(page, cursor)
        /\ latest \in Ledger /\ session.seen <= latest /\ latest <= newest
        /\ Deliver(page, cursor, latest)

-----------------------------------------------------------------------------
(***************************************************************************)
(* Positions and pages.                                                    *)
(***************************************************************************)
LEMMA UptoOrder ==
    ASSUME NEW x \in Position, NEW y \in Position, NEW z \in Position
    PROVE  /\ Upto(x, x)
           /\ Upto(x, y) \/ Upto(y, x)
           /\ Upto(x, y) /\ Upto(y, z) => Upto(x, z)
           /\ Upto(x, y) /\ Upto(y, x) => x = y
  BY DEF Position, Upto

\* Among finitely many positions one is the last: a set without one would have
\* a smallest subset without one.
LEMMA LargestExists ==
    ASSUME NEW S, IsFiniteSet(S), S # {}, NEW f \in [S -> Position]
    PROVE  \E x \in S : \A y \in S : Upto(f[y], f[x])
  <1> DEFINE Top(T) == \E x \in T : \A y \in T : Upto(f[y], f[x])
             Bad == {T \in SUBSET S : T # {} /\ ~Top(T)}
  <1>1. SUFFICES ASSUME Bad # {}
                 PROVE  FALSE
    OBVIOUS
  <1>2. IsWellFoundedOn(StrictSubsetOrdering(S), SUBSET S)
    BY FS_StrictSubsetOrderingWellFounded, FS_FiniteSubsetsOfFinite
  <1>3. PICK T \in Bad : \A U \in Bad : ~(<<U, T>> \in StrictSubsetOrdering(S))
    <2>1. Bad \subseteq SUBSET S
      OBVIOUS
    <2> HIDE DEF Bad
    <2>2. QED
      BY <1>1, <1>2, <2>1, WFMin
  <1>4. PICK x \in T : TRUE
    OBVIOUS
  <1>5. CASE T = {x}
    <2>1. Upto(f[x], f[x])
      BY UptoOrder
    <2>2. QED
      BY <1>5, <2>1
  <1>6. CASE T # {x}
    <2> DEFINE U == T \ {x}
    <2>1. U \in SUBSET S /\ U # {} /\ U # T /\ U \subseteq T
      BY <1>4, <1>6
    <2>2. <<U, T>> \in StrictSubsetOrdering(S)
      BY <2>1 DEF StrictSubsetOrdering
    <2>3. Top(U)
      BY <1>3, <2>1, <2>2
    <2>4. PICK m \in U : \A y \in U : Upto(f[y], f[m])
      BY <2>3
    <2>5. CASE Upto(f[x], f[m])
      BY <2>4, <2>5
    <2>6. CASE Upto(f[m], f[x])
      <3>1. \A y \in U : Upto(f[y], f[x])
        BY <2>4, <2>6, UptoOrder
      <3>2. Upto(f[x], f[x])
        BY UptoOrder
      <3>3. QED
        BY <3>1, <3>2
    <2>7. QED
      BY <2>5, <2>6, UptoOrder
  <1>7. QED
    BY <1>5, <1>6

LEMMA LastIsLast ==
    ASSUME NEW S \in SUBSET Position, IsFiniteSet(S), S # {}
    PROVE  LastOf(S) \in S /\ \A y \in S : Upto(y, LastOf(S))
  <1> DEFINE f == [x \in S |-> x]
  <1>1. f \in [S -> Position]
    OBVIOUS
  <1>2. \E x \in S : \A y \in S : Upto(f[y], f[x])
    BY <1>1, LargestExists
  <1>3. \E x \in S : \A y \in S : Upto(y, x)
    BY <1>2
  <1>4. QED
    BY <1>3 DEF LastOf

LEMMA FirstExists ==
    ASSUME NEW S \in SUBSET Position, IsFiniteSet(S), S # {}
    PROVE  \E x \in S : \A y \in S : Upto(x, y)
  <1> DEFINE f == [x \in S |-> At(-x.ledger, -x.pos)]
  <1>1. f \in [S -> Position]
    BY DEF Position, At
  <1> HIDE DEF f
  <1>2. PICK x \in S : \A y \in S : Upto(f[y], f[x])
    BY <1>1, LargestExists
  <1>3. ASSUME NEW y \in S
        PROVE  Upto(x, y)
    <2>1. f[x] = At(-x.ledger, -x.pos) /\ f[y] = At(-y.ledger, -y.pos)
      BY DEF f
    <2>2. Upto(At(-y.ledger, -y.pos), At(-x.ledger, -x.pos))
      BY <1>2, <2>1
    <2>3. x \in Position /\ y \in Position
      OBVIOUS
    <2>4. QED
      BY <2>2, <2>3 DEF Upto, At, Position
  <1>4. QED
    BY <1>3

\* A page has the first n items: it is closed downwards, and all of S when it
\* is not full.
LEMMA PageOfFirst ==
    ASSUME NEW S \in SUBSET Position, IsFiniteSet(S), NEW n \in Nat
    PROVE  /\ FirstOf(S, n) \subseteq S
           /\ \A x \in FirstOf(S, n) : \A y \in S : Upto(y, x) => y \in FirstOf(S, n)
           /\ Cardinality(FirstOf(S, n)) # n => FirstOf(S, n) = S
  <1> DEFINE Below(x) == {y \in S : Upto(y, x)}
             F == FirstOf(S, n)
  <1>1. F = {x \in S : Cardinality(Below(x)) <= n}
    BY DEF FirstOf
  <1>2. \A x \in S : IsFiniteSet(Below(x)) /\ Cardinality(Below(x)) \in Nat
    BY FS_Subset, FS_CardinalityType
  <1>3. F \subseteq S /\ IsFiniteSet(F) /\ Cardinality(F) \in Nat
    BY <1>1, FS_Subset, FS_CardinalityType
  <1> HIDE DEF F
  <1>4. ASSUME NEW x \in F, NEW y \in S, Upto(y, x)
        PROVE  y \in F
    <2>1. x \in S
      BY <1>1
    <2>2. Below(y) \subseteq Below(x)
      BY <1>4, <2>1, UptoOrder
    <2>3. Cardinality(Below(y)) <= Cardinality(Below(x))
      BY <1>2, <2>1, <2>2, FS_Subset
    <2>4. Cardinality(Below(x)) <= n
      BY <1>1
    <2>5. Cardinality(Below(x)) \in Nat /\ Cardinality(Below(y)) \in Nat
      BY <1>2, <2>1
    <2> HIDE DEF Below
    <2>6. Cardinality(Below(y)) <= n
      BY <2>3, <2>4, <2>5
    <2>7. QED
      BY <1>1, <2>6
  <1>5. ASSUME NEW x \in S, x \notin F
        PROVE  Cardinality(F) = n
    <2>1. S \ F \in SUBSET Position /\ IsFiniteSet(S \ F) /\ S \ F # {}
      BY <1>5, FS_Difference
    <2>2. PICK m \in S \ F : \A y \in S \ F : Upto(m, y)
      BY <2>1, FirstExists
    <2>3. Below(m) = F \cup {m}
      <3>1. ASSUME NEW y \in F
            PROVE  Upto(y, m)
        BY <1>3, <1>4, <2>2, UptoOrder
      <3>2. ASSUME NEW y \in S, Upto(y, m), y \notin F
            PROVE  y = m
        BY <2>2, <3>2, UptoOrder
      <3>3. Upto(m, m)
        BY UptoOrder
      <3>4. QED
        BY <1>3, <3>1, <3>2, <3>3
    <2>4. Cardinality(Below(m)) = Cardinality(F) + 1
      BY <1>3, <2>3, FS_AddElement
    <2>5. Cardinality(F) >= n
      BY <1>1, <1>2, <1>3, <2>2, <2>4
    <2>6. Cardinality(F) <= n
      <3>1. CASE F = {}
        BY <3>1, FS_EmptySet
      <3>2. CASE F # {}
        <4>1. F \in SUBSET Position
          BY <1>3
        <4>2. LastOf(F) \in F /\ \A y \in F : Upto(y, LastOf(F))
          BY <1>3, <3>2, <4>1, LastIsLast
        <4>3. F \subseteq Below(LastOf(F))
          BY <1>3, <4>2
        <4>4. LastOf(F) \in S /\ Cardinality(Below(LastOf(F))) <= n
          BY <1>1, <4>2
        <4>5. Cardinality(F) <= Cardinality(Below(LastOf(F)))
          BY <1>2, <4>3, <4>4, FS_Subset
        <4>6. Cardinality(Below(LastOf(F))) \in Nat
          BY <1>2, <4>4
        <4> HIDE DEF Below
        <4>7. QED
          BY <1>3, <4>4, <4>5, <4>6
      <3>3. QED
        BY <3>1, <3>2
    <2>7. QED
      BY <1>3, <2>5, <2>6
  <1>6. QED
    BY <1>3, <1>4, <1>5 DEF F

\* Last is the position after the last item of every ledger.
LEMMA LastIsBound ==
    ASSUME Ledger # {}
    PROVE  Last \in Nat \ {0} /\ \A l \in Ledger : Count[l] < Last
  <1> DEFINE f == [l \in Ledger |-> At(0, Count[l])]
  <1>1. IsFiniteSet(Ledger)
    BY ReadsAssumption, FS_Interval DEF Ledger
  <1>2. f \in [Ledger -> Position]
    BY ReadsAssumption DEF At, Position
  <1> HIDE DEF f
  <1>3. PICK l \in Ledger : \A k \in Ledger : Upto(f[k], f[l])
    BY <1>1, <1>2, LargestExists
  <1>4. ASSUME NEW k \in Ledger
        PROVE  Count[k] <= Count[l]
    <2>1. Upto(At(0, Count[k]), At(0, Count[l]))
      BY <1>3 DEF f
    <2>2. QED
      BY <2>1 DEF Upto, At
  <1>5. \E n \in {Count[k] : k \in Ledger} : \A k \in Ledger : Count[k] <= n
    BY <1>4
  <1>6. PICK n \in {Count[k] : k \in Ledger} : Last = 1 + n /\ \A k \in Ledger : Count[k] <= n
    BY <1>5 DEF Last
  <1>7. n \in Nat /\ \A k \in Ledger : Count[k] \in Nat
    BY <1>6, ReadsAssumption
  <1>8. QED
    BY <1>6, <1>7

LEMMA LedgerPositions ==
    ASSUME NEW L \in SUBSET Int, IsFiniteSet(L)
    PROVE  /\ {At(l, 0) : l \in L} \subseteq Position
           /\ IsFiniteSet({At(l, 0) : l \in L})
  <1> DEFINE P == {At(l, 0) : l \in L}
             f == [l \in L |-> At(l, 0)]
  <1>1. f \in Surjection(L, P)
    BY DEF Surjection
  <1>2. P \subseteq Position
    BY DEF At, Position
  <1> HIDE DEF f, P
  <1>3. IsFiniteSet(P)
    BY <1>1, FS_Surjection
  <1>4. QED
    BY <1>2, <1>3 DEF P

LEMMA FewItems ==
    ASSUME NEW m \in {"transactions", "events"}
    PROVE  /\ Items(m) \subseteq Position
           /\ IsFiniteSet(Items(m))
           /\ \A x \in Items(m) : x.ledger \in Ledger /\ x.pos \in 1..Last
  <1> DEFINE R == [ledger : Ledger, pos : 1..Last]
  <1>1. Items(m) = {x \in R : x.pos <= Count[x.ledger]}
    BY DEF Items
  <1>2. Items(m) \subseteq Position
    BY <1>1, ReadsAssumption DEF Ledger, Position
  <1>3. CASE Ledger = {}
    BY <1>1, <1>3, FS_EmptySet
  <1>4. CASE Ledger # {}
    <2> DEFINE D == Ledger \X (1..Last)
               f == [d \in D |-> At(d[1], d[2])]
    <2>1. IsFiniteSet(D)
      <3>1. IsFiniteSet(Ledger)
        BY ReadsAssumption, FS_Interval DEF Ledger
      <3>2. IsFiniteSet(1..Last)
        BY <1>4, LastIsBound, FS_Interval
      <3>3. QED
        BY <3>1, <3>2, FS_Product
    <2>2. \A r \in R : <<r.ledger, r.pos>> \in D /\ At(r.ledger, r.pos) = r
      BY DEF At
    <2>3. f \in [D -> R]
      BY DEF At
    <2>4. \A r \in R : \E d \in D : f[d] = r
      <3>1. ASSUME NEW r \in R PROVE \E d \in D : f[d] = r
        <4>1. f[<<r.ledger, r.pos>>] = At(r.ledger, r.pos)
          BY <2>2
        <4>2. QED
          BY <2>2, <4>1
      <3>2. QED
        BY <3>1
    <2>5. f \in Surjection(D, R)
      BY <2>3, <2>4 DEF Surjection
    <2> HIDE DEF f, D, R
    <2>6. IsFiniteSet(R)
      BY <2>1, <2>5, FS_Surjection
    <2>7. QED
      BY <1>1, <1>2, <2>6, FS_Subset DEF R
  <1>5. QED
    BY <1>3, <1>4

\* The query's conditions are implied by a match: each of them is the union of
\* what the filters allow, or open when a filter leaves it open.
LEMMA MatchIsSelected ==
    ASSUME NEW F, \A f \in F : \A t \in f.topics : IsTopics(t),
           NEW e, IsTopics(e.topics), Matches(F, e)
    PROVE  Selected(F, e)
  <1>1. CASE F = {}
    BY <1>1 DEF Selected, combineContractIDs, combineEventTypes, combineTopics
  <1>2. CASE F # {}
    <2>1. PICK f \in F : /\ f.contracts = {} \/ e.contract \in f.contracts
                         /\ f.types = {} \/ e.type \in f.types
                         /\ f.topics = {} \/ \E t \in f.topics : TopicMatches(t, e.topics)
      BY <1>2 DEF Matches
    <2>2. combineContractIDs(F) = {} \/ e.contract \in combineContractIDs(F)
      BY <2>1 DEF combineContractIDs
    <2>3. combineEventTypes(F) = {} \/ e.type \in combineEventTypes(F)
      BY <2>1 DEF combineEventTypes
    <2>4. ASSUME combineTopics(F) # {}
          PROVE  \E c \in combineTopics(F) :
                    \A s \in c : s[1] \in DOMAIN e.topics /\ e.topics[s[1]] = s[2]
      <3>1. /\ combineTopics(F) = {Conditions(t) : t \in UNION {g.topics : g \in F}}
            /\ f.topics # {}
        BY <2>4 DEF combineTopics
      <3>2. PICK t \in f.topics : TopicMatches(t, e.topics)
        BY <2>1, <3>1
      <3>3. Conditions(t) \in combineTopics(F)
        BY <3>1
      <3>4. DOMAIN t = DOMAIN e.topics
        BY <3>2 DEF TopicMatches, IsTopics
      <3>5. ASSUME NEW s \in Conditions(t)
            PROVE  s[1] \in DOMAIN e.topics /\ e.topics[s[1]] = s[2]
        <4>1. PICK i \in DOMAIN t : t[i] # Wildcard /\ s = <<i, t[i]>>
          BY DEF Conditions
        <4>2. s[1] = i /\ s[2] = t[i]
          BY <4>1
        <4>3. QED
          BY <3>2, <3>4, <4>1, <4>2 DEF TopicMatches
      <3>6. QED
        BY <3>3, <3>5
    <2>5. QED
      BY <2>2, <2>3, <2>4 DEF Selected
  <1>3. QED
    BY <1>1, <1>2

-----------------------------------------------------------------------------
(***************************************************************************)
(* The three paging handlers deliver pages that leave out nothing.         *)
(***************************************************************************)
LEMMA LedgersPage ==
    ASSUME StoreInv, CallInv, SessionInv, GetLedgers
    PROVE  Refuse \/ Delivered
  <1> DEFINE first == IF Continued THEN session.cursor.ledger + 1 ELSE session.start.ledger
             last == first + PageLimit - 1
             L == FetchedLedgers(first, last)
             page == {At(l, 0) : l \in L}
             cursor == IF page # {} THEN LastOf(page)
                       ELSE IF Continued THEN session.cursor ELSE At(first - 1, 0)
  <1>1. /\ session.method = "ledgers"
        /\ session.cursor \in Cursor /\ session.start \in Cursor
        /\ session.start.ledger \in Ledger /\ session.start.pos = 0
    BY DEF GetLedgers, CallInv, SessionInv, SessionType, Paged
  <1>2. first \in Int /\ last \in Int
    BY <1>1, ReadsAssumption DEF Cursor
  <1>3. SUFFICES ASSUME newest # 0, LedgersInRange(first), Deliver(page, cursor, TxLatest)
                 PROVE  Delivered
    BY DEF GetLedgers
  <1>4. TxLatest \in Ledger /\ session.seen <= TxLatest /\ TxLatest <= newest
    BY <1>3, ReadsAssumption
       DEF StoreInv, CallInv, CallType, TxLatest, LedgerOrNone, Ledger
  <1>5. first >= 1
    BY <1>2, <1>3 DEF LedgersInRange, AvailableFirst, StoreInv
  <1> HIDE DEF first, last
  <1>6. L \subseteq first..last
    BY <1>2 DEF FetchedLedgers, StoreInv
  <1>7. ASSUME NEW a \in L, NEW b \in Int, first <= b, b <= a
        PROVE  b \in L
    BY <1>2, <1>7, ReadsAssumption DEF FetchedLedgers, StoreInv, LedgerOrNone, Ledger
  <1> HIDE DEF L
  <1>8. IsFiniteSet(page) /\ page \in SUBSET Position /\ page \in SUBSET Cursor
    <2>1. L \in SUBSET Int /\ IsFiniteSet(L)
      <3>1. IsFiniteSet(first..last)
        BY <1>2, FS_Interval
      <3>2. L \in SUBSET (first..last) /\ first..last \subseteq Int
        BY <1>2, <1>6
      <3>3. QED
        BY <3>1, <3>2, FS_Subset
    <2>2. IsFiniteSet(page) /\ page \in SUBSET Position
      BY <2>1, LedgerPositions
    <2>3. \A l \in L : At(l, 0) \in Cursor
      BY <2>1 DEF At, Cursor
    <2>4. QED
      BY <2>2, <2>3
  <1>9. PageOK(page, cursor)
    <2>1. CASE page = {}
      <3>1. CASE Continued
        BY <1>1, <1>8, <2>1, <3>1 DEF PageOK, Continued, Upto, Cursor
      <3>2. CASE ~Continued
        <4>1. cursor = At(first - 1, 0) /\ first = session.start.ledger
          BY <2>1, <3>2 DEF first
        <4>2. cursor \in Cursor /\ cursor # NoCursor
          BY <1>1, <1>2, <4>1, ReadsAssumption DEF Cursor, At, NoCursor, Ledger
        <4>3. ASSUME NEW x \in Items("ledgers")
              PROVE  ~(Upto(session.start, x) /\ Upto(x, cursor))
          <5>1. PICK l \in Ledger : x = At(l, 0)
            BY DEF Items
          <5>2. l \in Int /\ x.ledger = l /\ cursor.ledger = first - 1
            BY <4>1, <5>1, ReadsAssumption DEF At, Ledger
          <5>3. QED
            BY <1>2, <4>1, <5>2 DEF Upto
        <4>4. QED
          BY <1>1, <1>8, <2>1, <3>2, <4>2, <4>3 DEF PageOK
      <3>3. QED
        BY <3>1, <3>2
    <2>2. CASE page # {}
      <3>1. cursor \in page /\ \A x \in page : Upto(x, cursor)
        BY <1>8, <2>2, LastIsLast
      <3>2. PICK a \in L : cursor = At(a, 0)
        BY <3>1
      <3>3. a \in Int /\ first <= a
        BY <1>2, <1>6
      <3>4. cursor \in Cursor /\ cursor # NoCursor
        BY <1>5, <1>2, <3>2, <3>3 DEF Cursor, At, NoCursor
      <3> HIDE DEF cursor
      <3>5. ASSUME NEW x \in page, Continued
            PROVE  ~Upto(x, session.cursor)
        <4>1. PICK l \in L : x = At(l, 0)
          OBVIOUS
        <4>2. l \in Int /\ l >= session.cursor.ledger + 1
          BY <1>2, <1>6, <3>5 DEF first
        <4>3. QED
          BY <1>1, <4>1, <4>2 DEF Upto, At, Cursor
      <3>6. ASSUME NEW x \in Items("ledgers"), Upto(session.start, x), Upto(x, cursor)
            PROVE  x \in page \/ (Continued /\ Upto(x, session.cursor))
        <4>1. PICK l \in Ledger : x = At(l, 0)
          BY DEF Items
        <4>2. l \in Int /\ l <= a /\ session.start.ledger <= l
          BY <1>1, <3>2, <3>3, <3>6, <4>1, ReadsAssumption DEF Upto, At, Ledger
        <4>3. CASE first <= l
          BY <1>7, <4>1, <4>2, <4>3
        <4>4. CASE ~(first <= l)
          <5>1. Continued /\ l <= session.cursor.ledger
            BY <1>1, <1>2, <4>2, <4>4 DEF first, Cursor
          <5>2. QED
            BY <1>1, <4>1, <4>2, <5>1 DEF Upto, At, Cursor
        <4>5. QED
          BY <4>3, <4>4
      <3>7. ASSUME Continued
            PROVE  Upto(session.cursor, cursor)
        BY <1>1, <1>2, <3>2, <3>3, <3>7 DEF first, Upto, At, Cursor
      <3>8. QED
        BY <1>1, <1>8, <3>1, <3>4, <3>5, <3>6, <3>7 DEF PageOK
    <2>3. QED
      BY <2>1, <2>2
  <1>10. QED
    BY <1>3, <1>4, <1>9 DEF Delivered

LEMMA TransactionsPage ==
    ASSUME StoreInv, CallInv, SessionInv, GetTransactions
    PROVE  Refuse \/ Delivered
  <1> DEFINE p == IF Continued THEN AfterCursor ELSE At(session.start.ledger, 1)
             S == TransactionsFrom(p, TxLatest)
             page == FirstOf(S, PageLimit)
             cursor == CursorAfterPage(p, page, TxLatest)
  <1>1. /\ session.method = "transactions"
        /\ session.cursor \in Cursor /\ session.start \in Cursor
        /\ session.start.ledger \in Ledger /\ session.start.pos = 0
    BY DEF GetTransactions, CallInv, SessionInv, SessionType, Paged
  <1>2. p \in Position
    BY <1>1, ReadsAssumption DEF Cursor, Position, AfterCursor, At, Ledger
  <1>3. SUFFICES ASSUME newest # 0, Deliver(page, cursor, TxLatest)
                 PROVE  Delivered
    BY DEF GetTransactions
  <1>4. TxLatest \in Ledger /\ session.seen <= TxLatest /\ TxLatest <= newest
    BY <1>3, ReadsAssumption
       DEF StoreInv, CallInv, CallType, TxLatest, LedgerOrNone, Ledger
  <1>5. \A x \in Items("transactions") :
           /\ x \in Position /\ x \in Cursor
           /\ Upto(session.start, x) => Upto(p, x) \/ (Continued /\ Upto(x, session.cursor))
    <2>1. ASSUME NEW x \in Items("transactions")
          PROVE  x \in Position /\ x \in Cursor /\ x.pos >= 1
      BY FewItems DEF Position, Cursor
    <2>2. ASSUME NEW x \in Items("transactions"), Upto(session.start, x)
          PROVE  Upto(p, x) \/ (Continued /\ Upto(x, session.cursor))
      BY <1>1, <2>1, <2>2 DEF Upto, AfterCursor, At, Cursor, Position
    <2>3. QED
      BY <2>1, <2>2
  <1> HIDE DEF p
  <1>6. /\ S \in SUBSET Items("transactions") /\ S \in SUBSET Position /\ IsFiniteSet(S)
    BY <1>5, FewItems, FS_Subset DEF TransactionsFrom
  <1> HIDE DEF S
  <1>7. /\ page \subseteq S
        /\ \A x \in page : \A y \in S : Upto(y, x) => y \in page
        /\ Cardinality(page) # PageLimit => page = S
    BY <1>6, ReadsAssumption, PageOfFirst
  <1> HIDE DEF page
  <1>8. page \in SUBSET Position /\ IsFiniteSet(page) /\ page \in SUBSET Cursor
    BY <1>5, <1>6, <1>7, FS_Subset
  <1>9. \A x \in page : x.ledger <= TxLatest
    BY <1>7 DEF S, TransactionsFrom
  <1>10. CASE p.ledger > TxLatest
    <2>1. cursor = NoCursor
      BY <1>10 DEF CursorAfterPage
    <2>2. PageOK(page, cursor)
      BY <1>1, <1>8, <2>1 DEF PageOK, NoCursor, At, Cursor
    <2>3. QED
      BY <1>3, <1>4, <2>2 DEF Delivered
  <1>11. CASE ~(p.ledger > TxLatest)
    <2>1. /\ cursor \in Cursor
          /\ cursor.ledger <= TxLatest
          /\ page = S \/ (cursor \in page)
      <3>1. CASE Cardinality(page) = PageLimit
        <4>1. page # {}
          BY <3>1, ReadsAssumption, FS_EmptySet
        <4>2. cursor = LastOf(page)
          BY <1>11, <3>1 DEF CursorAfterPage
        <4>3. QED
          BY <1>8, <1>9, <4>1, <4>2, LastIsLast
      <3>2. CASE Cardinality(page) # PageLimit
        <4>1. \E n \in Nat : cursor = At(TxLatest, n)
          BY <1>4, <1>11, <3>2, ReadsAssumption DEF CursorAfterPage
        <4>2. QED
          BY <1>4, <1>7, <3>2, <4>1, ReadsAssumption DEF At, Cursor, Ledger
      <3>3. QED
        BY <3>1, <3>2
    <2> HIDE DEF cursor
    <2>2. ASSUME NEW x \in Items("transactions"), Upto(session.start, x), Upto(x, cursor)
          PROVE  x \in page \/ (Continued /\ Upto(x, session.cursor))
      <3>1. x.ledger <= TxLatest
        BY <1>4, <1>5, <2>1, <2>2, ReadsAssumption DEF Upto, Position, Cursor, Ledger
      <3>2. CASE Upto(p, x)
        <4>1. x \in S
          BY <3>1, <3>2 DEF S, TransactionsFrom
        <4>2. QED
          BY <1>7, <2>1, <2>2, <4>1
      <3>3. QED
        BY <1>5, <2>2, <3>2
    <2>3. PageOK(page, cursor)
      BY <1>1, <1>8, <2>1, <2>2 DEF PageOK
    <2>4. QED
      BY <1>3, <1>4, <2>3 DEF Delivered, cursor
  <1>12. QED
    BY <1>10, <1>11

LEMMA EventsPage ==
    ASSUME StoreInv, CallInv, SessionInv, GetEvents
    PROVE  Refuse \/ Delivered
  <1> DEFINE F == session.filters
             p == AfterCursor
             S(end) == {x \in Items("events") :
                           /\ Upto(p, x) /\ x.ledger < end
                           /\ x.ledger \in oldest..newest
                           /\ Selected(F, EventData[x]) /\ Matches(F, EventData[x])}
             Page(end) == FirstOf(S(end), PageLimit)
             After(end) == IF Cardinality(Page(end)) = PageLimit THEN LastOf(Page(end))
                                                                 ELSE At(end - 1, Last)
  <1>1. /\ session.method = "events"
        /\ session.cursor \in Cursor /\ session.start \in Cursor /\ F \in FilterSets
        /\ session.start.ledger \in Ledger /\ session.start.pos = 0
        /\ call.latest \in Ledger
        /\ session.seen <= call.latest /\ call.latest <= newest
    BY DEF GetEvents, CallInv, CallType, LedgerOrNone, SessionInv, SessionType, Paged
  <1>2. p \in Position
    BY <1>1, ReadsAssumption DEF Cursor, Position, AfterCursor, At, Ledger
  <1>3. \E requested \in {0} \cup (IF Continued THEN {} ELSE session.start.ledger + 1..MaxLedger) :
           \/ Refuse
           \/ /\ ~(p.ledger > call.latest)
              /\ Deliver(Page(EndLedger(p, requested)), After(EndLedger(p, requested)), call.latest)
    BY DEF GetEvents, EventsFrom
  <1>4. PICK requested \in Nat :
           /\ Continued => requested = 0
           /\ \/ Refuse
              \/ /\ ~(p.ledger > call.latest)
                 /\ Deliver(Page(EndLedger(p, requested)), After(EndLedger(p, requested)),
                            call.latest)
    <2>1. \A n \in session.start.ledger + 1..MaxLedger : n \in Nat
      BY <1>1, ReadsAssumption DEF Ledger
    <2>2. QED
      BY <1>3, <2>1
  <1> DEFINE end == EndLedger(p, requested)
  <1>c. Continued => requested = 0
    BY <1>4
  <1>5. /\ end \in Int /\ end <= call.latest + 1
        /\ Continued /\ p.ledger <= call.latest => p.ledger <= end - 1
    <2>1. /\ p.ledger \in Int /\ call.latest \in Int /\ LedgerScanLimit \in Nat /\ LedgerScanLimit >= 1
          /\ requested \in Int
      BY <1>1, <1>2, ReadsAssumption DEF Position, Ledger
    <2> HIDE DEF p
    <2>2. end \in Int /\ end <= call.latest + 1
      BY <2>1 DEF EndLedger
    <2>3. ASSUME Continued, p.ledger <= call.latest
          PROVE  p.ledger <= end - 1
      BY <1>c, <2>1, <2>3 DEF EndLedger
    <2>4. QED
      BY <2>2, <2>3
  <1> HIDE DEF end
  <1> DEFINE T == S(end)
             page == Page(end)
             cursor == After(end)
  <1>6. SUFFICES ASSUME p.ledger <= call.latest, Deliver(page, cursor, call.latest)
                 PROVE  Delivered
    <2>1. ~(p.ledger > call.latest) => p.ledger <= call.latest
      BY <1>1, <1>2, ReadsAssumption DEF Position, Ledger
    <2>2. QED
      BY <1>4, <2>1 DEF end
  <1>7. \A x \in Items("events") :
           /\ x \in Position /\ x \in Cursor /\ x.ledger \in Ledger /\ x.pos \in 1..Last
           /\ Upto(session.start, x) => Upto(p, x) \/ (Continued /\ Upto(x, session.cursor))
           /\ Upto(p, x) => ~(Continued /\ Upto(x, session.cursor))
    <2>1. ASSUME NEW x \in Items("events")
          PROVE  x \in Position /\ x \in Cursor /\ x.ledger \in Ledger /\ x.pos \in 1..Last
      BY FewItems DEF Position, Cursor
    <2>2. ASSUME NEW x \in Items("events"), Upto(session.start, x)
          PROVE  Upto(p, x) \/ (Continued /\ Upto(x, session.cursor))
      BY <1>1, <2>1, <2>2 DEF Upto, AfterCursor, At, Cursor, Position
    <2>3. ASSUME NEW x \in Items("events"), Upto(p, x), Continued
          PROVE  ~Upto(x, session.cursor)
      BY <1>1, <2>1, <2>3 DEF Upto, AfterCursor, At, Cursor, Position
    <2>4. QED
      BY <2>1, <2>2, <2>3
  <1> HIDE DEF p
  <1>8. T \in SUBSET Items("events") /\ T \in SUBSET Position /\ IsFiniteSet(T)
    BY <1>7, FewItems, FS_Subset
  <1>9. ASSUME NEW x \in Items("events"), Matches(F, EventData[x])
        PROVE  Selected(F, EventData[x])
    BY <1>1, <1>9, EventsAssumption, MatchIsSelected
  <1>10. \A x \in T : Upto(p, x) /\ x.ledger < end
    OBVIOUS
  <1>11. ASSUME NEW x \in Items("events"), Upto(p, x), x.ledger < end, Matches(F, EventData[x])
         PROVE  x \in T \/ x.ledger < oldest
    <2>1. x.ledger \in Int /\ x.ledger <= newest
      BY <1>1, <1>5, <1>7, <1>11, ReadsAssumption DEF Ledger, StoreInv, LedgerOrNone
    <2>2. CASE x.ledger >= oldest
      BY <1>9, <1>11, <2>1, <2>2 DEF StoreInv, LedgerOrNone, Ledger
    <2>3. QED
      BY <2>1, <2>2 DEF StoreInv
  <1> HIDE DEF S
  <1>12. /\ page \subseteq T
         /\ \A x \in page : \A y \in T : Upto(y, x) => y \in page
         /\ Cardinality(page) # PageLimit => page = T
    BY <1>8, ReadsAssumption, PageOfFirst
  <1> HIDE DEF Page
  <1>13. page \in SUBSET Position /\ IsFiniteSet(page) /\ page \in SUBSET Cursor
    BY <1>7, <1>8, <1>12, FS_Subset
  <1>14. Last \in Nat \ {0}
    BY <1>1, LastIsBound
  <1>15. /\ cursor \in Cursor /\ cursor # NoCursor
         /\ cursor.ledger < end /\ cursor.pos <= Last
         /\ \A x \in page : Upto(x, cursor)
         /\ page = T \/ cursor \in page
         /\ Continued => Upto(session.cursor, cursor)
    <2>1. CASE Cardinality(page) = PageLimit
      <3>1. page # {} /\ cursor = LastOf(page)
        BY <2>1, ReadsAssumption, FS_EmptySet
      <3>2. cursor \in page /\ \A x \in page : Upto(x, cursor)
        BY <1>13, <3>1, LastIsLast
      <3>3. cursor.ledger \in Ledger /\ cursor.pos <= Last
        BY <1>7, <1>8, <1>12, <1>14, <3>2
      <3>4. cursor # NoCursor
        BY <3>3, ReadsAssumption DEF NoCursor, At, Ledger
      <3>5. cursor \in Position /\ session.cursor \in Position /\ ~(Continued /\ Upto(cursor, session.cursor))
        BY <1>1, <1>7, <1>8, <1>10, <1>12, <1>13, <3>2 DEF Position, Cursor
      <3>6. Continued => Upto(session.cursor, cursor)
        BY <3>5, UptoOrder
      <3>7. QED
        BY <1>10, <1>12, <1>13, <3>2, <3>3, <3>4, <3>6
    <2>2. CASE Cardinality(page) # PageLimit
      <3>1. cursor = At(end - 1, Last)
        BY <2>2
      <3>2. cursor \in Cursor /\ cursor # NoCursor /\ cursor.ledger < end
        BY <1>5, <1>14, <3>1 DEF Cursor, At, NoCursor
      <3>3. ASSUME NEW x \in page
            PROVE  Upto(x, cursor)
        <4>1. x.ledger \in Ledger /\ x.pos \in 1..Last /\ x.ledger < end
          BY <1>7, <1>8, <1>10, <1>12
        <4>2. QED
          BY <1>5, <1>14, <3>1, <4>1, ReadsAssumption DEF Upto, At, Ledger
      <3>4. ASSUME Continued
            PROVE  Upto(session.cursor, cursor)
        <4>1. session.cursor.ledger <= end - 1 /\ session.cursor.pos <= Last
          BY <1>1, <1>5, <1>6, <3>4 DEF p, AfterCursor, At, SessionInv
        <4>2. QED
          BY <1>1, <1>5, <1>14, <3>1, <4>1 DEF Upto, At, Cursor
      <3>5. cursor.pos <= Last
        BY <1>14, <3>1 DEF At
      <3>6. QED
        BY <1>12, <2>2, <3>2, <3>3, <3>4, <3>5
    <2>3. QED
      BY <2>1, <2>2
  <1> HIDE DEF After
  <1>16. ASSUME NEW x \in Items("events"), Wanted(x), Upto(session.start, x), Upto(x, cursor)
         PROVE  \/ x \in page
                \/ Continued /\ Upto(x, session.cursor)
                \/ x.ledger < oldest
    <2>1. x.ledger < end
      BY <1>5, <1>7, <1>15, <1>16 DEF Upto, Position, Cursor
    <2>2. CASE Upto(p, x)
      <3>1. Matches(F, EventData[x])
        BY <1>1, <1>16 DEF Wanted
      <3>2. x \in T \/ x.ledger < oldest
        BY <1>11, <2>1, <2>2, <3>1
      <3>3. QED
        BY <1>12, <1>15, <1>16, <3>2
    <2>3. QED
      BY <1>7, <1>16, <2>2
  <1>17. PageOK(page, cursor)
    BY <1>1, <1>7, <1>8, <1>10, <1>12, <1>13, <1>15, <1>16 DEF PageOK
  <1>18. QED
    BY <1>1, <1>6, <1>17 DEF Delivered

-----------------------------------------------------------------------------
(***************************************************************************)
(* What a step does to the client's session.                               *)
(***************************************************************************)
Stored ==
    /\ UNCHANGED <<session, call, asked, entries, lost>>
    /\ oldest <= oldest' /\ newest <= newest'
    /\ StoreInv'
\* The call goes on ...
Moves ==
    \/ /\ NewTx \/ CallGetEvents \/ QueryRange \/ RangeOfTransaction \/ QueryLatest
       /\ Quiet
       /\ UNCHANGED core
    \/ GetPreflightInfo \/ \E k \in Keys : SnapshotSourceGet(k) \/ SnapshotSourceFails(k)
    \/ RangeUnknown \/ SubmitTransaction
Moved == Moves /\ UNCHANGED <<session, store, core>>
\* ... a method other than the paging ones is called ...
Starts ==
    \/ (ReadTransaction \/ GetLatestLedgerSequence) /\ Quiet /\ UNCHANGED core
    \/ CallGetHealth \/ CallLatest("entries") \/ CallLatest("simulate") \/ CallSendTransaction
Started ==
    /\ Starts
    /\ call.pc = "idle"
    /\ session' = [NoSession EXCEPT !.seen = session.seen]
    /\ UNCHANGED <<store, core>>
\* ... or the call returns.
Told(n) ==
    /\ n \in LedgerOrNone /\ session.seen <= n /\ n <= newest
    /\ session' = [session EXCEPT !.seen = n]
Ended ==
    /\ call' = IdleCall
    /\ UNCHANGED <<store, core>>
    /\ UNCHANGED session \/ Delivered \/ \E n \in LedgerOrNone : Told(n)

\* A response tells the client of ledger n, or nothing when n is 0.
LEMMA Replied ==
    ASSUME StoreInv, CallInv, SessionInv, NEW a, Reply(a), a.latest \in LedgerOrNone,
           a.latest # 0 => session.seen <= a.latest /\ a.latest <= newest
    PROVE  Ended
  <1> DEFINE n == IF a.latest = 0 THEN session.seen ELSE a.latest
  <1>1. Told(n)
    BY ReadsAssumption
       DEF Told, Reply, StoreInv, SessionInv, SessionType, LedgerOrNone, Ledger
  <1>2. n \in LedgerOrNone
    BY <1>1 DEF Told
  <1>3. QED
    BY <1>1, <1>2 DEF Ended, Reply

LEMMA StepKinds ==
    ASSUME StoreInv, CallInv, SessionInv, [CoreNext]_allVars
    PROVE  \/ Stored \/ Moved \/ Started \/ Ended
           \/ NewSession /\ Quiet /\ UNCHANGED core
  <1>1. CASE CloseLedger
    BY <1>1, ReadsAssumption DEF Stored, StoreInv, SessionInv, SessionType, LedgerOrNone,
        Ledger, CloseLedger, Quiet, vars
  <1>2. CASE CommitLedger /\ newest' <= core /\ Quiet /\ UNCHANGED core
    BY <1>2, ReadsAssumption DEF Stored, StoreInv, SessionInv, SessionType, LedgerOrNone,
        Ledger, CommitLedger, Quiet
  <1>3. CASE UpdateCache /\ Quiet /\ UNCHANGED core
    BY <1>3, ReadsAssumption DEF Stored, StoreInv, SessionInv, SessionType, LedgerOrNone,
        Ledger, UpdateCache, Quiet
  <1>4. CASE FillCache /\ Quiet /\ UNCHANGED core
    BY <1>4, ReadsAssumption DEF Stored, StoreInv, SessionInv, SessionType, LedgerOrNone,
        Ledger, FillCache, Quiet
  <1>5. CASE NewSession /\ Quiet /\ UNCHANGED core
    BY <1>5
  <1>6. CASE NewTx /\ Quiet /\ UNCHANGED core
    BY <1>6 DEF Moves, Moved, NewTx, CacheReadable, Proceed, Quiet, store
  <1>7. CASE GetLedgers /\ Quiet /\ UNCHANGED core
    <2>1. Refuse \/ Delivered
      BY <1>7, LedgersPage
    <2>2. QED
      BY <1>7, <2>1 DEF Refuse, Delivered, Deliver, Ended
  <1>8. CASE GetTransactions /\ Quiet /\ UNCHANGED core
    <2>1. Refuse \/ Delivered
      BY <1>8, TransactionsPage
    <2>2. QED
      BY <1>8, <2>1 DEF Refuse, Delivered, Deliver, Ended
  <1>9. CASE CallGetEvents /\ Quiet /\ UNCHANGED core
    BY <1>9 DEF Moves, Moved, CallGetEvents, CopyCache, CacheReadable, Proceed, Quiet,
        store
  <1>10. CASE QueryRange /\ Quiet /\ UNCHANGED core
    BY <1>10 DEF Moves, Moved, Ended, QueryRange, RangeMethods, Refuse, Proceed, Quiet,
        store
  <1>11. CASE GetEvents /\ Quiet /\ UNCHANGED core
    <2>1. Refuse \/ Delivered
      BY <1>11, EventsPage
    <2>2. QED
      BY <1>11, <2>1 DEF Refuse, Delivered, Deliver, Ended
  <1>12. CASE ReadTransaction /\ Quiet /\ UNCHANGED core
    BY <1>12 DEF Starts, Started, ReadTransaction, Begin, Quiet, store
  <1>13. CASE RangeOfTransaction /\ Quiet /\ UNCHANGED core
    BY <1>13 DEF Moves, Moved, RangeOfTransaction, CopyCache, CacheReadable, Proceed,
        Quiet, store
  <1>14. CASE GetTransaction /\ Quiet /\ UNCHANGED core
    <2>1. Told(call.latest)
      BY <1>14 DEF Told, GetTransaction, Respond, CallInv, CallType, LedgerOrNone, Ledger
    <2>2. QED
      BY <1>14, <2>1 DEF Ended, Told, GetTransaction, Respond
  <1>15. CASE GetLatestLedgerSequence /\ Quiet /\ UNCHANGED core
    BY <1>15 DEF Starts, Started, GetLatestLedgerSequence, CacheReadable, Begin,
        LatestLedgerOf, Quiet, store
  <1>16. CASE QueryLatest /\ Quiet /\ UNCHANGED core
    BY <1>16 DEF Moves, Moved, Ended, QueryLatest, Refuse, Proceed, Quiet, store
  <1>17. CASE GetLedgerRaw /\ Quiet /\ UNCHANGED core
    <2> DEFINE n == IF RawLedgerFound(call.ledger) THEN call.ledger ELSE session.seen
    <2>1. Told(n)
      <3>1. /\ session.seen \in LedgerOrNone /\ session.seen \in Int /\ session.seen <= newest
            /\ call.ledger \in LedgerOrNone /\ session.seen <= call.ledger /\ call.ledger <= newest
        BY <1>17, ReadsAssumption
           DEF GetLedgerRaw, StoreInv, CallInv, SessionInv, SessionType, LedgerOrNone,
               Ledger
      <3>2. n \in LedgerOrNone /\ session.seen <= n /\ n <= newest
        BY <3>1
      <3>3. session' = [session EXCEPT !.seen = n]
        BY <1>17 DEF GetLedgerRaw
      <3>4. QED
        BY <3>2, <3>3 DEF Told
    <2>2. QED
      BY <1>17, <2>1 DEF Ended, Told, GetLedgerRaw
  <1>18. CASE CallFails /\ Quiet /\ UNCHANGED core
    BY <1>18 DEF Ended, CallFails, Refuse, Quiet, store
  <1>19. CASE CallGetHealth
    BY <1>19 DEF Starts, Started, CallGetHealth, CacheReadable, BeginCore, Begin, store
  <1>20. CASE GetHealth
    <2> DEFINE a == [NoAnswer EXCEPT !.method = "health", !.latest = call.latest]
    <2>1. a.latest = call.latest
      BY DEF NoAnswer
    <2>2. CASE Error
      BY <2>2 DEF Ended, Error, Continue, Proceed, store
    <2>3. CASE Reply(a)
      <3> HIDE DEF a
      <3>1. QED
        BY <2>1, <2>3, Replied DEF CallInv, CallType
    <2>4. QED
      BY <1>20, <2>2, <2>3 DEF GetHealth
  <1>21. CASE CallLatest("entries") \/ CallLatest("simulate")
    BY <1>21 DEF Starts, Started, CallLatest, CacheReadable, LatestLedgerOf, BeginCore,
        Begin, store
  <1>22. CASE GetLedgerEntries
    <2> DEFINE a(K) == [NoAnswer EXCEPT !.method = "entries", !.latest = call.ledger,
                                        !.asked = K, !.entries = EntriesAt(AtLedger, K)]
    <2>1. PICK K \in SUBSET Keys : Reply(a(K)) \/ Error
      BY <1>22 DEF GetLedgerEntries
    <2>2. a(K).latest = call.ledger
      BY DEF NoAnswer
    <2>3. CASE Error
      BY <2>3 DEF Ended, Error, Continue, Proceed, store
    <2>4. CASE Reply(a(K))
      <3> HIDE DEF a
      <3>1. call.ledger \in LedgerOrNone /\ session.seen <= call.ledger /\ call.ledger <= newest
        BY <1>22 DEF GetLedgerEntries, CallInv, LedgerOrNone
      <3>2. QED
        BY <2>2, <2>4, <3>1, Replied
    <2>5. QED
      BY <2>1, <2>3, <2>4
  <1>23. CASE GetPreflightInfo
    <2> DEFINE a == [NoAnswer EXCEPT !.method = "failed", !.latest = call.ledger]
    <2>1. a.latest = call.ledger
      BY DEF NoAnswer
    <2>2. call.ledger \in LedgerOrNone /\ session.seen <= call.ledger /\ call.ledger <= newest
      BY <1>23 DEF GetPreflightInfo, CallInv, LedgerOrNone
    <2>3. CASE Reply(a)
      <3> HIDE DEF a
      <3>1. QED
        BY <2>1, <2>2, <2>3, Replied
    <2>4. QED
      BY <1>23, <2>3
         DEF GetPreflightInfo, SimulationError, Moves, Moved, Continue, Proceed, store
  <1>24. CASE SimulationAnswers
    <2> DEFINE a == [NoAnswer EXCEPT !.method = "failed", !.latest = call.ledger]
               b == [method |-> "simulate", latest |-> call.ledger, meta |-> call.first,
                     asked |-> asked, entries |-> entries, lost |-> lost]
    <2>1. a.latest = call.ledger /\ b.latest = call.ledger
      BY DEF NoAnswer
    <2>2. call.ledger \in LedgerOrNone /\ session.seen <= call.ledger /\ call.ledger <= newest
      BY <1>24 DEF SimulationAnswers, CallInv, LedgerOrNone
    <2>3. Reply(a) \/ Reply(b)
      BY <1>24 DEF SimulationAnswers, SimulationError
    <2> HIDE DEF a, b
    <2>4. QED
      BY <2>1, <2>2, <2>3, Replied
  <1>25. CASE \E k \in Keys : SnapshotSourceGet(k)
    BY <1>25 DEF Moves, Moved, SnapshotSourceGet, AtLedger, Continue, Proceed, IdleCall,
        store
  <1>26. CASE \E k \in Keys : SnapshotSourceFails(k)
    BY <1>26 DEF Moves, Moved, SnapshotSourceFails, Continue, Proceed, IdleCall, store
  <1>27. CASE CallSendTransaction
    BY <1>27 DEF Starts, Started, CallSendTransaction, CacheReadable, BeginCore, Begin,
        store
  <1>28. CASE RangeUnknown
    BY <1>28 DEF Moves, Moved, RangeUnknown, Continue, Proceed, store
  <1>29. CASE SubmitTransaction
    BY <1>29 DEF Moves, Moved, SubmitTransaction, Continue, Proceed, store
  <1>30. CASE SendTransaction \/ TransactionRefused
    <2> DEFINE a == [NoAnswer EXCEPT !.method = "send", !.latest = call.latest, !.meta = call.ledger]
               b == [NoAnswer EXCEPT !.method = "refused", !.latest = call.latest]
    <2>1. a.latest = call.latest /\ b.latest = call.latest
      BY DEF NoAnswer
    <2>2. Reply(a) \/ Reply(b)
      BY <1>30 DEF SendTransaction, TransactionRefused
    <2> HIDE DEF a, b
    <2>3. QED
      BY <2>1, <2>2, Replied DEF CallInv, CallType
  <1>31. CASE UNCHANGED allVars
    BY <1>31, ReadsAssumption
       DEF Stored, StoreInv, LedgerOrNone, Ledger, allVars, vars, coreVars
  <1>32. QED
    BY <1>1, <1>2, <1>3, <1>4, <1>5, <1>6, <1>7, <1>8, <1>9, <1>10, <1>11, <1>12, <1>13,
        <1>14, <1>15, <1>16, <1>17, <1>18, <1>19, <1>20, <1>21, <1>22, <1>23, <1>24,
        <1>25, <1>26, <1>27, <1>28, <1>29, <1>30, <1>31 DEF CoreNext, Ingested, Ingestion,
        ReadsStep, CallStep, CoreStep

-----------------------------------------------------------------------------
(***************************************************************************)
(* Every step keeps the invariant, part by part.                           *)
(***************************************************************************)
LEMMA ToldFields ==
    ASSUME session \in SessionType, NEW n, Told(n)
    PROVE  /\ session' \in SessionType /\ session'.seen = n
           /\ session'.method = session.method /\ session'.filters = session.filters
           /\ session'.start = session.start /\ session'.cursor = session.cursor
           /\ session'.got = session.got /\ session'.repeated = session.repeated
  BY DEF Told, SessionType

LEMMA NoSessionType ==
    /\ NoCursor \in Cursor
    /\ NoSession \in [method : {"none"}, filters : {{}}, start : {NoCursor}, cursor : {NoCursor},
                      got : {{}}, repeated : {FALSE}, seen : {0}]
  BY DEF NoSession, NoCursor, At, Cursor

LEMMA StartedFields ==
    ASSUME session \in SessionType, session' = [NoSession EXCEPT !.seen = session.seen]
    PROVE  /\ session' \in SessionType /\ session'.seen = session.seen
           /\ session'.method = "none" /\ session'.cursor = NoCursor
           /\ session'.got = {}
  <1>1. {} \in FilterSets /\ session.seen \in LedgerOrNone
    BY EventsAssumption DEF SessionType
  <1>2. QED
    BY <1>1, NoSessionType DEF SessionType

LEMMA NewSessionFields ==
    ASSUME session \in SessionType, NewSession
    PROVE  /\ session' \in SessionType /\ session'.seen = session.seen
           /\ session'.start.ledger \in Ledger /\ session'.start.pos = 0
           /\ session'.cursor = NoCursor /\ session'.got = {} /\ ~session'.repeated
  <1>1. PICK m \in Paged, l \in Ledger : \E F \in IF m = "events" THEN FilterSets ELSE {{}} :
           session' = [NoSession EXCEPT !.method = m, !.filters = F, !.start = At(l, 0),
                                        !.seen = session.seen]
    BY DEF NewSession
  <1>2. PICK F \in FilterSets :
           session' = [NoSession EXCEPT !.method = m, !.filters = F, !.start = At(l, 0),
                                        !.seen = session.seen]
    BY <1>1, EventsAssumption
  <1>3. /\ At(l, 0) \in Cursor /\ At(l, 0).ledger = l /\ At(l, 0).pos = 0
        /\ session.seen \in LedgerOrNone
    BY ReadsAssumption DEF At, Cursor, Ledger, SessionType
  <1>4. QED
    BY <1>2, <1>3, NoSessionType DEF SessionType

LEMMA DeliveredFields ==
    ASSUME session \in SessionType, NEW page \in SUBSET Cursor, NEW cursor \in Cursor,
           NEW latest \in LedgerOrNone, Deliver(page, cursor, latest)
    PROVE  /\ session' \in SessionType /\ session'.seen = latest
           /\ session'.method = session.method /\ session'.filters = session.filters
           /\ session'.start = session.start /\ session'.cursor = cursor
           /\ session'.got = session.got \cup page
           /\ session'.repeated = (session.repeated \/ page \cap session.got # {})
  BY DEF Deliver, SessionType

LEMMA StoreStep ==
    ASSUME StoreInv, CallInv, SessionInv, [CoreNext]_allVars
    PROVE  StoreInv'
  <1>1. CASE Stored
    BY <1>1 DEF Stored
  <1>2. CASE UNCHANGED <<store, core>> /\ session'.seen <= newest
    BY <1>2 DEF StoreInv, store
  <1>3. session \in SessionType
    BY DEF SessionInv
  <1>4. CASE Moved
    BY <1>2, <1>4 DEF Moved, StoreInv
  <1>5. CASE Started
    BY <1>2, <1>3, <1>5, StartedFields DEF Started, StoreInv
  <1>6. CASE NewSession /\ UNCHANGED core
    BY <1>2, <1>3, <1>6, NewSessionFields DEF NewSession, StoreInv
  <1>7. CASE Ended
    <2>1. CASE UNCHANGED session
      BY <1>2, <1>7, <2>1 DEF Ended, StoreInv
    <2>2. CASE Delivered
      BY <1>2, <1>3, <1>7, <2>2, DeliveredFields
         DEF Ended, Delivered, PageOK, LedgerOrNone
    <2>3. CASE \E n \in LedgerOrNone : Told(n)
      BY <1>2, <1>3, <1>7, <2>3, ToldFields DEF Ended, Told
    <2>4. QED
      BY <1>7, <2>1, <2>2, <2>3 DEF Ended
  <1>8. QED
    BY <1>1, <1>4, <1>5, <1>6, <1>7, StepKinds

LEMMA SessionStep ==
    ASSUME StoreInv, CallInv, SessionInv, [CoreNext]_allVars
    PROVE  SessionInv' /\ session'.seen >= session.seen
  <1>1. session \in SessionType /\ session.seen \in Int
    BY ReadsAssumption DEF SessionInv, SessionType, LedgerOrNone, Ledger
  <1> DEFINE Goal == SessionInv' /\ session'.seen >= session.seen
  <1>2. CASE session' = session /\ oldest <= oldest'
    <2>1. \A m : \A x \in Items(m) : x.ledger \in Int
      BY ReadsAssumption DEF Items, At, Ledger
    <2>2. oldest \in Int /\ oldest' \in Int
      BY StoreStep DEF StoreInv
    <2>3. QED
      BY <1>1, <1>2, <2>1, <2>2 DEF SessionInv, PagesSkipNothing, Continued, Wanted
  <1>3. CASE Started
    BY <1>1, <1>3, StartedFields
       DEF Started, SessionInv, PagesSkipNothing, Continued, Paged
  <1>4. CASE NewSession
    <2>1. Ledger # {}
      BY <1>4 DEF NewSession
    <2>2. NoCursor.pos = 0 /\ 0 <= Last
      BY <2>1, LastIsBound DEF NoCursor, At
    <2>3. QED
      BY <1>1, <1>4, <2>2, NewSessionFields DEF SessionInv, PagesSkipNothing, Continued
  <1>5. ASSUME NEW n, Told(n), UNCHANGED store
        PROVE  Goal
    BY <1>1, <1>5, ToldFields
       DEF Told, store, SessionInv, PagesSkipNothing, Continued, Wanted
  <1>6. CASE Delivered
    <2>1. PICK page, cursor, latest :
             /\ PageOK(page, cursor)
             /\ latest \in Ledger /\ session.seen <= latest /\ latest <= newest
             /\ Deliver(page, cursor, latest)
      BY <1>6 DEF Delivered
    <2>2. /\ session' \in SessionType /\ session'.seen = latest
          /\ session'.method = session.method /\ session'.filters = session.filters
          /\ session'.start = session.start /\ session'.cursor = cursor
          /\ session'.got = session.got \cup page
          /\ session'.repeated = (session.repeated \/ page \cap session.got # {})
          /\ UNCHANGED store
      BY <1>1, <2>1, DeliveredFields DEF PageOK, LedgerOrNone, Deliver
    <2>3. PagesSkipNothing'
      BY <2>1, <2>2 DEF PageOK, SessionInv, PagesSkipNothing, Continued, Wanted, store
    <2>4. ASSUME session.method \in {"ledgers", "events"}
          PROVE  /\ ~session'.repeated
                 /\ \A x \in session'.got : Continued' /\ Upto(x, session'.cursor)
      <3>1. /\ cursor # NoCursor /\ cursor \in Cursor /\ page \in SUBSET Cursor
            /\ Continued => Upto(session.cursor, cursor)
            /\ \A x \in page : Upto(x, cursor) /\ ~(Continued /\ Upto(x, session.cursor))
        BY <2>1, <2>4 DEF PageOK
      <3>2. /\ ~session.repeated
            /\ \A x \in session.got : Continued /\ Upto(x, session.cursor)
        BY <2>4 DEF SessionInv
      <3>3. page \cap session.got = {}
        BY <3>1, <3>2
      <3>4. ASSUME NEW x \in session.got
            PROVE  Upto(x, cursor)
        <4>1. x \in Position /\ cursor \in Position /\ session.cursor \in Position
          BY <1>1, <3>1 DEF SessionType, Cursor, Position
        <4>2. QED
          BY <3>1, <3>2, <4>1, UptoOrder
      <3>5. QED
        BY <2>2, <3>1, <3>2, <3>3, <3>4 DEF Continued
    <2>5. QED
      BY <1>1, <2>1, <2>2, <2>3, <2>4, ReadsAssumption DEF SessionInv, Ledger, PageOK
  <1>7. QED
    BY <1>2, <1>3, <1>4, <1>5, <1>6, StepKinds DEF Stored, Moved, Ended, store, StoreInv

LEMMA IdleFields ==
    /\ IdleCall \in CallType
    /\ IdleCall \in [pc : {"idle"}, method : {"none"}, latest : {0}, first : {0}, ledger : {0},
                     found : {FALSE}]
  BY DEF IdleCall, CallType, LedgerOrNone

\* What a call has after it has copied the cache, and after it has asked for
\* the latest ledger.
LEMMA CopiedFields ==
    ASSUME StoreInv, NEW c \in CallType, CopyCache(c)
    PROVE  /\ call' \in CallType /\ call'.method = c.method /\ call'.ledger = c.ledger
           /\ call'.found = c.found /\ call'.latest = cached
           /\ call'.pc = "range" \/ (call'.pc = "read" /\ cached # 0)
           /\ cached \in {0, newest}
  <1>1. cached \in LedgerOrNone /\ oldest \in Nat /\ cached \in {0, newest}
    BY DEF CopyCache, CacheReadable, StoreInv
  <1>2. CASE call' = [c EXCEPT !.pc = "range", !.latest = cached]
    BY <1>1, <1>2 DEF CallType
  <1>3. CASE cached # 0 /\ call' = [c EXCEPT !.pc = "read", !.latest = cached, !.first = oldest]
    BY <1>1, <1>3 DEF CallType
  <1>4. QED
    BY <1>2, <1>3 DEF CopyCache, Proceed

LEMMA LatestFields ==
    ASSUME StoreInv, CacheReadable, NEW m \in {"latestLedger", "entries", "simulate"}, NEW c,
           c = LatestLedgerOf(m)
    PROVE  /\ c \in CallType /\ c.method = m /\ c.latest = 0 /\ c.ledger = cached
           /\ c.pc = (IF cached # 0 THEN "raw" ELSE "seq")
           /\ cached \in {0, newest}
  <1>1. cached \in LedgerOrNone /\ cached \in Nat /\ cached \in {0, newest}
    BY ReadsAssumption DEF CacheReadable, StoreInv, LedgerOrNone, Ledger
  <1>2. QED
    BY <1>1, IdleFields DEF LatestLedgerOf, CallType

LEMMA CallInvStep ==
    ASSUME StoreInv, CallInv, SimulationInv, SessionInv, [CoreNext]_allVars
    PROVE  CallInv' /\ SimulationInv'
  <1>1. session \in SessionType /\ session.seen \in Int
    BY ReadsAssumption DEF SessionInv, SessionType, LedgerOrNone, Ledger
  <1>2. CASE Ended
    BY <1>2, IdleFields DEF Ended, CallInv, SimulationInv, Paged
  <1>3. CASE Stored
    BY <1>3, ReadsAssumption
       DEF Stored, CallInv, SimulationInv, CallType, StoreInv, LedgerOrNone, Ledger
  <1>4. CASE NewSession
    BY <1>4, IdleFields DEF NewSession, CallInv, SimulationInv, Paged
  <1>5. CASE Moved
    <2>0. /\ UNCHANGED <<session, newest>>
          /\ call \in CallType /\ newest \in LedgerOrNone /\ newest \in Nat /\ oldest \in Nat
          /\ session.seen <= newest
          /\ \A l \in Ledger : l \in Nat /\ l # 0
          /\ \A l \in LedgerOrNone : l \in Nat /\ (l # 0 => l \in Ledger)
      BY <1>5, ReadsAssumption DEF Moved, store, StoreInv, CallInv, LedgerOrNone, Ledger
    <2>1. CASE NewTx
      <3>1. /\ call' = [IdleCall EXCEPT !.pc = "range", !.method = session.method, !.latest = cached]
            /\ session.method \in {"ledgers", "transactions"}
            /\ cached \in LedgerOrNone /\ cached \in {0, newest}
        BY <2>1 DEF NewTx, CacheReadable, Proceed, StoreInv
      <3>2. call' \in CallType /\ call'.pc = "range" /\ call'.method = session.method
               /\ call'.latest = cached
        BY <3>1, IdleFields DEF CallType, Paged
      <3>3. QED
        BY <1>1, <2>0, <3>1, <3>2 DEF CallInv, SimulationInv, Paged
    <2>2. CASE CallGetEvents
      <3> DEFINE c == [IdleCall EXCEPT !.method = "events"]
      <3>1. c \in CallType /\ c.method = "events"
        BY IdleFields DEF CallType, Paged
      <3>2. CopyCache(c) /\ session.method = "events"
        BY <2>2 DEF CallGetEvents
      <3> HIDE DEF c
      <3>3. QED
        BY <1>1, <2>0, <3>1, <3>2, CopiedFields DEF CallInv, SimulationInv, Paged
    <2>3. CASE QueryRange
      <3>1. CASE newest = 0
        BY <2>3, <3>1, IdleFields DEF QueryRange, Refuse, CallInv, SimulationInv, Paged
      <3>2. CASE newest # 0
        <4> DEFINE a == IF call.latest = 0 THEN newest ELSE call.latest
        <4>1. call' = [call EXCEPT !.pc = "read", !.first = oldest, !.latest = a]
          BY <2>3, <3>2 DEF QueryRange, Proceed
        <4>2. a \in LedgerOrNone /\ a # 0 /\ session.seen <= a /\ a <= newest
          BY <2>0, <3>2 DEF CallInv, CallType
        <4> HIDE DEF a
        <4>3. /\ call' \in CallType /\ call'.pc = "read" /\ call'.method = call.method
              /\ call'.latest = a /\ call'.ledger = call.ledger /\ call'.found = call.found
          BY <2>0, <4>1, <4>2 DEF CallType
        <4>4. call.method = "transaction" /\ call.found => call.ledger <= a
          BY <2>0 DEF CallInv, a
        <4>5. QED
          BY <2>0, <4>2, <4>3, <4>4 DEF CallInv, SimulationInv
      <3>3. QED
        BY <3>1, <3>2
    <2>4. CASE RangeOfTransaction
      <3>1. CopyCache(call) /\ call.latest = 0 /\ call.pc = "found"
        BY <2>4 DEF RangeOfTransaction, CallInv
      <3>2. QED
        BY <1>1, <2>0, <3>1, CopiedFields DEF CallInv, SimulationInv
    <2>5. CASE QueryLatest /\ Quiet
      <3>1. CASE newest = 0
        BY <2>5, <3>1, IdleFields DEF QueryLatest, Refuse, CallInv, SimulationInv, Paged
      <3>2. CASE newest # 0
        <4>1. call' = [call EXCEPT !.pc = "raw", !.ledger = newest]
          BY <2>5, <3>2 DEF QueryLatest, Proceed
        <4>2. /\ call' \in CallType /\ call'.pc = "raw" /\ call'.method = call.method
              /\ call'.latest = call.latest /\ call'.ledger = newest /\ call'.found = call.found
          BY <2>0, <4>1 DEF CallType
        <4>3. call.method \in {"latestLedger", "entries", "simulate"}
          BY <2>5 DEF QueryLatest, CallInv
        <4>4. call.pc = "seq" /\ UNCHANGED <<asked, entries, lost>>
          BY <2>5 DEF QueryLatest, Quiet
        <4>5. QED
          BY <1>1, <2>0, <3>2, <4>2, <4>3, <4>4 DEF CallInv, SimulationInv, Paged
      <3>3. QED
        BY <3>1, <3>2
    <2>6. CASE GetPreflightInfo
      <3>1. CASE call' = IdleCall
        BY <3>1, IdleFields DEF CallInv, SimulationInv, Paged
      <3>2. CASE /\ call' = [call EXCEPT !.pc = "simulate", !.first = call.ledger]
                 /\ UNCHANGED <<asked, entries, lost>>
        <4>1. /\ call' \in CallType /\ call'.pc = "simulate" /\ call'.method = call.method
              /\ call'.latest = call.latest /\ call'.ledger = call.ledger
              /\ call'.found = call.found /\ call'.first = call.ledger
          BY <2>0, <3>2 DEF CallType
        <4>2. CallInv'
          BY <2>0, <2>6, <4>1 DEF CallInv, GetPreflightInfo
        <4>3. asked' = {} /\ entries' = {} /\ lost' = {} /\ call.method = "simulate"
          BY <2>6, <3>2 DEF SimulationInv, GetPreflightInfo
        <4>4. EntriesAt(call.ledger, {})' = {} /\ {} \ {} = {}
          BY DEF EntriesAt
        <4>5. SimulationInv'
          BY <4>1, <4>3, <4>4 DEF SimulationInv, EntriesAt
        <4>6. QED
          BY <4>2, <4>5
      <3>3. QED
        BY <2>6, <3>1, <3>2
           DEF GetPreflightInfo, SimulationError, Reply, Continue, Proceed
    <2>7. CASE \E k \in Keys : SnapshotSourceGet(k) \/ SnapshotSourceFails(k)
      <3>1. PICK k \in Keys : SnapshotSourceGet(k) \/ SnapshotSourceFails(k)
        BY <2>7
      <3>2. call' = call /\ call.pc = "simulate"
        BY <3>1 DEF SnapshotSourceGet, SnapshotSourceFails, Continue, Proceed
      <3>3. CallInv'
        BY <2>0, <3>2 DEF CallInv
      <3>4. CASE SnapshotSourceGet(k)
        <4>1. /\ asked' = asked \cup {k} /\ lost' = lost /\ k \notin asked
              /\ entries' = entries \cup EntriesAt(call.ledger, {k})
          BY <3>4 DEF SnapshotSourceGet, AtLedger
        <4>2. lost \subseteq asked /\ entries = EntriesAt(call.ledger, asked \ lost)
          BY <2>0, <3>2 DEF SimulationInv
        <4>3. asked' \ lost' = (asked \ lost) \cup {k} /\ lost' \subseteq asked'
          BY <4>1, <4>2
        <4>4. \A K : EntriesAt(call.ledger, K \cup {k}) =
                        EntriesAt(call.ledger, K) \cup EntriesAt(call.ledger, {k})
          BY DEF EntriesAt
        <4>5. entries' = EntriesAt(call.ledger, asked' \ lost')
          BY <4>1, <4>2, <4>3, <4>4
        <4>6. QED
          BY <2>0, <3>2, <3>3, <4>3, <4>5 DEF SimulationInv, EntriesAt
      <3>5. CASE SnapshotSourceFails(k)
        <4>1. /\ asked' = asked \cup {k} /\ lost' = lost \cup {k} /\ k \notin asked
              /\ entries' = entries
          BY <3>5 DEF SnapshotSourceFails
        <4>2. asked' \ lost' = asked \ lost
          BY <4>1
        <4>3. QED
          BY <2>0, <3>2, <3>3, <4>1, <4>2 DEF SimulationInv, EntriesAt
      <3>6. QED
        BY <3>1, <3>4, <3>5
    <2>8. CASE RangeUnknown
      <3>1. call' = [call EXCEPT !.pc = "read", !.latest = 0] /\ call.method = "send"
        BY <2>8 DEF RangeUnknown, Continue, Proceed
      <3>2. call' \in CallType /\ call'.pc = "read" /\ call'.method = "send" /\ call'.latest = 0
        BY <2>0, <3>1 DEF CallType, LedgerOrNone
      <3>3. QED
        BY <3>2 DEF CallInv, SimulationInv, Paged
    <2>9. CASE SubmitTransaction
      <3>1. /\ call' = [call EXCEPT !.pc = "submitted", !.ledger = core + 1]
            /\ call.method = "send" /\ core \in Nat /\ newest <= core
        BY <2>9 DEF SubmitTransaction, Continue, Proceed, StoreInv
      <3>2. /\ call' \in CallType /\ call'.pc = "submitted" /\ call'.method = "send"
            /\ call'.latest = call.latest /\ call'.ledger = core + 1
        <4>1. core + 1 \in Nat
          BY <3>1
        <4>2. QED
          BY <2>0, <3>1, <4>1 DEF CallType
      <3>3. call.latest \in Nat /\ call.latest <= newest
        <4>1. call.latest \in LedgerOrNone
          BY <2>0 DEF CallType
        <4>2. call.latest \in Nat /\ (call.latest # 0 => call.latest <= newest)
          BY <2>0, <4>1 DEF CallInv
        <4>3. QED
          BY <2>0, <4>2
      <3>4. QED
        BY <2>0, <3>1, <3>2, <3>3 DEF CallInv, SimulationInv, Paged
    <2>10. QED
      BY <1>5, <2>1, <2>2, <2>3, <2>4, <2>5, <2>6, <2>7, <2>8, <2>9 DEF Moved, Moves
  <1>6. CASE Started
    <2>0. /\ session'.seen = session.seen /\ session'.method = "none" /\ newest' = newest
          /\ newest \in LedgerOrNone /\ newest \in Nat /\ oldest \in Nat
          /\ cached \in LedgerOrNone
          /\ session.seen <= newest
          /\ \A l \in Ledger : l \in Nat /\ l # 0
          /\ \A l \in LedgerOrNone : l \in Nat /\ (l # 0 => l \in Ledger)
      BY <1>1, <1>6, StartedFields, ReadsAssumption
         DEF Started, store, StoreInv, LedgerOrNone, Ledger
    <2>1. CASE ReadTransaction
      <3>1. PICK l \in Ledger : call' = [IdleCall EXCEPT !.pc = "found", !.method = "transaction",
                                                         !.ledger = l, !.found = l \in oldest..newest]
        BY <2>1 DEF ReadTransaction, Begin
      <3> DEFINE b == l \in oldest..newest
      <3>2. b \in BOOLEAN
        OBVIOUS
      <3>3. l \in Nat /\ (b => l <= newest)
        BY <2>0
      <3>4. call' = [IdleCall EXCEPT !.pc = "found", !.method = "transaction", !.ledger = l,
                                     !.found = b]
        BY <3>1
      <3> HIDE DEF b
      <3>5. /\ call' \in CallType /\ call'.pc = "found" /\ call'.method = "transaction"
            /\ call'.latest = 0 /\ call'.ledger = l /\ call'.found = b
        BY <3>2, <3>3, <3>4, IdleFields DEF CallType
      <3>6. QED
        BY <2>0, <3>3, <3>5 DEF CallInv, SimulationInv, Paged
    <2>2. CASE GetLatestLedgerSequence
      <3>1. CacheReadable /\ call' = LatestLedgerOf("latestLedger")
        BY <2>2 DEF GetLatestLedgerSequence, Begin
      <3>2. QED
        BY <1>1, <2>0, <3>1, LatestFields DEF CallInv, SimulationInv, Paged
    <2>3. CASE CallGetHealth
      <3>1. cached \in {0, newest}
        BY <2>3 DEF CallGetHealth, CacheReadable, StoreInv
      <3>2. CASE call' = [IdleCall EXCEPT !.pc = "range", !.method = "health", !.latest = cached]
        <4>1. call' \in CallType /\ call'.pc = "range" /\ call'.method = "health" /\ call'.latest = cached
          BY <2>0, <3>2, IdleFields DEF CallType
        <4>2. QED
          BY <1>1, <2>0, <3>1, <4>1 DEF CallInv, SimulationInv, Paged
      <3>3. CASE /\ cached # 0
                 /\ call' = [IdleCall EXCEPT !.pc = "read", !.method = "health", !.latest = cached,
                                             !.first = oldest]
        <4>1. call' \in CallType /\ call'.pc = "read" /\ call'.method = "health" /\ call'.latest = cached
          BY <2>0, <3>3, IdleFields DEF CallType
        <4>2. QED
          BY <1>1, <2>0, <3>1, <3>3, <4>1 DEF CallInv, SimulationInv, Paged
      <3>4. QED
        BY <2>3, <3>2, <3>3 DEF CallGetHealth, BeginCore, Begin
    <2>4. CASE CallLatest("entries") \/ CallLatest("simulate")
      <3>1. /\ \E m \in {"entries", "simulate"} : CacheReadable /\ call' = LatestLedgerOf(m)
            /\ asked' = {} /\ entries' = {} /\ lost' = {}
        BY <2>4 DEF CallLatest, BeginCore, Begin
      <3>2. QED
        BY <1>1, <2>0, <3>1, LatestFields DEF CallInv, SimulationInv, Paged
    <2>5. CASE CallSendTransaction
      <3>1. cached \in {0, newest}
        BY <2>5 DEF CallSendTransaction, CacheReadable, StoreInv
      <3>2. PICK p \in {"range", "read"} :
               call' = [IdleCall EXCEPT !.pc = p, !.method = "send", !.latest = cached]
        BY <2>5 DEF CallSendTransaction, BeginCore, Begin
      <3>3. call' \in CallType /\ call'.pc = p /\ call'.method = "send" /\ call'.latest = cached
        BY <2>0, <3>2, IdleFields DEF CallType
      <3>4. QED
        BY <1>1, <2>0, <3>1, <3>3 DEF CallInv, SimulationInv, Paged
    <2>6. QED
      BY <1>6, <2>1, <2>2, <2>3, <2>4, <2>5 DEF Started, Starts
  <1>7. QED
    BY <1>2, <1>3, <1>4, <1>5, <1>6, StepKinds

LEMMA ReplyStep ==
    ASSUME CallInv, SimulationInv, ReplyInv, [CoreNext]_allVars
    PROVE  ReplyInv'
  <1>1. CASE CloseLedger
    BY <1>1 DEF CallInv, CallType, ReplyInv, FoundIsCovered, EntriesOfOneLedger,
        SentIsAhead, NoReply, NoAnswer, CloseLedger, Quiet, vars
  <1>2. CASE CommitLedger /\ newest' <= core /\ Quiet /\ UNCHANGED core
    BY <1>2 DEF CallInv, CallType, ReplyInv, FoundIsCovered, EntriesOfOneLedger,
        SentIsAhead, NoReply, NoAnswer, CommitLedger, Quiet
  <1>3. CASE UpdateCache /\ Quiet /\ UNCHANGED core
    BY <1>3 DEF CallInv, CallType, ReplyInv, FoundIsCovered, EntriesOfOneLedger,
        SentIsAhead, NoReply, NoAnswer, UpdateCache, Quiet
  <1>4. CASE FillCache /\ Quiet /\ UNCHANGED core
    BY <1>4 DEF CallInv, CallType, ReplyInv, FoundIsCovered, EntriesOfOneLedger,
        SentIsAhead, NoReply, NoAnswer, FillCache, Quiet
  <1>5. CASE NewSession /\ Quiet /\ UNCHANGED core
    BY <1>5 DEF CallInv, CallType, ReplyInv, FoundIsCovered, EntriesOfOneLedger,
        SentIsAhead, NoReply, NoAnswer, NewSession, NoSession, Quiet, store
  <1>6. CASE NewTx /\ Quiet /\ UNCHANGED core
    BY <1>6 DEF CallInv, CallType, ReplyInv, FoundIsCovered, EntriesOfOneLedger,
        SentIsAhead, NoReply, NoAnswer, NewTx, CacheReadable, Proceed, IdleCall, Quiet,
        store
  <1>7. CASE GetLedgers /\ Quiet /\ UNCHANGED core
    BY <1>7 DEF CallInv, CallType, ReplyInv, FoundIsCovered, EntriesOfOneLedger,
        SentIsAhead, NoReply, NoAnswer, GetLedgers, Refuse, Deliver, TxLatest, IdleCall,
        Quiet, store
  <1>8. CASE GetTransactions /\ Quiet /\ UNCHANGED core
    BY <1>8 DEF CallInv, CallType, ReplyInv, FoundIsCovered, EntriesOfOneLedger,
        SentIsAhead, NoReply, NoAnswer, GetTransactions, Refuse, Deliver, TxLatest,
        IdleCall, Quiet, store
  <1>9. CASE CallGetEvents /\ Quiet /\ UNCHANGED core
    BY <1>9 DEF CallInv, CallType, ReplyInv, FoundIsCovered, EntriesOfOneLedger,
        SentIsAhead, NoReply, NoAnswer, CallGetEvents, CopyCache, CacheReadable, Proceed,
        IdleCall, Quiet, store
  <1>10. CASE QueryRange /\ Quiet /\ UNCHANGED core
    BY <1>10 DEF CallInv, CallType, ReplyInv, FoundIsCovered, EntriesOfOneLedger,
        SentIsAhead, NoReply, NoAnswer, QueryRange, RangeMethods, Refuse, Proceed,
        IdleCall, Quiet, store
  <1>11. CASE GetEvents /\ Quiet /\ UNCHANGED core
    BY <1>11 DEF CallInv, CallType, ReplyInv, FoundIsCovered, EntriesOfOneLedger,
        SentIsAhead, NoReply, NoAnswer, GetEvents, Refuse, Deliver, IdleCall, Quiet, store
  <1>12. CASE ReadTransaction /\ Quiet /\ UNCHANGED core
    BY <1>12 DEF CallInv, CallType, ReplyInv, FoundIsCovered, EntriesOfOneLedger,
        SentIsAhead, NoReply, NoAnswer, ReadTransaction, Begin, NoSession, IdleCall,
        Quiet, store
  <1>13. CASE RangeOfTransaction /\ Quiet /\ UNCHANGED core
    BY <1>13 DEF CallInv, CallType, ReplyInv, FoundIsCovered, EntriesOfOneLedger,
        SentIsAhead, NoReply, NoAnswer, RangeOfTransaction, CopyCache, CacheReadable,
        Proceed, IdleCall, Quiet, store
  <1>14. CASE GetTransaction /\ Quiet /\ UNCHANGED core
    BY <1>14 DEF CallInv, CallType, ReplyInv, FoundIsCovered, EntriesOfOneLedger,
        SentIsAhead, NoReply, NoAnswer, GetTransaction, Respond, IdleCall, Quiet, store
  <1>15. CASE GetLatestLedgerSequence /\ Quiet /\ UNCHANGED core
    BY <1>15 DEF CallInv, CallType, ReplyInv, FoundIsCovered, EntriesOfOneLedger,
        SentIsAhead, NoReply, NoAnswer, GetLatestLedgerSequence, CacheReadable, Begin,
        NoSession, LatestLedgerOf, IdleCall, Quiet, store
  <1>16. CASE QueryLatest /\ Quiet /\ UNCHANGED core
    BY <1>16 DEF CallInv, CallType, ReplyInv, FoundIsCovered, EntriesOfOneLedger,
        SentIsAhead, NoReply, NoAnswer, QueryLatest, Refuse, Proceed, IdleCall, Quiet,
        store
  <1>17. CASE GetLedgerRaw /\ Quiet /\ UNCHANGED core
    BY <1>17 DEF CallInv, CallType, ReplyInv, FoundIsCovered, EntriesOfOneLedger,
        SentIsAhead, NoReply, NoAnswer, GetLedgerRaw, IdleCall, Quiet, store
  <1>18. CASE CallFails /\ Quiet /\ UNCHANGED core
    BY <1>18 DEF CallInv, CallType, ReplyInv, FoundIsCovered, EntriesOfOneLedger,
        SentIsAhead, NoReply, NoAnswer, CallFails, Refuse, IdleCall, Quiet, store
  <1>19. CASE CallGetHealth
    BY <1>19 DEF CallInv, CallType, ReplyInv, FoundIsCovered, EntriesOfOneLedger,
        SentIsAhead, NoReply, NoAnswer, CallGetHealth, CacheReadable, BeginCore, Begin,
        NoSession, IdleCall, store
  <1>20. CASE GetHealth
    <2> DEFINE a == [NoAnswer EXCEPT !.method = "health", !.latest = call.latest]
    <2>1. a.method = "health"
      BY DEF NoAnswer
    <2>2. reply' = NoReply /\ answer' \in {NoAnswer, a}
      BY <1>20 DEF GetHealth, Error, Continue, Proceed, Reply
    <2> HIDE DEF a
    <2>3. QED
      BY <2>1, <2>2
         DEF ReplyInv, FoundIsCovered, EntriesOfOneLedger, SentIsAhead, NoReply, NoAnswer
  <1>21. CASE CallLatest("entries") \/ CallLatest("simulate")
    BY <1>21 DEF CallInv, CallType, ReplyInv, FoundIsCovered, EntriesOfOneLedger,
        SentIsAhead, NoReply, NoAnswer, CallLatest, CacheReadable, LatestLedgerOf,
        BeginCore, Begin, NoSession, IdleCall, store
  <1>22. CASE GetLedgerEntries
    <2> DEFINE a(K) == [NoAnswer EXCEPT !.method = "entries", !.latest = call.ledger,
                                        !.asked = K, !.entries = EntriesAt(AtLedger, K)]
    <2>1. PICK K \in SUBSET Keys : reply' = NoReply /\ answer' \in {NoAnswer, a(K)}
      BY <1>22 DEF GetLedgerEntries, Error, Continue, Proceed, Reply
    <2>2. /\ a(K).method = "entries" /\ a(K).latest = call.ledger /\ a(K).asked = K
          /\ a(K).entries = EntriesAt(call.ledger, K) /\ a(K).lost = {}
      BY DEF NoAnswer, AtLedger
    <2>3. K \ {} = K
      OBVIOUS
    <2> HIDE DEF a
    <2>4. QED
      BY <2>1, <2>2, <2>3
         DEF ReplyInv, FoundIsCovered, EntriesOfOneLedger, SentIsAhead, NoReply,
          NoAnswer
  <1>23. CASE GetPreflightInfo
    <2> DEFINE a == [NoAnswer EXCEPT !.method = "failed", !.latest = call.ledger]
    <2>1. a.method = "failed"
      BY DEF NoAnswer
    <2>2. reply' = NoReply /\ answer' \in {NoAnswer, a}
      BY <1>23 DEF GetPreflightInfo, SimulationError, Continue, Proceed, Reply
    <2> HIDE DEF a
    <2>3. QED
      BY <2>1, <2>2
         DEF ReplyInv, FoundIsCovered, EntriesOfOneLedger, SentIsAhead, NoReply, NoAnswer
  <1>24. CASE SimulationAnswers
    <2> DEFINE a == [NoAnswer EXCEPT !.method = "failed", !.latest = call.ledger]
               b == [method |-> "simulate", latest |-> call.ledger, meta |-> call.first,
                     asked |-> asked, entries |-> entries, lost |-> lost]
    <2>1. a.method = "failed"
      BY DEF NoAnswer
    <2>2. /\ b.method = "simulate" /\ b.latest = call.ledger /\ b.meta = call.first
          /\ b.asked = asked /\ b.entries = entries /\ b.lost = lost
      OBVIOUS
    <2>3. reply' = NoReply /\ answer' \in {a, b} /\ call.pc = "simulate"
      BY <1>24 DEF SimulationAnswers, SimulationError, Reply
    <2> HIDE DEF a, b
    <2>4. QED
      BY <2>1, <2>2, <2>3 DEF SimulationInv, ReplyInv, FoundIsCovered, EntriesOfOneLedger,
          SentIsAhead, NoReply
  <1>25. CASE \E k \in Keys : SnapshotSourceGet(k)
    BY <1>25 DEF CallInv, CallType, ReplyInv, FoundIsCovered, EntriesOfOneLedger,
        SentIsAhead, NoReply, NoAnswer, SnapshotSourceGet, AtLedger, Continue, Proceed,
        IdleCall, store
  <1>26. CASE \E k \in Keys : SnapshotSourceFails(k)
    BY <1>26 DEF CallInv, CallType, ReplyInv, FoundIsCovered, EntriesOfOneLedger,
        SentIsAhead, NoReply, NoAnswer, SnapshotSourceFails, Continue, Proceed, IdleCall,
        store
  <1>27. CASE CallSendTransaction
    BY <1>27 DEF CallInv, CallType, ReplyInv, FoundIsCovered, EntriesOfOneLedger,
        SentIsAhead, NoReply, NoAnswer, CallSendTransaction, CacheReadable, BeginCore,
        Begin, NoSession, IdleCall, store
  <1>28. CASE RangeUnknown
    BY <1>28 DEF CallInv, CallType, ReplyInv, FoundIsCovered, EntriesOfOneLedger,
        SentIsAhead, NoReply, NoAnswer, RangeUnknown, Continue, Proceed, store
  <1>29. CASE SubmitTransaction
    BY <1>29 DEF CallInv, CallType, ReplyInv, FoundIsCovered, EntriesOfOneLedger,
        SentIsAhead, NoReply, NoAnswer, SubmitTransaction, Continue, Proceed, store
  <1>30. CASE SendTransaction \/ TransactionRefused
    <2> DEFINE a == [NoAnswer EXCEPT !.method = "send", !.latest = call.latest, !.meta = call.ledger]
               b == [NoAnswer EXCEPT !.method = "refused", !.latest = call.latest]
    <2>1. a.method = "send" /\ a.latest = call.latest /\ a.meta = call.ledger /\ b.method = "refused"
      BY DEF NoAnswer
    <2>2. reply' = NoReply /\ (answer' = b \/ (answer' = a /\ call.pc = "submitted"))
      BY <1>30 DEF SendTransaction, TransactionRefused, Reply
    <2> HIDE DEF a, b
    <2>3. QED
      BY <2>1, <2>2
         DEF CallInv, ReplyInv, FoundIsCovered, EntriesOfOneLedger, SentIsAhead, NoReply
  <1>31. CASE UNCHANGED allVars
    BY <1>31 DEF CallInv, CallType, ReplyInv, FoundIsCovered, EntriesOfOneLedger,
        SentIsAhead, NoReply, NoAnswer, allVars, vars, coreVars
  <1>32. QED
    BY <1>1, <1>2, <1>3, <1>4, <1>5, <1>6, <1>7, <1>8, <1>9, <1>10, <1>11, <1>12, <1>13,
        <1>14, <1>15, <1>16, <1>17, <1>18, <1>19, <1>20, <1>21, <1>22, <1>23, <1>24,
        <1>25, <1>26, <1>27, <1>28, <1>29, <1>30, <1>31 DEF CoreNext, Ingested, Ingestion,
        ReadsStep, CallStep, CoreStep

-----------------------------------------------------------------------------
(***************************************************************************)
(* The invariant.                                                          *)
(***************************************************************************)
LEMMA InitInv == CoreInit => ReadInv
  <1> SUFFICES ASSUME CoreInit
               PROVE  ReadInv
    OBVIOUS
  <1> USE DEF CoreInit, Init
  <1>1. session \in SessionType /\ session.seen = 0 /\ session.method = "none"
           /\ session.cursor = NoCursor /\ session.got = {}
    BY EventsAssumption, NoSessionType DEF SessionType, LedgerOrNone
  <1>2. SessionInv
    BY <1>1 DEF SessionInv, PagesSkipNothing, Continued, Paged
  <1>3. StoreInv
    BY <1>1, ReadsAssumption DEF StoreInv, LedgerOrNone, Ledger
  <1>4. CallInv /\ SimulationInv
    BY IdleFields DEF CallInv, SimulationInv, Paged
  <1>5. ReplyInv
    BY DEF ReplyInv, FoundIsCovered, EntriesOfOneLedger, SentIsAhead, NoReply, NoAnswer
  <1>6. QED
    BY <1>2, <1>3, <1>4, <1>5 DEF ReadInv

LEMMA StepInv == ReadInv /\ [CoreNext]_allVars => ReadInv'
  BY StoreStep, CallInvStep, SessionStep, ReplyStep DEF ReadInv

LEMMA AlwaysInv == CoreSpec => []ReadInv
  BY InitInv, StepInv, PTL DEF CoreSpec

-----------------------------------------------------------------------------
(***************************************************************************)
(* What the handlers guarantee.                                            *)
(***************************************************************************)

\* Following the cursors of getLedgers, getTransactions or getEvents leaves out
\* nothing between the start and the cursor, for every page limit, scan limit,
\* retention window and set of filters, while ledgers are committed and trimmed
\* (only getEvents may leave out what has expired meanwhile).
THEOREM NothingIsSkipped == CoreSpec => []PagesSkipNothing
  <1>1. ReadInv => PagesSkipNothing
    BY DEF ReadInv, SessionInv
  <1>2. QED
    BY AlwaysInv, <1>1, PTL

\* Following the cursors of getLedgers and getEvents delivers nothing twice.
THEOREM NothingTwice == CoreSpec => []DeliveredOnce
  <1>1. ReadInv => DeliveredOnce
    BY DEF ReadInv, SessionInv, DeliveredOnce
  <1>2. QED
    BY AlwaysInv, <1>1, PTL

\* A transaction found by getTransaction is not newer than the latest ledger of
\* its response: the transaction is read first, the range after it.
THEOREM FoundAlwaysCovered == CoreSpec => []FoundIsCovered
  <1>1. ReadInv => FoundIsCovered
    BY DEF ReadInv, ReplyInv
  <1>2. QED
    BY AlwaysInv, <1>1, PTL

\* The entries of getLedgerEntries and simulateTransaction are those of the
\* latest ledger that the response names, however far core is ahead.
THEOREM EntriesAlwaysOfOneLedger == CoreSpec => []EntriesOfOneLedger
  <1>1. ReadInv => EntriesOfOneLedger
    BY DEF ReadInv, ReplyInv
  <1>2. QED
    BY AlwaysInv, <1>1, PTL

\* A transaction that sendTransaction has submitted is never in the latest
\* ledger of the PENDING response or before it.
THEOREM SentAlwaysAhead == CoreSpec => []SentIsAhead
  <1>1. ReadInv => SentIsAhead
    BY DEF ReadInv, ReplyInv
  <1>2. QED
    BY AlwaysInv, <1>1, PTL

\* The latest ledger that a client is told never goes back, whichever handlers
\* it calls and wherever they take it from: the cache, or the database while
\* the cache is empty or locked.
THEOREM LatestOnlyGrows == CoreSpec => LatestNeverGoesBack
  <1>1. ReadInv /\ [CoreNext]_allVars => [session'.seen >= session.seen]_session
    BY SessionStep DEF ReadInv
  <1>2. QED
    BY AlwaysInv, <1>1, PTL DEF CoreSpec, LatestNeverGoesBack
=============================================================================
