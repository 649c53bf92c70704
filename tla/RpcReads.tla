------------------------------ MODULE RpcReads ------------------------------
(***************************************************************************)
(* The handlers that read the ledger store (internal/methods): getLedgers, *)
(* getTransactions and getEvents with their cursors, getTransaction and    *)
(* getLatestLedger, called one after the other by a client while ledgers   *)
(* are committed and trimmed.  Clients do not disturb each other, so there *)
(* is one.                                                                 *)
(*                                                                         *)
(* The store is what LedgerStore shows it to be: an interval of ledgers    *)
(* and a cached latest ledger that follows it under a lock, with either    *)
(* end of a range taken from the cache or from a query.  A transaction or  *)
(* an event is its ledger and its position there; Count is the number of   *)
(* both in each ledger.  Formats and limits per request are left out: every*)
(* page asks for PageLimit items.                                          *)
(***************************************************************************)
EXTENDS Integers, Sequences, FiniteSets

CONSTANTS
    HistoryRetentionWindow, (* ledgers kept in the database                *)
    PageLimit,              (* limit of every page                         *)
    LedgerScanLimit,        (* ledgers that one getEvents call scans       *)
    ServeFromDatastore,     (* whether getLedgers falls back to it         *)
    Count,                  (* transactions, and events, of each ledger    *)
    EventData,              (* contract, type and topics of each event     *)
    FilterSets,             (* the filters a getEvents request may have    *)
    MaxLedger               (* bound on the ledger sequence numbers        *)

Ledger == 2..MaxLedger

ASSUME ReadsAssumption ==
    /\ HistoryRetentionWindow \in Nat \ {0}
    /\ PageLimit \in Nat \ {0}
    /\ LedgerScanLimit \in Nat \ {0}
    /\ ServeFromDatastore \in BOOLEAN
    /\ MaxLedger \in Nat
    /\ Count \in [Ledger -> Nat]

VARIABLES
    oldest,      (* oldest ledger of the database, 0 : empty               *)
    newest,      (* newest ledger of the database                          *)
    cached,      (* the cache's latest ledger, 0 : unknown                 *)
    committing,  (* a commit holds the cache's lock                        *)
    session,     (* what the client pages through, and what it has got     *)
    call,        (* the call in progress                                   *)
    reply        (* a response, in the state in which it is sent           *)

store == <<oldest, newest, cached, committing>>
vars == <<oldest, newest, cached, committing, session, call, reply>>

LedgerOrNone == {0} \cup Ledger

(***************************************************************************)
(* Positions: an item's ledger and its place in it.  A ledger is the item  *)
(* at place 0, transactions and events have the places 1, 2, ...           *)
(***************************************************************************)
Last == 1 + (CHOOSE n \in {Count[l] : l \in Ledger} : \A l \in Ledger : Count[l] <= n)
At(l, p) == [ledger |-> l, pos |-> p]
NoCursor == At(0, 0)
Upto(x, y) == x.ledger < y.ledger \/ (x.ledger = y.ledger /\ x.pos <= y.pos)

Paged == {"ledgers", "transactions", "events"}
Items(m) ==
    IF m = "ledgers"
    THEN {At(l, 0) : l \in Ledger}
    ELSE {x \in [ledger : Ledger, pos : 1..Last] : x.pos <= Count[x.ledger]}

\* Topics, and patterns for them, are sequences.
IsTopics(t) == DOMAIN t = 1..Len(t)

ASSUME EventsAssumption ==
    /\ Items("events") \subseteq DOMAIN EventData
    /\ \A x \in Items("events") : IsTopics(EventData[x].topics)
    /\ {} \in FilterSets
    /\ \A F \in FilterSets : \A f \in F : \A t \in f.topics : IsTopics(t)

\* The first n items of S, and the last one.
FirstOf(S, n) == {x \in S : Cardinality({y \in S : Upto(y, x)}) <= n}
LastOf(S) == CHOOSE x \in S : \A y \in S : Upto(y, x)

NoSession == [method |-> "none", filters |-> {}, start |-> NoCursor, cursor |-> NoCursor,
              got |-> {}, repeated |-> FALSE, seen |-> 0]
IdleCall == [pc |-> "idle", method |-> "none", latest |-> 0, first |-> 0, ledger |-> 0,
             found |-> FALSE]
NoReply == [method |-> "none", ledger |-> 0, found |-> FALSE, latest |-> 0]

Init ==
    /\ newest \in LedgerOrNone
    /\ oldest \in IF newest = 0
                  THEN {0}
                  ELSE {l \in 2..newest : newest < l + HistoryRetentionWindow}
    /\ cached \in {0, newest}
    /\ committing = FALSE
    /\ session = NoSession
    /\ call = IdleCall
    /\ reply = NoReply

-----------------------------------------------------------------------------
(***************************************************************************)
(* Ingestion.                                                              *)
(***************************************************************************)

\* COMMIT of the next ledger and its trim, with the cache's lock taken.
CommitLedger ==
    /\ ~committing
    /\ \E l \in Ledger :
          /\ newest # 0 => l = newest + 1
          /\ newest' = l
          /\ oldest' = LET f == IF newest = 0 THEN l ELSE oldest
                       IN  IF l + 1 > f + HistoryRetentionWindow
                           THEN l + 1 - HistoryRetentionWindow
                           ELSE f
    /\ committing' = TRUE
    /\ reply' = NoReply
    /\ UNCHANGED <<cached, session, call>>

\* The cache is updated and its lock released.
UpdateCache ==
    /\ committing
    /\ cached' = newest
    /\ committing' = FALSE
    /\ reply' = NoReply
    /\ UNCHANGED <<oldest, newest, session, call>>

\* getLatestLedgerSequence fills an empty cache, for the ingestion service or
\* for another call.
FillCache ==
    /\ ~committing
    /\ cached = 0 /\ newest # 0
    /\ cached' = newest
    /\ reply' = NoReply
    /\ UNCHANGED <<oldest, newest, committing, session, call>>

-----------------------------------------------------------------------------
(***************************************************************************)
(* The client.                                                             *)
(***************************************************************************)

\* A new sequence of pages, from a start ledger.
NewSession ==
    /\ call.pc = "idle"
    /\ \E m \in Paged, l \in Ledger : \E F \in IF m = "events" THEN FilterSets ELSE {{}} :
          session' = [NoSession EXCEPT !.method = m, !.filters = F, !.start = At(l, 0),
                                       !.seen = session.seen]
    /\ reply' = NoReply
    /\ UNCHANGED <<store, call>>

\* The items of the session's next page start at this position.
Continued == session.cursor # NoCursor

\* Mutant: the item at the cursor is not left out.
AfterCursorInclusive == IF Continued THEN session.cursor ELSE session.start

AfterCursor ==
    IF Continued THEN At(session.cursor.ledger, session.cursor.pos + 1) ELSE session.start

\* A response reaches the client, which goes on with its cursor.
Deliver(page, cursor, latest) ==
    /\ session' = [session EXCEPT !.got = @ \cup page,
                                  !.repeated = @ \/ page \cap session.got # {},
                                  !.cursor = cursor,
                                  !.seen = latest]
    /\ call' = IdleCall
    /\ reply' = NoReply
    /\ UNCHANGED store

\* A call returns an error: the client may try it again.
Refuse ==
    /\ call' = IdleCall
    /\ reply' = NoReply
    /\ UNCHANGED <<store, session>>

\* A statement fails or the request's context ends.
CallFails == call.pc # "idle" /\ Refuse

Proceed(c) == call' = c /\ reply' = NoReply /\ UNCHANGED <<store, session>>

\* Another method is called: the client gives up its paging.
Begin(c) ==
    /\ call.pc = "idle"
    /\ call' = c
    /\ session' = [NoSession EXCEPT !.seen = session.seen]
    /\ reply' = NoReply
    /\ UNCHANGED store

-----------------------------------------------------------------------------
(***************************************************************************)
(* GetLedgerRange outside of a transaction: the cached ends, or the cached *)
(* latest ledger and a query for the oldest one.                           *)
(***************************************************************************)

\* Mutant: the lock is not taken.
CacheReadableAlways == TRUE

CacheReadable == ~committing

\* Up to RUnlock; a memoized oldest ledger is the database's.
CopyCache(c) ==
    /\ CacheReadable
    /\ \/ Proceed([c EXCEPT !.pc = "range", !.latest = cached])
       \/ /\ cached # 0
          /\ Proceed([c EXCEPT !.pc = "read", !.latest = cached, !.first = oldest])

RangeMethods == {"events", "transaction", "health", "send"}

\* The query for the oldest ledger, and for the newest when none is cached.
QueryRange ==
    /\ call.pc = "range"
    /\ call.method \in RangeMethods
    /\ IF newest = 0
       THEN Refuse
       ELSE Proceed([call EXCEPT !.pc = "read", !.first = oldest,
                                 !.latest = IF @ = 0 THEN newest ELSE @])

-----------------------------------------------------------------------------
(***************************************************************************)
(* getLedgers and getTransactions: both read in one transaction, whose     *)
(* snapshot is the database at its first statement, the range query.       *)
(***************************************************************************)

\* ledgerReader.NewTx: BEGIN and the copy of the cached latest ledger.
NewTx ==
    /\ call.pc = "idle"
    /\ session.method \in {"ledgers", "transactions"}
    /\ CacheReadable
    /\ Proceed([IdleCall EXCEPT !.pc = "range", !.method = session.method, !.latest = cached])

\* ledgerReaderTx.GetLedgerRange: the oldest ledger is queried, the latest is
\* the cached one when there is one.
TxLatest == IF call.latest # 0 THEN call.latest ELSE newest

\* GetAvailableLedgerRange: the datastore is assumed to hold every ledger.
AvailableFirst == IF ServeFromDatastore THEN 2 ELSE oldest

\* fetchLedgers: from the database, from the datastore, or from both.
FetchedLedgers(first, last) ==
    LET local == oldest..newest IN
    IF first >= oldest THEN local \cap (first..last)
    ELSE IF last < oldest THEN first..last
    ELSE first..(oldest - 1) \cup (local \cap (oldest..last))

\* parseCursor and Validate want the page to start in the available range.
LedgersInRange(l) == AvailableFirst <= l /\ l <= TxLatest

GetLedgers ==
    /\ call.pc = "range" /\ call.method = "ledgers"
    /\ LET first == IF Continued THEN session.cursor.ledger + 1 ELSE session.start.ledger
           page  == {At(l, 0) : l \in FetchedLedgers(first, first + PageLimit - 1)}
           cursor == IF page # {} THEN LastOf(page)
                     ELSE IF Continued THEN session.cursor ELSE At(first - 1, 0)
       IN  IF newest = 0 \/ ~LedgersInRange(first)
           THEN Refuse
           ELSE Deliver(page, cursor, TxLatest)

\* The transactions from position p on, up to ledger last.
TransactionsFrom(p, last) == {x \in Items("transactions") : Upto(p, x) /\ x.ledger <= last}

\* Mutant: a full page is taken to have finished its last ledger.
CursorAfterPageSkips(p, page, last) ==
    IF Cardinality(page) = PageLimit
    THEN At(LastOf(page).ledger, Count[LastOf(page).ledger])
    ELSE At(last, IF \E x \in page : x.ledger = last THEN Count[last] ELSE 0)

\* The cursor of processTransactionsInLedger: the last transaction of the page
\* when the limit was reached; otherwise the loop went through the last ledger,
\* where the cursor is at 0 until a transaction is read.  A loop without any
\* ledger leaves the cursor empty.
CursorAfterPage(p, page, last) ==
    IF p.ledger > last THEN NoCursor
    ELSE IF Cardinality(page) = PageLimit
    THEN LastOf(page)
    ELSE At(last, IF \E x \in page : x.ledger = last THEN Count[last] ELSE 0)

\* getTransactionsByLedgerSequence: the start ledger must be in the range, a
\* cursor's ledger in the snapshot.
GetTransactions ==
    /\ call.pc = "range" /\ call.method = "transactions"
    /\ LET p    == IF Continued THEN AfterCursor ELSE At(session.start.ledger, 1)
           page == FirstOf(TransactionsFrom(p, TxLatest), PageLimit)
       IN  IF newest = 0 \/ p.ledger < oldest \/ (~Continued /\ p.ledger > TxLatest)
           THEN Refuse
           ELSE Deliver(page, CursorAfterPage(p, page, TxLatest), TxLatest)

-----------------------------------------------------------------------------
(***************************************************************************)
(* getEvents: the range first, then one query, no transaction around them. *)
(***************************************************************************)

CallGetEvents ==
    /\ call.pc = "idle"
    /\ session.method = "events"
    /\ CopyCache([IdleCall EXCEPT !.method = "events"])

\* endLedger, exclusive: the scan limit, but never past the latest ledger nor
\* past the request's end ledger (0 : none).
EndLedger(p, requested) ==
    LET end == IF call.latest + 1 < p.ledger + LedgerScanLimit
               THEN call.latest + 1
               ELSE p.ledger + LedgerScanLimit
    IN  IF requested # 0 /\ requested < end THEN requested ELSE end

\* A filter names contracts, types and topic patterns; an empty set stands for
\* any.  A pattern is a sequence of segments, a segment a value or a wildcard.
Wildcard == "*"
TopicMatches(t, topics) ==
    Len(t) = Len(topics) /\ \A i \in DOMAIN t : t[i] \in {Wildcard, topics[i]}

\* request.Matches: some filter matches, or there is none.
Matches(F, e) ==
    \/ F = {}
    \/ \E f \in F : /\ f.contracts = {} \/ e.contract \in f.contracts
                    /\ f.types = {} \/ e.type \in f.types
                    /\ f.topics = {} \/ \E t \in f.topics : TopicMatches(t, e.topics)

\* What the query asks for: what some filter names, and anything when one of
\* them names nothing.
combineContractIDs(F) ==
    IF \E f \in F : f.contracts = {} THEN {} ELSE UNION {f.contracts : f \in F}
combineEventTypes(F) ==
    IF \E f \in F : f.types = {} THEN {} ELSE UNION {f.types : f \in F}

\* The columns that a pattern fixes.
Conditions(t) == {<<i, t[i]>> : i \in {j \in DOMAIN t : t[j] # Wildcard}}
combineTopics(F) ==
    LET C == {Conditions(t) : t \in UNION {f.topics : f \in F}}
    IN  IF {} \in C \/ \E f \in F : f.topics = {} THEN {} ELSE C

\* The WHERE clauses of the query.
Selected(F, e) ==
    /\ combineContractIDs(F) = {} \/ e.contract \in combineContractIDs(F)
    /\ combineEventTypes(F) = {} \/ e.type \in combineEventTypes(F)
    /\ combineTopics(F) = {} \/ \E c \in combineTopics(F) :
            \A s \in c : s[1] \in DOMAIN e.topics /\ e.topics[s[1]] = s[2]

\* The rows GetEvents finds in the table now, in order, up to the limit.
EventsFrom(p, end, F) ==
    FirstOf({x \in Items("events") : /\ Upto(p, x) /\ x.ledger < end
                                     /\ x.ledger \in oldest..newest
                                     /\ Selected(F, EventData[x]) /\ Matches(F, EventData[x])},
            PageLimit)

\* The cursor of a full page is its last event, of any other page the end of
\* the scanned ledgers (MaxCursor in ledger endLedger - 1).  Only a request
\* without a cursor may have an end ledger.
GetEvents ==
    /\ call.pc = "read" /\ call.method = "events"
    /\ \E requested \in {0} \cup (IF Continued THEN {} ELSE session.start.ledger + 1..MaxLedger) :
          LET p    == AfterCursor
              end  == EndLedger(p, requested)
              page == EventsFrom(p, end, session.filters)
          IN  IF p.ledger < call.first \/ p.ledger > call.latest
              THEN Refuse
              ELSE Deliver(page,
                           IF Cardinality(page) = PageLimit THEN LastOf(page)
                                                            ELSE At(end - 1, Last),
                           call.latest)

-----------------------------------------------------------------------------
(***************************************************************************)
(* getTransaction: the transaction first, the range after it.              *)
(***************************************************************************)

\* A transaction of ledger l is looked up by its hash.
ReadTransaction ==
    /\ \E l \in Ledger :
          Begin([IdleCall EXCEPT !.pc = "found", !.method = "transaction", !.ledger = l,
                                 !.found = l \in oldest..newest])

RangeOfTransaction ==
    /\ call.pc = "found"
    /\ CopyCache(call)

Respond(latest) ==
    /\ reply' = [method |-> call.method, ledger |-> call.ledger, found |-> call.found,
                 latest |-> latest]
    /\ session' = [session EXCEPT !.seen = latest]
    /\ call' = IdleCall
    /\ UNCHANGED store

GetTransaction ==
    /\ call.pc = "read" /\ call.method = "transaction"
    /\ Respond(call.latest)

-----------------------------------------------------------------------------
(***************************************************************************)
(* getLatestLedger: the latest sequence number, then its ledger.           *)
(***************************************************************************)

LatestLedgerOf(m) ==
    [IdleCall EXCEPT !.pc = IF cached # 0 THEN "raw" ELSE "seq", !.method = m, !.ledger = cached]

GetLatestLedgerSequence ==
    /\ CacheReadable
    /\ Begin(LatestLedgerOf("latestLedger"))

\* Nothing is cached: the newest ledger is queried (FillCache publishes it).
QueryLatest ==
    /\ call.pc = "seq"
    /\ IF newest = 0 THEN Refuse ELSE Proceed([call EXCEPT !.pc = "raw", !.ledger = newest])

RawLedgerFound(l) == l \in oldest..newest

GetLedgerRaw ==
    /\ call.pc = "raw" /\ call.method = "latestLedger"
    /\ reply' = [method |-> "latestLedger", ledger |-> call.ledger,
                 found |-> RawLedgerFound(call.ledger), latest |-> call.ledger]
    /\ session' = [session EXCEPT !.seen = IF RawLedgerFound(call.ledger) THEN call.ledger ELSE @]
    /\ call' = IdleCall
    /\ UNCHANGED store

-----------------------------------------------------------------------------
Ingestion == CommitLedger \/ UpdateCache \/ FillCache

CallStep ==
    \/ NewTx \/ GetLedgers \/ GetTransactions
    \/ CallGetEvents \/ QueryRange \/ GetEvents
    \/ ReadTransaction \/ RangeOfTransaction \/ GetTransaction
    \/ GetLatestLedgerSequence \/ QueryLatest \/ GetLedgerRaw

Next == Ingestion \/ NewSession \/ CallStep \/ CallFails

Spec == Init /\ [][Next]_vars

-----------------------------------------------------------------------------
Wanted(x) == session.method = "events" => Matches(session.filters, EventData[x])

\* A client that follows the cursors has got everything from its start up to
\* its cursor, whatever was committed and trimmed between and during its calls,
\* and every event that its filters match, though the query only knows their
\* union; only getEvents, which does not read in a transaction, may leave out
\* events of a ledger that has expired meanwhile.
PagesSkipNothing ==
    \A x \in Items(session.method) :
        Continued /\ Wanted(x) /\ Upto(session.start, x) /\ Upto(x, session.cursor)
            => \/ x \in session.got
               \/ session.method = "events" /\ x.ledger < oldest

\* Following the cursors of getLedgers and getEvents delivers nothing twice.
DeliveredOnce == session.method \in {"ledgers", "events"} => ~session.repeated

\* "Read txn first before checking latest ledger cache to avoid race": the
\* transaction that getTransaction returns is never newer than the latest
\* ledger of the same response.
FoundIsCovered ==
    reply.method = "transaction" /\ reply.found => reply.ledger <= reply.latest

\* The latest ledger reported to a client never goes back from one response to
\* the next, whichever methods it calls: a response that is ahead of the cache
\* would be followed by one that is behind it.
LatestNeverGoesBack == [][session'.seen >= session.seen]_session

\* "when paginating, we start with the item right after the cursor": following
\* the cursors of getTransactions delivers no transaction twice.
TransactionsDeliveredOnce == session.method = "transactions" => ~session.repeated
=============================================================================
