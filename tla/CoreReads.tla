------------------------------ MODULE CoreReads ------------------------------
(***************************************************************************)
(* The handlers that also ask stellar-core: getLedgerEntries,              *)
(* simulateTransaction and sendTransaction, and getHealth, next to those   *)
(* of RpcReads.                                                            *)
(*                                                                         *)
(* Captive core is external.  It closes ledgers before they are ingested,  *)
(* so it is ahead of the database, and it answers queries for the state of *)
(* its last SnapshotLedgers ledgers only.  An entry is its key and the     *)
(* ledger whose state was read; Exists says which keys a ledger has.       *)
(*                                                                         *)
(* A simulation reads its entries one by one; which ones, and its result,  *)
(* is up to the simulated code (a Rust library).  That it waits for the    *)
(* worker pool is in PreflightPool.  Checks of a request come before any   *)
(* read and are left out.                                                  *)
(***************************************************************************)
EXTENDS RpcReads

CONSTANTS
    SnapshotLedgers,  (* CaptiveCoreHTTPQuerySnapshotLedgers               *)
    Keys,             (* the keys of ledger entries                        *)
    Exists,           (* [Ledger -> SUBSET Keys]                           *)
    MaxLead           (* bound on how far core is ahead of the database    *)

ASSUME CoreAssumption ==
    /\ SnapshotLedgers \in Nat \ {0}
    /\ Exists \in [Ledger -> SUBSET Keys]
    /\ MaxLead \in Nat

VARIABLES
    core,    (* the last ledger core has closed                            *)
    asked,   (* the keys the call has asked core for                       *)
    entries, (* what it has got                                            *)
    lost,    (* the keys whose query failed: taken for missing entries     *)
    answer   (* the response, in the state in which it is sent             *)

coreVars == <<core, asked, entries, lost, answer>>
allVars == <<vars, coreVars>>

NoAnswer == [method |-> "none", latest |-> 0, meta |-> 0, asked |-> {}, entries |-> {},
             lost |-> {}]

CoreInit ==
    /\ Init
    /\ core \in Ledger
    /\ core >= newest /\ core <= newest + MaxLead + (IF newest = 0 THEN 2 ELSE 0)
    /\ asked = {}
    /\ entries = {}
    /\ lost = {}
    /\ answer = NoAnswer

Quiet == answer' = NoAnswer /\ UNCHANGED <<asked, entries, lost>>

-----------------------------------------------------------------------------
(***************************************************************************)
(* Captive core closes ledgers; ingestion commits those it has closed.     *)
(***************************************************************************)
CloseLedger ==
    /\ core < MaxLedger
    /\ newest # 0 => core < newest + MaxLead
    /\ core' = core + 1
    /\ Quiet
    /\ UNCHANGED vars

Ingested ==
    /\ Ingestion
    /\ newest' <= core
    /\ Quiet
    /\ UNCHANGED core

\* The calls of RpcReads.
ReadsStep ==
    /\ NewSession \/ CallStep \/ CallFails
    /\ Quiet
    /\ UNCHANGED core

\* The ledgers whose state core still has.
Snapshots == {l \in Ledger : l <= core /\ core < l + SnapshotLedgers}
EntriesAt(l, K) == {[key |-> k, at |-> l] : k \in K \cap Exists[l]}

-----------------------------------------------------------------------------
\* A call begins with nothing read.
BeginCore(c) ==
    /\ Begin(c)
    /\ asked' = {} /\ entries' = {} /\ lost' = {}
    /\ answer' = NoAnswer
    /\ UNCHANGED core

Continue(c) ==
    /\ Proceed(c)
    /\ answer' = NoAnswer
    /\ UNCHANGED core

\* A response; a latest ledger of 0 tells the client nothing.
Reply(a) ==
    /\ answer' = a
    /\ call' = IdleCall
    /\ session' = [session EXCEPT !.seen = IF a.latest = 0 THEN @ ELSE a.latest]
    /\ asked' = {} /\ entries' = {} /\ lost' = {}
    /\ reply' = NoReply
    /\ UNCHANGED <<store, core>>

Error ==
    /\ Continue(IdleCall)
    /\ UNCHANGED <<asked, entries, lost>>

-----------------------------------------------------------------------------
(***************************************************************************)
(* getHealth: the range; the latest ledger may have closed too long ago.   *)
(***************************************************************************)
CallGetHealth ==
    /\ CacheReadable
    /\ \/ BeginCore([IdleCall EXCEPT !.pc = "range", !.method = "health", !.latest = cached])
       \/ /\ cached # 0
          /\ BeginCore([IdleCall EXCEPT !.pc = "read", !.method = "health", !.latest = cached,
                                    !.first = oldest])

GetHealth ==
    /\ call.pc = "read" /\ call.method = "health"
    /\ Error \/ Reply([NoAnswer EXCEPT !.method = "health", !.latest = call.latest])

-----------------------------------------------------------------------------
(***************************************************************************)
(* getLedgerEntries, and the start of simulateTransaction: the latest      *)
(* ledger, which is the one to ask core for ("in case Core is ahead").     *)
(***************************************************************************)
CallLatest(m) ==
    /\ CacheReadable
    /\ BeginCore(LatestLedgerOf(m))

\* Mutant: core is asked for its own latest state.
AtLedgerOfCore == core

\* The ledger core is asked for: the call's, not core's own latest one.
AtLedger == call.ledger

\* One query for all keys; keys that are not found are skipped.
GetLedgerEntries ==
    /\ call.pc = "raw" /\ call.method = "entries"
    /\ \E K \in SUBSET Keys :
          IF AtLedger \in Snapshots
          THEN Reply([NoAnswer EXCEPT !.method = "entries", !.latest = call.ledger, !.asked = K,
                                      !.entries = EntriesAt(AtLedger, K)])
          ELSE Error

-----------------------------------------------------------------------------
(***************************************************************************)
(* simulateTransaction.                                                    *)
(***************************************************************************)
SimulationError ==
    Reply([NoAnswer EXCEPT !.method = "failed", !.latest = call.ledger])

\* getLatestLedgerPreflightInfo: size, protocol version and close time come
\* from the latest ledger's meta, which may have expired meanwhile.
GetPreflightInfo ==
    /\ call.pc = "raw" /\ call.method = "simulate"
    /\ IF RawLedgerFound(call.ledger)
       THEN /\ Continue([call EXCEPT !.pc = "simulate", !.first = call.ledger])
            /\ UNCHANGED <<asked, entries, lost>>
       ELSE SimulationError

\* SnapshotSourceGet: one entry from core, at the simulation's ledger.
SnapshotSourceGet(k) ==
    /\ call.pc = "simulate"
    /\ k \notin asked
    /\ AtLedger \in Snapshots
    /\ Continue(call)
    /\ asked' = asked \cup {k}
    /\ entries' = entries \cup EntriesAt(AtLedger, {k})
    /\ UNCHANGED lost

\* The query fails, also because core no longer has the ledger: the error is
\* logged, and for the simulation the entry does not exist.
SnapshotSourceFails(k) ==
    /\ call.pc = "simulate"
    /\ k \notin asked
    /\ Continue(call)
    /\ asked' = asked \cup {k}
    /\ lost' = lost \cup {k}
    /\ UNCHANGED entries

\* The result is sent, for the ledger that was simulated; or the pool refused
\* the job, or the result could not be formatted.
SimulationAnswers ==
    /\ call.pc = "simulate"
    /\ \/ Reply([method |-> "simulate", latest |-> call.ledger, meta |-> call.first,
                 asked |-> asked, entries |-> entries, lost |-> lost])
       \/ SimulationError

-----------------------------------------------------------------------------
(***************************************************************************)
(* sendTransaction: the range first, then the transaction is submitted.    *)
(***************************************************************************)
CallSendTransaction ==
    /\ CacheReadable
    /\ \/ BeginCore([IdleCall EXCEPT !.pc = "range", !.method = "send", !.latest = cached])
       \/ /\ cached # 0
          /\ BeginCore([IdleCall EXCEPT !.pc = "read", !.method = "send", !.latest = cached])

\* A range that cannot be read is not fatal: the response has ledger 0.
RangeUnknown ==
    /\ call.pc = "range" /\ call.method = "send"
    /\ Continue([call EXCEPT !.pc = "read", !.latest = 0])
    /\ UNCHANGED <<asked, entries, lost>>

\* Core takes the transaction: the first ledger that can include it is the one
\* it closes next.
SubmitTransaction ==
    /\ call.pc = "read" /\ call.method = "send"
    /\ Continue([call EXCEPT !.pc = "submitted", !.ledger = core + 1])
    /\ UNCHANGED <<asked, entries, lost>>

\* Mutant: the latest ledger is looked up for the response.
SentWithFreshRange ==
    /\ call.pc = "submitted"
    /\ Reply([NoAnswer EXCEPT !.method = "send", !.latest = newest, !.meta = call.ledger])

\* PENDING.
SendTransaction ==
    /\ call.pc = "submitted"
    /\ Reply([NoAnswer EXCEPT !.method = "send", !.latest = call.latest, !.meta = call.ledger])

\* Core refuses the transaction (ERROR, TRY_AGAIN_LATER) or has it already
\* (DUPLICATE).
TransactionRefused ==
    /\ call.pc = "read" /\ call.method = "send"
    /\ Reply([NoAnswer EXCEPT !.method = "refused", !.latest = call.latest])

-----------------------------------------------------------------------------
CoreStep ==
    \/ CallGetHealth \/ GetHealth
    \/ CallLatest("entries") \/ GetLedgerEntries
    \/ CallLatest("simulate") \/ GetPreflightInfo \/ SimulationAnswers
    \/ \E k \in Keys : SnapshotSourceGet(k) \/ SnapshotSourceFails(k)
    \/ CallSendTransaction \/ RangeUnknown \/ SubmitTransaction \/ SendTransaction
    \/ TransactionRefused

CoreNext == CloseLedger \/ Ingested \/ ReadsStep \/ CoreStep

CoreSpec == CoreInit /\ [][CoreNext]_allVars

-----------------------------------------------------------------------------
\* "Pass latest ledger in case Core is ahead of us", "Obtain every preflight
\* ledger field from the same meta": the entries of a response, and the close
\* time of a simulation, are of the latest ledger that the response names,
\* while core and ingestion go on; of what was asked for and exists there,
\* exactly the entries are missing whose query failed.
EntriesOfOneLedger ==
    answer.method \in {"entries", "simulate"} =>
        /\ answer.method = "simulate" => answer.meta = answer.latest
        /\ answer.entries = EntriesAt(answer.latest, answer.asked \ answer.lost)

\* A client that waits for its transaction starts looking after the latest
\* ledger of the PENDING response: the transaction is never in that ledger or
\* in an earlier one.
SentIsAhead == answer.method = "send" => answer.latest < answer.meta
=============================================================================
