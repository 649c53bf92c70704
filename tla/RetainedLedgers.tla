-------------------------- MODULE RetainedLedgers --------------------------
(***************************************************************************)
(* What the ledger database promises to everybody who reads it: one window *)
(* of ledgers that starts with any ledger, grows by one ledger at its new  *)
(* end and loses, in the same step, exactly the ledgers that left the      *)
(* retention window.  Writers, caches and crashes are not visible here.    *)
(***************************************************************************)
EXTENDS Naturals

CONSTANTS
    HistoryRetentionWindow, (* number of ledgers kept                      *)
    MaxLedger               (* bound on the ledger sequence numbers        *)

VARIABLE retained           (* sequences of the ledgers a reader can see   *)

Ledger == 1..MaxLedger

\* The ledgers of S that a window ending at ledger s still covers.
Covered(S, s) == {x \in S : x + HistoryRetentionWindow > s}

Init == retained = {}

\* The window moves to ledger s: the successor of its newest ledger, or any
\* ledger when nothing has been retained yet.
Advance(s) ==
    /\ s \notin retained
    /\ \A x \in retained : x < s
    /\ retained # {} => (s - 1) \in retained
    /\ retained' = Covered(retained \cup {s}, s)

Next == \E s \in Ledger : Advance(s)

Spec == Init /\ [][Next]_retained
=============================================================================
