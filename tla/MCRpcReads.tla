----------------------------- MODULE MCRpcReads -----------------------------
(***************************************************************************)
(* An instance of RpcReads and CoreReads for TLC: ledgers with 2, 0, 1, 2, *)
(* ... items, two kinds of events, requests with no filter, with two       *)
(* filters of which each leaves open what the other one fixes, and with a  *)
(* filter that has a wildcard.                                             *)
(***************************************************************************)
EXTENDS CoreReads

MCCount == [l \in Ledger |-> IF l % 3 = 2 THEN 2 ELSE IF l % 3 = 0 THEN 0 ELSE 1]

MCEventData ==
    [x \in [ledger : Ledger, pos : 1..3] |->
        IF x.pos = 1 THEN [contract |-> "A", type |-> "contract", topics |-> <<"mint", "me">>]
                     ELSE [contract |-> "B", type |-> "system", topics |-> <<"burn">>]]

Filter(C, Y, T) == [contracts |-> C, types |-> Y, topics |-> T]
MCFilterSets ==
    {{}, {Filter({"A"}, {}, {<<"mint", Wildcard>>, <<"burn">>}), Filter({}, {"system"}, {})},
     {Filter({}, {}, {<<Wildcard, "me">>})}}

MCKeys == {"k1", "k2"}
MCExists == [l \in Ledger |-> IF l % 2 = 0 THEN {"k1"} ELSE MCKeys]
=============================================================================
