--------------------------- MODULE MCNodeQueries ---------------------------
(***************************************************************************)
(* A small instance of NodeQueries: one node, reports of three minutes,    *)
(* the second without the device.                                          *)
(***************************************************************************)
EXTENDS NodeQueries

CONSTANTS n1, k1, a1

Rep(at, K) ==
    [agent |-> n1, collected |-> at, inventory |-> [k \in K |-> a1],
     fingerprint |-> [k \in K |-> a1], metrics |-> K, temps |-> {}, health |-> {}]

MCPayload == {Rep(0, {k1}), Rep(1, {}), Rep(2, {k1})}
============================================================================
