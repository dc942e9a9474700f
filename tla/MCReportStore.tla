--------------------------- MODULE MCReportStore ---------------------------
(***************************************************************************)
(* A small instance of ReportStore: reports of two minutes, the first with *)
(* two attempts of different content.                                      *)
(***************************************************************************)
EXTENDS StoreLedger, TLC

CONSTANTS n1, n2, k1, k2, a1, s1

Inv(K) == [k \in K |-> a1]

Rep(at, K, metrics, temps, health) ==
    [agent |-> n1, collected |-> at, inventory |-> Inv(K), fingerprint |-> Inv(K),
     metrics |-> metrics, temps |-> temps, health |-> health]

MCPayload ==
    {Rep(0, {k1}, {k1}, {s1}, {}),            \* first minute
     Rep(1, {k1, k2}, {k1, k2}, {}, {k1}),    \* its retry: one disk more
     Rep(2, {k2}, {k2}, {}, {k2}),            \* next minute: k1 gone, sensors silent
     [Rep(1, {k1}, {k1}, {s1}, {}) EXCEPT !.fingerprint = Inv({k2})]}  \* invalid

\* Requests are interchangeable, and so are tokens and registrations.
HandlerSymmetry == Permutations(Handler)

\* One report, sent with any token: for the registration run.
MCOnePayload == {Rep(0, {k1}, {k1}, {}, {})}

TokenSymmetry == Permutations(TokenId) \cup Permutations(Admin)
============================================================================
