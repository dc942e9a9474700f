---------------------------- MODULE VersionOrder ----------------------------
(***************************************************************************)
(* The order of agent versions (internal/version/version.go), by which the *)
(* service offers an update and the agent accepts one.                     *)
(*                                                                         *)
(* A version is a triple of numbers and a sequence of prerelease           *)
(* identifiers.  An identifier is numeric when it consists of digits that  *)
(* fit into 64 bits, and then has a number; text is the place of its       *)
(* spelling in the order of strings, so that "1" and "01" have the same    *)
(* number and different texts.                                             *)
(***************************************************************************)
EXTENDS Integers, Sequences

Identifier == {x \in [numeric : BOOLEAN, number : Nat, text : Nat] : ~x.numeric => x.number = 0}

Version == [numbers : [1..3 -> Nat], prerelease : Seq(Identifier)]

CompareInt(a, b) == IF a < b THEN -1 ELSE IF a > b THEN 1 ELSE 0

CompareIdentifier(x, y) ==
    IF x.numeric /\ y.numeric /\ x.number # y.number THEN CompareInt(x.number, y.number)
    ELSE IF x.numeric # y.numeric THEN (IF x.numeric THEN -1 ELSE 1)
    ELSE CompareInt(x.text, y.text)

Smallest(S) == CHOOSE i \in S : \A j \in S : i <= j

\* Identifier by identifier, then the shorter first; no prerelease at all is last.
ComparePrerelease(l, r) ==
    LET differ == {i \in (1..Len(l)) \cap (1..Len(r)) : CompareIdentifier(l[i], r[i]) # 0}
    IN  IF differ # {} THEN CompareIdentifier(l[Smallest(differ)], r[Smallest(differ)])
        ELSE IF l = <<>> \/ r = <<>> THEN CompareInt(Len(r), Len(l))
        ELSE CompareInt(Len(l), Len(r))

Compare(l, r) ==
    LET differ == {i \in 1..3 : l.numbers[i] # r.numbers[i]}
    IN  IF differ # {} THEN CompareInt(l.numbers[Smallest(differ)], r.numbers[Smallest(differ)])
        ELSE ComparePrerelease(l.prerelease, r.prerelease)

\* l comes before r.
Older(l, r) == Compare(l, r) = -1
=============================================================================
