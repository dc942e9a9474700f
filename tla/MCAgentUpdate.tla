--------------------------- MODULE MCAgentUpdate ---------------------------
(***************************************************************************)
(* An instance of AgentUpdate: two processes, and versions whose order is  *)
(* neither that of their names nor that of the lengths of their names.     *)
(***************************************************************************)
EXTENDS AgentUpdate

Num(n, text) == [numeric |-> TRUE, number |-> n, text |-> text]
Word(text) == [numeric |-> FALSE, number |-> 0, text |-> text]
Ver(a, b, c, prerelease) == [numbers |-> <<a, b, c>>, prerelease |-> prerelease]

\* The texts "01", "1", "10", "2" and "rc" in the order of strings.
Text == [zero_one |-> 0, one |-> 1, ten |-> 2, two |-> 3, rc |-> 4]

\* Ascending, as the versions of the releases are meant.
MCAscending ==
    <<Ver(1, 9, 9, <<>>),
      Ver(1, 10, 0, <<Num(2, Text.two)>>),
      Ver(1, 10, 0, <<Num(10, Text.ten)>>),
      Ver(1, 10, 0, <<Word(Text.rc)>>),
      Ver(1, 10, 0, <<Word(Text.rc), Num(1, Text.zero_one)>>),
      Ver(1, 10, 0, <<Word(Text.rc), Num(1, Text.one)>>),
      Ver(1, 10, 0, <<Word(Text.rc), Num(2, Text.two)>>),
      Ver(1, 10, 0, <<>>),
      Ver(2, 0, 0, <<Num(1, Text.one)>>)>>

ASSUME CompareAgrees ==
    \A i, j \in DOMAIN MCAscending : Compare(MCAscending[i], MCAscending[j]) = CompareInt(i, j)

MCRelease == {MCAscending[i] : i \in {1, 7, 8}}
============================================================================
