--------------------------- MODULE MCReleaseCache ---------------------------
(***************************************************************************)
(* A small instance of ReleaseCache: release 1 and latest are cached,      *)
(* release 2 is bundled with the image, its binary damaged.                *)
(***************************************************************************)
EXTENDS ReleaseCache, TLC

CONSTANTS linux, bad

MCListed == [r \in Release |-> {linux}]

MCBundle == [v \in {2} |-> [f \in File |-> IF f = Sums THEN 2 ELSE bad]]

RequestSymmetry == Permutations(Request)
============================================================================
