----------------------------- MODULE MCTracker -----------------------------
(***************************************************************************)
(* A block tree for checking Tracker: from one genesis, `Forks' children   *)
(* per block up to height MaxHeight. The hash of a block is the path that  *)
(* leads to it, so it determines the block, as a hash does.                *)
(***************************************************************************)
EXTENDS Tracker, SequencesExt

CONSTANTS MaxHeight, Forks

MCHash ==
  {<<>>} \cup {p \in UNION {[1..n -> 1..Forks] : n \in 1..(MaxHeight + 1)} : p[1] = 1}

MCBlocks ==
  {[number |-> Len(p) - 1, hash |-> p, parent_hash |-> Front(p)] : p \in MCHash \ {<<>>}}
=============================================================================
