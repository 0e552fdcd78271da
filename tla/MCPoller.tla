------------------------------ MODULE MCPoller ------------------------------
(***************************************************************************)
(* A small block tree for checking Poller. A hash is the path from genesis *)
(* to its block, a step at a fork being numbered; the chains of the node   *)
(* are all the paths along the branches `Tips', from MinHeight up.         *)
(***************************************************************************)
EXTENDS Poller

CONSTANTS Tips, MinHeight

PathsTo(tip) == {SubSeq(tip, 1, n) : n \in (MinHeight + 1)..Len(tip)}

MCPaths == UNION {PathsTo(tip) : tip \in Tips}

BlockOf(path) == [number |-> Len(path) - 1, hash |-> path, parent_hash |-> Front(path)]

MCChains == {[i \in 1..Len(p) |-> BlockOf(SubSeq(p, 1, i))] : p \in MCPaths}
MCBlocks == UNION {Range(c) : c \in MCChains}
MCHash   == {b.hash : b \in MCBlocks} \cup {<<>>}

\* No fork; the head may only lag.
OneChain == { <<1, 1, 1, 1, 1>> }

\* Forks at heights 2 and 3, up to height 5.
TwoForks == { <<1, 1, 1, 1, 1, 1>>, <<1, 1, 1, 2, 1, 1>>, <<1, 1, 2, 1, 1, 1>> }

\* Three blocks compete at height 3, each with a successor.
ThreeWays == { <<1, 1, 1, 1, 1>>, <<1, 1, 1, 2, 1>>, <<1, 1, 1, 3, 1>> }
=============================================================================
