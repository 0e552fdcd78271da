--------------------------- MODULE ConfirmedFeed ---------------------------
(***************************************************************************)
(* What the indexer promises downstream, whatever window, confirmation     *)
(* depth and bookkeeping it uses: the blocks held as confirmed are at all  *)
(* times one chain; a step retracts some of the highest of them and adds   *)
(* blocks on top of those that stay.                                       *)
(***************************************************************************)
EXTENDS Integers

CONSTANTS Blocks

VARIABLES live   \* the blocks downstream holds as confirmed

\* The blocks of S are consecutive, one per height, each the parent of the next.
IsChain(S) ==
  /\ \A a, b \in S : a.number = b.number => a = b
  /\ \A a, b \in S : a.number + 1 = b.number => a.hash = b.parent_hash
  /\ \A a, b \in S : \A n \in a.number..b.number : \E c \in S : c.number = n

Init == live = {}

Amend ==
  /\ live' \subseteq Blocks
  /\ IsChain(live')
  /\ \A stays \in live \cap live' :
       /\ \A gone \in live \ live' : stays.number < gone.number
       /\ \A new \in live' \ live : stays.number < new.number

Next == Amend

Spec == Init /\ [][Next]_live
=============================================================================
