----------------------------- MODULE MCPipeline -----------------------------
(***************************************************************************)
(* Two blocks on one branch, three on the other. Amounts are i128s of 3    *)
(* bits (-4..3), values u256s of 4. A transaction of two transfers, one    *)
(* the reverse of the other but for the log index, a transfer to oneself,  *)
(* of nothing, of the largest amount and of one more; and, with            *)
(* MinedAgain, a transaction that is on both branches.                     *)
(***************************************************************************)
EXTENDS Pipeline

Block(hash, parent_hash, number) == [number |-> number, hash |-> hash, parent_hash |-> parent_hash]

A1 == Block("a1", "genesis", 1)
A2 == Block("a2", "a1", 2)
B2 == Block("b2", "a1", 2)
B3 == Block("b3", "b2", 3)

MCBlocks == {A1, A2, B2, B3}

Moves(b, tx_hash, log_index, from, to, value) ==
  [tx_hash |-> tx_hash, log_index |-> log_index, block_number |-> b.number,
   from |-> from, to |-> to, value |-> value]

MCLogs ==
  A1 :> << Moves(A1, "t1", 0, "ann", "bob", 2), Moves(A1, "t1", 1, "bob", "cy", 1) >> @@
  A2 :> << Moves(A2, "t2", 0, "bob", "ann", 3), Moves(A2, "t3", 1, "ann", "ann", 1),
           Moves(A2, "t4", 2, "cy", "bob", 4) >> @@
  B2 :> << Moves(B2, IF MinedAgain THEN "t2" ELSE "t5", 0, "bob", "ann", 3) >> @@
  B3 :> << Moves(B3, "t6", 0, "ann", "cy", 0) >>
=============================================================================
