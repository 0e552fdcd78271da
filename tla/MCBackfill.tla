----------------------------- MODULE MCBackfill -----------------------------
(***************************************************************************)
(* Ranges of all shapes over heights of 3 bits: of one window and of       *)
(* several, empty, up to the largest height, with a span of 0, above the   *)
(* head. Either no log is flawed, or those of two blocks are.              *)
(***************************************************************************)
EXTENDS Backfill

Ask(from, to, max_span) == [from |-> from, to |-> to, max_span |-> max_span, url |-> TRUE]

MCRequests ==
  {Ask(from, to, max_span) : from \in {0, 3, 5}, to \in {2, 5, MaxHeight}, max_span \in {0, 2, 3, MaxHeight}}
    \cup {[Ask(0, 2, 2) EXCEPT !.url = FALSE]}

MCFlaws ==
  { [n \in Heights |-> "none"],
    [n \in Heights |-> CASE n = 4 -> "decode" [] n = 1 -> "incomplete" [] OTHER -> "none"] }
=============================================================================
