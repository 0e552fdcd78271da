------------------------------- MODULE Books -------------------------------
(***************************************************************************)
(* What a ledger store promises its callers (ledger/src/store.rs, trait    *)
(* LedgerStore): a key has one body for ever, the first accepted under it, *)
(* however often and in whatever order calls are repeated.                 *)
(***************************************************************************)
CONSTANTS Keys, Bodies

VARIABLES
  entries,  \* the body of each key, <<>> while it has none
  answer    \* the last call: its key, its body and its outcome

Init ==
  /\ entries = [key \in Keys |-> <<>>]
  /\ answer.outcome = "none"

Call ==
  LET key == answer'.key IN
    /\ entries' \in [Keys -> Bodies \cup {<<>>}]
    /\ \A other \in Keys : entries[other] # <<>> \/ other # key => entries'[other] = entries[other]
    /\ answer'.outcome = "ok" => entries'[key] = answer'.body
    /\ answer'.outcome # "ok" => entries' = entries
    /\ answer'.outcome = "conflict" => entries[key] \notin {<<>>, answer'.body}

Next == Call

Spec == Init /\ [][Next]_<<entries, answer>>
=============================================================================
