------------------------------ MODULE MCLedger ------------------------------
(***************************************************************************)
(* Small ledgers: amounts of 3 bits (-4..3) and requests that reach both   *)
(* ends of that width.                                                     *)
(***************************************************************************)
EXTENDS Ledger

Leg(account, amount, asset) == [account |-> account, amount |-> amount, asset |-> asset]

MCAccounts == {"card", "cash"}
MCAssets   == {"usd", "eur"}

MCRequests ==
  { <<>>,
    << Leg("card", -3, "usd"), Leg("cash", 3, "usd") >>,   \* a payment
    << Leg("card", -1, "usd"), Leg("cash", 3, "eur"),      \* an exchange
       Leg("cash", 1, "usd"), Leg("card", -3, "eur") >>,
    << Leg("card", -3, "usd"), Leg("cash", 3, "eur") >>,   \* nets to zero only across assets
    << Leg("card", -3, "usd"), Leg("cash", 1, "usd") >>,   \* does not net to zero
    << Leg("card", -4, "usd"), Leg("cash", 1, "usd"),      \* cannot be reversed
       Leg("cash", 3, "usd") >>,
    << Leg("cash", 3, "usd"), Leg("cash", 1, "usd"),       \* overflows on the way to zero
       Leg("card", -4, "usd") >>,
    << Leg("card", -4, "usd"), Leg("card", -4, "usd") >> } \* zero once wrapped
=============================================================================
