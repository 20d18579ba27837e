------------------------------ MODULE Exchange ------------------------------
(***************************************************************************)
(* The part of CoinEx that the bot's correctness depends on: what becomes  *)
(* of the limit orders it is sent.  External code; modelled from the calls *)
(* internal/api/client.go makes (POST and DELETE /spot/order, POST         *)
(* /futures/order) and from what the engines do with the answers.          *)
(***************************************************************************)

CONSTANT OrderIds      \* the order ids the exchange can hand out

VARIABLE xchg          \* xchg[o]: what the exchange holds under id o

\* "absent": never accepted; "resting": on the book; "filled": it traded and
\* became a position; "cancelled": removed from the book untouched.
OrderState == {"absent", "resting", "filled", "cancelled"}

ExchangeTypeOK == xchg \in [OrderIds -> OrderState]

ExchangeInit == xchg = [o \in OrderIds |-> "absent"]

\* A limit order is accepted under a fresh id and rests on the book.
Accept(o) == /\ xchg[o] = "absent"
             /\ xchg' = [xchg EXCEPT ![o] = "resting"]

\* A resting order trades, at any time and without telling the bot.
Fill(o) == /\ xchg[o] = "resting"
           /\ xchg' = [xchg EXCEPT ![o] = "filled"]

\* A cancel request that arrives: it removes a resting order and is refused
\* for any other.
CancelArrives(o) ==
    xchg' = [xchg EXCEPT ![o] = IF @ = "resting" THEN "cancelled" ELSE @]

Resting == {o \in OrderIds : xchg[o] = "resting"}
=============================================================================
