---------------------------- MODULE PaperAdapter ----------------------------
(***************************************************************************)
(* The paper-trading adapter as operators on a ledger: what app/exchange/  *)
(* paper.py does to the balances of one account when an order is placed or *)
(* cancelled, and the pre-trade check of app/trading/risk.py.              *)
(*                                                                         *)
(* A ledger maps every asset to a balance.  An asset the ledger does not   *)
(* hold is a balance with present = FALSE and zero funds: the code reads   *)
(* it as Balance(asset, 0, 0), but it has no database row.                 *)
(*                                                                         *)
(* Amounts are naturals.  The code computes with exact decimals; the       *)
(* constants are chosen so that the fee of every cost is a natural, too    *)
(* (FeesAreExact), so no rounding takes place here either.                 *)
(***************************************************************************)
EXTENDS Integers

CONSTANTS
    Asset,            \* assets an account may hold
    QuoteAsset,       \* the asset an unused account is seeded with (USDT)
    StartingBalance,  \* and how much of it (100000)
    OrderRequests,    \* order bodies the clients send
    Prices,           \* values the ticker's `last` may take
    FeeNum, FeeDen,   \* the taker fee is FeeNum / FeeDen of the cost
    MaxLeverage       \* RiskLimits.max_leverage

NoPrice == 0          \* Python's None; `order.price or Decimal(0)` is then 0

OrderTypes == {"market", "limit", "stop"}

OrderRequest ==
    [side: {"buy", "sell"}, type: OrderTypes, base: Asset, quote: Asset,
     amount: Nat \ {0}, price: Nat, postOnly: BOOLEAN, leverage: Nat \ {0}]

ASSUME AdapterAssumption ==
    /\ QuoteAsset \in Asset
    /\ StartingBalance \in Nat
    /\ OrderRequests \subseteq OrderRequest
    /\ \A q \in OrderRequests : /\ q.type = "limit" => q.price # NoPrice
                                /\ q.base # q.quote
    /\ Prices \subseteq Nat \ {0}
    /\ FeeNum \in Nat /\ FeeDen \in Nat \ {0} /\ FeeNum <= FeeDen
    /\ MaxLeverage \in Nat \ {0}

ASSUME FeesAreExact ==
    \A q \in OrderRequests : \A p \in Prices \cup {q.price} :
        (q.amount * p * FeeNum) % FeeDen = 0

Balance == [present: BOOLEAN, free: Nat, used: Nat]
Absent == [present |-> FALSE, free |-> 0, used |-> 0]
Ledger == [Asset -> Balance]

Held(free, used) == [present |-> TRUE, free |-> free, used |-> used]

(***************************************************************************)
(* Moving funds.                                                           *)
(***************************************************************************)
Fee(cost) == (cost * FeeNum) \div FeeDen

Credit(l, a, x) == [l EXCEPT ![a] = Held(l[a].free + x, l[a].used)]

\* Mutant of Covers: funds in use count as available.
CoversWithUsed(l, a, x) == l[a].free + l[a].used >= x

\* _debit and _reserve raise InsufficientBalanceError unless this holds.
Covers(l, a, x) == l[a].free >= x

Debit(l, a, x) == [l EXCEPT ![a] = Held(l[a].free - x, l[a].used)]

Reserve(l, a, x) == [l EXCEPT ![a] = Held(l[a].free - x, l[a].used + x)]

\* "never below zero used": at most what is in use is given back.
Release(l, a, x) ==
    LET released == IF x <= l[a].used THEN x ELSE l[a].used
    IN  [l EXCEPT ![a] = Held(l[a].free + released, l[a].used - released)]

(***************************************************************************)
(* Placing an order.                                                       *)
(***************************************************************************)
Cost(q, price) == q.amount * price

\* The asset and the amount a resting order holds reserved.
ReservedAsset(q) == IF q.side = "buy" THEN q.quote ELSE q.base

ReservedAmount(q) ==
    IF q.side = "buy" THEN Cost(q, q.price) + Fee(Cost(q, q.price)) ELSE q.amount

\* A limit order that would execute at once.  It fills at min(price, last)
\* or max(price, last), which is `last` whenever it is marketable.
Marketable(q, last) ==
    /\ q.type = "limit"
    /\ ~q.postOnly
    /\ IF q.side = "buy" THEN q.price >= last ELSE q.price <= last

\* NoPrice when the order rests: post-only, not marketable, or conditional.
ResolveFillPrice(q, last) ==
    IF q.type = "market" \/ Marketable(q, last) THEN last ELSE NoPrice

Rests(q, last) == ResolveFillPrice(q, last) = NoPrice

\* create_order does not raise InsufficientBalanceError.
Affordable(l, q, last) ==
    LET cost == Cost(q, last)
    IN  /\ Rests(q, last) => Covers(l, ReservedAsset(q), ReservedAmount(q))
        /\ ~Rests(q, last) /\ q.side = "buy" => Covers(l, q.quote, cost + Fee(cost))
        /\ ~Rests(q, last) /\ q.side = "sell" => Covers(l, q.base, q.amount)

\* Mutant of Filled: the proceeds of a sale are credited before the fee.
FilledSellFeeless(l, q, last) ==
    LET cost == Cost(q, last)
    IN  IF q.side = "buy"
        THEN Credit(Debit(l, q.quote, cost + Fee(cost)), q.base, q.amount)
        ELSE Credit(Debit(l, q.base, q.amount), q.quote, cost)

Filled(l, q, last) ==
    LET cost == Cost(q, last)
    IN  IF q.side = "buy"
        THEN Credit(Debit(l, q.quote, cost + Fee(cost)), q.base, q.amount)
        ELSE Credit(Debit(l, q.base, q.amount), q.quote, cost - Fee(cost))

\* The ledger after create_order: funds reserved, or exchanged at `last`.
Created(l, q, last) ==
    IF Rests(q, last)
    THEN Reserve(l, ReservedAsset(q), ReservedAmount(q))
    ELSE Filled(l, q, last)

(***************************************************************************)
(* Order records.  The columns the ledger depends on: the status, the      *)
(* order as it was sent, and the average fill price.                       *)
(***************************************************************************)
OrderRecord == [status: {"open", "filled", "canceled"}, order: OrderRequests, average: Nat]
NoRecord == [status |-> "none"]

CreatedRecord(q, last) ==
    [status |-> IF Rests(q, last) THEN "open" ELSE "filled",
     order |-> q, average |-> ResolveFillPrice(q, last)]

CanceledRecord(rec) == [rec EXCEPT !.status = "canceled"]

(***************************************************************************)
(* The pre-trade check.  `ref` is the price the client sent, or the mark   *)
(* price if it sent none; equity is free + used of the quote asset.  With  *)
(* no equity the size check passes and only the leverage ceiling is left.  *)
(* The margin share is max_position_margin_pct = 1/2.                      *)
(***************************************************************************)
Equity(l, q) == l[q.quote].free + l[q.quote].used

RefPrices(q) == IF q.price # NoPrice THEN {q.price} ELSE Prices

WithinRisk(l, q, ref) ==
    /\ q.leverage <= MaxLeverage
    /\ Equity(l, q) > 0 => 2 * Cost(q, ref) <= Equity(l, q) * q.leverage

\* The pre-trade check reads the ticker, and create_order reads it again.
Accepted(l, q, last) ==
    /\ \E ref \in RefPrices(q) : WithinRisk(l, q, ref)
    /\ Affordable(l, q, last)

\* An account with no rows is seeded the first time it is loaded.
Seeded == [a \in Asset |-> IF a = QuoteAsset THEN Held(StartingBalance, 0) ELSE Absent]

Opening(l) == IF \E a \in Asset : l[a].present THEN l ELSE Seeded
=============================================================================
