---------------------------- MODULE SerialLedger ----------------------------
(***************************************************************************)
(* What the durable paper ledger promises: the balance rows and the order  *)
(* records of an account change as if place_order and cancel_order ran one *)
(* at a time, each of them taking effect at once on the current rows.      *)
(***************************************************************************)
EXTENDS PaperAdapter, Functions

CONSTANTS
    Order,         \* identities of orders, each of them placed at most once
    InitialRows    \* the account's balance rows at the start

VARIABLES
    rows,          \* paper_balances: the committed row of each asset
    records        \* orders: the committed record of each order

vars == <<rows, records>>

Init ==
    /\ rows = InitialRows
    /\ records = [o \in Order |-> NoRecord]

Place(o) ==
    /\ records[o] = NoRecord
    /\ \E q \in OrderRequests, last \in Prices :
          /\ Accepted(Opening(rows), q, last)
          /\ rows' = Created(Opening(rows), q, last)
          /\ records' = [records EXCEPT ![o] = CreatedRecord(q, last)]

Cancel(o) ==
    /\ records[o].status = "open"
    /\ LET q == records[o].order
       IN  rows' = Release(rows, ReservedAsset(q), ReservedAmount(q))
    /\ records' = [records EXCEPT ![o] = CanceledRecord(records[o])]

Next == \E o \in Order : Place(o) \/ Cancel(o)

Spec == Init /\ [][Next]_vars

-----------------------------------------------------------------------------
(***************************************************************************)
(* The books.  Only what is committed counts.                              *)
(***************************************************************************)
WithStatus(s) == {o \in Order : records[o].status = s}

\* What a filled order added to the holding of asset a.
Delta(rec, a) ==
    LET q == rec.order
        cost == Cost(q, rec.average)
    IN  CASE a = q.base  -> IF q.side = "buy" THEN q.amount ELSE -q.amount
          [] a = q.quote -> IF q.side = "buy" THEN -(cost + Fee(cost)) ELSE cost - Fee(cost)
          [] OTHER       -> 0

\* What an open order holds reserved of asset a.
ReservedBy(rec, a) == IF a = ReservedAsset(rec.order) THEN ReservedAmount(rec.order) ELSE 0

(***************************************************************************)
(* No trade is lost and none is applied twice: what the account owns of    *)
(* every asset is what it started with plus what its filled orders, all of *)
(* them, bought and sold, fees included (paper.py create_order, and the    *)
(* load and save of paper_ledger_repository.py around it).                 *)
(***************************************************************************)
BooksBalance ==
    \A a \in Asset :
        Opening(rows)[a].free + Opening(rows)[a].used =
            Opening(InitialRows)[a].free
            + SumFunction([o \in WithStatus("filled") |-> Delta(records[o], a)])

(***************************************************************************)
(* The funds in use are exactly the reservations of the open orders: a     *)
(* cancelled order gave its funds back once, and no open order has lost    *)
(* its own (paper.py _reserve and _release).                               *)
(***************************************************************************)
UsedBacksOpenOrders ==
    \A a \in Asset :
        rows[a].used = SumFunction([o \in WithStatus("open") |-> ReservedBy(records[o], a)])
=============================================================================
