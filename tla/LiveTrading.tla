---------------------------- MODULE LiveTrading -----------------------------
(***************************************************************************)
(* One live account (is_paper = FALSE, complete credentials) under the     *)
(* server's live-trading policy: account_service.py and factory.py decide  *)
(* per request whether an order goes to the exchange or to the account's   *)
(* paper ledger, trading_service.py records what came of it.  The policy   *)
(* is read when the process starts; a restart may change it.               *)
(*                                                                         *)
(* A request to the exchange is a message: the exchange may carry it out   *)
(* after the hub gave up waiting, and its answer may be lost.  What a      *)
(* request does on paper is one step here; PaperTrading is about the rest. *)
(* No lock is held on the live path.                                       *)
(***************************************************************************)
EXTENDS Integers

CONSTANTS
    Req,             \* requests; an order is named after the request placing it
    PolicyChanges    \* may a restart change ALLOW_LIVE_TRADING?

ASSUME PolicyAssumption == PolicyChanges \in BOOLEAN

VARIABLES
    liveTrading,     \* settings.allow_live_trading of the running process
    records,         \* orders: the committed record of each order
    reserved,        \* paper orders whose funds are reserved
    exchange,        \* the exchange's own state of each order
    net,             \* requests on their way to the exchange
    pc,              \* where each request is
    op,              \* what it was asked to do
    answer           \* the status in the exchange's answer

hub == <<records, reserved>>
vars == <<liveTrading, records, reserved, exchange, net, pc, op, answer>>

NoRecord == [status |-> "none", paper |-> FALSE, id |-> FALSE]
Status == {"open", "filled", "canceled", "expired", "rejected"}

\* id: does the record have the venue's identifier of the order?
Record == [status: Status, paper: BOOLEAN, id: BOOLEAN]

Operation == [kind: {"place", "cancel"}, order: Req]
NoOperation == [kind |-> "none"]

\* ccxt's unified statuses; "missing" is an answer without one.
Reported == {"open", "closed", "canceled", "expired", "rejected", "missing"}

\* Mutant of ParsedStatus: ccxt's statuses are stored as they are.
ParsedVerbatim(s) == IF s = "missing" THEN "open" ELSE s

\* Mutant of ParsedStatus: what is not reported as open is taken for canceled.
ParsedAsCanceled(s) == CASE s = "closed"  -> "filled"
                         [] s = "missing" -> "canceled"
                         [] OTHER         -> s

\* _parse_order: _STATUS_MAP, with `open` for what it does not know.
ParsedStatus(s) == CASE s = "closed"  -> "filled"
                     [] s = "missing" -> "open"
                     [] OTHER         -> s

TypeOK ==
    /\ liveTrading \in BOOLEAN
    /\ records \in [Req -> Record \cup {NoRecord}]
    /\ reserved \in SUBSET Req
    /\ exchange \in [Req -> {"none", "open", "closed", "canceled", "expired", "rejected"}]
    /\ net \in SUBSET [from: Req, kind: {"place", "cancel"}, order: Req]
    /\ pc \in [Req -> {"idle", "ready", "live", "paper", "waiting", "answered", "done"}]
    /\ op \in [Req -> Operation \cup {NoOperation}]
    /\ answer \in [Req -> Reported]

Init ==
    /\ liveTrading \in BOOLEAN
    /\ records = [o \in Req |-> NoRecord]
    /\ reserved = {}
    /\ exchange = [o \in Req |-> "none"]
    /\ net = {}
    /\ pc = [r \in Req |-> "idle"]
    /\ op = [r \in Req |-> NoOperation]
    /\ answer = [r \in Req |-> "missing"]

End(r) ==
    /\ pc' = [pc EXCEPT ![r] = "done"]
    /\ op' = [op EXCEPT ![r] = NoOperation]
    /\ answer' = [answer EXCEPT ![r] = "missing"]

Begin(r, kind, o) ==
    /\ pc' = [pc EXCEPT ![r] = "ready"]
    /\ op' = [op EXCEPT ![r] = [kind |-> kind, order |-> o]]
    /\ UNCHANGED answer

(***************************************************************************)
(* The requests arrive.                                                    *)
(***************************************************************************)
PlaceOrder(r) ==
    /\ pc[r] = "idle"
    /\ Begin(r, "place", r)
    /\ UNCHANGED <<liveTrading, hub, exchange, net>>

\* Mutant of CancelOrder: a filled order can be cancelled.
CancelUnlessCanceled(r, o) ==
    /\ pc[r] = "idle"
    /\ IF records[o] # NoRecord /\ records[o].status # "canceled"
       THEN Begin(r, "cancel", o)
       ELSE End(r)
    /\ UNCHANGED <<liveTrading, hub, exchange, net>>

\* NotFoundError without a record; canceled and filled orders are returned.
CancelOrder(r, o) ==
    /\ pc[r] = "idle"
    /\ IF records[o] # NoRecord /\ records[o].status \notin {"canceled", "filled"}
       THEN Begin(r, "cancel", o)
       ELSE End(r)
    /\ UNCHANGED <<liveTrading, hub, exchange, net>>

(***************************************************************************)
(* The policy decides which adapter the request gets, before anything is   *)
(* sent: the risk check's own questions to the adapter lie in between.     *)
(***************************************************************************)
OpenAdapter(r) ==
    /\ pc[r] = "ready"
    /\ pc' = [pc EXCEPT ![r] = IF liveTrading THEN "live" ELSE "paper"]
    /\ UNCHANGED <<liveTrading, hub, exchange, net, op, answer>>

(***************************************************************************)
(* The factory forced a paper adapter.                                     *)
(***************************************************************************)
PlaceOnPaper(r) ==
    /\ pc[r] = "paper" /\ op[r].kind = "place"
    /\ \E status \in {"open", "filled"} :
          /\ records' = [records EXCEPT ![r] =
                            [status |-> status, paper |-> TRUE, id |-> TRUE]]
          /\ reserved' = IF status = "open" THEN reserved \cup {r} ELSE reserved
    /\ End(r)
    /\ UNCHANGED <<liveTrading, exchange, net>>

\* The open orders PaperLedgerRepository loads for the account.
OpenPaperOrders == {o \in Req : records[o].paper /\ records[o].status = "open"}

\* An order the adapter does not know raises NotFoundError, and the record
\* is marked canceled all the same.
CancelOnPaper(r) ==
    /\ pc[r] = "paper" /\ op[r].kind = "cancel"
    /\ LET o == op[r].order
       IN  /\ records[o].id
           /\ reserved' = IF o \in OpenPaperOrders THEN reserved \ {o} ELSE reserved
           /\ records' = [records EXCEPT ![o].status = "canceled"]
    /\ End(r)
    /\ UNCHANGED <<liveTrading, exchange, net>>

\* A record without an identifier is marked, and no adapter is asked.
MarkCanceled(r) ==
    /\ pc[r] \in {"live", "paper"} /\ op[r].kind = "cancel"
    /\ LET o == op[r].order
       IN  /\ ~records[o].id
           /\ records' = [records EXCEPT ![o].status = "canceled"]
    /\ End(r)
    /\ UNCHANGED <<liveTrading, reserved, exchange, net>>

(***************************************************************************)
(* The policy allowed it: CcxtAdapter sends the request to the exchange.   *)
(***************************************************************************)
Send(r) ==
    /\ pc[r] = "live"
    /\ op[r].kind = "cancel" => records[op[r].order].id
    /\ net' = net \cup {[from |-> r, kind |-> op[r].kind, order |-> op[r].order]}
    /\ pc' = [pc EXCEPT ![r] = "waiting"]
    /\ UNCHANGED <<liveTrading, hub, exchange, op, answer>>

\* Mutant of Recorded: is_paper keeps the column's default.
RecordedAsPaper(r) ==
    LET o == op[r].order
        status == ParsedStatus(answer[r])
    IN  IF op[r].kind = "place"
        THEN \E id \in BOOLEAN :
                records' = [records EXCEPT ![o] =
                               [status |-> status, paper |-> TRUE, id |-> id]]
        ELSE records' = [records EXCEPT ![o].status =
                            IF status = "open" THEN records[o].status ELSE status]

\* The answer to a new order may come without its identifier.  The unit of
\* work writes a column whose value changed: a cancelled order that is parsed
\* as open, as it was read, writes nothing.
Recorded(r) ==
    LET o == op[r].order
        status == ParsedStatus(answer[r])
    IN  IF op[r].kind = "place"
        THEN \E id \in BOOLEAN :
                records' = [records EXCEPT ![o] =
                               [status |-> status, paper |-> FALSE, id |-> id]]
        ELSE records' = [records EXCEPT ![o].status =
                            IF status = "open" THEN records[o].status ELSE status]

Persist(r) ==
    /\ pc[r] = "answered"
    /\ Recorded(r)
    /\ End(r)
    /\ UNCHANGED <<liveTrading, reserved, exchange, net>>

\* Any exception: no account, the risk check, an open circuit, no funds, the
\* exchange's answer did not come in time or was lost, the commit failed.
Raise(r) ==
    /\ pc[r] \in {"ready", "live", "paper", "waiting", "answered"}
    /\ End(r)
    /\ UNCHANGED <<liveTrading, hub, exchange, net>>

(***************************************************************************)
(* The exchange.                                                           *)
(***************************************************************************)
\* The answer to m, if its sender still waits for it.
Answer(m, status) ==
    IF pc[m.from] = "waiting"
    THEN /\ pc' = [pc EXCEPT ![m.from] = "answered"]
         /\ \E shown \in {status, "missing"} : answer' = [answer EXCEPT ![m.from] = shown]
    ELSE UNCHANGED <<pc, answer>>

\* "canceled" is an order that is filled at once or not at all.
ExchangeCreates(m) ==
    /\ m.kind = "place"
    /\ \E status \in {"open", "closed", "canceled", "expired", "rejected"} :
          /\ exchange' = [exchange EXCEPT ![m.order] = status]
          /\ Answer(m, status)
    /\ net' = net \ {m}
    /\ UNCHANGED <<liveTrading, hub, op>>

ExchangeCancels(m) ==
    /\ m.kind = "cancel"
    /\ exchange[m.order] = "open"
    /\ exchange' = [exchange EXCEPT ![m.order] = "canceled"]
    /\ Answer(m, "canceled")
    /\ net' = net \ {m}
    /\ UNCHANGED <<liveTrading, hub, op>>

\* Mutant of ExchangeRefuses: the exchange's refusal is normalised to
\* NotFoundError, and cancel_order marks the record.
UnknownMeansCanceled(m) ==
    /\ m.kind = "cancel" => exchange[m.order] # "open"
    /\ net' = net \ {m}
    /\ IF pc[m.from] = "waiting" /\ m.kind = "cancel"
       THEN /\ records' = [records EXCEPT ![m.order].status = "canceled"]
            /\ End(m.from)
            /\ UNCHANGED <<liveTrading, reserved, exchange>>
       ELSE UNCHANGED <<liveTrading, hub, exchange, pc, op, answer>>

\* It refuses a new order, or to cancel one that is not open: _call raises
\* ExchangeError, which is not the NotFoundError cancel_order expects.
ExchangeRefuses(m) ==
    /\ m.kind = "cancel" => exchange[m.order] # "open"
    /\ net' = net \ {m}
    /\ IF pc[m.from] = "waiting" THEN End(m.from) ELSE UNCHANGED <<pc, op, answer>>
    /\ UNCHANGED <<liveTrading, hub, exchange>>

\* An open order is filled, expires or is cancelled by the exchange or on its
\* own site; nobody tells the hub.
ExchangeMoves(o) ==
    /\ exchange[o] = "open"
    /\ \E status \in {"closed", "canceled", "expired"} :
          exchange' = [exchange EXCEPT ![o] = status]
    /\ UNCHANGED <<liveTrading, hub, net, pc, op, answer>>

\* Mutant of Restart: the settings are read again in the running process.
ReloadPolicy ==
    /\ liveTrading' \in IF PolicyChanges THEN BOOLEAN ELSE {liveTrading}
    /\ UNCHANGED <<hub, exchange, net, pc, op, answer>>

\* The requests in progress are gone; what they sent is not.
Restart ==
    /\ pc' = [r \in Req |-> IF pc[r] = "idle" THEN "idle" ELSE "done"]
    /\ op' = [r \in Req |-> NoOperation]
    /\ answer' = [r \in Req |-> "missing"]
    /\ liveTrading' \in IF PolicyChanges THEN BOOLEAN ELSE {liveTrading}
    /\ UNCHANGED <<hub, exchange, net>>

Next ==
    \/ \E r \in Req : \/ PlaceOrder(r)
                      \/ \E o \in Req : CancelOrder(r, o)
                      \/ OpenAdapter(r)
                      \/ PlaceOnPaper(r)
                      \/ CancelOnPaper(r)
                      \/ MarkCanceled(r)
                      \/ Send(r)
                      \/ Persist(r)
                      \/ Raise(r)
    \/ \E m \in net : ExchangeCreates(m) \/ ExchangeCancels(m) \/ ExchangeRefuses(m)
    \/ \E o \in Req : ExchangeMoves(o)
    \/ Restart

Spec == Init /\ [][Next]_vars

-----------------------------------------------------------------------------
(***************************************************************************)
(* While the policy forbids live trading nothing is sent to the exchange,  *)
(* although a request is given its adapter some time before it sends: no   *)
(* change of policy overtakes a request that holds a live adapter          *)
(* (factory.py: "Live order placement is impossible").                     *)
(***************************************************************************)
NothingSentWhileForbidden == [][~liveTrading => net' \subseteq net]_vars

(***************************************************************************)
(* A record names the venue its order went to: a paper order never exists  *)
(* on the exchange nor is a request about to create it there, a live one   *)
(* was received by the exchange, and it is recorded as filled only if the  *)
(* exchange filled it (is_paper and status of _persist and _parse_order).  *)
(***************************************************************************)
RecordsNameTheVenue ==
    \A o \in Req : records[o] # NoRecord =>
        IF records[o].paper
        THEN /\ exchange[o] = "none"
             /\ \A m \in net : m.kind = "place" => m.order # o
        ELSE /\ exchange[o] # "none"
             /\ records[o].status = "filled" => exchange[o] = "closed"

(***************************************************************************)
(* The funds reserved on the account's paper ledger are those of its open  *)
(* paper orders, although the policy may change between placing an order   *)
(* and cancelling it (cancel_order of trading_service.py and paper.py).    *)
(***************************************************************************)
ReservedForOpenPaperOrders == reserved = OpenPaperOrders

(***************************************************************************)
(* An order recorded as canceled, whose identifier the hub has, is no      *)
(* longer open on the exchange (cancel_order: the adapter "is asked to     *)
(* cancel too, so the paper ledger and a live exchange stay consistent").  *)
(***************************************************************************)
CanceledIsNotOpen ==
    \A o \in Req : records[o].status = "canceled" /\ records[o].id => exchange[o] # "open"

(***************************************************************************)
(* While live trading is allowed a record becomes canceled only when the   *)
(* exchange has cancelled the order: no timeout, lost answer, refusal or   *)
(* unparsed status is taken for a cancellation (_call, _parse_order,       *)
(* cancel_order).  Only a record without the exchange's identifier is      *)
(* marked without asking.                                                  *)
(***************************************************************************)
LiveCancelIsConfirmed ==
    [][\A o \in Req :
          /\ liveTrading
          /\ records[o] = NoRecord \/ records[o].id
          /\ records[o].status # "canceled" /\ records'[o].status = "canceled"
          => exchange[o] = "canceled"]_vars

(***************************************************************************)
(* A record that is canceled or filled stays what it is, although two      *)
(* requests that both read it as open may be cancelling it.                *)
(***************************************************************************)
StatusIsFinal ==
    [][\A o \in Req : records[o].status \in {"canceled", "filled"} =>
          records'[o] = records[o]]_vars
=============================================================================
