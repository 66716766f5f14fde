---------------------------- MODULE PaperTrading ----------------------------
(***************************************************************************)
(* Concurrent requests on one paper account: POST /orders and the cancel   *)
(* endpoint, from the handler's first read to the commit or the rollback   *)
(* of its transaction (trading_service.py, account_service.py              *)
(* adapter_session, paper_ledger_repository.py, database/session.py).      *)
(*                                                                         *)
(* Every request is one database transaction at READ COMMITTED, and every  *)
(* statement it awaits is a step of its own:                               *)
(*                                                                         *)
(*   SELECT .. FOR UPDATE takes its snapshot of the balance rows, locks    *)
(*   the rows it saw one after the other, waiting for their holders, and   *)
(*   returns their latest committed values: a row inserted after the       *)
(*   snapshot is neither returned nor locked;                              *)
(*   the SELECT of the open orders has a snapshot of its own;              *)
(*   save() selects the rows again, and inserts or updates the ones that   *)
(*   differ from the working copy, waiting for locks where it needs them;  *)
(*   commit publishes what was written and releases the locks.             *)
(***************************************************************************)
EXTENDS PaperAdapter

CONSTANTS
    Req,           \* requests; a placed order is named after its request
    Nobody,        \* the holder of a row lock that is free
    InitialRows    \* the account's balance rows at the start

ASSUME RequestAssumption == Nobody \notin Req

\* No order is open at the start, so nothing is in use.
ASSUME InitialRowsAssumption ==
    InitialRows \in Ledger /\ \A a \in Asset : InitialRows[a].used = 0

VARIABLES
    \* The database.
    rows,          \* committed balance rows
    records,       \* committed order records
    lock,          \* the request holding the row lock of each asset
    \* The requests' own state.
    pc,            \* where each request is
    op,            \* what it was asked to do
    seen,          \* the rows its SELECT .. FOR UPDATE saw
    ledger,        \* its working copy of the balances
    openOrders,    \* the open orders it loaded
    writes,        \* the rows its save() writes
    inserts,       \* those of them it found missing
    outcome        \* the record it writes, NoRecord if it raised

local == <<pc, op, seen, ledger, openOrders, writes, inserts, outcome>>
vars == <<rows, records, lock, pc, op, seen, ledger, openOrders, writes, inserts, outcome>>

Serial == INSTANCE SerialLedger WITH Order <- Req

Operation ==
    [kind: {"place"}, order: OrderRequests] \cup [kind: {"cancel"}, target: Req]
NoOperation == [kind |-> "none"]

NoFunds == [a \in Asset |-> Absent]

TypeOK ==
    /\ rows \in Ledger
    /\ records \in [Req -> OrderRecord \cup {NoRecord}]
    /\ lock \in [Asset -> Req \cup {Nobody}]
    /\ pc \in [Req -> {"idle", "load", "lock", "work", "save", "flush", "done"}]
    /\ op \in [Req -> Operation \cup {NoOperation}]
    /\ seen \in [Req -> SUBSET Asset]
    /\ ledger \in [Req -> Ledger]
    /\ openOrders \in [Req -> SUBSET Req]
    /\ writes \in [Req -> SUBSET Asset]
    /\ inserts \in [Req -> SUBSET Asset]
    /\ outcome \in [Req -> OrderRecord \cup {NoRecord}]

Init ==
    /\ rows = InitialRows
    /\ records = [r \in Req |-> NoRecord]
    /\ lock = [a \in Asset |-> Nobody]
    /\ pc = [r \in Req |-> "idle"]
    /\ op = [r \in Req |-> NoOperation]
    /\ seen = [r \in Req |-> {}]
    /\ ledger = [r \in Req |-> NoFunds]
    /\ openOrders = [r \in Req |-> {}]
    /\ writes = [r \in Req |-> {}]
    /\ inserts = [r \in Req |-> {}]
    /\ outcome = [r \in Req |-> NoRecord]

Goto(r, label) == pc' = [pc EXCEPT ![r] = label]

\* Mutant of End: the session is not closed and its transaction stays open.
EndKeepsLocks(r) ==
    /\ Goto(r, "done")
    /\ op' = [op EXCEPT ![r] = NoOperation]
    /\ seen' = [seen EXCEPT ![r] = {}]
    /\ ledger' = [ledger EXCEPT ![r] = NoFunds]
    /\ openOrders' = [openOrders EXCEPT ![r] = {}]
    /\ writes' = [writes EXCEPT ![r] = {}]
    /\ inserts' = [inserts EXCEPT ![r] = {}]
    /\ outcome' = [outcome EXCEPT ![r] = NoRecord]
    /\ UNCHANGED lock

\* The end of r's transaction: its locks are free and its own state is gone.
End(r) ==
    /\ lock' = [a \in Asset |-> IF lock[a] = r THEN Nobody ELSE lock[a]]
    /\ Goto(r, "done")
    /\ op' = [op EXCEPT ![r] = NoOperation]
    /\ seen' = [seen EXCEPT ![r] = {}]
    /\ ledger' = [ledger EXCEPT ![r] = NoFunds]
    /\ openOrders' = [openOrders EXCEPT ![r] = {}]
    /\ writes' = [writes EXCEPT ![r] = {}]
    /\ inserts' = [inserts EXCEPT ![r] = {}]
    /\ outcome' = [outcome EXCEPT ![r] = NoRecord]

(***************************************************************************)
(* The requests arrive.                                                    *)
(***************************************************************************)
PlaceOrder(r) ==
    /\ pc[r] = "idle"
    /\ \E q \in OrderRequests : op' = [op EXCEPT ![r] = [kind |-> "place", order |-> q]]
    /\ Goto(r, "load")
    /\ UNCHANGED <<rows, records, lock, seen, ledger, openOrders, writes, inserts, outcome>>

\* Mutant of CancelOrder: any record can be cancelled.
CancelAnyRecord(r, o) ==
    /\ pc[r] = "idle"
    /\ records[o] # NoRecord
    /\ op' = [op EXCEPT ![r] = [kind |-> "cancel", target |-> o]]
    /\ Goto(r, "load")
    /\ UNCHANGED <<rows, records, lock, seen, ledger, openOrders, writes, inserts, outcome>>

\* cancel_order reads the record before it holds any lock.  It returns at
\* once (or raises NotFoundError) unless the record is open.
CancelOrder(r, o) ==
    /\ pc[r] = "idle"
    /\ IF records[o].status = "open"
       THEN /\ op' = [op EXCEPT ![r] = [kind |-> "cancel", target |-> o]]
            /\ Goto(r, "load")
       ELSE /\ Goto(r, "done")
            /\ UNCHANGED op
    /\ UNCHANGED <<rows, records, lock, seen, ledger, openOrders, writes, inserts, outcome>>

(***************************************************************************)
(* PaperLedgerRepository.load.                                             *)
(***************************************************************************)
SelectForUpdate(r) ==
    /\ pc[r] = "load"
    /\ seen' = [seen EXCEPT ![r] = {a \in Asset : rows[a].present}]
    /\ Goto(r, "lock")
    /\ UNCHANGED <<rows, records, lock, op, ledger, openOrders, writes, inserts, outcome>>

LockRow(r, a) ==
    /\ pc[r] = "lock"
    /\ a \in seen[r]
    /\ lock[a] = Nobody
    /\ lock' = [lock EXCEPT ![a] = r]
    /\ UNCHANGED <<rows, records, local>>

OpenRecords == {o \in Req : records[o].status = "open"}

\* Mutant of LoadLedger: the rows are read without waiting for their locks.
LoadLedgerUnlocked(r) ==
    /\ pc[r] = "lock"
    /\ ledger' = [ledger EXCEPT ![r] = IF seen[r] = {} THEN Seeded ELSE
                     [a \in Asset |-> IF a \in seen[r] THEN rows[a] ELSE Absent]]
    /\ openOrders' = [openOrders EXCEPT ![r] = OpenRecords]
    /\ Goto(r, "work")
    /\ UNCHANGED <<rows, records, lock, op, seen, writes, inserts, outcome>>

\* The rows are read under their locks, the open orders after them.
LoadLedger(r) ==
    /\ pc[r] = "lock"
    /\ \A a \in seen[r] : lock[a] = r
    /\ ledger' = [ledger EXCEPT ![r] = IF seen[r] = {} THEN Seeded ELSE
                     [a \in Asset |-> IF a \in seen[r] THEN rows[a] ELSE Absent]]
    /\ openOrders' = [openOrders EXCEPT ![r] = OpenRecords]
    /\ Goto(r, "work")
    /\ UNCHANGED <<rows, records, lock, op, seen, writes, inserts, outcome>>

(***************************************************************************)
(* The body of adapter_session, on the working copy.                       *)
(***************************************************************************)
Place(r) ==
    /\ pc[r] = "work"
    /\ op[r].kind = "place"
    /\ \E last \in Prices :
          /\ Accepted(ledger[r], op[r].order, last)
          /\ ledger' = [ledger EXCEPT ![r] = Created(ledger[r], op[r].order, last)]
          /\ outcome' = [outcome EXCEPT ![r] = CreatedRecord(op[r].order, last)]
    /\ Goto(r, "save")
    /\ UNCHANGED <<rows, records, lock, op, seen, openOrders, writes, inserts>>

\* The risk check, the balance check or the market data source raised; the
\* ledger is untouched.  Market data may always be unavailable.
PlaceRaises(r) ==
    /\ pc[r] = "work"
    /\ op[r].kind = "place"
    /\ Goto(r, "save")
    /\ UNCHANGED <<rows, records, lock, op, seen, ledger, openOrders, writes, inserts, outcome>>

\* Mutant of Cancel: the record is marked, and its reservation kept.
CancelOnlyMarks(r) ==
    /\ pc[r] = "work"
    /\ op[r].kind = "cancel"
    /\ outcome' = [outcome EXCEPT ![r] = CanceledRecord(records[op[r].target])]
    /\ Goto(r, "save")
    /\ UNCHANGED <<rows, records, lock, op, seen, ledger, openOrders, writes, inserts>>

\* PaperAdapter.cancel_order, and the record's new status.  An order that is
\* not among the loaded ones raises NotFoundError, which trading_service
\* answers by marking the record canceled.  The record's other columns are
\* the ones read on arrival; they never change.
Cancel(r) ==
    /\ pc[r] = "work"
    /\ op[r].kind = "cancel"
    /\ LET o == op[r].target
           q == records[o].order
       IN  /\ ledger' = IF o \in openOrders[r]
                        THEN [ledger EXCEPT ![r] =
                                 Release(ledger[r], ReservedAsset(q), ReservedAmount(q))]
                        ELSE ledger
           /\ outcome' = [outcome EXCEPT ![r] = CanceledRecord(records[o])]
    /\ Goto(r, "save")
    /\ UNCHANGED <<rows, records, lock, op, seen, openOrders, writes, inserts>>

(***************************************************************************)
(* PaperLedgerRepository.save, which adapter_session runs in its finally   *)
(* block whether or not the body raised, and the unit of work's end.       *)
(***************************************************************************)
Save(r) ==
    /\ pc[r] = "save"
    /\ LET held == {a \in Asset : ledger[r][a].present}
       IN  /\ writes' = [writes EXCEPT ![r] = {a \in held : ledger[r][a] # rows[a]}]
           /\ inserts' = [inserts EXCEPT ![r] = {a \in held : ~rows[a].present}]
    /\ Goto(r, "flush")
    /\ UNCHANGED <<rows, records, lock, op, seen, ledger, openOrders, outcome>>

Unflushed(r) == {a \in writes[r] : lock[a] # r}

\* An UPDATE of a row it has not locked, or an INSERT: both wait while
\* another transaction has locked or inserted the row.
FlushRow(r, a) ==
    /\ pc[r] = "flush"
    /\ a \in Unflushed(r)
    /\ lock[a] = Nobody
    /\ ~(a \in inserts[r] /\ rows[a].present)
    /\ lock' = [lock EXCEPT ![a] = r]
    /\ UNCHANGED <<rows, records, local>>

\* uq_paper_balance: another request committed the row that r inserts.
UniqueViolation(r, a) ==
    /\ pc[r] = "flush"
    /\ a \in Unflushed(r)
    /\ lock[a] = Nobody
    /\ a \in inserts[r] /\ rows[a].present
    /\ End(r)
    /\ UNCHANGED <<rows, records>>

RecordOf(r) == IF op[r].kind = "place" THEN r ELSE op[r].target

Commit(r) ==
    /\ pc[r] = "flush"
    /\ Unflushed(r) = {}
    /\ outcome[r] # NoRecord
    /\ rows' = [a \in Asset |-> IF a \in writes[r] THEN ledger[r][a] ELSE rows[a]]
    /\ records' = [records EXCEPT ![RecordOf(r)] = outcome[r]]
    /\ End(r)

\* The body raised: everything the transaction wrote is undone.
Rollback(r) ==
    /\ pc[r] = "flush"
    /\ Unflushed(r) = {}
    /\ outcome[r] = NoRecord
    /\ End(r)
    /\ UNCHANGED <<rows, records>>

(***************************************************************************)
(* What the environment does to a request in progress.                     *)
(***************************************************************************)
\* The process dies, the connection drops or a statement fails.
Abort(r) ==
    /\ pc[r] \notin {"idle", "done"}
    /\ End(r)
    /\ UNCHANGED <<rows, records>>

Wanted(r) ==
    CASE pc[r] = "lock"  -> {a \in seen[r] : lock[a] # r}
      [] pc[r] = "flush" -> Unflushed(r)
      [] OTHER           -> {}

\* Every row r still wants is held by another request of S.
StuckIn(r, S) ==
    /\ Wanted(r) # {}
    /\ \A a \in Wanted(r) : lock[a] \in S \ {r}

\* Postgres aborts one of the transactions that wait for each other.
DeadlockVictim(r) ==
    /\ \E S \in SUBSET Req : r \in S /\ \A p \in S : StuckIn(p, S)
    /\ End(r)
    /\ UNCHANGED <<rows, records>>

Arrive(r) == PlaceOrder(r) \/ \E o \in Req : CancelOrder(r, o)

Step(r) ==
    \/ SelectForUpdate(r)
    \/ \E a \in Asset : LockRow(r, a)
    \/ LoadLedger(r)
    \/ Place(r)
    \/ PlaceRaises(r)
    \/ Cancel(r)
    \/ Save(r)
    \/ \E a \in Asset : FlushRow(r, a) \/ UniqueViolation(r, a)
    \/ Commit(r)
    \/ Rollback(r)
    \/ DeadlockVictim(r)

AllDone == (\A r \in Req : pc[r] = "done") /\ UNCHANGED vars

Next == (\E r \in Req : Arrive(r) \/ Step(r) \/ Abort(r)) \/ AllDone

Spec == Init /\ [][Next]_vars

\* A request that has arrived is carried on: the event loop resumes it, the
\* database grants free locks and breaks deadlocks.  Arrivals and failures
\* are the environment's.
FairSpec == Spec /\ \A r \in Req : WF_vars(Step(r))

-----------------------------------------------------------------------------
(***************************************************************************)
(* The row locks serialise the requests of an account: the committed rows  *)
(* and records change as if place_order and cancel_order ran one at a      *)
(* time (paper_ledger_repository.py load, for_update).                     *)
(***************************************************************************)
Serializable == Serial!Spec

(***************************************************************************)
(* No committed trade is lost or applied twice, whatever interleaves with  *)
(* it (load and save of paper_ledger_repository.py).                       *)
(***************************************************************************)
BooksBalance == Serial!BooksBalance

(***************************************************************************)
(* Whatever was cancelled concurrently, twice or in a request that failed  *)
(* half way, the funds in use are exactly those of the open orders.        *)
(***************************************************************************)
UsedBacksOpenOrders == Serial!UsedBacksOpenOrders

(***************************************************************************)
(* A record is written once when its order is placed, and may then go from *)
(* open to canceled, never elsewhere and never away, although cancel_order *)
(* decides on a status it read before it held a lock.                      *)
(***************************************************************************)
StatusIsFinal ==
    [][\A o \in Req : records'[o] # records[o] =>
          \/ records[o] = NoRecord
          \/ records[o].status = "open" /\ records'[o] = CanceledRecord(records[o])]_vars

(***************************************************************************)
(* Every request that arrives ends, although requests wait for each        *)
(* other's row locks and may lock the rows in different orders.            *)
(***************************************************************************)
EveryRequestEnds == \A r \in Req : (pc[r] = "load") ~> (pc[r] = "done")
=============================================================================
