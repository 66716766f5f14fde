------------------------- MODULE PaperTradingProofs -------------------------
(***************************************************************************)
(* Proofs about PaperTrading for every set of requests, assets, order      *)
(* bodies and prices.                                                      *)
(***************************************************************************)
EXTENDS PaperTrading, ArithmeticTheorems

(***************************************************************************)
(* The adapter's operators.                                                *)
(***************************************************************************)
\* The fee is a share of the cost (_DEFAULT_FEE, create_order).
LEMMA FeeBound == ASSUME NEW c \in Nat PROVE Fee(c) \in Nat /\ Fee(c) <= c
<1> DEFINE f == (c * FeeNum) \div FeeDen
<1>1. /\ FeeNum \in Nat /\ FeeDen \in Nat /\ FeeDen > 0 /\ FeeNum <= FeeDen
  BY AdapterAssumption
<1>2. c * FeeNum \in Nat /\ c * FeeNum <= c * FeeDen
  BY <1>1
<1>3. f \in Int /\ FeeDen * f <= c * FeeNum /\ c * FeeNum < FeeDen * (f + 1)
  BY <1>1, <1>2
<1>4. f >= 0
  BY <1>1, <1>2, <1>3
<1>5. f <= c
  BY <1>1, <1>2, <1>3
<1>6. QED
  BY <1>3, <1>4, <1>5 DEF Fee

\* Costs are naturals.
LEMMA CostType ==
  ASSUME NEW q \in OrderRequests, NEW p \in Nat PROVE Cost(q, p) \in Nat
BY AdapterAssumption DEF Cost, OrderRequest

\* _reservation names an asset and a natural amount.
LEMMA ReservationType ==
  ASSUME NEW q \in OrderRequests
  PROVE  ReservedAsset(q) \in Asset /\ ReservedAmount(q) \in Nat
<1>1. q \in OrderRequest
  BY AdapterAssumption
<1>2. q.price \in Nat
  BY <1>1 DEF OrderRequest
<1>3. Cost(q, q.price) \in Nat /\ Fee(Cost(q, q.price)) \in Nat
  BY <1>2, CostType, FeeBound
<1>4. QED
  BY <1>1, <1>3 DEF ReservedAsset, ReservedAmount, OrderRequest

\* _credit, _debit, _reserve and _release keep a ledger a ledger.
LEMMA MovesKeepType ==
  ASSUME NEW l \in Ledger, NEW a \in Asset, NEW x \in Nat
  PROVE  /\ Credit(l, a, x) \in Ledger
         /\ Covers(l, a, x) => Debit(l, a, x) \in Ledger
         /\ Covers(l, a, x) => Reserve(l, a, x) \in Ledger
         /\ Release(l, a, x) \in Ledger
<1>1. l[a].free \in Nat /\ l[a].used \in Nat
  BY DEF Ledger, Balance
<1>2. ASSUME NEW f \in Nat, NEW u \in Nat PROVE [l EXCEPT ![a] = Held(f, u)] \in Ledger
  BY <1>2 DEF Ledger, Balance, Held
<1>3. Credit(l, a, x) \in Ledger
  BY <1>1, <1>2 DEF Credit
<1>4. ASSUME Covers(l, a, x) PROVE Debit(l, a, x) \in Ledger /\ Reserve(l, a, x) \in Ledger
  <2>1. l[a].free - x \in Nat /\ l[a].used + x \in Nat
    BY <1>1, <1>4 DEF Covers
  <2>2. QED
    BY <1>1, <1>2, <2>1 DEF Debit, Reserve
<1>5. Release(l, a, x) \in Ledger
  <2> DEFINE released == IF x <= l[a].used THEN x ELSE l[a].used
  <2>1. l[a].free + released \in Nat /\ l[a].used - released \in Nat
    BY <1>1
  <2>2. [l EXCEPT ![a] = Held(l[a].free + released, l[a].used - released)] \in Ledger
    BY <1>2, <2>1
  <2>3. QED
    BY <2>2 DEF Release
<1>6. QED
  BY <1>3, <1>4, <1>5

\* create_order never overdraws the ledger it is given.
LEMMA CreatedType ==
  ASSUME NEW l \in Ledger, NEW q \in OrderRequests, NEW last \in Prices,
         Affordable(l, q, last)
  PROVE  Created(l, q, last) \in Ledger
<1>1. q \in OrderRequest /\ last \in Nat
  BY AdapterAssumption
<1>2. q.base \in Asset /\ q.quote \in Asset /\ q.amount \in Nat /\ q.side \in {"buy", "sell"}
  BY <1>1 DEF OrderRequest
<1> DEFINE cost == Cost(q, last)
<1>3. cost \in Nat /\ Fee(cost) \in Nat /\ cost + Fee(cost) \in Nat /\ cost - Fee(cost) \in Nat
  BY <1>1, CostType, FeeBound
<1> HIDE DEF cost
<1>4. CASE Rests(q, last)
  <2>1. Covers(l, ReservedAsset(q), ReservedAmount(q))
    BY <1>4 DEF Affordable
  <2>2. QED
    BY <1>4, <2>1, ReservationType, MovesKeepType DEF Created
<1>5. CASE ~Rests(q, last) /\ q.side = "buy"
  <2>1. Covers(l, q.quote, cost + Fee(cost))
    BY <1>5 DEF Affordable, cost
  <2>2. Debit(l, q.quote, cost + Fee(cost)) \in Ledger
    BY <1>2, <1>3, <2>1, MovesKeepType
  <2>3. Credit(Debit(l, q.quote, cost + Fee(cost)), q.base, q.amount) \in Ledger
    BY <1>2, <2>2, MovesKeepType
  <2>4. QED
    BY <1>5, <2>3 DEF Created, Filled, cost
<1>6. CASE ~Rests(q, last) /\ q.side = "sell"
  <2>1. Covers(l, q.base, q.amount)
    BY <1>6 DEF Affordable
  <2>2. Debit(l, q.base, q.amount) \in Ledger
    BY <1>2, <2>1, MovesKeepType
  <2>3. Credit(Debit(l, q.base, q.amount), q.quote, cost - Fee(cost)) \in Ledger
    BY <1>2, <1>3, <2>2, MovesKeepType
  <2>4. QED
    BY <1>6, <2>3 DEF Created, Filled, cost
<1>7. QED
  BY <1>2, <1>4, <1>5, <1>6

\* The record of a new order is an open or a filled one.
LEMMA CreatedRecordType ==
  ASSUME NEW q \in OrderRequests, NEW last \in Prices
  PROVE  CreatedRecord(q, last) \in OrderRecord
<1>1. ResolveFillPrice(q, last) \in Nat
  BY AdapterAssumption DEF ResolveFillPrice, NoPrice
<1>2. QED
  BY <1>1 DEF CreatedRecord, OrderRecord

\* What every request knows of its record: a placing request has none yet, a
\* cancelling one has read an order that is open or was cancelled since.
RecordInv ==
    \A r \in Req :
        /\ pc[r] = "idle" => op[r] = NoOperation /\ records[r] = NoRecord
        /\ pc[r] \notin {"idle", "done"} => op[r] \in Operation
        /\ pc[r] \in {"idle", "load", "lock", "work", "done"} => outcome[r] = NoRecord
        /\ op[r].kind = "place" => records[r] = NoRecord
        /\ op[r].kind = "cancel" =>
              /\ records[op[r].target].status \in {"open", "canceled"}
              /\ outcome[r] \in {NoRecord, CanceledRecord(records[op[r].target])}

IInv == TypeOK /\ RecordInv

\* A record that has a status other than "none" is a full one.
LEMMA StatusTypes ==
  ASSUME NEW rec \in OrderRecord \cup {NoRecord}
  PROVE  /\ rec.status \in {"open", "filled", "canceled"} <=> rec \in OrderRecord
         /\ rec \in OrderRecord => /\ rec # NoRecord
                                   /\ CanceledRecord(rec) \in OrderRecord
                                   /\ CanceledRecord(rec).status = "canceled"
                                   /\ CanceledRecord(CanceledRecord(rec)) = CanceledRecord(rec)
                                   /\ rec.status = "canceled" => CanceledRecord(rec) = rec
<1>1. rec \in OrderRecord => rec.status \in {"open", "filled", "canceled"}
  BY DEF OrderRecord
<1>2. NoRecord.status = "none"
  BY DEF NoRecord
<1>3. ASSUME rec \in OrderRecord
      PROVE  /\ CanceledRecord(rec) \in OrderRecord
             /\ CanceledRecord(rec).status = "canceled"
             /\ CanceledRecord(CanceledRecord(rec)) = CanceledRecord(rec)
             /\ rec.status = "canceled" => CanceledRecord(rec) = rec
  BY <1>3 DEF OrderRecord, CanceledRecord
<1>4. QED
  BY <1>1, <1>2, <1>3

\* The shape of an operation follows from its kind.
LEMMA KindTypes ==
  ASSUME NEW o \in Operation \cup {NoOperation}
  PROVE  /\ o.kind = "place" => o \in Operation /\ o.order \in OrderRequests
         /\ o.kind = "cancel" => o \in Operation /\ o.target \in Req
         /\ o \in Operation => o.kind \in {"place", "cancel"}
         /\ o = NoOperation => o.kind = "none"
BY DEF Operation, NoOperation

\* The end of a transaction leaves every request well-formed.
LEMMA EndKeepsType ==
  ASSUME TypeOK, NEW r \in Req, End(r), rows' \in Ledger,
         records' \in [Req -> OrderRecord \cup {NoRecord}]
  PROVE  TypeOK'
<1>1. NoFunds \in Ledger
  BY DEF NoFunds, Ledger, Balance, Absent
<1>2. QED
  BY <1>1 DEF End, Goto, TypeOK

\* ... and, where it wrote no record, every request's knowledge true.
LEMMA EndKeepsRecordInv ==
  ASSUME IInv, NEW r \in Req, pc[r] # "idle", End(r), UNCHANGED records
  PROVE  RecordInv'
<1> SUFFICES ASSUME NEW s \in Req PROVE RecordInv!(s)'
  BY DEF RecordInv
<1>1. CASE s = r
  BY <1>1 DEF IInv, TypeOK, RecordInv, End, Goto, NoOperation
<1>2. CASE s # r
  BY <1>2 DEF IInv, TypeOK, RecordInv, End, Goto
<1>3. QED
  BY <1>1, <1>2

(***************************************************************************)
(* The steps of a request, one lemma per group of actions.                 *)
(***************************************************************************)
\* A request arrives.
LEMMA ArriveStep == ASSUME IInv, NEW r \in Req, Arrive(r) PROVE IInv'
<1> USE DEF IInv
<1>1. CASE PlaceOrder(r)
  <2> PICK q \in OrderRequests : op' = [op EXCEPT ![r] = [kind |-> "place", order |-> q]]
    BY <1>1 DEF PlaceOrder
  <2>1. [kind |-> "place", order |-> q] \in Operation
    BY DEF Operation
  <2>2. TypeOK'
    BY <1>1, <2>1 DEF TypeOK, PlaceOrder, Goto
  <2>3. RecordInv'
    BY <1>1, <2>1 DEF TypeOK, RecordInv, PlaceOrder, Goto
  <2>4. QED
    BY <2>2, <2>3
<1>2. ASSUME NEW o \in Req, CancelOrder(r, o) PROVE IInv'
  <2>1. CASE records[o].status = "open"
    <3>1. [kind |-> "cancel", target |-> o] \in Operation
      BY DEF Operation
    <3>2. TypeOK'
      BY <1>2, <2>1, <3>1 DEF TypeOK, CancelOrder, Goto
    <3>3. RecordInv'
      BY <1>2, <2>1, <3>1 DEF TypeOK, RecordInv, CancelOrder, Goto
    <3>4. QED
      BY <3>2, <3>3
  <2>2. CASE records[o].status # "open"
    <3>1. TypeOK'
      BY <1>2, <2>2 DEF TypeOK, CancelOrder, Goto
    <3>2. RecordInv'
      BY <1>2, <2>2 DEF TypeOK, RecordInv, CancelOrder, Goto
    <3>3. QED
      BY <3>1, <3>2
  <2>3. QED
    BY <2>1, <2>2
<1>3. QED
  BY <1>1, <1>2 DEF Arrive

\* load() and its row locks.
LEMMA LoadStep ==
  ASSUME IInv, NEW r \in Req,
         SelectForUpdate(r) \/ (\E a \in Asset : LockRow(r, a)) \/ LoadLedger(r)
  PROVE  IInv'
<1> USE DEF IInv
<1>1. CASE SelectForUpdate(r)
  <2>1. TypeOK'
    BY <1>1 DEF TypeOK, SelectForUpdate, Goto
  <2>2. RecordInv'
    BY <1>1 DEF TypeOK, RecordInv, SelectForUpdate, Goto
  <2>3. QED
    BY <2>1, <2>2
<1>2. ASSUME NEW a \in Asset, LockRow(r, a) PROVE IInv'
  <2>1. TypeOK'
    BY <1>2 DEF TypeOK, LockRow, local
  <2>2. RecordInv'
    BY <1>2 DEF TypeOK, RecordInv, LockRow, local
  <2>3. QED
    BY <2>1, <2>2
<1>3. CASE LoadLedger(r)
  <2>1. Seeded \in Ledger
    BY AdapterAssumption DEF Seeded, Ledger, Balance, Held, Absent
  <2>2. [a \in Asset |-> IF a \in seen[r] THEN rows[a] ELSE Absent] \in Ledger
    BY DEF TypeOK, Ledger, Balance, Absent
  <2>3. TypeOK'
    BY <1>3, <2>1, <2>2 DEF TypeOK, LoadLedger, Goto, OpenRecords
  <2>4. RecordInv'
    BY <1>3 DEF TypeOK, RecordInv, LoadLedger, Goto
  <2>5. QED
    BY <2>3, <2>4
<1>4. QED
  BY <1>1, <1>2, <1>3

\* The body of adapter_session.
LEMMA WorkStep ==
  ASSUME IInv, NEW r \in Req, Place(r) \/ PlaceRaises(r) \/ Cancel(r)
  PROVE  IInv'
<1> USE DEF IInv
<1>1. CASE Place(r)
  <2> DEFINE q == op[r].order
  <2>1. PICK last \in Prices :
           /\ Accepted(ledger[r], q, last)
           /\ ledger' = [ledger EXCEPT ![r] = Created(ledger[r], q, last)]
           /\ outcome' = [outcome EXCEPT ![r] = CreatedRecord(q, last)]
    BY <1>1 DEF Place
  <2>2. q \in OrderRequests /\ ledger[r] \in Ledger /\ pc[r] = "work" /\ op[r].kind = "place"
    BY <1>1, KindTypes DEF TypeOK, Place
  <2>3. Created(ledger[r], q, last) \in Ledger /\ CreatedRecord(q, last) \in OrderRecord
    BY <2>1, <2>2, CreatedType, CreatedRecordType DEF Accepted
  <2> HIDE DEF q
  <2>4. TypeOK'
    BY <1>1, <2>1, <2>3 DEF TypeOK, Place, Goto
  <2>5. RecordInv'
    BY <1>1, <2>1, <2>2 DEF TypeOK, RecordInv, Place, Goto
  <2>6. QED
    BY <2>4, <2>5
<1>2. CASE PlaceRaises(r)
  <2>1. TypeOK'
    BY <1>2 DEF TypeOK, PlaceRaises, Goto
  <2>2. RecordInv'
    BY <1>2 DEF TypeOK, RecordInv, PlaceRaises, Goto
  <2>3. QED
    BY <2>1, <2>2
<1>3. CASE Cancel(r)
  <2> DEFINE o == op[r].target
             q == records[o].order
             back == Release(ledger[r], ReservedAsset(q), ReservedAmount(q))
  <2>1. o \in Req /\ ledger[r] \in Ledger /\ pc[r] = "work" /\ op[r].kind = "cancel"
    BY <1>3, KindTypes DEF TypeOK, Cancel
  <2>2. records[o] \in OrderRecord
    BY <2>1, StatusTypes DEF TypeOK, RecordInv
  <2>3. q \in OrderRequests
    BY <2>2 DEF OrderRecord
  <2>4. CanceledRecord(records[o]) \in OrderRecord
    BY <2>2, StatusTypes
  <2>5. back \in Ledger
    BY <2>1, <2>3, ReservationType, MovesKeepType
  <2>6. ledger' \in [Req -> Ledger]
    BY <1>3, <2>5 DEF TypeOK, Cancel
  <2>7. outcome' = [outcome EXCEPT ![r] = CanceledRecord(records[o])]
    BY <1>3 DEF Cancel
  <2> HIDE DEF q, back
  <2>8. TypeOK'
    BY <1>3, <2>4, <2>6, <2>7 DEF TypeOK, Cancel, Goto
  <2>9. RecordInv'
    BY <1>3, <2>1, <2>7 DEF TypeOK, RecordInv, Cancel, Goto
  <2>10. QED
    BY <2>8, <2>9
<1>4. QED
  BY <1>1, <1>2, <1>3

\* save() and the flush of its writes.
LEMMA SaveStep ==
  ASSUME IInv, NEW r \in Req, Save(r) \/ \E a \in Asset : FlushRow(r, a)
  PROVE  IInv'
<1> USE DEF IInv
<1>1. CASE Save(r)
  <2>1. TypeOK'
    BY <1>1 DEF TypeOK, Save, Goto
  <2>2. RecordInv'
    BY <1>1 DEF TypeOK, RecordInv, Save, Goto
  <2>3. QED
    BY <2>1, <2>2
<1>2. ASSUME NEW a \in Asset, FlushRow(r, a) PROVE IInv'
  <2>1. TypeOK'
    BY <1>2 DEF TypeOK, FlushRow, local
  <2>2. RecordInv'
    BY <1>2 DEF TypeOK, RecordInv, FlushRow, local
  <2>3. QED
    BY <2>1, <2>2
<1>3. QED
  BY <1>1, <1>2

\* Every way a transaction ends without effect.
LEMMA UndoStep ==
  ASSUME IInv, NEW r \in Req,
         \/ \E a \in Asset : UniqueViolation(r, a)
         \/ Rollback(r) \/ Abort(r) \/ DeadlockVictim(r)
  PROVE  IInv' /\ UNCHANGED <<rows, records>>
<1>1. pc[r] # "idle" /\ End(r) /\ UNCHANGED <<rows, records>>
  <2>1. DeadlockVictim(r) => pc[r] # "idle"
    BY DEF DeadlockVictim, StuckIn, Wanted
  <2>2. QED
    BY <2>1 DEF UniqueViolation, Rollback, Abort, DeadlockVictim
<1>2. TypeOK'
  BY <1>1, EndKeepsType DEF IInv, TypeOK
<1>3. QED
  BY <1>1, <1>2, EndKeepsRecordInv DEF IInv

\* Commit writes a record that was missing, or cancels an open one.
LEMMA CommitRecord ==
  ASSUME IInv, NEW r \in Req, Commit(r)
  PROVE  LET o == RecordOf(r) IN
         /\ o \in Req
         /\ records' = [records EXCEPT ![o] = outcome[r]]
         /\ outcome[r] \in OrderRecord
         /\ \/ op[r].kind = "place" /\ o = r /\ records[o] = NoRecord
            \/ /\ op[r].kind = "cancel"
               /\ records[o] \in OrderRecord
               /\ records[o].status \in {"open", "canceled"}
               /\ outcome[r] = CanceledRecord(records[o])
<1>1. op[r] \in Operation /\ outcome[r] \in OrderRecord
  BY DEF IInv, TypeOK, RecordInv, Commit
<1>2. op[r].kind \in {"place", "cancel"}
  BY <1>1, KindTypes
<1>3. CASE op[r].kind = "place"
  BY <1>1, <1>3 DEF IInv, RecordInv, RecordOf, Commit
<1>4. CASE op[r].kind = "cancel"
  <2>1. RecordOf(r) = op[r].target /\ op[r].target \in Req
    BY <1>1, <1>4, KindTypes DEF RecordOf
  <2>2. records[op[r].target] \in OrderRecord
    BY <1>4, <2>1, StatusTypes DEF IInv, TypeOK, RecordInv
  <2>3. QED
    BY <1>1, <1>4, <2>1, <2>2 DEF IInv, RecordInv, Commit
<1>5. QED
  BY <1>2, <1>3, <1>4

\* A commit writes naturals and a record of the right kind.
LEMMA CommitStep == ASSUME IInv, NEW r \in Req, Commit(r) PROVE IInv'
<1> DEFINE o == RecordOf(r)
<1>1. /\ o \in Req
      /\ records' = [records EXCEPT ![o] = outcome[r]]
      /\ outcome[r] \in OrderRecord
      /\ \/ op[r].kind = "place" /\ o = r /\ records[o] = NoRecord
         \/ /\ op[r].kind = "cancel"
            /\ records[o] \in OrderRecord
            /\ records[o].status \in {"open", "canceled"}
            /\ outcome[r] = CanceledRecord(records[o])
  BY CommitRecord
<1> HIDE DEF o
<1>2. rows' \in Ledger
  BY DEF Commit, IInv, TypeOK, Ledger
<1>3. TypeOK'
  <2>1. records' \in [Req -> OrderRecord \cup {NoRecord}]
    BY <1>1 DEF IInv, TypeOK
  <2>2. QED
    BY <1>2, <2>1, EndKeepsType DEF IInv, Commit
<1>4. ASSUME NEW s \in Req PROVE RecordInv!(s)'
  <2>1. pc[r] = "flush" /\ End(r)
    BY DEF Commit
  <2>2. CASE s = r
    BY <2>1, <2>2 DEF IInv, TypeOK, End, Goto, NoOperation
  <2>3. CASE s # r
    <3>1. pc'[s] = pc[s] /\ op'[s] = op[s] /\ outcome'[s] = outcome[s]
      BY <2>1, <2>3 DEF IInv, TypeOK, End, Goto
    <3>2. records[s] = NoRecord => records'[s] = NoRecord
      BY <1>1, <2>3, StatusTypes DEF IInv, TypeOK
    <3>3. ASSUME op[s].kind = "cancel"
          PROVE  /\ records'[op[s].target].status \in {"open", "canceled"}
                 /\ outcome[s] \in {NoRecord, CanceledRecord(records'[op[s].target])}
      <4> DEFINE t == op[s].target
      <4>1. t \in Req
        BY <3>3, KindTypes DEF IInv, TypeOK
      <4>2. records[t] \in OrderRecord
        BY <3>3, <4>1, StatusTypes DEF IInv, TypeOK, RecordInv
      <4>3. records'[t] = records[t] \/ records'[t] = CanceledRecord(records[t])
        BY <1>1, <4>1, <4>2, StatusTypes DEF IInv, TypeOK
      <4>4. CanceledRecord(records'[t]) = CanceledRecord(records[t])
        BY <4>2, <4>3, StatusTypes
      <4>5. records'[t].status \in {"open", "canceled"}
        BY <3>3, <4>2, <4>3, StatusTypes DEF IInv, RecordInv
      <4>6. QED
        BY <3>3, <4>4, <4>5 DEF IInv, RecordInv
    <3>4. QED
      BY <3>1, <3>2, <3>3 DEF IInv, RecordInv
  <2>4. QED
    BY <2>2, <2>3
<1>5. QED
  BY <1>3, <1>4 DEF IInv, RecordInv

(***************************************************************************)
(* The inductive invariant holds in every behaviour.                       *)
(***************************************************************************)
LEMMA InvInit == Init => IInv
<1> SUFFICES ASSUME Init PROVE IInv
  OBVIOUS
<1>1. TypeOK
  BY RequestAssumption, InitialRowsAssumption DEF Init, TypeOK, NoFunds, Ledger, Balance, Absent
<1>2. RecordInv
  BY DEF Init, RecordInv, NoOperation
<1>3. QED
  BY <1>1, <1>2 DEF IInv

\* Every step of the specification preserves the invariant.
LEMMA InvNext == IInv /\ [Next]_vars => IInv'
<1> SUFFICES ASSUME IInv, [Next]_vars PROVE IInv'
  OBVIOUS
<1>1. ASSUME NEW r \in Req, Arrive(r) PROVE IInv'
  BY <1>1, ArriveStep
<1>2. ASSUME NEW r \in Req, Step(r) PROVE IInv'
  BY <1>2, LoadStep, WorkStep, SaveStep, UndoStep, CommitStep DEF Step
<1>3. ASSUME NEW r \in Req, Abort(r) PROVE IInv'
  BY <1>3, UndoStep
<1>4. CASE UNCHANGED vars
  BY <1>4 DEF vars, IInv, TypeOK, RecordInv
<1>5. QED
  BY <1>1, <1>2, <1>3, <1>4 DEF Next, AllDone

\* The invariant holds throughout.
LEMMA Invariance == Spec => []IInv
BY InvInit, InvNext, PTL DEF Spec

(***************************************************************************)
(* Balances never go below zero, in the database or in any request's       *)
(* working copy, and the tables and the requests keep their shape          *)
(* (paper.py _debit, _reserve, _release; adapter_session).                 *)
(***************************************************************************)
THEOREM TypeCorrect == Spec => []TypeOK
<1>1. IInv => TypeOK
  BY DEF IInv
<1>2. QED
  BY <1>1, Invariance, PTL

(***************************************************************************)
(* An order's record is written once, and may then be cancelled once       *)
(* (trading_service.py cancel_order), whatever rows the account has.       *)
(***************************************************************************)
THEOREM FinalStatus == Spec => StatusIsFinal
<1> DEFINE Final(o) ==
      records'[o] # records[o] =>
         \/ records[o] = NoRecord
         \/ records[o].status = "open" /\ records'[o] = CanceledRecord(records[o])
<1>1. IInv /\ [Next]_vars => [\A o \in Req : Final(o)]_vars
  <2> SUFFICES ASSUME IInv, Next, NEW o \in Req PROVE Final(o)
    OBVIOUS
  <2>1. ASSUME NEW r \in Req, Commit(r) PROVE Final(o)
    <3>1. CASE o = RecordOf(r)
      BY <2>1, <3>1, CommitRecord, StatusTypes DEF IInv, TypeOK
    <3>2. CASE o # RecordOf(r)
      BY <2>1, <3>2, CommitRecord DEF IInv, TypeOK
    <3>3. QED
      BY <3>1, <3>2
  <2>2. UNCHANGED records \/ \E r \in Req : Commit(r)
    BY DEF Next, Arrive, PlaceOrder, CancelOrder, Step, SelectForUpdate, LockRow,
           LoadLedger, Place, PlaceRaises, Cancel, Save, FlushRow, UniqueViolation,
           Rollback, DeadlockVictim, Abort, AllDone, vars
  <2>3. QED
    BY <2>1, <2>2
<1>2. QED
  BY <1>1, Invariance, PTL DEF Spec, StatusIsFinal

-----------------------------------------------------------------------------
(***************************************************************************)
(* On an account whose balance rows all exist, the row locks make the      *)
(* concurrent requests of PaperTrading implement SerialLedger.             *)
(***************************************************************************)
\* Every asset the account trades has its row.
EstablishedAccount == \A a \in Asset : InitialRows[a].present

\* A ledger in which every asset has its row.
Full(l) == DOMAIN l = Asset /\ \A a \in Asset : l[a].present

Holding(r) == \A a \in Asset : lock[a] = r

\* The working copy of r is what one serial operation makes of the rows.
Effect(r) ==
    IF op[r].kind = "place"
    THEN \E last \in Prices :
            /\ Accepted(rows, op[r].order, last)
            /\ ledger[r] = Created(rows, op[r].order, last)
            /\ outcome[r] = CreatedRecord(op[r].order, last)
    ELSE LET rec == records[op[r].target]
         IN  ledger[r] = IF rec.status = "open"
                         THEN Release(rows, ReservedAsset(rec.order), ReservedAmount(rec.order))
                         ELSE rows

\* What r knows of the committed state, which its locks keep from changing.
LockInv(r) ==
    /\ pc[r] = "lock" => seen[r] = Asset
    /\ pc[r] \in {"work", "save", "flush"} => Holding(r)
    /\ pc[r] = "work" => ledger[r] = rows /\ openOrders[r] = OpenRecords
    /\ pc[r] \in {"save", "flush"} /\ outcome[r] # NoRecord => Effect(r)
    /\ pc[r] = "flush" =>
          writes[r] = {a \in Asset : ledger[r][a].present /\ ledger[r][a] # rows[a]}

SInv == Full(rows) /\ \A r \in Req : LockInv(r)

\* Moving funds leaves every asset of a full ledger in it.
LEMMA PutKeepsFull ==
  ASSUME NEW l, Full(l), NEW a, NEW f, NEW u
  PROVE  Full([l EXCEPT ![a] = Held(f, u)])
BY DEF Full, Held

\* No operation of the adapter removes an asset from the ledger.
LEMMA StaysFull ==
  ASSUME NEW l, Full(l)
  PROVE  /\ \A a, x : Full(Credit(l, a, x))
         /\ \A a, x : Full(Debit(l, a, x))
         /\ \A a, x : Full(Reserve(l, a, x))
         /\ \A a, x : Full(Release(l, a, x))
<1>1. ASSUME NEW a, NEW x PROVE Full(Credit(l, a, x)) 
  BY PutKeepsFull DEF Credit
<1>2. ASSUME NEW a, NEW x PROVE Full(Debit(l, a, x)) 
  BY PutKeepsFull DEF Debit
<1>3. ASSUME NEW a, NEW x PROVE Full(Reserve(l, a, x)) 
  BY PutKeepsFull DEF Reserve
<1>4. ASSUME NEW a, NEW x PROVE Full(Release(l, a, x))
  BY PutKeepsFull DEF Release
<1>5. QED
  BY <1>1, <1>2, <1>3, <1>4

\* Placing an order does so, too.
LEMMA CreatedFull ==
  ASSUME NEW l, Full(l), NEW q, NEW last PROVE Full(Created(l, q, last))
<1>1. \A a, x, b, y : Full(Credit(Debit(l, a, x), b, y))
  <2> SUFFICES ASSUME NEW a, NEW x, NEW b, NEW y PROVE Full(Credit(Debit(l, a, x), b, y))
    OBVIOUS
  <2>1. Full(Debit(l, a, x))
    BY StaysFull
  <2>2. QED
    BY <2>1, StaysFull
<1>2. Full(Filled(l, q, last))
  BY <1>1 DEF Filled
<1>3. Full(Reserve(l, ReservedAsset(q), ReservedAmount(q)))
  BY StaysFull
<1>4. QED
  BY <1>2, <1>3 DEF Created

(***************************************************************************)
(* What a step of one request leaves alone of another one's knowledge.     *)
(***************************************************************************)
LEMMA OthersKeep ==
  ASSUME IInv, SInv, NEW r \in Req, NEW s \in Req, s # r,
         UNCHANGED <<rows, records>>,
         \A a \in Asset : lock'[a] = lock[a] \/ (lock[a] \in {r, Nobody}),
         /\ pc'[s] = pc[s] /\ op'[s] = op[s] /\ seen'[s] = seen[s]
         /\ ledger'[s] = ledger[s] /\ openOrders'[s] = openOrders[s]
         /\ writes'[s] = writes[s] /\ outcome'[s] = outcome[s]
  PROVE  LockInv(s)'
<1>1. LockInv(s)
  BY DEF SInv
<1>2. Holding(s) => Holding(s)'
  BY RequestAssumption DEF Holding
<1>3. Effect(s) => Effect(s)'
  BY DEF Effect
<1>4. OpenRecords' = OpenRecords
  BY DEF OpenRecords
<1>5. QED
  BY <1>1, <1>2, <1>3, <1>4 DEF LockInv

\* Two requests never hold all the row locks.
LEMMA HoldersAreOne ==
  ASSUME NEW r \in Req, NEW s \in Req, Holding(r), Holding(s) PROVE r = s
BY AdapterAssumption DEF Holding

\* A request that arrives holds no lock and has no working copy yet.
LEMMA SArrive == ASSUME IInv, SInv, NEW r \in Req, Arrive(r) PROVE SInv'
<1>1. /\ UNCHANGED <<rows, records, lock, seen, ledger, openOrders, writes, outcome>>
      /\ pc' = [pc EXCEPT ![r] = "load"] \/ pc' = [pc EXCEPT ![r] = "done"]
      /\ \A s \in Req : s # r => op'[s] = op[s]
  BY DEF Arrive, PlaceOrder, CancelOrder, Goto, IInv, TypeOK
<1>2. LockInv(r)'
  BY <1>1 DEF LockInv, IInv, TypeOK
<1>3. ASSUME NEW s \in Req, s # r PROVE LockInv(s)'
  BY <1>1, <1>3, OthersKeep DEF IInv, TypeOK
<1>4. QED
  BY <1>1, <1>2, <1>3 DEF SInv, Full

\* Loading the ledger locks every row and copies it.
LEMMA SLoad ==
  ASSUME IInv, SInv, NEW r \in Req,
         SelectForUpdate(r) \/ (\E a \in Asset : LockRow(r, a)) \/ LoadLedger(r)
  PROVE  SInv'
<1>1. CASE SelectForUpdate(r)
  <2>1. LockInv(r)'
    BY <1>1 DEF SelectForUpdate, Goto, SInv, Full, LockInv, IInv, TypeOK
  <2>2. ASSUME NEW s \in Req, s # r PROVE LockInv(s)'
    BY <1>1, <2>2, OthersKeep DEF SelectForUpdate, Goto, IInv, TypeOK
  <2>3. QED
    BY <1>1, <2>1, <2>2 DEF SInv, Full, SelectForUpdate
<1>2. ASSUME NEW a \in Asset, LockRow(r, a) PROVE SInv'
  <2>1. LockInv(r)'
    BY <1>2 DEF LockRow, local, SInv, LockInv
  <2>2. ASSUME NEW s \in Req, s # r PROVE LockInv(s)'
    BY <1>2, <2>2, OthersKeep DEF LockRow, local, IInv, TypeOK
  <2>3. QED
    BY <1>2, <2>1, <2>2 DEF SInv, Full, LockRow
<1>3. CASE LoadLedger(r)
  <2>1. seen[r] = Asset /\ Holding(r)
    BY <1>3 DEF LoadLedger, SInv, LockInv, Holding
  <2>2. ledger'[r] = rows
    <3>1. rows = [a \in Asset |-> IF a \in seen[r] THEN rows[a] ELSE Absent]
      BY <2>1 DEF IInv, TypeOK, Ledger
    <3>2. seen[r] # {}
      BY <2>1, AdapterAssumption
    <3>3. QED
      BY <1>3, <3>1, <3>2 DEF LoadLedger, IInv, TypeOK
  <2>3. LockInv(r)'
    BY <1>3, <2>1, <2>2 DEF LoadLedger, Goto, LockInv, Holding, OpenRecords, IInv, TypeOK
  <2>4. ASSUME NEW s \in Req, s # r PROVE LockInv(s)'
    BY <1>3, <2>4, OthersKeep DEF LoadLedger, Goto, IInv, TypeOK
  <2>5. QED
    BY <1>3, <2>3, <2>4 DEF SInv, Full, LoadLedger
<1>4. QED
  BY <1>1, <1>2, <1>3

\* The body of the session changes the working copy as the adapter does.
LEMMA SWork ==
  ASSUME IInv, SInv, NEW r \in Req, Place(r) \/ PlaceRaises(r) \/ Cancel(r)
  PROVE  SInv'
<1>1. /\ pc[r] = "work" /\ pc' = [pc EXCEPT ![r] = "save"]
      /\ UNCHANGED <<rows, records, lock, op, seen, openOrders, writes>>
      /\ \A s \in Req : s # r => ledger'[s] = ledger[s] /\ outcome'[s] = outcome[s]
  BY DEF Place, PlaceRaises, Cancel, Goto, IInv, TypeOK
<1>2. Holding(r) /\ ledger[r] = rows /\ openOrders[r] = OpenRecords /\ outcome[r] = NoRecord
  BY <1>1 DEF SInv, LockInv, IInv, RecordInv
<1>3. outcome'[r] # NoRecord => Effect(r)'
  <2>1. CASE Place(r)
    BY <1>1, <1>2, <2>1 DEF Place, Effect, IInv, TypeOK
  <2>2. CASE PlaceRaises(r)
    BY <1>2, <2>2 DEF PlaceRaises
  <2>3. CASE Cancel(r)
    <3>1. op[r].kind = "cancel" /\ op[r].target \in Req
      BY <2>3, KindTypes DEF Cancel, IInv, TypeOK
    <3>2. op[r].target \in openOrders[r] <=> records[op[r].target].status = "open"
      BY <1>2, <3>1 DEF OpenRecords
    <3>3. ledger'[r] = IF op[r].target \in openOrders[r]
                       THEN LET q == records[op[r].target].order
                            IN  Release(rows, ReservedAsset(q), ReservedAmount(q))
                       ELSE rows
      BY <1>2, <2>3 DEF Cancel, IInv, TypeOK
    <3>4. QED
      BY <1>1, <3>1, <3>2, <3>3 DEF Effect
  <2>4. QED
    BY <2>1, <2>2, <2>3
<1>4. LockInv(r)'
  BY <1>1, <1>2, <1>3 DEF LockInv, Holding, IInv, TypeOK
<1>5. ASSUME NEW s \in Req, s # r PROVE LockInv(s)'
  BY <1>1, <1>5, OthersKeep DEF IInv, TypeOK
<1>6. QED
  BY <1>1, <1>4, <1>5 DEF SInv, Full

\* save() inserts nothing and updates rows it has locked.
LEMMA SSave ==
  ASSUME IInv, SInv, NEW r \in Req, Save(r) \/ \E a \in Asset : FlushRow(r, a)
  PROVE  SInv'
<1>1. CASE Save(r)
  <2>1. LockInv(r)'
    <3>1. writes'[r] = {a \in Asset : ledger[r][a].present /\ ledger[r][a] # rows[a]}
      BY <1>1 DEF Save, IInv, TypeOK
    <3>2. pc[r] = "save" /\ LockInv(r)
      BY <1>1 DEF Save, SInv
    <3>3. Effect(r) => Effect(r)'
      BY <1>1 DEF Save, Effect
    <3>4. QED
      BY <1>1, <3>1, <3>2, <3>3 DEF Save, Goto, LockInv, Holding, IInv, TypeOK
  <2>2. ASSUME NEW s \in Req, s # r PROVE LockInv(s)'
    BY <1>1, <2>2, OthersKeep DEF Save, Goto, IInv, TypeOK
  <2>3. QED
    BY <1>1, <2>1, <2>2 DEF SInv, Full, Save
<1>2. ASSUME NEW a \in Asset, FlushRow(r, a) PROVE SInv'
  \* r holds every lock already: nothing is left to wait for.
  BY <1>2 DEF FlushRow, Unflushed, SInv, LockInv, Holding
<1>3. QED
  BY <1>1, <1>2

\* The end of a transaction that wrote nothing.
LEMMA SUndo ==
  ASSUME IInv, SInv, NEW r \in Req, End(r), UNCHANGED <<rows, records>>
  PROVE  SInv'
<1>1. LockInv(r)'
  BY DEF End, Goto, LockInv, IInv, TypeOK
<1>2. ASSUME NEW s \in Req, s # r PROVE LockInv(s)'
  BY <1>2, OthersKeep DEF End, Goto, IInv, TypeOK
<1>3. QED
  BY <1>1, <1>2 DEF SInv, Full

(***************************************************************************)
(* A commit publishes exactly what one serial operation does.              *)
(***************************************************************************)
LEMMA CommitRows ==
  ASSUME IInv, SInv, NEW r \in Req, Commit(r)
  PROVE  Effect(r) /\ Holding(r) /\ Full(ledger[r]) /\ rows' = ledger[r]
<1>1. Effect(r) /\ Holding(r)
  BY DEF Commit, SInv, LockInv
<1>2. Full(ledger[r])
  BY <1>1, CreatedFull, StaysFull DEF Effect, SInv
<1>3. writes[r] = {a \in Asset : ledger[r][a] # rows[a]}
  BY <1>2 DEF Commit, SInv, LockInv, Full
<1>4. rows' = [a \in Asset |-> IF a \in writes[r] THEN ledger[r][a] ELSE rows[a]]
  BY DEF Commit
<1>5. \A a \in Asset : rows'[a] = ledger[r][a]
  BY <1>3, <1>4
<1>6. ledger[r] = [a \in Asset |-> ledger[r][a]]
  BY DEF IInv, TypeOK, Ledger
<1>7. QED
  BY <1>1, <1>2, <1>4, <1>5, <1>6

\* A commit replaces rows that no other request has read for update.
LEMMA SCommit == ASSUME IInv, SInv, NEW r \in Req, Commit(r) PROVE SInv'
<1>1. Holding(r) /\ Full(rows')
  BY CommitRows
<1>2. LockInv(r)'
  BY DEF Commit, End, Goto, LockInv, IInv, TypeOK
<1>3. ASSUME NEW s \in Req, s # r PROVE LockInv(s)'
  <2>1. pc[s] \notin {"work", "save", "flush"}
    BY <1>1, <1>3, HoldersAreOne DEF SInv, LockInv
  <2>2. pc'[s] = pc[s] /\ seen'[s] = seen[s]
    BY <1>3 DEF Commit, End, Goto, IInv, TypeOK
  <2>3. QED
    BY <2>1, <2>2 DEF SInv, LockInv
<1>4. QED
  BY <1>1, <1>2, <1>3 DEF SInv, Full

\* Every step preserves the lock invariant.
LEMMA SInvNext == IInv /\ SInv /\ [Next]_vars => SInv'
<1> SUFFICES ASSUME IInv, SInv, [Next]_vars PROVE SInv'
  OBVIOUS
<1>1. ASSUME NEW r \in Req, Arrive(r) PROVE SInv'
  BY <1>1, SArrive
<1>2. ASSUME NEW r \in Req, Step(r) PROVE SInv'
  <2>1. CASE \/ (\E a \in Asset : UniqueViolation(r, a))
             \/ Rollback(r) \/ DeadlockVictim(r)
    BY <2>1, SUndo DEF UniqueViolation, Rollback, DeadlockVictim
  <2>2. QED
    BY <1>2, <2>1, SLoad, SWork, SSave, SCommit DEF Step
<1>3. ASSUME NEW r \in Req, Abort(r) PROVE SInv'
  BY <1>3, SUndo DEF Abort
<1>4. CASE UNCHANGED vars
  BY <1>4 DEF vars, SInv, Full, LockInv, Holding, Effect, OpenRecords
<1>5. QED
  BY <1>1, <1>2, <1>3, <1>4 DEF Next, AllDone

(***************************************************************************)
(* The operators SerialLedger takes from its own copy of PaperAdapter are  *)
(* the ones PaperTrading uses.                                             *)
(***************************************************************************)
LEMMA SameAdapter ==
  /\ \A l, q, last : Serial!Created(l, q, last) = Created(l, q, last)
  /\ \A l, q, last : Serial!Accepted(l, q, last) <=> Accepted(l, q, last)
  /\ \A l, a, x : Serial!Release(l, a, x) = Release(l, a, x)
  /\ \A q, last : Serial!CreatedRecord(q, last) = CreatedRecord(q, last)
  /\ \A rec : Serial!CanceledRecord(rec) = CanceledRecord(rec)
  /\ \A q : Serial!ReservedAsset(q) = ReservedAsset(q)
  /\ \A q : Serial!ReservedAmount(q) = ReservedAmount(q)
  /\ Serial!NoRecord = NoRecord
<1>1. /\ \A q, p : Serial!Cost(q, p) = Cost(q, p)
      /\ \A c : Serial!Fee(c) = Fee(c)
      /\ \A f, u : Serial!Held(f, u) = Held(f, u)
      /\ Serial!NoPrice = NoPrice
  BY DEF Serial!Cost, Cost, Serial!Fee, Fee, Serial!Held, Held, Serial!NoPrice, NoPrice
<1>2. /\ \A q : Serial!ReservedAsset(q) = ReservedAsset(q)
      /\ \A q : Serial!ReservedAmount(q) = ReservedAmount(q)
      /\ \A q, last : Serial!ResolveFillPrice(q, last) = ResolveFillPrice(q, last)
  BY <1>1 DEF Serial!ReservedAsset, ReservedAsset, Serial!ReservedAmount, ReservedAmount,
              Serial!ResolveFillPrice, ResolveFillPrice, Serial!Marketable, Marketable
<1>3. \A q, last : Serial!Rests(q, last) <=> Rests(q, last)
  BY <1>1, <1>2 DEF Serial!Rests, Rests
<1>4. /\ \A l, a, x : Serial!Credit(l, a, x) = Credit(l, a, x)
      /\ \A l, a, x : Serial!Debit(l, a, x) = Debit(l, a, x)
      /\ \A l, a, x : Serial!Reserve(l, a, x) = Reserve(l, a, x)
      /\ \A l, a, x : Serial!Release(l, a, x) = Release(l, a, x)
      /\ \A l, a, x : Serial!Covers(l, a, x) <=> Covers(l, a, x)
  BY <1>1 DEF Serial!Credit, Credit, Serial!Debit, Debit, Serial!Reserve, Reserve,
              Serial!Release, Release, Serial!Covers, Covers
<1>5. \A l, q, last : Serial!Filled(l, q, last) = Filled(l, q, last)
  BY <1>1, <1>4 DEF Serial!Filled, Filled
<1>6. \A l, q, last : Serial!Created(l, q, last) = Created(l, q, last)
  BY <1>2, <1>3, <1>4, <1>5 DEF Serial!Created, Created
<1>7. \A l, q, last : Serial!Affordable(l, q, last) <=> Affordable(l, q, last)
  BY <1>1, <1>2, <1>3, <1>4 DEF Serial!Affordable, Affordable
<1>8. \A l, q, last : Serial!Accepted(l, q, last) <=> Accepted(l, q, last)
  BY <1>1, <1>7 DEF Serial!Accepted, Accepted, Serial!RefPrices, RefPrices,
                    Serial!WithinRisk, WithinRisk, Serial!Equity, Equity
<1>9. /\ \A q, last : Serial!CreatedRecord(q, last) = CreatedRecord(q, last)
      /\ \A rec : Serial!CanceledRecord(rec) = CanceledRecord(rec)
      /\ Serial!NoRecord = NoRecord
  BY <1>2, <1>3 DEF Serial!CreatedRecord, CreatedRecord, Serial!CanceledRecord,
                    CanceledRecord, Serial!NoRecord, NoRecord
<1>10. QED
  BY <1>2, <1>4, <1>6, <1>8, <1>9

\* A commit is a step of the serial ledger, or changes nothing.
LEMMA CommitRefines ==
  ASSUME IInv, SInv, NEW r \in Req, Commit(r) PROVE [Serial!Next]_<<rows, records>>
<1>1. Effect(r) /\ rows' = ledger[r]
  BY CommitRows
<1>2. CASE op[r].kind = "place"
  <2>1. records[r] = NoRecord /\ records' = [records EXCEPT ![r] = outcome[r]]
    BY <1>2, CommitRecord
  <2>2. op[r].order \in OrderRequests
    BY <1>2, KindTypes DEF IInv, TypeOK
  <2>3. Serial!Opening(rows) = rows
    BY AdapterAssumption DEF Serial!Opening, SInv, Full
  <2>4. PICK last \in Prices :
           /\ Accepted(rows, op[r].order, last)
           /\ ledger[r] = Created(rows, op[r].order, last)
           /\ outcome[r] = CreatedRecord(op[r].order, last)
    BY <1>1, <1>2 DEF Effect
  <2>5. Serial!Place(r)
    BY <1>1, <2>1, <2>2, <2>3, <2>4, SameAdapter DEF Serial!Place
  <2>6. QED
    BY <2>5 DEF Serial!Next
<1>3. CASE op[r].kind # "place"
  <2> DEFINE o == op[r].target
  <2>1. /\ o \in Req
        /\ records' = [records EXCEPT ![o] = CanceledRecord(records[o])]
        /\ records[o] \in OrderRecord
        /\ records[o].status \in {"open", "canceled"}
    BY <1>3, CommitRecord DEF RecordOf
  <2>2. CASE records[o].status = "open"
    <3>1. rows' = Release(rows, ReservedAsset(records[o].order), ReservedAmount(records[o].order))
      BY <1>1, <1>3, <2>2 DEF Effect
    <3>2. Serial!Cancel(o)
      BY <2>1, <2>2, <3>1, SameAdapter DEF Serial!Cancel
    <3>3. QED
      BY <2>1, <3>2 DEF Serial!Next
  <2>3. CASE records[o].status = "canceled"
    <3>1. rows' = rows
      BY <1>1, <1>3, <2>3 DEF Effect
    <3>2. CanceledRecord(records[o]) = records[o]
      BY <2>1, <2>3, StatusTypes DEF IInv, TypeOK
    <3>3. records' = records
      BY <2>1, <3>2 DEF IInv, TypeOK
    <3>4. QED
      BY <3>1, <3>3
  <2>4. QED
    BY <2>1, <2>2, <2>3
<1>4. QED
  BY <1>2, <1>3

(***************************************************************************)
(* On an account whose rows all exist, concurrent requests leave the       *)
(* balances and the orders as if they had run one at a time: the promise   *)
(* of load()'s for_update (paper_ledger_repository.py).                    *)
(***************************************************************************)
THEOREM SerializableAccount == EstablishedAccount => (Spec => Serializable)
<1> SUFFICES ASSUME EstablishedAccount PROVE Spec => Serializable
  OBVIOUS
<1>1. Init => SInv /\ Serial!Init
  <2> SUFFICES ASSUME Init PROVE SInv /\ Serial!Init
    OBVIOUS
  <2>1. SInv
    BY InitialRowsAssumption DEF Init, SInv, Full, LockInv, EstablishedAccount, Ledger
  <2>2. Serial!Init
    BY SameAdapter DEF Init, Serial!Init
  <2>3. QED
    BY <2>1, <2>2
<1>2. IInv /\ SInv /\ [Next]_vars => [Serial!Next]_<<rows, records>>
  <2> SUFFICES ASSUME IInv, SInv, [Next]_vars PROVE [Serial!Next]_<<rows, records>>
    OBVIOUS
  <2>1. UNCHANGED <<rows, records>> \/ \E r \in Req : Commit(r)
    BY DEF Next, Arrive, PlaceOrder, CancelOrder, Step, SelectForUpdate, LockRow,
           LoadLedger, Place, PlaceRaises, Cancel, Save, FlushRow, UniqueViolation,
           Rollback, DeadlockVictim, Abort, AllDone, vars
  <2>2. QED
    BY <2>1, CommitRefines
<1>3. QED
  BY <1>1, <1>2, SInvNext, Invariance, PTL DEF Spec, Serializable, Serial!Spec, Serial!vars

-----------------------------------------------------------------------------
(***************************************************************************)
(* The books of the serial ledger, for any orders, assets and prices.      *)
(***************************************************************************)
LEMMA SameOpening == \A l : Serial!Opening(l) = Opening(l)
BY DEF Serial!Opening, Opening, Serial!Seeded, Seeded, Serial!Held, Held, Serial!Absent, Absent

LEMMA SameSum == \A fun : Serial!SumFunction(fun) = SumFunction(fun)
BY Zenon DEF Serial!SumFunction, SumFunction, Serial!SumFunctionOnSet, SumFunctionOnSet,
   Serial!FoldFunctionOnSet, FoldFunctionOnSet, Serial!MapThenFoldSet, MapThenFoldSet

\* What an order moves is a whole amount.
LEMMA BookingTypes ==
  ASSUME NEW rec \in OrderRecord, NEW a \in Asset
  PROVE  Serial!Delta(rec, a) \in Int /\ Serial!ReservedBy(rec, a) \in Nat
<1> DEFINE q == rec.order
           cost == Cost(q, rec.average)
<1>1. q \in OrderRequests /\ rec.average \in Nat /\ q \in OrderRequest
  BY AdapterAssumption DEF OrderRecord
<1>2. q.amount \in Nat /\ cost \in Nat /\ Fee(cost) \in Nat
  <2> HIDE DEF q
  <2>1. QED
    BY <1>1, CostType, FeeBound DEF OrderRequest
<1>3. Serial!Cost(q, rec.average) = cost /\ Serial!Fee(cost) = Fee(cost)
  BY DEF Serial!Cost, Cost, Serial!Fee, Fee
<1>4. Serial!Delta(rec, a) \in {0, q.amount, -q.amount, -(cost + Fee(cost)), cost - Fee(cost)}
  <2> HIDE DEF cost
  <2>1. QED
    BY <1>3 DEF Serial!Delta
<1>5. Serial!Delta(rec, a) \in Int
  <2> HIDE DEF cost
  <2>1. QED
    BY <1>2, <1>4
<1>6. Serial!ReservedBy(rec, a) \in Nat
  BY <1>1, SameAdapter, ReservationType DEF Serial!ReservedBy
<1>7. QED
  BY <1>5, <1>6

\* create_order moves what the books say it does: a filled order its two
\* legs and the fee, a resting one its reservation.
LEMMA CreatedBooks ==
  ASSUME NEW l \in Ledger, NEW q \in OrderRequests, NEW last \in Prices,
         Affordable(l, q, last), NEW a \in Asset
  PROVE  LET c == Created(l, q, last)
             rec == CreatedRecord(q, last)
         IN  /\ c[a].free + c[a].used = l[a].free + l[a].used
                   + (IF rec.status = "filled" THEN Serial!Delta(rec, a) ELSE 0)
             /\ c[a].used = l[a].used
                   + (IF rec.status = "open" THEN Serial!ReservedBy(rec, a) ELSE 0)
<1> DEFINE c == Created(l, q, last)
           rec == CreatedRecord(q, last)
           cost == Cost(q, last)
           fee == Fee(cost)
           Goal == /\ c[a].free + c[a].used = l[a].free + l[a].used
                         + (IF rec.status = "filled" THEN Serial!Delta(rec, a) ELSE 0)
                   /\ c[a].used = l[a].used
                         + (IF rec.status = "open" THEN Serial!ReservedBy(rec, a) ELSE 0)
<1> SUFFICES Goal
  OBVIOUS
<1>1. q \in OrderRequest /\ q.base # q.quote /\ last \in Nat /\ last # 0
  BY AdapterAssumption
<1>2. /\ q.base \in Asset /\ q.quote \in Asset /\ q.amount \in Nat
      /\ q.side \in {"buy", "sell"}
  BY <1>1 DEF OrderRequest
<1>3. cost \in Nat /\ fee \in Nat /\ fee <= cost
  BY <1>1, CostType, FeeBound
<1>4. DOMAIN l = Asset /\ \A b \in Asset : l[b].free \in Nat /\ l[b].used \in Nat
  BY DEF Ledger, Balance
<1>5. CASE Rests(q, last)
  <2> DEFINE ra == ReservedAsset(q)
             amount == ReservedAmount(q)
  <2>1. ra \in Asset /\ amount \in Nat
    BY ReservationType
  <2>2. rec.status = "open" /\ rec.order = q
    BY <1>5 DEF CreatedRecord
  <2>3. Serial!ReservedBy(rec, a) = IF a = ra THEN amount ELSE 0
    BY <2>2, SameAdapter DEF Serial!ReservedBy
  <2>4. c[a] = IF a = ra THEN Held(l[a].free - amount, l[a].used + amount) ELSE l[a]
    BY <1>4, <1>5 DEF Created, Reserve
  <2> HIDE DEF ra, amount, rec, c
  <2>5. CASE a = ra
    BY <1>4, <2>1, <2>2, <2>3, <2>4, <2>5 DEF Held
  <2>6. CASE a # ra
    BY <1>4, <2>1, <2>2, <2>3, <2>4, <2>6
  <2>7. QED
    BY <2>5, <2>6
<1>6. CASE ~Rests(q, last)
  <2>1. rec.status = "filled" /\ rec.order = q /\ rec.average = last
    BY <1>6 DEF CreatedRecord, Rests, ResolveFillPrice
  <2>2. Serial!Cost(q, last) = cost /\ Serial!Fee(cost) = fee
    BY DEF Serial!Cost, Cost, Serial!Fee, Fee
  <2> DEFINE moved == IF q.side = "buy"
                      THEN CASE a = q.base -> q.amount
                             [] a = q.quote -> -(cost + fee)
                             [] OTHER -> 0
                      ELSE CASE a = q.base -> -q.amount
                             [] a = q.quote -> cost - fee
                             [] OTHER -> 0
  <2>3. Serial!Delta(rec, a) = moved
    <3> HIDE DEF rec, cost, fee
    <3>1. QED
      BY <1>1, <2>1, <2>2 DEF Serial!Delta
  <2>4. c[a].free = l[a].free + moved /\ c[a].used = l[a].used
    <3>1. c = IF q.side = "buy"
              THEN Credit(Debit(l, q.quote, cost + fee), q.base, q.amount)
              ELSE Credit(Debit(l, q.base, q.amount), q.quote, cost - fee)
      BY <1>6 DEF Created, Filled
    <3> HIDE DEF c, cost, fee
    <3>2. CASE q.side = "buy"
      BY <1>1, <1>2, <1>3, <1>4, <3>1, <3>2 DEF Credit, Debit, Held
    <3>3. CASE q.side = "sell"
      BY <1>1, <1>2, <1>3, <1>4, <3>1, <3>3 DEF Credit, Debit, Held
    <3>4. QED
      BY <1>2, <3>2, <3>3
  <2>5. moved \in Int
    <3> HIDE DEF cost, fee
    <3>1. QED
      BY <1>2, <1>3
  <2> HIDE DEF moved, rec, c
  <2>6. QED
    BY <1>4, <2>1, <2>3, <2>4, <2>5
<1>7. QED
  BY <1>5, <1>6

\* The orders placed so far.
Placed == {o \in Req : records[o] # NoRecord}

(***************************************************************************)
(* The inductive invariant.  The sums are over finitely many orders, as    *)
(* only finitely many have been placed; and an account without rows is one *)
(* on which nothing was placed.                                            *)
(***************************************************************************)
LedgerInv ==
    /\ rows \in Ledger
    /\ records \in [Req -> OrderRecord \cup {NoRecord}]
    /\ IsFiniteSet(Placed)
    /\ (\E a \in Asset : rows[a].present) \/ (rows = InitialRows /\ Placed = {})
    /\ Serial!BooksBalance
    /\ Serial!UsedBacksOpenOrders

\* The funds in use are those of the rows, seeded or not.
LEMMA OpeningFacts ==
  ASSUME LedgerInv
  PROVE  /\ Opening(rows) \in Ledger
         /\ \A a \in Asset : Opening(rows)[a].used = rows[a].used
         /\ Placed # {} => Opening(rows) = rows
<1>1. Seeded \in Ledger /\ \A a \in Asset : Seeded[a].used = 0
  BY AdapterAssumption DEF Seeded, Ledger, Balance, Held, Absent
<1>2. QED
  BY <1>1, InitialRowsAssumption DEF LedgerInv, Opening

LEMMA BooksInit == Serial!Init => LedgerInv
<1> SUFFICES ASSUME Serial!Init PROVE LedgerInv
  OBVIOUS
<1>1. rows = InitialRows /\ records = [o \in Req |-> NoRecord]
  BY SameAdapter DEF Serial!Init
<1>2. Placed = {} /\ IsFiniteSet(Placed)
  BY <1>1, FS_EmptySet DEF Placed
<1>3. Serial!WithStatus("filled") = {} /\ Serial!WithStatus("open") = {}
  BY <1>1 DEF Serial!WithStatus, NoRecord
<1>4. \A fun : DOMAIN fun = {} => SumFunction(fun) = 0
  BY SumEmpty DEF SumFunction
<1>5. Serial!UsedBacksOpenOrders
  BY <1>1, <1>3, <1>4, SameSum, InitialRowsAssumption DEF Serial!UsedBacksOpenOrders
<1>6. \A a \in Asset : Opening(rows)[a].used = 0 /\ Opening(rows)[a].free \in Nat
  BY <1>1, InitialRowsAssumption, AdapterAssumption
  DEF Opening, Seeded, Held, Absent, Ledger, Balance
<1>7. Serial!BooksBalance
  BY <1>1, <1>3, <1>4, <1>6, SameSum, SameOpening DEF Serial!BooksBalance
<1>8. QED
  BY <1>1, <1>2, <1>5, <1>7, InitialRowsAssumption DEF LedgerInv

-----------------------------------------------------------------------------
WithStatusIn(recs, s) == {o \in Req : recs[o].status = s}

\* The two columns of the books, order by order.
Deltas(recs, a) == [o \in WithStatusIn(recs, "filled") |-> Serial!Delta(recs[o], a)]
Reserves(recs, a) == [o \in WithStatusIn(recs, "open") |-> Serial!ReservedBy(recs[o], a)]

\* The record of o is written: where o did not have the status before, the
\* sum over the orders of that status changes by what the record adds.
LEMMA RecordBooked ==
  ASSUME NEW recs \in [Req -> OrderRecord \cup {NoRecord}],
         IsFiniteSet({p \in Req : recs[p] # NoRecord}),
         NEW o \in Req, NEW rec \in OrderRecord, NEW a \in Asset
  PROVE  LET new == [recs EXCEPT ![o] = rec]
         IN  /\ recs[o].status # "filled" =>
                   /\ SumFunction(Deltas(recs, a)) \in Int
                   /\ SumFunction(Deltas(new, a)) = SumFunction(Deltas(recs, a))
                         + (IF rec.status = "filled" THEN Serial!Delta(rec, a) ELSE 0)
             /\ recs[o].status # "open" =>
                   /\ SumFunction(Reserves(recs, a)) \in Int
                   /\ SumFunction(Reserves(new, a)) = SumFunction(Reserves(recs, a))
                         + (IF rec.status = "open" THEN Serial!ReservedBy(rec, a) ELSE 0)
<1> DEFINE new == [recs EXCEPT ![o] = rec]
<1>1. \A p \in Req : new[p] = IF p = o THEN rec ELSE recs[p]
  OBVIOUS
<1>2. ASSUME NEW s \in {"open", "filled"}
      PROVE  /\ \A p \in WithStatusIn(recs, s) : recs[p] \in OrderRecord
             /\ \A p \in WithStatusIn(new, s) : new[p] \in OrderRecord
  BY <1>1, StatusTypes DEF WithStatusIn
<1>3. ASSUME recs[o].status # "filled"
      PROVE  /\ SumFunction(Deltas(recs, a)) \in Int
             /\ SumFunction(Deltas(new, a)) = SumFunction(Deltas(recs, a))
                   + (IF rec.status = "filled" THEN Serial!Delta(rec, a) ELSE 0)
  <2> DEFINE f == Deltas(recs, a)
             g == Deltas(new, a)
             S == WithStatusIn(recs, "filled")
             T == WithStatusIn(new, "filled")
  <2>1. IsFiniteSet(S)
    <3>1. S \in SUBSET {p \in Req : recs[p] # NoRecord}
      BY DEF WithStatusIn, NoRecord
    <3>2. QED
      BY <3>1, FS_Subset
  <2>2. o \notin S /\ (T = S \/ T = S \cup {o}) /\ (o \in T <=> rec.status = "filled")
    BY <1>1, <1>3 DEF WithStatusIn
  <2>3. f \in [S -> Int] /\ g \in [T -> Int]
    <3> HIDE DEF new
    <3>1. QED
      BY <1>2, BookingTypes DEF Deltas
  <2>4. \A p \in S : g[p] = f[p]
    BY <1>1, <2>2 DEF Deltas, WithStatusIn
  <2>5. o \in T => g[o] = Serial!Delta(rec, a)
    BY <1>1 DEF Deltas
  <2> HIDE DEF f, g, S, T
  <2>6. /\ SumFunction(f) \in Int
        /\ SumFunction(g) = SumFunction(f) + (IF o \in T THEN g[o] ELSE 0)
    BY <2>1, <2>2, <2>3, <2>4, SumStep
  <2>7. QED
    BY <2>2, <2>5, <2>6 DEF f, g
<1>4. ASSUME recs[o].status # "open"
      PROVE  /\ SumFunction(Reserves(recs, a)) \in Int
             /\ SumFunction(Reserves(new, a)) = SumFunction(Reserves(recs, a))
                   + (IF rec.status = "open" THEN Serial!ReservedBy(rec, a) ELSE 0)
  <2> DEFINE f == Reserves(recs, a)
             g == Reserves(new, a)
             S == WithStatusIn(recs, "open")
             T == WithStatusIn(new, "open")
  <2>1. IsFiniteSet(S)
    <3>1. S \in SUBSET {p \in Req : recs[p] # NoRecord}
      BY DEF WithStatusIn, NoRecord
    <3>2. QED
      BY <3>1, FS_Subset
  <2>2. o \notin S /\ (T = S \/ T = S \cup {o}) /\ (o \in T <=> rec.status = "open")
    BY <1>1, <1>4 DEF WithStatusIn
  <2>3. f \in [S -> Int] /\ g \in [T -> Int]
    <3> HIDE DEF new
    <3>1. QED
      BY <1>2, BookingTypes DEF Reserves
  <2>4. \A p \in S : g[p] = f[p]
    BY <1>1, <2>2 DEF Reserves, WithStatusIn
  <2>5. o \in T => g[o] = Serial!ReservedBy(rec, a)
    BY <1>1 DEF Reserves
  <2> HIDE DEF f, g, S, T
  <2>6. /\ SumFunction(f) \in Int
        /\ SumFunction(g) = SumFunction(f) + (IF o \in T THEN g[o] ELSE 0)
    BY <2>1, <2>2, <2>3, <2>4, SumStep
  <2>7. QED
    BY <2>2, <2>5, <2>6 DEF f, g
<1>5. QED
  BY <1>3, <1>4

\* The two properties in these terms.
LEMMA BooksMean ==
  /\ Serial!BooksBalance <=>
        \A a \in Asset : Opening(rows)[a].free + Opening(rows)[a].used =
                            Opening(InitialRows)[a].free + SumFunction(Deltas(records, a))
  /\ Serial!UsedBacksOpenOrders <=>
        \A a \in Asset : rows[a].used = SumFunction(Reserves(records, a))
<1>1. \A s : Serial!WithStatus(s) = WithStatusIn(records, s)
  BY DEF Serial!WithStatus, WithStatusIn
<1>2. QED
  BY <1>1, SameSum, SameOpening
  DEF Serial!BooksBalance, Serial!UsedBacksOpenOrders, Deltas, Reserves

LEMMA OneMorePlaced ==
  ASSUME NEW recs \in [Req -> OrderRecord \cup {NoRecord}], NEW o \in Req, NEW rec,
         IsFiniteSet({p \in Req : recs[p] # NoRecord})
  PROVE  IsFiniteSet({p \in Req : [recs EXCEPT ![o] = rec][p] # NoRecord})
<1> DEFINE before == {p \in Req : recs[p] # NoRecord}
           after == {p \in Req : [recs EXCEPT ![o] = rec][p] # NoRecord}
<1>1. after \in SUBSET (before \cup {o})
  OBVIOUS
<1>2. IsFiniteSet(before \cup {o})
  BY FS_AddElement
<1>3. QED
  BY <1>1, <1>2, FS_Subset

\* A step of the serial ledger, in terms of the working copy W it starts from.
LEMMA BooksPlace == ASSUME LedgerInv, NEW o \in Req, Serial!Place(o) PROVE LedgerInv'
<1> DEFINE W == Opening(rows)
<1>1. PICK q \in OrderRequests, last \in Prices :
         /\ Affordable(W, q, last)
         /\ rows' = Created(W, q, last)
         /\ records' = [records EXCEPT ![o] = CreatedRecord(q, last)]
  BY SameAdapter, SameOpening DEF Serial!Place, Accepted
<1> DEFINE rec == CreatedRecord(q, last)
<1>2. records[o] = NoRecord /\ records[o].status = "none"
  BY SameAdapter DEF Serial!Place, NoRecord
<1>3. /\ W \in Ledger
      /\ \A a \in Asset : W[a].used = rows[a].used
  BY OpeningFacts
<1>4. rows' \in Ledger /\ rec \in OrderRecord
  BY <1>1, <1>3, CreatedType, CreatedRecordType
<1>5. records' \in [Req -> OrderRecord \cup {NoRecord}] /\ IsFiniteSet(Placed')
  <2>1. records \in [Req -> OrderRecord \cup {NoRecord}] /\ IsFiniteSet(Placed)
    BY DEF LedgerInv
  <2>2. records' \in [Req -> OrderRecord \cup {NoRecord}]
    BY <1>1, <1>4, <2>1
  <2> HIDE DEF rec
  <2>3. IsFiniteSet({p \in Req : [records EXCEPT ![o] = rec][p] # NoRecord})
    BY <2>1, OneMorePlaced DEF Placed
  <2>4. QED
    BY <1>1, <2>2, <2>3 DEF Placed, rec
<1>6. \E a \in Asset : rows'[a].present
  <2>1. q.base \in Asset /\ q.quote \in Asset /\ ReservedAsset(q) \in Asset
    BY AdapterAssumption, ReservationType DEF OrderRequest
  <2>2. DOMAIN W = Asset
    BY <1>3 DEF Ledger
  <2> HIDE DEF W
  <2>3. CASE Rests(q, last)
    BY <1>1, <2>1, <2>2, <2>3 DEF Created, Reserve, Held
  <2>4. CASE ~Rests(q, last)
    BY <1>1, <2>1, <2>2, <2>4 DEF Created, Filled, Credit, Debit, Held
  <2>5. QED
    BY <2>3, <2>4
<1>7. Opening(rows') = rows'
  BY <1>6 DEF Opening
<1>8. ASSUME NEW a \in Asset
      PROVE  /\ rows'[a].free + rows'[a].used =
                   Opening(InitialRows)[a].free + SumFunction(Deltas(records', a))
             /\ rows'[a].used = SumFunction(Reserves(records', a))
  <2>1. /\ rows'[a].free + rows'[a].used = W[a].free + W[a].used
              + (IF rec.status = "filled" THEN Serial!Delta(rec, a) ELSE 0)
        /\ rows'[a].used = W[a].used
              + (IF rec.status = "open" THEN Serial!ReservedBy(rec, a) ELSE 0)
    BY <1>1, <1>3, CreatedBooks
  <2>2. /\ SumFunction(Deltas(records, a)) \in Int
        /\ SumFunction(Deltas(records', a)) = SumFunction(Deltas(records, a))
              + (IF rec.status = "filled" THEN Serial!Delta(rec, a) ELSE 0)
        /\ SumFunction(Reserves(records, a)) \in Int
        /\ SumFunction(Reserves(records', a)) = SumFunction(Reserves(records, a))
              + (IF rec.status = "open" THEN Serial!ReservedBy(rec, a) ELSE 0)
    <3> HIDE DEF rec
    <3>1. records' = [records EXCEPT ![o] = rec]
      BY <1>1 DEF rec
    <3>2. records \in [Req -> OrderRecord \cup {NoRecord}] /\ IsFiniteSet(Placed)
      BY DEF LedgerInv
    <3>3. QED
      BY <1>2, <1>4, <3>1, <3>2, RecordBooked DEF Placed
  <2>3. /\ W[a].free + W[a].used = Opening(InitialRows)[a].free + SumFunction(Deltas(records, a))
        /\ W[a].used = SumFunction(Reserves(records, a))
    BY <1>3, BooksMean DEF LedgerInv
  <2>4. /\ Opening(InitialRows)[a].free \in Nat
        /\ Serial!Delta(rec, a) \in Int /\ Serial!ReservedBy(rec, a) \in Nat
    <3>1. Opening(InitialRows) \in Ledger
      BY InitialRowsAssumption, AdapterAssumption
      DEF Opening, Seeded, Ledger, Balance, Held, Absent
    <3>2. QED
      BY <1>4, <3>1, BookingTypes DEF Ledger, Balance
  <2> HIDE DEF rec, W
  <2>5. QED
    BY <2>1, <2>2, <2>3, <2>4
<1>9. Serial!BooksBalance' /\ Serial!UsedBacksOpenOrders'
  <2>1. /\ \A a \in Asset : Opening(rows')[a].free + Opening(rows')[a].used =
                               Opening(InitialRows)[a].free + SumFunction(Deltas(records', a))
        /\ \A a \in Asset : rows'[a].used = SumFunction(Reserves(records', a))
    BY <1>7, <1>8
  <2>2. \A s : Serial!WithStatus(s)' = WithStatusIn(records', s)
    BY DEF Serial!WithStatus, WithStatusIn
  <2>3. QED
    BY <2>1, <2>2, SameSum, SameOpening
    DEF Serial!BooksBalance, Serial!UsedBacksOpenOrders, Deltas, Reserves
<1>10. QED
  BY <1>4, <1>5, <1>6, <1>9 DEF LedgerInv

\* What is in use of an asset covers each open order's reservation of it.
LEMMA ReservationCovered ==
  ASSUME LedgerInv, NEW o \in Req, records[o].status = "open", NEW a \in Asset
  PROVE  Serial!ReservedBy(records[o], a) <= rows[a].used
<1> DEFINE S == WithStatusIn(records, "open")
           f == Reserves(records, a)
<1>1. records \in [Req -> OrderRecord \cup {NoRecord}] /\ IsFiniteSet(Placed)
  BY DEF LedgerInv
<1>2. IsFiniteSet(S)
  <2>1. S \in SUBSET Placed
    BY <1>1 DEF WithStatusIn, Placed, NoRecord
  <2>2. QED
    BY <1>1, <2>1, FS_Subset
<1>3. DOMAIN f = S /\ o \in S /\ f[o] = Serial!ReservedBy(records[o], a)
  BY DEF Reserves, WithStatusIn
<1>4. \A p \in S : f[p] \in Nat
  <2>1. \A p \in S : records[p] \in OrderRecord
    BY <1>1, StatusTypes DEF WithStatusIn
  <2>2. QED
    BY <2>1, BookingTypes DEF Reserves
<1>5. rows[a].used = SumFunction(f)
  BY BooksMean DEF LedgerInv
<1> HIDE DEF S, f
<1>6. SumFunctionOnSet(f, S) = f[o] + SumFunctionOnSet(f, S \ {o})
  <2>1. \A p \in S : f[p] \in Int
    BY <1>4
  <2>2. QED
    BY <1>2, <1>3, <2>1, SumRemove
<1>7. SumFunctionOnSet(f, S \ {o}) \in Nat
  BY <1>2, <1>4, SumMonotone
<1>8. f[o] \in Nat
  BY <1>3, <1>4
<1>9. QED
  BY <1>3, <1>5, <1>6, <1>7, <1>8 DEF SumFunction

LEMMA BooksCancel == ASSUME LedgerInv, NEW o \in Req, Serial!Cancel(o) PROVE LedgerInv'
<1> DEFINE old == records[o]
           q == old.order
           rec == CanceledRecord(old)
           ra == ReservedAsset(q)
           amount == ReservedAmount(q)
<1>1. /\ old.status = "open"
      /\ rows' = Release(rows, ra, amount)
      /\ records' = [records EXCEPT ![o] = rec]
  BY SameAdapter DEF Serial!Cancel
<1>2. /\ rows \in Ledger /\ records \in [Req -> OrderRecord \cup {NoRecord}]
      /\ IsFiniteSet(Placed)
  BY DEF LedgerInv
<1>3. /\ old \in OrderRecord /\ q \in OrderRequests
      /\ rec \in OrderRecord /\ rec.status = "canceled"
  BY <1>1, <1>2, StatusTypes DEF OrderRecord
<1>4. ra \in Asset /\ amount \in Nat
  <2> HIDE DEF q
  <2>1. QED
    BY <1>3, ReservationType
<1>5. \A a \in Asset : /\ Serial!ReservedBy(old, a) = IF a = ra THEN amount ELSE 0
                       /\ Serial!ReservedBy(old, a) <= rows[a].used
  BY <1>1, ReservationCovered, SameAdapter DEF Serial!ReservedBy
<1>6. amount <= rows[ra].used
  BY <1>4, <1>5
<1>7. \A a \in Asset : rows'[a] = IF a = ra
                                  THEN Held(rows[a].free + amount, rows[a].used - amount)
                                  ELSE rows[a]
  <2> HIDE DEF amount, ra
  <2>1. QED
    BY <1>1, <1>2, <1>4, <1>6 DEF Release, Ledger
<1>8. \A a \in Asset : rows[a].free \in Nat /\ rows[a].used \in Nat
  BY <1>2 DEF Ledger, Balance
<1>9. rows' \in Ledger /\ records' \in [Req -> OrderRecord \cup {NoRecord}] /\ IsFiniteSet(Placed')
  <2> HIDE DEF amount, ra, rec
  <2>1. rows' \in Ledger
    BY <1>1, <1>2, <1>4, MovesKeepType
  <2>2. IsFiniteSet({p \in Req : [records EXCEPT ![o] = rec][p] # NoRecord})
    BY <1>2, OneMorePlaced DEF Placed
  <2>3. QED
    BY <1>1, <1>2, <1>3, <2>1, <2>2 DEF Placed
<1>10. rows'[ra].present
  <2> HIDE DEF ra, amount
  <2>1. rows'[ra] = Held(rows[ra].free + amount, rows[ra].used - amount)
    BY <1>4, <1>7
  <2>2. QED
    BY <2>1 DEF Held
<1>11. Opening(rows) = rows /\ Opening(rows') = rows'
  <2>1. Placed # {}
    BY <1>1 DEF Placed, NoRecord
  <2>2. QED
    BY <1>4, <1>10, <2>1, OpeningFacts DEF Opening
<1>12. ASSUME NEW a \in Asset
       PROVE  /\ rows'[a].free + rows'[a].used =
                    Opening(InitialRows)[a].free + SumFunction(Deltas(records', a))
              /\ rows'[a].used = SumFunction(Reserves(records', a))
  <2>1. /\ rows[a].free + rows[a].used =
              Opening(InitialRows)[a].free + SumFunction(Deltas(records, a))
        /\ rows[a].used = SumFunction(Reserves(records, a))
    BY <1>11, BooksMean DEF LedgerInv
  <2>2. SumFunction(Deltas(records', a)) = SumFunction(Deltas(records, a))
    <3> HIDE DEF rec
    <3>1. /\ SumFunction(Deltas(records, a)) \in Int
          /\ SumFunction(Deltas(records', a)) = SumFunction(Deltas(records, a)) + 0
      BY <1>1, <1>2, <1>3, RecordBooked DEF Placed
    <3>2. QED
      BY <3>1
  <2>3. /\ SumFunction(Reserves(records', a)) \in Int
        /\ SumFunction(Reserves(records, a)) =
              SumFunction(Reserves(records', a)) + Serial!ReservedBy(old, a)
    <3> HIDE DEF rec, old
    <3>1. records = [records' EXCEPT ![o] = old]
      BY <1>1, <1>2 DEF old
    <3>2. records'[o].status # "open"
      BY <1>1, <1>2, <1>3
    <3>3. /\ SumFunction(Reserves(records', a)) \in Int
          /\ SumFunction(Reserves([records' EXCEPT ![o] = old], a)) =
               SumFunction(Reserves(records', a)) + Serial!ReservedBy(old, a)
      BY <1>1, <1>3, <1>9, <3>2, RecordBooked DEF Placed
    <3>4. QED
      BY <3>1, <3>3
  <2>4. /\ rows'[a].free + rows'[a].used = rows[a].free + rows[a].used
        /\ rows'[a].used = rows[a].used - Serial!ReservedBy(old, a)
        /\ Serial!ReservedBy(old, a) \in Nat
    <3> HIDE DEF amount, ra, old
    <3>1. CASE a = ra
      <4>1. rows'[a] = Held(rows[a].free + amount, rows[a].used - amount)
        BY <1>7, <3>1
      <4>2. rows'[a].free = rows[a].free + amount /\ rows'[a].used = rows[a].used - amount
        BY <4>1 DEF Held
      <4>3. Serial!ReservedBy(old, a) = amount
        BY <1>5, <3>1
      <4>4. QED
        BY <1>4, <1>8, <4>2, <4>3
    <3>2. CASE a # ra
      BY <1>4, <1>5, <1>7, <1>8, <3>2
    <3>3. QED
      BY <3>1, <3>2
  <2> HIDE DEF old
  <2>5. QED
    BY <1>8, <2>1, <2>2, <2>3, <2>4
<1>13. Serial!BooksBalance' /\ Serial!UsedBacksOpenOrders'
  <2>1. /\ \A a \in Asset : Opening(rows')[a].free + Opening(rows')[a].used =
                               Opening(InitialRows)[a].free + SumFunction(Deltas(records', a))
        /\ \A a \in Asset : rows'[a].used = SumFunction(Reserves(records', a))
    BY <1>11, <1>12
  <2>2. \A s : Serial!WithStatus(s)' = WithStatusIn(records', s)
    BY DEF Serial!WithStatus, WithStatusIn
  <2>3. QED
    BY <2>1, <2>2, SameSum, SameOpening
    DEF Serial!BooksBalance, Serial!UsedBacksOpenOrders, Deltas, Reserves
<1>14. QED
  BY <1>4, <1>9, <1>10, <1>13 DEF LedgerInv

LEMMA BooksNext == LedgerInv /\ [Serial!Next]_<<rows, records>> => LedgerInv'
<1> SUFFICES ASSUME LedgerInv, [Serial!Next]_<<rows, records>> PROVE LedgerInv'
  OBVIOUS
<1>1. CASE UNCHANGED <<rows, records>>
  <2>1. \A s : Serial!WithStatus(s)' = Serial!WithStatus(s)
    BY <1>1 DEF Serial!WithStatus
  <2>2. QED
    BY <1>1, <2>1 DEF LedgerInv, Placed, Serial!BooksBalance, Serial!UsedBacksOpenOrders
<1>2. CASE Serial!Next
  BY <1>2, BooksPlace, BooksCancel DEF Serial!Next
<1>3. QED
  BY <1>1, <1>2

(***************************************************************************)
(* The serial ledger loses no trade, applies none twice and charges each   *)
(* fee once, for any number of orders of any kind in any order, also on an *)
(* account that is seeded by its first one (paper.py create_order).        *)
(***************************************************************************)
THEOREM SerialBooks == Serial!Spec => []BooksBalance
<1>1. LedgerInv => BooksBalance
  BY DEF LedgerInv, BooksBalance
<1>2. QED
  BY <1>1, BooksInit, BooksNext, PTL DEF Serial!Spec, Serial!vars

(***************************************************************************)
(* In it, what is in use is at any time the sum of the open orders'        *)
(* reservations (paper.py _reserve, _release): no cancel ever meets the    *)
(* clamp that keeps `used` from going below zero.                          *)
(***************************************************************************)
THEOREM SerialReservations == Serial!Spec => []UsedBacksOpenOrders
<1>1. LedgerInv => UsedBacksOpenOrders
  BY DEF LedgerInv, UsedBacksOpenOrders
<1>2. QED
  BY <1>1, BooksInit, BooksNext, PTL DEF Serial!Spec, Serial!vars

(***************************************************************************)
(* On an established account no committed trade is lost or applied twice,  *)
(* however requests interleave, wait for each other, deadlock or die       *)
(* (load and save of paper_ledger_repository.py).                          *)
(***************************************************************************)
THEOREM BooksKept == EstablishedAccount => (Spec => []BooksBalance)
BY SerializableAccount, SerialBooks, PTL DEF Serializable

(***************************************************************************)
(* On an established account, whatever was cancelled concurrently, twice   *)
(* or in a request that failed half way, the funds in use are exactly the  *)
(* open orders' (cancel_order, adapter_session).                           *)
(***************************************************************************)
THEOREM ReservationsKept == EstablishedAccount => (Spec => []UsedBacksOpenOrders)
BY SerializableAccount, SerialReservations, PTL DEF Serializable
=============================================================================
