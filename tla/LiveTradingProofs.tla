------------------------- MODULE LiveTradingProofs --------------------------
(***************************************************************************)
(* Proofs about LiveTrading, for any number of requests, and about the     *)
(* CircuitBreaker its calls go through.                                    *)
(*                                                                         *)
(* The invariant follows an order from its request to the exchange and     *)
(* back.  Until the exchange has received it there is no record of it; an  *)
(* answer says what the exchange did; a cancel in progress is about an     *)
(* order that has a record and was not filled when it was recorded.  The   *)
(* adapter a request holds is the one today's policy gives it.             *)
(***************************************************************************)
EXTENDS LiveTrading, CircuitBreaker, TLAPS

\* Nobody has sent order o anywhere yet.
Fresh(o) ==
    /\ records[o] = NoRecord
    /\ exchange[o] = "none"
    /\ \A m \in net : m.order = o => m.kind # "place"

\* What a request in progress knows.
OpInv(r) ==
    /\ pc[r] = "idle" => Fresh(r)
    /\ pc[r] \in {"ready", "live", "paper", "waiting", "answered"} =>
          /\ op[r] \in Operation
          /\ op[r].kind = "place" => op[r].order = r /\ records[r] = NoRecord
          /\ op[r].kind = "cancel" => /\ records[op[r].order] # NoRecord
                                      /\ records[op[r].order].status # "filled"
    /\ pc[r] \in {"ready", "live", "paper"} /\ op[r].kind = "place" => Fresh(r)
    /\ pc[r] = "live" => liveTrading
    /\ pc[r] = "paper" => ~liveTrading

\* What an answer says.
AnswerInv(r) ==
    pc[r] = "answered" =>
       /\ op[r].kind = "place" => /\ exchange[r] # "none"
                                  /\ answer[r] = "canceled" => exchange[r] = "canceled"
                                  /\ answer[r] = "closed" => exchange[r] = "closed"
       /\ op[r].kind = "cancel" => /\ exchange[op[r].order] = "canceled"
                                   /\ answer[r] \in {"canceled", "missing"}

\* A message on its way belongs to the request that sent it.
MessageInv(m) ==
    /\ pc[m.from] \notin {"idle", "ready", "live", "paper"}
    /\ pc[m.from] \in {"waiting", "answered"} =>
          op[m.from].kind = m.kind /\ op[m.from].order = m.order
    /\ m.kind = "place" => /\ m.order = m.from
                           /\ records[m.order] = NoRecord
                           /\ exchange[m.order] = "none"

\* The paper adapter always names its orders.
PaperIds == \A o \in Req : records[o].paper => records[o].id

Inv ==
    /\ TypeOK
    /\ PaperIds
    /\ RecordsNameTheVenue
    /\ ReservedForOpenPaperOrders
    /\ \A r \in Req : OpInv(r) /\ AnswerInv(r)
    /\ \A m \in net : MessageInv(m)

\* With a policy that does not change.
FixedInv ==
    /\ ~liveTrading => net = {} /\ \A o \in Req : exchange[o] = "none"
    /\ CanceledIsNotOpen

\* A request to place an order arrives.
LEMMA PlaceOrderStep ==
    ASSUME Inv, NEW r \in Req, PlaceOrder(r)
    PROVE  Inv'
<1> USE DEF Inv, hub
<1>1. TypeOK' /\ PaperIds'
  BY DEF TypeOK, PaperIds, PlaceOrder, Begin, Operation
<1>2. RecordsNameTheVenue'
  BY DEF RecordsNameTheVenue, PlaceOrder
<1>3. ReservedForOpenPaperOrders'
  BY DEF ReservedForOpenPaperOrders, OpenPaperOrders, PlaceOrder
<1>4. ASSUME NEW p \in Req PROVE OpInv(p)'
  BY <1>4 DEF TypeOK, OpInv, Fresh, PlaceOrder, Begin, Operation
<1>5. ASSUME NEW p \in Req PROVE AnswerInv(p)'
  BY <1>5 DEF AnswerInv, PlaceOrder, Begin
<1>6. ASSUME NEW k \in net' PROVE MessageInv(k)'
  BY <1>6 DEF MessageInv, PlaceOrder, Begin
<1>7. QED
  BY <1>1, <1>2, <1>3, <1>4, <1>5, <1>6

\* A request to cancel arrives.
LEMMA CancelOrderStep ==
    ASSUME Inv, NEW r \in Req, NEW o \in Req, CancelOrder(r, o)
    PROVE  Inv'
<1> USE DEF Inv, hub
<1>1. TypeOK' /\ PaperIds'
  BY DEF TypeOK, PaperIds, CancelOrder, Begin, End, Operation, Reported
<1>2. RecordsNameTheVenue'
  BY DEF RecordsNameTheVenue, CancelOrder
<1>3. ReservedForOpenPaperOrders'
  BY DEF ReservedForOpenPaperOrders, OpenPaperOrders, CancelOrder
<1>4. ASSUME NEW p \in Req PROVE OpInv(p)'
  BY <1>4 DEF TypeOK, OpInv, Fresh, CancelOrder, Begin, End, Operation
<1>5. ASSUME NEW p \in Req PROVE AnswerInv(p)'
  BY <1>5 DEF TypeOK, AnswerInv, CancelOrder, Begin, End
<1>6. ASSUME NEW k \in net' PROVE MessageInv(k)'
  BY <1>6 DEF TypeOK, MessageInv, CancelOrder, Begin, End
<1>7. QED
  BY <1>1, <1>2, <1>3, <1>4, <1>5, <1>6

\* A request is given its adapter.
LEMMA OpenAdapterStep ==
    ASSUME Inv, NEW r \in Req, OpenAdapter(r)
    PROVE  Inv'
<1> USE DEF Inv, hub
<1>1. TypeOK' /\ PaperIds'
  BY DEF TypeOK, PaperIds, OpenAdapter
<1>2. RecordsNameTheVenue'
  BY DEF RecordsNameTheVenue, OpenAdapter
<1>3. ReservedForOpenPaperOrders'
  BY DEF ReservedForOpenPaperOrders, OpenPaperOrders, OpenAdapter
<1>4. ASSUME NEW p \in Req PROVE OpInv(p)'
  BY <1>4 DEF TypeOK, OpInv, Fresh, OpenAdapter
<1>5. ASSUME NEW p \in Req PROVE AnswerInv(p)'
  BY <1>5 DEF TypeOK, AnswerInv, OpenAdapter
<1>6. ASSUME NEW k \in net' PROVE MessageInv(k)'
  BY <1>6 DEF TypeOK, MessageInv, OpenAdapter
<1>7. QED
  BY <1>1, <1>2, <1>3, <1>4, <1>5, <1>6

\* An order is placed on paper: no one has heard of it before.
LEMMA PlaceOnPaperStep ==
    ASSUME Inv, NEW r \in Req, PlaceOnPaper(r)
    PROVE  Inv'
<1> USE DEF Inv, hub
<1>1. PICK status \in {"open", "filled"} :
         /\ records' = [records EXCEPT ![r] =
               [status |-> status, paper |-> TRUE, id |-> TRUE]]
         /\ reserved' = IF status = "open" THEN reserved \cup {r} ELSE reserved
  BY DEF PlaceOnPaper
<1>2. /\ pc[r] = "paper" /\ op[r].kind = "place" /\ Fresh(r)
      /\ UNCHANGED <<liveTrading, exchange, net>> /\ End(r)
  BY DEF PlaceOnPaper, OpInv
<1>3. /\ records'[r].status = status /\ records'[r].paper /\ records'[r].id
      /\ records'[r] \in Record
      /\ records'[r] # NoRecord
  BY <1>1 DEF TypeOK, Record, Status, NoRecord
<1>4. \A o \in Req \ {r} : records'[o] = records[o]
  BY <1>1 DEF TypeOK
<1>5. TypeOK' /\ PaperIds'
  BY <1>1, <1>2, <1>3, <1>4 DEF TypeOK, PaperIds, End, NoOperation, Reported
<1>6. RecordsNameTheVenue'
  <2> SUFFICES ASSUME NEW o \in Req, records'[o] # NoRecord
               PROVE  IF records'[o].paper
                      THEN /\ exchange[o] = "none"
                           /\ \A m \in net : m.kind = "place" => m.order # o
                      ELSE /\ exchange[o] # "none"
                           /\ records'[o].status = "filled" => exchange[o] = "closed"
    BY <1>2 DEF RecordsNameTheVenue, NoRecord
  <2>1. CASE o = r
    BY <2>1, <1>2, <1>3 DEF Fresh
  <2>2. CASE o # r
    BY <2>2, <1>4 DEF RecordsNameTheVenue
  <2>3. QED
    BY <2>1, <2>2
<1>7. ReservedForOpenPaperOrders'
  BY <1>1, <1>2, <1>3, <1>4 DEF ReservedForOpenPaperOrders, OpenPaperOrders, Fresh, NoRecord
<1>8. ASSUME NEW p \in Req PROVE OpInv(p)'
  <2>1. CASE p = r
    BY <2>1, <1>2 DEF OpInv, End, TypeOK
  <2>2. CASE p # r
    <3>1. pc'[p] = pc[p] /\ op'[p] = op[p] /\ records'[p] = records[p]
      BY <2>2, <1>2, <1>4 DEF End, TypeOK
    <3>2. \A o \in Req : records[o] # NoRecord => records'[o] = records[o]
      BY <1>2, <1>4 DEF Fresh
    <3>3. op[p] \in Operation => op[p].order \in Req
      BY DEF Operation
    <3>4. QED
      BY <1>2, <3>1, <3>2, <3>3 DEF OpInv, Fresh
  <2>3. QED
    BY <2>1, <2>2
<1>9. ASSUME NEW p \in Req PROVE AnswerInv(p)'
  BY <1>2 DEF AnswerInv, End, TypeOK
<1>10. ASSUME NEW k \in net' PROVE MessageInv(k)'
  BY <1>2, <1>4 DEF MessageInv, Fresh, End, TypeOK
<1>11. QED
  BY <1>5, <1>6, <1>7, <1>8, <1>9, <1>10

\* An order is cancelled on paper, whichever venue it went to.
LEMMA CancelOnPaperStep ==
    ASSUME Inv, NEW r \in Req, CancelOnPaper(r)
    PROVE  Inv'
<1> USE DEF Inv, hub
<1> DEFINE o == op[r].order
<1>1. /\ pc[r] = "paper" /\ op[r].kind = "cancel"
      /\ reserved' = IF o \in OpenPaperOrders THEN reserved \ {o} ELSE reserved
      /\ records' = [records EXCEPT ![o].status = "canceled"]
      /\ UNCHANGED <<liveTrading, exchange, net>> /\ End(r)
  BY DEF CancelOnPaper
<1>2. o \in Req /\ records[o] # NoRecord /\ records[o] \in Record
  BY <1>1 DEF OpInv, Operation, TypeOK
<1>3. records'[o] = [records[o] EXCEPT !.status = "canceled"]
  BY <1>1, <1>2 DEF TypeOK
<1>4. /\ records'[o] \in Record
      /\ records'[o].status = "canceled" /\ records'[o].paper = records[o].paper
      /\ records'[o].id = records[o].id
      /\ records'[o] # NoRecord
  BY <1>2, <1>3 DEF Record, Status, NoRecord
<1>5. \A p \in Req \ {o} : records'[p] = records[p]
  BY <1>1, <1>2 DEF TypeOK
<1> HIDE DEF o
<1>6. TypeOK' /\ PaperIds'
  BY <1>1, <1>2, <1>4, <1>5 DEF TypeOK, PaperIds, End, NoOperation, Reported
<1>7. RecordsNameTheVenue'
  <2> SUFFICES ASSUME NEW p \in Req, records'[p] # NoRecord
               PROVE  IF records'[p].paper
                      THEN /\ exchange[p] = "none"
                           /\ \A m \in net : m.kind = "place" => m.order # p
                      ELSE /\ exchange[p] # "none"
                           /\ records'[p].status = "filled" => exchange[p] = "closed"
    BY <1>1 DEF RecordsNameTheVenue, NoRecord
  <2>1. CASE p = o
    BY <2>1, <1>2, <1>4 DEF RecordsNameTheVenue
  <2>2. CASE p # o
    BY <2>2, <1>5 DEF RecordsNameTheVenue
  <2>3. QED
    BY <2>1, <2>2
<1>8. ReservedForOpenPaperOrders'
  BY <1>1, <1>2, <1>4, <1>5 DEF ReservedForOpenPaperOrders, OpenPaperOrders
<1>9. \A p \in Req : /\ records'[p] = NoRecord <=> records[p] = NoRecord
                     /\ records'[p].status = "filled" => records[p].status = "filled"
  BY <1>2, <1>4, <1>5
<1>10. ASSUME NEW p \in Req PROVE OpInv(p)'
  <2>1. CASE p = r
    BY <2>1, <1>1 DEF OpInv, End, TypeOK
  <2>2. CASE p # r
    <3>1. pc'[p] = pc[p] /\ op'[p] = op[p]
      BY <2>2, <1>1 DEF End, TypeOK
    <3>2. op[p] \in Operation => op[p].order \in Req
      BY DEF Operation
    <3>3. Fresh(p) => Fresh(p)'
      BY <1>1, <1>9 DEF Fresh
    <3>4. QED
      BY <1>1, <3>1, <3>2, <3>3, <1>9 DEF OpInv
  <2>3. QED
    BY <2>1, <2>2
<1>11. ASSUME NEW p \in Req PROVE AnswerInv(p)'
  BY <1>1 DEF AnswerInv, End, TypeOK
<1>12. ASSUME NEW k \in net' PROVE MessageInv(k)'
  BY <1>1, <1>9 DEF MessageInv, End, TypeOK
<1>13. QED
  BY <1>6, <1>7, <1>8, <1>10, <1>11, <1>12

\* A record without an identifier, which is that of a live order, is marked.
LEMMA MarkCanceledStep ==
    ASSUME Inv, NEW r \in Req, MarkCanceled(r)
    PROVE  Inv'
<1> USE DEF Inv, hub
<1> DEFINE o == op[r].order
<1>1. /\ pc[r] \in {"live", "paper"} /\ op[r].kind = "cancel"
      /\ ~records[o].id
      /\ records' = [records EXCEPT ![o].status = "canceled"]
      /\ UNCHANGED <<liveTrading, reserved, exchange, net>> /\ End(r)
  BY DEF MarkCanceled
<1>2. o \in Req /\ records[o] # NoRecord /\ records[o] \in Record
  BY <1>1 DEF OpInv, Operation, TypeOK
<1>3. records'[o] = [records[o] EXCEPT !.status = "canceled"]
  BY <1>1, <1>2 DEF TypeOK
<1>4. /\ records'[o] \in Record
      /\ records'[o].status = "canceled" /\ records'[o].paper = records[o].paper
      /\ records'[o].id = records[o].id
      /\ records'[o] # NoRecord
  BY <1>2, <1>3 DEF Record, Status, NoRecord
<1>5. \A p \in Req \ {o} : records'[p] = records[p]
  BY <1>1, <1>2 DEF TypeOK
<1> HIDE DEF o
<1>6. TypeOK' /\ PaperIds'
  BY <1>1, <1>2, <1>4, <1>5 DEF TypeOK, PaperIds, End, NoOperation, Reported
<1>7. RecordsNameTheVenue'
  <2> SUFFICES ASSUME NEW p \in Req, records'[p] # NoRecord
               PROVE  IF records'[p].paper
                      THEN /\ exchange[p] = "none"
                           /\ \A m \in net : m.kind = "place" => m.order # p
                      ELSE /\ exchange[p] # "none"
                           /\ records'[p].status = "filled" => exchange[p] = "closed"
    BY <1>1 DEF RecordsNameTheVenue, NoRecord
  <2>1. CASE p = o
    BY <2>1, <1>2, <1>4 DEF RecordsNameTheVenue
  <2>2. CASE p # o
    BY <2>2, <1>5 DEF RecordsNameTheVenue
  <2>3. QED
    BY <2>1, <2>2
<1>8. ReservedForOpenPaperOrders'
  <2>1. ~records[o].paper
    BY <1>1, <1>2 DEF PaperIds
  <2>2. QED
    BY <1>1, <1>2, <1>4, <1>5, <2>1 DEF ReservedForOpenPaperOrders, OpenPaperOrders
<1>9. \A p \in Req : /\ records'[p] = NoRecord <=> records[p] = NoRecord
                     /\ records'[p].status = "filled" => records[p].status = "filled"
  BY <1>2, <1>4, <1>5
<1>10. ASSUME NEW p \in Req PROVE OpInv(p)'
  <2>1. CASE p = r
    BY <2>1, <1>1 DEF OpInv, End, TypeOK
  <2>2. CASE p # r
    <3>1. pc'[p] = pc[p] /\ op'[p] = op[p]
      BY <2>2, <1>1 DEF End, TypeOK
    <3>2. op[p] \in Operation => op[p].order \in Req
      BY DEF Operation
    <3>3. Fresh(p) => Fresh(p)'
      BY <1>1, <1>9 DEF Fresh
    <3>4. QED
      BY <1>1, <3>1, <3>2, <3>3, <1>9 DEF OpInv
  <2>3. QED
    BY <2>1, <2>2
<1>11. ASSUME NEW p \in Req PROVE AnswerInv(p)'
  BY <1>1 DEF AnswerInv, End, TypeOK
<1>12. ASSUME NEW k \in net' PROVE MessageInv(k)'
  BY <1>1, <1>9 DEF MessageInv, End, TypeOK
<1>13. QED
  BY <1>6, <1>7, <1>8, <1>10, <1>11, <1>12

\* A request is sent to the exchange.
LEMMA SendStep ==
    ASSUME Inv, NEW r \in Req, Send(r)
    PROVE  Inv'
<1> USE DEF Inv, hub
<1> DEFINE sent == [from |-> r, kind |-> op[r].kind, order |-> op[r].order]
<1>1. /\ pc[r] = "live"
      /\ net' = net \cup {sent}
      /\ pc' = [pc EXCEPT ![r] = "waiting"]
      /\ UNCHANGED <<liveTrading, hub, exchange, op, answer>>
  BY DEF Send
<1>2. /\ op[r] \in Operation
      /\ op[r].kind = "place" => op[r].order = r /\ Fresh(r)
      /\ op[r].kind = "cancel" => records[op[r].order] # NoRecord
  BY <1>1 DEF OpInv
<1>3. sent \in [from: Req, kind: {"place", "cancel"}, order: Req]
  BY <1>2 DEF Operation
<1>4. sent.from = r /\ sent.kind = op[r].kind /\ sent.order = op[r].order
  OBVIOUS
<1> HIDE DEF sent
<1>5. TypeOK' /\ PaperIds'
  BY <1>1, <1>3 DEF TypeOK, PaperIds
<1>6. sent.kind = "place" => records[sent.order] = NoRecord
  BY <1>2, <1>4 DEF Fresh
<1>7. RecordsNameTheVenue'
  BY <1>1, <1>6 DEF RecordsNameTheVenue
<1>8. ReservedForOpenPaperOrders'
  BY <1>1 DEF ReservedForOpenPaperOrders, OpenPaperOrders
<1>9. ASSUME NEW p \in Req PROVE OpInv(p)'
  BY <1>1, <1>2, <1>4 DEF OpInv, Fresh, TypeOK
<1>10. ASSUME NEW p \in Req PROVE AnswerInv(p)'
  BY <1>1 DEF AnswerInv, TypeOK
<1>11. ASSUME NEW k \in net' PROVE MessageInv(k)'
  <2>1. CASE k = sent
    BY <2>1, <1>1, <1>2, <1>4 DEF MessageInv, Fresh, TypeOK
  <2>2. CASE k \in net
    BY <2>2, <1>1 DEF MessageInv, TypeOK
  <2>3. QED
    BY <2>1, <2>2, <1>1, <1>11
<1>12. QED
  BY <1>5, <1>7, <1>8, <1>9, <1>10, <1>11

\* The exchange's answer is recorded.
LEMMA PersistStep ==
    ASSUME Inv, NEW r \in Req, Persist(r)
    PROVE  Inv'
<1> USE DEF Inv, hub
<1> DEFINE o == op[r].order
           status == ParsedStatus(answer[r])
<1>1. /\ pc[r] = "answered" /\ Recorded(r) /\ End(r)
      /\ UNCHANGED <<liveTrading, reserved, exchange, net>>
  BY DEF Persist
<1>2. /\ op[r] \in Operation /\ o \in Req /\ op[r].kind \in {"place", "cancel"}
      /\ op[r].kind = "place" => o = r /\ records[r] = NoRecord
      /\ op[r].kind = "cancel" => records[o] # NoRecord /\ records[o].status # "filled"
  BY <1>1 DEF OpInv, Operation
<1>3. status \in Status
  BY DEF TypeOK, ParsedStatus, Status, Reported
<1>4. /\ op[r].kind = "place" => /\ exchange[o] # "none"
                                 /\ status = "filled" => exchange[o] = "closed"
      /\ op[r].kind = "cancel" => /\ exchange[o] = "canceled"
                                  /\ status \in {"canceled", "open"}
  BY <1>1, <1>2 DEF AnswerInv, ParsedStatus, TypeOK, Reported
<1>5. op[r].kind = "cancel" => records[o] \in Record /\ ~records[o].paper
  BY <1>2, <1>4 DEF RecordsNameTheVenue, TypeOK
<1>6. CASE op[r].kind = "place"
  <2>1. PICK id \in BOOLEAN :
           records' = [records EXCEPT ![o] = [status |-> status, paper |-> FALSE, id |-> id]]
    BY <1>1, <1>6 DEF Recorded
  <2>2. /\ records'[o] \in Record /\ records'[o].status = status /\ ~records'[o].paper
        /\ records'[o] # NoRecord
    BY <2>1, <1>2, <1>3 DEF TypeOK, Record, NoRecord, Status
  <2>3. \A p \in Req \ {o} : records'[p] = records[p]
    BY <2>1, <1>2 DEF TypeOK
  <2> HIDE DEF o, status
  <2>4. TypeOK' /\ PaperIds'
    BY <1>1, <2>1, <2>2, <2>3, <1>2 DEF TypeOK, PaperIds, End, NoOperation, Reported
  <2>5. RecordsNameTheVenue'
    BY <1>1, <1>2, <1>4, <1>6, <2>2, <2>3 DEF RecordsNameTheVenue, NoRecord
  <2>6. ReservedForOpenPaperOrders'
    BY <1>1, <1>2, <1>6, <2>2, <2>3
       DEF ReservedForOpenPaperOrders, OpenPaperOrders, NoRecord
  <2>7. ASSUME NEW p \in Req PROVE OpInv(p)'
    <3>1. CASE p = r
      BY <3>1, <1>1 DEF OpInv, End, TypeOK
    <3>2. CASE p # r
      <4>1. pc'[p] = pc[p] /\ op'[p] = op[p] /\ records'[p] = records[p]
        BY <3>2, <1>1, <1>2, <1>6, <2>3 DEF End, TypeOK
      <4>2. \A q \in Req : records[q] # NoRecord => records'[q] = records[q]
        BY <1>2, <1>6, <2>3
      <4>3. op[p] \in Operation => op[p].order \in Req
        BY DEF Operation
      <4>4. QED
        BY <1>1, <4>1, <4>2, <4>3 DEF OpInv, Fresh
    <3>3. QED
      BY <3>1, <3>2
  <2>8. ASSUME NEW p \in Req PROVE AnswerInv(p)'
    BY <1>1 DEF AnswerInv, End, TypeOK
  <2>9. ASSUME NEW k \in net' PROVE MessageInv(k)'
    BY <1>1, <1>2, <1>4, <1>6, <2>3 DEF MessageInv, End, TypeOK
  <2>10. QED
    BY <2>4, <2>5, <2>6, <2>7, <2>8, <2>9
<1>7. CASE op[r].kind = "cancel"
  <2>1. records' = [records EXCEPT ![o].status =
                       IF status = "open" THEN records[o].status ELSE status]
    BY <1>1, <1>7 DEF Recorded
  <2>2. records'[o] = [records[o] EXCEPT !.status =
                          IF status = "open" THEN records[o].status ELSE status]
    BY <2>1, <1>2 DEF TypeOK
  <2>3. /\ records'[o] \in Record /\ ~records'[o].paper /\ records'[o] # NoRecord
        /\ records'[o].status # "filled"
    BY <2>2, <1>2, <1>3, <1>4, <1>5, <1>7 DEF Record, NoRecord, Status
  <2>4. \A p \in Req \ {o} : records'[p] = records[p]
    BY <2>1, <1>2 DEF TypeOK
  <2> HIDE DEF o, status
  <2>5. TypeOK' /\ PaperIds'
    BY <1>1, <2>1, <2>3, <2>4, <1>2 DEF TypeOK, PaperIds, End, NoOperation, Reported
  <2>6. RecordsNameTheVenue'
    BY <1>1, <1>2, <1>4, <1>7, <2>3, <2>4 DEF RecordsNameTheVenue, NoRecord
  <2>7. ReservedForOpenPaperOrders'
    BY <1>1, <1>2, <1>5, <1>7, <2>3, <2>4 DEF ReservedForOpenPaperOrders, OpenPaperOrders
  <2>8. \A p \in Req : /\ records'[p] = NoRecord <=> records[p] = NoRecord
                       /\ records'[p].status = "filled" => records[p].status = "filled"
    BY <1>2, <1>7, <2>3, <2>4
  <2>9. ASSUME NEW p \in Req PROVE OpInv(p)'
    <3>1. CASE p = r
      BY <3>1, <1>1 DEF OpInv, End, TypeOK
    <3>2. CASE p # r
      <4>1. pc'[p] = pc[p] /\ op'[p] = op[p]
        BY <3>2, <1>1 DEF End, TypeOK
      <4>2. op[p] \in Operation => op[p].order \in Req
        BY DEF Operation
      <4>3. Fresh(p) => Fresh(p)'
        BY <1>1, <2>8 DEF Fresh
      <4>4. QED
        BY <1>1, <4>1, <4>2, <4>3, <2>8 DEF OpInv
    <3>3. QED
      BY <3>1, <3>2
  <2>10. ASSUME NEW p \in Req PROVE AnswerInv(p)'
    BY <1>1 DEF AnswerInv, End, TypeOK
  <2>11. ASSUME NEW k \in net' PROVE MessageInv(k)'
    BY <1>1, <2>8 DEF MessageInv, End, TypeOK
  <2>12. QED
    BY <2>5, <2>6, <2>7, <2>9, <2>10, <2>11
<1>8. QED
  BY <1>2, <1>6, <1>7

\* A request fails.
LEMMA RaiseStep ==
    ASSUME Inv, NEW r \in Req, Raise(r)
    PROVE  Inv'
<1> USE DEF Inv, hub
<1>1. TypeOK' /\ PaperIds'
  BY DEF TypeOK, PaperIds, Raise, End, Operation, NoOperation, Record, Status, NoRecord, Reported
<1>2. RecordsNameTheVenue'
  BY DEF RecordsNameTheVenue, Raise
<1>3. ReservedForOpenPaperOrders'
  BY DEF ReservedForOpenPaperOrders, OpenPaperOrders, Raise
<1>4. ASSUME NEW p \in Req PROVE OpInv(p)'
  BY <1>4 DEF TypeOK, OpInv, Fresh, Raise, End
<1>5. ASSUME NEW p \in Req PROVE AnswerInv(p)'
  BY <1>5 DEF TypeOK, AnswerInv, Raise, End
<1>6. ASSUME NEW k \in net' PROVE MessageInv(k)'
  BY <1>6 DEF TypeOK, MessageInv, Raise, End
<1>7. QED
  BY <1>1, <1>2, <1>3, <1>4, <1>5, <1>6

\* The exchange creates an order.
LEMMA CreatesStep ==
    ASSUME Inv, NEW m \in net, ExchangeCreates(m)
    PROVE  Inv'
<1> USE DEF Inv, hub
<1>1. TypeOK' /\ PaperIds'
  BY DEF TypeOK, PaperIds, ExchangeCreates, Answer, Reported
<1>2. RecordsNameTheVenue'
  BY DEF RecordsNameTheVenue, MessageInv, ExchangeCreates
<1>3. ReservedForOpenPaperOrders'
  BY DEF ReservedForOpenPaperOrders, OpenPaperOrders, ExchangeCreates
<1>4. ASSUME NEW p \in Req PROVE OpInv(p)'
  BY <1>4 DEF TypeOK, OpInv, Fresh, ExchangeCreates, Answer
<1>5. ASSUME NEW p \in Req PROVE AnswerInv(p)'
  BY <1>5 DEF TypeOK, AnswerInv, MessageInv, ExchangeCreates, Answer
<1>6. ASSUME NEW k \in net' PROVE MessageInv(k)'
  BY <1>6 DEF TypeOK, MessageInv, ExchangeCreates, Answer
<1>7. QED
  BY <1>1, <1>2, <1>3, <1>4, <1>5, <1>6

\* The exchange cancels an order.
LEMMA CancelsStep ==
    ASSUME Inv, NEW m \in net, ExchangeCancels(m)
    PROVE  Inv'
<1> USE DEF Inv, hub
<1>1. TypeOK' /\ PaperIds'
  BY DEF TypeOK, PaperIds, ExchangeCancels, Answer, Reported
<1>2. RecordsNameTheVenue'
  BY DEF RecordsNameTheVenue, ExchangeCancels
<1>3. ReservedForOpenPaperOrders'
  BY DEF ReservedForOpenPaperOrders, OpenPaperOrders, ExchangeCancels
<1>4. ASSUME NEW p \in Req PROVE OpInv(p)'
  BY <1>4 DEF TypeOK, OpInv, Fresh, ExchangeCancels, Answer
<1>5. ASSUME NEW p \in Req PROVE AnswerInv(p)'
  BY <1>5 DEF TypeOK, AnswerInv, MessageInv, ExchangeCancels, Answer
<1>6. ASSUME NEW k \in net' PROVE MessageInv(k)'
  BY <1>6 DEF TypeOK, MessageInv, ExchangeCancels, Answer
<1>7. QED
  BY <1>1, <1>2, <1>3, <1>4, <1>5, <1>6

\* The exchange refuses a request.
LEMMA RefusesStep ==
    ASSUME Inv, NEW m \in net, ExchangeRefuses(m)
    PROVE  Inv'
<1> USE DEF Inv, hub
<1>1. TypeOK' /\ PaperIds'
  BY DEF TypeOK, PaperIds, ExchangeRefuses, End, Reported
<1>2. RecordsNameTheVenue'
  BY DEF RecordsNameTheVenue, ExchangeRefuses
<1>3. ReservedForOpenPaperOrders'
  BY DEF ReservedForOpenPaperOrders, OpenPaperOrders, ExchangeRefuses
<1>4. ASSUME NEW p \in Req PROVE OpInv(p)'
  BY <1>4 DEF TypeOK, OpInv, Fresh, ExchangeRefuses, End
<1>5. ASSUME NEW p \in Req PROVE AnswerInv(p)'
  BY <1>5 DEF TypeOK, AnswerInv, ExchangeRefuses, End
<1>6. ASSUME NEW k \in net' PROVE MessageInv(k)'
  BY <1>6 DEF TypeOK, MessageInv, ExchangeRefuses, End
<1>7. QED
  BY <1>1, <1>2, <1>3, <1>4, <1>5, <1>6

\* An open order is filled or expires.
LEMMA MovesStep ==
    ASSUME Inv, NEW o \in Req, ExchangeMoves(o)
    PROVE  Inv'
<1> USE DEF Inv, hub
<1>1. TypeOK' /\ PaperIds'
  BY DEF TypeOK, PaperIds, ExchangeMoves, Operation, NoOperation, Record, Status, NoRecord, Reported
<1>2. RecordsNameTheVenue'
  BY DEF RecordsNameTheVenue, ExchangeMoves
<1>3. ReservedForOpenPaperOrders'
  BY DEF ReservedForOpenPaperOrders, OpenPaperOrders, ExchangeMoves
<1>4. ASSUME NEW p \in Req PROVE OpInv(p)'
  BY <1>4 DEF OpInv, Fresh, ExchangeMoves
<1>5. ASSUME NEW p \in Req PROVE AnswerInv(p)'
  BY <1>5 DEF AnswerInv, ExchangeMoves
<1>6. ASSUME NEW k \in net' PROVE MessageInv(k)'
  BY <1>6 DEF MessageInv, ExchangeMoves
<1>7. QED
  BY <1>1, <1>2, <1>3, <1>4, <1>5, <1>6

\* The process restarts.
LEMMA RestartStep ==
    ASSUME Inv, Restart
    PROVE  Inv'
<1> USE DEF Inv, hub
<1>1. TypeOK' /\ PaperIds'
  BY DEF TypeOK, PaperIds, Restart, Operation, NoOperation, Record, Status, NoRecord, Reported
<1>2. RecordsNameTheVenue'
  BY DEF RecordsNameTheVenue, Restart
<1>3. ReservedForOpenPaperOrders'
  BY DEF ReservedForOpenPaperOrders, OpenPaperOrders, Restart
<1>4. ASSUME NEW p \in Req PROVE OpInv(p)'
  BY <1>4 DEF OpInv, Fresh, Restart
<1>5. ASSUME NEW p \in Req PROVE AnswerInv(p)'
  BY <1>5 DEF AnswerInv, Restart
<1>6. ASSUME NEW k \in net' PROVE MessageInv(k)'
  BY <1>6 DEF TypeOK, MessageInv, Restart
<1>7. QED
  BY <1>1, <1>2, <1>3, <1>4, <1>5, <1>6

\* Every step of the specification preserves the invariant.
LEMMA InvNext ==
    ASSUME Inv, [Next]_vars
    PROVE  Inv'
<1>1. CASE UNCHANGED vars
  <2>1. TypeOK' /\ PaperIds'
    BY <1>1 DEF Inv, TypeOK, PaperIds, vars
  <2>2. RecordsNameTheVenue' /\ ReservedForOpenPaperOrders'
    BY <1>1 DEF Inv, RecordsNameTheVenue, ReservedForOpenPaperOrders, OpenPaperOrders, vars
  <2>3. \A r \in Req : OpInv(r)' /\ AnswerInv(r)'
    BY <1>1 DEF Inv, OpInv, AnswerInv, Fresh, vars
  <2>4. \A m \in net' : MessageInv(m)'
    BY <1>1 DEF Inv, MessageInv, vars
  <2>5. QED
    BY <2>1, <2>2, <2>3, <2>4 DEF Inv
<1>2. CASE Next
  BY <1>2, PlaceOrderStep, CancelOrderStep, OpenAdapterStep, PlaceOnPaperStep,
     CancelOnPaperStep, MarkCanceledStep, SendStep, PersistStep, RaiseStep, CreatesStep,
     CancelsStep, RefusesStep, MovesStep, RestartStep
     DEF Next
<1>3. QED
  BY <1>1, <1>2

\* The invariant holds throughout.
LEMMA Invariance == Spec => []Inv
<1>1. Init => Inv
  <2> SUFFICES ASSUME Init PROVE Inv
    OBVIOUS
  <2>1. TypeOK /\ PaperIds
    BY DEF Init, TypeOK, PaperIds, NoRecord, NoOperation, Reported
  <2>2. RecordsNameTheVenue /\ ReservedForOpenPaperOrders
    BY DEF Init, RecordsNameTheVenue, ReservedForOpenPaperOrders, OpenPaperOrders, NoRecord
  <2>3. ASSUME NEW r \in Req PROVE OpInv(r) /\ AnswerInv(r)
    <3>1. pc[r] = "idle" /\ Fresh(r)
      BY DEF Init, Fresh
    <3>2. QED
      BY <3>1 DEF OpInv, AnswerInv
  <2>4. QED
    BY <2>1, <2>2, <2>3 DEF Inv, Init
<1>2. QED
  BY <1>1, InvNext, PTL DEF Spec

(***************************************************************************)
(* The state keeps its types.  Among them is the status of every record:   *)
(* what _parse_order makes of an answer is always a status of the hub.     *)
(***************************************************************************)
THEOREM TypeCorrect == Spec => []TypeOK
  BY Invariance, PTL DEF Inv

(***************************************************************************)
(* Whatever the policy does and whatever fails, a record names the venue   *)
(* its order went to (_persist and _parse_order).                          *)
(***************************************************************************)
THEOREM VenueRecorded == Spec => []RecordsNameTheVenue
  BY Invariance, PTL DEF Inv

(***************************************************************************)
(* Changes of policy strand no reservation of the account's paper ledger:  *)
(* the funds in use are those of its open paper orders (cancel_order).     *)
(***************************************************************************)
THEOREM ReservationsKept == Spec => []ReservedForOpenPaperOrders
  BY Invariance, PTL DEF Inv

(***************************************************************************)
(* While the policy forbids live trading nothing is sent (factory.build,   *)
(* _is_paper_effective).  A request is given its adapter before it sends;  *)
(* the invariant says that no request holds a live adapter under a policy  *)
(* that forbids it, since the policy changes only with the process.        *)
(***************************************************************************)
THEOREM PolicyEnforced == Spec => NothingSentWhileForbidden
<1>1. ASSUME Inv, [Next]_vars PROVE ~liveTrading => net' \subseteq net
  <2>1. ASSUME NEW r \in Req, Send(r) PROVE liveTrading
    BY <1>1, <2>1 DEF Inv, OpInv, Send
  <2>2. QED
    BY <1>1, <2>1
       DEF Next, vars, hub, PlaceOrder, CancelOrder, OpenAdapter, PlaceOnPaper, CancelOnPaper,
           MarkCanceled, Persist, Raise, ExchangeCreates, ExchangeCancels, ExchangeRefuses,
           ExchangeMoves, Restart
<1>2. QED
  BY <1>1, Invariance, PTL DEF Spec, NothingSentWhileForbidden

(***************************************************************************)
(* A canceled or filled record never changes, although two requests may    *)
(* both have read it as open (cancel_order).                               *)
(***************************************************************************)
THEOREM FinalStatus == Spec => StatusIsFinal
<1> DEFINE Kept == \A o \in Req : records[o].status \in {"canceled", "filled"} =>
                      records'[o] = records[o]
<1>1. ASSUME Inv, [Next]_vars PROVE Kept
  <2>1. ASSUME NEW r \in Req, PlaceOnPaper(r) PROVE Kept
    <3>1. records[r].status = "none"
      BY <1>1, <2>1 DEF Inv, OpInv, Fresh, PlaceOnPaper, NoRecord
    <3>2. QED
      BY <1>1, <2>1, <3>1 DEF PlaceOnPaper, Inv, TypeOK
  <2>2. ASSUME NEW r \in Req, CancelOnPaper(r) PROVE Kept
    <3>1. op[r].order \in Req /\ records[op[r].order].status # "filled"
      BY <1>1, <2>2 DEF Inv, OpInv, CancelOnPaper, Operation
    <3>2. records[op[r].order] \in Record
      BY <1>1, <2>2, <3>1 DEF Inv, TypeOK, OpInv, CancelOnPaper
    <3>3. records' = [records EXCEPT ![op[r].order].status = "canceled"]
      BY <2>2 DEF CancelOnPaper
    <3>4. QED
      BY <1>1, <3>1, <3>2, <3>3 DEF Inv, TypeOK, Record
  <2>3. ASSUME NEW r \in Req, MarkCanceled(r) PROVE Kept
    <3>1. op[r].order \in Req /\ records[op[r].order].status # "filled"
      BY <1>1, <2>3 DEF Inv, OpInv, MarkCanceled, Operation
    <3>2. records[op[r].order] \in Record
      BY <1>1, <2>3, <3>1 DEF Inv, TypeOK, OpInv, MarkCanceled
    <3>3. records' = [records EXCEPT ![op[r].order].status = "canceled"]
      BY <2>3 DEF MarkCanceled
    <3>4. QED
      BY <1>1, <3>1, <3>2, <3>3 DEF Inv, TypeOK, Record
  <2>4. ASSUME NEW r \in Req, Persist(r) PROVE Kept
    <3> DEFINE o == op[r].order
    <3>1. pc[r] = "answered" /\ Recorded(r)
      BY <2>4 DEF Persist
    <3>2. /\ o \in Req /\ op[r].kind \in {"place", "cancel"}
          /\ op[r].kind = "place" => records[o].status = "none"
          /\ op[r].kind = "cancel" => /\ records[o] # NoRecord
                                      /\ records[o].status # "filled"
                                      /\ answer[r] \in {"canceled", "missing"}
      BY <1>1, <3>1 DEF Inv, OpInv, AnswerInv, Operation, NoRecord
    <3>3. CASE op[r].kind = "place"
      BY <1>1, <3>1, <3>2, <3>3 DEF Recorded, Inv, TypeOK
    <3>4. CASE op[r].kind = "cancel"
      <4>1. records[o] \in Record
        BY <1>1, <3>2, <3>4 DEF Inv, TypeOK
      <4>2. PICK status \in Status :
               /\ records[o].status = "canceled" => status = "canceled"
               /\ records' = [records EXCEPT ![o].status = status]
        BY <3>1, <3>2, <3>4, <4>1 DEF Recorded, ParsedStatus, Record, Status
      <4>3. QED
        BY <1>1, <3>2, <3>4, <4>1, <4>2 DEF Inv, TypeOK, Record
    <3>5. QED
      BY <3>2, <3>3, <3>4
  <2>5. UNCHANGED records => Kept
    OBVIOUS
  <2> HIDE DEF Kept
  <2>6. QED
    BY <1>1, <2>1, <2>2, <2>3, <2>4, <2>5
       DEF Next, vars, hub, PlaceOrder, CancelOrder, OpenAdapter, Send, Raise, ExchangeCreates,
           ExchangeCancels, ExchangeRefuses, ExchangeMoves, Restart
<1>2. QED
  BY <1>1, Invariance, PTL DEF Spec, StatusIsFinal

(***************************************************************************)
(* While live trading is allowed a record becomes canceled only when the   *)
(* exchange has cancelled the order (_parse_order, cancel_order), records  *)
(* without an identifier aside: the answer to a cancel is its confirmation *)
(* and an answer that says canceled tells what the exchange did.           *)
(***************************************************************************)
THEOREM CancelsConfirmed == Spec => LiveCancelIsConfirmed
<1> DEFINE ConfirmedOf(o) ==
              /\ liveTrading
              /\ records[o] = NoRecord \/ records[o].id
              /\ records[o].status # "canceled" /\ records'[o].status = "canceled"
              => exchange[o] = "canceled"
           Confirmed == \A o \in Req : ConfirmedOf(o)
<1>1. ASSUME Inv, [Next]_vars PROVE Confirmed
  <2>1. ASSUME NEW r \in Req, PlaceOnPaper(r) PROVE Confirmed
    BY <1>1, <2>1 DEF Inv, OpInv, PlaceOnPaper
  <2>2. ASSUME NEW r \in Req, CancelOnPaper(r) PROVE Confirmed
    BY <1>1, <2>2 DEF Inv, OpInv, CancelOnPaper
  <2>3. ASSUME NEW r \in Req, MarkCanceled(r) PROVE Confirmed
    <3>1. op[r].order \in Req /\ records[op[r].order] # NoRecord
      BY <1>1, <2>3 DEF Inv, OpInv, MarkCanceled, Operation
    <3>2. \A p \in Req \ {op[r].order} : records'[p] = records[p]
      BY <1>1, <2>3, <3>1 DEF Inv, TypeOK, MarkCanceled
    <3>3. ~records[op[r].order].id
      BY <2>3 DEF MarkCanceled
    <3>4. QED
      BY <3>1, <3>2, <3>3
  <2>4. ASSUME NEW r \in Req, Persist(r) PROVE Confirmed
    <3> DEFINE o == op[r].order
    <3>1. pc[r] = "answered" /\ Recorded(r)
      BY <2>4 DEF Persist
    <3>2. /\ o \in Req /\ op[r].kind \in {"place", "cancel"}
          /\ op[r].kind = "place" => (answer[r] = "canceled" => exchange[o] = "canceled")
          /\ op[r].kind = "cancel" => exchange[o] = "canceled"
      BY <1>1, <3>1 DEF Inv, OpInv, AnswerInv, Operation
    <3>3. \A p \in Req \ {o} : records'[p] = records[p]
      BY <1>1, <3>1, <3>2 DEF Recorded, Inv, TypeOK
    <3>4. CASE op[r].kind = "place"
      <4>1. records'[o].status = ParsedStatus(answer[r])
        <5>1. PICK id \in BOOLEAN :
                 records' = [records EXCEPT ![o] =
                                [status |-> ParsedStatus(answer[r]), paper |-> FALSE, id |-> id]]
          BY <3>1, <3>4 DEF Recorded
        <5>2. QED
          BY <1>1, <3>2, <5>1 DEF Inv, TypeOK
      <4>2. ParsedStatus(answer[r]) = "canceled" => answer[r] = "canceled"
        BY DEF ParsedStatus
      <4>3. QED
        BY <3>2, <3>3, <3>4, <4>1, <4>2
    <3>5. CASE op[r].kind = "cancel"
      BY <3>2, <3>3, <3>5
    <3>6. QED
      BY <3>2, <3>4, <3>5
  <2>5. UNCHANGED records => Confirmed
    OBVIOUS
  <2> HIDE DEF Confirmed
  <2>6. QED
    BY <1>1, <2>1, <2>2, <2>3, <2>4, <2>5
       DEF Next, vars, hub, PlaceOrder, CancelOrder, OpenAdapter, Send, Raise, ExchangeCreates,
           ExchangeCancels, ExchangeRefuses, ExchangeMoves, Restart
<1>2. QED
  BY <1>1, Invariance, PTL DEF Spec, LiveCancelIsConfirmed

(***************************************************************************)
(* If the policy never changes, an order recorded as canceled is not open  *)
(* on the exchange (cancel_order and _parse_order).  Either nothing is     *)
(* ever sent, or every cancellation is the exchange's own.                 *)
(***************************************************************************)
THEOREM ConsistentUnderFixedPolicy ==
    ~PolicyChanges => (Spec => []CanceledIsNotOpen)
<1> SUFFICES ASSUME ~PolicyChanges PROVE Spec => []CanceledIsNotOpen
  OBVIOUS
<1>1. Init => FixedInv
  BY DEF Init, FixedInv, CanceledIsNotOpen, NoRecord
<1>2. ASSUME Inv, FixedInv, [Next]_vars PROVE FixedInv'
  <2> USE DEF FixedInv
  <2>1. CASE UNCHANGED vars
    BY <1>2, <2>1 DEF vars, CanceledIsNotOpen
  <2>2. ASSUME UNCHANGED <<liveTrading, hub, exchange>>, net' \subseteq net \/ liveTrading
        PROVE  FixedInv'
    BY <1>2, <2>2 DEF hub, CanceledIsNotOpen
  <2>3. ASSUME NEW r \in Req, PlaceOnPaper(r) PROVE FixedInv'
    <3>1. PICK status \in {"open", "filled"} :
             records' = [records EXCEPT ![r] =
                            [status |-> status, paper |-> TRUE, id |-> TRUE]]
      BY <2>3 DEF PlaceOnPaper
    <3>2. QED
      BY <1>2, <2>3, <3>1 DEF PlaceOnPaper, CanceledIsNotOpen, Inv, TypeOK
  <2>4. ASSUME NEW r \in Req, CancelOnPaper(r) PROVE FixedInv'
    BY <1>2, <2>4 DEF CancelOnPaper, CanceledIsNotOpen, Inv, OpInv
  <2>5. ASSUME NEW r \in Req, MarkCanceled(r) PROVE FixedInv'
    <3>1. op[r].order \in Req /\ records[op[r].order] \in Record /\ ~records[op[r].order].id
      BY <1>2, <2>5 DEF Inv, TypeOK, OpInv, MarkCanceled, Operation
    <3>2. records' = [records EXCEPT ![op[r].order].status = "canceled"]
      BY <2>5 DEF MarkCanceled
    <3>3. ~records'[op[r].order].id
      BY <1>2, <3>1, <3>2 DEF Inv, TypeOK, Record
    <3>4. \A p \in Req \ {op[r].order} : records'[p] = records[p]
      BY <1>2, <3>1, <3>2 DEF Inv, TypeOK
    <3>5. UNCHANGED <<liveTrading, exchange, net>>
      BY <2>5 DEF MarkCanceled
    <3>6. QED
      BY <1>2, <3>1, <3>3, <3>4, <3>5 DEF CanceledIsNotOpen
  <2>6. ASSUME NEW r \in Req, Persist(r) PROVE FixedInv'
    <3> DEFINE o == op[r].order
    <3>1. pc[r] = "answered" /\ Recorded(r) /\ UNCHANGED <<liveTrading, exchange, net>>
      BY <2>6 DEF Persist
    <3>2. /\ o \in Req /\ op[r].kind \in {"place", "cancel"}
          /\ op[r].kind = "place" => (answer[r] = "canceled" => exchange[o] = "canceled")
          /\ op[r].kind = "cancel" => exchange[o] = "canceled"
      BY <1>2, <3>1 DEF Inv, OpInv, AnswerInv, Operation
    <3>3. \A p \in Req \ {o} : records'[p] = records[p]
      BY <1>2, <3>1, <3>2 DEF Recorded, Inv, TypeOK
    <3>4. CASE op[r].kind = "place"
      <4>1. records'[o].status = ParsedStatus(answer[r])
        <5>1. PICK id \in BOOLEAN :
                 records' = [records EXCEPT ![o] =
                                [status |-> ParsedStatus(answer[r]), paper |-> FALSE, id |-> id]]
          BY <3>1, <3>4 DEF Recorded
        <5>2. QED
          BY <1>2, <3>2, <5>1 DEF Inv, TypeOK
      <4>2. ParsedStatus(answer[r]) = "canceled" => answer[r] = "canceled"
        BY DEF ParsedStatus
      <4>3. QED
        BY <1>2, <3>1, <3>2, <3>3, <3>4, <4>1, <4>2 DEF CanceledIsNotOpen
    <3>5. CASE op[r].kind = "cancel"
      BY <1>2, <3>1, <3>2, <3>3, <3>5 DEF CanceledIsNotOpen
    <3>6. QED
      BY <3>2, <3>4, <3>5
  <2>7. ASSUME NEW m \in net, ExchangeCreates(m) PROVE FixedInv'
    <3>1. m.order \in Req /\ records[m.order] = NoRecord
      BY <1>2, <2>7 DEF Inv, TypeOK, MessageInv, ExchangeCreates
    <3>2. QED
      BY <1>2, <2>7, <3>1 DEF ExchangeCreates, CanceledIsNotOpen, hub, NoRecord, Inv, TypeOK
  <2>8. ASSUME NEW m \in net, ExchangeCancels(m) PROVE FixedInv'
    BY <1>2, <2>8 DEF ExchangeCancels, CanceledIsNotOpen, hub, Inv, TypeOK
  <2>9. ASSUME NEW o \in Req, ExchangeMoves(o) PROVE FixedInv'
    BY <1>2, <2>9 DEF ExchangeMoves, CanceledIsNotOpen, hub, Inv, TypeOK
  <2>10. CASE Restart
    BY <1>2, <2>10 DEF Restart, CanceledIsNotOpen, hub
  <2> HIDE DEF FixedInv
  <2>11. QED
    <3>1. ASSUME NEW r \in Req, Send(r) PROVE liveTrading
      BY <1>2, <3>1 DEF Inv, OpInv, Send
    <3>2. QED
      BY <1>2, <2>1, <2>2, <2>3, <2>4, <2>5, <2>6, <2>7, <2>8, <2>9, <2>10, <3>1
         DEF Next, PlaceOrder, CancelOrder, OpenAdapter, Send, Raise, ExchangeRefuses
<1>3. QED
  BY <1>1, <1>2, Invariance, PTL DEF Spec, FixedInv

-----------------------------------------------------------------------------
(***************************************************************************)
(* The circuit breaker that the calls to the exchange go through, for any  *)
(* number of callers, threshold and recovery timeout.                      *)
(***************************************************************************)

(***************************************************************************)
(* A behaviour without cancelled calls is one in which none happens to be  *)
(* cancelled: what is proved of CancellableSpec holds of BreakerSpec.      *)
(***************************************************************************)
LEMMA SpecIsCancellable == BreakerSpec => CancellableSpec
<1>1. [BreakerNext]_breakerVars => [CancellableNext]_breakerVars
  BY DEF CancellableNext
<1>2. QED
  BY <1>1, PTL DEF BreakerSpec, CancellableSpec

(***************************************************************************)
(* The breaker's fields keep their types (CircuitBreaker, resilience.py),  *)
(* whether or not calls are cancelled.                                     *)
(***************************************************************************)
THEOREM BreakerTypeCorrect == CancellableSpec => []BreakerTypeOK
<1>1. BreakerInit => BreakerTypeOK
  <2> SUFFICES ASSUME BreakerInit PROVE BreakerTypeOK
    OBVIOUS
  <2>1. probeInFlight \in BOOLEAN
    BY Zenon DEF BreakerInit
  <2>2. QED
    BY <2>1, BreakerAssumption DEF BreakerInit, BreakerTypeOK
<1>2. BreakerTypeOK /\ [CancellableNext]_breakerVars => BreakerTypeOK'
  <2> SUFFICES ASSUME BreakerTypeOK, [CancellableNext]_breakerVars PROVE BreakerTypeOK'
    OBVIOUS
  <2> USE BreakerAssumption DEF BreakerTypeOK
  <2>1. ASSUME NEW c \in Call, Admit(c) PROVE BreakerTypeOK'
    BY <2>1 DEF Admit
  <2>2. ASSUME NEW c \in Call, Succeed(c) PROVE BreakerTypeOK'
    <3>1. probeInFlight' \in BOOLEAN
      BY <2>2, Zenon DEF Succeed
    <3>2. QED
      BY <2>2, <3>1 DEF Succeed, Returned
  <2>3. ASSUME NEW c \in Call, Fail(c) PROVE BreakerTypeOK'
    <3>1. probeInFlight' \in BOOLEAN
      BY <2>3, Zenon DEF Fail
    <3>2. QED
      BY <2>3, <3>1 DEF Fail, Returned, CountedFailures
  <2>4. ASSUME NEW c \in Call, Cancelled(c) PROVE BreakerTypeOK'
    BY <2>4 DEF Cancelled, Returned, breaker
  <2>5. CASE Tick
    BY <2>5 DEF Tick
  <2>6. CASE BreakerRestart
    <3>1. probeInFlight' \in BOOLEAN
      BY <2>6, Zenon DEF BreakerRestart
    <3>2. QED
      BY <2>6, <3>1 DEF BreakerRestart
  <2>7. CASE UNCHANGED breakerVars
    BY <2>7 DEF breakerVars
  <2>8. QED
    BY <2>1, <2>2, <2>3, <2>4, <2>5, <2>6, <2>7 DEF BreakerNext, CancellableNext
<1>3. QED
  BY <1>1, <1>2, PTL DEF CancellableSpec

(***************************************************************************)
(* The circuit is closed exactly while fewer than failure_threshold        *)
(* failures came in since the last success (record_success and             *)
(* record_failure), with or without cancelled calls and restarts.          *)
(***************************************************************************)
THEOREM HealthTracked == CancellableSpec => []ClosedIffHealthy
<1>1. BreakerInit => ClosedIffHealthy
  BY BreakerAssumption DEF BreakerInit, ClosedIffHealthy
<1>2. BreakerTypeOK /\ ClosedIffHealthy /\ [CancellableNext]_breakerVars => ClosedIffHealthy'
  <2> SUFFICES ASSUME BreakerTypeOK, ClosedIffHealthy, [CancellableNext]_breakerVars
                 PROVE  ClosedIffHealthy'
    OBVIOUS
  <2> USE BreakerAssumption DEF BreakerTypeOK, ClosedIffHealthy
  <2>1. ASSUME NEW c \in Call, Admit(c) PROVE ClosedIffHealthy'
    BY <2>1 DEF Admit, CanAttempt
  <2>2. ASSUME NEW c \in Call, Succeed(c) PROVE ClosedIffHealthy'
    BY <2>2 DEF Succeed
  <2>3. ASSUME NEW c \in Call, Fail(c) PROVE ClosedIffHealthy'
    BY <2>3 DEF Fail, CountedFailures
  <2>4. ASSUME NEW c \in Call, Cancelled(c) PROVE ClosedIffHealthy'
    BY <2>4 DEF Cancelled, breaker
  <2>5. CASE Tick
    BY <2>5 DEF Tick
  <2>6. CASE BreakerRestart
    BY <2>6 DEF BreakerRestart
  <2>7. CASE UNCHANGED breakerVars
    BY <2>7 DEF breakerVars
  <2>8. QED
    BY <2>1, <2>2, <2>3, <2>4, <2>5, <2>6, <2>7 DEF BreakerNext, CancellableNext
<1>3. QED
  BY <1>1, <1>2, BreakerTypeCorrect, PTL DEF CancellableSpec

\* Without cancellation the half-open state and the flag go together, and
\* the call that set them is still in flight.
ProbeInv == (state = "half_open" <=> probeInFlight) /\ HalfOpenHasAProbe

(***************************************************************************)
(* Where no call is cancelled, a half-open circuit always waits for a      *)
(* probe that is really in flight (_can_attempt, call): it cannot wedge.   *)
(***************************************************************************)
THEOREM ProbeAccounted == BreakerSpec => []HalfOpenHasAProbe
<1>1. BreakerInit => ProbeInv
  BY DEF BreakerInit, ProbeInv, HalfOpenHasAProbe
<1>2. BreakerTypeOK /\ ProbeInv /\ [BreakerNext]_breakerVars => ProbeInv'
  <2> SUFFICES ASSUME BreakerTypeOK, ProbeInv, [BreakerNext]_breakerVars PROVE ProbeInv'
    OBVIOUS
  <2> USE DEF BreakerTypeOK, ProbeInv, HalfOpenHasAProbe
  <2>1. ASSUME NEW c \in Call, Admit(c) PROVE ProbeInv'
    <3>1. CASE state = "closed"
      BY <2>1, <3>1 DEF Admit
    <3>2. CASE state # "closed"
      BY <2>1, <3>2 DEF Admit
    <3>3. QED
      BY <3>1, <3>2
  <2>2. ASSUME NEW c \in Call, Succeed(c) PROVE ProbeInv'
    BY <2>2 DEF Succeed
  <2>3. ASSUME NEW c \in Call, Fail(c) PROVE ProbeInv'
    BY <2>3 DEF Fail
  <2>4. CASE Tick
    BY <2>4 DEF Tick
  <2>5. CASE BreakerRestart
    BY <2>5 DEF BreakerRestart
  <2>6. CASE UNCHANGED breakerVars
    BY <2>6 DEF breakerVars
  <2>7. QED
    BY <2>1, <2>2, <2>3, <2>4, <2>5, <2>6 DEF BreakerNext
<1>3. ProbeInv => HalfOpenHasAProbe
  BY DEF ProbeInv
<1>4. QED
  BY <1>1, <1>2, <1>3, BreakerTypeCorrect, SpecIsCancellable, PTL DEF BreakerSpec
=============================================================================
