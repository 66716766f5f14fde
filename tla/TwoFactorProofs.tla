--------------------------- MODULE TwoFactorProofs ---------------------------
(***************************************************************************)
(* Proofs about TwoFactor for any number of requests, secrets and codes    *)
(* and any validity window.                                                *)
(***************************************************************************)
EXTENDS TwoFactor, TLAPS

Request == [pc : {"idle", "read", "decided"},
            kind : {"login", "enroll", "confirm", "disable", None},
            code : Code \cup {None},
            read : Row, write : Row, replay : BOOLEAN]

\* Only an enrolment carries no code.
Coded(x) ==
    x.pc # "idle" => /\ x.kind = "enroll" => x.replay = FALSE
                     /\ x.kind # "enroll" => x.code \in Code

\* What a request decides to write, and what it checked before.
Decided(x) ==
    x.pc = "decided" =>
        \/ /\ x.kind = "enroll"
           /\ x.read.enabled = FALSE /\ x.write.enabled = FALSE
           /\ x.write.secret \in Secret
        \/ /\ x.kind \in {"confirm", "login"}
           /\ x.code.secret = x.read.secret /\ Fresh(x.read, x.code)
           /\ x.write.enabled = TRUE
           /\ x.write.secret = x.read.secret
           /\ x.write.last = x.code.step
           /\ x.kind = "login" => x.read.enabled = TRUE
        \/ /\ x.kind = "disable"
           /\ x.code.secret = x.read.secret /\ Fresh(x.read, x.code)
           /\ x.write = NoRow

\* A request with a used code of the secret it read has read a counter that
\* refuses it.
Snapshot(x) ==
    x.pc # "idle" /\ x.replay = TRUE /\ x.code.secret = x.read.secret
        => x.read.last # None /\ x.code.step <= x.read.last

Enrolling(x) == x.pc = "decided" /\ x.kind = "enroll"

\* A secret that is not committed yet is nowhere but in the request that
\* generated it.
Private(x) ==
    Enrolling(x) => row.secret # x.write.secret /\ \A c \in used : c.secret # x.write.secret

Apart(x, y) ==
    Enrolling(x) => y.read.secret # x.write.secret /\ y.write.secret # x.write.secret

\* Secrets come from generate_secret.
Handed(x) == {x.read.secret, x.write.secret} \subseteq generated \cup {None}

Requests ==
    /\ \A r \in Req : /\ Coded(req[r]) /\ Decided(req[r]) /\ Snapshot(req[r])
                      /\ Private(req[r]) /\ Handed(req[r])
    /\ \A r, q \in Req : r # q => Apart(req[r], req[q])

\* The codes used against the row: enabled, none is later than the counter;
\* pending, no code of the secret was used.
RowInv ==
    /\ row.secret \in generated \cup {None}
    /\ \A c \in used : c.secret \in generated
    /\ raced = FALSE =>
          /\ row.enabled = TRUE => /\ \E c \in used : c.secret = row.secret /\ c.step = row.last
                                   /\ \A c \in used : c.secret = row.secret => c.step <= row.last
          /\ row.enabled = FALSE => \A c \in used : c.secret # row.secret

Inv == TypeOK /\ Requests /\ RowInv

-----------------------------------------------------------------------------
LEMMA IdleRequest ==
    /\ NoRow \in Row /\ NoRow.enabled = FALSE /\ NoRow.secret = None /\ NoRow.last = None
    /\ Idle \in Request /\ Idle.pc = "idle" /\ Idle.read = NoRow /\ Idle.write = NoRow
<1>1. NoRow \in Row /\ NoRow.enabled = FALSE /\ NoRow.secret = None /\ NoRow.last = None
  BY DEF NoRow, Row
<1>2. QED
  BY <1>1 DEF Idle, Request

LEMMA InitInv == Init => Inv
<1> SUFFICES ASSUME Init PROVE Inv
  OBVIOUS
<1>1. /\ row = NoRow /\ now = 0 /\ generated = {} /\ used = {} /\ raced = FALSE
      /\ req = [r \in Req |-> Idle]
  BY DEF Init
<1>2. TypeOK
  <2>1. raced \in BOOLEAN
    BY <1>1, Zenon
  <2>2. now \in 0..MaxStep
    BY <1>1, TwoFactorAssumption
  <2>3. req \in [Req -> Request]
    BY <1>1, IdleRequest
  <2>4. QED
    BY <1>1, <2>1, <2>2, <2>3, IdleRequest DEF TypeOK, Request
<1>3. Requests
  BY <1>1, IdleRequest DEF Requests, Coded, Decided, Snapshot, Private, Handed, Apart, Enrolling
<1>4. RowInv
  BY <1>1, IdleRequest DEF RowInv
<1>5. QED
  BY <1>2, <1>3, <1>4 DEF Inv

(***************************************************************************)
(* A step that changes one request only.                                   *)
(***************************************************************************)
LEMMA ReqStep ==
    ASSUME Inv, NEW r \in Req, NEW STATE x, x \in Request,
           req' = [req EXCEPT ![r] = x], UNCHANGED <<row, now, used, raced>>,
           generated \subseteq generated', generated' \subseteq Secret,
           Coded(x), Decided(x), Snapshot(x), Private(x),
           {x.read.secret, x.write.secret} \subseteq generated' \cup {None},
           \A q \in Req \ {r} : Apart(x, req[q]) /\ Apart(req[q], x)
    PROVE  Inv'
<1>1. TypeOK'
  BY DEF Inv, TypeOK, Request
<1>2. req'[r] = x /\ \A q \in Req \ {r} : req'[q] = req[q]
  BY DEF Inv, TypeOK
<1>3. Requests'
  <2>1. ASSUME NEW q \in Req
        PROVE  /\ Coded(req'[q]) /\ Decided(req'[q]) /\ Snapshot(req'[q]) /\ Private(req'[q])
               /\ {req'[q].read.secret, req'[q].write.secret} \subseteq generated' \cup {None}
    <3>1. CASE q = r
      BY <1>2, <3>1
    <3>2. CASE q # r
      BY <1>2, <3>2 DEF Inv, Requests, Handed
    <3>3. QED
      BY <3>1, <3>2
  <2>2. ASSUME NEW p \in Req, NEW q \in Req, p # q PROVE Apart(req'[p], req'[q])
    BY <1>2, <2>2 DEF Inv, Requests
  <2>3. QED
    BY <2>1, <2>2 DEF Requests, Coded, Decided, Snapshot, Private, Handed, Apart, Enrolling, Fresh
<1>4. RowInv'
  BY DEF Inv, RowInv
<1>5. QED
  BY <1>1, <1>3, <1>4 DEF Inv

LEMMA EndStep ==
    ASSUME Inv, NEW r \in Req, End(r), UNCHANGED <<row, now, generated, used, raced>>
    PROVE  Inv'
<1>1. Coded(Idle) /\ Decided(Idle) /\ Snapshot(Idle) /\ Private(Idle)
  BY IdleRequest DEF Coded, Decided, Snapshot, Private, Enrolling
<1>2. \A q \in Req : Apart(Idle, req[q]) /\ Apart(req[q], Idle)
  BY IdleRequest, TwoFactorAssumption DEF Apart, Enrolling, Inv, Requests, Decided
<1>3. generated \subseteq Secret
  BY DEF Inv, TypeOK
<1>4. Idle \in Request /\ {Idle.read.secret, Idle.write.secret} \subseteq generated' \cup {None}
  BY IdleRequest
<1>5. req' = [req EXCEPT ![r] = Idle]
  BY DEF End
<1> HIDE DEF Idle
<1>6. QED
  BY <1>1, <1>2, <1>3, <1>4, <1>5, ReqStep

\* What an enrolment in flight has generated is not the row's secret.
LEMMA BeginStep ==
    ASSUME Inv, NEW r \in Req, Begin(r)
    PROVE  Inv'
<1>0. row \in Row /\ used \subseteq Code /\ generated \subseteq Secret
  BY DEF Inv, TypeOK
<1>1. ASSUME NEW kind \in {"login", "enroll", "confirm", "disable"},
             NEW code \in Code \cup {None}, kind = "enroll" => code = None,
             kind # "enroll" => code \in Code, Read(r, kind, code)
      PROVE  Inv'
  <2> DEFINE x == [pc |-> "read", kind |-> kind, code |-> code, read |-> row,
                   write |-> row, replay |-> code \in used /\ ~raced]
  <2>1. req' = [req EXCEPT ![r] = x]
    BY <1>1 DEF Read
  <2>2. /\ x.pc = "read" /\ x.kind = kind /\ x.code = code /\ x.read = row /\ x.write = row
        /\ x.replay = (code \in used /\ ~raced)
    OBVIOUS
  <2>3. x \in Request
    <3>1. PICK b \in BOOLEAN : b = (code \in used /\ ~raced)
      <4>1. (code \in used /\ ~raced) = TRUE \/ (code \in used /\ ~raced) = FALSE
        OBVIOUS
      <4>2. QED
        BY <4>1, Zenon
    <3>2. x = [pc |-> "read", kind |-> kind, code |-> code, read |-> row,
               write |-> row, replay |-> b]
      BY <3>1, Zenon
    <3> HIDE DEF x
    <3>3. QED
      BY <1>0, <3>2 DEF Request
  <2> HIDE DEF x
  <2>4. Coded(x)
    <3>1. kind = "enroll" => (code \in used /\ ~raced) = FALSE
      BY <1>0, <1>1, TwoFactorAssumption
    <3>2. QED
      BY <1>1, <2>2, <3>1 DEF Coded
  <2>5. Decided(x) /\ Private(x)
    BY <2>2 DEF Decided, Private, Enrolling
  <2>6. Snapshot(x)
    <3> SUFFICES ASSUME raced = FALSE, code \in used, code.secret = row.secret
                 PROVE  row.last # None /\ code.step <= row.last
      BY <2>2 DEF Snapshot, Inv, TypeOK
    <3>1. row.enabled = TRUE
      BY <1>0 DEF Inv, RowInv, Row
    <3>2. PICK c \in used : c.step = row.last
      BY <3>1 DEF Inv, RowInv
    <3>3. c.step # None
      BY <1>0, TwoFactorAssumption DEF Code, Counter
    <3>4. QED
      BY <3>1, <3>2, <3>3 DEF Inv, RowInv
  <2>7. \A q \in Req : Apart(x, req[q]) /\ Apart(req[q], x)
    BY <2>2 DEF Apart, Enrolling, Inv, Requests, Private
  <2>8. {x.read.secret, x.write.secret} \subseteq generated' \cup {None}
    BY <2>2 DEF Begin, Inv, RowInv
  <2>9. UNCHANGED <<row, now, generated, used, raced>>
    BY DEF Begin
  <2>10. QED
    BY <1>0, <2>1, <2>3, <2>4, <2>5, <2>6, <2>7, <2>8, <2>9, ReqStep
<1>2. CASE Read(r, "enroll", None)
  BY <1>1, <1>2
<1>3. ASSUME NEW kind \in {"login", "confirm", "disable"}, NEW code \in AtHand, Read(r, kind, code)
      PROVE  Inv'
  BY <1>1, <1>3 DEF AtHand
<1>4. QED
  BY <1>2, <1>3 DEF Begin

LEMMA EnrollStep ==
    ASSUME Inv, NEW r \in Req, Enroll(r)
    PROVE  Inv'
<1>0. generated \subseteq Secret /\ req \in [Req -> Request] /\ req[r] \in Request
      /\ req[r].read \in Row /\ used \subseteq Code
  BY DEF Inv, TypeOK, Request
<1>1. CASE End(r)
  <2>1. CASE generated' = generated
    BY <1>1, <2>1, EndStep DEF Enroll
  <2>2. CASE generated' # generated
    <3>1. PICK s \in Secret : Decide(r, [req[r].read EXCEPT !.secret = s])
      BY <2>2 DEF Enroll
    <3>2. req'[r].pc = "decided"
      BY <1>0, <3>1 DEF Decide, Request
    <3>3. req'[r] = Idle
      BY <1>0, <1>1 DEF End
    <3>4. QED
      BY <3>2, <3>3, IdleRequest
  <2>3. QED
    BY <2>1, <2>2
<1>2. CASE ~End(r)
  <2>1. PICK s \in Secret \ generated :
           /\ Decide(r, [req[r].read EXCEPT !.secret = s])
           /\ generated' = generated \cup {s}
           /\ ~req[r].read.enabled
    BY <1>2 DEF Enroll
  <2>2. /\ req[r].pc = "read" /\ req[r].kind = "enroll"
        /\ UNCHANGED <<row, now, used, raced>>
    BY DEF Enroll
  <2> DEFINE w == [req[r].read EXCEPT !.secret = s]
             x == [req[r] EXCEPT !.pc = "decided", !.write = w]
  <2>3. w \in Row /\ w.secret = s /\ w.enabled = req[r].read.enabled
    BY <1>0 DEF Row
  <2>4. req[r].read.enabled = FALSE
    BY <1>0, <2>1 DEF Row
  <2>5. req' = [req EXCEPT ![r] = x]
    BY <1>0, <2>1 DEF Decide
  <2> HIDE DEF w
  <2>6. /\ x \in Request /\ x.pc = "decided" /\ x.write = w /\ x.kind = "enroll"
        /\ x.read = req[r].read /\ x.code = req[r].code /\ x.replay = req[r].replay
    BY <1>0, <2>2, <2>3 DEF Request
  <2> HIDE DEF x
  <2>7. Coded(req[r]) /\ Snapshot(req[r]) /\ Handed(req[r])
    BY DEF Inv, Requests
  <2>8. Coded(x) /\ Decided(x) /\ Snapshot(x)
    BY <2>2, <2>3, <2>4, <2>6, <2>7 DEF Coded, Decided, Snapshot
  <2>9. Private(x)
    BY <2>1, <2>3, <2>6, TwoFactorAssumption DEF Private, Inv, RowInv
  <2>10. ASSUME NEW q \in Req \ {r} PROVE Apart(x, req[q]) /\ Apart(req[q], x)
    <3>1. Handed(req[q]) /\ Apart(req[q], req[r]) /\ Decided(req[q])
      BY DEF Inv, Requests
    <3>2. QED
      BY <2>1, <2>3, <2>6, <3>1, TwoFactorAssumption DEF Handed, Apart, Enrolling, Decided
  <2>11. {x.read.secret, x.write.secret} \subseteq generated' \cup {None}
    BY <2>1, <2>3, <2>6, <2>7 DEF Handed
  <2>12. generated \subseteq generated' /\ generated' \subseteq Secret
    BY <1>0, <2>1
  <2>13. QED
    BY <2>2, <2>5, <2>6, <2>8, <2>9, <2>10, <2>11, <2>12, ReqStep
<1>3. QED
  BY <1>1, <1>2

(***************************************************************************)
(* confirm_totp, disable_totp and the second factor of a login: the code   *)
(* was checked against what the request has read.                          *)
(***************************************************************************)
LEMMA ConsumeStep ==
    ASSUME Inv, NEW r \in Req, NEW STATE w, w \in Row, Decide(r, w),
           req[r].pc = "read", req[r].kind # "enroll", ConsumeTotp(req[r].read, req[r].code),
           \/ /\ req[r].kind \in {"confirm", "login"}
              /\ w.enabled = TRUE /\ w.secret = req[r].read.secret /\ w.last = req[r].code.step
              /\ req[r].kind = "login" => req[r].read.enabled = TRUE
           \/ req[r].kind = "disable" /\ w = NoRow,
           UNCHANGED <<row, now, generated, used, raced>>
    PROVE  Inv'
<1>0. generated \subseteq Secret /\ req \in [Req -> Request] /\ req[r] \in Request
  BY DEF Inv, TypeOK, Request
<1> DEFINE x == [req[r] EXCEPT !.pc = "decided", !.write = w]
<1>1. req' = [req EXCEPT ![r] = x]
  BY <1>0 DEF Decide
<1>2. /\ x \in Request /\ x.pc = "decided" /\ x.write = w /\ x.kind = req[r].kind
      /\ x.read = req[r].read /\ x.code = req[r].code /\ x.replay = req[r].replay
  BY <1>0 DEF Request
<1> HIDE DEF x
<1>3. Coded(req[r]) /\ Snapshot(req[r]) /\ Handed(req[r])
  BY DEF Inv, Requests
<1>4. Coded(x) /\ Snapshot(x) /\ Private(x)
  BY <1>2, <1>3 DEF Coded, Snapshot, Private, Enrolling
<1>5. Decided(x)
  BY <1>2 DEF Decided, ConsumeTotp, Matches
<1>6. w.secret \in {req[r].read.secret, None}
  BY IdleRequest
<1>7. ASSUME NEW q \in Req \ {r} PROVE Apart(x, req[q]) /\ Apart(req[q], x)
  <2>1. Apart(req[q], req[r]) /\ Decided(req[q])
    BY DEF Inv, Requests
  <2>2. QED
    BY <1>2, <1>6, <2>1, TwoFactorAssumption DEF Apart, Enrolling, Decided
<1>8. {x.read.secret, x.write.secret} \subseteq generated' \cup {None}
  BY <1>2, <1>3, <1>6 DEF Handed
<1>9. QED
  BY <1>0, <1>1, <1>2, <1>4, <1>5, <1>7, <1>8, ReqStep

LEMMA CheckStep ==
    ASSUME Inv, NEW r \in Req, Confirm(r) \/ Disable(r) \/ Login(r)
    PROVE  Inv'
<1>0. req[r] \in Request /\ UNCHANGED <<row, now, generated, used, raced>>
      /\ req[r].pc = "read" /\ req[r].kind # "enroll"
  BY DEF Inv, TypeOK, Request, Confirm, Disable, Login
<1>1. CASE End(r)
  BY <1>0, <1>1, EndStep
<1>2. Coded(req[r])
  BY DEF Inv, Requests
<1>3. req[r].code.step \in Counter /\ req[r].read \in Row
  BY <1>0, <1>2 DEF Coded, Code, Request
<1>4. CASE Confirm(r) /\ ~End(r)
  <2> DEFINE w == [req[r].read EXCEPT !.enabled = TRUE, !.last = req[r].code.step]
  <2>1. w \in Row /\ w.enabled = TRUE /\ w.secret = req[r].read.secret
        /\ w.last = req[r].code.step
    BY <1>3 DEF Row
  <2>2. Decide(r, w) /\ ConsumeTotp(req[r].read, req[r].code) /\ req[r].kind = "confirm"
    BY <1>4 DEF Confirm
  <2> HIDE DEF w
  <2>3. QED
    BY <1>0, <2>1, <2>2, ConsumeStep
<1>5. CASE Login(r) /\ ~End(r)
  <2> DEFINE w == [req[r].read EXCEPT !.last = req[r].code.step]
  <2>1. Decide(r, w) /\ ConsumeTotp(req[r].read, req[r].code) /\ req[r].kind = "login"
        /\ req[r].read.enabled
    BY <1>5 DEF Login
  <2>2. req[r].read.enabled = TRUE
    BY <1>3, <2>1 DEF Row
  <2>3. w \in Row /\ w.enabled = TRUE /\ w.secret = req[r].read.secret
        /\ w.last = req[r].code.step
    BY <1>3, <2>2 DEF Row
  <2> HIDE DEF w
  <2>4. QED
    BY <1>0, <2>1, <2>2, <2>3, ConsumeStep
<1>6. CASE Disable(r) /\ ~End(r)
  <2>1. Decide(r, NoRow) /\ ConsumeTotp(req[r].read, req[r].code) /\ req[r].kind = "disable"
    BY <1>6 DEF Disable
  <2>2. QED
    BY <1>0, <2>1, IdleRequest, ConsumeStep
<1>7. QED
  BY <1>1, <1>4, <1>5, <1>6

-----------------------------------------------------------------------------
\* The ORM's update, and what it leaves of a row that did not change.
LEMMA ChangedRow ==
    ASSUME NEW old \in Row, NEW new \in Row, NEW cur \in Row
    PROVE  /\ Changed(old, new, cur) \in Row
           /\ Changed(old, new, cur).secret \in {new.secret, cur.secret}
           /\ old = cur => /\ Changed(old, new, cur).enabled = new.enabled
                           /\ Changed(old, new, cur).secret = new.secret
                           /\ Changed(old, new, cur).last = new.last
  BY DEF Changed, Row

\* What the commit of a request's decision does to the row and the codes used.
LEMMA Committed ==
    ASSUME Inv, NEW r \in Req, Commit(r)
    PROVE  /\ row' \in Row /\ row'.secret \in {req[r].write.secret, row.secret}
           /\ \/ req[r].kind = "enroll" /\ used' = used
              \/ /\ req[r].kind # "enroll" /\ used' = used \cup {req[r].code}
                 /\ req[r].code \in Code /\ req[r].code.secret = req[r].read.secret
                 /\ req[r].code.secret \in generated
           /\ raced' \in BOOLEAN
           /\ raced' = FALSE => /\ raced = FALSE \/ req[r].kind \in {"enroll", "disable"}
                                /\ req[r].read = row
                                /\ row'.enabled = req[r].write.enabled
                                /\ row'.secret = req[r].write.secret
                                /\ row'.last = req[r].write.last
<1>0. req[r] \in Request /\ row \in Row /\ raced \in BOOLEAN /\ req[r].pc = "decided"
      /\ req[r].read \in Row /\ req[r].write \in Row
  BY DEF Inv, TypeOK, Request, Commit
<1>1. row' = Changed(req[r].read, req[r].write, row)
  BY DEF Commit
<1>2. row' \in Row /\ row'.secret \in {req[r].write.secret, row.secret}
  BY <1>0, <1>1, ChangedRow
<1>3. Coded(req[r]) /\ Decided(req[r]) /\ Handed(req[r])
  BY DEF Inv, Requests
<1>4. \/ req[r].kind = "enroll" /\ used' = used
      \/ /\ req[r].kind # "enroll" /\ used' = used \cup {req[r].code}
         /\ req[r].code \in Code /\ req[r].code.secret = req[r].read.secret
  BY <1>0, <1>3 DEF Commit, Coded, Decided
<1>5. req[r].kind # "enroll" => req[r].code.secret \in generated
  BY <1>3, <1>4, TwoFactorAssumption DEF Handed, Code
<1> DEFINE R == req[r].read # row \/ (raced /\ req[r].kind \notin {"enroll", "disable"})
<1>6. raced' = R
  BY DEF Commit
<1>7. raced' \in BOOLEAN
  <2>1. CASE R
    BY <1>6, <2>1, Zenon
  <2>2. CASE ~R
    BY <1>6, <2>2, Zenon
  <2>3. QED
    BY <2>1, <2>2
<1>8. raced' = FALSE => /\ raced = FALSE \/ req[r].kind \in {"enroll", "disable"}
                        /\ req[r].read = row
  <2>1. raced' = FALSE => ~R
    BY <1>6, Zenon
  <2>2. QED
    BY <1>0, <2>1
<1>9. raced' = FALSE => /\ row'.enabled = req[r].write.enabled
                        /\ row'.secret = req[r].write.secret
                        /\ row'.last = req[r].write.last
  BY <1>0, <1>1, <1>8, ChangedRow
<1>10. QED
  BY <1>2, <1>4, <1>5, <1>7, <1>8, <1>9

LEMMA CommitStep ==
    ASSUME Inv, NEW r \in Req, Commit(r)
    PROVE  Inv'
<1>0. /\ row \in Row /\ used \subseteq Code /\ generated \subseteq Secret
      /\ req \in [Req -> Request] /\ req[r].pc = "decided" /\ UNCHANGED <<now, generated>>
      /\ req[r] \in Request
  BY DEF Inv, TypeOK, Request, Commit
<1>1. req' = [req EXCEPT ![r] = Idle]
  BY DEF Commit, End
<1>2. used' \subseteq Code
  BY <1>0, Committed
<1>3. TypeOK'
  <2>1. req' \in [Req -> Request]
    BY <1>0, <1>1, IdleRequest
  <2>2. QED
    BY <1>0, <1>2, <2>1, Committed DEF Inv, TypeOK, Request
<1>4. req'[r] = Idle /\ \A q \in Req \ {r} : req'[q] = req[q]
  BY <1>0, <1>1
<1>5. Requests'
  <2>1. ASSUME NEW q \in Req \ {r}
        PROVE  Enrolling(req[q]) => /\ row'.secret # req[q].write.secret
                                    /\ \A c \in used' : c.secret # req[q].write.secret
    <3>1. Private(req[q]) /\ Apart(req[q], req[r])
      BY DEF Inv, Requests
    <3>2. QED
      BY <3>1, Committed DEF Private, Apart
  <2>2. ASSUME NEW q \in Req
        PROVE  /\ Coded(req[q])' /\ Decided(req[q])' /\ Snapshot(req[q])' /\ Private(req[q])'
               /\ Handed(req[q])'
    <3>1. CASE q = r
      BY <1>4, <3>1, IdleRequest DEF Coded, Decided, Snapshot, Private, Handed, Enrolling
    <3>2. CASE q # r
      <4>1. req'[q] = req[q]
        BY <1>4, <3>2
      <4>2. Coded(req[q]) /\ Decided(req[q]) /\ Snapshot(req[q]) /\ Handed(req[q])
        BY DEF Inv, Requests
      <4>3. Coded(req[q])' /\ Decided(req[q])' /\ Handed(req[q])'
        BY <1>0, <4>1, <4>2 DEF Coded, Decided, Handed, Fresh
      <4>4. Snapshot(req[q])'
        BY <4>1, <4>2, Committed DEF Snapshot
      <4>5. Private(req[q])'
        BY <2>1, <3>2, <4>1 DEF Private, Enrolling
      <4>6. QED
        BY <4>3, <4>4, <4>5
    <3>3. QED
      BY <3>1, <3>2
  <2>3. ASSUME NEW p \in Req, NEW q \in Req, p # q PROVE Apart(req[p], req[q])'
    <3>1. Apart(req[p], req[q]) /\ Decided(req[p])
      BY <2>3 DEF Inv, Requests
    <3>2. QED
      BY <1>4, <2>3, <3>1, IdleRequest, TwoFactorAssumption DEF Apart, Enrolling, Decided
  <2>4. QED
    BY <2>2, <2>3 DEF Requests
<1>6. RowInv'
  <2>1. Decided(req[r]) /\ Private(req[r]) /\ Handed(req[r])
    BY DEF Inv, Requests
  <2>2. row'.secret \in generated' \cup {None}
    BY <1>0, <2>1, Committed DEF Handed, Inv, RowInv
  <2>3. \A c \in used' : c.secret \in generated'
    BY <1>0, Committed DEF Inv, RowInv
  <2>4. ASSUME raced' = FALSE
        PROVE  /\ row'.enabled = TRUE =>
                     /\ \E c \in used' : c.secret = row'.secret /\ c.step = row'.last
                     /\ \A c \in used' : c.secret = row'.secret => c.step <= row'.last
               /\ row'.enabled = FALSE => \A c \in used' : c.secret # row'.secret
    <3>1. /\ raced = FALSE \/ req[r].kind \in {"enroll", "disable"}
          /\ req[r].read = row
          /\ row'.enabled = req[r].write.enabled /\ row'.secret = req[r].write.secret
          /\ row'.last = req[r].write.last
      BY <2>4, Committed
    <3>2. CASE req[r].kind = "enroll"
      BY <1>0, <2>1, <3>1, <3>2, Committed DEF Decided, Private, Enrolling
    <3>3. CASE req[r].kind = "disable"
      <4>1. row'.enabled = FALSE /\ row'.secret = None
        BY <1>0, <2>1, <3>1, <3>3, IdleRequest DEF Decided
      <4>2. QED
        BY <1>2, <4>1, TwoFactorAssumption DEF Code
    <3>4. CASE req[r].kind \in {"confirm", "login"}
      <4>1. /\ req[r].code.secret = row.secret /\ Fresh(row, req[r].code)
            /\ row'.enabled = TRUE /\ row'.secret = row.secret
            /\ row'.last = req[r].code.step
            /\ used' = used \cup {req[r].code} /\ req[r].code \in Code
        BY <1>0, <2>1, <3>1, <3>4, Committed DEF Decided
      <4>2. ASSUME NEW c \in used, c.secret = row.secret PROVE c.step <= req[r].code.step
        <5>0. raced = FALSE
          BY <3>1, <3>4
        <5>1. row.enabled = TRUE
          BY <1>0, <5>0, <4>2 DEF Inv, RowInv, Row
        <5>2. PICK d \in used : d.step = row.last
          BY <5>0, <5>1 DEF Inv, RowInv
        <5>3. row.last \in Counter /\ c.step \in Counter /\ req[r].code.step \in Counter
          BY <1>0, <4>1, <5>2 DEF Code
        <5>4. row.last \in Int /\ c.step \in Int /\ req[r].code.step \in Int
          BY <5>3, TwoFactorAssumption DEF Counter
        <5>5. c.step <= row.last
          BY <5>0, <4>2, <5>1 DEF Inv, RowInv
        <5>6. req[r].code.step > row.last
          BY <4>1, <5>4, TwoFactorAssumption DEF Fresh
        <5>7. QED
          BY <5>4, <5>5, <5>6
      <4>3. req[r].code.step <= req[r].code.step
        <5>1. req[r].code.step \in Counter
          BY <4>1 DEF Code
        <5>2. req[r].code.step \in Int
          BY <5>1, TwoFactorAssumption DEF Counter
        <5>3. QED
          BY <5>2
      <4>4. QED
        BY <4>1, <4>2, <4>3
    <3>5. QED
      BY <1>0, <2>1, <3>2, <3>3, <3>4 DEF Decided
  <2>5. QED
    BY <2>2, <2>3, <2>4 DEF RowInv
<1>7. QED
  BY <1>3, <1>5, <1>6 DEF Inv

-----------------------------------------------------------------------------
LEMMA Invariance == Spec => []Inv
<1>1. Inv /\ [Next]_vars => Inv'
  <2> SUFFICES ASSUME Inv, [Next]_vars PROVE Inv'
    OBVIOUS
  <2>1. CASE UNCHANGED <<row, generated, req, used, raced>> /\ now' \in 0..MaxStep
    BY <2>1 DEF Inv, TypeOK, Requests, RowInv, Coded, Decided, Snapshot, Private, Handed, Apart,
                Enrolling, Fresh
  <2>2. CASE UNCHANGED vars
    BY <2>1, <2>2 DEF vars, Inv, TypeOK
  <2>3. CASE Tick
    BY <2>1, <2>3, TwoFactorAssumption DEF Tick, Inv, TypeOK
  <2>4. ASSUME NEW r \in Req, Step(r) PROVE Inv'
    BY <2>4, BeginStep, EnrollStep, CheckStep, CommitStep, EndStep DEF Step, Abort
  <2>5. QED
    BY <2>2, <2>3, <2>4 DEF Next
<1>2. QED
  BY <1>1, InitInv, PTL DEF Spec

(***************************************************************************)
(* The state keeps its types: the counter among them, which only holds     *)
(* steps of codes that verify_counter can return.                          *)
(***************************************************************************)
THEOREM TypeCorrect == Spec => []TypeOK
  BY Invariance, PTL DEF Inv

(***************************************************************************)
(* While the second factor is enabled, possession of its secret was proved *)
(* and no accepted code lies after totp_last_counter (confirm_totp,        *)
(* _consume_totp), unless the row comes from overlapping writes.           *)
(***************************************************************************)
THEOREM Proven == Spec => []EnabledIsProven
<1>1. Inv => EnabledIsProven
  BY DEF Inv, TypeOK, Row, RowInv, EnabledIsProven
<1>2. QED
  BY <1>1, Invariance, PTL

(***************************************************************************)
(* A code that was used is accepted from no request that begins later, on  *)
(* any endpoint and across a new enrolment (_consume_totp), unless the row *)
(* that request reads comes from overlapping writes.                       *)
(***************************************************************************)
THEOREM CodesUsedOnce == Spec => SingleUse
<1> DEFINE Once == \A r \in Req : req'[r].pc = "decided" /\ req[r].pc # "decided"
                                    => ~req[r].replay
<1>1. ASSUME Inv, [Next]_vars PROVE Once
  <2> SUFFICES ASSUME NEW r \in Req, req'[r].pc = "decided", req[r].pc # "decided",
                      req[r].replay
               PROVE  FALSE
    BY <1>1 DEF Inv, TypeOK
  <2>0. req \in [Req -> Request] /\ req[r] \in Request
    BY <1>1 DEF Inv, TypeOK, Request
  <2>1. req' # req
    OBVIOUS
  <2>2. PICK q \in Req : Step(q)
    BY <1>1, <2>1 DEF Next, Tick, vars
  <2>3. Enroll(r) \/ Confirm(r) \/ Disable(r) \/ Login(r)
    <3>1. ~(End(q) /\ q = r)
      BY <2>0, IdleRequest DEF End
    <3>2. q = r
      <4>1. \E x : req' = [req EXCEPT ![q] = x]
        BY <2>2 DEF Step, Begin, Read, Enroll, Confirm, Disable, Login, Commit, Abort, End, Decide
      <4>2. QED
        BY <2>0, <4>1
    <3>3. ~Begin(q)
      BY <2>0, <3>2 DEF Begin, Read
    <3>4. QED
      BY <2>2, <3>1, <3>2, <3>3 DEF Step, Commit, Abort
  <2>4. Coded(req[r]) /\ Snapshot(req[r])
    BY <1>1 DEF Inv, Requests
  <2>5. req[r].replay = TRUE
    BY <2>0 DEF Request
  <2>6. ~Enroll(r)
    BY <2>4, <2>5 DEF Enroll, Coded
  <2>7. ~End(r)
    BY <2>0, IdleRequest DEF End
  <2>8. /\ ConsumeTotp(req[r].read, req[r].code) /\ req[r].pc = "read"
        /\ req[r].kind # "enroll"
    BY <2>3, <2>6, <2>7 DEF Confirm, Disable, Login
  <2>9. /\ req[r].read.last # None /\ req[r].code.step <= req[r].read.last
        /\ req[r].code.step > req[r].read.last
    BY <2>4, <2>5, <2>8 DEF Snapshot, ConsumeTotp, Matches, Fresh
  <2>10. req[r].code.step \in Int /\ req[r].read.last \in Int
    BY <2>0, <2>4, <2>8, <2>9, TwoFactorAssumption DEF Coded, Code, Counter, Request, Row
  <2>11. QED
    BY <2>9, <2>10
<1>2. QED
  BY <1>1, Invariance, PTL DEF Spec, SingleUse

(***************************************************************************)
(* A request that changes or removes an enabled second factor, and that    *)
(* read the row as it still is, carries a code of the secret in force, not *)
(* used before unless the row comes from overlapping writes                *)
(* (begin_totp_enrollment, disable_totp).  Nothing is said of a request    *)
(* that writes over a row which changed since it read it.                  *)
(***************************************************************************)
THEOREM SecondFactorHeld == Spec => SecondFactorKept
<1> DEFINE With(r) == /\ req[r].pc = "decided" /\ req'[r].pc = "idle"
                      /\ req[r].read = row => /\ req[r].code \in Code
                                              /\ req[r].code.secret = row.secret
                                              /\ raced \/ req[r].code \notin used
           Kept == row.enabled /\ (~row'.enabled \/ row'.secret # row.secret)
                     => \E r \in Req : With(r)
<1>1. ASSUME Inv, [Next]_vars PROVE Kept
  <2> SUFFICES ASSUME row.enabled, ~row'.enabled \/ row'.secret # row.secret
               PROVE  \E r \in Req : With(r)
    OBVIOUS
  <2>1. PICK r \in Req : Commit(r)
    BY <1>1 DEF Next, Step, Begin, Enroll, Confirm, Disable, Login, Abort, Tick, vars
  <2>2. req \in [Req -> Request] /\ req[r].pc = "decided" /\ row \in Row /\ used \subseteq Code
        /\ req[r].read \in Row /\ req[r].write \in Row
    BY <1>1, <2>1 DEF Inv, TypeOK, Request, Commit
  <2>3. req'[r].pc = "idle"
    BY <2>1, <2>2, IdleRequest DEF Commit, End
  <2>4. ASSUME req[r].read = row
        PROVE  /\ req[r].code \in Code /\ req[r].code.secret = row.secret
               /\ raced \/ req[r].code \notin used
    <3>1. row'.enabled = req[r].write.enabled /\ row'.secret = req[r].write.secret
      BY <2>1, <2>2, <2>4, ChangedRow DEF Commit
    <3>2. row.enabled = TRUE
      BY <2>2 DEF Row
    <3>3. Decided(req[r])
      BY <1>1 DEF Inv, Requests
    <3>4. /\ req[r].kind = "disable"
          /\ req[r].code.secret = row.secret /\ Fresh(row, req[r].code)
      BY <2>2, <2>4, <3>1, <3>2, <3>3 DEF Decided
    <3>5. req[r].code \in Code
      BY <1>1, <2>1, <3>4, Committed
    <3>6. ASSUME raced = FALSE, req[r].code \in used PROVE FALSE
      <4>1. PICK c \in used : c.step = row.last
        BY <1>1, <3>2, <3>6 DEF Inv, RowInv
      <4>2. row.last \in Counter /\ req[r].code.step \in Counter
        BY <2>2, <3>5, <4>1 DEF Code
      <4>3. row.last \in Int /\ req[r].code.step \in Int
        BY <4>2, TwoFactorAssumption DEF Counter
      <4>4. req[r].code.step <= row.last
        BY <1>1, <3>2, <3>4, <3>6 DEF Inv, RowInv
      <4>5. QED
        BY <3>4, <4>3, <4>4, TwoFactorAssumption DEF Fresh
    <3>7. raced \in BOOLEAN
      BY <1>1 DEF Inv, TypeOK
    <3>8. QED
      BY <3>4, <3>5, <3>6, <3>7
  <2>5. QED
    BY <2>2, <2>3, <2>4
<1>2. QED
  BY <1>1, Invariance, PTL DEF Spec, SecondFactorKept
=============================================================================
