--------------------------- MODULE SessionsProofs ----------------------------
(***************************************************************************)
(* Proofs about Sessions, for any number of tokens and requests and every  *)
(* lifetime.                                                               *)
(***************************************************************************)
EXTENDS Sessions, TLAPS

\* What a request holds.
Request == [pc : {"idle", "login", "decoded", "read", "unrevoked",
                  "revoked", "reuse", "logout"},
            token : Token \cup {NoToken},
            gen : 0..MaxGeneration, replay : BOOLEAN]

\* A request past its first step holds a token that was issued and presented.
Holds(r) ==
    /\ req[r].pc \in {"decoded", "read", "unrevoked", "revoked", "reuse", "logout"} =>
          req[r].token \in issued /\ req[r].token \in presented
    /\ req[r].pc \in {"idle", "login"} => req[r].token = NoToken /\ ~req[r].replay

\* A half second more in the store than needed, or one less.
Entries ==
    \A t \in spent : t \in issued /\ life[t] <= revocation[t] + 1

\* A request with a spent token still has the store to ask, or asked it in
\* the token's last second.
Replays(r) ==
    req[r].replay =>
        /\ req[r].pc \in {"decoded", "read"} => req[r].token \in spent
        /\ req[r].pc \in {"unrevoked", "revoked"} => life[req[r].token] < Second

Basic == TypeOK /\ \A r \in Req : Holds(r)

RotationInv == Entries /\ \A r \in Req : Replays(r)

\* Nobody is ahead of the counter, unless detections have set it back.
CounterInv ==
    ~slipped => /\ \A t \in issued : gen[t] <= generation
                /\ \A r \in Req : req[r].gen <= generation

\* While nothing is presented twice, a token is held by one request at most,
\* and only a request that is done with its token has revoked it.
LoyalInv ==
    /\ \A t \in Token : IsRevoked(t) => t \in presented
    /\ presented \subseteq issued
    /\ ~twice => /\ generation = 0
                 /\ \A r \in Req : req[r].pc # "reuse"
                 /\ \A r \in Req : req[r].pc \in {"decoded", "read", "unrevoked", "logout"} =>
                                      ~IsRevoked(req[r].token)
                 /\ \A r, q \in Req : r # q /\ req[r].token # NoToken =>
                                         req[q].token # req[r].token

-----------------------------------------------------------------------------
\* A request that a step is not about keeps its state, and End makes it idle.
LEMMA ReqFrame ==
    ASSUME TypeOK, NEW r \in Req, NEW q \in Req, q # r,
           \/ \E x : req' = [req EXCEPT ![r] = x]
           \/ \E pc : Goto(r, pc)
           \/ End(r)
           \/ req' = [req EXCEPT ![r].pc = "read", ![r].gen = generation]
    PROVE  req'[q] = req[q]
  BY DEF TypeOK, Goto, End

\* IssuePair, its effect spelled out.
LEMMA Issued ==
    ASSUME TypeOK, NEW g \in 0..MaxGeneration, IssuePair(g)
    PROVE  \E t \in Token \ issued :
              /\ issued' = issued \cup {t}
              /\ gen' \in [Token -> 0..MaxGeneration] /\ life' \in [Token -> 0..RefreshLife]
              /\ gen'[t] = g
              /\ \A u \in Token \ {t} : gen'[u] = gen[u] /\ life'[u] = life[u]
<1>1. PICK t \in Token \ issued : /\ issued' = issued \cup {t}
                                  /\ gen' = [gen EXCEPT ![t] = g]
                                  /\ life' = [life EXCEPT ![t] = RefreshLife]
  BY DEF IssuePair
<1>2. RefreshLife \in 0..RefreshLife
  BY SessionsAssumption
<1>3. QED
  BY <1>1, <1>2 DEF TypeOK

\* Revoke: the entry lasts as long as the token, less half a second at most.
LEMMA Revoked ==
    ASSUME TypeOK, NEW t \in Token, Revoke(t)
    PROVE  /\ revocation' \in [Token -> 0..RefreshLife]
           /\ life[t] <= revocation'[t] + 1
           /\ revocation'[t] > 0
           /\ \A u \in Token \ {t} : revocation'[u] = revocation[u]
           /\ spent' = spent \cup {t}
<1>1. life[t] \in 0..RefreshLife /\ RefreshLife \in Nat /\ RefreshLife >= 2
  BY SessionsAssumption DEF TypeOK, Second
<1>2. RemainingTtl(t) \in Nat /\ RemainingTtl(t) >= 1
      /\ 2 * RemainingTtl(t) + 1 >= life[t] /\ 2 * RemainingTtl(t) <= RefreshLife
  BY <1>1 DEF RemainingTtl, Second
<1>3. /\ revocation' = [revocation EXCEPT ![t] = 2 * RemainingTtl(t)]
      /\ spent' = spent \cup {t}
  BY DEF Revoke, Second
<1> HIDE DEF RemainingTtl
<1>4. QED
  BY <1>1, <1>2, <1>3 DEF TypeOK

-----------------------------------------------------------------------------
\* Requests keep their type, whichever field changes.
LEMMA RequestType ==
    ASSUME TypeOK, NEW r \in Req
    PROVE  /\ req \in [Req -> Request]
           /\ req[r].token \in Token \cup {NoToken} /\ req[r].gen \in 0..MaxGeneration
           /\ End(r) => req' \in [Req -> Request] /\ req'[r] = Idle
           /\ \A pc \in {"unrevoked", "revoked", "reuse"} : Goto(r, pc) =>
                 /\ req' \in [Req -> Request]
                 /\ req'[r].pc = pc /\ req'[r].token = req[r].token
                 /\ req'[r].gen = req[r].gen /\ req'[r].replay = req[r].replay
<1>1. req \in [Req -> Request]
  BY DEF TypeOK, Request
<1>2. Idle \in Request
  BY SessionsAssumption DEF Idle, Request
<1>3. req[r] \in Request
  BY <1>1
<1>4. req[r].token \in Token \cup {NoToken} /\ req[r].gen \in 0..MaxGeneration
  BY <1>3 DEF Request
<1>5. End(r) => req' \in [Req -> Request] /\ req'[r] = Idle
  BY <1>1, <1>2 DEF End
<1>6. ASSUME NEW pc \in {"unrevoked", "revoked", "reuse"}, Goto(r, pc)
      PROVE  /\ req' \in [Req -> Request]
             /\ req'[r].pc = pc /\ req'[r].token = req[r].token
             /\ req'[r].gen = req[r].gen /\ req'[r].replay = req[r].replay
  <2>1. [req[r] EXCEPT !.pc = pc] \in Request
    BY <1>3 DEF Request
  <2>2. req' = [req EXCEPT ![r] = [req[r] EXCEPT !.pc = pc]]
    BY <1>6, <1>1 DEF Goto
  <2>3. QED
    BY <1>1, <1>3, <2>1, <2>2 DEF Request
<1>7. QED
  BY <1>1, <1>4, <1>5, <1>6

\* The first step of a request, which replaces all of its state.
LEMMA RequestBegins ==
    ASSUME TypeOK, NEW r \in Req, NEW x \in Request, req' = [req EXCEPT ![r] = x]
    PROVE  req' \in [Req -> Request] /\ req'[r] = x
  BY DEF TypeOK, Request

Inv == Basic /\ RotationInv /\ CounterInv /\ LoyalInv

-----------------------------------------------------------------------------
\* A login reads the user.
LEMMA LoginReadStep ==
    ASSUME Inv, NEW r \in Req, LoginRead(r)
    PROVE  Inv'
<1> USE DEF Inv, Basic
<1> DEFINE x == [Idle EXCEPT !.pc = "login", !.gen = generation]
<1>1. /\ req' = [req EXCEPT ![r] = x]
      /\ UNCHANGED <<config, generation, tokens, revocation, ghosts>>
  BY DEF LoginRead
<1>2. x \in Request /\ x.pc = "login" /\ x.token = NoToken /\ x.gen = generation /\ ~x.replay
  BY SessionsAssumption DEF Idle, Request, TypeOK
<1> HIDE DEF x
<1>3. req' \in [Req -> Request] /\ req'[r] = x /\ \A q \in Req \ {r} : req'[q] = req[q]
  BY <1>1, <1>2, RequestBegins, RequestType
<1>4. TypeOK'
  BY <1>1, <1>3 DEF TypeOK, Request, config, tokens, ghosts
<1>5. \A q \in Req : Holds(q)'
  BY <1>1, <1>2, <1>3 DEF Holds, tokens, ghosts
<1>6. RotationInv'
  BY <1>1, <1>2, <1>3 DEF RotationInv, Entries, Replays, tokens, ghosts
<1>7. CounterInv'
  BY <1>1, <1>2, <1>3, <1>4 DEF CounterInv, tokens, ghosts, TypeOK
<1>8. LoyalInv'
  BY <1>1, <1>2, <1>3 DEF LoyalInv, IsRevoked, tokens, ghosts
<1>9. QED
  BY <1>4, <1>5, <1>6, <1>7, <1>8

\* A pair is issued at the generation the request has read.
LEMMA IssueStep ==
    ASSUME Inv, NEW r \in Req, IssuePair(req[r].gen), End(r),
           UNCHANGED <<config, generation, revocation, ghosts>>
    PROVE  Inv'
<1> USE DEF Inv, Basic
<1>1. /\ req' \in [Req -> Request] /\ req'[r] = Idle
      /\ \A q \in Req \ {r} : req'[q] = req[q]
      /\ req[r].gen \in 0..MaxGeneration
  BY RequestType, ReqFrame
<1>2. PICK t \in Token \ issued :
         /\ issued' = issued \cup {t}
         /\ gen' \in [Token -> 0..MaxGeneration] /\ life' \in [Token -> 0..RefreshLife]
         /\ gen'[t] = req[r].gen
         /\ \A u \in Token \ {t} : gen'[u] = gen[u] /\ life'[u] = life[u]
  BY <1>1, Issued
<1>3. Idle.pc = "idle" /\ Idle.token = NoToken /\ Idle.gen = 0 /\ ~Idle.replay
  BY DEF Idle
<1>4. issued \subseteq Token /\ t \notin spent /\ t \notin presented
  BY <1>2 DEF TypeOK, RotationInv, Entries, LoyalInv
<1>5. TypeOK'
  BY <1>1, <1>2 DEF TypeOK, Request, config, ghosts
<1>6. \A q \in Req : Holds(q)'
  BY <1>1, <1>2, <1>3 DEF Holds, ghosts
<1>7. RotationInv'
  BY <1>1, <1>2, <1>3, <1>4 DEF RotationInv, Entries, Replays, Holds, ghosts
<1>8. CounterInv'
  BY <1>1, <1>2, <1>3, <1>4, <1>5 DEF CounterInv, ghosts, TypeOK
<1>9. LoyalInv'
  BY <1>1, <1>2, <1>3 DEF LoyalInv, IsRevoked, ghosts
<1>10. QED
  BY <1>5, <1>6, <1>7, <1>8, <1>9

\* A token is presented, to be exchanged or to be revoked.
LEMMA PresentStep ==
    ASSUME Inv, NEW r \in Req, NEW t \in Token, NEW x \in Request,
           req[r].pc = "idle", t \in issued,
           req' = [req EXCEPT ![r] = x],
           x.pc \in {"decoded", "logout"}, x.token = t, x.gen = 0,
           x.replay => x.pc = "decoded" /\ t \in spent,
           Present(t),
           UNCHANGED <<config, generation, tokens, revocation, spent, slipped>>
    PROVE  Inv'
<1> USE DEF Inv, Basic
<1>1. req' \in [Req -> Request] /\ req'[r] = x /\ \A q \in Req \ {r} : req'[q] = req[q]
  BY RequestBegins, RequestType
<1>2. presented' = presented \cup {t}
  BY DEF Present
<1>3. twice' \in BOOLEAN
  BY Zenon DEF Present
<1>4. ~twice' => ~twice /\ t \notin presented
  BY Zenon DEF Present
<1>5. t # NoToken
  BY SessionsAssumption
<1>6. TypeOK'
  BY <1>1, <1>2, <1>3 DEF TypeOK, Request, config, tokens
<1>7. \A q \in Req : Holds(q)'
  BY <1>1, <1>2 DEF Holds, tokens
<1>8. RotationInv'
  BY <1>1 DEF RotationInv, Entries, Replays, tokens
<1>9. CounterInv'
  BY <1>1, <1>6 DEF CounterInv, tokens, TypeOK
<1>10. ~twice' => \A q \in Req : q # r => req[q].token # t
  BY <1>4, <1>5, RequestType DEF Holds, Request
<1>11. LoyalInv'
  BY <1>1, <1>2, <1>4, <1>5, <1>10 DEF LoyalInv, IsRevoked, tokens
<1>12. QED
  BY <1>6, <1>7, <1>8, <1>9, <1>11

\* A request ends without having done anything.
LEMMA EndStep ==
    ASSUME Inv, NEW r \in Req, End(r),
           UNCHANGED <<config, generation, tokens, revocation, ghosts>>
    PROVE  Inv'
<1> USE DEF Inv, Basic
<1>1. /\ req' \in [Req -> Request] /\ req'[r] = Idle
      /\ \A q \in Req \ {r} : req'[q] = req[q]
  BY RequestType, ReqFrame
<1>2. Idle.pc = "idle" /\ Idle.token = NoToken /\ Idle.gen = 0 /\ ~Idle.replay
  BY DEF Idle
<1>3. TypeOK'
  BY <1>1 DEF TypeOK, Request, config, tokens, ghosts
<1>4. \A q \in Req : Holds(q)'
  BY <1>1, <1>2 DEF Holds, tokens, ghosts
<1>5. RotationInv'
  BY <1>1, <1>2 DEF RotationInv, Entries, Replays, tokens, ghosts
<1>6. CounterInv'
  BY <1>1, <1>2, <1>3 DEF CounterInv, tokens, ghosts, TypeOK
<1>7. LoyalInv'
  BY <1>1, <1>2 DEF LoyalInv, IsRevoked, tokens, ghosts
<1>8. QED
  BY <1>3, <1>4, <1>5, <1>6, <1>7

\* refresh reads the user.
LEMMA RefreshReadStep ==
    ASSUME Inv, NEW r \in Req, RefreshRead(r)
    PROVE  Inv'
<1> USE DEF Inv, Basic
<1>1. CASE End(r)
  BY <1>1, EndStep DEF RefreshRead
<1>2. CASE req' = [req EXCEPT ![r].pc = "read", ![r].gen = generation]
  <2> DEFINE x == [req[r] EXCEPT !.pc = "read", !.gen = generation]
  <2>1. req[r] \in Request /\ generation \in 0..MaxGeneration
    BY RequestType DEF TypeOK
  <2>2. /\ x \in Request /\ x.pc = "read" /\ x.token = req[r].token
        /\ x.gen = generation /\ x.replay = req[r].replay
    BY <2>1 DEF Request
  <2>3. req' = [req EXCEPT ![r] = x]
    BY <1>2, RequestType
  <2> HIDE DEF x
  <2>4. req' \in [Req -> Request] /\ req'[r] = x /\ \A q \in Req \ {r} : req'[q] = req[q]
    BY <2>2, <2>3, RequestBegins, RequestType
  <2>5. req[r].pc = "decoded" /\ UNCHANGED <<config, generation, tokens, revocation, ghosts>>
    BY DEF RefreshRead
  <2>6. TypeOK'
    BY <2>4, <2>5 DEF TypeOK, Request, config, tokens, ghosts
  <2>7. \A q \in Req : Holds(q)'
    BY <2>2, <2>4, <2>5 DEF Holds, tokens, ghosts
  <2>8. RotationInv'
    BY <2>2, <2>4, <2>5 DEF RotationInv, Entries, Replays, tokens, ghosts
  <2>9. CounterInv'
    BY <2>2, <2>4, <2>5, <2>6 DEF CounterInv, tokens, ghosts, TypeOK
  <2>10. LoyalInv'
    BY <2>2, <2>4, <2>5 DEF LoyalInv, IsRevoked, tokens, ghosts
  <2>11. QED
    BY <2>6, <2>7, <2>8, <2>9, <2>10
<1>3. QED
  BY <1>1, <1>2 DEF RefreshRead

\* The store has answered and the request goes on: with Redis to the next
\* round trip, or to deal with a reuse.
LEMMA AnsweredStep ==
    ASSUME Inv, NEW r \in Req, NEW pc \in {"unrevoked", "reuse"}, Goto(r, pc),
           req[r].pc = "read", pc = "reuse" <=> IsRevoked(req[r].token),
           UNCHANGED <<config, generation, tokens, revocation, ghosts>>
    PROVE  Inv'
<1> USE DEF Inv, Basic
<1>1. /\ req' \in [Req -> Request]
      /\ req'[r].pc = pc /\ req'[r].token = req[r].token
      /\ req'[r].gen = req[r].gen /\ req'[r].replay = req[r].replay
      /\ \A q \in Req \ {r} : req'[q] = req[q]
  BY RequestType, ReqFrame
<1>2. req[r].token \in Token /\ req[r].token \in issued /\ req[r].token \in presented
  BY DEF Holds, TypeOK
<1>3. /\ pc = "unrevoked" /\ req[r].token \in spent => life[req[r].token] < Second
  BY <1>2 DEF RotationInv, Entries, IsRevoked, TypeOK, Second
<1>4. TypeOK'
  BY <1>1 DEF TypeOK, Request, config, tokens, ghosts
<1>5. \A q \in Req : Holds(q)'
  BY <1>1, <1>2 DEF Holds, tokens, ghosts
<1>6. RotationInv'
  BY <1>1, <1>3 DEF RotationInv, Entries, Replays, tokens, ghosts
<1>7. CounterInv'
  BY <1>1 DEF CounterInv, tokens, ghosts
<1>8. LoyalInv'
  BY <1>1 DEF LoyalInv, IsRevoked, tokens, ghosts
<1>9. QED
  BY <1>4, <1>5, <1>6, <1>7, <1>8

\* The token of a request is revoked, and the request moves on.
LEMMA RevokeStep ==
    ASSUME Inv, NEW r \in Req, req[r].pc \in {"unrevoked", "logout"},
           Revoke(req[r].token),
           (Goto(r, "revoked") /\ req[r].pc = "unrevoked") \/ End(r),
           UNCHANGED <<config, generation, tokens, presented, twice, slipped>>
    PROVE  Inv'
<1> USE DEF Inv, Basic
<1> DEFINE t == req[r].token
<1>1. /\ req' \in [Req -> Request]
      /\ \A q \in Req \ {r} : req'[q] = req[q]
  BY RequestType, ReqFrame
<1>2. t \in Token /\ t \in issued /\ t \in presented
  BY DEF Holds, TypeOK
<1>3. \/ /\ req[r].pc = "unrevoked" /\ req'[r].pc = "revoked" /\ req'[r].token = t
         /\ req'[r].gen = req[r].gen /\ req'[r].replay = req[r].replay
      \/ /\ req'[r].pc = "idle" /\ req'[r].token = NoToken
         /\ req'[r].gen = 0 /\ ~req'[r].replay
  BY RequestType DEF Idle
<1> HIDE DEF t
<1>4. /\ revocation' \in [Token -> 0..RefreshLife]
      /\ life[t] <= revocation'[t] + 1
      /\ revocation'[t] > 0
      /\ \A u \in Token \ {t} : revocation'[u] = revocation[u]
      /\ spent' = spent \cup {t}
  BY <1>2, Revoked DEF t
<1>5. TypeOK'
  BY <1>1, <1>2, <1>4 DEF TypeOK, Request, config, tokens
<1>6. \A q \in Req : Holds(q)'
  BY <1>1, <1>2, <1>3 DEF Holds, tokens
<1>7. RotationInv'
  BY <1>1, <1>2, <1>3, <1>4 DEF RotationInv, Entries, Replays, tokens, TypeOK, t
<1>8. CounterInv'
  BY <1>1, <1>3, <1>5 DEF CounterInv, tokens, TypeOK
<1>9. LoyalInv'
  <2>1. t # NoToken
    BY <1>2, SessionsAssumption
  <2>2. ~twice => \A q \in Req \ {r} : req[q].token # t
    BY <2>1 DEF LoyalInv, t
  <2>3. \A q \in Req : req[q].token \in Token \cup {NoToken}
    BY RequestType
  <2>4. \A q \in Req \ {r} : req[q].pc \in {"decoded", "read", "unrevoked", "logout"} =>
                                req[q].token \in Token
    BY DEF Holds, TypeOK
  <2>5. \A u \in Token : IsRevoked(u)' => u \in presented'
    BY <1>2, <1>4 DEF LoyalInv, IsRevoked
  <2>6. ~twice => \A q \in Req : req'[q].pc \in {"decoded", "read", "unrevoked", "logout"} =>
                                    ~(revocation'[req'[q].token] > 0)
    BY <1>1, <1>3, <1>4, <2>2, <2>4 DEF LoyalInv, IsRevoked
  <2>7. ~twice => \A p, q \in Req : p # q /\ req'[p].token # NoToken =>
                                       req'[q].token # req'[p].token
    BY <1>1, <1>3 DEF LoyalInv, t
  <2>8. ~twice => \A q \in Req : req'[q].pc # "reuse"
    BY <1>1, <1>3 DEF LoyalInv
  <2>9. QED
    BY <2>5, <2>6, <2>7, <2>8 DEF LoyalInv, IsRevoked, tokens
<1>10. QED
  BY <1>5, <1>6, <1>7, <1>8, <1>9

\* The in-memory store: asking, revoking and issuing are one step.
LEMMA ExchangeStep ==
    ASSUME Inv, NEW r \in Req, req[r].pc = "read",
           Revoke(req[r].token), IssuePair(req[r].gen), End(r),
           UNCHANGED <<config, generation, presented, twice, slipped>>
    PROVE  Inv'
<1> USE DEF Inv, Basic
<1> DEFINE t == req[r].token
<1>1. /\ req' \in [Req -> Request]
      /\ \A q \in Req \ {r} : req'[q] = req[q]
      /\ req[r].gen \in 0..MaxGeneration
  BY RequestType, ReqFrame
<1>2. t \in Token /\ t \in issued /\ t \in presented
  BY DEF Holds, TypeOK
<1>3. /\ req'[r].pc = "idle" /\ req'[r].token = NoToken
      /\ req'[r].gen = 0 /\ ~req'[r].replay
  BY RequestType DEF Idle
<1> HIDE DEF t
<1>4. /\ revocation' \in [Token -> 0..RefreshLife]
      /\ life[t] <= revocation'[t] + 1
      /\ revocation'[t] > 0
      /\ \A u \in Token \ {t} : revocation'[u] = revocation[u]
      /\ spent' = spent \cup {t}
  BY <1>2, Revoked DEF t
<1>5. PICK n \in Token \ issued :
         /\ issued' = issued \cup {n}
         /\ gen' \in [Token -> 0..MaxGeneration] /\ life' \in [Token -> 0..RefreshLife]
         /\ gen'[n] = req[r].gen
         /\ \A u \in Token \ {n} : gen'[u] = gen[u] /\ life'[u] = life[u]
  BY <1>1, Issued
<1>6. issued \subseteq Token /\ n # t /\ n \notin spent /\ n \notin presented
  BY <1>2, <1>5 DEF TypeOK, RotationInv, Entries, LoyalInv
<1>7. TypeOK'
  BY <1>1, <1>2, <1>4, <1>5 DEF TypeOK, Request, config
<1>8. \A q \in Req : Holds(q)'
  BY <1>1, <1>3, <1>5 DEF Holds
<1>9. RotationInv'
  <2>1. Entries'
    BY <1>2, <1>4, <1>5, <1>6 DEF RotationInv, Entries, TypeOK
  <2>2. ASSUME NEW q \in Req PROVE Replays(q)'
    BY <1>1, <1>3, <1>4, <1>5, <1>6 DEF RotationInv, Replays, Holds
  <2>3. QED
    BY <2>1, <2>2 DEF RotationInv
<1>10. CounterInv'
  BY <1>1, <1>3, <1>5, <1>6, <1>7 DEF CounterInv, TypeOK
<1>11. LoyalInv'
  <2>1. t # NoToken
    BY <1>2, SessionsAssumption
  <2>2. ~twice => \A q \in Req \ {r} : req[q].token # t
    BY <2>1 DEF LoyalInv, t
  <2>3. \A q \in Req \ {r} : req[q].pc \in {"decoded", "read", "unrevoked", "logout"} =>
                                req[q].token \in Token
    BY DEF Holds, TypeOK
  <2>4. \A u \in Token : IsRevoked(u)' => u \in presented'
    BY <1>2, <1>4 DEF LoyalInv, IsRevoked
  <2>5. ~twice => \A q \in Req : req'[q].pc \in {"decoded", "read", "unrevoked", "logout"} =>
                                    ~(revocation'[req'[q].token] > 0)
    BY <1>1, <1>3, <1>4, <2>2, <2>3 DEF LoyalInv, IsRevoked
  <2>6. ~twice => \A p, q \in Req : p # q /\ req'[p].token # NoToken =>
                                       req'[q].token # req'[p].token
    BY <1>1, <1>3 DEF LoyalInv
  <2>7. ~twice => \A q \in Req : req'[q].pc # "reuse"
    BY <1>1, <1>3 DEF LoyalInv
  <2>8. QED
    BY <1>5, <2>4, <2>5, <2>6, <2>7 DEF LoyalInv, IsRevoked
<1>12. QED
  BY <1>7, <1>8, <1>9, <1>10, <1>11

\* refresh asks the store.
LEMMA AskStoreStep ==
    ASSUME Inv, NEW r \in Req, AskStore(r)
    PROVE  Inv'
<1>1. req[r].pc = "read" /\ UNCHANGED <<config, generation, presented, twice, slipped>>
  BY DEF AskStore
<1>2. CASE IsRevoked(req[r].token) /\ Goto(r, "reuse") /\ UNCHANGED <<tokens, revocation, spent>>
  BY <1>1, <1>2, AnsweredStep DEF ghosts
<1>3. CASE End(r) /\ UNCHANGED <<tokens, revocation, spent>>
  BY <1>1, <1>3, EndStep DEF ghosts
<1>4. CASE Revoke(req[r].token) /\ IssuePair(req[r].gen) /\ End(r)
  BY <1>1, <1>4, ExchangeStep
<1>5. CASE /\ ~IsRevoked(req[r].token) /\ Goto(r, "unrevoked")
           /\ UNCHANGED <<tokens, revocation, spent>>
  BY <1>1, <1>5, AnsweredStep DEF ghosts
<1>6. QED
  BY <1>2, <1>3, <1>4, <1>5 DEF AskStore

\* A reuse is dealt with.
LEMMA InvalidateStep ==
    ASSUME Inv, NEW r \in Req, Invalidate(r)
    PROVE  Inv'
<1> USE DEF Inv, Basic
<1>1. /\ req' \in [Req -> Request] /\ req'[r] = Idle
      /\ \A q \in Req \ {r} : req'[q] = req[q]
      /\ req[r].gen \in 0..MaxGeneration
  BY RequestType, ReqFrame DEF Invalidate
<1>2. Idle.pc = "idle" /\ Idle.token = NoToken /\ Idle.gen = 0 /\ ~Idle.replay
  BY DEF Idle
<1>3. /\ req[r].pc = "reuse" /\ req[r].gen < MaxGeneration
      /\ generation' = req[r].gen + 1
      /\ UNCHANGED <<config, tokens, revocation, presented, twice, spent>>
  BY DEF Invalidate
<1>4. slipped' \in BOOLEAN
  BY Zenon DEF Invalidate
<1>5. ~slipped' => ~slipped /\ ~(req[r].gen + 1 < generation)
  BY Zenon DEF Invalidate
<1>6. TypeOK'
  BY <1>1, <1>3, <1>4, SessionsAssumption DEF TypeOK, Request, config, tokens
<1>7. \A q \in Req : Holds(q)'
  BY <1>1, <1>2, <1>3 DEF Holds, tokens
<1>8. RotationInv'
  BY <1>1, <1>2, <1>3 DEF RotationInv, Entries, Replays, tokens
<1>9. CounterInv'
  <2> SUFFICES ASSUME ~slipped'
               PROVE  /\ \A t \in issued : gen[t] <= generation'
                      /\ \A q \in Req : req'[q].gen <= generation'
    BY <1>3 DEF CounterInv, tokens
  <2>1. generation <= generation' /\ generation \in Nat /\ generation' \in Nat
    BY <1>1, <1>3, <1>5, SessionsAssumption DEF TypeOK
  <2>2. \A q \in Req : req[q].gen \in Nat
    BY RequestType, SessionsAssumption
  <2>3. \A t \in issued : gen[t] \in Nat /\ gen[t] <= generation
    BY <1>5, SessionsAssumption DEF CounterInv, TypeOK
  <2>4. QED
    BY <1>1, <1>2, <1>5, <2>1, <2>2, <2>3 DEF CounterInv
<1>10. LoyalInv'
  BY <1>1, <1>2, <1>3 DEF LoyalInv, IsRevoked, tokens
<1>11. QED
  BY <1>6, <1>7, <1>8, <1>9, <1>10

\* The process restarts.
LEMMA RestartStep ==
    ASSUME Inv, Restart
    PROVE  Inv'
<1> USE DEF Inv, Basic
<1>1. /\ req' = [r \in Req |-> Idle]
      /\ life' = IF secret = "ephemeral" THEN [t \in Token |-> 0] ELSE life
      /\ \/ revocation' = [t \in Token |-> 0] /\ spent' = {}
         \/ UNCHANGED <<revocation, spent>>
      /\ UNCHANGED <<config, generation, issued, gen, presented, twice, slipped>>
  BY DEF Restart
<1>2. Idle.pc = "idle" /\ Idle.token = NoToken /\ Idle.gen = 0 /\ ~Idle.replay
      /\ Idle \in Request
  BY SessionsAssumption DEF Idle, Request
<1>3. TypeOK'
  BY <1>1, <1>2, SessionsAssumption DEF TypeOK, Request, config
<1>4. \A q \in Req : Holds(q)'
  BY <1>1, <1>2 DEF Holds
<1>5. RotationInv'
  BY <1>1, <1>2 DEF RotationInv, Entries, Replays, TypeOK
<1>6. CounterInv'
  BY <1>1, <1>2, <1>3 DEF CounterInv, TypeOK
<1>7. LoyalInv'
  BY <1>1, <1>2 DEF LoyalInv, IsRevoked
<1>8. QED
  BY <1>3, <1>4, <1>5, <1>6, <1>7

\* Half a second passes.
LEMMA TickStep ==
    ASSUME Inv, Tick
    PROVE  Inv'
<1> USE DEF Inv, Basic
<1>1. /\ life' = Lower(life) /\ revocation' = Lower(revocation)
      /\ UNCHANGED <<config, generation, issued, gen, req, ghosts>>
  BY DEF Tick
<1>2. /\ life' \in [Token -> 0..RefreshLife] /\ revocation' \in [Token -> 0..RefreshLife]
      /\ \A t \in Token : /\ life[t] \in Nat /\ revocation[t] \in Nat
                          /\ life'[t] = IF life[t] > 0 THEN life[t] - 1 ELSE 0
                          /\ revocation'[t] = IF revocation[t] > 0 THEN revocation[t] - 1 ELSE 0
  BY <1>1, SessionsAssumption DEF Lower, TypeOK
<1>3. TypeOK'
  BY <1>1, <1>2 DEF TypeOK, config, ghosts
<1>4. \A q \in Req : Holds(q)'
  BY <1>1 DEF Holds, ghosts
<1>5. Entries'
  BY <1>1, <1>2 DEF RotationInv, Entries, ghosts, TypeOK
<1>6. ASSUME NEW q \in Req PROVE Replays(q)'
  <2>1. req[q].pc \in {"unrevoked", "revoked"} => req[q].token \in Token
    BY DEF Holds, TypeOK
  <2>2. QED
    BY <1>1, <1>2, <2>1 DEF RotationInv, Replays, ghosts, Second
<1>7. CounterInv'
  BY <1>1 DEF CounterInv, ghosts
<1>8. LoyalInv'
  <2>1. \A t \in Token : IsRevoked(t)' => IsRevoked(t)
    BY <1>2 DEF IsRevoked
  <2>2. \A q \in Req : req[q].pc \in {"decoded", "read", "unrevoked", "logout"} =>
                          req[q].token \in Token
    BY DEF Holds, TypeOK
  <2>3. \A q \in Req : req[q].pc \in {"decoded", "read", "unrevoked", "logout"}
                       /\ ~IsRevoked(req[q].token) => ~IsRevoked(req[q].token)'
    BY <1>1, <1>2, <2>2 DEF IsRevoked, ghosts
  <2>4. QED
    BY <1>1, <2>1, <2>3 DEF LoyalInv, ghosts
<1>9. QED
  BY <1>3, <1>4, <1>5, <1>6, <1>7, <1>8 DEF RotationInv

-----------------------------------------------------------------------------
LEMMA InitInv == Init => Inv
<1> SUFFICES ASSUME Init PROVE Inv
  OBVIOUS
<1>1. /\ generation = 0 /\ issued = {} /\ presented = {} /\ spent = {}
      /\ req = [r \in Req |-> Idle] /\ ~twice /\ ~slipped
      /\ gen = [t \in Token |-> 0] /\ life = [t \in Token |-> 0]
      /\ revocation = [t \in Token |-> 0]
      /\ backend \in {"memory", "redis"} /\ secret \in {"configured", "ephemeral"}
  BY DEF Init
<1>2. twice \in BOOLEAN /\ slipped \in BOOLEAN
  BY Zenon DEF Init
<1>3. Idle.pc = "idle" /\ Idle.token = NoToken /\ Idle.gen = 0 /\ ~Idle.replay
      /\ Idle \in Request
  BY SessionsAssumption DEF Idle, Request
<1>4. TypeOK
  BY <1>1, <1>2, <1>3, SessionsAssumption DEF TypeOK, Request
<1>5. \A r \in Req : Holds(r)
  BY <1>1, <1>3 DEF Holds
<1>6. RotationInv
  BY <1>1, <1>3 DEF RotationInv, Entries, Replays
<1>7. CounterInv
  BY <1>1, <1>3 DEF CounterInv
<1>8. LoyalInv
  BY <1>1, <1>3 DEF LoyalInv, IsRevoked
<1>9. QED
  BY <1>4, <1>5, <1>6, <1>7, <1>8 DEF Inv, Basic

LEMMA IdleRequest == Idle \in Request /\ Idle.gen = 0 /\ ~Idle.replay
<1>1. 0 \in 0..MaxGeneration
  BY SessionsAssumption
<1>2. QED
  BY <1>1 DEF Idle, Request

\* The steps of a request.
LEMMA StepInv ==
    ASSUME Inv, NEW r \in Req, Step(r)
    PROVE  Inv'
<1>1. CASE LoginRead(r)
  BY <1>1, LoginReadStep
<1>2. CASE LoginIssue(r)
  BY <1>2, IssueStep DEF LoginIssue
<1>3. ASSUME NEW t \in Token, RefreshDecode(r, t) PROVE Inv'
  <2> DEFINE x == [Idle EXCEPT !.pc = "decoded", !.token = t, !.replay = t \in spent]
  <2>2. /\ x \in Request /\ x.pc = "decoded" /\ x.token = t /\ x.gen = 0
        /\ x.replay => t \in spent
    <3>1. (t \in spent) = TRUE \/ (t \in spent) = FALSE
      OBVIOUS
    <3>2. PICK b \in BOOLEAN : b = (t \in spent)
      BY <3>1, Zenon
    <3>3. x = [Idle EXCEPT !.pc = "decoded", !.token = t, !.replay = b]
      BY <3>2, Zenon
    <3> DEFINE y == [Idle EXCEPT !.pc = "decoded", !.token = t, !.replay = b]
    <3>4. y \in Request
      BY IdleRequest DEF Request
    <3>5. y.pc = "decoded" /\ y.token = t /\ y.replay = b /\ y.gen = Idle.gen
      BY IdleRequest DEF Request
    <3>6. x = y
      BY <3>3, Zenon
    <3> HIDE DEF x, y
    <3>7. QED
      BY <3>2, <3>4, <3>5, <3>6, IdleRequest, Zenon
  <2>3. /\ req[r].pc = "idle" /\ t \in issued /\ req' = [req EXCEPT ![r] = x]
        /\ Present(t) /\ UNCHANGED <<config, generation, tokens, revocation, spent, slipped>>
    BY <1>3 DEF RefreshDecode
  <2> HIDE DEF x
  <2>4. QED
    BY <2>2, <2>3, PresentStep
<1>4. ASSUME NEW t \in Token, LogoutDecode(r, t) PROVE Inv'
  <2> DEFINE x == [Idle EXCEPT !.pc = "logout", !.token = t]
  <2>1. x \in Request /\ x.pc = "logout" /\ x.token = t /\ x.gen = 0 /\ ~x.replay
    <3>1. x \in Request
      BY IdleRequest DEF Request
    <3>2. x.pc = "logout" /\ x.token = t /\ x.replay = Idle.replay /\ x.gen = Idle.gen
      BY IdleRequest DEF Request
    <3> HIDE DEF x
    <3>3. QED
      BY <3>1, <3>2, IdleRequest, Zenon
  <2>2. /\ req[r].pc = "idle" /\ t \in issued /\ req' = [req EXCEPT ![r] = x]
        /\ Present(t) /\ UNCHANGED <<config, generation, tokens, revocation, spent, slipped>>
    BY <1>4 DEF LogoutDecode
  <2> HIDE DEF x
  <2>3. QED
    BY <2>1, <2>2, PresentStep
<1>5. CASE RefreshRead(r)
  BY <1>5, RefreshReadStep
<1>6. CASE AskStore(r)
  BY <1>6, AskStoreStep
<1>7. CASE RedisRevoke(r)
  BY <1>7, RevokeStep DEF RedisRevoke
<1>8. CASE RedisIssue(r)
  BY <1>8, IssueStep DEF RedisIssue
<1>9. CASE Invalidate(r)
  BY <1>9, InvalidateStep
<1>10. CASE LogoutRevoke(r)
  BY <1>10, RevokeStep DEF LogoutRevoke
<1>11. QED
  BY <1>1, <1>2, <1>3, <1>4, <1>5, <1>6, <1>7, <1>8, <1>9, <1>10 DEF Step

LEMMA Invariance == Spec => []Inv
<1>1. Inv /\ [Next]_vars => Inv'
  <2> SUFFICES ASSUME Inv, [Next]_vars PROVE Inv'
    OBVIOUS
  <2>1. CASE UNCHANGED vars
    BY <2>1 DEF vars, Inv, Basic, TypeOK, Holds, RotationInv, Entries, Replays, CounterInv,
                LoyalInv, IsRevoked
  <2>2. QED
    BY <2>1, StepInv, RestartStep, TickStep DEF Next
<1>2. QED
  BY <1>1, InitInv, PTL DEF Spec

(***************************************************************************)
(* The state keeps its types; among them, an entry in the revocation store *)
(* never outlives the longest token (revoke, _remaining_ttl).              *)
(***************************************************************************)
THEOREM TypeCorrect == Spec => []TypeOK
  BY Invariance, PTL DEF Inv, Basic

(***************************************************************************)
(* A client that presents no token twice keeps its sessions: no token it   *)
(* still has was revoked or outdated, however its requests overlap and     *)
(* whatever restarts (refresh, logout, _invalidate_sessions).              *)
(***************************************************************************)
THEOREM LoyalClientKept == Spec => []LoyalClientStaysIn
<1>1. Inv => LoyalClientStaysIn
  <2> SUFFICES ASSUME Inv, ~twice, NEW t \in issued \ presented
               PROVE  ~IsRevoked(t) /\ gen[t] >= generation
    BY DEF LoyalClientStaysIn
  <2>1. t \in Token /\ gen[t] \in 0..MaxGeneration
    BY DEF Inv, Basic, TypeOK
  <2>2. generation = 0 /\ ~IsRevoked(t)
    BY <2>1 DEF Inv, LoyalInv
  <2>3. QED
    BY <2>1, <2>2, SessionsAssumption
<1>2. QED
  BY <1>1, Invariance, PTL

(***************************************************************************)
(* A refresh that begins after its token was spent gets no pair, but in    *)
(* the token's last second (refresh, _remaining_ttl): the entry in the     *)
(* store lasts to within half a second of the token, and no step of        *)
(* another request takes it away.                                          *)
(***************************************************************************)
THEOREM ReplaysRefused == Spec => ReplayRefused
<1> DEFINE Refused == \A r \in Req : req[r].replay /\ req'[r] # req[r] /\ issued' # issued
                                       => life[req[r].token] < Second
<1>1. ASSUME Inv, [Next]_vars PROVE Refused
  <2> SUFFICES ASSUME NEW r \in Req, req[r].replay, req'[r] # req[r], issued' # issued
               PROVE  life[req[r].token] < Second
    OBVIOUS
  <2>1. PICK q \in Req : LoginIssue(q) \/ AskStore(q) \/ RedisIssue(q)
    BY <1>1 DEF Next, Step, vars, tokens, LoginRead, RefreshDecode, LogoutDecode, RefreshRead,
                RedisRevoke, Invalidate, LogoutRevoke, Restart, Tick
  <2>2. q = r
    <3>1. TypeOK
      BY <1>1 DEF Inv, Basic
    <3>2. End(q) \/ (\E pc : Goto(q, pc))
      BY <2>1 DEF LoginIssue, AskStore, RedisIssue
    <3>3. QED
      BY <3>1, <3>2, ReqFrame
  <2>3. req[r].pc # "login"
    BY <1>1 DEF Inv, Basic, Holds
  <2>4. CASE RedisIssue(r)
    BY <1>1, <2>4 DEF RedisIssue, Inv, RotationInv, Replays
  <2>5. CASE AskStore(r)
    <3>1. ~IsRevoked(req[r].token) /\ req[r].pc = "read"
      BY <2>5 DEF AskStore, tokens
    <3>2. req[r].token \in spent /\ req[r].token \in Token
      BY <1>1, <3>1 DEF Inv, Basic, RotationInv, Replays, Holds, TypeOK
    <3>3. QED
      BY <1>1, <3>1, <3>2 DEF Inv, Basic, RotationInv, Entries, IsRevoked, TypeOK, Second
  <2>6. QED
    BY <2>1, <2>2, <2>3, <2>4, <2>5 DEF LoginIssue
<1>2. QED
  BY <1>1, Invariance, PTL DEF Spec, ReplayRefused

(***************************************************************************)
(* Dealing with a reuse ends every session issued so far, those minted     *)
(* while it was being detected too (_invalidate_sessions), as long as the  *)
(* counter has not been set back by detections that overlapped.            *)
(***************************************************************************)
THEOREM ReuseDrops == Spec => ReuseDropsSessions
<1> DEFINE Dropped == \A r \in Req : Invalidate(r) /\ generation = req[r].gen /\ ~slipped
                                       => \A t \in issued : gen[t] < generation'
<1>1. ASSUME Inv PROVE Dropped
  BY <1>1, SessionsAssumption DEF Inv, Basic, TypeOK, CounterInv, Invalidate
<1>2. QED
  BY <1>1, Invariance, PTL DEF Spec, ReuseDropsSessions
=============================================================================
