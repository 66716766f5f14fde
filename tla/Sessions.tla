------------------------------ MODULE Sessions ------------------------------
(***************************************************************************)
(* Refresh tokens of one user: login, refresh and logout of AuthService,   *)
(* the revocation store (app/security/token_store.py) and the column       *)
(* users.token_generation.  Tokens of different users share no state.      *)
(*                                                                         *)
(* A request awaits between reading the user and asking the store, so      *)
(* requests interleave there.  The in-memory store never suspends: asking  *)
(* it, marking the token and issuing the pair is one step.  With Redis     *)
(* each of them is a step of its own.                                      *)
(*                                                                         *)
(* Time is counted in half seconds because the revocation's lifetime is    *)
(* cut to whole seconds; `life` is what is left until a token's exp claim  *)
(* and `revocation` what is left of its entry in the store (0: no entry).  *)
(***************************************************************************)
EXTENDS Integers

CONSTANTS
    Token,          \* jti values, each issued once
    Req,            \* requests in flight
    RefreshLife,    \* jwt_refresh_ttl_days, in half seconds
    MaxGeneration,  \* bound on token_generation
    NoToken

Second == 2         \* steps of the clock in a second

ASSUME SessionsAssumption ==
    /\ RefreshLife \in Nat /\ RefreshLife >= Second
    /\ MaxGeneration \in Nat \ {0}
    /\ NoToken \notin Token

VARIABLES
    backend,        \* get_token_store: "memory" or "redis"
    secret,         \* get_token_service: "configured" or "ephemeral"
    generation,     \* users.token_generation, as committed
    issued,         \* the tokens handed out
    gen,            \* their gen claim
    life,           \* time left until their exp claim
    revocation,     \* time left of their entry in the store
    req,            \* what each request has read so far
    presented,      \* for the properties: the tokens presented so far
    twice,          \* some token was presented a second time
    spent,          \* exchanged or logged out since the store was last empty
    slipped         \* a detection overlapped others and set the counter back

tokens == <<issued, gen, life>>
ghosts == <<presented, twice, spent, slipped>>
config == <<backend, secret>>
vars == <<backend, secret, generation, issued, gen, life, revocation,
          req, presented, twice, spent, slipped>>

Idle == [pc |-> "idle", token |-> NoToken, gen |-> 0, replay |-> FALSE]

TypeOK ==
    /\ backend \in {"memory", "redis"}
    /\ secret \in {"configured", "ephemeral"}
    /\ generation \in 0..MaxGeneration
    /\ issued \subseteq Token
    /\ gen \in [Token -> 0..MaxGeneration]
    /\ life \in [Token -> 0..RefreshLife]
    /\ revocation \in [Token -> 0..RefreshLife]
    /\ req \in [Req -> [pc : {"idle", "login", "decoded", "read", "unrevoked",
                              "revoked", "reuse", "logout"},
                        token : Token \cup {NoToken},
                        gen : 0..MaxGeneration, replay : BOOLEAN]]
    /\ presented \subseteq Token
    /\ twice \in BOOLEAN
    /\ spent \subseteq Token
    /\ slipped \in BOOLEAN

Init ==
    /\ backend \in {"memory", "redis"}
    /\ secret \in {"configured", "ephemeral"}
    /\ generation = 0
    /\ issued = {}
    /\ gen = [t \in Token |-> 0]
    /\ life = [t \in Token |-> 0]
    /\ revocation = [t \in Token |-> 0]
    /\ req = [r \in Req |-> Idle]
    /\ presented = {}
    /\ twice = FALSE
    /\ spent = {}
    /\ slipped = FALSE

-----------------------------------------------------------------------------
Goto(r, pc) == req' = [req EXCEPT ![r].pc = pc]
End(r) == req' = [req EXCEPT ![r] = Idle]

\* issue_pair, its refresh token.  (exp is cut to a whole second, so that it
\* may be any number of half seconds away.)
IssuePair(g) ==
    \E t \in Token \ issued :
        /\ issued' = issued \cup {t}
        /\ gen' = [gen EXCEPT ![t] = g]
        /\ life' = [life EXCEPT ![t] = RefreshLife]

\* Mutant of RemainingTtl: the shortest entry the store takes.
RemainingTtlTooShort(t) == 1

\* _remaining_ttl, in whole seconds and at least one.
RemainingTtl(t) == IF life[t] \div Second > 1 THEN life[t] \div Second ELSE 1

\* Mutant of Revoke: the seconds are taken for half seconds.
RevokeTooLong(t) ==
    /\ revocation' = [revocation EXCEPT ![t] = 2 * life[t]]
    /\ spent' = spent \cup {t}

\* TokenStore.revoke, for the token's remaining life.
Revoke(t) ==
    /\ revocation' = [revocation EXCEPT ![t] = Second * RemainingTtl(t)]
    /\ spent' = spent \cup {t}

\* A client hands in a token.
Present(t) ==
    /\ presented' = presented \cup {t}
    /\ twice' = (twice \/ t \in presented)

\* TokenStore.is_revoked
IsRevoked(t) == revocation[t] > 0

-----------------------------------------------------------------------------
(***************************************************************************)
(* login: authenticate loads the user, and issues a pair at the generation *)
(* it loaded.  What happens between the two is in LoginPath (the password  *)
(* and the throttle) and TwoFactor (the second factor).                    *)
(***************************************************************************)
LoginRead(r) ==
    /\ req[r].pc = "idle"
    /\ req' = [req EXCEPT ![r] = [Idle EXCEPT !.pc = "login", !.gen = generation]]
    /\ UNCHANGED <<config, generation, tokens, revocation, ghosts>>

LoginIssue(r) ==
    /\ req[r].pc = "login"
    /\ IssuePair(req[r].gen)
    /\ End(r)
    /\ UNCHANGED <<config, generation, revocation, ghosts>>

-----------------------------------------------------------------------------
(***************************************************************************)
(* refresh.  decode refuses a token that has expired.                      *)
(***************************************************************************)
RefreshDecode(r, t) ==
    /\ req[r].pc = "idle"
    /\ t \in issued
    /\ life[t] > 0
    /\ req' = [req EXCEPT ![r] = [Idle EXCEPT !.pc = "decoded", !.token = t,
                                              !.replay = t \in spent]]
    /\ Present(t)
    /\ UNCHANGED <<config, generation, tokens, revocation, spent, slipped>>

\* The user is read.  Nothing in the application clears is_active, an
\* operator does: whether the user is still active is an input.
RefreshRead(r) ==
    /\ req[r].pc = "decoded"
    /\ \/ req' = [req EXCEPT ![r].pc = "read", ![r].gen = generation]
       \/ End(r)
    /\ UNCHANGED <<config, generation, tokens, revocation, ghosts>>

\* The session has been invalidated since the token was issued.
Outdated(r) == gen[req[r].token] < req[r].gen

\* is_revoked, then the generation; the in-memory store goes on at once.
AskStore(r) ==
    /\ req[r].pc = "read"
    /\ \/ /\ IsRevoked(req[r].token)
          /\ Goto(r, "reuse")
          /\ UNCHANGED <<tokens, revocation, spent>>
       \/ /\ ~IsRevoked(req[r].token)
          /\ Outdated(r)
          /\ End(r)
          /\ UNCHANGED <<tokens, revocation, spent>>
       \/ /\ ~IsRevoked(req[r].token)
          /\ ~Outdated(r)
          /\ IF backend = "memory"
             THEN /\ Revoke(req[r].token)
                  /\ IssuePair(req[r].gen)
                  /\ End(r)
             ELSE /\ Goto(r, "unrevoked")
                  /\ UNCHANGED <<tokens, revocation, spent>>
    /\ UNCHANGED <<config, generation, presented, twice, slipped>>

\* With Redis another request may have asked in the meantime.
RedisRevoke(r) ==
    /\ req[r].pc = "unrevoked"
    /\ Revoke(req[r].token)
    /\ Goto(r, "revoked")
    /\ UNCHANGED <<config, generation, tokens, presented, twice, slipped>>

RedisIssue(r) ==
    /\ req[r].pc = "revoked"
    /\ IssuePair(req[r].gen)
    /\ End(r)
    /\ UNCHANGED <<config, generation, revocation, ghosts>>

\* Mutant of Invalidate: the rejected request's transaction is rolled back.
InvalidateRolledBack(r) ==
    /\ req[r].pc = "reuse"
    /\ req[r].gen < MaxGeneration
    /\ End(r)
    /\ UNCHANGED <<config, generation, tokens, revocation, ghosts>>

\* _invalidate_sessions and _commit_security_event: the ORM writes the value
\* it read plus one, whatever the row holds by then.
Invalidate(r) ==
    /\ req[r].pc = "reuse"
    /\ req[r].gen < MaxGeneration
    /\ generation' = req[r].gen + 1
    /\ slipped' = (slipped \/ req[r].gen + 1 < generation)
    /\ End(r)
    /\ UNCHANGED <<config, tokens, revocation, presented, twice, spent>>

-----------------------------------------------------------------------------
\* logout: best effort, a token that does not decode is ignored.
LogoutDecode(r, t) ==
    /\ req[r].pc = "idle"
    /\ t \in issued
    /\ life[t] > 0
    /\ req' = [req EXCEPT ![r] = [Idle EXCEPT !.pc = "logout", !.token = t]]
    /\ Present(t)
    /\ UNCHANGED <<config, generation, tokens, revocation, spent, slipped>>

\* Mutant of LogoutRevoke: a logout ends the user's other sessions as well.
LogoutEverywhere(r) ==
    /\ req[r].pc = "logout"
    /\ Revoke(req[r].token)
    /\ generation' = IF generation < MaxGeneration THEN generation + 1 ELSE generation
    /\ End(r)
    /\ UNCHANGED <<config, tokens, presented, twice, slipped>>

LogoutRevoke(r) ==
    /\ req[r].pc = "logout"
    /\ Revoke(req[r].token)
    /\ End(r)
    /\ UNCHANGED <<config, generation, tokens, presented, twice, slipped>>

-----------------------------------------------------------------------------
\* The process restarts: requests are cut off where they are, the in-memory
\* store is empty, and tokens signed with an ephemeral secret are void.
Restart ==
    /\ req' = [r \in Req |-> Idle]
    /\ life' = IF secret = "ephemeral" THEN [t \in Token |-> 0] ELSE life
    /\ IF backend = "memory"
       THEN /\ revocation' = [t \in Token |-> 0]
            /\ spent' = {}
       ELSE UNCHANGED <<revocation, spent>>
    /\ UNCHANGED <<config, generation, issued, gen, presented, twice, slipped>>

Lower(timer) == [t \in Token |-> IF timer[t] > 0 THEN timer[t] - 1 ELSE 0]

Tick ==
    /\ \E t \in Token : life[t] > 0 \/ revocation[t] > 0
    /\ life' = Lower(life)
    /\ revocation' = Lower(revocation)
    /\ UNCHANGED <<config, generation, issued, gen, req, ghosts>>

Step(r) ==
    \/ LoginRead(r) \/ LoginIssue(r)
    \/ \E t \in Token : RefreshDecode(r, t) \/ LogoutDecode(r, t)
    \/ RefreshRead(r) \/ AskStore(r) \/ RedisRevoke(r) \/ RedisIssue(r)
    \/ Invalidate(r) \/ LogoutRevoke(r)

Next ==
    \/ \E r \in Req : Step(r)
    \/ Restart
    \/ Tick

Spec == Init /\ [][Next]_vars

-----------------------------------------------------------------------------
(***************************************************************************)
(* Refresh tokens are one-time-use: a refresh that begins after another    *)
(* request has exchanged or logged out its token gets no pair, on either   *)
(* store and however requests interleave.  Two exceptions are left: the    *)
(* last second of the token's life, which the entry in the store may miss, *)
(* and an in-memory store that lost its entries in a restart.              *)
(***************************************************************************)
ReplayRefused ==
    [][\A r \in Req :
          req[r].replay /\ req'[r] # req[r] /\ issued' # issued
            => life[req[r].token] < Second]_vars

(***************************************************************************)
(* A second use drops "every session for the user", "including the pair    *)
(* the thief just minted": once it is dealt with, every token issued so    *)
(* far is refused, those issued while it was being dealt with too.         *)
(* (Unless another detection did the same in between, or detections that   *)
(* overlapped have set the counter back.)                                  *)
(***************************************************************************)
ReuseDropsSessions ==
    [][\A r \in Req :
          Invalidate(r) /\ generation = req[r].gen /\ ~slipped
            => \A t \in issued : gen[t] < generation']_vars

(***************************************************************************)
(* A client that presents no token twice is never thrown out: the tokens   *)
(* it still has can be exchanged.                                          *)
(***************************************************************************)
LoyalClientStaysIn ==
    ~twice => \A t \in issued \ presented : ~IsRevoked(t) /\ gen[t] >= generation
=============================================================================
