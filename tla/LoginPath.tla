------------------------------ MODULE LoginPath ------------------------------
(***************************************************************************)
(* A login on its way: the rate limiter's middleware, which resolves the   *)
(* client's address, and AuthService.authenticate on one identity, which   *)
(* asks the login throttle, verifies the password and the second factor    *)
(* and tells the throttle.  Attempts overlap: the lock is asked before the *)
(* password is verified, and its result recorded after.                    *)
(***************************************************************************)
EXTENDS ClientAddress, RateLimiter, LoginThrottle, FiniteSets

CONSTANT Attempt    \* requests in flight at a time

ASSUME AttemptAssumption == IsFiniteSet(Attempt)

VARIABLES
    attempt,        \* where each request is
    admitted,       \* for the properties: ages of the requests let through, by origin
    wrong           \* ages of the wrong guesses recorded since the last success

vars == <<hits, sinceSweep, backend, failures, decay, lock, attempt, admitted, wrong>>

Caller == Origin \cup {Unknown}

TypeOK ==
    /\ LimiterTypeOK(Caller)
    /\ ThrottleTypeOK
    /\ attempt \in [Attempt -> {"idle", "arrived", "verifying", "counted"}]
    /\ \A o \in Caller : \A i \in DOMAIN admitted[o] : admitted[o][i] \in 0..Window
    /\ \A i \in DOMAIN wrong : wrong[i] \in 0..(Lockout - 1)

Init ==
    /\ LimiterInit
    /\ ThrottleInit
    /\ attempt = [a \in Attempt |-> "idle"]
    /\ admitted = [o \in Caller |-> <<>>]
    /\ wrong = <<>>

Goto(a, pc) == attempt' = [attempt EXCEPT ![a] = pc]
End(a) == Goto(a, "idle")

-----------------------------------------------------------------------------
\* dispatch: the client's bucket.
Client(route) ==
    LET ip == ResolveClientIp(route.peer, route.forwarded)
    IN  IF ip = NoAddress THEN Unknown ELSE ip

ClientsOf(o) == {Client(route) : route \in RoutesFrom(o)}

\* A login, or some other request, gets through.  (Exempt paths pass too and
\* leave no trace.)
Arrive(a, o, c) ==
    /\ attempt[a] = "idle"
    /\ Admit(c)
    /\ admitted' = [admitted EXCEPT ![o] = Append(@, 0)]
    /\ Goto(a, "arrived") \/ UNCHANGED attempt
    /\ UNCHANGED <<backend, throttle, wrong>>

TurnAway(c) ==
    /\ Refuse(c)
    /\ UNCHANGED <<backend, throttle, attempt, admitted, wrong>>

-----------------------------------------------------------------------------
\* authenticate: AccountLockedError, or on to the user and the password.
Reject(a) ==
    /\ attempt[a] = "arrived"
    /\ LockedOut
    /\ End(a)
    /\ UNCHANGED <<limiter, admitted, wrong>>

Proceed(a) ==
    /\ attempt[a] = "arrived"
    /\ PassLock
    /\ Goto(a, "verifying")
    /\ UNCHANGED <<limiter, admitted, wrong>>

\* No such user, a wrong password, a disabled account, a wrong second factor.
Fail(a) ==
    /\ attempt[a] = "verifying"
    /\ \/ /\ MemoryFailure
          /\ End(a)
          /\ wrong' = Append(wrong, 0)
       \/ /\ RedisCount
          /\ IF Counted >= MaxAttempts
             THEN Goto(a, "counted") /\ UNCHANGED wrong
             ELSE End(a) /\ wrong' = Append(wrong, 0)
    /\ UNCHANGED <<limiter, admitted>>

SetLock(a) ==
    /\ attempt[a] = "counted"
    /\ RedisLock
    /\ End(a)
    /\ wrong' = Append(wrong, 0)
    /\ UNCHANGED <<limiter, admitted>>

\* The password is right and the code is missing: TwoFactorRequiredError.
AskForCode(a) ==
    /\ attempt[a] = "verifying"
    /\ End(a)
    /\ UNCHANGED <<limiter, backend, throttle, admitted, wrong>>

Succeed(a) ==
    /\ attempt[a] = "verifying"
    /\ RecordSuccess
    /\ End(a)
    /\ wrong' = <<>>
    /\ UNCHANGED <<limiter, admitted>>

-----------------------------------------------------------------------------
Restart ==
    /\ LimiterRestart
    /\ ThrottleRestart
    /\ attempt' = [a \in Attempt |-> "idle"]
    /\ admitted' = [o \in Caller |-> <<>>]
    /\ wrong' = IF backend = "memory" THEN <<>> ELSE wrong

AgeWithin(ages, bound) == PopPast([i \in DOMAIN ages |-> ages[i] + 1], bound)

Tick ==
    /\ LimiterTick
    /\ ThrottleTick
    /\ admitted' = [o \in Caller |-> AgeWithin(admitted[o], Window)]
    /\ wrong' = AgeWithin(wrong, Lockout - 1)
    /\ UNCHANGED attempt

Next ==
    \/ \E o \in Caller : \E c \in ClientsOf(o) :
          TurnAway(c) \/ \E a \in Attempt : Arrive(a, o, c)
    \/ \E a \in Attempt : Reject(a) \/ Proceed(a) \/ Fail(a) \/ SetLock(a)
                              \/ AskForCode(a) \/ Succeed(a)
    \/ Restart
    \/ Tick

\* Time passes.
Spec == Init /\ [][Next]_vars /\ WF_vars(Tick)

-----------------------------------------------------------------------------
(***************************************************************************)
(* Each client has its own quota, whatever header it makes up and whatever *)
(* proxies it comes through (resolve_client_ip, dispatch, _maybe_sweep):   *)
(* no more than `limit` of its requests are let through in any window, and *)
(* what counts against it is what it was let through.                      *)
(***************************************************************************)
OwnQuota ==
    \A o \in Caller :
        /\ Len(admitted[o]) <= Limit
        /\ InWindow(Bucket(o)) = admitted[o]

(***************************************************************************)
(* Guessing at one identity is limited on both backends, also when the     *)
(* guesses overlap, come from many addresses or the process crashes while  *)
(* one is recorded: in the length of a lockout no more than max_attempts   *)
(* wrong guesses are answered, and one for each further attempt that was   *)
(* already past the lock check.                                            *)
(***************************************************************************)
GuessesBounded == Len(wrong) <= MaxAttempts - 1 + Cardinality(Attempt)

(***************************************************************************)
(* A lockout ends, although the client goes on trying: is_locked counts    *)
(* no attempt it turns away.                                               *)
(***************************************************************************)
LockoutEnds == []<>~IsLocked
=============================================================================
