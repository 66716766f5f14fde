---------------------------- MODULE LoginThrottle ----------------------------
(***************************************************************************)
(* The login throttle of one identity (app/security/throttle.py), on       *)
(* either backend.  No method of the in-memory one awaits anything: each   *)
(* is one step.  The Redis one counts a failure and sets the lock in two.  *)
(*                                                                         *)
(* locked_until is only compared with the clock, and is set exactly when   *)
(* `failures` has reached max_attempts: `lock` is the time left of it.     *)
(***************************************************************************)
EXTENDS Integers

CONSTANTS
    MaxAttempts,    \* login_max_attempts
    Lockout,        \* login_lockout_seconds
    MaxFailures     \* bound on the counter

ASSUME ThrottleAssumption ==
    /\ MaxAttempts \in Nat \ {0}
    /\ Lockout \in Nat \ {0}
    /\ MaxFailures \in Nat /\ MaxFailures > MaxAttempts

VARIABLES
    backend,        \* get_login_throttle: "memory" or "redis"
    failures,       \* _Entry.failures, or the key login_fail:...
    decay,          \* time left of that key; the in-memory counter has none
    lock            \* time left of locked_until, or of the key login_lock:...

throttle == <<failures, decay, lock>>

ThrottleTypeOK ==
    /\ backend \in {"memory", "redis"}
    /\ failures \in 0..MaxFailures
    /\ decay \in 0..Lockout
    /\ lock \in 0..Lockout
    /\ backend = "redis" => (failures > 0 <=> decay > 0)

ThrottleInit ==
    /\ backend \in {"memory", "redis"}
    /\ failures = 0
    /\ decay = 0
    /\ lock = 0

IsLocked == lock > 0

Counted == IF failures < MaxFailures THEN failures + 1 ELSE failures

\* is_locked, where it answers no: in memory it clears a lock that has expired.
PassLock ==
    /\ ~IsLocked
    /\ failures' = IF backend = "memory" /\ failures >= MaxAttempts THEN 0 ELSE failures
    /\ UNCHANGED <<backend, decay, lock>>

\* Mutant of LockedOut: an attempt while locked out starts the lockout anew.
LockedOutExtends ==
    /\ IsLocked
    /\ lock' = Lockout
    /\ UNCHANGED <<backend, failures, decay>>

\* is_locked, where it answers yes, and retry_after.
LockedOut ==
    /\ IsLocked
    /\ UNCHANGED <<backend, throttle>>

\* InMemoryLoginThrottle.record_failure
MemoryFailure ==
    /\ backend = "memory"
    /\ failures' = Counted
    /\ lock' = IF failures' >= MaxAttempts THEN Lockout ELSE lock
    /\ UNCHANGED <<backend, decay>>

\* Mutant of RedisCount: the counter is left without an expiry.
RedisCountForever ==
    /\ backend = "redis"
    /\ failures' = Counted
    /\ UNCHANGED <<backend, decay, lock>>

\* RedisLoginThrottle.record_failure: INCR and EXPIRE in one pipeline.
RedisCount ==
    /\ backend = "redis"
    /\ failures' = Counted
    /\ decay' = Lockout
    /\ UNCHANGED <<backend, lock>>

\* Mutant of RedisLock: the lock is set for the time the counter has left.
RedisLockShort ==
    /\ lock' = decay
    /\ UNCHANGED <<backend, failures, decay>>

\* and SET, when the count it was told has reached max_attempts.
RedisLock ==
    /\ lock' = Lockout
    /\ UNCHANGED <<backend, failures, decay>>

\* record_success, on either backend.
RecordSuccess ==
    /\ failures' = 0
    /\ decay' = 0
    /\ lock' = 0
    /\ UNCHANGED backend

Less(timer) == IF timer > 0 THEN timer - 1 ELSE 0

ThrottleTick ==
    /\ decay' = Less(decay)
    /\ lock' = Less(lock)
    /\ failures' = IF decay = 1 THEN 0 ELSE failures
    /\ UNCHANGED backend

\* The process's memory is lost, Redis is not.
ThrottleRestart ==
    IF backend = "memory"
    THEN RecordSuccess
    ELSE UNCHANGED <<backend, throttle>>
=============================================================================
