----------------------------- MODULE RateLimiter -----------------------------
(***************************************************************************)
(* InMemoryRateLimiter (app/api/middleware.py): a deque of hits per        *)
(* client.  dispatch does not await before it has decided, so a decision   *)
(* is one step.  Hits are kept as ages, which stop counting once they are  *)
(* out of the window; so does the time since the last sweep.               *)
(***************************************************************************)
EXTENDS Integers, Sequences, SequencesExt

CONSTANTS
    Limit,          \* limit_per_minute
    Window          \* _window

ASSUME LimiterAssumption == Limit \in Nat \ {0} /\ Window \in Nat \ {0}

VARIABLES
    hits,           \* _hits: client -> ages of its hits, the oldest first
    sinceSweep      \* the age of _last_sweep

limiter == <<hits, sinceSweep>>

LimiterTypeOK(clients) ==
    /\ DOMAIN hits \subseteq clients
    /\ \A c \in DOMAIN hits :
          Len(hits[c]) \in 1..Limit /\ \A i \in DOMAIN hits[c] : hits[c][i] \in 0..(Window + 1)
    /\ sinceSweep \in 0..Window

LimiterInit ==
    /\ hits = <<>>
    /\ sinceSweep \in {0, Window}

Bucket(c) == IF c \in DOMAIN hits THEN hits[c] ELSE <<>>

\* popleft, while the oldest is past the bound.
PopPast(ages, bound) ==
    SubSeq(ages, Min({i \in DOMAIN ages : ages[i] <= bound} \cup {Len(ages) + 1}), Len(ages))

InWindow(ages) == PopPast(ages, Window)

Overwrite(table, c, ages) ==
    [d \in DOMAIN table \cup {c} |-> IF d = c THEN ages ELSE table[d]]

\* Mutant of Sweep: a bucket goes by its oldest hit.
SweepByOldest(table) ==
    [c \in {d \in DOMAIN table : table[d] # <<>> /\ Head(table[d]) <= Window} |-> table[c]]

\* _maybe_sweep, where it is due: drops the buckets that are out of the window.
Sweep(table) ==
    [c \in {d \in DOMAIN table : table[d] # <<>> /\ Last(table[d]) <= Window} |-> table[c]]

Admit(c) ==
    LET bucket == Append(InWindow(Bucket(c)), 0)
        table == Overwrite(hits, c, bucket)
    IN  /\ Len(InWindow(Bucket(c))) < Limit
        /\ IF sinceSweep < Window
           THEN hits' = table /\ UNCHANGED sinceSweep
           ELSE hits' = Sweep(table) /\ sinceSweep' = 0

\* RateLimitError; what has left the window is dropped here too.
Refuse(c) ==
    /\ Len(InWindow(Bucket(c))) >= Limit
    /\ hits' = Overwrite(hits, c, InWindow(Bucket(c)))
    /\ UNCHANGED sinceSweep

Older(ages) == [i \in DOMAIN ages |-> IF ages[i] <= Window THEN ages[i] + 1 ELSE ages[i]]

LimiterTick ==
    /\ hits' = [c \in DOMAIN hits |-> Older(hits[c])]
    /\ sinceSweep' = IF sinceSweep < Window THEN sinceSweep + 1 ELSE sinceSweep

LimiterRestart ==
    /\ hits' = <<>>
    /\ sinceSweep' \in {0, Window}
=============================================================================
