------------------------------- MODULE Workers -------------------------------
(***************************************************************************)
(* A Celery worker process, its three periodic tasks (app/workers) and     *)
(* what they touch: the module-level database engine, the balances of the  *)
(* users' accounts (PortfolioService) and the audit log.                   *)
(*                                                                         *)
(* A task is run by asyncio.run, on a new event loop, and the engine works *)
(* on the loop it was made on only: "mine" is an engine of the present     *)
(* loop, "stale" one that an earlier loop left behind.  The soft time      *)
(* limit is raised into the task once, wherever it is; the hard limit and  *)
(* a crash take the process away.                                          *)
(***************************************************************************)
EXTENDS Integers, FiniteSets, Functions

CONSTANTS
    User,           \* the active users
    Account,
    Owner,          \* Owner[a]: the user of account a
    Paper,          \* accounts whose balance is read from the database
    Balance,        \* Balance[a]: what account a holds
    Row,            \* rows of the audit log
    Retention,      \* retention_days
    MaxQueued,      \* bound on the messages of a kind that pile up
    Nobody

ASSUME WorkersAssumption ==
    /\ IsFiniteSet(Account) /\ Owner \in [Account -> User]
    /\ Paper \subseteq Account
    /\ Balance \in [Account -> Nat]
    /\ Retention \in Nat /\ MaxQueued \in Nat \ {0}
    /\ Nobody \notin User

Kind == {"sync", "alerts", "cleanup"}
Absent == -1
MaxAge == Retention + 2     \* older makes no difference

VARIABLES
    queue,          \* messages of each kind, those being worked on included
    engine,         \* _engine: "none", "mine" or "stale"
    run,            \* the task being run
    session,        \* its database session: "ok", or "aborted" by an error
    totals,         \* aggregate_balances: each user's sum
    age,            \* of each audit row
    asked,          \* for the properties: accounts tried in this run
    answered,       \* those that answered
    cutShort        \* the last run's reset_engine was interrupted

vars == <<queue, engine, run, session, totals, age, asked, answered, cutShort>>
portfolio == <<totals, asked, answered>>

Idle == [pc |-> "idle", kind |-> "sync", users |-> {}, user |-> Nobody, accounts |-> {},
         soft |-> FALSE, elapsed |-> 0]

TypeOK ==
    /\ queue \in [Kind -> 0..MaxQueued]
    /\ engine \in {"none", "mine", "stale"}
    /\ run \in [pc : {"idle", "started", "users", "accounts", "alerts", "delete", "commit",
                      "finally"},
                kind : Kind, users : SUBSET User, user : User \cup {Nobody},
                accounts : SUBSET Account, soft : BOOLEAN, elapsed : 0..1]
    /\ session \in {"ok", "aborted"}
    /\ totals \in [User -> 0..SumFunction(Balance)]
    /\ age \in [Row -> Absent..MaxAge]
    /\ asked \subseteq Account
    /\ answered \subseteq asked
    /\ cutShort \in BOOLEAN

Init ==
    /\ queue = [k \in Kind |-> 0]
    /\ engine = "none"
    /\ run = Idle
    /\ session = "ok"
    /\ totals = [u \in User |-> 0]
    /\ age = [r \in Row |-> Absent]
    /\ asked = {}
    /\ answered = {}
    /\ cutShort = FALSE

-----------------------------------------------------------------------------
\* celery.conf.beat_schedule
Beat(k) ==
    /\ queue[k] < MaxQueued
    /\ queue' = [queue EXCEPT ![k] = @ + 1]
    /\ UNCHANGED <<engine, run, session, portfolio, age, cutShort>>

\* Mutant of Take: the message is acknowledged before and after the run.
TakeAcknowledges(k) ==
    /\ run.pc = "idle"
    /\ queue[k] > 0
    /\ run' = [Idle EXCEPT !.pc = "started", !.kind = k]
    /\ engine' = IF engine = "none" THEN "none" ELSE "stale"
    /\ session' = "ok"
    /\ totals' = [u \in User |-> 0]
    /\ asked' = {}
    /\ answered' = {}
    /\ queue' = [queue EXCEPT ![k] = @ - 1]
    /\ UNCHANGED <<age, cutShort>>

\* asyncio.run: a new loop; an engine that is still there belongs to an old
\* one.  The message is acknowledged at the end (task_acks_late).
Take(k) ==
    /\ run.pc = "idle"
    /\ queue[k] > 0
    /\ run' = [Idle EXCEPT !.pc = "started", !.kind = k]
    /\ engine' = IF engine = "none" THEN "none" ELSE "stale"
    /\ session' = "ok"
    /\ totals' = [u \in User |-> 0]
    /\ asked' = {}
    /\ answered' = {}
    /\ UNCHANGED <<queue, age, cutShort>>

\* get_sessionmaker and the first statement, which fails on a stale engine.
Connect ==
    /\ run.pc = "started"
    /\ IF engine = "stale"
       THEN /\ run' = [run EXCEPT !.pc = "finally"]
            /\ UNCHANGED engine
       ELSE /\ engine' = "mine"
            /\ run' = CASE run.kind = "sync" -> [run EXCEPT !.pc = "users", !.users = User]
                        [] run.kind = "alerts" -> [run EXCEPT !.pc = "alerts"]
                        [] run.kind = "cleanup" -> [run EXCEPT !.pc = "delete"]
    /\ UNCHANGED <<queue, session, portfolio, age, cutShort>>

-----------------------------------------------------------------------------
(***************************************************************************)
(* _sync_all_portfolios, aggregate_balances.  All users share one session: *)
(* once a statement has failed, every later one fails too.                 *)
(***************************************************************************)
NextUser(u) ==
    /\ run.pc = "users"
    /\ u \in run.users
    /\ run' = [run EXCEPT !.users = @ \ {u},
                          !.pc = IF session = "ok" THEN "accounts" ELSE "users",
                          !.user = IF session = "ok" THEN u ELSE Nobody,
                          !.accounts = {a \in Account : session = "ok" /\ Owner[a] = u}]
    /\ UNCHANGED <<queue, engine, session, portfolio, age, cutShort>>

\* Mutant of Drop: the first account that fails ends the user's turn.
DropUser(a) == run' = [run EXCEPT !.accounts = {}]

\* An account is done with, or its failure logged.
Drop(a) == run' = [run EXCEPT !.accounts = @ \ {a}]

FetchBalance(a) ==
    /\ run.pc = "accounts"
    /\ a \in run.accounts
    /\ asked' = asked \cup {a}
    /\ \/ /\ a \in Paper => session = "ok"
          /\ totals' = [totals EXCEPT ![run.user] = @ + Balance[a]]
          /\ answered' = answered \cup {a}
          /\ run' = [run EXCEPT !.accounts = @ \ {a}]
          /\ UNCHANGED session
       \/ \* the exchange, the credentials or the adapter fail
          /\ Drop(a)
          /\ UNCHANGED <<totals, answered, session>>
       \/ \* the database fails
          /\ a \in Paper
          /\ session' = "aborted"
          /\ Drop(a)
          /\ UNCHANGED <<totals, answered>>
    /\ UNCHANGED <<queue, engine, age, cutShort>>

UserDone ==
    /\ run.pc = "accounts"
    /\ run.accounts = {}
    /\ run' = [run EXCEPT !.pc = "users", !.user = Nobody]
    /\ UNCHANGED <<queue, engine, session, portfolio, age, cutShort>>

SyncDone ==
    /\ run.pc = "users"
    /\ run.users = {}
    /\ run' = [run EXCEPT !.pc = "finally"]
    /\ UNCHANGED <<queue, engine, session, portfolio, age, cutShort>>

\* _evaluate_alerts loads the active rules and does nothing with them yet.
EvaluateAlerts ==
    /\ run.pc = "alerts"
    /\ run' = [run EXCEPT !.pc = "finally"]
    /\ UNCHANGED <<queue, engine, session, portfolio, age, cutShort>>

-----------------------------------------------------------------------------
(***************************************************************************)
(* _cleanup_old_audit_logs: the cutoff is computed when the task starts.   *)
(***************************************************************************)
Expired(r) == age[r] > Retention + run.elapsed

Delete ==
    /\ run.pc = "delete"
    /\ run' = [run EXCEPT !.pc = "commit"]
    /\ UNCHANGED <<queue, engine, session, portfolio, age, cutShort>>

\* Mutant of CommitDelete: the session is closed without a commit.
CloseWithoutCommit ==
    /\ run.pc = "commit"
    /\ run' = [run EXCEPT !.pc = "finally"]
    /\ UNCHANGED <<queue, engine, session, portfolio, age, cutShort>>

\* What the DELETE matched is gone when it is committed, and back otherwise.
CommitDelete ==
    /\ run.pc = "commit"
    /\ age' = [r \in Row |-> IF Expired(r) THEN Absent ELSE age[r]]
    /\ run' = [run EXCEPT !.pc = "finally"]
    /\ UNCHANGED <<queue, engine, session, portfolio, cutShort>>

-----------------------------------------------------------------------------
Acknowledge == queue' = [queue EXCEPT ![run.kind] = @ - 1]

\* _run's finally: reset_engine, and the end of the task.
Finish ==
    /\ run.pc = "finally"
    /\ engine' = "none"
    /\ cutShort' = FALSE
    /\ Acknowledge
    /\ run' = Idle
    /\ UNCHANGED <<session, portfolio, age>>

\* Mutant of SoftLimit: the reset is not in a finally clause.
SoftLimitSkipsReset ==
    /\ run.pc # "idle"
    /\ ~run.soft
    /\ run' = Idle
    /\ Acknowledge
    /\ cutShort' = (run.pc = "finally")
    /\ UNCHANGED <<engine, session, portfolio, age>>

(***************************************************************************)
(* SoftTimeLimitExceeded.  Raised in the middle of reset_engine it leaves  *)
(* the engine where it is.  Elsewhere the finally clause runs, unless the  *)
(* handlers that isolate accounts and users from each other take it for    *)
(* one of their failures: the task goes on then.                           *)
(***************************************************************************)
SoftLimit ==
    /\ run.pc # "idle"
    /\ ~run.soft
    /\ \/ /\ run.pc = "finally"
          /\ run' = Idle
          /\ Acknowledge
          /\ cutShort' = TRUE
          /\ UNCHANGED asked
       \/ /\ run.pc # "finally"
          /\ run' = [run EXCEPT !.pc = "finally", !.soft = TRUE]
          /\ UNCHANGED <<queue, cutShort, asked>>
       \/ /\ run.pc = "accounts"
          /\ \E a \in run.accounts :
                /\ run' = [run EXCEPT !.accounts = @ \ {a}, !.soft = TRUE]
                /\ asked' = asked \cup {a}
          /\ UNCHANGED <<queue, cutShort>>
       \/ /\ run.pc = "users"
          /\ \E u \in run.users : run' = [run EXCEPT !.users = @ \ {u}, !.soft = TRUE]
          /\ UNCHANGED <<queue, cutShort, asked>>
    /\ UNCHANGED <<engine, session, totals, answered, age>>

\* task_time_limit: the process is killed, the message counts as failed.
HardLimit ==
    /\ run.pc # "idle"
    /\ run.soft
    /\ engine' = "none"
    /\ Acknowledge
    /\ run' = Idle
    /\ UNCHANGED <<session, portfolio, age, cutShort>>

\* The worker is lost, and its message delivered again; or the child process
\* alone, whose message counts as done (task_reject_on_worker_lost is not set).
Crash ==
    /\ run.pc # "idle"
    /\ engine' = "none"
    /\ run' = Idle
    /\ Acknowledge \/ UNCHANGED queue
    /\ UNCHANGED <<session, portfolio, age, cutShort>>

-----------------------------------------------------------------------------
\* AuditRepository.record, by some request of the API.
WriteRow(r) ==
    /\ age[r] = Absent
    /\ age' = [age EXCEPT ![r] = 0]
    /\ UNCHANGED <<queue, engine, run, session, portfolio, cutShort>>

\* A day; a task takes no two.
Tick ==
    /\ run.elapsed = 0
    /\ \E r \in Row : age[r] \in 0..(MaxAge - 1)
    /\ age' = [r \in Row |-> IF age[r] \in 0..(MaxAge - 1) THEN age[r] + 1 ELSE age[r]]
    /\ run' = IF run.pc = "idle" THEN run ELSE [run EXCEPT !.elapsed = 1]
    /\ UNCHANGED <<queue, engine, session, portfolio, cutShort>>

Progress ==
    \/ Connect
    \/ \E u \in User : NextUser(u)
    \/ \E a \in Account : FetchBalance(a)
    \/ UserDone \/ SyncDone
    \/ EvaluateAlerts
    \/ Delete \/ CommitDelete
    \/ Finish

Interruption == SoftLimit \/ HardLimit \/ Crash

Next ==
    \/ \E k \in Kind : Beat(k) \/ Take(k)
    \/ Progress
    \/ Interruption
    \/ \E r \in Row : WriteRow(r)
    \/ Tick

\* The schedule goes on, a worker takes the messages of a kind when there are
\* any (in turn: the queue is first in, first out), and a task gets on.
Spec ==
    /\ Init /\ [][Next]_vars
    /\ \A k \in Kind : WF_vars(Beat(k)) /\ SF_vars(Take(k))
    /\ WF_vars(Progress)
    /\ WF_vars(Tick)

-----------------------------------------------------------------------------
(***************************************************************************)
(* "We therefore dispose the engine at the end of each run so the next run *)
(* rebuilds it on its own loop": no run meets an engine of another loop,   *)
(* however earlier ones ended, save the one that follows an interrupted    *)
(* reset_engine; that run disposes of it.                                  *)
(***************************************************************************)
EngineOfThisLoop == run.pc # "idle" /\ engine = "stale" => cutShort

(***************************************************************************)
(* "one unhealthy exchange does not blank the whole portfolio", "one user  *)
(* must not fail the job": when the sync gets to its end, every account of *)
(* every user was tried and the totals are those of all that answered, as  *)
(* long as the database did not fail and the time limit was not reached.   *)
(***************************************************************************)
FailuresAreIsolated ==
    run.pc = "users" /\ run.users = {} /\ session = "ok" /\ ~run.soft
        => /\ asked = Account
           /\ \A u \in User :
                 totals[u] = SumFunctionOnSet(Balance, {a \in answered : Owner[a] = u})

(***************************************************************************)
(* The audit trail is not kept for longer than the retention period: once  *)
(* runs are not interrupted any more, rows past it are deleted, although   *)
(* crashes have lost messages and delivered others twice.  (A child lost   *)
(* after its last step, with its message counted as done, is no different  *)
(* from one that finished.)                                                *)
(***************************************************************************)
OldRowsGo ==
    (<>[][Interruption => Finish]_vars) => \A r \in Row : age[r] > Retention ~> age[r] = Absent
=============================================================================
