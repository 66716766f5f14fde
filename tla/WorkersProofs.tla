---------------------------- MODULE WorkersProofs ----------------------------
(***************************************************************************)
(* Proofs about Workers for any users, accounts, audit rows and retention. *)
(***************************************************************************)
EXTENDS Workers, ArithmeticTheorems

Run == [pc : {"idle", "started", "users", "accounts", "alerts", "delete", "commit", "finally"},
        kind : Kind, users : SUBSET User, user : User \cup {Nobody},
        accounts : SUBSET Account, soft : BOOLEAN, elapsed : 0..1]

Shape ==
    /\ run \in Run
    /\ engine \in {"none", "mine", "stale"}
    /\ age \in [Row -> Int]

\* Between runs an engine is left by an interrupted reset_engine only.
LeftBehind == run.pc = "idle" /\ engine # "none" => cutShort

Inv == Shape /\ LeftBehind /\ EngineOfThisLoop

-----------------------------------------------------------------------------
LEMMA IdleRun == Idle \in Run /\ Idle.pc = "idle"
  BY DEF Idle, Run, Kind

LEMMA InitInv == Init => Inv
<1> SUFFICES ASSUME Init PROVE Inv
  OBVIOUS
<1>1. run = Idle /\ engine = "none" /\ age = [r \in Row |-> -1]
  BY DEF Init, Absent
<1>2. Shape
  BY <1>1, IdleRun DEF Shape
<1>3. QED
  BY <1>1, <1>2 DEF Inv, LeftBehind, EngineOfThisLoop

\* Everything a run does before its end leaves the engine and the flag alone,
\* but for Connect, which makes the engine when there is none.
LEMMA Working ==
    ASSUME Inv, run.pc # "idle", UNCHANGED cutShort, run' \in Run, run'.pc # "idle",
           engine' = engine \/ engine' = "mine", age' \in [Row -> Int]
    PROVE  Inv'
  BY DEF Inv, Shape, LeftBehind, EngineOfThisLoop

LEMMA Leaving ==
    ASSUME Inv, run' = Idle, engine' = "none" \/ (UNCHANGED engine /\ cutShort' = TRUE),
           UNCHANGED age
    PROVE  Inv'
  BY IdleRun DEF Inv, Shape, LeftBehind, EngineOfThisLoop

LEMMA ProgressStep ==
    ASSUME Inv, Progress
    PROVE  Inv'
<1> USE DEF portfolio
<1>0. run \in Run /\ age \in [Row -> Int]
  BY DEF Inv, Shape
<1>1. CASE Connect
  <2>1. run' \in Run /\ run'.pc # "idle"
    <3>1. CASE engine = "stale"
      BY <1>0, <1>1, <3>1 DEF Connect, Run
    <3>2. CASE engine # "stale" /\ run.kind = "sync"
      BY <1>0, <1>1, <3>2 DEF Connect, Run
    <3>3. CASE engine # "stale" /\ run.kind = "alerts"
      BY <1>0, <1>1, <3>3 DEF Connect, Run
    <3>4. CASE engine # "stale" /\ run.kind = "cleanup"
      BY <1>0, <1>1, <3>4 DEF Connect, Run
    <3>5. QED
      BY <1>0, <3>1, <3>2, <3>3, <3>4 DEF Run, Kind
  <2>2. QED
    BY <1>0, <1>1, <2>1, Working DEF Connect
<1>2. ASSUME NEW u \in User, NextUser(u) PROVE Inv'
  <2>1. run' \in Run /\ run'.pc # "idle"
    BY <1>0, <1>2 DEF NextUser, Run
  <2>2. QED
    BY <1>0, <1>2, <2>1, Working DEF NextUser
<1>3. ASSUME NEW a \in Account, FetchBalance(a) PROVE Inv'
  <2>1. run' = [run EXCEPT !.accounts = @ \ {a}] /\ run.pc = "accounts"
    BY <1>3 DEF FetchBalance, Drop
  <2>2. run' \in Run /\ run'.pc # "idle"
    BY <1>0, <2>1 DEF Run
  <2>3. QED
    BY <1>0, <1>3, <2>1, <2>2, Working DEF FetchBalance
<1>4. CASE UserDone \/ SyncDone \/ EvaluateAlerts \/ Delete
  <2>1. run' \in Run /\ run'.pc # "idle"
    BY <1>0, <1>4 DEF UserDone, SyncDone, EvaluateAlerts, Delete, Run
  <2>2. QED
    BY <1>0, <1>4, <2>1, Working DEF UserDone, SyncDone, EvaluateAlerts, Delete
<1>5. CASE CommitDelete
  <2>1. run' \in Run /\ run'.pc # "idle"
    BY <1>0, <1>5 DEF CommitDelete, Run
  <2>2. age' \in [Row -> Int]
    BY <1>0, <1>5 DEF CommitDelete, Absent
  <2>3. QED
    BY <1>5, <2>1, <2>2, Working DEF CommitDelete
<1>6. CASE Finish
  BY <1>6, Leaving DEF Finish
<1>7. QED
  BY <1>1, <1>2, <1>3, <1>4, <1>5, <1>6 DEF Progress

LEMMA InterruptionStep ==
    ASSUME Inv, Interruption
    PROVE  Inv'
<1>0. run \in Run /\ age \in [Row -> Int]
  BY DEF Inv, Shape
<1>1. CASE SoftLimit
  <2>1. UNCHANGED <<engine, age>> /\ run.pc # "idle"
    BY <1>1 DEF SoftLimit
  <2>2. CASE run' = Idle /\ cutShort' = TRUE
    BY <2>1, <2>2, Leaving
  <2>3. CASE run' = [run EXCEPT !.pc = "finally", !.soft = TRUE] /\ UNCHANGED cutShort
    <3>1. run' \in Run /\ run'.pc # "idle"
      BY <1>0, <2>3 DEF Run
    <3>2. QED
      BY <1>0, <2>1, <2>3, <3>1, Working
  <2>4. ASSUME NEW a \in run.accounts, UNCHANGED cutShort,
               run' = [run EXCEPT !.accounts = @ \ {a}, !.soft = TRUE]
        PROVE  Inv'
    <3>1. run' \in Run /\ run'.pc = run.pc
      BY <1>0, <2>4 DEF Run
    <3>2. QED
      BY <1>0, <2>1, <2>4, <3>1, Working
  <2>5. ASSUME NEW u \in run.users, UNCHANGED cutShort,
               run' = [run EXCEPT !.users = @ \ {u}, !.soft = TRUE]
        PROVE  Inv'
    <3>1. run' \in Run /\ run'.pc = run.pc
      BY <1>0, <2>5 DEF Run
    <3>2. QED
      BY <1>0, <2>1, <2>5, <3>1, Working
  <2>6. QED
    BY <1>1, <2>2, <2>3, <2>4, <2>5 DEF SoftLimit
<1>2. CASE HardLimit
  BY <1>2, Leaving DEF HardLimit
<1>3. CASE Crash
  BY <1>3, Leaving DEF Crash
<1>4. QED
  BY <1>1, <1>2, <1>3 DEF Interruption

LEMMA Invariance == Init /\ [][Next]_vars => []Inv
<1>1. Inv /\ [Next]_vars => Inv'
  <2> SUFFICES ASSUME Inv, [Next]_vars PROVE Inv'
    OBVIOUS
  <2>0. run \in Run /\ age \in [Row -> Int]
    BY DEF Inv, Shape
  <2>1. CASE UNCHANGED vars
    BY <2>1 DEF vars, Inv, Shape, LeftBehind, EngineOfThisLoop
  <2>2. ASSUME NEW k \in Kind, Beat(k) PROVE Inv'
    BY <2>2 DEF Beat, Inv, Shape, LeftBehind, EngineOfThisLoop
  <2>3. ASSUME NEW k \in Kind, Take(k) PROVE Inv'
    <3>1. run' \in Run /\ run'.pc = "started"
      BY <2>3, IdleRun DEF Take, Run
    <3>2. QED
      BY <2>3, <3>1 DEF Take, Inv, Shape, LeftBehind, EngineOfThisLoop
  <2>4. ASSUME NEW r \in Row, WriteRow(r) PROVE Inv'
    BY <2>0, <2>4 DEF WriteRow, Inv, Shape, LeftBehind, EngineOfThisLoop
  <2>5. CASE Tick
    <3>1. run' \in Run /\ run'.pc = run.pc
      BY <2>0, <2>5 DEF Tick, Run
    <3>2. age' \in [Row -> Int]
      BY <2>0, <2>5 DEF Tick
    <3>3. QED
      BY <2>5, <3>1, <3>2 DEF Tick, Inv, Shape, LeftBehind, EngineOfThisLoop
  <2>6. QED
    BY <2>1, <2>2, <2>3, <2>4, <2>5, ProgressStep, InterruptionStep DEF Next
<1>2. QED
  BY <1>1, InitInv, PTL

(***************************************************************************)
(* No run meets an engine of an earlier event loop, however the earlier    *)
(* runs ended (soft and hard time limits, crashes), unless reset_engine    *)
(* itself was interrupted (_run, reset_engine).                            *)
(***************************************************************************)
THEOREM EngineRebuilt == Spec => []EngineOfThisLoop
<1>1. Inv => EngineOfThisLoop
  BY DEF Inv
<1>2. QED
  BY <1>1, Invariance, PTL DEF Spec

-----------------------------------------------------------------------------
(***************************************************************************)
(* The portfolio sync.  What is in a user's total, which accounts were     *)
(* tried and which are still to come.                                      *)
(***************************************************************************)
Of(u, accounts) == {a \in accounts : Owner[a] = u}

Totals(accounts) == [u \in User |-> SumFunctionOnSet(Balance, Of(u, accounts))]

\* Every account is tried once: it is behind, ahead, or one of the user's whose
\* turn it is; and nobody is left out unless something failed.
Portfolio ==
    /\ session \in {"ok", "aborted"}
    /\ asked \subseteq Account /\ answered \subseteq asked
    /\ totals = Totals(answered)
    /\ run.pc = "started" => asked = {}
    /\ \A a \in asked : Owner[a] \notin run.users
    /\ run.pc = "accounts" =>
          /\ run.user \in User /\ run.user \notin run.users
          /\ \A a \in run.accounts : Owner[a] = run.user /\ a \notin asked
    /\ run.pc \in {"users", "accounts"} /\ session = "ok" /\ ~run.soft =>
          \A a \in Account : \/ a \in asked
                             \/ Owner[a] \in run.users
                             \/ run.pc = "accounts" /\ a \in run.accounts

\* Nothing is answered yet: every total is zero.
LEMMA NoTotals == Totals({}) = [u \in User |-> 0]
<1>1. \A u : Of(u, {}) = {}
  BY DEF Of
<1>2. QED
  BY <1>1, SumEmpty DEF Totals

\* One more account answers.
LEMMA OneMoreAnswer ==
  ASSUME NEW S \in SUBSET Account, NEW a \in Account, a \notin S
  PROVE  Totals(S \cup {a}) = [Totals(S) EXCEPT ![Owner[a]] = @ + Balance[a]]
<1> DEFINE u == Owner[a]
<1>1. u \in User /\ IsFiniteSet(Account) /\ \A b \in Account : Balance[b] \in Nat
  BY WorkersAssumption
<1>2. Of(u, S \cup {a}) = Of(u, S) \cup {a} /\ a \notin Of(u, S)
  BY DEF Of
<1>3. IsFiniteSet(Of(u, S))
  <2>1. Of(u, S) \in SUBSET Account
    BY DEF Of
  <2>2. QED
    BY <1>1, <2>1, FS_Subset
<1>4. SumFunctionOnSet(Balance, Of(u, S) \cup {a}) = Balance[a] + SumFunctionOnSet(Balance, Of(u, S))
  <2>1. \A b \in Of(u, S) \cup {a} : Balance[b] \in Int
    BY <1>1 DEF Of
  <2> HIDE DEF u
  <2>2. QED
    BY <1>2, <1>3, <2>1, SumAdd
<1>5. SumFunctionOnSet(Balance, Of(u, S)) \in Int
  <2>1. \A b \in Of(u, S) : Balance[b] \in Int
    BY <1>1 DEF Of
  <2>2. QED
    BY <1>3, <2>1, SumInt
<1>6. \A v \in User : v # u => Of(v, S \cup {a}) = Of(v, S)
  BY DEF Of
<1>7. Totals(S \cup {a})[u] = Totals(S)[u] + Balance[a]
  <2>1. Totals(S \cup {a})[u] = SumFunctionOnSet(Balance, Of(u, S \cup {a}))
    BY <1>1 DEF Totals
  <2>2. Totals(S)[u] = SumFunctionOnSet(Balance, Of(u, S))
    BY <1>1 DEF Totals
  <2>3. Balance[a] \in Int
    BY <1>1
  <2> HIDE DEF u
  <2>4. SumFunctionOnSet(Balance, Of(u, S \cup {a})) =
           Balance[a] + SumFunctionOnSet(Balance, Of(u, S))
    BY <1>2, <1>4, Zenon
  <2>5. QED
    BY <1>5, <2>1, <2>2, <2>3, <2>4
<1>8. \A v \in User : v # u => Totals(S \cup {a})[v] = Totals(S)[v]
  BY <1>6 DEF Totals
<1>9. /\ Totals(S \cup {a}) = [v \in User |-> Totals(S \cup {a})[v]]
      /\ Totals(S) = [v \in User |-> Totals(S)[v]]
  BY DEF Totals
<1> HIDE DEF u
<1>10. QED
  BY <1>1, <1>7, <1>8, <1>9 DEF u

\* A total is no more than all there is.
LEMMA TotalsBounded ==
  ASSUME NEW S \in SUBSET Account
  PROVE  Totals(S) \in [User -> 0..SumFunction(Balance)]
<1>1. IsFiniteSet(Account) /\ DOMAIN Balance = Account /\ \A a \in Account : Balance[a] \in Nat
  BY WorkersAssumption
<1>2. ASSUME NEW u \in User
      PROVE  SumFunctionOnSet(Balance, Of(u, S)) \in 0..SumFunction(Balance)
  <2>1. Of(u, S) \in SUBSET Account /\ Account \in SUBSET Account
    BY DEF Of
  <2>2. /\ SumFunctionOnSet(Balance, Of(u, S)) \in Nat
        /\ SumFunctionOnSet(Balance, Of(u, S)) <= SumFunctionOnSet(Balance, Account)
        /\ SumFunctionOnSet(Balance, Account) \in Nat
    BY <1>1, <2>1, SumMonotone
  <2>3. QED
    BY <1>1, <2>2 DEF SumFunction
<1>3. QED
  BY <1>2 DEF Totals

\* A run that is over, or never asked for balances, leaves them as they are.
LEMMA PortfolioLeft ==
  ASSUME Portfolio, run \in Run, UNCHANGED <<session, portfolio>>,
         run'.users \subseteq run.users, run'.pc \notin {"started", "users", "accounts"}
  PROVE  Portfolio'
BY DEF Portfolio, portfolio, Totals, Of

LEMMA PortfolioSame ==
  ASSUME Portfolio, UNCHANGED <<session, portfolio>>,
         run'.pc = run.pc, run'.users = run.users, run'.user = run.user,
         run'.accounts = run.accounts, run'.soft = run.soft
  PROVE  Portfolio'
BY DEF Portfolio, portfolio, Totals, Of

LEMMA PortfolioNextUser ==
  ASSUME Portfolio, run \in Run, NEW u \in User, NextUser(u) PROVE Portfolio'
<1>1. /\ UNCHANGED <<session, portfolio>> /\ run.pc = "users" /\ u \in run.users
      /\ run'.users = run.users \ {u} /\ run'.soft = run.soft
  BY DEF NextUser, Run
<1>2. CASE session = "ok"
  <2>1. run'.pc = "accounts" /\ run'.user = u /\ run'.accounts = {a \in Account : Owner[a] = u}
    BY <1>2 DEF NextUser, Run
  <2>2. QED
    BY <1>1, <1>2, <2>1 DEF Portfolio, portfolio, Totals, Of
<1>3. CASE session # "ok"
  <2>1. run'.pc = "users"
    BY <1>3 DEF NextUser, Run
  <2>2. QED
    BY <1>1, <1>3, <2>1 DEF Portfolio, portfolio, Totals, Of
<1>4. QED
  BY <1>2, <1>3

LEMMA PortfolioFetch ==
  ASSUME Portfolio, run \in Run, NEW a \in Account, FetchBalance(a) PROVE Portfolio'
<1>1. /\ run.pc = "accounts" /\ a \in run.accounts
      /\ run'.pc = "accounts" /\ run'.users = run.users /\ run'.user = run.user
      /\ run'.accounts = run.accounts \ {a} /\ run'.soft = run.soft
      /\ asked' = asked \cup {a}
      /\ session' = session \/ session' = "aborted"
  BY DEF FetchBalance, Drop, Run
<1>2. Owner[a] = run.user /\ a \notin asked /\ a \notin answered
  BY <1>1 DEF Portfolio
<1>3. totals' = Totals(answered')
  <2>1. CASE UNCHANGED <<totals, answered>>
    BY <2>1 DEF Portfolio, Totals, Of
  <2>2. CASE /\ totals' = [totals EXCEPT ![run.user] = @ + Balance[a]]
             /\ answered' = answered \cup {a}
    <3>1. answered \in SUBSET Account
      BY DEF Portfolio
    <3>2. Totals(answered \cup {a}) = [Totals(answered) EXCEPT ![Owner[a]] = @ + Balance[a]]
      BY <1>2, <3>1, OneMoreAnswer
    <3>3. QED
      BY <1>2, <2>2, <3>2 DEF Portfolio
  <2>3. QED
    BY <2>1, <2>2 DEF FetchBalance
<1>4. answered' \subseteq asked' /\ asked' \subseteq Account
  BY <1>1 DEF Portfolio, FetchBalance
<1>5. QED
  BY <1>1, <1>2, <1>3, <1>4 DEF Portfolio

LEMMA PortfolioProgress ==
  ASSUME Portfolio, Inv, Progress PROVE Portfolio'
<1>0. run \in Run
  BY DEF Inv, Shape
<1>1. CASE Connect
  <2>1. UNCHANGED <<session, portfolio>> /\ run.pc = "started"
    BY <1>1 DEF Connect
  <2>2. \/ run'.pc \in {"finally", "alerts", "delete"} /\ run'.users = run.users
        \/ run'.pc = "users" /\ run'.users = User
    BY <1>0, <1>1 DEF Connect, Run, Kind
  <2>3. CASE run'.pc \in {"finally", "alerts", "delete"} /\ run'.users = run.users
    BY <1>0, <2>1, <2>3, PortfolioLeft
  <2>4. CASE run'.pc = "users" /\ run'.users = User
    BY <2>1, <2>4, WorkersAssumption DEF Portfolio, portfolio, Totals, Of
  <2>5. QED
    BY <2>2, <2>3, <2>4
<1>2. CASE UserDone
  <2>1. /\ UNCHANGED <<session, portfolio>> /\ run.pc = "accounts" /\ run.accounts = {}
        /\ run'.pc = "users" /\ run'.users = run.users /\ run'.soft = run.soft
    BY <1>0, <1>2 DEF UserDone, Run
  <2>2. QED
    BY <2>1 DEF Portfolio, portfolio, Totals, Of
<1>3. CASE SyncDone \/ EvaluateAlerts \/ Delete \/ CommitDelete
  <2>1. /\ UNCHANGED <<session, portfolio>> /\ run'.users = run.users
        /\ run'.pc \in {"finally", "commit"}
    BY <1>0, <1>3 DEF SyncDone, EvaluateAlerts, Delete, CommitDelete, Run
  <2>2. QED
    BY <1>0, <2>1, PortfolioLeft
<1>4. CASE Finish
  <2>1. UNCHANGED <<session, portfolio>> /\ run'.users = {} /\ run'.pc = "idle"
    BY <1>4 DEF Finish, Idle
  <2>2. QED
    BY <1>0, <2>1, PortfolioLeft
<1>5. QED
  BY <1>0, <1>1, <1>2, <1>3, <1>4, PortfolioNextUser, PortfolioFetch DEF Progress

LEMMA PortfolioInterruption ==
  ASSUME Portfolio, Inv, Interruption PROVE Portfolio'
<1>0. run \in Run
  BY DEF Inv, Shape
<1>1. CASE HardLimit \/ Crash
  <2>1. UNCHANGED <<session, portfolio>> /\ run'.users = {} /\ run'.pc = "idle"
    BY <1>1 DEF HardLimit, Crash, Idle
  <2>2. QED
    BY <1>0, <2>1, PortfolioLeft
<1>2. CASE SoftLimit
  <2>1. UNCHANGED <<session, totals, answered>>
    BY <1>2 DEF SoftLimit
  <2>2. CASE run' = Idle /\ UNCHANGED asked
    <3>1. run'.users = {} /\ run'.pc = "idle"
      BY <2>2 DEF Idle
    <3>2. QED
      BY <1>0, <2>1, <2>2, <3>1, PortfolioLeft DEF portfolio
  <2>3. CASE run' = [run EXCEPT !.pc = "finally", !.soft = TRUE] /\ UNCHANGED asked
    <3>1. run'.users = run.users /\ run'.pc = "finally"
      BY <1>0, <2>3 DEF Run
    <3>2. QED
      BY <1>0, <2>1, <2>3, <3>1, PortfolioLeft DEF portfolio
  <2>4. ASSUME run.pc = "accounts", NEW a \in run.accounts, asked' = asked \cup {a},
               run' = [run EXCEPT !.accounts = @ \ {a}, !.soft = TRUE]
        PROVE  Portfolio'
    <3>1. /\ run'.pc = "accounts" /\ run'.users = run.users /\ run'.user = run.user
          /\ run'.accounts = run.accounts \ {a} /\ run'.soft = TRUE /\ a \in Account
      BY <1>0, <2>4 DEF Run
    <3>2. QED
      BY <2>1, <2>4, <3>1 DEF Portfolio, Totals, Of
  <2>5. ASSUME run.pc = "users", NEW u \in run.users, UNCHANGED asked,
               run' = [run EXCEPT !.users = @ \ {u}, !.soft = TRUE]
        PROVE  Portfolio'
    <3>1. run'.pc = "users" /\ run'.users = run.users \ {u} /\ run'.soft = TRUE
      BY <1>0, <2>5 DEF Run
    <3>2. QED
      BY <2>1, <2>5, <3>1 DEF Portfolio, Totals, Of
  <2>6. QED
    BY <1>2, <2>2, <2>3, <2>4, <2>5 DEF SoftLimit
<1>3. QED
  BY <1>1, <1>2 DEF Interruption

LEMMA PortfolioNext == Portfolio /\ Inv /\ [Next]_vars => Portfolio'
<1> SUFFICES ASSUME Portfolio, Inv, [Next]_vars PROVE Portfolio'
  OBVIOUS
<1>0. run \in Run
  BY DEF Inv, Shape
<1>1. CASE UNCHANGED vars
  BY <1>1, PortfolioSame DEF vars, portfolio
<1>2. ASSUME NEW k \in Kind, Beat(k) PROVE Portfolio'
  BY <1>2, PortfolioSame DEF Beat
<1>3. ASSUME NEW r \in Row, WriteRow(r) PROVE Portfolio'
  BY <1>3, PortfolioSame DEF WriteRow
<1>4. ASSUME NEW k \in Kind, Take(k) PROVE Portfolio'
  <2>1. /\ run'.pc = "started" /\ session' = "ok" /\ asked' = {} /\ answered' = {}
        /\ totals' = Totals({})
    BY <1>4, NoTotals DEF Take, Idle
  <2>2. QED
    BY <2>1 DEF Portfolio
<1>5. CASE Tick
  <2>1. /\ UNCHANGED <<session, portfolio>>
        /\ run'.pc = run.pc /\ run'.users = run.users /\ run'.user = run.user
        /\ run'.accounts = run.accounts /\ run'.soft = run.soft
    BY <1>0, <1>5 DEF Tick, Run
  <2>2. QED
    BY <2>1, PortfolioSame
<1>6. QED
  BY <1>1, <1>2, <1>3, <1>4, <1>5, PortfolioProgress, PortfolioInterruption DEF Next

-----------------------------------------------------------------------------
(***************************************************************************)
(* The queue and the audit rows.  A message stays in the queue until its   *)
(* run is over (task_acks_late).                                           *)
(***************************************************************************)
Messages ==
    /\ queue \in [Kind -> 0..MaxQueued]
    /\ run.pc # "idle" => queue[run.kind] > 0

Trail == age \in [Row -> Absent..MaxAge] /\ cutShort \in BOOLEAN

LEMMA MessagesKept ==
  ASSUME Messages, UNCHANGED queue, run'.pc = "idle" \/ (run.pc # "idle" /\ run'.kind = run.kind)
  PROVE  Messages'
BY DEF Messages

LEMMA MessageDone ==
  ASSUME Messages, run \in Run, run.pc # "idle", Acknowledge, run' = Idle
  PROVE  Messages'
<1>1. run.kind \in Kind /\ run'.pc = "idle" /\ MaxQueued \in Nat
  BY WorkersAssumption DEF Run, Idle
<1>2. queue[run.kind] \in 1..MaxQueued
  BY <1>1 DEF Messages
<1>3. QED
  BY <1>1, <1>2 DEF Messages, Acknowledge

LEMMA MessagesNext == Messages /\ Inv /\ [Next]_vars => Messages'
<1> SUFFICES ASSUME Messages, Inv, [Next]_vars PROVE Messages'
  OBVIOUS
<1>0. run \in Run /\ MaxQueued \in Nat
  BY WorkersAssumption DEF Inv, Shape
<1>1. CASE UNCHANGED vars
  BY <1>1 DEF vars, Messages
<1>2. ASSUME NEW k \in Kind, Beat(k) PROVE Messages'
  <2>1. run.kind \in Kind
    BY <1>0 DEF Run
  <2>2. QED
    BY <1>0, <1>2, <2>1 DEF Beat, Messages
<1>3. ASSUME NEW k \in Kind, Take(k) PROVE Messages'
  <2>1. run'.kind = k /\ queue' = queue /\ queue[k] > 0
    BY <1>3 DEF Take, Idle
  <2>2. QED
    BY <2>1 DEF Messages
<1>4. ASSUME NEW r \in Row, WriteRow(r) PROVE Messages'
  BY <1>4 DEF WriteRow, Messages
<1>5. CASE Tick
  <2>1. UNCHANGED queue /\ run'.pc = run.pc /\ run'.kind = run.kind
    BY <1>0, <1>5 DEF Tick, Run
  <2>2. QED
    BY <2>1 DEF Messages
<1>6. CASE Finish
  <2>1. run.pc # "idle" /\ Acknowledge /\ run' = Idle
    BY <1>6 DEF Finish
  <2>2. QED
    BY <1>0, <2>1, MessageDone
<1>7. CASE Progress /\ ~Finish
  <2>1. UNCHANGED queue /\ run.pc # "idle" /\ run'.kind = run.kind
    <3>1. CASE Connect
      <4>1. run.kind \in Kind
        BY <1>0 DEF Run
      <4>2. QED
        BY <1>0, <3>1, <4>1 DEF Connect, Run, Kind
    <3>2. ASSUME NEW u \in User, NextUser(u)
          PROVE  UNCHANGED queue /\ run.pc # "idle" /\ run'.kind = run.kind
      BY <1>0, <3>2 DEF NextUser, Run
    <3>3. ASSUME NEW a \in Account, FetchBalance(a)
          PROVE  UNCHANGED queue /\ run.pc # "idle" /\ run'.kind = run.kind
      BY <1>0, <3>3 DEF FetchBalance, Drop, Run
    <3>4. CASE UserDone \/ SyncDone \/ EvaluateAlerts \/ Delete \/ CommitDelete
      BY <1>0, <3>4 DEF UserDone, SyncDone, EvaluateAlerts, Delete, CommitDelete, Run
    <3>5. QED
      BY <1>7, <3>1, <3>2, <3>3, <3>4 DEF Progress
  <2>2. QED
    BY <2>1, MessagesKept
<1>8. CASE SoftLimit
  <2>1. \/ Acknowledge /\ run' = Idle /\ run.pc # "idle"
        \/ UNCHANGED queue /\ run'.kind = run.kind /\ run.pc # "idle"
    BY <1>0, <1>8 DEF SoftLimit, Run
  <2>2. QED
    BY <1>0, <2>1, MessageDone, MessagesKept
<1>9. CASE HardLimit
  BY <1>0, <1>9, MessageDone DEF HardLimit
<1>10. CASE Crash
  <2>1. run.pc # "idle" /\ run' = Idle /\ run'.pc = "idle" /\ (Acknowledge \/ UNCHANGED queue)
    BY <1>10 DEF Crash, Idle
  <2>2. QED
    BY <1>0, <2>1, MessageDone, MessagesKept
<1>11. QED
  BY <1>1, <1>2, <1>3, <1>4, <1>5, <1>6, <1>7, <1>8, <1>9, <1>10 DEF Next, Interruption

LEMMA TrailNext == Trail /\ Inv /\ [Next]_vars => Trail'
<1> SUFFICES ASSUME Trail, Inv, [Next]_vars PROVE Trail'
  OBVIOUS
<1>0. Absent = -1 /\ MaxAge \in Nat /\ MaxAge >= 2
  BY WorkersAssumption DEF Absent, MaxAge
<1>1. CASE UNCHANGED <<age, cutShort>>
  BY <1>1 DEF Trail
<1>2. CASE UNCHANGED age /\ cutShort' \in BOOLEAN
  BY <1>2 DEF Trail
<1>3. ASSUME NEW r \in Row, WriteRow(r) PROVE Trail'
  BY <1>0, <1>3 DEF WriteRow, Trail
<1>4. CASE CommitDelete
  BY <1>0, <1>4 DEF CommitDelete, Trail
<1>5. CASE Tick
  BY <1>0, <1>5 DEF Tick, Trail
<1>6. CASE Finish \/ SoftLimit
  <2>1. UNCHANGED age /\ cutShort' \in BOOLEAN
    BY <1>6 DEF Finish, SoftLimit, Trail
  <2>2. QED
    BY <1>2, <2>1
<1>7. QED
  BY <1>1, <1>2, <1>3, <1>4, <1>5, <1>6 DEF Next, vars, Beat, Take, Progress, Connect,
     NextUser, FetchBalance, UserDone, SyncDone, EvaluateAlerts, Delete,
     Interruption, HardLimit, Crash

LEMMA AllInvariant == Init /\ [][Next]_vars => [](Inv /\ Portfolio /\ Messages /\ Trail)
<1>1. Init => Portfolio
  BY NoTotals DEF Init, Portfolio, Idle
<1>2. Init => Messages /\ Trail
  <2> SUFFICES ASSUME Init PROVE Messages /\ Trail
    OBVIOUS
  <2>1. Messages
    BY WorkersAssumption DEF Init, Messages, Idle
  <2>2. age \in [Row -> Absent..MaxAge]
    BY WorkersAssumption DEF Init, Absent, MaxAge
  <2>3. cutShort \in BOOLEAN
    BY DEF Init
  <2>4. QED
    BY <2>1, <2>2, <2>3 DEF Trail
<1>3. QED
  BY <1>1, <1>2, Invariance, PortfolioNext, MessagesNext, TrailNext, PTL

(***************************************************************************)
(* The worker's state keeps its shape: in particular no message is         *)
(* acknowledged twice (task_acks_late), whatever limit or crash ends a     *)
(* run, and no user's total exceeds what all accounts hold.                *)
(***************************************************************************)
THEOREM WorkersTypeCorrect == Spec => []TypeOK
<1>1. Inv /\ Portfolio /\ Messages /\ Trail => TypeOK
  <2> SUFFICES ASSUME Inv, Portfolio, Messages, Trail PROVE TypeOK
    OBVIOUS
  <2>1. totals \in [User -> 0..SumFunction(Balance)]
    <3>1. answered \in SUBSET Account
      BY DEF Portfolio
    <3>2. QED
      BY <3>1, TotalsBounded DEF Portfolio
  <2>2. QED
    BY <2>1 DEF Inv, Shape, Run, Portfolio, Messages, Trail, TypeOK
<1>2. QED
  BY <1>1, AllInvariant, PTL DEF Spec

(***************************************************************************)
(* "one unhealthy exchange does not blank the whole portfolio": for any    *)
(* users and accounts, a sync that gets to its end tried every account,    *)
(* and each user's total is the sum of those that answered                 *)
(* (_sync_all_portfolios, aggregate_balances).                             *)
(***************************************************************************)
THEOREM SyncIsolatesFailures == Spec => []FailuresAreIsolated
<1>1. Inv /\ Portfolio => FailuresAreIsolated
  <2> SUFFICES ASSUME Inv, Portfolio, run.pc = "users", run.users = {}, session = "ok", ~run.soft
               PROVE  /\ asked = Account
                      /\ \A u \in User :
                            totals[u] = SumFunctionOnSet(Balance, {a \in answered : Owner[a] = u})
    BY DEF FailuresAreIsolated
  <2>1. asked = Account
    BY DEF Portfolio
  <2>2. \A u \in User : totals[u] = SumFunctionOnSet(Balance, Of(u, answered))
    BY DEF Portfolio, Totals
  <2>3. QED
    BY <2>1, <2>2 DEF Of
<1>2. QED
  BY <1>1, AllInvariant, PTL DEF Spec
=============================================================================
