------------------------------ MODULE TwoFactor ------------------------------
(***************************************************************************)
(* The second factor of one user: enrolment, confirmation, removal and     *)
(* login with a code (AuthService, app/security/totp.py) on the columns    *)
(* totp_enabled, totp_secret_enc and totp_last_counter of the user's row.  *)
(*                                                                         *)
(* A request reads the row, decides, and commits later; nothing locks the  *)
(* row, and the ORM writes the columns whose value the request changed.    *)
(* A code is the secret and the time step it was generated for (two steps  *)
(* whose six digits coincide are left out).                                *)
(***************************************************************************)
EXTENDS Integers

CONSTANTS
    Req,            \* requests in flight
    Secret,         \* secrets generate_secret may return, each once
    ValidWindow,    \* valid_window
    MaxStep,        \* bound on the clock, in TOTP intervals
    None

Counter == (0 - ValidWindow)..(MaxStep + ValidWindow)
Code == [secret : Secret, step : Counter]

ASSUME TwoFactorAssumption ==
    /\ ValidWindow \in Nat
    /\ MaxStep \in Nat
    /\ None \notin Secret /\ None \notin Int /\ None \notin Code

VARIABLES
    row,            \* the columns, as committed
    now,            \* the time step
    generated,      \* secrets handed out
    req,            \* each request: its step, what it read, what it will write
    used,           \* for the properties: the codes accepted and committed
    raced           \* the row comes from a write over one that changed meanwhile

vars == <<row, now, generated, req, used, raced>>

Row == [enabled : BOOLEAN, secret : Secret \cup {None}, last : Counter \cup {None}]

NoRow == [enabled |-> FALSE, secret |-> None, last |-> None]
Idle == [pc |-> "idle", kind |-> None, code |-> None, read |-> NoRow,
         write |-> NoRow, replay |-> FALSE]

TypeOK ==
    /\ row \in Row
    /\ now \in 0..MaxStep
    /\ generated \subseteq Secret
    /\ req \in [Req -> [pc : {"idle", "read", "decided"},
                        kind : {"login", "enroll", "confirm", "disable", None},
                        code : Code \cup {None},
                        read : Row, write : Row, replay : BOOLEAN]]
    /\ used \subseteq Code
    /\ raced \in BOOLEAN

Init ==
    /\ row = NoRow
    /\ now = 0
    /\ generated = {}
    /\ req = [r \in Req |-> Idle]
    /\ used = {}
    /\ raced = FALSE

-----------------------------------------------------------------------------
\* Codes a client may have: of a secret it was given, for about this time.
AtHand == {c \in Code : c.secret \in generated /\ c.step \in (now - ValidWindow - 1)..(now + ValidWindow + 1)}

\* verify_counter, where it finds a match.
Matches(secret, code) ==
    /\ code.secret = secret
    /\ code.step \in (now - ValidWindow)..(now + ValidWindow)

\* Mutant of Fresh: the last accepted step itself still passes.
FreshOrLast(read, code) == read.last = None \/ code.step >= read.last

\* The step lies after the last one that was accepted.
Fresh(read, code) == read.last = None \/ code.step > read.last

\* _consume_totp, where it does not raise.
ConsumeTotp(read, code) == Matches(read.secret, code) /\ Fresh(read, code)

Read(r, kind, code) ==
    req' = [req EXCEPT ![r] = [pc |-> "read", kind |-> kind, code |-> code, read |-> row,
                               write |-> row, replay |-> code \in used /\ ~raced]]

End(r) == req' = [req EXCEPT ![r] = Idle]

Decide(r, write) == req' = [req EXCEPT ![r].pc = "decided", ![r].write = write]

-----------------------------------------------------------------------------
(***************************************************************************)
(* The requests begin: each loads the user.  A login of a user without a   *)
(* second factor, or without a code, touches none of this.                 *)
(***************************************************************************)
Begin(r) ==
    /\ req[r].pc = "idle"
    /\ \/ Read(r, "enroll", None)
       \/ \E kind \in {"login", "confirm", "disable"}, code \in AtHand : Read(r, kind, code)
    /\ UNCHANGED <<row, now, generated, used, raced>>

\* begin_totp_enrollment: a conflict while the second factor is enabled.
Enroll(r) ==
    /\ req[r].pc = "read" /\ req[r].kind = "enroll"
    /\ IF req[r].read.enabled
       THEN End(r) /\ UNCHANGED generated
       ELSE \E s \in Secret \ generated :
                /\ Decide(r, [req[r].read EXCEPT !.secret = s])
                /\ generated' = generated \cup {s}
    /\ UNCHANGED <<row, now, used, raced>>

\* Mutant of Confirm: a pending secret is enough.
ConfirmUnproven(r) ==
    /\ req[r].pc = "read" /\ req[r].kind = "confirm"
    /\ IF req[r].read.secret # None
       THEN Decide(r, [req[r].read EXCEPT !.enabled = TRUE])
       ELSE End(r)
    /\ UNCHANGED <<row, now, generated, used, raced>>

\* confirm_totp; it may be called again once enabled.
Confirm(r) ==
    /\ req[r].pc = "read" /\ req[r].kind = "confirm"
    /\ IF req[r].read.secret # None /\ ConsumeTotp(req[r].read, req[r].code)
       THEN Decide(r, [req[r].read EXCEPT !.enabled = TRUE, !.last = req[r].code.step])
       ELSE End(r)
    /\ UNCHANGED <<row, now, generated, used, raced>>

\* Mutant of Disable: the code is not compared with the user's own secret.
DisableAnySecret(r) ==
    /\ req[r].pc = "read" /\ req[r].kind = "disable"
    /\ IF req[r].read.enabled /\ Fresh(req[r].read, req[r].code)
       THEN Decide(r, NoRow)
       ELSE End(r)
    /\ UNCHANGED <<row, now, generated, used, raced>>

\* disable_totp
Disable(r) ==
    /\ req[r].pc = "read" /\ req[r].kind = "disable"
    /\ IF /\ req[r].read.enabled
          /\ req[r].read.secret # None
          /\ ConsumeTotp(req[r].read, req[r].code)
       THEN Decide(r, NoRow)
       ELSE End(r)
    /\ UNCHANGED <<row, now, generated, used, raced>>

\* authenticate, its second factor.  (A user without one gets in without.)
Login(r) ==
    /\ req[r].pc = "read" /\ req[r].kind = "login"
    /\ IF req[r].read.enabled /\ ConsumeTotp(req[r].read, req[r].code)
       THEN Decide(r, [req[r].read EXCEPT !.last = req[r].code.step])
       ELSE End(r)
    /\ UNCHANGED <<row, now, generated, used, raced>>

-----------------------------------------------------------------------------
\* The columns a request has changed are written, the others left alone.
Changed(old, new, current) ==
    [enabled |-> IF new.enabled # old.enabled THEN new.enabled ELSE current.enabled,
     secret |-> IF new.secret # old.secret THEN new.secret ELSE current.secret,
     last |-> IF new.last # old.last THEN new.last ELSE current.last]

\* get_session: the unit of work commits when the handler has returned.  An
\* enrolment or a removal that nothing overlapped makes a new start.
Commit(r) ==
    /\ req[r].pc = "decided"
    /\ row' = Changed(req[r].read, req[r].write, row)
    /\ used' = IF req[r].kind = "enroll" THEN used ELSE used \cup {req[r].code}
    /\ raced' = \/ req[r].read # row
                \/ raced /\ req[r].kind \notin {"enroll", "disable"}
    /\ End(r)
    /\ UNCHANGED <<now, generated>>

\* The process dies, or a later step of the handler raises: nothing is kept.
Abort(r) ==
    /\ req[r].pc # "idle"
    /\ End(r)
    /\ UNCHANGED <<row, now, generated, used, raced>>

Tick ==
    /\ now < MaxStep
    /\ now' = now + 1
    /\ UNCHANGED <<row, generated, req, used, raced>>

Step(r) ==
    \/ Begin(r)
    \/ Enroll(r) \/ Confirm(r) \/ Disable(r) \/ Login(r)
    \/ Commit(r) \/ Abort(r)

Next ==
    \/ \E r \in Req : Step(r)
    \/ Tick

Spec == Init /\ [][Next]_vars

-----------------------------------------------------------------------------
(***************************************************************************)
(* "making every code single-use": a code that a committed request has     *)
(* used is accepted from no request that begins afterwards, by no other    *)
(* endpoint either, across removal and a new enrolment.  Exempt are the    *)
(* requests that read a row which comes from overlapping writes; such a    *)
(* row lasts until the next enrolment or removal that nothing overlaps.    *)
(***************************************************************************)
SingleUse ==
    [][\A r \in Req :
          req'[r].pc = "decided" /\ req[r].pc # "decided" => ~req[r].replay]_vars

(***************************************************************************)
(* The second factor is "disabled until the user proves possession by      *)
(* verifying a code": while it is enabled there is a secret, a code of     *)
(* that very secret was accepted, and none later than totp_last_counter,   *)
(* unless the row comes from overlapping writes: an enrolment that         *)
(* overlaps a confirmation leaves a secret in force that nobody proved.    *)
(***************************************************************************)
EnabledIsProven ==
    row.enabled /\ ~raced
        => /\ \E c \in used : c.secret = row.secret /\ c.step = row.last
           /\ \A c \in used : c.secret = row.secret => c.step <= row.last

(***************************************************************************)
(* The second factor is changed or removed by the commit of a request; if  *)
(* the row is still the one that request read, it carries a code of the    *)
(* secret in force, and, unless the row comes from overlapping writes, one *)
(* that was not used before (begin_totp_enrollment, disable_totp).         *)
(***************************************************************************)
SecondFactorKept ==
    [][row.enabled /\ (~row'.enabled \/ row'.secret # row.secret)
          => \E r \in Req :
                /\ req[r].pc = "decided" /\ req'[r].pc = "idle"
                /\ req[r].read = row => /\ req[r].code \in Code
                                        /\ req[r].code.secret = row.secret
                                        /\ raced \/ req[r].code \notin used]_vars

(***************************************************************************)
(* "Rotating requires disabling first, which demands a valid code from the *)
(* current authenticator" (begin_totp_enrollment): whatever overlaps, a    *)
(* request that changes or removes an enabled second factor carries a code *)
(* of the secret in force.                                                 *)
(***************************************************************************)
RotationTakesACode ==
    [][row.enabled /\ (~row'.enabled \/ row'.secret # row.secret)
          => \E r \in Req :
                /\ req[r].pc = "decided" /\ req'[r].pc = "idle"
                /\ req[r].code \in Code /\ req[r].code.secret = row.secret]_vars
=============================================================================
