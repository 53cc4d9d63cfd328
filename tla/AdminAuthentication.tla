------------------------ MODULE AdminAuthentication ------------------------
(***************************************************************************)
(* The local administrator of application/local_admin_authentication.py:   *)
(* one credential row with its failure counter and lock, and the sessions  *)
(* issued against it.  Requests run concurrently, each in transactions of  *)
(* its own; a transaction takes row locks (FOR UPDATE, UPDATE) as its      *)
(* statements reach them and keeps them until it ends.  Its writes are     *)
(* kept apart until the commit; the rows are locked, so that writing the   *)
(* whole row is writing the columns the UPDATE names.                      *)
(***************************************************************************)
EXTENDS Integers, Sequences, FiniteSets

CONSTANTS
  Request,        \* slots for HTTP requests and CLI commands in progress
  Session,        \* sessions that may be issued, one token each
  Password,       \* passwords of an acceptable length
  FailureLimit,   \* LOGIN_FAILURE_LIMIT
  LockDuration,   \* LOCK_DURATION
  IdleTimeout,    \* IDLE_TIMEOUT
  AbsoluteTimeout,\* ABSOLUTE_TIMEOUT
  Null,           \* SQL NULL, an absent row, nobody
  MaxClock,       \* bound: ticks of the clock
  MaxHash         \* bound: password hashes ever stored

ASSUME DurationsAssumption ==
  /\ FailureLimit \in Nat \ {0}
  /\ LockDuration \in Nat \ {0}
  /\ IdleTimeout \in Nat \ {0}
  /\ AbsoluteTimeout \in Nat \ {0}
  /\ MaxClock \in Nat
  /\ MaxHash \in Nat \ {0}

VARIABLES
  clock,
  credential,     \* the row of local_admin_credentials
  sessions,       \* the rows of local_admin_sessions
  credentialLock, \* the request that holds the credential row, or Null
  sessionLock,    \* the request that holds each session row, or Null
  pc, job,        \* where each request is and what it asks for
  targets,        \* sessions its bulk UPDATE has still to reach
  write,          \* what its transaction has written and not committed
  keeper,         \* history: the session the last password change spared
  guesses         \* history: when the wrong passwords were tried since the last
                  \* login or reset, in the order of the commits

rows == <<credential, sessions>>
locks == <<credentialLock, sessionLock>>
history == <<keeper, guesses>>
vars == <<clock, rows, locks, pc, job, targets, write, history>>

\* A stored hash is salted, so every password_hash is new: hash counts them.
Credential == [password : Password,
               hash     : Nat,
               failed   : Nat,
               locked   : Nat \cup {Null}]

\* hash is a history field: the password_hash the login was verified against.
Row == [hash : Nat, idle : Nat, absolute : Nat, invalidated : BOOLEAN]

Kind == {"login", "reset", "business", "logout", "change"}
Job == [kind    : Kind,
        session : Session \cup {Null},
        old     : Password \cup {Null},
        new     : Password \cup {Null}]

ASSUME NullAssumption ==
  /\ Null \notin Nat
  /\ Null \notin Request
  /\ Null \notin Session
  /\ Null \notin Credential
  /\ Null \notin Row
  /\ Null \notin Job

NoRows == [s \in Session |-> Null]
Nothing == [credential |-> Null, rows |-> NoRows, outcome |-> "none", at |-> 0]

Kindof(r) == job[r].kind
Token(r) == job[r].session

Init ==
  /\ clock = 0
  /\ credential = Null
  /\ sessions = NoRows
  /\ credentialLock = Null
  /\ sessionLock = NoRows
  /\ pc = [r \in Request |-> "idle"]
  /\ job = [r \in Request |-> Null]
  /\ targets = [r \in Request |-> {}]
  /\ write = [r \in Request |-> Nothing]
  /\ keeper = Null
  /\ guesses = <<>>

-----------------------------------------------------------------------------
(* What the handlers read in a row. *)

Live(s) == sessions[s] # Null /\ ~sessions[s].invalidated

\* The session check of actor_for_token, logout and change_password.
Accepted(s, now) ==
  /\ Live(s)
  /\ sessions[s].idle > now
  /\ sessions[s].absolute > now

Locked(c) == c.locked # Null /\ c.locked > clock

\* A lock that has run out resets the counter.
FailedAttempts(c) == IF c.locked # Null THEN 0 ELSE c.failed

(* Transactions. *)

\* Mutant: the guard shares its transaction with the handler behind it, which
\* opens another one while the session row is still locked.
EndOnlyAtTheEnd(r, next) ==
  /\ pc' = [pc EXCEPT ![r] = next]
  /\ job' = IF next = "idle" THEN [job EXCEPT ![r] = Null] ELSE job
  /\ targets' = [targets EXCEPT ![r] = {}]
  /\ write' = [write EXCEPT ![r] = Nothing]
  /\ credentialLock' = IF credentialLock = r THEN Null ELSE credentialLock
  /\ sessionLock' = [s \in Session |-> IF sessionLock[s] = r /\ next = "idle"
                                       THEN Null ELSE sessionLock[s]]

\* The end of Database.session(): the locks go, the next step of the request
\* begins a transaction of its own.
EndTransaction(r, next) ==
  /\ pc' = [pc EXCEPT ![r] = next]
  /\ job' = IF next = "idle" THEN [job EXCEPT ![r] = Null] ELSE job
  /\ targets' = [targets EXCEPT ![r] = {}]
  /\ write' = [write EXCEPT ![r] = Nothing]
  /\ credentialLock' = IF credentialLock = r THEN Null ELSE credentialLock
  /\ sessionLock' = [s \in Session |-> IF sessionLock[s] = r THEN Null ELSE sessionLock[s]]

Rollback(r) == EndTransaction(r, "idle") /\ UNCHANGED <<clock, rows, history>>

Put(s, row) == [NoRows EXCEPT ![s] = row]
Invalid(s) == [sessions[s] EXCEPT !.invalidated = TRUE]

-----------------------------------------------------------------------------
(* Requests. *)

\* bootstrap (CLI): the primary key lets one of two commands win.
Bootstrap(p) ==
  /\ credential = Null
  /\ credential' = [password |-> p, hash |-> 1, failed |-> 0, locked |-> Null]
  /\ UNCHANGED <<clock, sessions, locks, pc, job, targets, write, history>>

Unissued == {s \in Session : sessions[s] = Null}
Busy(kinds) == {r \in Request : pc[r] # "idle" /\ Kindof(r) \in kinds}

\* Every route behind require_authenticated_admin runs actor_for_token first.
Begin(r, kind, s, old, new) ==
  /\ pc[r] = "idle"
  /\ pc' = [pc EXCEPT ![r] = IF kind \in {"login", "reset"} THEN "credential" ELSE "guard"]
  /\ job' = [job EXCEPT ![r] = [kind |-> kind, session |-> s, old |-> old, new |-> new]]
  /\ UNCHANGED <<clock, rows, locks, targets, write, history>>

BeginLogin(r, old) ==
  /\ Cardinality(Unissued) > Cardinality(Busy({"login"}))
  /\ Begin(r, "login", Null, old, Null)

CanHash == credential # Null =>
             credential.hash + Cardinality(Busy({"change", "reset"})) < MaxHash

BeginReset(r, new) == CanHash /\ Begin(r, "reset", Null, Null, new)

BeginChange(r, s, old, new) == CanHash /\ Begin(r, "change", s, old, new)

BeginWithToken(r, kind, s) == Begin(r, kind, s, Null, Null)

-----------------------------------------------------------------------------
(* actor_for_token. *)

\* No row has the token: nothing to lock, AuthenticationError.
UnknownToken(r) ==
  /\ pc[r] \in {"guard", "session"}
  /\ sessions[Token(r)] = Null
  /\ Rollback(r)

\* Mutant: the session is read without FOR UPDATE.
ReadSession(r, s) == sessionLock' = [sessionLock EXCEPT ![s] = r]

LockSession(r, s) ==
  /\ sessionLock[s] = Null
  /\ sessionLock' = [sessionLock EXCEPT ![s] = r]

Decide(r, c, rs, outcome) ==
  /\ write' = [write EXCEPT ![r] =
                 [credential |-> c, rows |-> rs, outcome |-> outcome, at |-> clock]]
  /\ pc' = [pc EXCEPT ![r] = "commit"]

\* The rejected branch of actor_for_token and of logout: an expired session is
\* invalidated, and that is committed before the error is raised.
RejectToken(r) ==
  /\ LET s == Token(r)
     IN Decide(r, Null, IF Live(s) THEN Put(s, Invalid(s)) ELSE NoRows, "rejected")

\* Mutant: activity extends the absolute limit as well.
AcceptAndExtend(r) ==
  Decide(r, Null, Put(Token(r), [sessions[Token(r)] EXCEPT
                                   !.idle = clock + IdleTimeout,
                                   !.absolute = clock + AbsoluteTimeout]), "accepted")

\* Only the idle limit moves.
AcceptToken(r) ==
  /\ LET s == Token(r)
     IN Decide(r, Null, Put(s, [sessions[s] EXCEPT !.idle = clock + IdleTimeout]), "accepted")

Guard(r) ==
  /\ pc[r] = "guard"
  /\ sessions[Token(r)] # Null
  /\ LockSession(r, Token(r))
  /\ IF Accepted(Token(r), clock) THEN AcceptToken(r) ELSE RejectToken(r)
  /\ UNCHANGED <<clock, rows, credentialLock, job, targets, history>>

\* logout runs after the guard, in a transaction of its own, and checks again.
Logout(r) ==
  /\ pc[r] = "session"
  /\ sessions[Token(r)] # Null
  /\ LockSession(r, Token(r))
  /\ IF Accepted(Token(r), clock)
       THEN Decide(r, Null, Put(Token(r), Invalid(Token(r))), "loggedout")
       ELSE RejectToken(r)
  /\ UNCHANGED <<clock, rows, credentialLock, job, targets, history>>

-----------------------------------------------------------------------------
(* login, change_password and reset_password: the credential row first. *)

\* login, change_password and reset_password without a credential fail.
NoCredential(r) ==
  /\ pc[r] = "credential"
  /\ credential = Null
  /\ Rollback(r)

\* Mutant: the credential is read without FOR UPDATE.
ReadCredential(r) ==
  /\ pc[r] = "credential"
  /\ credential # Null
  /\ credentialLock' = r
  /\ pc' = [pc EXCEPT ![r] = "verify"]
  /\ UNCHANGED <<clock, rows, sessionLock, job, targets, write, history>>

LockCredential(r) ==
  /\ pc[r] = "credential"
  /\ credential # Null
  /\ credentialLock = Null
  /\ credentialLock' = r
  /\ pc' = [pc EXCEPT ![r] = "verify"]
  /\ UNCHANGED <<clock, rows, sessionLock, job, targets, write, history>>

\* While the lock runs the password is not even looked at.
LoginWhileLocked(r) ==
  /\ pc[r] = "verify" /\ Kindof(r) = "login"
  /\ Locked(credential)
  /\ Decide(r, Null, NoRows, "locked")
  /\ UNCHANGED <<clock, rows, locks, job, targets, history>>

LoginSucceeds(r) ==
  /\ pc[r] = "verify" /\ Kindof(r) = "login"
  /\ ~Locked(credential)
  /\ job[r].old = credential.password
  /\ \E s \in Unissued :
       Decide(r, [credential EXCEPT !.failed = 0, !.locked = Null],
              Put(s, [hash |-> credential.hash, idle |-> clock + IdleTimeout,
                      absolute |-> clock + AbsoluteTimeout, invalidated |-> FALSE]),
              "right")
  /\ UNCHANGED <<clock, rows, locks, job, targets, history>>

\* Mutant: the lock is dated back instead of forward.
LoginFailsIntoThePast(r) ==
  /\ pc[r] = "verify" /\ Kindof(r) = "login"
  /\ ~Locked(credential)
  /\ job[r].old # credential.password
  /\ LET failed == FailedAttempts(credential) + 1
     IN Decide(r, [credential EXCEPT
                     !.failed = failed,
                     !.locked = IF failed >= FailureLimit THEN clock - LockDuration ELSE Null],
               NoRows, "wrong")
  /\ UNCHANGED <<clock, rows, locks, job, targets, history>>

LoginFails(r) ==
  /\ pc[r] = "verify" /\ Kindof(r) = "login"
  /\ ~Locked(credential)
  /\ job[r].old # credential.password
  /\ LET failed == FailedAttempts(credential) + 1
     IN Decide(r, [credential EXCEPT
                     !.failed = failed,
                     !.locked = IF failed >= FailureLimit THEN clock + LockDuration ELSE Null],
               NoRows, "wrong")
  /\ UNCHANGED <<clock, rows, locks, job, targets, history>>

\* change_password with a wrong current password: AuthenticationError inside the
\* transaction; it neither counts as a failure nor looks at the lock.
ChangeRefused(r) ==
  /\ pc[r] = "verify" /\ Kindof(r) = "change"
  /\ job[r].old # credential.password
  /\ Rollback(r)

\* The clock is read here, before the wait for the session row.
ChangeVerified(r) ==
  /\ pc[r] = "verify" /\ Kindof(r) = "change"
  /\ job[r].old = credential.password
  /\ pc' = [pc EXCEPT ![r] = "own"]
  /\ write' = [write EXCEPT ![r].at = clock]
  /\ UNCHANGED <<clock, rows, locks, job, targets, history>>

NewHash(r) == [credential EXCEPT !.password = job[r].new, !.hash = @ + 1]

\* The UPDATE of the sessions starts from the ones that are live when it starts.
StartBulk(r, spared, c, outcome, now) ==
  /\ targets' = [targets EXCEPT ![r] = {s \in Session \ spared : Live(s)}]
  /\ write' = [write EXCEPT ![r] =
                 [credential |-> c, rows |-> NoRows, outcome |-> outcome, at |-> now]]
  /\ pc' = [pc EXCEPT ![r] = "others"]

\* The session is no longer good: the UPDATE that would invalidate it is rolled
\* back by the AuthenticationError raised inside the transaction.
ChangeRejected(r) ==
  /\ pc[r] = "own"
  /\ sessions[Token(r)] = Null \/ sessionLock[Token(r)] = Null
  /\ ~Accepted(Token(r), write[r].at)
  /\ Rollback(r)

ChangeAccepted(r) ==
  /\ pc[r] = "own"
  /\ LockSession(r, Token(r))
  /\ Accepted(Token(r), write[r].at)
  /\ StartBulk(r, {Token(r)}, NewHash(r), "changed", write[r].at)
  /\ UNCHANGED <<clock, rows, credentialLock, job, history>>

\* Mutant: a reset leaves the sessions alone.
ResetCredentialOnly(r) ==
  /\ pc[r] = "verify" /\ Kindof(r) = "reset"
  /\ Decide(r, [NewHash(r) EXCEPT !.failed = 0, !.locked = Null], NoRows, "reset")
  /\ UNCHANGED <<clock, rows, locks, job, targets, history>>

Reset(r) ==
  /\ pc[r] = "verify" /\ Kindof(r) = "reset"
  /\ StartBulk(r, {}, [NewHash(r) EXCEPT !.failed = 0, !.locked = Null], "reset", clock)
  /\ UNCHANGED <<clock, rows, locks, job, history>>

\* The UPDATE waits for the row, then looks again whether it still qualifies.
InvalidateNext(r, s) ==
  /\ pc[r] = "others"
  /\ s \in targets[r]
  /\ sessionLock[s] = Null
  /\ targets' = [targets EXCEPT ![r] = @ \ {s}]
  /\ IF Live(s)
       THEN /\ sessionLock' = [sessionLock EXCEPT ![s] = r]
            /\ write' = [write EXCEPT ![r].rows[s] = Invalid(s)]
       ELSE UNCHANGED <<sessionLock, write>>
  /\ UNCHANGED <<clock, rows, credentialLock, pc, job, history>>

EndBulk(r) ==
  /\ pc[r] = "others"
  /\ targets[r] = {}
  /\ pc' = [pc EXCEPT ![r] = "commit"]
  /\ UNCHANGED <<clock, rows, locks, job, targets, write, history>>

-----------------------------------------------------------------------------
\* logout and change go on after their guard; everything else has its answer.
After(r) == IF write[r].outcome = "accepted" /\ Kindof(r) = "logout" THEN "session"
            ELSE IF write[r].outcome = "accepted" /\ Kindof(r) = "change" THEN "credential"
            ELSE "idle"

Commit(r) ==
  /\ pc[r] = "commit"
  /\ credential' = IF write[r].credential = Null THEN credential ELSE write[r].credential
  /\ sessions' = [s \in Session |-> IF write[r].rows[s] = Null THEN sessions[s]
                                    ELSE write[r].rows[s]]
  /\ keeper' = IF write[r].outcome = "changed" THEN Token(r)
               ELSE IF write[r].outcome = "reset" THEN Null ELSE keeper
  /\ guesses' = IF write[r].outcome = "wrong" THEN Append(guesses, write[r].at)
                ELSE IF write[r].outcome \in {"right", "reset"} THEN <<>>
                ELSE guesses
  /\ EndTransaction(r, After(r))
  /\ UNCHANGED clock

\* A database error, a lost connection or a crash: nothing of the transaction stays.
Abort(r) == pc[r] # "idle" /\ Rollback(r)

Tick ==
  /\ clock < MaxClock
  /\ clock' = clock + 1
  /\ UNCHANGED <<rows, locks, pc, job, targets, write, history>>

\* No request in progress; the bounds may leave nothing else to do.
Quiescent == (\A r \in Request : pc[r] = "idle") /\ UNCHANGED vars

Next ==
  \/ \E p \in Password : Bootstrap(p)
  \/ \E r \in Request, p \in Password : BeginLogin(r, p)
  \/ \E r \in Request, p \in Password : BeginReset(r, p)
  \/ \E r \in Request, s \in Session, p, q \in Password : BeginChange(r, s, p, q)
  \/ \E r \in Request, s \in Session, kind \in {"business", "logout"} :
       BeginWithToken(r, kind, s)
  \/ \E r \in Request : UnknownToken(r)
  \/ \E r \in Request : Guard(r)
  \/ \E r \in Request : Logout(r)
  \/ \E r \in Request : NoCredential(r)
  \/ \E r \in Request : LockCredential(r)
  \/ \E r \in Request : LoginWhileLocked(r)
  \/ \E r \in Request : LoginSucceeds(r)
  \/ \E r \in Request : LoginFails(r)
  \/ \E r \in Request : ChangeRefused(r)
  \/ \E r \in Request : ChangeVerified(r)
  \/ \E r \in Request : ChangeRejected(r)
  \/ \E r \in Request : ChangeAccepted(r)
  \/ \E r \in Request : Reset(r)
  \/ \E r \in Request, s \in Session : InvalidateNext(r, s)
  \/ \E r \in Request : EndBulk(r)
  \/ \E r \in Request : Commit(r)
  \/ \E r \in Request : Abort(r)
  \/ Tick
  \/ Quiescent

Spec == Init /\ [][Next]_vars

\* What a request does by itself, rollbacks apart.
Advance(r) ==
  \/ UnknownToken(r) \/ Guard(r) \/ Logout(r)
  \/ NoCredential(r) \/ LockCredential(r)
  \/ LoginWhileLocked(r) \/ LoginSucceeds(r) \/ LoginFails(r)
  \/ ChangeRefused(r) \/ ChangeVerified(r) \/ ChangeRejected(r) \/ ChangeAccepted(r)
  \/ Reset(r) \/ (\E s \in Session : InvalidateNext(r, s)) \/ EndBulk(r)
  \/ Commit(r)

\* A request that can take its next statement does, and a contended row is
\* granted in the order of the waiters, hence strong fairness.  Nothing makes a
\* rollback, the clock or a new request happen.
Fairness == \A r \in Request : SF_vars(Advance(r))

FairSpec == Spec /\ Fairness

-----------------------------------------------------------------------------
(* Properties. *)

TypeOK ==
  /\ clock \in Nat
  /\ credential \in Credential \cup {Null}
  /\ sessions \in [Session -> Row \cup {Null}]
  /\ credentialLock \in Request \cup {Null}
  /\ sessionLock \in [Session -> Request \cup {Null}]
  /\ pc \in [Request -> {"idle", "guard", "session", "credential", "verify", "own",
                         "others", "commit"}]
  /\ job \in [Request -> Job \cup {Null}]
  /\ targets \in [Request -> SUBSET Session]
  /\ write \in [Request ->
       [credential : Credential \cup {Null},
        rows       : [Session -> Row \cup {Null}],
        outcome    : {"none", "accepted", "rejected", "loggedout", "locked", "right",
                      "wrong", "changed", "reset"},
        at         : Nat]]
  /\ keeper \in Session \cup {Null}
  /\ guesses \in Seq(Nat)

\* A session that can still be used was issued against the password in force, or is
\* the one that set it: a change invalidates all the others and a reset all of them,
\* those of logins that were under way included.
NoSessionOutlivesItsPassword ==
  \A s \in Session : Live(s) => sessions[s].hash = credential.hash \/ s = keeper

\* Of any FailureLimit + 1 wrong passwords that are tried, however many logins run at
\* once, the first and the last are at least the duration of the lock apart: no window
\* of that length has more than FailureLimit of them.
GuessesAreLimited ==
  \A i, j \in 1..Len(guesses) :
    j >= i + FailureLimit => guesses[j] >= guesses[i] + LockDuration

\* A request that passed its session check, in the guard or in the password change,
\* is still on a live session when it commits: no logout, reset or change of another
\* session slips in between.
AcceptedSessionIsLive ==
  \A r \in Request :
    write[r].outcome \in {"accepted", "loggedout", "changed"} =>
      /\ Live(Token(r))
      /\ sessions[Token(r)].absolute > write[r].at
      /\ sessions[Token(r)].idle > write[r].at

\* An invalidated session stays so, the absolute limit never moves, and activity
\* never shortens the idle limit.
InvalidationIsFinal ==
  [][\A s \in Session : sessions[s] # Null =>
       /\ sessions'[s] # Null
       /\ sessions[s].invalidated => sessions'[s] = sessions[s]
       /\ sessions'[s].absolute = sessions[s].absolute
       /\ sessions'[s].hash = sessions[s].hash
       /\ sessions'[s].idle >= sessions[s].idle]_sessions

\* Whatever locks the requests hold and wait for, each of them ends.
RequestsEnd == \A r \in Request : pc[r] # "idle" ~> pc[r] = "idle"
=============================================================================
