---------------------- MODULE AdminAuthenticationProofs ----------------------
(***************************************************************************)
(* Proofs about AdminAuthentication, for every number of requests,         *)
(* sessions and passwords and every duration.  A transaction keeps its     *)
(* writes to itself; the proofs say of each kind of pending write how it   *)
(* relates to the committed rows, and that the row locks keep it so until  *)
(* the commit.                                                             *)
(***************************************************************************)
EXTENDS AdminAuthentication, TLAPS

ByCredential == {"locked", "right", "wrong", "changed", "reset"}

Holds(r) ==
  \/ pc[r] \in {"verify", "own", "others"}
  \/ pc[r] = "commit" /\ write[r].outcome \in ByCredential

\* One request at a time is past the lock of the credential row.
CredentialIsLocked ==
  /\ \A r \in Request : credentialLock = r <=> Holds(r)
  /\ credentialLock # Null => credential # Null

\* The counter and the lock of a credential c, against the wrong passwords g tried
\* until now.  Those before the current series are out of its reach.
Counted(c, g, now) ==
  /\ c.failed <= Len(g)
  /\ \A i \in 1..Len(g) : g[i] <= now
  /\ \A i, j \in 1..Len(g) :
       i <= Len(g) - c.failed /\ Len(g) - c.failed < j => g[j] >= g[i] + LockDuration
  /\ \A i, j \in 1..Len(g) : j >= i + FailureLimit => g[j] >= g[i] + LockDuration
  /\ IF c.locked = Null
     THEN /\ c.failed < FailureLimit
          /\ \A i \in 1..Len(g) : i <= Len(g) - c.failed => now >= g[i] + LockDuration
     ELSE /\ c.failed = FailureLimit
          /\ \A i \in 1..Len(g) : c.locked >= g[i] + LockDuration

\* What a request asks for fits where it is.
Asked(r) ==
  /\ pc[r] # "idle" =>
       /\ job[r] \in Job
       /\ Kindof(r) \in {"business", "logout", "change"} => Token(r) \in Session
       /\ Kindof(r) \in {"change", "reset"} => job[r].new \in Password
  /\ pc[r] = "guard" => Kindof(r) \in {"business", "logout", "change"}
  /\ pc[r] = "session" => Kindof(r) = "logout"
  /\ pc[r] \in {"credential", "verify"} => Kindof(r) \in {"login", "change", "reset"}
  /\ pc[r] = "own" => Kindof(r) = "change"

\* What it has decided, by where it is.
Decided(r) ==
  /\ pc[r] \notin {"own", "others", "commit"} => write[r] = Nothing
  /\ pc[r] = "own" =>
       /\ write[r].credential = Null
       /\ write[r].rows = NoRows
       /\ write[r].outcome = "none"
  /\ pc[r] = "others" => write[r].outcome \in {"changed", "reset"}
  /\ pc[r] = "commit" => write[r].outcome # "none"
  /\ write[r].at <= clock
  /\ write[r].outcome \in {"accepted", "rejected", "loggedout", "changed"} =>
       Token(r) \in Session

\* The credential it is about to store, against the one that is stored.
NewCredential(r) ==
  LET w == write[r].credential
      o == write[r].outcome
  IN /\ w # Null <=> o \in {"right", "wrong", "changed", "reset"}
     /\ o \in {"right", "wrong"} => w.hash = credential.hash
     /\ o = "wrong" => Counted(w, Append(guesses, write[r].at), write[r].at)
     /\ o = "changed" => w.failed = credential.failed /\ w.locked = credential.locked
     /\ o \in {"right", "reset"} => w.failed = 0 /\ w.locked = Null

\* The sessions it is about to store: a new one, or live ones it has locked.
NewRows(r) ==
  \A s \in Session : write[r].rows[s] # Null =>
    /\ write[r].rows[s].idle <= clock + IdleTimeout
    /\ \/ /\ write[r].outcome = "right"
          /\ sessions[s] = Null
          /\ write[r].rows[s].hash = credential.hash
       \/ /\ sessionLock[s] = r
          /\ Live(s)
          /\ write[r].rows[s].hash = sessions[s].hash
          /\ write[r].rows[s].absolute = sessions[s].absolute
          /\ write[r].rows[s].idle >= sessions[s].idle

\* The session it has checked.
OwnSession(r) ==
  write[r].outcome \in {"accepted", "loggedout", "changed"} =>
    /\ sessionLock[Token(r)] = r
    /\ Live(Token(r))
    /\ sessions[Token(r)].absolute > write[r].at
    /\ sessions[Token(r)].idle > write[r].at

\* A bulk UPDATE misses no live session: nobody can log in until it has committed.
Swept(r) ==
  write[r].outcome \in {"changed", "reset"} =>
    \A s \in Session : Live(s) =>
      \/ pc[r] = "others" /\ s \in targets[r]
      \/ write[r].rows[s] # Null /\ write[r].rows[s].invalidated
      \/ write[r].outcome = "changed" /\ s = Token(r)

Mine(r) ==
  /\ Asked(r)
  /\ Decided(r)
  /\ NewCredential(r)
  /\ NewRows(r)
  /\ OwnSession(r)
  /\ Swept(r)

\* The committed rows.
Rows ==
  /\ credential = Null => sessions = NoRows /\ guesses = <<>>
  /\ credential # Null => Counted(credential, guesses, clock)
  /\ \A s \in Session : sessions[s] # Null => sessions[s].idle <= clock + IdleTimeout
  /\ NoSessionOutlivesItsPassword

IInv ==
  /\ TypeOK
  /\ CredentialIsLocked
  /\ \A r \in Request : Mine(r)
  /\ Rows
-----------------------------------------------------------------------------
LEMMA InitIInv == Init => IInv
<1> SUFFICES ASSUME Init PROVE IInv
  OBVIOUS
<1> USE DurationsAssumption, NullAssumption DEF Init, NoRows, Nothing
<1>1. TypeOK
  BY DEF TypeOK
<1>2. CredentialIsLocked
  BY DEF CredentialIsLocked, Holds, ByCredential
<1>3. ASSUME NEW r \in Request PROVE Mine(r)
  BY DEF Mine, Asked, Decided, NewCredential, NewRows, OwnSession, Swept
<1>4. Rows
  BY DEF Rows, NoSessionOutlivesItsPassword, Live
<1>5. QED
  BY <1>1, <1>2, <1>3, <1>4 DEF IInv

\* What the other requests keep when r takes a step.
Apart(r) ==
  \A q \in Request \ {r} :
    /\ pc'[q] = pc[q]
    /\ job'[q] = job[q]
    /\ targets'[q] = targets[q]
    /\ write'[q] = write[q]
    /\ credentialLock' = q <=> credentialLock = q
    /\ \A s \in Session : sessionLock[s] = q => sessionLock'[s] = q

\* A step that stores nothing keeps the invariant if it does for its own request.
LEMMA StepKeepsIInv ==
  ASSUME NEW r \in Request, IInv, UNCHANGED <<clock, rows, history>>, TypeOK', Apart(r),
         Mine(r)', credentialLock' = r <=> Holds(r)', credentialLock' # Null => credential # Null
  PROVE  IInv'
<1> USE DEF IInv, rows, history
<1>1. CredentialIsLocked'
  <2>1. ASSUME NEW q \in Request PROVE credentialLock' = q <=> Holds(q)'
    <3>1. CASE q = r
      BY <3>1
    <3>2. CASE q # r
      BY <3>2 DEF Apart, CredentialIsLocked, Holds
    <3>3. QED BY <3>1, <3>2
  <2>2. QED BY <2>1 DEF CredentialIsLocked
<1>2. Rows'
  BY DEF Rows, NoSessionOutlivesItsPassword, Live
<1>3. ASSUME NEW q \in Request PROVE Mine(q)'
  <2>1. CASE q = r
    BY <2>1
  <2>2. CASE q # r
    <3>1. /\ pc'[q] = pc[q] /\ job'[q] = job[q] /\ targets'[q] = targets[q]
          /\ write'[q] = write[q]
          /\ \A s \in Session : sessionLock[s] = q => sessionLock'[s] = q
      BY <2>2 DEF Apart
    <3>2. Asked(q)' /\ Decided(q)' /\ NewCredential(q)'
      BY <3>1 DEF Mine, Asked, Decided, NewCredential, Kindof, Token, Counted
    <3>3. NewRows(q)' /\ Swept(q)'
      BY <3>1 DEF Mine, NewRows, Swept, Live, Token
    <3>4. OwnSession(q)'
      BY <3>1 DEF Mine, Decided, OwnSession, Live, Token
    <3>5. QED BY <3>2, <3>3, <3>4 DEF Mine
  <2>3. QED BY <2>1, <2>2
<1>4. QED
  BY <1>1, <1>2, <1>3

\* A transaction that ends without a commit.
LEMMA RollbackKeepsIInv ==
  ASSUME NEW r \in Request, IInv, Rollback(r)
  PROVE  IInv'
<1> USE NullAssumption DEF Rollback, EndTransaction
<1>1. TypeOK'
  BY DEF IInv, TypeOK, rows, history, Nothing, NoRows
<1>2. Apart(r)
  BY DEF IInv, TypeOK, Apart
<1>3. pc'[r] = "idle" /\ write'[r] = Nothing
  BY DEF IInv, TypeOK
<1>4. Mine(r)'
  BY <1>1, <1>3 DEF Mine, Asked, Decided, NewCredential, NewRows, OwnSession, Swept, Nothing,
     NoRows, TypeOK
<1>5. credentialLock' = r <=> Holds(r)'
  BY <1>3 DEF Holds, Nothing, ByCredential
<1>6. credentialLock' # Null => credential # Null
  BY DEF IInv, CredentialIsLocked
<1>7. QED
  BY <1>1, <1>2, <1>4, <1>5, <1>6, StepKeepsIInv

LEMMA BeginKeepsIInv ==
  ASSUME NEW r \in Request, NEW kind \in Kind, NEW s \in Session \cup {Null},
         NEW old \in Password \cup {Null}, NEW new \in Password \cup {Null},
         kind \in {"business", "logout", "change"} => s \in Session,
         kind \in {"change", "reset"} => new \in Password,
         IInv, Begin(r, kind, s, old, new)
  PROVE  IInv'
<1> DEFINE j == [kind |-> kind, session |-> s, old |-> old, new |-> new]
<1> USE NullAssumption DEF Begin, locks
<1>1. j \in Job
  BY DEF Job
<1>2. TypeOK'
  BY <1>1 DEF IInv, TypeOK, rows, history
<1>3. Apart(r)
  BY DEF IInv, TypeOK, Apart
<1>4. /\ pc'[r] = IF kind \in {"login", "reset"} THEN "credential" ELSE "guard"
      /\ job'[r] = j
      /\ write'[r] = Nothing
  BY DEF IInv, TypeOK, Mine, Decided
<1>5. Asked(r)'
  BY <1>1, <1>4 DEF Asked, Kindof, Token, Kind
<1>6. Decided(r)' /\ NewCredential(r)' /\ NewRows(r)' /\ OwnSession(r)' /\ Swept(r)'
  BY <1>2, <1>4 DEF Decided, NewCredential, NewRows, OwnSession, Swept, Nothing, NoRows, TypeOK
<1>7. credentialLock' = r <=> Holds(r)'
  BY <1>4 DEF Holds, IInv, CredentialIsLocked, ByCredential, Nothing
<1>8. credentialLock' # Null => credential # Null
  BY DEF IInv, CredentialIsLocked
<1>9. QED
  BY <1>2, <1>3, <1>5, <1>6, <1>7, <1>8, StepKeepsIInv DEF Mine

-----------------------------------------------------------------------------
(* The session row. *)

\* LockSession and Decide, in the guard and in logout.
Deciding(r, c, rs, outcome) ==
  /\ LockSession(r, Token(r))
  /\ Decide(r, c, rs, outcome)
  /\ UNCHANGED <<clock, rows, credentialLock, job, targets, history>>

LEMMA DecidingKeepsIInv ==
  ASSUME NEW r \in Request, pc[r] \in {"guard", "session"}, sessions[Token(r)] # Null,
         NEW rs \in [Session -> Row \cup {Null}],
         NEW outcome \in {"accepted", "rejected", "loggedout"},
         \A s \in Session : rs[s] # Null =>
           /\ s = Token(r) /\ Live(s)
           /\ rs[s].hash = sessions[s].hash
           /\ rs[s].absolute = sessions[s].absolute
           /\ rs[s].idle >= sessions[s].idle
           /\ rs[s].idle <= clock + IdleTimeout,
         outcome # "rejected" => Accepted(Token(r), clock),
         IInv, Deciding(r, Null, rs, outcome)
  PROVE  IInv'
<1> USE NullAssumption, DurationsAssumption DEF Deciding, LockSession, Decide
<1>1. Token(r) \in Session /\ job[r] \in Job
  BY DEF IInv, Mine, Asked
<1>2. TypeOK'
  BY <1>1 DEF IInv, TypeOK, rows, history
<1>3. Apart(r)
  BY <1>1 DEF IInv, TypeOK, Apart, rows, history
<1>4. /\ pc'[r] = "commit" /\ job'[r] = job[r] /\ sessionLock'[Token(r)] = r
      /\ write'[r] = [credential |-> Null, rows |-> rs, outcome |-> outcome, at |-> clock]
  BY <1>1 DEF IInv, TypeOK
<1>5. Asked(r)'
  BY <1>4 DEF IInv, Mine, Asked, Kindof, Token
<1>6. Decided(r)' /\ NewCredential(r)'
  BY <1>1, <1>4 DEF IInv, TypeOK, Decided, NewCredential, Token
<1>7. NewRows(r)'
  BY <1>1, <1>4 DEF NewRows, Live, rows, Token
<1>8. OwnSession(r)' /\ Swept(r)'
  BY <1>1, <1>4 DEF OwnSession, Swept, Accepted, Live, rows, Token
<1>9. credentialLock' = r <=> Holds(r)'
  BY <1>4 DEF Holds, IInv, CredentialIsLocked, ByCredential
<1>10. credentialLock' # Null => credential # Null
  BY DEF IInv, CredentialIsLocked
<1>11. QED
  BY <1>2, <1>3, <1>5, <1>6, <1>7, <1>8, <1>9, <1>10, StepKeepsIInv DEF Mine

LEMMA RowInvalid ==
  ASSUME IInv, NEW s \in Session, Live(s)
  PROVE  /\ Invalid(s) \in Row
         /\ Invalid(s).hash = sessions[s].hash
         /\ Invalid(s).absolute = sessions[s].absolute
         /\ Invalid(s).idle = sessions[s].idle
         /\ Invalid(s).invalidated
         /\ sessions[s].idle \in Nat
         /\ sessions[s].idle <= clock + IdleTimeout
BY NullAssumption DEF IInv, TypeOK, Rows, Live, Invalid, Row

\* What logout and the rejections write.
LEMMA PutInvalid ==
  ASSUME IInv, NEW t \in Session, Live(t), NEW rs, rs = Put(t, Invalid(t))
  PROVE  /\ rs \in [Session -> Row \cup {Null}]
         /\ \A s \in Session : rs[s] # Null =>
              /\ s = t /\ Live(s)
              /\ rs[s].hash = sessions[s].hash
              /\ rs[s].absolute = sessions[s].absolute
              /\ rs[s].idle >= sessions[s].idle
              /\ rs[s].idle <= clock + IdleTimeout
<1>1. rs \in [Session -> Row \cup {Null}]
  BY RowInvalid DEF Put, NoRows
<1>2. \A s \in Session : rs[s] # Null => s = t /\ rs[s] = Invalid(t)
  BY DEF Put, NoRows
<1>3. QED
  BY <1>1, <1>2, RowInvalid

LEMMA RejectKeepsIInv ==
  ASSUME NEW r \in Request, pc[r] \in {"guard", "session"}, sessions[Token(r)] # Null, IInv,
         LockSession(r, Token(r)), RejectToken(r),
         UNCHANGED <<clock, rows, credentialLock, job, targets, history>>
  PROVE  IInv'
<1>1. Token(r) \in Session
  BY DEF IInv, Mine, Asked
<1> DEFINE rs == IF Live(Token(r)) THEN Put(Token(r), Invalid(Token(r))) ELSE NoRows
<1>2. rs \in [Session -> Row \cup {Null}]
  BY <1>1, PutInvalid DEF NoRows
<1>3. \A s \in Session : rs[s] # Null =>
        /\ s = Token(r) /\ Live(s)
        /\ rs[s].hash = sessions[s].hash
        /\ rs[s].absolute = sessions[s].absolute
        /\ rs[s].idle >= sessions[s].idle
        /\ rs[s].idle <= clock + IdleTimeout
  BY <1>1, PutInvalid DEF NoRows
<1>4. Deciding(r, Null, rs, "rejected")
  BY DEF Deciding, RejectToken
<1>5. QED
  BY <1>2, <1>3, <1>4, DecidingKeepsIInv

LEMMA GuardKeepsIInv ==
  ASSUME NEW r \in Request, IInv, Guard(r)
  PROVE  IInv'
<1> DEFINE t == Token(r)
           rs == Put(t, [sessions[t] EXCEPT !.idle = clock + IdleTimeout])
<1>1. CASE ~Accepted(t, clock)
  BY <1>1, RejectKeepsIInv DEF Guard
<1>2. CASE Accepted(t, clock)
  <2>1. t \in Session /\ Live(t) /\ sessions[t] \in Row
    BY <1>2, NullAssumption DEF Guard, IInv, TypeOK, Mine, Asked, Accepted, Live
  <2>2. /\ clock + IdleTimeout \in Nat
        /\ sessions[t].idle <= clock + IdleTimeout
    BY <2>1, DurationsAssumption DEF IInv, TypeOK, Rows, Live
  <2> DEFINE row == [sessions[t] EXCEPT !.idle = clock + IdleTimeout]
  <2>3. /\ row \in Row
        /\ row.hash = sessions[t].hash /\ row.absolute = sessions[t].absolute
        /\ row.idle = clock + IdleTimeout
    BY <2>1, <2>2 DEF Row
  <2> HIDE DEF row
  <2>4. rs \in [Session -> Row \cup {Null}]
    BY <2>1, <2>3 DEF Put, NoRows, row
  <2>5. \A s \in Session : rs[s] # Null => s = t /\ rs[s] = row
    BY DEF Put, NoRows, row
  <2>6. \A s \in Session : rs[s] # Null =>
          /\ s = Token(r) /\ Live(s)
          /\ rs[s].hash = sessions[s].hash
          /\ rs[s].absolute = sessions[s].absolute
          /\ rs[s].idle >= sessions[s].idle
          /\ rs[s].idle <= clock + IdleTimeout
    BY <2>1, <2>2, <2>3, <2>5 DEF Row
  <2>7. Deciding(r, Null, rs, "accepted")
    BY <1>2 DEF Deciding, Guard, AcceptToken, row
  <2>8. QED
    BY <1>2, <2>4, <2>6, <2>7, DecidingKeepsIInv DEF Guard
<1>3. QED BY <1>1, <1>2

LEMMA LogoutKeepsIInv ==
  ASSUME NEW r \in Request, IInv, Logout(r)
  PROVE  IInv'
<1> DEFINE t == Token(r)
<1>1. CASE ~Accepted(t, clock)
  BY <1>1, RejectKeepsIInv DEF Logout
<1>2. CASE Accepted(t, clock)
  <2>1. t \in Session /\ Live(t)
    BY <1>2 DEF Logout, IInv, Mine, Asked, Accepted
  <2>2. Deciding(r, Null, Put(t, Invalid(t)), "loggedout")
    BY <1>2 DEF Deciding, Logout
  <2>3. QED
    BY <1>2, <2>1, <2>2, PutInvalid, DecidingKeepsIInv DEF Logout
<1>3. QED BY <1>1, <1>2

-----------------------------------------------------------------------------
(* The credential row. *)

LEMMA LockCredentialKeepsIInv ==
  ASSUME NEW r \in Request, IInv, LockCredential(r)
  PROVE  IInv'
<1> USE NullAssumption DEF LockCredential
<1>1. TypeOK'
  BY DEF IInv, TypeOK, rows, history
<1>2. Apart(r)
  BY DEF IInv, TypeOK, Apart
<1>3. pc'[r] = "verify" /\ job'[r] = job[r] /\ write'[r] = Nothing
  BY DEF IInv, TypeOK, Mine, Decided
<1>4. Asked(r)'
  BY <1>3 DEF IInv, Mine, Asked, Kindof, Token
<1>5. Decided(r)' /\ NewCredential(r)' /\ NewRows(r)' /\ OwnSession(r)' /\ Swept(r)'
  BY <1>1, <1>3 DEF Decided, NewCredential, NewRows, OwnSession, Swept, Nothing, NoRows, TypeOK
<1>6. credentialLock' = r <=> Holds(r)'
  BY <1>3 DEF Holds
<1>7. credentialLock' # Null => credential # Null
  OBVIOUS
<1>8. QED
  BY <1>1, <1>2, <1>4, <1>5, <1>6, <1>7, StepKeepsIInv DEF Mine

\* The decisions of login.
LEMMA LoginDecidesKeepsIInv ==
  ASSUME NEW r \in Request, pc[r] = "verify", Kindof(r) = "login",
         NEW c \in Credential \cup {Null}, NEW rs \in [Session -> Row \cup {Null}],
         NEW outcome \in {"locked", "right", "wrong"},
         c # Null <=> outcome \in {"right", "wrong"},
         c # Null => c.hash = credential.hash,
         outcome = "wrong" => Counted(c, Append(guesses, clock), clock),
         outcome = "right" => c.failed = 0 /\ c.locked = Null,
         \A s \in Session : rs[s] # Null =>
           /\ outcome = "right"
           /\ sessions[s] = Null
           /\ rs[s].hash = credential.hash
           /\ rs[s].idle <= clock + IdleTimeout,
         IInv, Decide(r, c, rs, outcome),
         UNCHANGED <<clock, rows, locks, job, targets, history>>
  PROVE  IInv'
<1> USE NullAssumption DEF Decide, locks
<1>1. TypeOK'
  BY DEF IInv, TypeOK, rows, history
<1>2. Apart(r)
  BY DEF IInv, TypeOK, Apart
<1>3. /\ pc'[r] = "commit" /\ job'[r] = job[r]
      /\ write'[r] = [credential |-> c, rows |-> rs, outcome |-> outcome, at |-> clock]
  BY DEF IInv, TypeOK
<1>4. Asked(r)'
  BY <1>3 DEF IInv, Mine, Asked, Kindof, Token
<1>5. Decided(r)'
  BY <1>3 DEF IInv, TypeOK, Decided
<1>6. NewCredential(r)'
  <2>1. Counted(c, Append(guesses, clock), clock) =>
          Counted(c, Append(guesses, clock), clock)'
    BY <1>3 DEF rows, history, Counted
  <2>2. write'[r].outcome = outcome /\ write'[r].credential = c /\ write'[r].at = clock
    BY <1>3
  <2>3. outcome = "wrong" =>
          Counted(write[r].credential, Append(guesses, write[r].at), write[r].at)'
    BY <2>1, <2>2 DEF rows, history, Counted
  <2>4. QED BY <2>2, <2>3 DEF NewCredential, rows, history
<1>7. NewRows(r)'
  BY <1>3 DEF NewRows, rows
<1>8. OwnSession(r)' /\ Swept(r)'
  BY <1>3 DEF OwnSession, Swept
<1>9. credentialLock' = r <=> Holds(r)'
  BY <1>3 DEF Holds, IInv, CredentialIsLocked, ByCredential
<1>10. credentialLock' # Null => credential # Null
  BY DEF IInv, CredentialIsLocked
<1>11. QED
  BY <1>1, <1>2, <1>4, <1>5, <1>6, <1>7, <1>8, <1>9, <1>10, StepKeepsIInv DEF Mine

\* A request that has passed the credential row finds it as it was.
LEMMA HolderHasCredential ==
  ASSUME IInv, NEW r \in Request, Holds(r)
  PROVE  /\ credential \in Credential
         /\ credential.hash \in Nat /\ credential.failed \in Nat
         /\ credential.locked \in Nat \cup {Null}
         /\ credential.password \in Password
         /\ Counted(credential, guesses, clock)
<1>1. credential # Null
  BY NullAssumption DEF IInv, CredentialIsLocked
<1>2. credential \in Credential
  BY <1>1 DEF IInv, TypeOK
<1>3. QED
  BY <1>1, <1>2 DEF IInv, Rows, Credential

\* One more wrong password, after the lock has run out if there was one.
LEMMA OneMoreGuess ==
  ASSUME NEW g \in Seq(Nat), NEW now \in Nat,
         NEW c \in Credential, NEW d \in Credential, Counted(c, g, now),
         c.locked # Null => c.locked <= now,
         d.failed = FailedAttempts(c) + 1,
         d.locked = IF d.failed >= FailureLimit THEN now + LockDuration ELSE Null
  PROVE  Counted(d, Append(g, now), now)
<1> DEFINE h == Append(g, now)
           n == Len(g)
<1>1. /\ c.failed \in Nat /\ c.locked \in Nat \cup {Null} /\ d.failed \in Nat
      /\ FailureLimit \in Nat /\ FailureLimit >= 1 /\ LockDuration \in Nat
  BY DurationsAssumption DEF Credential
<1>2. /\ n \in Nat /\ Len(h) = n + 1 /\ h[n + 1] = now
      /\ \A i \in 1..n : h[i] = g[i] /\ g[i] \in Nat /\ g[i] <= now
      /\ \A i \in 1..(n + 1) : i = n + 1 \/ i \in 1..n
  BY DEF Counted
<1> HIDE DEF h, n
<1>3. d.failed <= FailureLimit /\ d.failed >= 1 /\ d.failed <= n + 1
  BY <1>1, DurationsAssumption DEF Counted, FailedAttempts, n
<1>4. \A i \in 1..n : i <= n + 1 - d.failed => g[i] + LockDuration <= now
  BY <1>1, <1>2, NullAssumption DEF Counted, FailedAttempts, n
<1>5. \A i \in 1..(n + 1) : h[i] \in Nat /\ h[i] <= now
  BY <1>2
<1>6. \A i \in 1..(n + 1) : i <= n + 1 - d.failed => i \in 1..n
  BY <1>1, <1>2, <1>3
<1>7. \A i, j \in 1..(n + 1) :
        i <= n + 1 - d.failed /\ n + 1 - d.failed < j => h[j] >= h[i] + LockDuration
  <2> SUFFICES ASSUME NEW i \in 1..(n + 1), NEW j \in 1..(n + 1),
                      i <= n + 1 - d.failed, n + 1 - d.failed < j
               PROVE  h[j] >= h[i] + LockDuration
    OBVIOUS
  <2>1. i \in 1..n /\ h[i] = g[i] /\ g[i] + LockDuration <= now
    BY <1>2, <1>4, <1>6
  <2>2. CASE j = n + 1
    BY <1>2, <2>1, <2>2
  <2>3. CASE j \in 1..n
    <3>1. CASE c.locked = Null
      <4>1. d.failed = c.failed + 1
        BY <3>1 DEF FailedAttempts
      <4>2. i <= n - c.failed /\ n - c.failed < j
        BY <1>1, <1>2, <4>1
      <4>3. QED BY <1>2, <2>1, <2>3, <4>2 DEF Counted, n
    <3>2. CASE c.locked # Null
      BY <1>1, <1>2, <2>3, <3>2 DEF FailedAttempts
    <3>3. QED BY <3>1, <3>2
  <2>4. QED BY <1>2, <2>2, <2>3
<1>8. \A i, j \in 1..(n + 1) : j >= i + FailureLimit => h[j] >= h[i] + LockDuration
  <2> SUFFICES ASSUME NEW i \in 1..(n + 1), NEW j \in 1..(n + 1), j >= i + FailureLimit
               PROVE  h[j] >= h[i] + LockDuration
    OBVIOUS
  <2>1. i \in 1..n
    BY <1>1, <1>2
  <2>2. CASE j = n + 1
    <3>1. i <= n + 1 - d.failed
      BY <1>1, <1>2, <1>3, <2>2
    <3>2. QED BY <1>2, <1>4, <2>1, <2>2, <3>1
  <2>3. CASE j \in 1..n
    BY <1>2, <2>1, <2>3 DEF Counted, n
  <2>4. QED BY <1>2, <2>2, <2>3
<1>9. IF d.locked = Null
      THEN /\ d.failed < FailureLimit
           /\ \A i \in 1..(n + 1) : i <= n + 1 - d.failed => now >= h[i] + LockDuration
      ELSE /\ d.failed = FailureLimit
           /\ \A i \in 1..(n + 1) : d.locked >= h[i] + LockDuration
  <2>1. now + LockDuration \in Nat /\ now + LockDuration # Null
    BY <1>1, NullAssumption
  <2>2. CASE d.failed >= FailureLimit
    <3>1. d.locked = now + LockDuration /\ d.failed = FailureLimit
      BY <1>1, <1>3, <2>2
    <3>2. QED BY <1>1, <1>5, <2>1, <3>1
  <2>3. CASE ~(d.failed >= FailureLimit)
    <3>1. d.locked = Null /\ d.failed < FailureLimit
      BY <1>1, <2>3
    <3>2. \A i \in 1..(n + 1) : i <= n + 1 - d.failed => now >= h[i] + LockDuration
      BY <1>1, <1>2, <1>4, <1>6
    <3>3. QED BY <3>1, <3>2
  <2>4. QED BY <2>2, <2>3
<1>10. Counted(d, h, now)
  <2>1. Len(h) = n + 1
    BY <1>2
  <2>2. \A i, j \in 1..Len(h) :
          i <= Len(h) - d.failed /\ Len(h) - d.failed < j => h[j] >= h[i] + LockDuration
    <3> SUFFICES ASSUME NEW i \in 1..Len(h), NEW j \in 1..Len(h),
                        i <= Len(h) - d.failed, Len(h) - d.failed < j
                 PROVE  h[j] >= h[i] + LockDuration
      OBVIOUS
    <3>1. i \in 1..(n + 1) /\ j \in 1..(n + 1) /\ i <= n + 1 - d.failed /\ n + 1 - d.failed < j
      BY <1>1, <1>2
    <3>2. QED BY <1>7, <3>1
  <2>3. \A i, j \in 1..Len(h) : j >= i + FailureLimit => h[j] >= h[i] + LockDuration
    BY <1>8, <2>1
  <2>4. IF d.locked = Null
        THEN /\ d.failed < FailureLimit
             /\ \A i \in 1..Len(h) : i <= Len(h) - d.failed => now >= h[i] + LockDuration
        ELSE /\ d.failed = FailureLimit
             /\ \A i \in 1..Len(h) : d.locked >= h[i] + LockDuration
    BY <1>1, <1>2, <1>9
  <2>5. d.failed <= Len(h) /\ \A i \in 1..Len(h) : h[i] <= now
    BY <1>3, <1>5, <2>1
  <2>6. QED BY <2>2, <2>3, <2>4, <2>5 DEF Counted
<1>11. QED
  BY <1>10 DEF h

LEMMA LoginKeepsIInv ==
  ASSUME NEW r \in Request, IInv,
         LoginWhileLocked(r) \/ LoginSucceeds(r) \/ LoginFails(r)
  PROVE  IInv'
<1> USE NullAssumption, DurationsAssumption
<1>1. CASE LoginWhileLocked(r)
  BY <1>1, LoginDecidesKeepsIInv DEF LoginWhileLocked, NoRows
<1>2. CASE LoginSucceeds(r)
  <2>1. Holds(r)
    BY <1>2 DEF LoginSucceeds, Holds
  <2> DEFINE c == [credential EXCEPT !.failed = 0, !.locked = Null]
  <2>2. c \in Credential /\ c.hash = credential.hash /\ c.failed = 0 /\ c.locked = Null
    BY <2>1, HolderHasCredential DEF Credential
  <2>3. PICK s \in Unissued :
          Decide(r, c, Put(s, [hash |-> credential.hash, idle |-> clock + IdleTimeout,
                               absolute |-> clock + AbsoluteTimeout, invalidated |-> FALSE]),
                 "right")
    BY <1>2 DEF LoginSucceeds
  <2> DEFINE row == [hash |-> credential.hash, idle |-> clock + IdleTimeout,
                     absolute |-> clock + AbsoluteTimeout, invalidated |-> FALSE]
             rs == Put(s, row)
  <2>4. row \in Row
    BY <2>1, HolderHasCredential DEF Row, IInv, TypeOK
  <2>5. rs \in [Session -> Row \cup {Null}]
    BY <2>4 DEF Put, NoRows
  <2>6. \A t \in Session : rs[t] # Null => t = s /\ rs[t] = row
    BY DEF Put, NoRows
  <2>7. \A t \in Session : rs[t] # Null =>
          /\ sessions[t] = Null
          /\ rs[t].hash = credential.hash
          /\ rs[t].idle <= clock + IdleTimeout
    <3>1. row.hash = credential.hash /\ row.idle <= clock + IdleTimeout
      BY DEF IInv, TypeOK
    <3>2. sessions[s] = Null
      BY DEF Unissued
    <3>3. QED BY <2>6, <3>1, <3>2
  <2> HIDE DEF c, row, rs
  <2>8. Decide(r, c, rs, "right")
    BY <2>3 DEF rs, row
  <2>9. QED
    BY <1>2, <2>2, <2>5, <2>7, <2>8, LoginDecidesKeepsIInv DEF LoginSucceeds
<1>3. CASE LoginFails(r)
  <2>1. Holds(r)
    BY <1>3 DEF LoginFails, Holds
  <2> DEFINE f == FailedAttempts(credential) + 1
             c == [credential EXCEPT
                     !.failed = f,
                     !.locked = IF f >= FailureLimit THEN clock + LockDuration ELSE Null]
  <2>2. f \in Nat /\ clock \in Nat /\ guesses \in Seq(Nat)
    BY <2>1, HolderHasCredential DEF FailedAttempts, IInv, TypeOK
  <2>3. /\ c \in Credential /\ c.hash = credential.hash /\ c.failed = f
        /\ c.locked = IF f >= FailureLimit THEN clock + LockDuration ELSE Null
    <3>1. (IF f >= FailureLimit THEN clock + LockDuration ELSE Null) \in Nat \cup {Null}
      BY <2>2
    <3>2. QED BY <2>1, <2>2, <3>1, HolderHasCredential DEF Credential
  <2>4. credential.locked # Null => credential.locked <= clock
    BY <1>3, <2>1, <2>2, HolderHasCredential DEF LoginFails, Locked
  <2>5. Decide(r, c, NoRows, "wrong")
    BY <1>3 DEF LoginFails
  <2> HIDE DEF c
  <2>6. Counted(c, Append(guesses, clock), clock)
    BY <2>1, <2>2, <2>3, <2>4, HolderHasCredential, OneMoreGuess
  <2>7. QED
    BY <1>3, <2>3, <2>5, <2>6, LoginDecidesKeepsIInv DEF LoginFails, NoRows
<1>4. QED BY <1>1, <1>2, <1>3

LEMMA ChangeVerifiedKeepsIInv ==
  ASSUME NEW r \in Request, IInv, ChangeVerified(r)
  PROVE  IInv'
<1> USE NullAssumption DEF ChangeVerified, locks
<1>1. write[r] = Nothing /\ clock \in Nat
  BY DEF IInv, TypeOK, Mine, Decided
<1>2. /\ pc'[r] = "own" /\ job'[r] = job[r]
      /\ write'[r] = [credential |-> Null, rows |-> NoRows, outcome |-> "none", at |-> clock]
  <2>1. pc'[r] = "own" /\ job'[r] = job[r] /\ write'[r] = [Nothing EXCEPT !.at = clock]
    BY <1>1 DEF IInv, TypeOK
  <2>2. QED BY <2>1 DEF Nothing
<1>3. TypeOK'
  BY <1>1, <1>2 DEF IInv, TypeOK, rows, history
<1>4. Apart(r)
  BY DEF IInv, TypeOK, Apart
<1>5. Asked(r)'
  BY <1>2 DEF IInv, Mine, Asked, Kindof, Token
<1>6. Decided(r)' /\ NewCredential(r)' /\ NewRows(r)' /\ OwnSession(r)' /\ Swept(r)'
  BY <1>1, <1>2 DEF Decided, NewCredential, NewRows, OwnSession, Swept, NoRows
<1>7. credentialLock' = r <=> Holds(r)'
  BY <1>2 DEF Holds, IInv, CredentialIsLocked
<1>8. credentialLock' # Null => credential # Null
  BY DEF IInv, CredentialIsLocked
<1>9. QED
  BY <1>3, <1>4, <1>5, <1>6, <1>7, <1>8, StepKeepsIInv DEF Mine

\* The bulk UPDATE of a change, which spares its own session, or of a reset.
LEMMA StartBulkKeepsIInv ==
  ASSUME NEW r \in Request, pc[r] \in {"verify", "own"}, NEW spared \in SUBSET Session,
         NEW c \in Credential, NEW outcome \in {"changed", "reset"}, NEW now \in Nat,
         now <= clock,
         outcome = "changed" => c.failed = credential.failed /\ c.locked = credential.locked,
         outcome = "changed" =>
           /\ Kindof(r) = "change"
           /\ spared = {Token(r)}
           /\ Accepted(Token(r), now)
           /\ sessionLock'[Token(r)] = r,
         outcome = "reset" => c.failed = 0 /\ c.locked = Null /\ spared = {},
         sessionLock' \in [Session -> Request \cup {Null}],
         \A s \in Session : \A q \in Request \ {r} : sessionLock[s] = q => sessionLock'[s] = q,
         IInv, StartBulk(r, spared, c, outcome, now),
         UNCHANGED <<clock, rows, credentialLock, job, history>>
  PROVE  IInv'
<1> USE NullAssumption DEF StartBulk
<1>1. /\ pc'[r] = "others" /\ job'[r] = job[r]
      /\ targets'[r] = {s \in Session \ spared : Live(s)}
      /\ write'[r] = [credential |-> c, rows |-> NoRows, outcome |-> outcome, at |-> now]
  BY DEF IInv, TypeOK
<1>2. TypeOK'
  BY DEF IInv, TypeOK, rows, history, NoRows
<1>3. Apart(r)
  BY DEF IInv, TypeOK, Apart
<1>4. Asked(r)'
  BY <1>1 DEF IInv, Mine, Asked, Kindof, Token
<1>5. Decided(r)' /\ NewCredential(r)' /\ NewRows(r)'
  BY <1>1 DEF IInv, Mine, Asked, Decided, NewCredential, NewRows, NoRows, Kindof, Token, rows
<1>6. OwnSession(r)'
  BY <1>1 DEF OwnSession, Accepted, Live, Token, rows
<1>7. Swept(r)'
  BY <1>1 DEF Swept, Live, Token, rows
<1>8. credentialLock' = r <=> Holds(r)'
  BY <1>1 DEF Holds, IInv, CredentialIsLocked
<1>9. credentialLock' # Null => credential # Null
  BY DEF IInv, CredentialIsLocked
<1>10. QED
  BY <1>2, <1>3, <1>4, <1>5, <1>6, <1>7, <1>8, <1>9, StepKeepsIInv DEF Mine

LEMMA NewHashIsCredential ==
  ASSUME IInv, NEW r \in Request, pc[r] \in {"verify", "own"}, Kindof(r) \in {"change", "reset"}
  PROVE  /\ NewHash(r) \in Credential
         /\ NewHash(r).failed = credential.failed
         /\ NewHash(r).locked = credential.locked
<1>1. Holds(r) /\ job[r].new \in Password
  BY DEF Holds, IInv, Mine, Asked
<1>2. QED
  <2>1. credential \in Credential /\ credential.hash + 1 \in Nat
    BY <1>1, HolderHasCredential
  <2>2. NewHash(r) = [credential EXCEPT !.password = job[r].new, !.hash = credential.hash + 1]
    BY <2>1 DEF NewHash, Credential
  <2>3. QED BY <1>1, <2>1, <2>2 DEF Credential

LEMMA ChangeAcceptedKeepsIInv ==
  ASSUME NEW r \in Request, IInv, ChangeAccepted(r)
  PROVE  IInv'
<1>1. /\ pc[r] = "own" /\ Kindof(r) = "change" /\ Token(r) \in Session
      /\ write[r].at \in Nat /\ write[r].at <= clock
  BY DEF ChangeAccepted, IInv, TypeOK, Mine, Asked, Decided
<1>2. /\ NewHash(r) \in Credential
      /\ NewHash(r).failed = credential.failed
      /\ NewHash(r).locked = credential.locked
  BY <1>1, NewHashIsCredential
<1>3. /\ sessionLock' \in [Session -> Request \cup {Null}]
      /\ sessionLock'[Token(r)] = r
      /\ \A s \in Session : \A q \in Request \ {r} : sessionLock[s] = q => sessionLock'[s] = q
  BY <1>1, NullAssumption DEF ChangeAccepted, LockSession, IInv, TypeOK
<1>4. QED
  BY <1>1, <1>2, <1>3, StartBulkKeepsIInv DEF ChangeAccepted

LEMMA ResetKeepsIInv ==
  ASSUME NEW r \in Request, IInv, Reset(r)
  PROVE  IInv'
<1> DEFINE c == [NewHash(r) EXCEPT !.failed = 0, !.locked = Null]
<1>1. c \in Credential /\ c.failed = 0 /\ c.locked = Null
  BY NewHashIsCredential DEF Reset, Credential
<1>2. /\ clock \in Nat /\ clock <= clock
      /\ sessionLock' \in [Session -> Request \cup {Null}]
      /\ \A s \in Session : \A q \in Request \ {r} : sessionLock[s] = q => sessionLock'[s] = q
  BY DEF Reset, locks, IInv, TypeOK
<1>3. QED
  BY <1>1, <1>2, StartBulkKeepsIInv DEF Reset, locks

LEMMA InvalidateNextKeepsIInv ==
  ASSUME NEW r \in Request, NEW s \in Session, IInv, InvalidateNext(r, s)
  PROVE  IInv'
<1> USE NullAssumption DEF InvalidateNext
<1>1. /\ pc' = pc /\ job' = job
      /\ targets'[r] = targets[r] \ {s}
      /\ write'[r].outcome = write[r].outcome
      /\ write'[r].credential = write[r].credential
      /\ write'[r].at = write[r].at
      /\ \A t \in Session \ {s} : write'[r].rows[t] = write[r].rows[t]
      /\ ~Live(s) => write'[r].rows[s] = write[r].rows[s]
  BY DEF IInv, TypeOK
<1>2. Live(s) => write'[r].rows[s] = Invalid(s) /\ sessionLock'[s] = r
  BY DEF IInv, TypeOK
<1>3. TypeOK'
  <2>1. CASE ~Live(s)
    BY <2>1 DEF IInv, TypeOK, rows, history
  <2>2. CASE Live(s)
    <3>1. Invalid(s) \in Row
      BY <2>2, RowInvalid
    <3>2. [write[r].rows EXCEPT ![s] = Invalid(s)] \in [Session -> Row \cup {Null}]
      BY <3>1 DEF IInv, TypeOK
    <3>3. write' = [write EXCEPT ![r] =
                      [write[r] EXCEPT !.rows = [write[r].rows EXCEPT ![s] = Invalid(s)]]]
      BY <2>2 DEF IInv, TypeOK
    <3> DEFINE Write == [credential : Credential \cup {Null},
                         rows       : [Session -> Row \cup {Null}],
                         outcome    : {"none", "accepted", "rejected", "loggedout", "locked",
                                       "right", "wrong", "changed", "reset"},
                         at         : Nat]
    <3>4. write \in [Request -> Write] /\ write[r] \in Write
      BY DEF IInv, TypeOK
    <3>5. [write[r] EXCEPT !.rows = [write[r].rows EXCEPT ![s] = Invalid(s)]] \in Write
      BY <3>2, <3>4
    <3> HIDE DEF Write
    <3>6. write' \in [Request -> Write]
      BY <3>3, <3>4, <3>5
    <3>7. sessionLock' \in [Session -> Request \cup {Null}]
      <4>1. sessionLock' = [sessionLock EXCEPT ![s] = r]
        BY <2>2
      <4>2. sessionLock \in [Session -> Request \cup {Null}]
        BY DEF IInv, TypeOK
      <4>3. QED BY <4>1, <4>2
    <3>8. QED
      BY <3>6, <3>7 DEF IInv, TypeOK, rows, history, Write
  <2>3. QED BY <2>1, <2>2
<1>4. Apart(r)
  BY DEF IInv, TypeOK, Apart
<1>5. Asked(r)' /\ Decided(r)'
  BY <1>1 DEF IInv, Mine, Asked, Decided, Kindof, Token
<1>6. NewCredential(r)'
  BY <1>1 DEF IInv, Mine, NewCredential, Counted, rows, history
<1>7. \A t \in Session : sessionLock[t] = r => sessionLock'[t] = r
  BY DEF IInv, TypeOK
<1>8. NewRows(r)'
  <2>1. ASSUME NEW t \in Session, write'[r].rows[t] = write[r].rows[t], write'[r].rows[t] # Null
        PROVE  /\ write'[r].rows[t].idle <= clock + IdleTimeout
               /\ \/ /\ write'[r].outcome = "right"
                     /\ sessions[t] = Null
                     /\ write'[r].rows[t].hash = credential.hash
                  \/ /\ sessionLock'[t] = r
                     /\ Live(t)
                     /\ write'[r].rows[t].hash = sessions[t].hash
                     /\ write'[r].rows[t].absolute = sessions[t].absolute
                     /\ write'[r].rows[t].idle >= sessions[t].idle
    BY <1>1, <1>7, <2>1 DEF IInv, Mine, NewRows
  <2>2. CASE Live(s)
    <3>1. /\ write'[r].rows[s].idle <= clock + IdleTimeout
          /\ sessionLock'[s] = r
          /\ write'[r].rows[s].hash = sessions[s].hash
          /\ write'[r].rows[s].absolute = sessions[s].absolute
          /\ write'[r].rows[s].idle >= sessions[s].idle
      BY <1>2, <2>2, RowInvalid
    <3>2. QED BY <1>1, <2>1, <2>2, <3>1 DEF NewRows, Live, rows
  <2>3. CASE ~Live(s)
    BY <1>1, <2>1, <2>3 DEF NewRows, Live, rows
  <2>4. QED BY <2>2, <2>3
<1>9. OwnSession(r)'
  BY <1>1, <1>7 DEF IInv, Mine, Decided, OwnSession, Live, Token, rows
<1>10. Swept(r)'
  <2>1. Live(s) => write'[r].rows[s] # Null /\ write'[r].rows[s].invalidated
    BY <1>2, RowInvalid
  <2>2. QED BY <1>1, <2>1 DEF IInv, Mine, Swept, Live, Token, rows
<1>11. credentialLock' = r <=> Holds(r)'
  BY <1>1 DEF Holds, IInv, CredentialIsLocked
<1>12. credentialLock' # Null => credential # Null
  BY DEF IInv, CredentialIsLocked
<1>13. QED
  BY <1>3, <1>4, <1>5, <1>6, <1>8, <1>9, <1>10, <1>11, <1>12, StepKeepsIInv DEF Mine

LEMMA EndBulkKeepsIInv ==
  ASSUME NEW r \in Request, IInv, EndBulk(r)
  PROVE  IInv'
<1> USE NullAssumption DEF EndBulk, locks
<1>1. /\ pc'[r] = "commit" /\ job' = job /\ targets' = targets /\ write' = write
      /\ write[r].outcome \in {"changed", "reset"}
  BY DEF IInv, TypeOK, Mine, Decided
<1>2. TypeOK'
  BY DEF IInv, TypeOK, rows, history
<1>3. Apart(r)
  BY DEF IInv, TypeOK, Apart
<1>4. Asked(r)' /\ Decided(r)'
  BY <1>1 DEF IInv, Mine, Asked, Decided, Kindof, Token
<1>5. NewCredential(r)' /\ NewRows(r)'
  BY <1>1 DEF IInv, Mine, NewCredential, NewRows, Counted, Live, rows, history
<1>6. OwnSession(r)'
  BY <1>1 DEF IInv, Mine, OwnSession, Live, Token, rows
<1>7. Swept(r)'
  BY <1>1 DEF IInv, Mine, Swept, Live, Token, rows
<1>8. credentialLock' = r <=> Holds(r)'
  BY <1>1 DEF Holds, IInv, CredentialIsLocked, ByCredential
<1>9. credentialLock' # Null => credential # Null
  BY DEF IInv, CredentialIsLocked
<1>10. QED
  BY <1>2, <1>3, <1>4, <1>5, <1>6, <1>7, <1>8, <1>9, StepKeepsIInv DEF Mine

\* Time does nothing but let a lock run out.
LEMMA CountedLater ==
  ASSUME NEW c, NEW g \in Seq(Nat), NEW now \in Nat, NEW later \in Nat, now <= later,
         Counted(c, g, now)
  PROVE  Counted(c, g, later)
<1>1. \A i \in 1..Len(g) : g[i] \in Nat
  OBVIOUS
<1>2. LockDuration \in Nat
  BY DurationsAssumption
<1>3. \A i \in 1..Len(g) : g[i] <= later
  BY <1>1 DEF Counted
<1>4. \A i \in 1..Len(g) : now >= g[i] + LockDuration => later >= g[i] + LockDuration
  BY <1>1, <1>2
<1>5. QED
  BY <1>3, <1>4 DEF Counted

-----------------------------------------------------------------------------
(* The commit. *)

\* What a commit does to the rows, whatever its kind.
LEMMA CommitRows ==
  ASSUME NEW r \in Request, IInv, Commit(r)
  PROVE  /\ \A s \in Session : write[r].rows[s] = Null => sessions'[s] = sessions[s]
         /\ \A s \in Session : write[r].rows[s] # Null => sessions'[s] = write[r].rows[s]
         /\ \A s \in Session : write[r].rows[s] # Null =>
              \/ write[r].outcome = "right" /\ sessions[s] = Null
              \/ sessionLock[s] = r /\ Live(s)
         /\ \A s \in Session : Live(s)' =>
              Live(s) \/ (write[r].outcome = "right" /\ sessions[s] = Null)
         /\ ~Holds(r) => credential' = credential /\ guesses' = guesses
         /\ credential # Null => credential' # Null
<1> USE NullAssumption DEF Commit
<1>1. \A s \in Session : write[r].rows[s] = Null => sessions'[s] = sessions[s]
  OBVIOUS
<1>2. \A s \in Session : write[r].rows[s] # Null => sessions'[s] = write[r].rows[s]
  OBVIOUS
<1>3. \A s \in Session : write[r].rows[s] # Null =>
        \/ write[r].outcome = "right" /\ sessions[s] = Null
        \/ sessionLock[s] = r /\ Live(s)
  BY DEF IInv, Mine, NewRows
<1>4. \A s \in Session : Live(s)' =>
        Live(s) \/ (write[r].outcome = "right" /\ sessions[s] = Null)
  BY <1>1, <1>3 DEF Live
<1>5. ~Holds(r) => write[r].outcome \notin ByCredential
  BY DEF Holds
<1>6. ~Holds(r) => credential' = credential /\ guesses' = guesses
  BY <1>5 DEF ByCredential, IInv, Mine, NewCredential
<1>7. credential # Null => credential' # Null
  OBVIOUS
<1>8. QED
  BY <1>1, <1>2, <1>3, <1>4, <1>6, <1>7

LEMMA CommitKeepsTypeOK ==
  ASSUME NEW r \in Request, IInv, Commit(r)
  PROVE  TypeOK'
<1> USE NullAssumption DEF Commit, EndTransaction
<1>1. write[r].at \in Nat /\ write[r].credential \in Credential \cup {Null}
  BY DEF IInv, TypeOK
<1>2. guesses' \in Seq(Nat) /\ credential' \in Credential \cup {Null}
  BY <1>1 DEF IInv, TypeOK
<1>3. sessions' \in [Session -> Row \cup {Null}]
  BY DEF IInv, TypeOK
<1>4. keeper' \in Session \cup {Null}
  BY DEF IInv, TypeOK, Mine, Decided
<1>5. After(r) \in {"idle", "session", "credential"}
  BY DEF After
<1>6. pc' \in [Request -> {"idle", "guard", "session", "credential", "verify", "own",
                           "others", "commit"}]
  BY <1>5 DEF IInv, TypeOK
<1>7. /\ job' \in [Request -> Job \cup {Null}]
      /\ targets' \in [Request -> SUBSET Session]
      /\ credentialLock' \in Request \cup {Null}
      /\ sessionLock' \in [Session -> Request \cup {Null}]
  BY DEF IInv, TypeOK
<1>8. write' \in [Request ->
        [credential : Credential \cup {Null},
         rows       : [Session -> Row \cup {Null}],
         outcome    : {"none", "accepted", "rejected", "loggedout", "locked", "right",
                       "wrong", "changed", "reset"},
         at         : Nat]]
  BY DEF IInv, TypeOK, Nothing, NoRows
<1>9. clock' \in Nat
  BY DEF IInv, TypeOK
<1>10. QED
  BY <1>2, <1>3, <1>4, <1>6, <1>7, <1>8, <1>9 DEF TypeOK

\* The others find the rows they have locked as they were.
LEMMA CommitKeepsOthers ==
  ASSUME NEW r \in Request, NEW q \in Request, q # r, IInv, Commit(r)
  PROVE  Mine(q)'
<1> USE NullAssumption
<1>1. /\ pc'[q] = pc[q] /\ job'[q] = job[q] /\ targets'[q] = targets[q]
      /\ write'[q] = write[q] /\ clock' = clock
      /\ \A s \in Session : sessionLock[s] = q => sessionLock'[s] = q
  BY DEF Commit, EndTransaction, IInv, TypeOK
<1>2. Holds(q) => ~Holds(r)
  BY DEF IInv, CredentialIsLocked
<1>3. Holds(q) => credential' = credential /\ guesses' = guesses
  BY <1>2, CommitRows
<1>4. write[q].outcome \in ByCredential => Holds(q)
  BY DEF Holds, ByCredential, IInv, Mine, Decided, Nothing
<1>5. \A s \in Session : sessionLock[s] = q /\ Live(s) => sessions'[s] = sessions[s]
  BY CommitRows DEF Live
<1>6. Asked(q)' /\ Decided(q)'
  BY <1>1 DEF IInv, Mine, Asked, Decided, Kindof, Token
<1>7. NewCredential(q)'
  <2>1. CASE write[q].outcome \in ByCredential
    <3>1. credential' = credential /\ guesses' = guesses
      BY <1>3, <1>4, <2>1
    <3>2. QED BY <1>1, <3>1 DEF IInv, Mine, NewCredential, Counted
  <2>2. CASE write[q].outcome \notin ByCredential
    BY <1>1, <2>2 DEF IInv, Mine, NewCredential, ByCredential
  <2>3. QED BY <2>1, <2>2
<1>8. NewRows(q)'
  <2> SUFFICES ASSUME NEW s \in Session, write[q].rows[s] # Null
               PROVE  /\ write[q].rows[s].idle <= clock + IdleTimeout
                      /\ \/ /\ write[q].outcome = "right"
                            /\ sessions'[s] = Null
                            /\ write[q].rows[s].hash = credential'.hash
                         \/ /\ sessionLock'[s] = q
                            /\ Live(s)'
                            /\ write[q].rows[s].hash = sessions'[s].hash
                            /\ write[q].rows[s].absolute = sessions'[s].absolute
                            /\ write[q].rows[s].idle >= sessions'[s].idle
    BY <1>1 DEF NewRows
  <2>1. write[q].rows[s].idle <= clock + IdleTimeout
    BY DEF IInv, Mine, NewRows
  <2>2. CASE /\ write[q].outcome = "right" /\ sessions[s] = Null
             /\ write[q].rows[s].hash = credential.hash
    <3>1. credential' = credential /\ ~Holds(r)
      BY <1>2, <1>3, <1>4, <2>2 DEF ByCredential
    <3>2. write[r].outcome # "right"
      BY <3>1 DEF Holds, ByCredential, Commit
    <3>3. sessions'[s] = Null
      BY <2>2, <3>2, CommitRows DEF Live
    <3>4. QED BY <2>1, <2>2, <3>1, <3>3
  <2>3. CASE /\ sessionLock[s] = q
             /\ Live(s)
             /\ write[q].rows[s].hash = sessions[s].hash
             /\ write[q].rows[s].absolute = sessions[s].absolute
             /\ write[q].rows[s].idle >= sessions[s].idle
    BY <1>1, <1>5, <2>1, <2>3 DEF Live
  <2>4. QED
    BY <2>2, <2>3 DEF IInv, Mine, NewRows
<1>9. OwnSession(q)'
  BY <1>1, <1>5 DEF IInv, Mine, Decided, OwnSession, Live, Token
<1>10. Swept(q)'
  <2>1. CASE write[q].outcome \in {"changed", "reset"}
    <3>1. write[r].outcome # "right"
      BY <1>2, <1>4, <2>1 DEF Holds, ByCredential, Commit
    <3>2. \A s \in Session : Live(s)' => Live(s)
      BY <3>1, CommitRows
    <3>3. \A s \in Session : Live(s) =>
            \/ pc[q] = "others" /\ s \in targets[q]
            \/ write[q].rows[s] # Null /\ write[q].rows[s].invalidated
            \/ write[q].outcome = "changed" /\ s = Token(q)
      BY <2>1 DEF IInv, Mine, Swept
    <3>4. QED BY <1>1, <3>2, <3>3 DEF Swept, Token
  <2>2. CASE write[q].outcome \notin {"changed", "reset"}
    BY <1>1, <2>2 DEF Swept
  <2>3. QED BY <2>1, <2>2
<1>11. QED
  BY <1>6, <1>7, <1>8, <1>9, <1>10 DEF Mine

\* Its own writes are gone; logout and change go on.
LEMMA CommitKeepsMine ==
  ASSUME NEW r \in Request, IInv, Commit(r)
  PROVE  Mine(r)'
<1> USE NullAssumption
<1>1. /\ pc'[r] = After(r) /\ write'[r] = Nothing
      /\ After(r) # "idle" => job'[r] = job[r]
  BY DEF Commit, EndTransaction, IInv, TypeOK
<1>2. /\ After(r) \in {"idle", "session", "credential"}
      /\ After(r) = "session" => Kindof(r) = "logout"
      /\ After(r) = "credential" => Kindof(r) = "change"
  BY DEF After
<1>3. Asked(r)'
  BY <1>1, <1>2 DEF Commit, IInv, Mine, Asked, Kindof, Token
<1>4. Decided(r)' /\ NewCredential(r)' /\ NewRows(r)' /\ OwnSession(r)' /\ Swept(r)'
  BY <1>1, <1>2 DEF Commit, IInv, TypeOK, Decided, NewCredential, NewRows, OwnSession, Swept,
     Nothing, NoRows
<1>5. QED
  BY <1>3, <1>4 DEF Mine

\* The hashes: no step but a change and a reset sets one, and those leave no session of
\* the old one behind.
LEMMA CommitKeepsPasswords ==
  ASSUME NEW r \in Request, IInv, Commit(r)
  PROVE  NoSessionOutlivesItsPassword'
<1> USE NullAssumption
<1> SUFFICES ASSUME NEW s \in Session, Live(s)'
             PROVE  sessions'[s].hash = credential'.hash \/ s = keeper'
  BY DEF NoSessionOutlivesItsPassword
<1>1. Live(s) => sessions[s].hash = credential.hash \/ s = keeper
  BY DEF IInv, Rows, NoSessionOutlivesItsPassword
<1>2. Live(s) => sessions'[s].hash = sessions[s].hash
  BY CommitRows DEF Live, IInv, Mine, NewRows
<1>3. /\ write[r].outcome \in {"right", "wrong"} => write[r].credential.hash = credential.hash
      /\ write[r].credential # Null <=>
           write[r].outcome \in {"right", "wrong", "changed", "reset"}
  BY DEF IInv, Mine, NewCredential
<1>4. CASE write[r].outcome \notin {"changed", "reset"}
  <2>1. credential'.hash = credential.hash /\ keeper' = keeper
    BY <1>3, <1>4 DEF Commit
  <2>2. CASE Live(s)
    BY <1>1, <1>2, <2>1, <2>2
  <2>3. CASE ~Live(s)
    <3>1. write[r].outcome = "right" /\ sessions[s] = Null
      BY <2>3, CommitRows
    <3>2. write[r].rows[s] # Null /\ sessions'[s] = write[r].rows[s]
      BY <3>1, CommitRows DEF Live
    <3>3. write[r].rows[s].hash = credential.hash
      BY <3>1, <3>2 DEF IInv, Mine, NewRows, Live
    <3>4. QED BY <2>1, <3>2, <3>3
  <2>4. QED BY <2>2, <2>3
<1>5. CASE write[r].outcome \in {"changed", "reset"}
  <2>1. Live(s)
    BY <1>5, CommitRows
  <2>2. ~(write[r].rows[s] # Null /\ write[r].rows[s].invalidated)
    BY CommitRows DEF Live
  <2>3. write[r].outcome = "changed" /\ s = Token(r)
    BY <1>5, <2>1, <2>2 DEF IInv, Mine, Swept, Commit
  <2>4. QED BY <2>3 DEF Commit
<1>6. QED BY <1>4, <1>5

LEMMA CommitKeepsCounts ==
  ASSUME NEW r \in Request, IInv, Commit(r)
  PROVE  credential' # Null => Counted(credential, guesses, clock)'
<1> USE NullAssumption, DurationsAssumption
<1> DEFINE o == write[r].outcome
<1>1. clock' = clock /\ clock \in Nat /\ write[r].at \in Nat /\ write[r].at <= clock
  BY DEF Commit, IInv, TypeOK, Mine, Decided
<1>2. /\ write[r].credential # Null <=> o \in {"right", "wrong", "changed", "reset"}
      /\ o = "wrong" => Counted(write[r].credential, Append(guesses, write[r].at), write[r].at)
      /\ o = "changed" => /\ write[r].credential.failed = credential.failed
                          /\ write[r].credential.locked = credential.locked
      /\ o \in {"right", "reset"} => /\ write[r].credential.failed = 0
                                     /\ write[r].credential.locked = Null
  BY DEF IInv, Mine, NewCredential
<1>3. CASE o \in {"right", "reset"}
  <2>1. guesses' = <<>> /\ credential'.failed = 0 /\ credential'.locked = Null
    BY <1>2, <1>3 DEF Commit
  <2>2. QED BY <2>1 DEF Counted
<1>4. CASE o = "wrong"
  <2>1. guesses' = Append(guesses, write[r].at) /\ credential' = write[r].credential
    BY <1>2, <1>4 DEF Commit
  <2>2. Counted(credential', guesses', write[r].at)
    BY <1>2, <1>4, <2>1
  <2>3. guesses' \in Seq(Nat)
    BY <1>1, <2>1 DEF IInv, TypeOK
  <2>4. Counted(credential', guesses', clock)
    BY <1>1, <2>2, <2>3, CountedLater
  <2>5. QED BY <1>1, <2>4 DEF Counted
<1>5. CASE o = "changed"
  <2>1. /\ guesses' = guesses /\ credential'.failed = credential.failed
        /\ credential'.locked = credential.locked
    BY <1>2, <1>5 DEF Commit
  <2>2. Holds(r)
    BY <1>5 DEF Commit, Holds, ByCredential
  <2>3. QED
    BY <1>1, <2>1, <2>2, HolderHasCredential DEF Counted
<1>6. CASE o \notin {"right", "wrong", "changed", "reset"}
  <2>1. guesses' = guesses /\ credential' = credential
    BY <1>2, <1>6 DEF Commit
  <2>2. QED BY <1>1, <2>1 DEF IInv, Rows, Counted
<1>7. QED BY <1>3, <1>4, <1>5, <1>6

LEMMA CommitKeepsIInv ==
  ASSUME NEW r \in Request, IInv, Commit(r)
  PROVE  IInv'
<1> USE NullAssumption
<1>1. TypeOK'
  BY CommitKeepsTypeOK
<1>2. CredentialIsLocked'
  <2>1. ASSUME NEW q \in Request PROVE credentialLock' = q <=> Holds(q)'
    <3>1. CASE q = r
      <4>1. pc'[r] = After(r) /\ write'[r] = Nothing /\ credentialLock' # r
        BY DEF Commit, EndTransaction, IInv, TypeOK
      <4>2. QED BY <3>1, <4>1 DEF Holds, After
    <3>2. CASE q # r
      <4>1. pc'[q] = pc[q] /\ write'[q] = write[q]
        BY <3>2 DEF Commit, EndTransaction, IInv, TypeOK
      <4>2. credentialLock' = q <=> credentialLock = q
        BY <3>2 DEF Commit, EndTransaction
      <4>3. QED BY <4>1, <4>2 DEF IInv, CredentialIsLocked, Holds
    <3>3. QED BY <3>1, <3>2
  <2>2. credentialLock' # Null => credential' # Null
    BY CommitRows DEF Commit, EndTransaction, IInv, CredentialIsLocked
  <2>3. QED BY <2>1, <2>2 DEF CredentialIsLocked
<1>3. ASSUME NEW q \in Request PROVE Mine(q)'
  BY CommitKeepsMine, CommitKeepsOthers
<1>4. Rows'
  <2>1. credential' = Null => sessions' = NoRows /\ guesses' = <<>>
    <3> SUFFICES ASSUME credential' = Null PROVE sessions' = NoRows /\ guesses' = <<>>
      OBVIOUS
    <3>1. credential = Null /\ ~Holds(r)
      BY CommitRows, HolderHasCredential
    <3>2. guesses' = <<>> /\ sessions = NoRows
      BY <3>1, CommitRows DEF IInv, Rows
    <3>3. \A s \in Session : write[r].rows[s] = Null
      BY <3>1, <3>2, CommitRows DEF NoRows, Live, Commit, Holds, ByCredential
    <3>4. QED BY <3>2, <3>3 DEF Commit, NoRows
  <2>2. credential' # Null => Counted(credential, guesses, clock)'
    BY CommitKeepsCounts
  <2>3. ASSUME NEW s \in Session, sessions'[s] # Null
        PROVE  sessions'[s].idle <= clock' + IdleTimeout
    BY <2>3, CommitRows DEF Commit, IInv, Mine, NewRows, Rows
  <2>4. NoSessionOutlivesItsPassword'
    BY CommitKeepsPasswords
  <2>5. QED BY <2>1, <2>2, <2>3, <2>4 DEF Rows
<1>5. QED
  BY <1>1, <1>2, <1>3, <1>4 DEF IInv

-----------------------------------------------------------------------------
\* The host creates the credential: nobody is past it, and there are no sessions.
LEMMA BootstrapKeepsIInv ==
  ASSUME NEW p \in Password, IInv, Bootstrap(p)
  PROVE  IInv'
<1> USE NullAssumption, DurationsAssumption DEF Bootstrap, locks, history
<1> DEFINE c == [password |-> p, hash |-> 1, failed |-> 0, locked |-> Null]
<1>1. c \in Credential /\ c # Null /\ credential' = c
  BY DEF Credential
<1>2. TypeOK'
  BY <1>1 DEF IInv, TypeOK
<1>3. \A r \in Request : ~Holds(r)
  BY DEF IInv, TypeOK, CredentialIsLocked
<1>4. CredentialIsLocked'
  BY <1>1 DEF IInv, CredentialIsLocked, Holds
<1>5. ASSUME NEW r \in Request PROVE Mine(r)'
  <2>1. write[r].outcome \notin ByCredential
    BY <1>3 DEF Holds, ByCredential, IInv, Mine, Decided, Nothing
  <2>2. Asked(r)' /\ Decided(r)' /\ OwnSession(r)'
    BY DEF IInv, Mine, Asked, Decided, OwnSession, Live, Kindof, Token
  <2>3. NewCredential(r)' /\ NewRows(r)' /\ Swept(r)'
    BY <2>1 DEF IInv, Mine, NewCredential, NewRows, Swept, Live, ByCredential
  <2>4. QED BY <2>2, <2>3 DEF Mine
<1>6. Rows'
  <2>1. sessions = NoRows /\ guesses = <<>>
    BY DEF IInv, Rows
  <2>2. Counted(c, <<>>, clock)
    BY DEF Counted
  <2>3. Counted(credential, guesses, clock)'
    BY <1>1, <2>1, <2>2 DEF Counted
  <2>4. QED
    BY <1>1, <2>1, <2>3 DEF Rows, NoSessionOutlivesItsPassword, Live, NoRows
<1>7. QED
  BY <1>2, <1>4, <1>5, <1>6 DEF IInv

LEMMA TickKeepsIInv ==
  ASSUME IInv, Tick
  PROVE  IInv'
<1> USE NullAssumption, DurationsAssumption DEF Tick, rows, locks, history
<1>1. clock \in Nat /\ clock' \in Nat /\ clock <= clock'
  BY DEF IInv, TypeOK
<1>2. TypeOK'
  BY <1>1 DEF IInv, TypeOK
<1>3. CredentialIsLocked'
  BY DEF IInv, CredentialIsLocked, Holds
<1>4. \A n \in Nat : n <= clock => n <= clock'
  BY <1>1
<1>5. \A n \in Nat : n <= clock + IdleTimeout => n <= clock' + IdleTimeout
  BY <1>1
<1>6. ASSUME NEW r \in Request PROVE Mine(r)'
  <2>1. Asked(r)' /\ Decided(r)'
    BY <1>4 DEF IInv, TypeOK, Mine, Asked, Decided, Kindof, Token
  <2>2. NewCredential(r)'
    BY DEF IInv, Mine, NewCredential, Counted
  <2>3. NewRows(r)'
    <3>1. \A s \in Session : write[r].rows[s] # Null => write[r].rows[s].idle \in Nat
      BY DEF IInv, TypeOK, Row
    <3>2. QED BY <1>5, <3>1 DEF IInv, Mine, NewRows, Live
  <2>4. OwnSession(r)' /\ Swept(r)'
    BY DEF IInv, Mine, OwnSession, Swept, Live, Token
  <2>5. QED BY <2>1, <2>2, <2>3, <2>4 DEF Mine
<1>7. Rows'
  <2>1. credential # Null => Counted(credential, guesses, clock')
    BY <1>1, CountedLater DEF IInv, TypeOK, Rows
  <2>2. credential' # Null => Counted(credential, guesses, clock)'
    BY <2>1 DEF Counted
  <2>3. \A s \in Session : sessions[s] # Null => sessions[s].idle \in Nat
    BY DEF IInv, TypeOK, Row
  <2>4. QED
    BY <1>5, <2>2, <2>3 DEF IInv, Rows, NoSessionOutlivesItsPassword, Live
<1>8. QED
  BY <1>2, <1>3, <1>6, <1>7 DEF IInv

LEMMA StutterKeepsIInv ==
  ASSUME IInv, UNCHANGED vars
  PROVE  IInv'
<1> USE DEF vars, rows, locks, history
<1>1. TypeOK' /\ CredentialIsLocked'
  BY DEF IInv, TypeOK, CredentialIsLocked, Holds
<1>2. ASSUME NEW r \in Request PROVE Mine(r)'
  <2>1. Asked(r)' /\ Decided(r)' /\ NewCredential(r)' /\ NewRows(r)'
    BY DEF IInv, Mine, Asked, Decided, NewCredential, NewRows, Counted, Live, Kindof, Token
  <2>2. OwnSession(r)' /\ Swept(r)'
    BY DEF IInv, Mine, OwnSession, Swept, Live, Token
  <2>3. QED BY <2>1, <2>2 DEF Mine
<1>3. Rows'
  BY DEF IInv, Rows, NoSessionOutlivesItsPassword, Live, Counted
<1>4. QED BY <1>1, <1>2, <1>3 DEF IInv

LEMMA NextKeepsIInv ==
  ASSUME IInv, [Next]_vars
  PROVE  IInv'
<1> USE NullAssumption
<1>1. ASSUME NEW p \in Password, Bootstrap(p) PROVE IInv'
  BY <1>1, BootstrapKeepsIInv
<1>2. ASSUME NEW r \in Request, NEW p \in Password, BeginLogin(r, p) PROVE IInv'
  BY <1>2, BeginKeepsIInv DEF BeginLogin, Kind
<1>3. ASSUME NEW r \in Request, NEW p \in Password, BeginReset(r, p) PROVE IInv'
  BY <1>3, BeginKeepsIInv DEF BeginReset, Kind
<1>4. ASSUME NEW r \in Request, NEW s \in Session, NEW p \in Password, NEW q \in Password,
             BeginChange(r, s, p, q)
      PROVE  IInv'
  BY <1>4, BeginKeepsIInv DEF BeginChange, Kind
<1>5. ASSUME NEW r \in Request, NEW s \in Session, NEW kind \in {"business", "logout"},
             BeginWithToken(r, kind, s)
      PROVE  IInv'
  BY <1>5, BeginKeepsIInv DEF BeginWithToken, Kind
<1>6. ASSUME NEW r \in Request,
             \/ UnknownToken(r) \/ NoCredential(r) \/ ChangeRefused(r) \/ ChangeRejected(r)
             \/ Abort(r)
      PROVE  IInv'
  BY <1>6, RollbackKeepsIInv DEF UnknownToken, NoCredential, ChangeRefused, ChangeRejected, Abort
<1>7. ASSUME NEW r \in Request, Guard(r) PROVE IInv'
  BY <1>7, GuardKeepsIInv
<1>8. ASSUME NEW r \in Request, Logout(r) PROVE IInv'
  BY <1>8, LogoutKeepsIInv
<1>9. ASSUME NEW r \in Request, LockCredential(r) PROVE IInv'
  BY <1>9, LockCredentialKeepsIInv
<1>10. ASSUME NEW r \in Request, LoginWhileLocked(r) \/ LoginSucceeds(r) \/ LoginFails(r)
       PROVE  IInv'
  BY <1>10, LoginKeepsIInv
<1>11. ASSUME NEW r \in Request, ChangeVerified(r) PROVE IInv'
  BY <1>11, ChangeVerifiedKeepsIInv
<1>12. ASSUME NEW r \in Request, ChangeAccepted(r) PROVE IInv'
  BY <1>12, ChangeAcceptedKeepsIInv
<1>13. ASSUME NEW r \in Request, Reset(r) PROVE IInv'
  BY <1>13, ResetKeepsIInv
<1>14. ASSUME NEW r \in Request, NEW s \in Session, InvalidateNext(r, s) PROVE IInv'
  BY <1>14, InvalidateNextKeepsIInv
<1>15. ASSUME NEW r \in Request, EndBulk(r) PROVE IInv'
  BY <1>15, EndBulkKeepsIInv
<1>16. ASSUME NEW r \in Request, Commit(r) PROVE IInv'
  BY <1>16, CommitKeepsIInv
<1>17. CASE Tick
  BY <1>17, TickKeepsIInv
<1>18. CASE UNCHANGED vars
  BY <1>18, StutterKeepsIInv
<1>19. QED
  BY <1>1, <1>2, <1>3, <1>4, <1>5, <1>6, <1>7, <1>8, <1>9, <1>10, <1>11, <1>12, <1>13, <1>14,
     <1>15, <1>16, <1>17, <1>18 DEF Next, Quiescent

-----------------------------------------------------------------------------
(* The theorems. *)

\* The inductive invariant.
THEOREM Invariance == Spec => []IInv
<1>1. Init => IInv
  BY InitIInv
<1>2. IInv /\ [Next]_vars => IInv'
  BY NextKeepsIInv
<1>3. QED BY <1>1, <1>2, PTL DEF Spec

\* Type correctness.
THEOREM TypeCorrect == Spec => []TypeOK
<1>1. IInv => TypeOK
  BY DEF IInv
<1>2. QED BY <1>1, Invariance, PTL

\* Whatever logins, changes and resets run at once, no session is left of a password
\* that was changed, but the one that changed it.
THEOREM PasswordsEndTheirSessions == Spec => []NoSessionOutlivesItsPassword
<1>1. IInv => NoSessionOutlivesItsPassword
  BY DEF IInv, Rows
<1>2. QED BY <1>1, Invariance, PTL

\* However many logins guess at once, no window of the length of the lock holds more
\* than FailureLimit wrong passwords.
THEOREM GuessingIsLimited == Spec => []GuessesAreLimited
<1>1. IInv => GuessesAreLimited
  <2> SUFFICES ASSUME IInv PROVE GuessesAreLimited
    OBVIOUS
  <2>1. CASE credential = Null
    <3>1. guesses = <<>>
      BY <2>1 DEF IInv, Rows
    <3>2. Len(guesses) = 0
      BY <3>1
    <3>3. QED BY <3>2 DEF GuessesAreLimited
  <2>2. CASE credential # Null
    BY <2>2 DEF IInv, Rows, Counted, GuessesAreLimited
  <2>3. QED BY <2>1, <2>2
<1>2. QED BY <1>1, Invariance, PTL

\* A session that was checked is still live, within the limits that were read, when
\* the request it was checked for commits.
THEOREM CheckedSessionsStayLive == Spec => []AcceptedSessionIsLive
<1>1. IInv => AcceptedSessionIsLive
  BY DEF IInv, Mine, OwnSession, AcceptedSessionIsLive
<1>2. QED BY <1>1, Invariance, PTL

\* No request undoes the invalidation of a session, moves its absolute limit or
\* shortens its idle limit, not even one that read the row before another's commit.
THEOREM InvalidatedForGood == Spec => InvalidationIsFinal
<1> DEFINE Step ==
      \A s \in Session : sessions[s] # Null =>
        /\ sessions'[s] # Null
        /\ sessions[s].invalidated => sessions'[s] = sessions[s]
        /\ sessions'[s].absolute = sessions[s].absolute
        /\ sessions'[s].hash = sessions[s].hash
        /\ sessions'[s].idle >= sessions[s].idle
<1>1. IInv /\ [Next]_vars => [Step]_sessions
  <2> SUFFICES ASSUME IInv, [Next]_vars, sessions' # sessions PROVE Step
    OBVIOUS
  <2>1. PICK r \in Request : Commit(r)
    BY DEF Next, Bootstrap, BeginLogin, BeginReset, BeginChange, BeginWithToken, Begin,
           UnknownToken, Guard, Logout, NoCredential, LockCredential, LoginWhileLocked,
           LoginSucceeds, LoginFails, ChangeRefused, ChangeVerified, ChangeRejected,
           ChangeAccepted, Reset, InvalidateNext, EndBulk, Abort, Rollback, Tick,
           Quiescent, vars, rows, locks, history
  <2> SUFFICES ASSUME NEW s \in Session, sessions[s] # Null
               PROVE  /\ sessions'[s] # Null
                      /\ sessions[s].invalidated => sessions'[s] = sessions[s]
                      /\ sessions'[s].absolute = sessions[s].absolute
                      /\ sessions'[s].hash = sessions[s].hash
                      /\ sessions'[s].idle >= sessions[s].idle
    OBVIOUS
  <2>2. sessions[s] \in Row
    BY DEF IInv, TypeOK
  <2>3. CASE write[r].rows[s] = Null
    <3>1. sessions'[s] = sessions[s]
      BY <2>1, <2>3, CommitRows
    <3>2. QED BY <2>2, <3>1 DEF Row
  <2>4. CASE write[r].rows[s] # Null
    <3>1. sessions'[s] = write[r].rows[s]
      BY <2>1, <2>4, CommitRows
    <3>2. /\ Live(s)
          /\ write[r].rows[s].hash = sessions[s].hash
          /\ write[r].rows[s].absolute = sessions[s].absolute
          /\ write[r].rows[s].idle >= sessions[s].idle
      BY <2>4 DEF IInv, Mine, NewRows
    <3>3. ~sessions[s].invalidated
      BY <3>2 DEF Live
    <3>4. QED BY <2>4, <3>1, <3>2, <3>3
  <2>5. QED BY <2>3, <2>4
<1>2. QED BY <1>1, Invariance, PTL DEF Spec, InvalidationIsFinal
=============================================================================
