------------------------ MODULE ConfigurationLedger ------------------------
(***************************************************************************)
(* The configuration ledger of persistence/configuration.py: append-only   *)
(* revisions of catalogue parameters, for everything, for a competition or *)
(* for a match.  A revision names the one it replaces, found under an      *)
(* advisory lock on the chain of its parameter and target, and readers     *)
(* resolve what is in force for a match from the order of the clock.       *)
(***************************************************************************)
EXTENDS Integers, FiniteSets

CONSTANTS
  Request,        \* slots for POST requests in progress, one transaction each
  Parameter,      \* parameters of the catalogue
  Match,          \* stored matches
  Competition,    \* stored competitions
  CompetitionOf,  \* competition of each match
  Unknown,        \* identifier of a match that is not stored
  NoRevision,     \* SQL NULL in replaces_revision_id
  MaxClock,       \* bound: ticks of the clock
  MaxRevision     \* bound: identifiers drawn for revisions

ASSUME ConfigurationAssumption ==
  /\ CompetitionOf \in [Match -> Competition]
  /\ Unknown \notin Match
  /\ NoRevision \notin Nat
  /\ MaxClock \in Nat
  /\ MaxRevision \in Nat

\* What a revision is for; valid_revision_draft ties the identifiers to the scope.
Target == {<<"global">>}
            \cup ({"competition"} \X Competition)
            \cup ({"match"} \X Match)

\* The targets a client may name.
Named == Target \cup {<<"match", Unknown>>}

Scope(target) == target[1]

\* _chain_key.
Chain == Parameter \X Target

Revision == [id        : Nat,
             parameter : Parameter,
             target    : Target,
             created   : Nat,
             replaces  : Nat \cup {NoRevision}]

VARIABLES
  clock,      \* the clock of the host
  revisions,  \* committed rows of configuration_revisions
  sequence,   \* last identifier drawn
  pc,         \* where each request is
  draft,      \* the parameter and target it revises
  created,    \* its created_at, read once it holds the lock
  previous,   \* the head of the chain it found
  inserted    \* the row it inserted and has not committed

vars == <<clock, revisions, sequence, pc, draft, created, previous, inserted>>

NoDraft == <<>>

-----------------------------------------------------------------------------
(* Selections from rows. *)

ChainOf(row) == <<row.parameter, row.target>>
Rows(k) == {row \in revisions : ChainOf(row) = k}

\* ORDER BY created_at DESC, id DESC.
Newer(a, b) == \/ a.created > b.created
               \/ a.created = b.created /\ a.id > b.id

\* The LIMIT 1 of that order.
Newest(rows) == {a \in rows : \A b \in rows : a = b \/ Newer(a, b)}

Priority(target) == CASE Scope(target) = "match" -> 0
                      [] Scope(target) = "competition" -> 1
                      [] OTHER -> 2

Candidates(m) ==
  {row \in revisions :
     row.target \in {<<"global">>, <<"competition", CompetitionOf[m]>>, <<"match", m>>}}

\* Mutant: the clock decides before the scope.
SortsFirstByTime(a, b) ==
  \/ Newer(a, b)
  \/ a.created = b.created /\ a.id = b.id /\ Priority(a.target) < Priority(b.target)

\* The sort key of effective, and of _effective_configuration for a snapshot.
SortsFirst(a, b) ==
  \/ Priority(a.target) < Priority(b.target)
  \/ Priority(a.target) = Priority(b.target) /\ Newer(a, b)

\* effective: of each parameter the first candidate in that order is selected,
\* the others are discarded.
Selected(m) ==
  {a \in Candidates(m) :
     \A b \in Candidates(m) :
       a.parameter = b.parameter => a = b \/ SortsFirst(a, b)}

Discarded(m) == Candidates(m) \ Selected(m)

-----------------------------------------------------------------------------
Init ==
  /\ clock = 0
  /\ revisions = {}
  /\ sequence = 0
  /\ pc = [r \in Request |-> "idle"]
  /\ draft = [r \in Request |-> NoDraft]
  /\ created = [r \in Request |-> 0]
  /\ previous = [r \in Request |-> NoRevision]
  /\ inserted = [r \in Request |-> {}]

Begin(r, parameter, target) ==
  /\ pc[r] = "idle"
  /\ sequence + Cardinality({q \in Request : pc[q] \notin {"idle", "inserted"}}) < MaxRevision
  /\ pc' = [pc EXCEPT ![r] = "begun"]
  /\ draft' = [draft EXCEPT ![r] = <<parameter, target>>]
  /\ UNCHANGED <<clock, revisions, sequence, created, previous, inserted>>

Finish(r) ==
  /\ pc' = [pc EXCEPT ![r] = "idle"]
  /\ draft' = [draft EXCEPT ![r] = NoDraft]
  /\ created' = [created EXCEPT ![r] = 0]
  /\ previous' = [previous EXCEPT ![r] = NoRevision]
  /\ inserted' = [inserted EXCEPT ![r] = {}]

\* Mutant: neither the query nor the foreign keys look for the target.
ExistsAlways(target) == target \in Named

\* The SELECT of the competition or the match, which are never deleted.
Exists(target) == target \in Target

\* The target is not stored: None, nothing is written (404).
NotFound(r) ==
  /\ pc[r] = "begun"
  /\ ~Exists(draft[r][2])
  /\ Finish(r)
  /\ UNCHANGED <<clock, revisions, sequence>>

Holds(r, k) == pc[r] \in {"locked", "found", "inserted"} /\ draft[r] = k

\* Mutant: without pg_advisory_xact_lock.  The FOR UPDATE on the head does not
\* make up for it: the second reader waits, and finds the same head.
LockFreeNotTaken(k) == k = k

\* pg_advisory_xact_lock, held to the end of the transaction.
LockFree(k) == \A r \in Request : ~Holds(r, k)

\* Mutant: created_at is read before the wait for the lock.
LockAfterClock(r) ==
  \/ /\ pc[r] = "begun"
     /\ Exists(draft[r][2])
     /\ pc' = [pc EXCEPT ![r] = "waiting"]
     /\ created' = [created EXCEPT ![r] = clock]
     /\ UNCHANGED <<clock, revisions, sequence, draft, previous, inserted>>
  \/ /\ pc[r] = "waiting"
     /\ LockFree(draft[r])
     /\ pc' = [pc EXCEPT ![r] = "locked"]
     /\ UNCHANGED <<clock, revisions, sequence, draft, created, previous, inserted>>

\* The lock is granted and the clock is read.
Lock(r) ==
  /\ pc[r] = "begun"
  /\ Exists(draft[r][2])
  /\ LockFree(draft[r])
  /\ pc' = [pc EXCEPT ![r] = "locked"]
  /\ created' = [created EXCEPT ![r] = clock]
  /\ UNCHANGED <<clock, revisions, sequence, draft, previous, inserted>>

\* Mutant: the query forgets _scope_predicate.
FindPreviousOfParameter(r) ==
  /\ pc[r] = "locked"
  /\ LET rows == {row \in revisions : row.parameter = draft[r][1]}
     IN previous' = [previous EXCEPT ![r] =
          IF rows = {} THEN NoRevision
          ELSE CHOOSE id \in {row.id : row \in Newest(rows)} : TRUE]
  /\ pc' = [pc EXCEPT ![r] = "found"]
  /\ UNCHANGED <<clock, revisions, sequence, draft, created, inserted>>

\* The newest row of the chain, locked with FOR UPDATE.
FindPrevious(r) ==
  /\ pc[r] = "locked"
  /\ pc' = [pc EXCEPT ![r] = "found"]
  /\ previous' = [previous EXCEPT ![r] =
       IF Rows(draft[r]) = {} THEN NoRevision
       ELSE CHOOSE id \in {row.id : row \in Newest(Rows(draft[r]))} : TRUE]
  /\ UNCHANGED <<clock, revisions, sequence, draft, created, inserted>>

Insert(r) ==
  /\ pc[r] = "found"
  /\ sequence' = sequence + 1
  /\ inserted' = [inserted EXCEPT ![r] =
       {[id |-> sequence + 1, parameter |-> draft[r][1], target |-> draft[r][2],
         created |-> created[r], replaces |-> previous[r]]}]
  /\ pc' = [pc EXCEPT ![r] = "inserted"]
  /\ UNCHANGED <<clock, revisions, draft, created, previous>>

Commit(r) ==
  /\ pc[r] = "inserted"
  /\ revisions' = revisions \cup inserted[r]
  /\ Finish(r)
  /\ UNCHANGED <<clock, sequence>>

\* SQLAlchemyError, a lost connection or a crash; the identifier is not given back.
Abort(r) ==
  /\ pc[r] # "idle"
  /\ Finish(r)
  /\ UNCHANGED <<clock, revisions, sequence>>

\* The clock of the host does not step back.
Tick ==
  /\ clock < MaxClock
  /\ clock' = clock + 1
  /\ UNCHANGED <<revisions, sequence, pc, draft, created, previous, inserted>>

\* No request in progress; the bounds may leave nothing else to do.
Quiescent == (\A r \in Request : pc[r] = "idle") /\ UNCHANGED vars

Next ==
  \/ \E r \in Request, parameter \in Parameter, target \in Named :
       Begin(r, parameter, target)
  \/ \E r \in Request : NotFound(r)
  \/ \E r \in Request : Lock(r)
  \/ \E r \in Request : FindPrevious(r)
  \/ \E r \in Request : Insert(r)
  \/ \E r \in Request : Commit(r)
  \/ \E r \in Request : Abort(r)
  \/ Tick
  \/ Quiescent

Spec == Init /\ [][Next]_vars

-----------------------------------------------------------------------------
(* Properties. *)

TypeOK ==
  /\ clock \in Nat
  /\ revisions \subseteq Revision
  /\ sequence \in Nat
  /\ pc \in [Request -> {"idle", "begun", "locked", "found", "inserted"}]
  /\ draft \in [Request -> (Parameter \X Named) \cup {NoDraft}]
  /\ created \in [Request -> Nat]
  /\ previous \in [Request -> Nat \cup {NoRevision}]
  /\ inserted \in [Request -> SUBSET Revision]

\* The revisions of a chain form one line: every one replaces the one before it
\* in the order of the identifiers, which was the newest by the clock as well, so
\* that no two revisions replace the same one and only the first replaces none.
ChainsAreLinear ==
  \A a \in revisions :
    LET older == {b \in Rows(ChainOf(a)) : b.id < a.id}
    IN IF older = {} THEN a.replaces = NoRevision
       ELSE \E b \in older : /\ a.replaces = b.id
                             /\ \A c \in older : c.id <= b.id
                             /\ b.created <= a.created

\* The head of a chain, by the references and not by the clock.
Unreplaced(k) ==
  {a \in Rows(k) : \A b \in revisions : b.replaces # a.id}

\* What is in force for a match, and what a snapshot freezes, is for each parameter
\* the one revision nobody has replaced, of the nearest target that has any.
EffectiveIsNearestHead ==
  \A m \in Match, parameter \in Parameter :
    LET own     == Unreplaced(<<parameter, <<"match", m>>>>)
        shared  == Unreplaced(<<parameter, <<"competition", CompetitionOf[m]>>>>)
        general == Unreplaced(<<parameter, <<"global">>>>)
        chosen  == {a \in Selected(m) : a.parameter = parameter}
    IN chosen = IF own # {} THEN own ELSE IF shared # {} THEN shared ELSE general

\* A match never falls back: what was in force gives way only to a newer revision of
\* the same chain or to a nearer target, and what was discarded stays discarded.
EffectiveNeverFallsBack ==
  [][\A m \in Match :
       /\ \A a \in Selected(m) : \E b \in Selected(m)' :
            /\ a.parameter = b.parameter
            /\ \/ a = b
               \/ a.target = b.target /\ b.replaces = a.id
               \/ Priority(b.target) < Priority(a.target)
       /\ Discarded(m) \subseteq Discarded(m)']_revisions

-----------------------------------------------------------------------------
(* ConfigurationChains over the committed rows, in the order of get_history. *)

Below(rows, a) == {b \in rows : Newer(a, b)}

\* The rows of a chain that are newer than i - 1 of its rows.
Place(k, i) == {a \in Rows(k) : Cardinality(Below(Rows(k), a)) = i - 1}

The(rows) == CHOOSE row \in rows : TRUE

\* The history of a chain, oldest first: a row stands after all it is newer than.
Shown(k) == [i \in 1..Cardinality(Rows(k)) |-> The(Place(k, i)).id]

Chains == INSTANCE ConfigurationChains WITH history <- [k \in Chain |-> Shown(k)]

ChainsSpec == Chains!Spec
=============================================================================
