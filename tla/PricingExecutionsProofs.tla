----------------------- MODULE PricingExecutionsProofs -----------------------
(***************************************************************************)
(* Proofs about PricingExecutions, for every number of requests, matches   *)
(* and keys, every pair of series and every size of the sample.  The       *)
(* recording of executions implements ExecutionStore: what a call was      *)
(* promised is decided by the identifiers, which are never drawn twice,    *)
(* and by the entry of the unique index that an uncommitted row holds.     *)
(***************************************************************************)
EXTENDS PricingExecutions, FiniteSetTheorems, TLAPS

Call == [match : Target, key : Key \cup {NoKey}]

\* Where a request has an execution of its own that is not committed.
Drafting == {"priced", "inserted", "conflict"}

\* Where it has yet to be priced.
Sampling == {"looking", "sampling", "home read", "sampled"}

\* What a completed execution was calculated from, and by what.
Recorded(e) ==
  e.status = "completed" =>
    \E request \in Sample : e.input = {request} /\ e.result = {Engine(e.version, request)}

\* What a request carries, by where it is.
Carries(r) ==
  /\ pc[r] \in Sampling \cup Drafting => call[r] \in Call
  /\ pc[r] \in {"idle", "looking", "sampling", "reproducing"} => series[r] = <<>>
  /\ pc[r] = "home read" => Len(series[r]) = 1
  /\ pc[r] = "sampled" => Len(series[r]) = 2
  /\ pc[r] = "reproducing" => \E e \in executions : draft[r] = {e}
  /\ pc[r] = "inserted" => SameKey(call[r]) = {}
  /\ pc[r] \in Drafting => \E e \in Execution : draft[r] = {e}

\* Its draft is a new execution of its own call.
Fresh(r) ==
  pc[r] \in Drafting =>
    \A e \in draft[r] :
      /\ e.id <= drawn
      /\ e.match = call[r].match /\ e.key = call[r].key
      /\ Recorded(e)
      /\ \A x \in executions : x.id # e.id

\* A sample that was complete on arrival stays so, and the series read from it are.
Ripe(r) ==
  ready[r] =>
    /\ pc[r] \in Sampling =>
         /\ Ready(call[r].match)
         /\ \A i \in 1..Len(series[r]) : Complete(series[r][i])
    /\ pc[r] \in Drafting => \A e \in draft[r] : e.status # "blocked_sample_incomplete"

Mine(r) == Carries(r) /\ Fresh(r) /\ Ripe(r)

\* Two requests never draw one identifier nor hold one entry of the unique index.
Apart(q, r) ==
  /\ pc[q] \in Drafting /\ pc[r] \in Drafting =>
       \A d \in draft[q], e \in draft[r] : d.id # e.id
  /\ pc[q] = "inserted" /\ pc[r] = "inserted" =>
       call[q] # call[r] \/ call[q].key = NoKey

IInv ==
  /\ TypeOK
  /\ \A r \in Request : Mine(r)
  /\ \A q, r \in Request : q # r => Apart(q, r)
  /\ \A e \in executions : e.id <= drawn /\ Recorded(e)
  /\ ReproductionsAgree

-----------------------------------------------------------------------------
(* Samples. *)

LEMMA CountIsInterval ==
  ASSUME NEW n \in Nat
  PROVE  IsFiniteSet(0..(n - 1)) /\ Cardinality(0..(n - 1)) = n
<1>1. 0 \in Int /\ n - 1 \in Int
  OBVIOUS
<1>2. /\ IsFiniteSet(0..(n - 1))
      /\ Cardinality(0..(n - 1)) = IF 0 > n - 1 THEN 0 ELSE (n - 1) - 0 + 1
  BY <1>1, FS_Interval
<1>3. QED BY <1>2

\* The first SampleSize elements of a set of places that has as many are as many:
\* counting the smaller ones numbers the set.
LEMMA FirstIsFull ==
  ASSUME NEW S \in SUBSET Nat, IsFiniteSet(S), Cardinality(S) >= SampleSize
  PROVE  IsFiniteSet(First(S)) /\ Cardinality(First(S)) = SampleSize
<1> DEFINE n == Cardinality(S)
           Below(i) == {j \in S : j < i}
           rank == [i \in S |-> Cardinality(Below(i))]
<1>0. n \in Nat /\ SampleSize \in Nat /\ SampleSize <= n
  BY FS_CardinalityType, PricingAssumption
<1>1. \A i \in S : IsFiniteSet(Below(i)) /\ Cardinality(Below(i)) \in Nat
  <2> SUFFICES ASSUME NEW i \in S
               PROVE IsFiniteSet(Below(i)) /\ Cardinality(Below(i)) \in Nat
    OBVIOUS
  <2>1. Below(i) \in SUBSET S
    OBVIOUS
  <2>2. IsFiniteSet(Below(i))
    BY <2>1, FS_Subset
  <2>3. QED BY <2>2, FS_CardinalityType
<1>2. \A i \in S : Cardinality(Below(i)) \in 0..(n - 1)
  <2> SUFFICES ASSUME NEW i \in S PROVE Cardinality(Below(i)) \in 0..(n - 1)
    OBVIOUS
  <2>1. Below(i) \in SUBSET S /\ S # Below(i)
    OBVIOUS
  <2>2. Cardinality(Below(i)) <= n /\ n # Cardinality(Below(i))
    BY <2>1, FS_Subset
  <2>3. QED BY <2>2, <1>0, <1>1
<1>3. \A i, j \in S : i < j => Cardinality(Below(i)) < Cardinality(Below(j))
  <2> SUFFICES ASSUME NEW i \in S, NEW j \in S, i < j
               PROVE Cardinality(Below(i)) < Cardinality(Below(j))
    OBVIOUS
  <2>0. i \in Nat /\ j \in Nat
    OBVIOUS
  <2>a. \A x \in Nat : x < i => x < j
    BY <2>0
  <2>b. i \in Below(j) /\ i \notin Below(i)
    BY <2>0
  <2>c. Below(i) \subseteq Below(j)
    BY <2>a
  <2>1. Below(i) \in SUBSET Below(j) /\ Below(j) # Below(i)
    BY <2>b, <2>c
  <2>2. IsFiniteSet(Below(j))
    BY <1>1
  <2>3. /\ Cardinality(Below(i)) <= Cardinality(Below(j))
        /\ Cardinality(Below(j)) # Cardinality(Below(i))
    BY <2>1, <2>2, FS_Subset
  <2>4. QED BY <2>3, <1>1
<1>4. rank \in [S -> 0..(n - 1)]
  BY <1>2
<1>5. \A i, j \in S : rank[i] = rank[j] => i = j
  <2> SUFFICES ASSUME NEW i \in S, NEW j \in S, rank[i] = rank[j] PROVE i = j
    OBVIOUS
  <2>1. rank[i] \in Nat /\ rank[i] = Cardinality(Below(i)) /\ rank[j] = Cardinality(Below(j))
    BY <1>1
  <2>2. ~(i < j) /\ ~(j < i)
    BY <2>1, <1>3
  <2>3. QED BY <2>2
<1>6. IsFiniteSet(0..(n - 1)) /\ Cardinality(0..(n - 1)) = n
  BY <1>0, CountIsInterval
<1>7. rank \in Injection(S, 0..(n - 1))
  BY <1>4, <1>5 DEF Injection, IsInjective
<1>8. rank \in Surjection(S, 0..(n - 1))
  BY <1>6, <1>7, FS_Injection
<1>9. \A v \in 0..(n - 1) : \E i \in S : rank[i] = v
  BY <1>8 DEF Surjection
<1> DEFINE k == SampleSize
           F == First(S)
           g == [i \in F |-> rank[i]]
<1>10. \A i \in S : i \in F <=> rank[i] < k
  BY DEF First
<1>11. F \subseteq S
  BY DEF First
<1>12. g \in [F -> 0..(k - 1)]
  <2>1. \A i \in F : rank[i] \in 0..(n - 1) /\ rank[i] < k
    BY <1>4, <1>10, <1>11
  <2>2. \A x \in 0..(n - 1) : x < k => x \in 0..(k - 1)
    BY <1>0
  <2>3. \A i \in F : rank[i] \in 0..(k - 1)
    BY <2>1, <2>2
  <2>4. QED BY <2>3
<1>13. \A i, j \in F : g[i] = g[j] => i = j
  BY <1>5, <1>11
<1>14. \A v \in 0..(k - 1) : \E i \in F : g[i] = v
  <2> SUFFICES ASSUME NEW v \in 0..(k - 1) PROVE \E i \in F : g[i] = v
    OBVIOUS
  <2>1. v \in 0..(n - 1) /\ v < k
    BY <1>0
  <2>2. PICK i \in S : rank[i] = v
    BY <2>1, <1>9
  <2>3. i \in F
    BY <2>1, <2>2, <1>10
  <2>4. QED BY <2>2, <2>3
<1>15. g \in Injection(F, 0..(k - 1)) /\ g \in Surjection(F, 0..(k - 1))
  BY <1>12, <1>13, <1>14 DEF Injection, Surjection, IsInjective
<1>16. IsFiniteSet(0..(k - 1)) /\ Cardinality(0..(k - 1)) = k
  BY <1>0, CountIsInterval
<1>17. QED BY <1>15, <1>16, FS_Injection

LEMMA SeriesTyped ==
  ASSUME NEW t \in Target
  PROVE  /\ HomeSeries[t] \in Seq(Match) /\ AwaySeries[t] \in Seq(Match)
         /\ IsInjective(HomeSeries[t]) /\ IsInjective(AwaySeries[t])
BY PricingAssumption

LEMMA LatestTyped ==
  ASSUME TypeOK, NEW eligible \in Seq(Match)
  PROVE  Latest(eligible) \in SUBSET (Match \X Goals)
<1> SUFFICES ASSUME NEW i \in First(Found(eligible))
             PROVE  <<eligible[i], statistics[eligible[i]]>> \in Match \X Goals
  BY DEF Latest
<1>1. i \in DOMAIN eligible /\ eligible[i] \in DOMAIN statistics
  BY DEF First, Found
<1>2. eligible[i] \in Match /\ statistics[eligible[i]] \in Goals
  BY <1>1 DEF TypeOK
<1>3. QED BY <1>2

LEMMA FoundIsFinite ==
  ASSUME NEW eligible \in Seq(Match)
  PROVE  Found(eligible) \in SUBSET Nat /\ IsFiniteSet(Found(eligible))
<1>1. DOMAIN eligible = 1..Len(eligible) /\ Len(eligible) \in Nat
  OBVIOUS
<1>2. IsFiniteSet(1..Len(eligible))
  BY <1>1, FS_Interval
<1>3. Found(eligible) \in SUBSET (1..Len(eligible))
  BY <1>1 DEF Found
<1>4. QED BY <1>2, <1>3, FS_Subset

\* A series with enough matches that have statistics is read complete.
LEMMA EnoughIsComplete ==
  ASSUME NEW eligible \in Seq(Match), IsInjective(eligible),
         Cardinality(Found(eligible)) >= SampleSize
  PROVE  Complete(Latest(eligible))
<1> DEFINE F == First(Found(eligible))
           row == [i \in F |-> <<eligible[i], statistics[eligible[i]]>>]
<1>1. IsFiniteSet(F) /\ Cardinality(F) = SampleSize
  BY FoundIsFinite, FirstIsFull
<1>2. F \subseteq DOMAIN eligible
  BY DEF First, Found
<1>3. row \in [F -> Latest(eligible)]
  BY DEF Latest
<1>4. \A i, j \in F : row[i] = row[j] => i = j
  BY <1>2 DEF IsInjective
<1>5. \A v \in Latest(eligible) : \E i \in F : row[i] = v
  BY DEF Latest
<1>6. row \in Injection(F, Latest(eligible)) /\ row \in Surjection(F, Latest(eligible))
  BY <1>3, <1>4, <1>5 DEF Injection, Surjection, IsInjective
<1>7. ExistsBijection(F, Latest(eligible))
  BY <1>6 DEF ExistsBijection, Bijection
<1>8. Cardinality(Latest(eligible)) = SampleSize
  BY <1>1, <1>7, FS_Bijection
<1>9. QED BY <1>8 DEF Complete

LEMMA ReadyIsComplete ==
  ASSUME NEW t \in Target, Ready(t)
  PROVE  Complete(Latest(HomeSeries[t])) /\ Complete(Latest(AwaySeries[t]))
<1>1. \A eligible \in {HomeSeries[t], AwaySeries[t]} :
        Cardinality(Found(eligible)) >= SampleSize
  BY DEF Ready
<1>2. QED BY <1>1, SeriesTyped, EnoughIsComplete

\* Statistics are only added: what is ready stays so.
LEMMA ReadyStays ==
  ASSUME NEW t \in Target, Ready(t), DOMAIN statistics \subseteq DOMAIN statistics'
  PROVE  Ready(t)'
<1> SUFFICES ASSUME NEW eligible \in {HomeSeries[t], AwaySeries[t]}
             PROVE  Cardinality(Found(eligible)') >= SampleSize
  BY DEF Ready
<1> DEFINE before == Found(eligible)
           now == {i \in DOMAIN eligible : eligible[i] \in DOMAIN statistics'}
<1>1. eligible \in Seq(Match)
  BY SeriesTyped
<1>2. DOMAIN eligible = 1..Len(eligible) /\ Len(eligible) \in Nat
  BY <1>1
<1>3. IsFiniteSet(1..Len(eligible))
  BY <1>2, FS_Interval
<1>4. now \in SUBSET (1..Len(eligible))
  BY <1>2
<1>5. IsFiniteSet(now)
  BY <1>3, <1>4, FS_Subset
<1>6. before \in SUBSET now
  BY DEF Found
<1>7. IsFiniteSet(before) /\ Cardinality(before) <= Cardinality(now)
  BY <1>5, <1>6, FS_Subset
<1>8. Cardinality(before) \in Nat /\ Cardinality(now) \in Nat
  BY <1>5, <1>7, FS_CardinalityType
<1>9. Cardinality(before) >= SampleSize
  BY DEF Ready
<1>10. now = Found(eligible)'
  BY DEF Found
<1>11. Cardinality(now) >= SampleSize
  BY <1>7, <1>8, <1>9, PricingAssumption
<1>12. QED BY <1>10, <1>11

-----------------------------------------------------------------------------
(* Steps of one request. *)

\* The state of a request that is not the one that moves.
Untouched(q) ==
  /\ pc'[q] = pc[q]
  /\ call'[q] = call[q]
  /\ series'[q] = series[q]
  /\ draft'[q] = draft[q]
  /\ ready'[q] = ready[q]

LEMMA RipeStays ==
  ASSUME IInv, NEW q \in Request, Untouched(q),
         DOMAIN statistics \subseteq DOMAIN statistics'
  PROVE  Ripe(q)'
<1> SUFFICES ASSUME ready[q] = TRUE
             PROVE  Ripe(q)'
  BY DEF Untouched, Ripe, IInv, TypeOK
<1>1. CASE pc[q] \in Sampling
  <2>1. PICK t \in Target : t = call[q].match
    BY <1>1 DEF IInv, Mine, Carries, Call
  <2>2. Ready(t)
    BY <1>1, <2>1 DEF IInv, Mine, Ripe
  <2>3. \A eligible \in {HomeSeries[t], AwaySeries[t]} :
          Cardinality({i \in DOMAIN eligible : eligible[i] \in DOMAIN statistics'})
            >= SampleSize
    BY <2>2, ReadyStays DEF Ready, Found
  <2>4. \A i \in 1..Len(series[q]) : Cardinality(series[q][i]) = SampleSize
    BY <1>1 DEF IInv, Mine, Ripe, Complete
  <2>5. QED
    BY <1>1, <2>1, <2>3, <2>4 DEF Untouched, Ripe, Ready, Found, Complete, Sampling, Drafting
<1>2. CASE pc[q] \notin Sampling
  BY <1>2 DEF Untouched, IInv, Mine, Ripe
<1>3. QED BY <1>1, <1>2

LEMMA OthersKeep ==
  ASSUME IInv, NEW q \in Request, Untouched(q), executions' = executions,
         DOMAIN statistics \subseteq DOMAIN statistics',
         drawn' \in Nat, drawn' >= drawn
  PROVE  Mine(q)'
<1>1. Carries(q)'
  <2>1. Carries(q)
    BY DEF IInv, Mine
  <2>2. SameKey(call[q])' = SameKey(call[q])
    BY DEF SameKey, Untouched
  <2>3. /\ pc'[q] \in Sampling \cup Drafting => call'[q] \in Call
        /\ pc'[q] \in {"idle", "looking", "sampling", "reproducing"} => series'[q] = <<>>
        /\ pc'[q] = "home read" => Len(series'[q]) = 1
        /\ pc'[q] = "sampled" => Len(series'[q]) = 2
        /\ pc'[q] = "reproducing" => \E e \in executions' : draft'[q] = {e}
        /\ pc'[q] \in Drafting => \E e \in Execution : draft'[q] = {e}
    BY <2>1 DEF Carries, Untouched
  <2>4. pc'[q] = "inserted" => SameKey(call[q])' = {}
    BY <2>1, <2>2 DEF Carries, Untouched
  <2>5. QED
    BY <2>3, <2>4 DEF Carries, Sampling, Drafting, Call, Execution, Sample, Status
<1>2. Fresh(q)'
  <2> SUFFICES ASSUME pc[q] \in Drafting, NEW e \in draft[q]
               PROVE  /\ e.id <= drawn'
                      /\ e.match = call[q].match /\ e.key = call[q].key
                      /\ Recorded(e)
                      /\ \A x \in executions : x.id # e.id
    BY DEF Fresh, Untouched, Recorded, Engine
  <2>1. e \in Execution /\ drawn \in Nat
    BY DEF IInv, TypeOK
  <2>2. e.id \in Nat
    BY <2>1 DEF Execution
  <2>3. QED BY <2>1, <2>2 DEF IInv, Mine, Fresh
<1>3. QED BY <1>1, <1>2, RipeStays DEF Mine

\* A step of one request that leaves the tables alone.
LEMMA LocalStep ==
  ASSUME IInv, NEW r \in Request, TypeOK', Mine(r)',
         \A q \in Request \ {r} : Untouched(q),
         \A q \in Request \ {r} : Apart(q, r)',
         UNCHANGED <<statistics, executions, reproductions>>, drawn' >= drawn
  PROVE  IInv'
<1>1. drawn' \in Nat /\ drawn \in Nat
  BY DEF IInv, TypeOK
<1>2. \A q \in Request : Mine(q)'
  <2> SUFFICES ASSUME NEW q \in Request PROVE Mine(q)'
    OBVIOUS
  <2>1. CASE q = r
    BY <2>1
  <2>2. CASE q # r
    BY <1>1, <2>2, OthersKeep
  <2>3. QED BY <2>1, <2>2
<1>3. \A p, q \in Request : p # q => Apart(p, q)'
  <2> SUFFICES ASSUME NEW p \in Request, NEW q \in Request, p # q PROVE Apart(p, q)'
    OBVIOUS
  <2>1. CASE q = r
    BY <2>1
  <2>2. CASE p = r
    <3>1. Apart(q, p)'
      BY <2>2
    <3>2. QED BY <3>1 DEF Apart
  <2>3. CASE p # r /\ q # r
    BY <2>3 DEF IInv, Apart, Untouched
  <2>4. QED BY <2>1, <2>2, <2>3
<1>4. \A e \in executions' : e.id <= drawn' /\ Recorded(e)'
  <2> SUFFICES ASSUME NEW e \in executions PROVE e.id <= drawn' /\ Recorded(e)
    BY DEF Recorded, Engine
  <2>1. e.id \in Nat /\ e.id <= drawn /\ Recorded(e)
    BY DEF IInv, TypeOK, Execution
  <2>2. QED BY <1>1, <2>1
<1>5. ReproductionsAgree'
  BY DEF IInv, ReproductionsAgree
<1>6. QED BY <1>2, <1>3, <1>4, <1>5 DEF IInv

\* The request that ends carries nothing.
LEMMA EndedIsMine ==
  ASSUME IInv, NEW r \in Request, End(r)
  PROVE  Mine(r)' /\ \A q \in Request \ {r} : Untouched(q) /\ Apart(q, r)'
<1>1. pc'[r] = "idle" /\ series'[r] = <<>> /\ ready'[r] = FALSE
  BY DEF End, IInv, TypeOK
<1>2. Mine(r)'
  BY <1>1 DEF Mine, Carries, Fresh, Ripe, Sampling, Drafting
<1>3. \A q \in Request \ {r} : Untouched(q)
  BY DEF End, Untouched, IInv, TypeOK
<1>4. \A q \in Request \ {r} : Apart(q, r)'
  BY <1>1 DEF Apart, Drafting
<1>5. QED BY <1>2, <1>3, <1>4

LEMMA EndTyped ==
  ASSUME IInv, NEW r \in Request, End(r)
  PROVE  /\ pc' \in [Request -> {"idle", "looking", "sampling", "home read", "sampled",
                                 "priced", "inserted", "conflict", "reproducing"}]
         /\ call' \in [Request -> Call \cup {NoCall}]
         /\ series' \in [Request -> Sample]
         /\ draft' \in [Request -> SUBSET Execution]
         /\ \A q \in Request : \A e \in draft'[q] : Shaped(e)
         /\ ready' \in [Request -> BOOLEAN]
<1>1. <<>> \in Sample
  BY DEF Sample
<1>2. series' \in [Request -> Sample]
  BY <1>1 DEF End, IInv, TypeOK
<1>3. /\ draft' \in [Request -> SUBSET Execution]
      /\ \A q \in Request : \A e \in draft'[q] : Shaped(e)
  BY DEF End, IInv, TypeOK
<1>4. QED BY <1>2, <1>3 DEF End, IInv, TypeOK, Call

LEMMA Basics ==
  ASSUME IInv
  PROVE  /\ drawn \in Nat /\ drawn >= drawn
         /\ version \in Nat
         /\ answers \in Seq(executions)
         /\ \A e \in executions : Append(answers, e) \in Seq(executions)
<1>1. drawn \in Nat /\ version \in Nat /\ answers \in Seq(executions)
  BY DEF IInv, TypeOK
<1>2. QED BY <1>1

\* A request that ends and stores nothing.
LEMMA EndStep ==
  ASSUME IInv, NEW r \in Request, End(r), UNCHANGED <<tables, version, drawn>>,
         answers' \in Seq(executions)
  PROVE  IInv'
<1>1. TypeOK'
  BY EndTyped DEF tables, IInv, TypeOK, Call, Shaped
<1>2. drawn' >= drawn
  BY Basics DEF tables
<1>3. QED BY <1>1, <1>2, EndedIsMine, LocalStep DEF tables

LEMMA FailKeeps ==
  ASSUME IInv, NEW r \in Request, Fail(r)
  PROVE  IInv'
BY EndStep, Basics DEF Fail, tables

LEMMA LookUpKeeps ==
  ASSUME IInv, NEW r \in Request, LookUp(r)
  PROVE  IInv'
<1>1. CASE SameKey(call[r]) # {}
  <2>1. PICK e \in SameKey(call[r]) : answers' = Append(answers, e) /\ End(r)
    BY <1>1 DEF LookUp
  <2>2. answers' \in Seq(executions)
    BY <2>1, Basics DEF SameKey
  <2>3. QED BY <2>1, <2>2, EndStep DEF LookUp
<1>2. CASE SameKey(call[r]) = {}
  <2>1. /\ pc[r] = "looking"
        /\ pc' = [pc EXCEPT ![r] = "sampling"]
        /\ UNCHANGED <<statistics, executions, reproductions, version, drawn, call, series,
                       draft, ready, answers>>
    BY <1>2 DEF LookUp, tables
  <2>2. TypeOK'
    BY <2>1 DEF IInv, TypeOK, Shaped
  <2>3. pc'[r] = "sampling" /\ \A q \in Request \ {r} : Untouched(q)
    BY <2>1 DEF IInv, TypeOK, Untouched
  <2>4. Mine(r)'
    <3>1. Carries(r) /\ Ripe(r)
      BY DEF IInv, Mine
    <3>2. Carries(r)' /\ Fresh(r)'
      BY <2>1, <2>3, <3>1 DEF Carries, Fresh, Sampling, Drafting, Call
    <3>3. Ripe(r)'
      BY <2>1, <2>3, <3>1 DEF Ripe, Sampling, Drafting, Ready, Found, Complete
    <3>4. QED BY <3>2, <3>3 DEF Mine
  <2>5. \A q \in Request \ {r} : Apart(q, r)'
    BY <2>3 DEF Apart, Drafting
  <2>6. drawn' >= drawn
    BY <2>1, Basics
  <2>7. QED BY <2>1, <2>2, <2>3, <2>4, <2>5, <2>6, LocalStep
<1>3. QED BY <1>1, <1>2

LEMMA ReadBackKeeps ==
  ASSUME IInv, NEW r \in Request, ReadBack(r)
  PROVE  IInv'
<1>1. PICK e \in SameKey(call[r]) : answers' = Append(answers, e)
  BY DEF ReadBack
<1>2. answers' \in Seq(executions)
  BY <1>1, Basics DEF SameKey
<1>3. QED BY <1>2, EndStep DEF ReadBack

LEMMA PostKeeps ==
  ASSUME IInv, NEW r \in Request, NEW t \in Target, NEW k \in Key \cup {NoKey},
         Post(r, t, k)
  PROVE  IInv'
<1>1. /\ pc[r] = "idle"
      /\ pc' = [pc EXCEPT ![r] = IF k = NoKey THEN "sampling" ELSE "looking"]
      /\ call' = [call EXCEPT ![r] = [match |-> t, key |-> k]]
      /\ ready' = [ready EXCEPT ![r] = Ready(t)]
      /\ UNCHANGED <<statistics, executions, reproductions, version, drawn, series, draft,
                     answers>>
  BY DEF Post, tables
<1>2. Ready(t) \in BOOLEAN
  BY Zenon DEF Ready
<1>3. [match |-> t, key |-> k] \in Call
  BY DEF Call
<1>4. pc'[r] \in {"sampling", "looking"} /\ call'[r].match = t /\ call'[r] \in Call
  BY <1>1, <1>3 DEF IInv, TypeOK
<1>5. ready'[r] = Ready(t)
  BY <1>1 DEF IInv, TypeOK
<1>6. TypeOK'
  BY <1>1, <1>2, <1>3 DEF IInv, TypeOK, Shaped, Call
<1>7. \A q \in Request \ {r} : Untouched(q)
  BY <1>1 DEF IInv, TypeOK, Untouched
<1>8. series'[r] = <<>>
  BY <1>1 DEF IInv, Mine, Carries
<1>9. Mine(r)'
  <2>1. Carries(r)' /\ Fresh(r)'
    BY <1>4, <1>8 DEF Carries, Fresh, Sampling, Drafting, Call
  <2>2. Ripe(r)'
    <3>1. Ready(call[r].match)' <=> Ready(t)
      BY <1>1, <1>4 DEF Ready, Found
    <3>2. Len(series'[r]) = 0
      BY <1>8
    <3>3. QED BY <1>4, <1>5, <3>1, <3>2 DEF Ripe, Sampling, Drafting
  <2>3. QED BY <2>1, <2>2 DEF Mine
<1>10. \A q \in Request \ {r} : Apart(q, r)'
  BY <1>4 DEF Apart, Drafting
<1>11. drawn' >= drawn
  BY <1>1, Basics
<1>12. QED BY <1>1, <1>6, <1>7, <1>9, <1>10, <1>11, LocalStep

LEMMA ReadHomeKeeps ==
  ASSUME IInv, NEW r \in Request, ReadHome(r)
  PROVE  IInv'
<1>1. PICK t \in Target : t = call[r].match
  BY DEF ReadHome, IInv, Mine, Carries, Sampling, Call
<1> DEFINE rows == Latest(HomeSeries[t])
<1>2. rows \in SUBSET (Match \X Goals)
  BY SeriesTyped, LatestTyped DEF IInv
<1>3. /\ pc[r] = "sampling"
      /\ series' = [series EXCEPT ![r] = <<rows>>]
      /\ pc' = [pc EXCEPT ![r] = "home read"]
      /\ UNCHANGED <<statistics, executions, reproductions, version, drawn, call, draft,
                     ready, answers>>
  BY <1>1 DEF ReadHome, tables
<1>4. ready[r] => Complete(rows)
  <2>1. ready[r] => Ready(t)
    BY <1>1, <1>3 DEF IInv, Mine, Ripe, Sampling
  <2>2. QED BY <2>1, ReadyIsComplete
<1> HIDE DEF rows
<1>5. <<rows>> \in Sample
  BY <1>2 DEF Sample
<1>6. /\ pc'[r] = "home read" /\ series'[r] = <<rows>>
      /\ \A q \in Request \ {r} : Untouched(q)
  BY <1>3 DEF IInv, TypeOK, Untouched
<1>7. TypeOK'
  BY <1>3, <1>5 DEF IInv, TypeOK, Shaped
<1>8. Mine(r)'
  <2>1. Carries(r) /\ Ripe(r)
    BY DEF IInv, Mine
  <2>2. Carries(r)' /\ Fresh(r)'
    BY <1>3, <1>6, <2>1 DEF Carries, Fresh, Sampling, Drafting, Call
  <2>3. \A i \in 1..Len(series'[r]) : series'[r][i] = rows
    <3>1. \A x : Len(<<x>>) = 1 /\ <<x>>[1] = x
      OBVIOUS
    <3>2. series'[r] = <<rows>>
      BY <1>6
    <3>3. Len(series'[r]) = 1 /\ series'[r][1] = rows
      BY <3>1, <3>2, Zenon
    <3>4. QED BY <3>3
  <2>4. ready[r] => Ready(call[r].match)
    BY <1>3, <2>1 DEF Ripe, Sampling
  <2>5. ready[r] => \A i \in 1..Len(series'[r]) : Complete(series'[r][i])
    BY <1>4, <2>3
  <2>6. Ripe(r)'
    BY <1>3, <1>6, <2>4, <2>5 DEF Ripe, Sampling, Drafting, Ready, Found, Complete
  <2>7. QED BY <2>2, <2>6 DEF Mine
<1>9. \A q \in Request \ {r} : Apart(q, r)'
  BY <1>6 DEF Apart, Drafting
<1>10. QED BY <1>3, <1>6, <1>7, <1>8, <1>9, Basics, LocalStep

LEMMA ReadAwayKeeps ==
  ASSUME IInv, NEW r \in Request, ReadAway(r)
  PROVE  IInv'
<1>1. PICK t \in Target : t = call[r].match
  BY DEF ReadAway, IInv, Mine, Carries, Sampling, Call
<1> DEFINE rows == Latest(AwaySeries[t])
<1>2. rows \in SUBSET (Match \X Goals)
  BY SeriesTyped, LatestTyped DEF IInv
<1>3. /\ pc[r] = "home read"
      /\ series' = [series EXCEPT ![r] = Append(series[r], rows)]
      /\ pc' = [pc EXCEPT ![r] = "sampled"]
      /\ UNCHANGED <<statistics, executions, reproductions, version, drawn, call, draft,
                     ready, answers>>
  BY <1>1 DEF ReadAway, tables
<1>4. ready[r] => Complete(rows)
  <2>1. ready[r] => Ready(t)
    BY <1>1, <1>3 DEF IInv, Mine, Ripe, Sampling
  <2>2. QED BY <2>1, ReadyIsComplete
<1> HIDE DEF rows
<1>a. series[r] \in Seq(SUBSET (Match \X Goals)) /\ Len(series[r]) = 1
  BY <1>3 DEF IInv, Mine, Carries, TypeOK, Sample
<1>5. Append(series[r], rows) \in Sample
  BY <1>2, <1>a DEF Sample
<1>6. /\ pc'[r] = "sampled" /\ series'[r] = Append(series[r], rows)
      /\ \A q \in Request \ {r} : Untouched(q)
  BY <1>3 DEF IInv, TypeOK, Untouched
<1>7. TypeOK'
  BY <1>3, <1>5 DEF IInv, TypeOK, Shaped
<1>8. Mine(r)'
  <2>1. Carries(r) /\ Ripe(r)
    BY DEF IInv, Mine
  <2>2. Len(series'[r]) = 2 /\ series'[r][1] = series[r][1] /\ series'[r][2] = rows
    BY <1>6, <1>a
  <2>3. Carries(r)' /\ Fresh(r)'
    BY <1>3, <1>6, <2>1, <2>2 DEF Carries, Fresh, Sampling, Drafting, Call
  <2>a. 1 \in 1..Len(series[r])
    BY <1>a
  <2>4. ready[r] => Complete(series[r][1]) /\ Ready(call[r].match)
    BY <1>3, <2>a, <2>1 DEF Ripe, Sampling
  <2>5. ready[r] => \A i \in 1..Len(series'[r]) : Complete(series'[r][i])
    BY <1>4, <2>2, <2>4
  <2>6. Ripe(r)'
    BY <1>3, <1>6, <2>4, <2>5 DEF Ripe, Sampling, Drafting, Ready, Found, Complete
  <2>7. QED BY <2>3, <2>6 DEF Mine
<1>9. \A q \in Request \ {r} : Apart(q, r)'
  BY <1>6 DEF Apart, Drafting
<1>10. QED BY <1>3, <1>6, <1>7, <1>8, <1>9, Basics, LocalStep

\* What Drafts may prepare.
LEMMA Drafted ==
  ASSUME IInv, NEW r \in Request, pc[r] = "sampled", NEW e \in Drafts(r)
  PROVE  /\ e \in Execution /\ Shaped(e) /\ Recorded(e)
         /\ e.id = drawn + 1 /\ e.match = call[r].match /\ e.key = call[r].key
         /\ ready[r] => e.status # "blocked_sample_incomplete"
<1>1. call[r] \in Call /\ series[r] \in Sample /\ drawn \in Nat /\ version \in Nat
  BY DEF IInv, TypeOK, Mine, Carries, Sampling
<1>2. PICK request \in Sample : request = series[r]
  BY <1>1
<1> DEFINE All == \A s \in Range(series[r]) : Complete(s)
           P(status, input, result) == Prepared(r, status, input, result)
<1>3. ASSUME NEW status \in Status, NEW input \in SUBSET Sample,
             NEW result \in SUBSET (Nat \X Sample), e = P(status, input, result)
      PROVE  /\ e \in Execution
             /\ e.id = drawn + 1 /\ e.match = call[r].match /\ e.key = call[r].key
             /\ e.status = status /\ e.input = input /\ e.result = result
             /\ e.version = version
  BY <1>1, <1>3 DEF Prepared, Execution, Call
<1> DEFINE input == {request}
           result == {<<version, request>>}
<1>4. input \in SUBSET Sample /\ result \in SUBSET (Nat \X Sample)
  BY <1>1
<1>5. CASE e = P("completed", input, result)
  <2>1. "completed" \in Status
    BY DEF Status
  <2>2. /\ e \in Execution
        /\ e.id = drawn + 1 /\ e.match = call[r].match /\ e.key = call[r].key
        /\ e.status = "completed" /\ e.input = input /\ e.result = result
        /\ e.version = version
    BY <1>3, <1>4, <1>5, <2>1
  <2>3. QED BY <1>1, <2>2 DEF Shaped, Recorded, Engine
<1>6. CASE e = P("technical_failure", input, {})
  <2>1. "technical_failure" \in Status
    BY DEF Status
  <2>2. /\ e \in Execution
        /\ e.id = drawn + 1 /\ e.match = call[r].match /\ e.key = call[r].key
        /\ e.status = "technical_failure" /\ e.input = input /\ e.result = {}
    <3>1. {} \in SUBSET (Nat \X Sample)
      OBVIOUS
    <3>2. QED BY <1>3, <1>4, <1>6, <2>1, <3>1
  <2>3. QED BY <2>2 DEF Shaped, Recorded
<1>7. CASE ~All /\ e = P("blocked_sample_incomplete", {}, {})
  <2>1. "blocked_sample_incomplete" \in Status
    BY DEF Status
  <2>2. ~ready[r]
    <3>1. PICK s \in Range(series[r]) : ~Complete(s)
      BY <1>7
    <3>2. PICK i \in 1..Len(series[r]) : s = series[r][i]
      BY <1>1, <3>1 DEF Range, Sample
    <3>3. QED BY <3>1, <3>2 DEF IInv, Mine, Ripe, Sampling
  <2>3. QED
    BY <1>3, <1>7, <2>1, <2>2 DEF Shaped, Recorded
<1>8. CASE e = P("technical_failure", {}, {})
  <2>1. "technical_failure" \in Status
    BY DEF Status
  <2>2. QED BY <1>3, <1>8, <2>1 DEF Shaped, Recorded
<1>9. QED
  BY <1>2, <1>5, <1>6, <1>7, <1>8 DEF Drafts, Engine

LEMMA PriceKeeps ==
  ASSUME IInv, NEW r \in Request, Price(r)
  PROVE  IInv'
<1>1. PICK e \in Drafts(r) : draft' = [draft EXCEPT ![r] = {e}]
  BY DEF Price
<1>2. /\ pc[r] = "sampled" /\ drawn' = drawn + 1
      /\ pc' = [pc EXCEPT ![r] = "priced"]
      /\ UNCHANGED <<statistics, executions, reproductions, version, call, series, ready,
                     answers>>
  BY DEF Price, tables
<1>3. /\ e \in Execution /\ Shaped(e) /\ Recorded(e)
      /\ e.id = drawn + 1 /\ e.match = call[r].match /\ e.key = call[r].key
      /\ ready[r] => e.status # "blocked_sample_incomplete"
  BY <1>1, <1>2, Drafted
<1>4. /\ pc'[r] = "priced" /\ draft'[r] = {e}
      /\ \A q \in Request \ {r} : Untouched(q)
  BY <1>1, <1>2 DEF IInv, TypeOK, Untouched
<1>5. TypeOK'
  <2>1. draft' \in [Request -> SUBSET Execution]
    BY <1>1, <1>3 DEF IInv, TypeOK
  <2>2. \A q \in Request : \A d \in draft'[q] : Shaped(d)
    <3> SUFFICES ASSUME NEW q \in Request, NEW d \in draft'[q] PROVE Shaped(d)
      OBVIOUS
    <3>1. d = e \/ d \in draft[q]
      BY <1>4 DEF Untouched
    <3>2. QED BY <1>3, <3>1 DEF IInv, TypeOK
  <2>3. drawn' \in Nat
    BY <1>2, Basics
  <2>4. QED BY <1>2, <2>1, <2>2, <2>3 DEF IInv, TypeOK, Shaped
<1>6. Mine(r)'
  <2>1. Carries(r)'
    <3>1. Carries(r)
      BY DEF IInv, Mine
    <3>2. call'[r] \in Call
      BY <1>2, <3>1 DEF Carries, Sampling
    <3>3. \E x \in Execution : draft'[r] = {x}
      BY <1>3, <1>4
    <3>4. QED BY <1>4, <3>2, <3>3 DEF Carries, Call, Execution, Sample, Status
  <2>2. Fresh(r)'
    <3>1. drawn' \in Nat /\ e.id <= drawn'
      BY <1>2, <1>3, Basics
    <3>2. \A x \in executions : x.id # e.id
      <4> SUFFICES ASSUME NEW x \in executions PROVE x.id # e.id
        OBVIOUS
      <4>1. x \in Execution /\ x.id <= drawn
        BY DEF IInv, TypeOK
      <4>2. x.id \in Nat
        BY <4>1 DEF Execution
      <4>3. QED BY <1>3, <4>1, <4>2, Basics
    <3>3. QED BY <1>2, <1>3, <1>4, <3>1, <3>2 DEF Fresh, Recorded, Engine
  <2>3. Ripe(r)'
    BY <1>2, <1>3, <1>4 DEF Ripe, Sampling
  <2>4. QED BY <2>1, <2>2, <2>3 DEF Mine
<1>7. \A q \in Request \ {r} : Apart(q, r)'
  <2> SUFFICES ASSUME NEW q \in Request \ {r} PROVE Apart(q, r)'
    OBVIOUS
  <2>1. pc[q] \in Drafting => \A d \in draft[q] : d.id # e.id
    <3> SUFFICES ASSUME pc[q] \in Drafting, NEW d \in draft[q] PROVE d.id # e.id
      OBVIOUS
    <3>1. d \in Execution /\ d.id <= drawn
      BY DEF IInv, TypeOK, Mine, Fresh
    <3>2. d.id \in Nat
      BY <3>1 DEF Execution
    <3>3. QED BY <1>3, <3>1, <3>2, Basics
  <2>2. QED BY <1>4, <2>1 DEF Apart, Untouched
<1>8. drawn' >= drawn
  BY <1>2, Basics
<1>9. QED BY <1>2, <1>4, <1>5, <1>6, <1>7, <1>8, LocalStep

LEMMA InsertKeeps ==
  ASSUME IInv, NEW r \in Request, Insert(r)
  PROVE  IInv'
<1>1. /\ pc[r] = "priced"
      /\ pc' = [pc EXCEPT ![r] = IF SameKey(call[r]) = {} THEN "inserted" ELSE "conflict"]
      /\ UNCHANGED <<statistics, executions, reproductions, version, drawn, call, series,
                     draft, ready, answers>>
  BY DEF Insert, tables
<1>2. /\ pc'[r] \in {"inserted", "conflict"}
      /\ pc'[r] = "inserted" => SameKey(call[r]) = {}
      /\ \A q \in Request \ {r} : Untouched(q)
  BY <1>1 DEF IInv, TypeOK, Untouched
<1>3. TypeOK'
  BY <1>1 DEF IInv, TypeOK, Shaped
<1>4. Mine(r)'
  <2>1. Carries(r) /\ Fresh(r) /\ Ripe(r)
    BY DEF IInv, Mine
  <2>2. SameKey(call[r])' = SameKey(call[r])
    BY <1>1 DEF SameKey
  <2>3. Carries(r)'
    BY <1>1, <1>2, <2>1, <2>2
       DEF Carries, Sampling, Drafting, Call, Execution, Sample, Status
  <2>4. Fresh(r)'
    BY <1>1, <1>2, <2>1 DEF Fresh, Drafting, Recorded, Engine
  <2>5. Ripe(r)'
    BY <1>1, <1>2, <2>1 DEF Ripe, Drafting, Sampling
  <2>6. QED BY <2>3, <2>4, <2>5 DEF Mine
<1>5. \A q \in Request \ {r} : Apart(q, r)'
  <2> SUFFICES ASSUME NEW q \in Request \ {r} PROVE Apart(q, r)'
    OBVIOUS
  <2>1. Apart(q, r)
    BY DEF IInv
  <2>2. pc[q] = "inserted" => call[q] # call[r] \/ call[q].key = NoKey
    BY DEF Insert, Holding
  <2>3. QED BY <1>1, <1>2, <2>1, <2>2 DEF Apart, Drafting, Untouched
<1>6. QED BY <1>1, <1>2, <1>3, <1>4, <1>5, Basics, LocalStep

LEMMA ReadOriginalKeeps ==
  ASSUME IInv, NEW r \in Request, ReadOriginal(r)
  PROVE  IInv'
<1>1. PICK e \in executions : draft' = [draft EXCEPT ![r] = {e}]
  BY DEF ReadOriginal
<1>2. /\ pc[r] = "idle"
      /\ pc' = [pc EXCEPT ![r] = "reproducing"]
      /\ UNCHANGED <<statistics, executions, reproductions, version, drawn, call, series,
                     ready, answers>>
  BY DEF ReadOriginal, tables
<1>3. /\ pc'[r] = "reproducing" /\ draft'[r] = {e}
      /\ \A q \in Request \ {r} : Untouched(q)
  BY <1>1, <1>2 DEF IInv, TypeOK, Untouched
<1>4. e \in Execution /\ Shaped(e)
  BY DEF IInv, TypeOK
<1>5. TypeOK'
  <2>1. draft' \in [Request -> SUBSET Execution]
    BY <1>1, <1>4 DEF IInv, TypeOK
  <2>2. \A q \in Request : \A d \in draft'[q] : Shaped(d)
    <3> SUFFICES ASSUME NEW q \in Request, NEW d \in draft'[q] PROVE Shaped(d)
      OBVIOUS
    <3>1. d = e \/ d \in draft[q]
      BY <1>3 DEF Untouched
    <3>2. QED BY <1>4, <3>1 DEF IInv, TypeOK
  <2>3. QED BY <1>2, <2>1, <2>2 DEF IInv, TypeOK, Shaped
<1>6. Mine(r)'
  <2>1. Carries(r)
    BY DEF IInv, Mine
  <2>2. Carries(r)' /\ Fresh(r)' /\ Ripe(r)'
    BY <1>2, <1>3, <2>1 DEF Carries, Fresh, Ripe, Sampling, Drafting
  <2>3. QED BY <2>2 DEF Mine
<1>7. \A q \in Request \ {r} : Apart(q, r)'
  BY <1>3 DEF Apart, Drafting
<1>8. QED BY <1>2, <1>3, <1>5, <1>6, <1>7, Basics, LocalStep

LEMMA CommitStores ==
  ASSUME IInv, NEW r \in Request, Commit(r)
  PROVE  \E e \in Execution :
           /\ draft[r] = {e}
           /\ executions' = executions \cup {e}
           /\ answers' \in {answers, Append(answers, e)}
           /\ e.id \in Nat /\ e.id <= drawn /\ Shaped(e) /\ Recorded(e)
           /\ e.match = call[r].match /\ e.key = call[r].key
           /\ \A x \in executions : x.id # e.id
           /\ SameKey(call[r]) = {}
<1>1. pc[r] = "inserted"
  BY DEF Commit
<1>2. Carries(r) /\ Fresh(r)
  BY DEF IInv, Mine
<1>3. PICK e \in Execution : draft[r] = {e}
  BY <1>1, <1>2 DEF Carries, Drafting
<1>4. /\ executions' = executions \cup {e}
      /\ answers' \in {answers, Append(answers, e)}
  BY <1>3 DEF Commit
<1>5. /\ e.id <= drawn /\ Recorded(e)
      /\ e.match = call[r].match /\ e.key = call[r].key
      /\ \A x \in executions : x.id # e.id
  BY <1>1, <1>2, <1>3 DEF Fresh, Drafting
<1>6. SameKey(call[r]) = {}
  BY <1>1, <1>2 DEF Carries
<1>7. Shaped(e)
  BY <1>3 DEF IInv, TypeOK
<1>8. e.id \in Nat
  BY DEF Execution
<1>9. QED BY <1>3, <1>4, <1>5, <1>6, <1>7, <1>8

LEMMA CommitKeepsTypeOK ==
  ASSUME IInv, NEW r \in Request, Commit(r)
  PROVE  TypeOK'
<1>1. PICK e \in Execution : /\ executions' = executions \cup {e}
                             /\ answers' \in {answers, Append(answers, e)}
                             /\ Shaped(e)
  BY CommitStores
<1>2. answers' \in Seq(executions')
  <2>1. answers \in Seq(executions')
    BY <1>1, Basics
  <2>2. e \in executions'
    BY <1>1
  <2>3. QED BY <1>1, <2>1, <2>2
<1>3. \A x \in executions' : x \in Execution /\ Shaped(x)
  BY <1>1 DEF IInv, TypeOK
<1>4. End(r) /\ UNCHANGED <<statistics, reproductions, version, drawn>>
  BY DEF Commit
<1>5. QED BY <1>2, <1>3, <1>4, EndTyped DEF IInv, TypeOK, Call, Shaped

\* The row that is committed has an identifier and a key that no other draft has.
LEMMA CommitKeepsOthers ==
  ASSUME IInv, NEW r \in Request, Commit(r), NEW q \in Request \ {r}
  PROVE  Mine(q)'
<1>1. PICK e \in Execution : /\ draft[r] = {e}
                             /\ executions' = executions \cup {e}
                             /\ e.match = call[r].match /\ e.key = call[r].key
  BY CommitStores
<1>2. Untouched(q) /\ UNCHANGED <<statistics, drawn>> /\ pc[r] = "inserted"
  BY EndedIsMine DEF Commit
<1>3. Mine(q) /\ Apart(q, r) /\ call[r] \in Call
  BY <1>2 DEF IInv, Mine, Carries, Drafting
<1>4. pc[q] = "inserted" => SameKey(call[q])' = {}
  <2> SUFFICES ASSUME pc[q] = "inserted" PROVE SameKey(call[q])' = {}
    OBVIOUS
  <2>1. call[q] \in Call /\ SameKey(call[q]) = {}
    BY <1>3 DEF Mine, Carries, Drafting
  <2>2. ~(call[q].key # NoKey /\ e.match = call[q].match /\ e.key = call[q].key)
    <3>1. call[q].match = call[r].match /\ call[q].key = call[r].key => call[q] = call[r]
      BY <1>3, <2>1 DEF Call
    <3>2. QED BY <1>1, <1>2, <1>3, <3>1 DEF Apart
  <2>3. \A x \in executions' :
          ~(call[q].key # NoKey /\ x.match = call[q].match /\ x.key = call[q].key)
    BY <1>1, <2>1, <2>2 DEF SameKey
  <2>4. QED BY <1>2, <2>3 DEF SameKey, Untouched
<1>5. Carries(q)'
  <2>1. Carries(q)
    BY <1>3 DEF Mine
  <2>2. /\ pc'[q] \in Sampling \cup Drafting => call'[q] \in Call
        /\ pc'[q] \in {"idle", "looking", "sampling", "reproducing"} => series'[q] = <<>>
        /\ pc'[q] = "home read" => Len(series'[q]) = 1
        /\ pc'[q] = "sampled" => Len(series'[q]) = 2
        /\ pc'[q] = "reproducing" => \E x \in executions' : draft'[q] = {x}
        /\ pc'[q] \in Drafting => \E x \in Execution : draft'[q] = {x}
    BY <1>1, <1>2, <2>1 DEF Carries, Untouched
  <2>3. pc'[q] = "inserted" => SameKey(call[q])' = {}
    BY <1>2, <1>4 DEF Untouched
  <2>4. QED
    BY <2>2, <2>3 DEF Carries, Sampling, Drafting, Call, Execution, Sample, Status
<1>6. Fresh(q)'
  <2> SUFFICES ASSUME pc[q] \in Drafting, NEW d \in draft[q]
               PROVE  /\ d.id <= drawn
                      /\ d.match = call[q].match /\ d.key = call[q].key
                      /\ Recorded(d)
                      /\ \A x \in executions \cup {e} : x.id # d.id
    BY <1>1, <1>2 DEF Fresh, Untouched, Recorded, Engine
  <2>1. d.id # e.id
    BY <1>1, <1>2, <1>3 DEF Apart, Drafting
  <2>2. QED BY <1>3, <2>1 DEF Mine, Fresh
<1>7. QED BY <1>2, <1>5, <1>6, RipeStays DEF Mine

LEMMA CommitKeeps ==
  ASSUME IInv, NEW r \in Request, Commit(r)
  PROVE  IInv'
<1>1. PICK e \in Execution : /\ executions' = executions \cup {e}
                             /\ e.id <= drawn /\ Recorded(e)
  BY CommitStores
<1>2. End(r) /\ UNCHANGED <<statistics, reproductions, version, drawn>>
  BY DEF Commit
<1>3. Mine(r)' /\ \A q \in Request \ {r} : Untouched(q) /\ Apart(q, r)'
  BY <1>2, EndedIsMine
<1>4. \A q \in Request : Mine(q)'
  BY <1>3, CommitKeepsOthers
<1>5. \A p, q \in Request : p # q => Apart(p, q)'
  <2> SUFFICES ASSUME NEW p \in Request, NEW q \in Request, p # q PROVE Apart(p, q)'
    OBVIOUS
  <2>1. CASE q = r
    BY <1>3, <2>1
  <2>2. CASE p = r
    <3>1. Apart(q, p)'
      BY <1>3, <2>2
    <3>2. QED BY <3>1 DEF Apart
  <2>3. CASE p # r /\ q # r
    BY <1>3, <2>3 DEF IInv, Apart, Untouched
  <2>4. QED BY <2>1, <2>2, <2>3
<1>6. \A x \in executions' : x.id <= drawn' /\ Recorded(x)'
  <2> SUFFICES ASSUME NEW x \in executions' PROVE x.id <= drawn /\ Recorded(x)
    BY <1>2 DEF Recorded, Engine
  <2>1. x = e \/ x \in executions
    BY <1>1
  <2>2. QED BY <1>1, <2>1 DEF IInv
<1>7. ReproductionsAgree'
  BY <1>1, <1>2 DEF IInv, ReproductionsAgree
<1>8. QED BY <1>4, <1>5, <1>6, <1>7, CommitKeepsTypeOK DEF IInv

\* What a reproduction of a recorded execution may find.
LEMMA OutcomesAgree ==
  ASSUME IInv, NEW e \in executions, NEW outcome \in Outcomes(e)
  PROVE  /\ outcome \in Outcome
         /\ outcome # "mismatch"
         /\ outcome \in {"exact_match", "technical_failure"} =>
              e.status = "completed" /\ e.version = version
         /\ outcome = "incompatible_version" => e.version # version
<1>1. CASE e.status # "completed"
  BY <1>1 DEF Outcomes, Outcome
<1>2. CASE e.status = "completed" /\ e.version # version
  BY <1>2 DEF Outcomes, Outcome
<1>3. CASE e.status = "completed" /\ e.version = version
  <2>1. PICK request \in Sample :
          e.input = {request} /\ e.result = {Engine(e.version, request)}
    BY <1>3 DEF IInv, Recorded
  <2>2. Decoded(e) = request
    BY <2>1 DEF Decoded
  <2>3. Decoded(e) \in e.input /\ Engine(version, Decoded(e)) \in e.result
    BY <1>3, <2>1, <2>2
  <2>4. outcome \in {"blocked", "technical_failure", "exact_match"}
    BY <1>3, <2>3 DEF Outcomes
  <2>5. QED BY <1>3, <2>4 DEF Outcome
<1>4. QED BY <1>1, <1>2, <1>3

LEMMA AppendReproductionKeeps ==
  ASSUME IInv, NEW r \in Request, AppendReproduction(r)
  PROVE  IInv'
<1>1. PICK e \in executions : draft[r] = {e}
  BY DEF AppendReproduction, IInv, Mine, Carries
<1>2. PICK outcome \in Outcomes(e) :
        reproductions' = Append(reproductions,
          [execution |-> e.id, outcome |-> outcome, version |-> version])
  BY <1>1 DEF AppendReproduction
<1>3. End(r) /\ UNCHANGED <<statistics, executions, version, drawn, answers>>
  BY DEF AppendReproduction
<1> DEFINE row == [execution |-> e.id, outcome |-> outcome, version |-> version]
           Reproduction == [execution : Nat, outcome : Outcome, version : Nat]
<1>4. e \in Execution /\ reproductions \in Seq(Reproduction)
  BY DEF IInv, TypeOK
<1>5. row \in Reproduction
  BY <1>4, OutcomesAgree, Basics DEF Execution
<1>6. TypeOK'
  <2>1. reproductions' \in Seq(Reproduction)
    BY <1>2, <1>4, <1>5
  <2>2. QED BY <1>3, <2>1, EndTyped DEF IInv, TypeOK, Call, Shaped
<1>7. Mine(r)' /\ \A q \in Request \ {r} : Untouched(q) /\ Apart(q, r)'
  BY <1>3, EndedIsMine
<1>8. \A q \in Request : Mine(q)'
  BY <1>3, <1>7, OthersKeep, Basics
<1>9. \A p, q \in Request : p # q => Apart(p, q)'
  <2> SUFFICES ASSUME NEW p \in Request, NEW q \in Request, p # q PROVE Apart(p, q)'
    OBVIOUS
  <2>1. CASE q = r
    BY <1>7, <2>1
  <2>2. CASE p = r
    <3>1. Apart(q, p)'
      BY <1>7, <2>2
    <3>2. QED BY <3>1 DEF Apart
  <2>3. CASE p # r /\ q # r
    BY <1>7, <2>3 DEF IInv, Apart, Untouched
  <2>4. QED BY <2>1, <2>2, <2>3
<1>10. \A x \in executions' : x.id <= drawn' /\ Recorded(x)'
  BY <1>3 DEF IInv, Recorded, Engine
<1>11. ReproductionsAgree'
  <2> SUFFICES ASSUME NEW i \in 1..Len(reproductions')
               PROVE  \E x \in executions :
                 /\ x.id = reproductions'[i].execution
                 /\ reproductions'[i].outcome # "mismatch"
                 /\ reproductions'[i].outcome \in {"exact_match", "technical_failure"} =>
                      x.status = "completed" /\ x.version = reproductions'[i].version
                 /\ reproductions'[i].outcome = "incompatible_version" =>
                      x.version # reproductions'[i].version
    BY <1>3 DEF ReproductionsAgree
  <2> HIDE DEF row, Reproduction
  <2>1. /\ Len(reproductions') = Len(reproductions) + 1
        /\ reproductions'[Len(reproductions) + 1] = row
        /\ \A j \in 1..Len(reproductions) : reproductions'[j] = reproductions[j]
    BY <1>2, <1>4, <1>5 DEF row
  <2>2. CASE i \in 1..Len(reproductions)
    BY <2>1, <2>2 DEF IInv, ReproductionsAgree
  <2>3. CASE i = Len(reproductions) + 1
    <3>1. reproductions'[i] = row
      BY <2>1, <2>3
    <3>2. row.execution = e.id /\ row.outcome = outcome /\ row.version = version
      BY DEF row
    <3>3. QED BY <3>1, <3>2, OutcomesAgree
  <2>4. QED BY <2>1, <2>2, <2>3, <1>4
<1>12. QED BY <1>6, <1>8, <1>9, <1>10, <1>11 DEF IInv

-----------------------------------------------------------------------------
(* Steps of nobody's request. *)

LEMMA PublishKeeps ==
  ASSUME IInv, NEW m \in Match, NEW g \in Goals, Publish(m, g)
  PROVE  IInv'
<1>1. /\ statistics' = [n \in DOMAIN statistics \cup {m} |->
                          IF n = m THEN g ELSE statistics[n]]
      /\ UNCHANGED <<executions, reproductions, version, drawn, pc, call, series, draft,
                     ready, answers>>
  BY DEF Publish, requestVars
<1>2. /\ DOMAIN statistics' = DOMAIN statistics \cup {m}
      /\ \A n \in DOMAIN statistics' :
           statistics'[n] = IF n = m THEN g ELSE statistics[n]
  BY <1>1
<1>3. TypeOK'
  <2>1. DOMAIN statistics' \subseteq Match
    BY <1>2 DEF IInv, TypeOK
  <2>2. \A n \in DOMAIN statistics' : statistics'[n] \in Goals
    BY <1>2 DEF IInv, TypeOK
  <2>3. QED BY <1>1, <2>1, <2>2 DEF IInv, TypeOK, Shaped
<1>4. \A q \in Request : Mine(q)'
  <2> SUFFICES ASSUME NEW q \in Request PROVE Mine(q)'
    OBVIOUS
  <2>1. Untouched(q)
    BY <1>1 DEF Untouched
  <2>2. QED BY <1>1, <1>2, <2>1, OthersKeep, Basics
<1>5. \A p, q \in Request : p # q => Apart(p, q)'
  BY <1>1 DEF IInv, Apart
<1>6. (\A x \in executions' : x.id <= drawn' /\ Recorded(x)') /\ ReproductionsAgree'
  BY <1>1 DEF IInv, Recorded, Engine, ReproductionsAgree
<1>7. QED BY <1>3, <1>4, <1>5, <1>6 DEF IInv

LEMMA UpgradeKeeps ==
  ASSUME IInv, Upgrade
  PROVE  IInv'
<1>1. /\ version' = version + 1
      /\ pc' = [r \in Request |-> "idle"]
      /\ call' = [r \in Request |-> NoCall]
      /\ series' = [r \in Request |-> <<>>]
      /\ draft' = [r \in Request |-> {}]
      /\ ready' = [r \in Request |-> FALSE]
      /\ UNCHANGED <<statistics, executions, reproductions, drawn, answers>>
  BY DEF Upgrade, tables
<1>2. TypeOK'
  <2>1. version' \in Nat
    BY <1>1, Basics
  <2>2. <<>> \in Sample
    BY DEF Sample
  <2>3. QED BY <1>1, <2>1, <2>2 DEF IInv, TypeOK, Shaped
<1>3. \A q \in Request : Mine(q)'
  BY <1>1 DEF Mine, Carries, Fresh, Ripe, Sampling, Drafting
<1>4. \A p, q \in Request : p # q => Apart(p, q)'
  BY <1>1 DEF Apart, Drafting
<1>5. (\A x \in executions' : x.id <= drawn' /\ Recorded(x)') /\ ReproductionsAgree'
  BY <1>1 DEF IInv, Recorded, Engine, ReproductionsAgree
<1>6. QED BY <1>2, <1>3, <1>4, <1>5 DEF IInv

LEMMA StutterKeeps ==
  ASSUME IInv, UNCHANGED vars
  PROVE  IInv'
<1>1. UNCHANGED <<statistics, executions, reproductions, version, drawn, pc, call, series,
                  draft, ready, answers>>
  BY DEF vars, tables, requestVars
<1>2. TypeOK'
  BY <1>1 DEF IInv, TypeOK, Shaped
<1>3. \A q \in Request : Mine(q)'
  <2> SUFFICES ASSUME NEW q \in Request PROVE Mine(q)'
    OBVIOUS
  <2>1. Untouched(q)
    BY <1>1 DEF Untouched
  <2>2. QED BY <1>1, <2>1, OthersKeep, Basics
<1>4. \A p, q \in Request : p # q => Apart(p, q)'
  BY <1>1 DEF IInv, Apart
<1>5. (\A x \in executions' : x.id <= drawn' /\ Recorded(x)') /\ ReproductionsAgree'
  BY <1>1 DEF IInv, Recorded, Engine, ReproductionsAgree
<1>6. QED BY <1>2, <1>3, <1>4, <1>5 DEF IInv

LEMMA InitIInv ==
  ASSUME Init
  PROVE  IInv
<1>1. TypeOK
  <2>1. <<>> \in Sample /\ <<>> \in Seq(executions)
    BY DEF Sample
  <2>2. QED BY <2>1, PricingAssumption DEF Init, TypeOK
<1>2. \A r \in Request : Mine(r)
  BY DEF Init, Mine, Carries, Fresh, Ripe, Sampling, Drafting
<1>3. \A p, q \in Request : p # q => Apart(p, q)
  BY DEF Init, Apart, Drafting
<1>4. (\A x \in executions : x.id <= drawn /\ Recorded(x)) /\ ReproductionsAgree
  BY DEF Init, ReproductionsAgree
<1>5. QED BY <1>1, <1>2, <1>3, <1>4 DEF IInv

LEMMA NextKeepsIInv ==
  ASSUME IInv, [Next]_vars
  PROVE  IInv'
<1>1. ASSUME NEW r \in Request, Step(r)
      PROVE  IInv'
  BY <1>1, LookUpKeeps, ReadHomeKeeps, ReadAwayKeeps, PriceKeeps, InsertKeeps,
     ReadBackKeeps, CommitKeeps, AppendReproductionKeeps DEF Step
<1>2. CASE UNCHANGED vars
  BY <1>2, StutterKeeps
<1>3. CASE Next
  BY <1>1, <1>2, <1>3, PostKeeps, ReadOriginalKeeps, FailKeeps, PublishKeeps, UpgradeKeeps
     DEF Next, Quiescent
<1>4. QED BY <1>2, <1>3

-----------------------------------------------------------------------------
(* The theorems. *)

\* The inductive invariant.
THEOREM Invariance == Spec => []IInv
<1>1. Init => IInv
  BY InitIInv
<1>2. IInv /\ [Next]_vars => IInv'
  BY NextKeepsIInv
<1>3. QED BY <1>1, <1>2, PTL DEF Spec

\* Type correctness, the CHECK constraint on the shape of an execution included.
THEOREM TypeCorrect == Spec => []TypeOK
<1>1. IInv => TypeOK
  BY DEF IInv
<1>2. QED BY <1>1, Invariance, PTL

\* Reproductions of one version agree with what that version recorded, whatever happens
\* to the statistics the execution was calculated from.
THEOREM ReproductionsNeverDisagree == Spec => []ReproductionsAgree
<1>1. IInv => ReproductionsAgree
  BY DEF IInv
<1>2. QED BY <1>1, Invariance, PTL

\* The two series are read by two statements; still no request that finds its sample
\* complete is blocked for an incomplete one.
THEOREM CompleteSamplesArePriced == Spec => []CompleteSampleIsNotBlocked
<1>1. IInv => CompleteSampleIsNotBlocked
  BY DEF IInv, Mine, Ripe, Drafting, CompleteSampleIsNotBlocked
<1>2. QED BY <1>1, Invariance, PTL

\* The recording of executions implements its promise: the initial states are those of
\* the store, a commit creates a record that is new, an answer from SameKey repeats one,
\* and everything else the store does not see.
THEOREM ExecutionsImplementStore == Spec => StoreSpec
<1>1. Init => Store!Init
  BY DEF Init, Store!Init
<1>2. IInv /\ [Next]_vars => [Store!Next]_(Store!vars)
  <2> SUFFICES ASSUME IInv, [Next]_vars, ~(UNCHANGED <<executions, answers>>)
               PROVE  Store!Next
    BY DEF Store!vars
  <2>1. PICK r \in Request : LookUp(r) \/ ReadBack(r) \/ Commit(r)
    BY DEF Next, Step, Post, ReadOriginal, ReadHome, ReadAway, Price, Insert,
           AppendReproduction, Fail, Publish, Upgrade, Quiescent, vars, tables
  <2>2. CASE Commit(r)
    <3>1. PICK e \in Execution : /\ executions' = executions \cup {e}
                                 /\ answers' \in {answers, Append(answers, e)}
                                 /\ e.match = call[r].match /\ e.key = call[r].key
                                 /\ \A x \in executions : x.id # e.id
                                 /\ SameKey(call[r]) = {}
      BY <2>2, CommitStores
    <3>2. e \in executions' \ executions
      BY <3>1
    <3>3. Store!IsNew(e)
      BY <3>1 DEF Store!IsNew, SameKey
    <3>4. QED BY <3>1, <3>2, <3>3 DEF Store!Next, Store!Create
  <2>3. CASE LookUp(r) \/ ReadBack(r)
    <3>1. PICK e \in SameKey(call[r]) : answers' = Append(answers, e)
      BY <2>3 DEF LookUp, ReadBack, tables
    <3>2. e \in executions /\ e.key # NoKey
      BY <3>1 DEF SameKey
    <3>3. UNCHANGED executions
      BY <2>3 DEF LookUp, ReadBack, tables
    <3>4. QED BY <3>1, <3>2, <3>3 DEF Store!Next, Store!Repeat
  <2>4. QED BY <2>1, <2>2, <2>3
<1>3. QED BY <1>1, <1>2, Invariance, PTL DEF Spec, StoreSpec, Store!Spec
=============================================================================
