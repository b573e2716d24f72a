------------------------- MODULE EmbeddingServiceProofs -------------------------
(***************************************************************************)
(* The two components around EmbeddingService (ml/embeddings/service.py).  *)
(*                                                                         *)
(* The limiter never over-grants, for any number of callers, batch sizes,  *)
(* limit, clock resolution, crashes and Redis failures.  The DAG that uses *)
(* the service finishes only with mentions that are complete, and what the *)
(* service pays for is put on record, for any texts, batch sizes, retries  *)
(* and failures.                                                           *)
(***************************************************************************)
EXTENDS TokenBucket, EmbeddingBatch, FiniteSetTheorems, TLAPS

-------------------------------------------------------------------------------
(* Sums over 1..N, for every N and every f.  The induction is in set form: a set of     *)
(* naturals has a least element because the strict-subset ordering of finite sets is    *)
(* well founded.                                                                        *)

\* Every non-empty set of naturals has a least element.
LEMMA LeastNatural ==
  ASSUME NEW T \in SUBSET Nat, T # {}
  PROVE  \E m \in T : \A k \in T : m <= k
<1> DEFINE F == {0..m : m \in T}
           R == StrictSubsetOrdering(Nat)
<1>1. F \subseteq FiniteSubsetsOf(Nat)
  <2> SUFFICES ASSUME NEW m \in T PROVE 0..m \in FiniteSubsetsOf(Nat)
    OBVIOUS
  <2>1. IsFiniteSet(0..m)
    BY FS_Interval, 0 \in Int, m \in Int
  <2>2. 0..m \in SUBSET Nat
    OBVIOUS
  <2> QED BY <2>1, <2>2 DEF FiniteSubsetsOf
<1>2. F # {}
  OBVIOUS
<1>3. IsWellFoundedOn(R, FiniteSubsetsOf(Nat))
  BY FS_StrictSubsetOrderingWellFounded
<1> HIDE DEF F, R
<1>4. PICK A \in F : \A B \in F : ~(<<B, A>> \in R)
  BY <1>1, <1>2, <1>3, WFMin, Zenon
<1>5. PICK m \in T : A = 0..m
  BY <1>4 DEF F
<1>6. ASSUME NEW k \in T, k < m PROVE FALSE
  <2>1. 0..k \in F /\ 0..k \in SUBSET Nat /\ A \in SUBSET Nat
    BY <1>5 DEF F
  <2>2. 0..k \subseteq A /\ 0..k # A
    <3>1. m \in A /\ m \notin 0..k
      BY <1>5, <1>6
    <3>2. 0..k \subseteq A BY <1>5, <1>6
    <3> QED BY <3>1, <3>2
  <2>3. <<0..k, A>> \in R
    BY <2>1, <2>2, Zenon DEF R, StrictSubsetOrdering
  <2> QED BY <1>4, <2>1, <2>3
<1> QED BY <1>6

\* Induction over 0..N: a set that holds 0 and is closed under successor is 0..N.
LEMMA IntervalInduction ==
  ASSUME NEW N \in Nat, NEW G \in SUBSET (0..N), 0 \in G,
         \A i \in 1..N : i-1 \in G => i \in G
  PROVE  G = 0..N
<1> DEFINE Bad == (0..N) \ G
<1> SUFFICES ASSUME Bad # {} PROVE FALSE
  OBVIOUS
<1>1. Bad \in SUBSET Nat OBVIOUS
<1> HIDE DEF Bad
<1>2. PICK m \in Bad : \A k \in Bad : m <= k BY <1>1, LeastNatural
<1>3. m \in 1..N BY <1>2 DEF Bad
<1>4. m - 1 \notin Bad BY <1>2, <1>3, <1>1
<1> QED BY <1>2, <1>3, <1>4 DEF Bad

\* g holds the partial sums of f up to m.
IsPrefixSum(f, m, g) ==
  /\ g \in [0..m -> Int]
  /\ g[0] = 0
  /\ \A i \in 1..m : g[i] = g[i-1] + f[i]

\* Partial sums exist, by induction on their length.
LEMMA PrefixExists ==
  ASSUME NEW N \in Nat, NEW f \in [1..N -> Int]
  PROVE  \E g : IsPrefixSum(f, N, g)
<1> DEFINE Good == {m \in 0..N : \E g : IsPrefixSum(f, m, g)}
<1>1. 0 \in Good
  <2>1. IsPrefixSum(f, 0, [i \in 0..0 |-> 0])
    BY DEF IsPrefixSum
  <2> QED BY <2>1
<1>2. ASSUME NEW m \in 1..N, m-1 \in Good PROVE m \in Good
  <2>1. PICK g : IsPrefixSum(f, m-1, g)
    BY <1>2
  <2> DEFINE h == [i \in 0..m |-> IF i = m THEN g[m-1] + f[m] ELSE g[i]]
  <2>2. h \in [0..m -> Int]
    BY <2>1 DEF IsPrefixSum
  <2>3. h[0] = 0
    BY <2>1 DEF IsPrefixSum
  <2>4. ASSUME NEW i \in 1..m PROVE h[i] = h[i-1] + f[i]
    <3>1. h[i-1] = g[i-1]
      OBVIOUS
    <3>2. CASE i = m
      BY <3>1, <3>2
    <3>3. CASE i # m
      <4>1. i \in 1..(m-1)
        BY <3>3
      <4> QED BY <2>1, <3>1, <3>3, <4>1 DEF IsPrefixSum
    <3> QED BY <3>2, <3>3
  <2> HIDE DEF h
  <2>5. IsPrefixSum(f, m, h)
    BY <2>2, <2>3, <2>4 DEF IsPrefixSum
  <2> QED BY <2>5
<1>3. Good \in SUBSET (0..N)
  OBVIOUS
<1>4. N \in Good
  <2> HIDE DEF Good
  <2> QED BY <1>1, <1>2, <1>3, IntervalInduction
<1> QED BY <1>4

\* The recursive function of PrefixSums computes the partial sums.
LEMMA PrefixStep ==
  ASSUME NEW N \in Nat, NEW f \in [1..N -> Int]
  PROVE  IsPrefixSum(f, N, Prefix(f, N))
<1>1. PICK g : IsPrefixSum(f, N, g)
  BY PrefixExists
<1>2. g = [i \in 0..N |-> IF i = 0 THEN 0 ELSE g[i-1] + f[i]]
  BY <1>1 DEF IsPrefixSum
<1>3. Prefix(f, N) = [i \in 0..N |-> IF i = 0 THEN 0 ELSE Prefix(f,N)[i-1] + f[i]]
  BY <1>2 DEF Prefix
<1> DEFINE p == Prefix(f, N)
<1> HIDE DEF p
<1>4. p = [i \in 0..N |-> IF i = 0 THEN 0 ELSE p[i-1] + f[i]]
  BY <1>3 DEF p
<1>5. p[0] = 0 /\ \A i \in 1..N : p[i] = p[i-1] + f[i]
  BY <1>4
<1> DEFINE G == {i \in 0..N : p[i] \in Int}
<1>6. 0 \in G /\ \A i \in 1..N : i-1 \in G => i \in G
  BY <1>5
<1>7. G = 0..N
  <2>1. G \in SUBSET (0..N) OBVIOUS
  <2> HIDE DEF G
  <2> QED BY <1>6, <2>1, IntervalInduction
<1>8. p \in [0..N -> Int]
  BY <1>4, <1>7
<1> QED BY <1>5, <1>8 DEF IsPrefixSum, p

\* A sum of naturals is a natural and no smaller than any of its terms.
LEMMA TotalNat ==
  ASSUME NEW N \in Nat, NEW f \in [1..N -> Nat]
  PROVE  /\ Total(f, N) \in Nat
         /\ \A w \in 1..N : f[w] <= Total(f, N)
<1> DEFINE p == Prefix(f, N)
<1>1. IsPrefixSum(f, N, p)
  BY PrefixStep
<1> HIDE DEF p
<1> DEFINE G == {i \in 0..N : p[i] >= 0 /\ \A w \in 1..i : f[w] <= p[i]}
<1>2. 0 \in G
  BY <1>1 DEF IsPrefixSum
<1>3. ASSUME NEW i \in 1..N, i-1 \in G PROVE i \in G
  <2>1. p[i] = p[i-1] + f[i] /\ p[i] \in Int /\ p[i-1] \in Int
    BY <1>1 DEF IsPrefixSum
  <2>2. p[i-1] >= 0 /\ \A w \in 1..(i-1) : f[w] <= p[i-1]
    BY <1>3
  <2> QED BY <2>1, <2>2
<1>4. G = 0..N
  <2>1. G \in SUBSET (0..N) OBVIOUS
  <2> HIDE DEF G
  <2> QED BY <1>2, <1>3, <2>1, IntervalInduction
<1>5. N \in G BY <1>4
<1>6. p[N] \in Int BY <1>1 DEF IsPrefixSum
<1> QED BY <1>5, <1>6 DEF Total, p

\* Changing one term changes the sum by the difference.
LEMMA TotalUpdate ==
  ASSUME NEW N \in Nat, NEW f \in [1..N -> Int], NEW w \in 1..N, NEW v \in Int
  PROVE  Total([f EXCEPT ![w] = v], N) = Total(f, N) - f[w] + v
<1> DEFINE h == [f EXCEPT ![w] = v]
           p == Prefix(f, N)
           q == Prefix(h, N)
<1>1. IsPrefixSum(f, N, p) /\ IsPrefixSum(h, N, q)
  BY PrefixStep
<1>2. \A i \in 1..N : h[i] = IF i = w THEN v ELSE f[i]
  OBVIOUS
<1> HIDE DEF h, p, q
<1> DEFINE G == {i \in 0..N : q[i] = IF i < w THEN p[i] ELSE p[i] - f[w] + v}
<1>3. 0 \in G
  BY <1>1 DEF IsPrefixSum
<1>4. ASSUME NEW i \in 1..N, i-1 \in G PROVE i \in G
  <2>1. /\ p[i] = p[i-1] + f[i] /\ p[i] \in Int /\ p[i-1] \in Int
        /\ q[i] = q[i-1] + h[i] /\ q[i] \in Int /\ q[i-1] \in Int
    BY <1>1 DEF IsPrefixSum
  <2>2. q[i-1] = IF i-1 < w THEN p[i-1] ELSE p[i-1] - f[w] + v
    BY <1>4
  <2>3. h[i] = IF i = w THEN v ELSE f[i]
    BY <1>2
  <2>4. f[w] \in Int /\ f[i] \in Int /\ i \in Int /\ w \in Int
    OBVIOUS
  <2>5. q[i] = IF i < w THEN p[i] ELSE p[i] - f[w] + v
    <3>1. CASE i < w BY <3>1, <2>1, <2>2, <2>3, <2>4
    <3>2. CASE i = w BY <3>2, <2>1, <2>2, <2>3, <2>4
    <3>3. CASE i > w
      <4>1. q[i-1] = p[i-1] - f[w] + v BY <3>3, <2>2
      <4>2. h[i] = f[i] BY <3>3, <2>3
      <4>3. q[i] = p[i-1] - f[w] + v + f[i] BY <4>1, <4>2, <2>1
      <4>4. q[i] = p[i] - f[w] + v BY <4>3, <2>1, <2>4
      <4> QED BY <4>4, <3>3
    <3> QED BY <3>1, <3>2, <3>3
  <2> QED BY <2>5
<1>5. G = 0..N
  <2>1. G \in SUBSET (0..N) OBVIOUS
  <2> HIDE DEF G
  <2> QED BY <1>3, <1>4, <2>1, IntervalInduction
<1>6. N \in G BY <1>5
<1> QED BY <1>6 DEF Total, p, q, h

\* A sum of zeros is zero.
LEMMA TotalZero ==
  ASSUME NEW N \in Nat, NEW f \in [1..N -> Int], \A w \in 1..N : f[w] = 0
  PROVE  Total(f, N) = 0
<1> DEFINE p == Prefix(f, N)
<1>1. IsPrefixSum(f, N, p)
  BY PrefixStep
<1> HIDE DEF p
<1> DEFINE G == {i \in 0..N : p[i] = 0}
<1>2. 0 \in G
  BY <1>1 DEF IsPrefixSum
<1>3. ASSUME NEW i \in 1..N, i-1 \in G PROVE i \in G
  BY <1>1, <1>3 DEF IsPrefixSum
<1>4. G = 0..N
  <2>1. G \in SUBSET (0..N) OBVIOUS
  <2> HIDE DEF G
  <2> QED BY <1>2, <1>3, <2>1, IntervalInduction
<1>5. N \in G BY <1>4
<1> QED BY <1>5 DEF Total, p

\* What a partial sum adds, term by term.
LEMMA PrefixTerms ==
  ASSUME NEW N \in Nat, NEW f \in [1..N -> Int]
  PROVE  /\ Prefix(f, N)[0] = 0
         /\ \A i \in 1..N : /\ Prefix(f, N)[i] = Prefix(f, N)[i-1] + f[i]
                            /\ Prefix(f, N)[i-1] \in Int
<1> DEFINE p == Prefix(f, N)
<1>1. IsPrefixSum(f, N, p)
  BY PrefixStep
<1> HIDE DEF p
<1>2. p[0] = 0 /\ \A i \in 1..N : p[i] = p[i-1] + f[i] /\ p[i-1] \in Int
  BY <1>1 DEF IsPrefixSum
<1> QED BY <1>2 DEF p

\* The sum of two functions is the sum of their sums.
LEMMA TotalAdd ==
  ASSUME NEW N \in Nat, NEW f \in [1..N -> Int], NEW g \in [1..N -> Int]
  PROVE  Total([i \in 1..N |-> f[i] + g[i]], N) = Total(f, N) + Total(g, N)
<1> DEFINE h == [i \in 1..N |-> f[i] + g[i]]
           p == Prefix(f, N)
           q == Prefix(g, N)
           s == Prefix(h, N)
<1>1. h \in [1..N -> Int] /\ \A i \in 1..N : h[i] = f[i] + g[i]
  OBVIOUS
<1> HIDE DEF h
<1>2. p[0] = 0 /\ \A i \in 1..N : p[i] = p[i-1] + f[i] /\ p[i-1] \in Int
  BY PrefixTerms
<1>3. q[0] = 0 /\ \A i \in 1..N : q[i] = q[i-1] + g[i] /\ q[i-1] \in Int
  BY PrefixTerms
<1>4. s[0] = 0 /\ \A i \in 1..N : s[i] = s[i-1] + h[i] /\ s[i-1] \in Int
  BY <1>1, PrefixTerms
<1> HIDE DEF p, q, s
<1> DEFINE G == {i \in 0..N : s[i] = p[i] + q[i]}
<1>5. 0 \in G
  BY <1>2, <1>3, <1>4
<1>6. ASSUME NEW i \in 1..N, i-1 \in G PROVE i \in G
  <2>1. s[i-1] = p[i-1] + q[i-1]
    BY <1>6
  <2>2. f[i] \in Int /\ g[i] \in Int /\ h[i] = f[i] + g[i]
    BY <1>1
  <2>3. s[i] = p[i] + q[i]
    BY <1>2, <1>3, <1>4, <2>1, <2>2
  <2> QED BY <2>3
<1>7. G = 0..N
  <2>1. G \in SUBSET (0..N) OBVIOUS
  <2> HIDE DEF G
  <2> QED BY <1>5, <1>6, <2>1, IntervalInduction
<1>8. s[N] = p[N] + q[N]
  BY <1>7
<1> QED BY <1>8 DEF Total, p, q, s, h

-------------------------------------------------------------------------------
(* The account of the counter *)

USE BucketAssumption DEF BucketAssumption

\* The terms of PendingOn(k).
PendingFcn(k) == [w \in Workers |-> Pending(w, k)]

\* What is pending on a key is a natural number, and bounds each caller's share.
LEMMA PendingNat ==
  ASSUME TypeOK, NEW k \in Slots
  PROVE  /\ PendingFcn(k) \in [Workers -> Nat]
         /\ PendingOn(k) \in Nat
         /\ \A w \in Workers : Pending(w, k) <= PendingOn(k)
<1>1. PendingFcn(k) \in [1..NWorkers -> Nat]
  BY DEF PendingFcn, Pending, Workers, TypeOK
<1>2. /\ PendingOn(k) = Total(PendingFcn(k), NWorkers)
      /\ \A w \in Workers : PendingFcn(k)[w] = Pending(w, k)
  BY DEF PendingOn, PendingFcn
<1> HIDE DEF PendingFcn
<1>3. /\ Total(PendingFcn(k), NWorkers) \in Nat
      /\ \A w \in 1..NWorkers : PendingFcn(k)[w] <= Total(PendingFcn(k), NWorkers)
  BY <1>1, TotalNat
<1> QED BY <1>1, <1>2, <1>3 DEF Workers

\* A step of one caller changes what is pending by that caller's share alone.
LEMMA PendingStep ==
  ASSUME TypeOK, TypeOK', NEW k \in Slots, NEW w \in Workers,
         \A v \in Workers \ {w} : Pending(v, k)' = Pending(v, k)
  PROVE  PendingOn(k)' = PendingOn(k) - Pending(w, k) + Pending(w, k)'
<1>1. PendingFcn(k) \in [1..NWorkers -> Int]
  BY DEF PendingFcn, Pending, Workers, TypeOK
<1>2. PendingFcn(k)' = [PendingFcn(k) EXCEPT ![w] = Pending(w, k)']
  BY DEF PendingFcn
<1>3. Pending(w, k)' \in Int /\ PendingFcn(k)[w] = Pending(w, k)
  BY DEF PendingFcn, Pending, TypeOK
<1>4. /\ PendingOn(k) = Total(PendingFcn(k), NWorkers)
      /\ PendingOn(k)' = Total(PendingFcn(k)', NWorkers)
  BY DEF PendingOn, PendingFcn
<1> HIDE DEF PendingFcn
<1>5. Total([PendingFcn(k) EXCEPT ![w] = Pending(w, k)'], NWorkers)
        = Total(PendingFcn(k), NWorkers) - PendingFcn(k)[w] + Pending(w, k)'
  BY <1>1, <1>3, TotalUpdate DEF Workers
<1> QED BY <1>2, <1>3, <1>4, <1>5

\* A key that no caller is working on has nothing pending.
LEMMA NothingPending ==
  ASSUME TypeOK, NEW k \in Slots, \A w \in Workers : Holds(w) => key[w] # k
  PROVE  PendingOn(k) = 0
<1>1. PendingFcn(k) \in [1..NWorkers -> Int]
  BY DEF PendingFcn, Pending, Workers, TypeOK
<1>2. \A w \in 1..NWorkers : PendingFcn(k)[w] = 0
  BY DEF PendingFcn, Pending, Holds, Workers
<1>3. PendingOn(k) = Total(PendingFcn(k), NWorkers)
  BY DEF PendingOn, PendingFcn
<1> HIDE DEF PendingFcn
<1> QED BY <1>1, <1>2, <1>3, TotalZero

-------------------------------------------------------------------------------

\* The invariant holds initially.
LEMMA InitIInv == Init => IInv
<1> SUFFICES ASSUME Init PROVE IInv
  OBVIOUS
<1>1. TypeOK
  BY DEF Init, TypeOK, Slots, Labels, KeyLife, Workers
<1>2. \A k \in Slots : PendingOn(k) = 0
  BY <1>1, NothingPending DEF Init, Holds
<1>3. RequestKnown /\ ExpiryOutlivesUse /\ Accounted /\ WindowLimit
  BY <1>2 DEF Init, RequestKnown, ExpiryOutlivesUse, Accounted, WindowLimit
<1> QED BY <1>1, <1>3 DEF IInv

\* A tick removes no counter that anybody may still use.
LEMMA TickIInv == IInv /\ Tick => IInv'
<1> SUFFICES ASSUME IInv, Tick PROVE IInv'
  OBVIOUS
<1> USE DEF IInv
<1>1. CASE TickWithin
  <2>1. TypeOK'
    BY <1>1 DEF TickWithin, TypeOK, KeyLife
  <2>2. bucket' = bucket
    BY <1>1 DEF TickWithin, TypeOK, ExpiryOutlivesUse, Slots
  <2>3. ExpiryOutlivesUse'
    BY <1>1 DEF TickWithin, TypeOK, ExpiryOutlivesUse, KeyLife
  <2>4. \A k \in Slots : PendingOn(k)' = PendingOn(k)
    BY <1>1 DEF TickWithin, PendingOn, Pending
  <2>5. RequestKnown' /\ WindowLimit' /\ Accounted'
    BY <1>1, <2>2, <2>4 DEF TickWithin, RequestKnown, WindowLimit, Accounted
  <2> QED BY <2>1, <2>3, <2>5
<1>2. CASE TickOver
  <2>1. TypeOK'
    <3>1. window' \in Slots /\ phase' \in 0..(Ticks-1)
      BY <1>2 DEF TickOver, TypeOK, Other, Slots
    <3>2. bucket' \in [Slots -> Nat]
      BY <1>2 DEF TickOver, TypeOK
    <3>3. ttl' \in [Slots -> 0..KeyLife]
      BY <1>2 DEF TickOver, TypeOK, KeyLife
    <3>4. admitted' \in [Slots -> Nat] /\ recent' \in [0..(Ticks-1) -> Nat]
      BY <1>2 DEF TickOver, TypeOK
    <3> QED BY <1>2, <3>1, <3>2, <3>3, <3>4 DEF TickOver, TypeOK
  <2>2. /\ bucket'[window] = bucket[window]
        /\ admitted'[window] = admitted[window]
        /\ admitted'[Other(window)] = 0
    BY <1>2 DEF TickOver, TypeOK, ExpiryOutlivesUse, Slots, Other
  <2>3. ExpiryOutlivesUse'
    BY <1>2 DEF TickOver, TypeOK, ExpiryOutlivesUse, KeyLife, Slots, Other
  <2>4. \A k \in Slots : PendingOn(k)' = PendingOn(k)
    BY <1>2 DEF TickOver, PendingOn, Pending
  <2>5. PendingOn(Other(window)) = 0
    BY <1>2, NothingPending DEF TickOver, TypeOK, Slots, Other
  <2>6. RequestKnown' /\ WindowLimit'
    BY <1>2 DEF TickOver, RequestKnown, WindowLimit, Slots, TypeOK
  <2>7. ASSUME NEW k \in Slots PROVE admitted'[k] + PendingOn(k)' <= bucket'[k]
    <3>1. CASE k = window
      BY <2>2, <2>4, <3>1 DEF Accounted
    <3>2. CASE k = Other(window)
      BY <2>1, <2>2, <2>4, <2>5, <3>2 DEF TypeOK
    <3> QED BY <3>1, <3>2 DEF Slots, Other, TypeOK
  <2> QED BY <2>1, <2>3, <2>6, <2>7 DEF Accounted
<1> QED BY <1>1, <1>2 DEF Tick

\* A caller's step that grants nothing, leaves the counters alone and does not add
\* to what is pending keeps the accounts.
LEMMA QuietStep ==
  ASSUME IInv, TypeOK', NEW w \in Workers,
         \A v \in Workers \ {w}, k \in Slots : Pending(v, k)' = Pending(v, k),
         \A k \in Slots : Pending(w, k)' <= Pending(w, k),
         UNCHANGED <<window, bucket, admitted>>
  PROVE  Accounted' /\ WindowLimit'
<1>1. \A k \in Slots : PendingOn(k)' = PendingOn(k) - Pending(w, k) + Pending(w, k)'
  BY PendingStep DEF IInv
<1>2. \A k \in Slots : /\ PendingOn(k) \in Nat
                       /\ Pending(w, k) \in Nat /\ Pending(w, k)' \in Nat
  BY PendingNat DEF IInv, Pending, TypeOK
<1>3. Accounted'
  <2> SUFFICES ASSUME NEW k \in Slots
               PROVE  admitted'[k] + PendingOn(k)' <= bucket'[k]
    BY DEF Accounted
  <2>1. admitted[k] \in Nat /\ bucket[k] \in Nat
    BY DEF IInv, TypeOK
  <2>2. admitted[k] + PendingOn(k) <= bucket[k]
    BY DEF IInv, Accounted
  <2> QED BY <1>1, <1>2, <2>1, <2>2
<1>4. WindowLimit'
  BY DEF WindowLimit, IInv
<1> QED BY <1>3, <1>4

\* Steps that touch only the caller's own variables, and EXPIRE.
LEMMA LocalIInv ==
  ASSUME IInv, NEW w \in Workers,
         Begin(w) \/ ReadClock(w) \/ Expire(w) \/ WakeUp(w) \/ CallDone(w) \/ Crash(w)
  PROVE  IInv'
<1> USE DEF IInv
<1>1. TypeOK'
  <2>1. CASE Begin(w)
    BY <2>1 DEF Begin, TypeOK, Labels
  <2>2. CASE ReadClock(w)
    BY <2>2 DEF ReadClock, TypeOK, Labels
  <2>3. CASE Expire(w)
    BY <2>3 DEF Expire, TypeOK, Labels, Decide, KeyLife
  <2>4. CASE WakeUp(w)
    BY <2>4 DEF WakeUp, TypeOK, Labels
  <2>5. CASE CallDone(w)
    BY <2>5 DEF CallDone, Return, TypeOK, Labels, Slots
  <2>6. CASE Crash(w)
    BY <2>6 DEF Crash, Return, TypeOK, Labels, Slots
  <2> QED BY <2>1, <2>2, <2>3, <2>4, <2>5, <2>6
<1>2. RequestKnown'
  BY DEF Begin, ReadClock, Expire, WakeUp, CallDone, Crash, Return, RequestKnown, TypeOK
<1>3. ExpiryOutlivesUse'
  <2>1. CASE Expire(w)
    BY <2>1 DEF Expire, ExpiryOutlivesUse, TypeOK, KeyLife
  <2>2. CASE ~Expire(w)
    BY <2>2 DEF Begin, ReadClock, WakeUp, CallDone, Crash, ExpiryOutlivesUse
  <2> QED BY <2>1, <2>2
<1>4. UNCHANGED <<window, bucket, admitted>>
  BY DEF Begin, ReadClock, Expire, WakeUp, CallDone, Crash
<1>5. \A v \in Workers \ {w}, k \in Slots : Pending(v, k)' = Pending(v, k)
  BY DEF Begin, ReadClock, Expire, WakeUp, CallDone, Crash, Return, Pending, TypeOK
<1>6. \A k \in Slots : Pending(w, k)' <= Pending(w, k)
  <2> SUFFICES ASSUME NEW k \in Slots PROVE Pending(w, k)' <= Pending(w, k)
    OBVIOUS
  <2>1. Pending(w, k) \in Nat
    BY DEF Pending, TypeOK
  <2>2. CASE Expire(w)
    <3>1. CASE Admits(got[w])
      BY <2>1, <2>2, <3>1 DEF Expire, Pending, TypeOK, Decide
    <3>2. CASE ~Admits(got[w])
      BY <2>1, <2>2, <3>2 DEF Expire, Pending, TypeOK, Decide
    <3> QED BY <3>1, <3>2
  <2>3. CASE ~Expire(w)
    <3>1. pc'[w] \in {"idle", "clock", "incrby"}
      BY <2>3 DEF Begin, ReadClock, WakeUp, CallDone, Crash, Return, TypeOK
    <3>2. Pending(w, k)' = 0
      BY <3>1 DEF Pending
    <3> QED BY <2>1, <3>2
  <2> QED BY <2>2, <2>3
<1> QED BY <1>1, <1>2, <1>3, <1>4, <1>5, <1>6, QuietStep

\* INCRBY: the counter grows by what becomes granted or pending.
LEMMA IncrByIInv == ASSUME IInv, NEW w \in Workers, IncrBy(w) PROVE IInv'
<1> USE DEF IInv
<1> DEFINE c == bucket[key[w]] + n[w]
<1>0. /\ pc[w] = "incrby"
      /\ key[w] \in Slots /\ n[w] \in Nat /\ bucket[key[w]] \in Nat /\ c \in Nat
      /\ UNCHANGED <<window, phase, ttl, key, n, left, faults>>
      /\ bucket' = [bucket EXCEPT ![key[w]] = c]
      /\ got' = [got EXCEPT ![w] = c]
      /\ \/ pc' = [pc EXCEPT ![w] = "expire"]
         \/ Admits(c) /\ pc' = [pc EXCEPT ![w] = "call"]
         \/ ~Admits(c) /\ pc' = [pc EXCEPT ![w] = "decrby"]
      /\ admitted' = IF Admits(c) THEN [admitted EXCEPT ![key[w]] = @ + n[w]] ELSE admitted
      /\ recent' = recent \/ recent' = [recent EXCEPT ![phase] = @ + n[w]]
  <2>1. pc[w] = "incrby" /\ key[w] \in Slots /\ n[w] \in Nat /\ bucket[key[w]] \in Nat
    BY DEF IncrBy, Added, TypeOK
  <2>2. PICK next \in {"expire", Decide(c)} : Added(w, c, next)
    BY DEF IncrBy
  <2>3. /\ UNCHANGED <<window, phase, ttl, key, n, left, faults>>
        /\ bucket' = [bucket EXCEPT ![key[w]] = c]
        /\ got' = [got EXCEPT ![w] = c]
        /\ pc' = [pc EXCEPT ![w] = next]
        /\ admitted' = IF Admits(c) THEN [admitted EXCEPT ![key[w]] = @ + n[w]] ELSE admitted
        /\ recent' = recent \/ recent' = [recent EXCEPT ![phase] = @ + n[w]]
    BY <2>2 DEF Added
  <2>4. \/ pc' = [pc EXCEPT ![w] = "expire"]
        \/ Admits(c) /\ pc' = [pc EXCEPT ![w] = "call"]
        \/ ~Admits(c) /\ pc' = [pc EXCEPT ![w] = "decrby"]
    BY <2>2, <2>3 DEF Decide
  <2>5. c \in Nat
    BY <2>1
  <2> QED BY <2>1, <2>3, <2>4, <2>5
<1> HIDE DEF c
<1>1. TypeOK'
  <2>1. admitted' \in [Slots -> Nat]
    BY <1>0 DEF TypeOK
  <2>2. recent' \in [0..(Ticks-1) -> Nat]
    <3>1. phase \in 0..(Ticks-1) /\ recent \in [0..(Ticks-1) -> Nat]
      BY DEF TypeOK
    <3>2. recent[phase] + n[w] \in Nat
      BY <1>0, <3>1
    <3> QED BY <1>0, <3>1, <3>2
  <2>3. pc' \in [Workers -> Labels]
    BY <1>0 DEF TypeOK, Labels
  <2> QED BY <1>0, <2>1, <2>2, <2>3 DEF TypeOK
<1>2. RequestKnown' /\ ExpiryOutlivesUse'
  BY <1>0 DEF RequestKnown, ExpiryOutlivesUse, TypeOK
<1>3. \A v \in Workers \ {w}, k \in Slots : Pending(v, k)' = Pending(v, k)
  BY <1>0 DEF Pending, TypeOK
<1>4. \A k \in Slots : PendingOn(k)' = PendingOn(k) - Pending(w, k) + Pending(w, k)'
  BY <1>1, <1>3, PendingStep
<1>5. \A k \in Slots : /\ Pending(w, k) = 0
                       /\ Pending(w, k)' = IF k = key[w] /\ ~Admits(c) THEN n[w] ELSE 0
  BY <1>0 DEF Pending, TypeOK
<1>6. \A k \in Slots : PendingOn(k) \in Nat
  BY PendingNat
<1>7. Accounted'
  <2> SUFFICES ASSUME NEW k \in Slots
               PROVE  admitted'[k] + PendingOn(k)' <= bucket'[k]
    BY DEF Accounted
  <2>1. CASE k # key[w]
    BY <1>0, <1>4, <1>5, <1>6, <2>1 DEF Accounted, TypeOK
  <2>2. CASE k = key[w]
    BY <1>0, <1>4, <1>5, <1>6, <2>2 DEF Accounted, TypeOK, c
  <2> QED BY <2>1, <2>2
<1>8. WindowLimit'
  <2> SUFFICES ASSUME NEW k \in Slots PROVE admitted'[k] <= Limit
    BY DEF WindowLimit
  <2>1. CASE k = key[w] /\ Admits(c)
    <3>1. admitted[k] <= bucket[k]
      BY <1>6 DEF Accounted, TypeOK
    <3> QED BY <1>0, <2>1, <3>1 DEF Admits, TypeOK, c
  <2>2. CASE ~(k = key[w] /\ Admits(c))
    BY <1>0, <2>2 DEF WindowLimit, TypeOK
  <2> QED BY <2>1, <2>2
<1> QED BY <1>1, <1>2, <1>7, <1>8

\* DECRBY gives back the caller's own tokens, and nobody else's.
LEMMA DecrByIInv ==
  ASSUME IInv, NEW w \in Workers, pc[w] = "decrby",
         bucket' = [bucket EXCEPT ![key[w]] = @ - n[w]],
         UNCHANGED <<window, phase, ttl, key, n, left, admitted, recent>>,
         pc' \in [Workers -> Labels], got' \in [Workers -> Nat], faults' \in Nat,
         pc'[w] \in {"sleep", "call"},
         \A v \in Workers \ {w} : pc'[v] = pc[v] /\ got'[v] = got[v]
  PROVE  IInv'
<1> USE DEF IInv
<1>1. \A k \in Slots : /\ PendingOn(k) \in Nat
                       /\ Pending(w, k) <= PendingOn(k)
                       /\ Pending(w, k) = IF k = key[w] THEN n[w] ELSE 0
  BY PendingNat DEF Pending
<1>2. key[w] \in Slots /\ n[w] \in Nat
  BY DEF TypeOK
<1>3. n[w] <= bucket[key[w]]
  BY <1>1, <1>2 DEF Accounted, TypeOK
<1>4. TypeOK'
  BY <1>2, <1>3 DEF TypeOK
<1>5. \A v \in Workers \ {w}, k \in Slots : Pending(v, k)' = Pending(v, k)
  BY DEF Pending
<1>6. \A k \in Slots : PendingOn(k)' = PendingOn(k) - Pending(w, k) + Pending(w, k)'
  BY <1>4, <1>5, PendingStep
<1>7. \A k \in Slots : Pending(w, k)' = 0
  BY DEF Pending
<1>8. Accounted'
  <2> SUFFICES ASSUME NEW k \in Slots
               PROVE  admitted'[k] + PendingOn(k)' <= bucket'[k]
    BY DEF Accounted
  <2>1. admitted[k] \in Nat /\ bucket[k] \in Nat
    BY DEF TypeOK
  <2>2. admitted[k] + PendingOn(k) <= bucket[k]
    BY DEF Accounted
  <2>3. CASE k = key[w]
    BY <1>1, <1>2, <1>6, <1>7, <2>1, <2>2, <2>3 DEF TypeOK
  <2>4. CASE k # key[w]
    BY <1>1, <1>2, <1>6, <1>7, <2>1, <2>2, <2>4 DEF TypeOK
  <2> QED BY <2>3, <2>4
<1>9. RequestKnown' /\ ExpiryOutlivesUse' /\ WindowLimit'
  BY DEF RequestKnown, ExpiryOutlivesUse, WindowLimit
<1> QED BY <1>4, <1>8, <1>9

\* A failing Redis command either did nothing on the server or what it was for.
LEMMA RedisFailsIInv == ASSUME IInv, NEW w \in Workers, RedisFails(w) PROVE IInv'
<1> USE DEF IInv
<1>0. /\ Holds(w)
      /\ UNCHANGED <<window, phase, key, n, got, left, admitted, recent>>
      /\ pc' = [pc EXCEPT ![w] = "call"]
      /\ faults' \in Nat
      /\ key[w] \in Slots /\ n[w] \in Nat
  BY DEF RedisFails, TypeOK
<1>1. CASE pc[w] = "decrby" /\ bucket' = [bucket EXCEPT ![key[w]] = @ - n[w]]
  <2>1. UNCHANGED ttl
    BY <1>1 DEF RedisFails
  <2>2. pc' \in [Workers -> Labels] /\ got' \in [Workers -> Nat]
    BY <1>0 DEF TypeOK, Labels
  <2>3. /\ pc'[w] \in {"sleep", "call"}
        /\ \A v \in Workers \ {w} : pc'[v] = pc[v] /\ got'[v] = got[v]
    BY <1>0 DEF TypeOK
  <2> QED BY <1>0, <1>1, <2>1, <2>2, <2>3, DecrByIInv
<1>2. CASE /\ \/ bucket' = bucket
              \/ bucket' = [bucket EXCEPT ![key[w]] = @ + n[w]]
           /\ ttl' = ttl \/ ttl' = [ttl EXCEPT ![key[w]] = KeyLife]
  <2>1. /\ bucket' \in [Slots -> Nat]
        /\ \A k \in Slots : bucket'[k] >= bucket[k]
    <3>1. bucket \in [Slots -> Nat]
      BY DEF TypeOK
    <3>2. CASE bucket' = bucket
      BY <3>1, <3>2
    <3>3. CASE bucket' = [bucket EXCEPT ![key[w]] = @ + n[w]]
      BY <1>0, <3>1, <3>3
    <3> QED BY <1>2, <3>2, <3>3
  <2>2. ttl' \in [Slots -> 0..KeyLife]
    <3>1. ttl \in [Slots -> 0..KeyLife] /\ KeyLife \in 0..KeyLife
      BY DEF TypeOK, KeyLife
    <3> QED BY <1>0, <1>2, <3>1
  <2>3. TypeOK'
    BY <1>0, <2>1, <2>2 DEF TypeOK, Labels
  <2>4. RequestKnown'
    BY <1>0 DEF RequestKnown, Holds, TypeOK
  <2>5. ExpiryOutlivesUse'
    BY <1>0, <1>2 DEF ExpiryOutlivesUse, TypeOK, KeyLife
  <2>6. Accounted'
    <3> SUFFICES ASSUME NEW k \in Slots
                 PROVE  admitted'[k] + PendingOn(k)' <= bucket'[k]
      BY DEF Accounted
    <3>1. \A v \in Workers \ {w} : Pending(v, k)' = Pending(v, k)
      BY <1>0 DEF Pending, TypeOK
    <3>2. Pending(w, k)' = 0 /\ Pending(w, k) \in Nat
      BY <1>0 DEF Pending, TypeOK
    <3>3. PendingOn(k)' = PendingOn(k) - Pending(w, k) + Pending(w, k)'
      BY <2>3, <3>1, PendingStep
    <3>4. admitted'[k] = admitted[k] /\ admitted[k] \in Nat /\ bucket[k] \in Nat
      BY <1>0 DEF TypeOK
    <3>5. admitted[k] + PendingOn(k) <= bucket[k] /\ PendingOn(k) \in Nat
      BY PendingNat DEF Accounted
    <3>6. bucket'[k] >= bucket[k] /\ bucket'[k] \in Nat
      BY <2>1
    <3> QED BY <3>2, <3>3, <3>4, <3>5, <3>6
  <2>7. WindowLimit'
    BY <1>0 DEF WindowLimit
  <2> QED BY <2>3, <2>4, <2>5, <2>6, <2>7
<1> QED BY <1>1, <1>2 DEF RedisFails

\* Every step preserves the invariant.
LEMMA NextIInv == IInv /\ [Next]_vars => IInv'
<1> SUFFICES ASSUME IInv, [Next]_vars PROVE IInv'
  OBVIOUS
<1>1. CASE Tick
  BY <1>1, TickIInv
<1>2. ASSUME NEW w \in Workers, Step(w) PROVE IInv'
  <2>1. CASE IncrBy(w)
    BY <2>1, IncrByIInv
  <2>2. CASE DecrBy(w)
    <3>1. /\ pc' \in [Workers -> Labels] /\ got' \in [Workers -> Nat] /\ faults' \in Nat
          /\ pc'[w] \in {"sleep", "call"}
          /\ \A v \in Workers \ {w} : pc'[v] = pc[v] /\ got'[v] = got[v]
      BY <2>2 DEF DecrBy, IInv, TypeOK, Labels
    <3> QED BY <2>2, <3>1, DecrByIInv DEF DecrBy
  <2> QED BY <1>2, <2>1, <2>2, LocalIInv DEF Step
<1>3. ASSUME NEW w \in Workers, RedisFails(w) PROVE IInv'
  BY <1>3, RedisFailsIInv
<1>4. ASSUME NEW w \in Workers, Crash(w) PROVE IInv'
  BY <1>4, LocalIInv
<1>5. CASE UNCHANGED vars
  <2>1. TypeOK' /\ RequestKnown' /\ ExpiryOutlivesUse' /\ WindowLimit'
    BY <1>5 DEF vars, IInv, TypeOK, RequestKnown, ExpiryOutlivesUse, WindowLimit
  <2>2. Accounted'
    BY <1>5 DEF vars, IInv, Accounted, PendingOn, Pending
  <2> QED BY <2>1, <2>2 DEF IInv
<1> QED BY <1>1, <1>2, <1>3, <1>4, <1>5 DEF Next

\* In every reachable state of every instance the invariant holds.
THEOREM Invariance == Spec => []IInv
<1>1. Init => IInv
  BY InitIInv
<1>2. IInv /\ [Next]_vars => IInv'
  BY NextIInv
<1> QED BY <1>1, <1>2, PTL DEF Spec

\* The variables keep their types; in particular no counter goes below zero, whatever
\* DECRBYs of service.py L209 meet whatever expiries.
THEOREM TypeCorrect == Spec => []TypeOK
<1>1. IInv => TypeOK
  BY DEF IInv
<1> QED BY <1>1, Invariance, PTL

\* No interleaving, crash or Redis failure lets the callers of _consume_tokens take
\* more than _TOKEN_BUCKET_LIMIT tokens against one window.
THEOREM LimitNeverExceeded == Spec => []WindowLimit
<1>1. IInv => WindowLimit
  BY DEF IInv
<1> QED BY <1>1, Invariance, PTL

\* The counter in Redis covers what was granted and what is being rolled back.
THEOREM CounterAccounted == Spec => []Accounted
<1>1. IInv => Accounted
  BY DEF IInv
<1> QED BY <1>1, Invariance, PTL

\* The expiry of two windows never removes a counter that a caller may still use.
THEOREM ExpiryIsSafe == Spec => []ExpiryOutlivesUse
<1>1. IInv => ExpiryOutlivesUse
  BY DEF IInv
<1> QED BY <1>1, Invariance, PTL

-------------------------------------------------------------------------------
(* The bucket implements the window limiter *)

\* Each step of the bucket is a grant, a new window, or nothing to the limiter.
LEMMA StepSimulation ==
  ASSUME IInv, IInv', [Next]_vars
  PROVE  [Limiter!LimiterNext]_(Limiter!limiterVars)
<1> DEFINE avail == [k \in Slots |-> Limit - admitted[k]]
<1> USE DEF Limiter!LimiterNext, Limiter!limiterVars, Limiter!Slots
<1>1. CASE window' = window /\ admitted' = admitted
  BY <1>1
<1>2. CASE TickOver
  <2>1. /\ window' = 1 - window
        /\ admitted' = [admitted EXCEPT ![1 - window] = 0]
        /\ window \in Slots
    BY <1>2 DEF TickOver, Other, IInv, TypeOK
  <2>2. avail' = [avail EXCEPT ![1 - window] = Limit]
    <3>1. admitted \in [Slots -> Nat]
      BY DEF IInv, TypeOK
    <3>2. \A k \in Slots : admitted'[k] = IF k = 1 - window THEN 0 ELSE admitted[k]
      BY <2>1, <3>1
    <3>3. \A k \in Slots :
            Limit - admitted'[k] = IF k = 1 - window THEN Limit ELSE Limit - admitted[k]
      BY <3>1, <3>2
    <3>4. avail' = [k \in Slots |-> IF k = 1 - window THEN Limit ELSE Limit - admitted[k]]
      BY <3>3
    <3> QED BY <3>4
  <2>3. Limiter!NewWindow
    BY <2>1, <2>2 DEF Limiter!NewWindow, Slots
  <2> QED BY <2>3
<1>3. ASSUME NEW w \in Workers, IncrBy(w), admitted' # admitted
      PROVE  Limiter!LimiterNext
  <2>1. /\ pc[w] = "incrby" /\ window' = window
        /\ admitted' = [admitted EXCEPT ![key[w]] = @ + n[w]]
    BY <1>3 DEF IncrBy, Added
  <2>2. key[w] \in Slots /\ n[w] \in Requests /\ n[w] \in Nat
    BY <2>1 DEF IInv, TypeOK, RequestKnown
  <2>3. admitted \in [Slots -> Nat] /\ admitted'[key[w]] <= Limit
    BY <2>2 DEF IInv, TypeOK, WindowLimit
  <2>4. PICK k \in Slots, r \in Requests : k = key[w] /\ r = n[w]
    BY <2>2
  <2>5. Limiter!Grant(k, r)
    BY <2>1, <2>2, <2>3, <2>4 DEF Limiter!Grant
  <2> QED BY <2>5 DEF Slots
<1>4. CASE UNCHANGED vars
  BY <1>1, <1>4 DEF vars
<1>5. ASSUME NEW w \in Workers, Step(w) \/ RedisFails(w) \/ Crash(w), ~IncrBy(w)
      PROVE  window' = window /\ admitted' = admitted
  BY <1>5 DEF Step, Begin, ReadClock, Expire, DecrBy, WakeUp, CallDone, RedisFails, Crash
<1>6. CASE TickWithin
  BY <1>1, <1>6 DEF TickWithin
<1>7. ASSUME NEW w \in Workers, IncrBy(w) PROVE window' = window
  BY <1>7 DEF IncrBy, Added
<1> QED BY <1>1, <1>2, <1>3, <1>4, <1>5, <1>6, <1>7 DEF Next, Tick

\* The detailed protocol of Redis commands implements the abstract limiter.
THEOREM Refinement == Spec => ImplementsLimiter
<1>1. Init => Limiter!LimiterInit
  BY DEF Init, Limiter!LimiterInit, Limiter!Slots, Slots
<1>2. IInv /\ IInv' /\ [Next]_vars => [Limiter!LimiterNext]_(Limiter!limiterVars)
  BY StepSimulation
<1> QED BY <1>1, <1>2, Invariance, PTL
      DEF Spec, ImplementsLimiter, Limiter!LimiterSpec

-------------------------------------------------------------------------------
(* Keys expire *)

\* A counter without an expiry has a caller that is about to set it.
LEMMA MortalKept ==
  ASSUME TypeOK, NoImmortalKey, [Next]_vars
  PROVE  NoImmortalKey'
<1> SUFFICES ASSUME NEW k \in Slots, bucket'[k] > 0, faults' = 0
             PROVE  ttl'[k] > 0 \/ \E w \in Workers : pc'[w] = "expire" /\ key'[w] = k
  BY DEF NoImmortalKey
<1>0. /\ bucket \in [Slots -> Nat] /\ ttl \in [Slots -> 0..KeyLife] /\ pc \in [Workers -> Labels]
      /\ key \in [Workers -> Slots] /\ n \in [Workers -> Nat] /\ faults \in Nat
  BY DEF TypeOK
<1>1. CASE Tick
  <2>1. /\ bucket[k] > 0 /\ ttl[k] # 1 /\ ttl'[k] = (IF ttl[k] = 0 THEN 0 ELSE ttl[k] - 1)
        /\ UNCHANGED <<pc, key, faults>>
    BY <1>1 DEF Tick, TickWithin, TickOver
  <2>2. ttl[k] \in Nat
    BY <1>0 DEF KeyLife
  <2> QED BY <2>1, <2>2 DEF NoImmortalKey
<1>2. ASSUME NEW w \in Workers, IncrBy(w)
      PROVE  ttl'[k] > 0 \/ \E v \in Workers : pc'[v] = "expire" /\ key'[v] = k
  <2>1. /\ pc[w] = "incrby" /\ UNCHANGED <<ttl, key, faults>>
        /\ bucket' = [bucket EXCEPT ![key[w]] = @ + n[w]]
        /\ pc' = [pc EXCEPT ![w] = IF bucket[key[w]] + n[w] = n[w] THEN "expire"
                                   ELSE Decide(bucket[key[w]] + n[w])]
    BY <1>2 DEF IncrBy, Added
  <2>2. CASE key[w] = k /\ bucket[k] = 0
    BY <1>0, <2>1, <2>2
  <2>3. CASE key[w] # k \/ bucket[k] # 0
    <3>1. bucket[k] > 0
      BY <1>0, <2>1, <2>3
    <3>2. \A v \in Workers : pc[v] = "expire" => pc'[v] = "expire"
      BY <1>0, <2>1
    <3> QED BY <2>1, <3>1, <3>2 DEF NoImmortalKey
  <2> QED BY <2>2, <2>3
<1>3. ASSUME NEW w \in Workers, Expire(w)
      PROVE  ttl'[k] > 0 \/ \E v \in Workers : pc'[v] = "expire" /\ key'[v] = k
  <2>1. /\ ttl' = [ttl EXCEPT ![key[w]] = KeyLife] /\ UNCHANGED <<bucket, key, faults>>
        /\ \A v \in Workers : v # w => pc'[v] = pc[v]
    BY <1>0, <1>3 DEF Expire
  <2>2. CASE key[w] = k
    BY <1>0, <2>1, <2>2 DEF KeyLife
  <2>3. CASE key[w] # k
    BY <1>0, <2>1, <2>3 DEF NoImmortalKey
  <2> QED BY <2>2, <2>3
<1>4. ASSUME NEW w \in Workers,
             Begin(w) \/ ReadClock(w) \/ DecrBy(w) \/ WakeUp(w) \/ CallDone(w)
      PROVE  ttl'[k] > 0 \/ \E v \in Workers : pc'[v] = "expire" /\ key'[v] = k
  <2>1. /\ pc[w] # "expire" /\ UNCHANGED <<ttl, faults>> /\ bucket[k] > 0
        /\ \A v \in Workers : v # w => pc'[v] = pc[v] /\ key'[v] = key[v]
    BY <1>0, <1>4 DEF Begin, ReadClock, DecrBy, WakeUp, CallDone, Return
  <2> QED BY <2>1 DEF NoImmortalKey
<1>5. ASSUME NEW w \in Workers, RedisFails(w) \/ Crash(w) PROVE FALSE
  BY <1>0, <1>5 DEF RedisFails, Crash
<1>6. CASE UNCHANGED vars
  BY <1>6 DEF vars, NoImmortalKey
<1> QED BY <1>1, <1>2, <1>3, <1>4, <1>5, <1>6 DEF Next, Step

-------------------------------------------------------------------------------
(* Any 60 seconds *)

\* The ticks of the current window that have begun, and those left of the one before.
Now == [p \in 1..Ticks |-> IF p - 1 <= phase THEN recent[p-1] ELSE 0]
Before == [p \in 1..Ticks |-> IF p - 1 <= phase THEN 0 ELSE recent[p-1]]

BurstInv ==
  Total(Now, Ticks) <= admitted[window] /\ Total(Before, Ticks) <= admitted[Other(window)]

LEMMA BurstTypes ==
  ASSUME TypeOK
  PROVE  /\ Now \in [1..Ticks -> Nat] /\ Before \in [1..Ticks -> Nat]
         /\ Total(Now, Ticks) \in Nat /\ Total(Before, Ticks) \in Nat
         /\ Ticks \in Nat /\ phase \in Int /\ window \in Slots /\ Other(window) \in Slots
         /\ admitted \in [Slots -> Nat]
<1>1. Now \in [1..Ticks -> Nat] /\ Before \in [1..Ticks -> Nat]
  <2>1. ASSUME NEW p \in 1..Ticks PROVE recent[p-1] \in Nat
    BY DEF TypeOK
  <2> QED BY <2>1 DEF Now, Before
<1> HIDE DEF Now, Before
<1>2. Total(Now, Ticks) \in Nat /\ Total(Before, Ticks) \in Nat
  BY <1>1, TotalNat
<1>3. Ticks \in Nat /\ phase \in Int /\ window \in Slots /\ admitted \in [Slots -> Nat]
  BY DEF TypeOK
<1>4. Other(window) \in Slots
  BY <1>3 DEF Other, Slots
<1> QED BY <1>1, <1>2, <1>3, <1>4

\* The same of the next state.
LEMMA BurstTypesNext ==
  ASSUME TypeOK'
  PROVE  Total(Now, Ticks)' \in Nat /\ Total(Before, Ticks)' \in Nat
<1>1. Now' \in [1..Ticks -> Nat] /\ Before' \in [1..Ticks -> Nat]
  <2>1. ASSUME NEW p \in 1..Ticks PROVE recent'[p-1] \in Nat
    BY DEF TypeOK
  <2> QED BY <2>1 DEF Now, Before
<1> HIDE DEF Now, Before
<1>2. Total(Now', Ticks) \in Nat /\ Total(Before', Ticks) \in Nat
  BY <1>1, TotalNat
<1> QED BY <1>2

\* Changing a term from v to nothing takes v away.
LEMMA TotalDrop ==
  ASSUME NEW N \in Nat, NEW f \in [1..N -> Nat], NEW w \in 1..N
  PROVE  Total([f EXCEPT ![w] = 0], N) <= Total(f, N)
<1>1. f \in [1..N -> Int] /\ f[w] \in Nat
  OBVIOUS
<1>0. 0 \in Int
  OBVIOUS
<1>2. Total([f EXCEPT ![w] = 0], N) = Total(f, N) - f[w] + 0
  BY <1>0, <1>1, TotalUpdate, Zenon
<1>3. Total(f, N) \in Nat
  BY TotalNat
<1> QED BY <1>1, <1>2, <1>3

LEMMA BurstInit == Init => BurstInv
<1> SUFFICES ASSUME Init PROVE BurstInv
  OBVIOUS
<1>1. /\ Now \in [1..Ticks -> Int] /\ Before \in [1..Ticks -> Int]
      /\ \A p \in 1..Ticks : Now[p] = 0 /\ Before[p] = 0
  BY DEF Init, Now, Before
<1> HIDE DEF Now, Before
<1>2. Total(Now, Ticks) = 0 /\ Total(Before, Ticks) = 0
  BY <1>1, TotalZero
<1> QED BY <1>2 DEF Init, BurstInv, Other, Slots

LEMMA BurstTick ==
  ASSUME TypeOK, TypeOK', BurstInv, Tick
  PROVE  BurstInv'
<1>0. recent \in [0..(Ticks-1) -> Nat] /\ phase \in 0..(Ticks-1)
  BY DEF TypeOK
<1>1. CASE TickWithin
  <2>1. /\ phase' = phase + 1 /\ phase < Ticks - 1 /\ UNCHANGED <<window, admitted>>
        /\ recent' = [recent EXCEPT ![phase + 1] = 0]
    BY <1>1 DEF TickWithin
  <2>2. phase + 2 \in 1..Ticks
    BY <1>0, <2>1
  <2>3. \A p \in 1..Ticks : recent'[p-1] = IF p = phase + 2 THEN 0 ELSE recent[p-1]
    BY <1>0, <2>1
  <2>4. Now' = Now
    BY <1>0, <2>1, <2>3 DEF Now
  <2>5. Before' = [Before EXCEPT ![phase + 2] = 0]
    <3>1. \A p \in 1..Ticks : p - 1 <= phase + 1 <=> p - 1 <= phase \/ p = phase + 2
      BY <1>0
    <3>2. Before' = [p \in 1..Ticks |-> IF p - 1 <= phase + 1 THEN 0 ELSE recent'[p-1]]
      BY <2>1 DEF Before
    <3>3. \A p \in 1..Ticks : Before'[p] = IF p = phase + 2 THEN 0 ELSE Before[p]
      BY <2>3, <3>1, <3>2 DEF Before
    <3> QED BY <3>2, <3>3 DEF Before
  <2>6. Total(Before', Ticks) <= Total(Before, Ticks)
    <3> HIDE DEF Before
    <3> QED BY <2>2, <2>5, BurstTypes, TotalDrop
  <2>7. Total(Now', Ticks) = Total(Now, Ticks)
    BY <2>4
  <2>8. Total(Before, Ticks)' \in Nat
    BY BurstTypesNext
  <2> HIDE DEF Now, Before
  <2> QED BY <2>1, <2>6, <2>7, <2>8, BurstTypes DEF BurstInv
<1>2. CASE TickOver
  <2>1. /\ phase = Ticks - 1 /\ phase' = 0 /\ window' = Other(window)
        /\ recent' = [recent EXCEPT ![0] = 0]
        /\ admitted' = [admitted EXCEPT ![Other(window)] = 0]
    BY <1>2 DEF TickOver
  <2>2. \A p \in 1..Ticks : recent'[p-1] = IF p = 1 THEN 0 ELSE recent[p-1]
    BY <1>0, <2>1
  <2>3. Now' \in [1..Ticks -> Int] /\ \A p \in 1..Ticks : Now'[p] = 0
    BY <1>0, <2>1, <2>2 DEF Now
  <2>4. Before' = [Now EXCEPT ![1] = 0]
    <3>1. \A p \in 1..Ticks : p - 1 <= phase /\ (p - 1 <= 0 <=> p = 1)
      BY <1>0, <2>1
    <3>2. Before' = [p \in 1..Ticks |-> IF p = 1 THEN 0 ELSE recent[p-1]]
      BY <2>1, <2>2, <3>1 DEF Before
    <3>3. Now = [p \in 1..Ticks |-> recent[p-1]]
      BY <3>1 DEF Now
    <3> QED BY <3>2, <3>3
  <2>5. 1 \in 1..Ticks
    OBVIOUS
  <2>6. Total(Now, Ticks)' = 0
    <3>1. Total(Now', Ticks) = 0
      <4> HIDE DEF Now
      <4> QED BY <2>3, TotalZero
    <3> QED BY <3>1
  <2>7. Total(Before', Ticks) <= Total(Now, Ticks)
    <3> HIDE DEF Now, Before
    <3> QED BY <2>4, <2>5, BurstTypes, TotalDrop
  <2>8. Total(Before, Ticks)' \in Nat
    BY BurstTypesNext
  <2>9. Other(Other(window)) = window /\ Other(window) # window
    BY BurstTypes DEF Other, Slots
  <2>10. admitted'[window'] = 0 /\ admitted'[Other(window')] = admitted[window]
    BY <2>1, <2>9, BurstTypes
  <2> HIDE DEF Now, Before
  <2> QED BY <2>6, <2>7, <2>8, <2>10, BurstTypes DEF BurstInv
<1> QED BY <1>1, <1>2 DEF Tick

LEMMA BurstGrant ==
  ASSUME TypeOK, BurstInv, NEW w \in Workers, IncrBy(w)
  PROVE  BurstInv'
<1>0. recent \in [0..(Ticks-1) -> Nat] /\ phase \in 0..(Ticks-1) /\ n[w] \in Nat
      /\ key[w] \in Slots
  BY DEF TypeOK
<1>1. /\ UNCHANGED <<window, phase>>
      /\ \/ UNCHANGED <<admitted, recent>>
         \/ /\ admitted' = [admitted EXCEPT ![key[w]] = @ + n[w]]
            /\ recent' = IF key[w] = window THEN [recent EXCEPT ![phase] = @ + n[w]] ELSE recent
  BY DEF IncrBy, Added
<1>2. CASE UNCHANGED <<admitted, recent>>
  BY <1>1, <1>2 DEF BurstInv, Now, Before
<1>3. CASE admitted' = [admitted EXCEPT ![key[w]] = @ + n[w]] /\ key[w] # window /\ recent' = recent
  <2>1. Now' = Now /\ Before' = Before
    BY <1>1, <1>3 DEF Now, Before
  <2>2. \A k \in Slots : admitted'[k] >= admitted[k]
    BY <1>0, <1>3, BurstTypes
  <2> HIDE DEF Now, Before
  <2>3. Total(Now', Ticks) = Total(Now, Ticks) /\ Total(Before', Ticks) = Total(Before, Ticks)
    BY <2>1
  <2>4. admitted'[window] \in Nat /\ admitted'[Other(window)] \in Nat
    BY <1>0, <1>3, BurstTypes
  <2> QED BY <1>1, <2>2, <2>3, <2>4, BurstTypes DEF BurstInv
<1>4. CASE /\ admitted' = [admitted EXCEPT ![key[w]] = @ + n[w]] /\ key[w] = window
           /\ recent' = [recent EXCEPT ![phase] = @ + n[w]]
  <2>1. phase + 1 \in 1..Ticks
    BY <1>0
  <2>2. \A p \in 1..Ticks :
          recent'[p-1] = IF p = phase + 1 THEN recent[phase] + n[w] ELSE recent[p-1]
    BY <1>0, <1>4
  <2>3. Now' = [Now EXCEPT ![phase + 1] = recent[phase] + n[w]] /\ Now[phase + 1] = recent[phase]
    <3>1. \A p \in 1..Ticks : p = phase + 1 => p - 1 <= phase /\ p - 1 = phase
      BY <1>0
    <3>2. Now' = [p \in 1..Ticks |-> IF p - 1 <= phase THEN recent'[p-1] ELSE 0]
      BY <1>1 DEF Now
    <3>3. Now[phase + 1] = recent[phase]
      BY <2>1, <3>1 DEF Now
    <3>4. \A p \in 1..Ticks : Now'[p] = IF p = phase + 1 THEN recent[phase] + n[w] ELSE Now[p]
      BY <2>2, <3>1, <3>2 DEF Now
    <3> QED BY <3>2, <3>3, <3>4 DEF Now
  <2>4. Before' = Before
    <3>1. \A p \in 1..Ticks : p = phase + 1 \/ recent'[p-1] = recent[p-1]
      BY <2>2
    <3>2. \A p \in 1..Ticks : p = phase + 1 => p - 1 <= phase
      BY <1>0
    <3> QED BY <1>1, <3>1, <3>2 DEF Before
  <2> HIDE DEF Now, Before
  <2>5. Total(Now', Ticks) = Total(Now, Ticks) - recent[phase] + (recent[phase] + n[w])
    <3>1. PICK v : v = recent[phase] + n[w]
      OBVIOUS
    <3>2. Now \in [1..Ticks -> Int] /\ v \in Int /\ Ticks \in Nat
      BY <1>0, <3>1, BurstTypes
    <3>3. Total([Now EXCEPT ![phase + 1] = v], Ticks) = Total(Now, Ticks) - Now[phase + 1] + v
      BY <2>1, <3>2, TotalUpdate
    <3> QED BY <2>3, <3>1, <3>3
  <2>6. Total(Before', Ticks) = Total(Before, Ticks)
    BY <2>4
  <2>7. admitted'[window] = admitted[window] + n[w] /\ admitted'[Other(window)] = admitted[Other(window)]
        /\ admitted[window] \in Nat /\ recent[phase] \in Nat
    BY <1>0, <1>4, BurstTypes DEF Other, Slots
  <2>8. Total(Now', Ticks) = Total(Now, Ticks) + n[w]
    BY <1>0, <2>5, <2>7, BurstTypes
  <2>9. Total(Now', Ticks) <= admitted'[window]
    BY <1>0, <2>7, <2>8, BurstTypes DEF BurstInv
  <2> QED BY <1>1, <2>6, <2>7, <2>9 DEF BurstInv
<1> QED BY <1>1, <1>2, <1>3, <1>4

LEMMA BurstKept ==
  ASSUME TypeOK, TypeOK', BurstInv, [Next]_vars
  PROVE  BurstInv'
<1>1. ASSUME NEW w \in Workers,
             \/ Begin(w) \/ ReadClock(w) \/ Expire(w) \/ DecrBy(w) \/ WakeUp(w) \/ CallDone(w)
             \/ RedisFails(w) \/ Crash(w)
      PROVE  UNCHANGED <<window, phase, admitted, recent>>
  BY <1>1 DEF Begin, ReadClock, Expire, DecrBy, WakeUp, CallDone, RedisFails, Crash
<1>2. CASE UNCHANGED <<window, phase, admitted, recent>>
  BY <1>2 DEF BurstInv, Now, Before
<1> QED BY <1>1, <1>2, BurstTick, BurstGrant DEF Next, Step, vars

\* What is granted on time in any Ticks consecutive ticks was granted against two windows.
LEMMA BurstBounded ==
  ASSUME TypeOK, WindowLimit, BurstInv
  PROVE  BurstBound
<1> DEFINE all == [p \in 1..Ticks |-> recent[p-1]]
<1>1. all = [p \in 1..Ticks |-> Now[p] + Before[p]]
  <2>1. ASSUME NEW p \in 1..Ticks PROVE recent[p-1] \in Nat
    BY DEF TypeOK
  <2> QED BY <2>1 DEF Now, Before
<1>2. Now \in [1..Ticks -> Int] /\ Before \in [1..Ticks -> Int]
  BY BurstTypes
<1>3. Total(all, Ticks) = Total(Now, Ticks) + Total(Before, Ticks)
  <2> HIDE DEF all, Now, Before
  <2> QED BY <1>1, <1>2, TotalAdd
<1>4. /\ Total(Now, Ticks) <= Limit /\ Total(Before, Ticks) <= Limit
      /\ Total(Now, Ticks) \in Nat /\ Total(Before, Ticks) \in Nat
  <2> HIDE DEF Now, Before
  <2>1. admitted[window] <= Limit /\ admitted[Other(window)] <= Limit
        /\ admitted[window] \in Nat /\ admitted[Other(window)] \in Nat
    BY BurstTypes DEF WindowLimit
  <2> QED BY <2>1, BurstTypes DEF BurstInv
<1> HIDE DEF all
<1>5. Total(all, Ticks) <= 2 * Limit
  <2> HIDE DEF Now, Before
  <2> QED BY <1>3, <1>4
<1> QED BY <1>5 DEF BurstBound, all

\* No counter stays in Redis for ever, while nobody is killed and Redis answers: whoever
\* brings a counter from nothing is the one that sets its expiry.
THEOREM KeysAreMortal == Spec => []NoImmortalKey
<1>1. Init => NoImmortalKey
  BY DEF Init, NoImmortalKey
<1>2. TypeOK /\ NoImmortalKey /\ [Next]_vars => NoImmortalKey'
  BY MortalKept
<1> QED BY <1>1, <1>2, TypeCorrect, PTL DEF Spec

\* Windows are fixed and a minute may see the grants of two of them, but never more.
THEOREM BurstIsBounded == Spec => []BurstBound
<1>1. TypeOK /\ TypeOK' /\ BurstInv /\ [Next]_vars => BurstInv'
  BY BurstKept
<1>2. TypeOK /\ WindowLimit /\ BurstInv => BurstBound
  BY BurstBounded
<1> QED BY <1>1, <1>2, BurstInit, TypeCorrect, LimitNeverExceeded, PTL DEF Spec


-------------------------------------------------------------------------------
(* The embedding batch: types and the order of the tasks.  Nothing here depends on what *)
(* the sequences hold, so they are left untyped.                                         *)

IsCall(x) == x = [at |-> x.at, todo |-> x.todo, paid |-> x.paid]
IsResult(x) ==
  x = [events |-> x.events, hashes |-> x.hashes, scored |-> x.scored, stored |-> x.stored]

BatchShape ==
  /\ call = [c \in Clients |-> call[c]] /\ \A c \in Clients : IsCall(call[c])
  /\ IsResult(xcom)
  /\ state \in [Tasks -> {"waiting", "success", "failed"}]

\* A task has succeeded only after those it waits for.
Order ==
  \A t \in Tasks : state[t] = "success" => \A u \in Upstream[t] : state[u] = "success"

\* While the DAG is in embed_batch its task is the one that is running.
InCall == call["dag"].at # "idle" => Ready("generate")

\* What the tasks of the run have handed on, and where it already is.
HandedOn ==
  /\ xcom.stored \subseteq vectors \cap xcom.hashes
  /\ state["store"] # "success" => xcom.stored = {}
  /\ state["calculate"] = "success" => Scorable(xcom.hashes) \subseteq xcom.scored
  /\ state["update_sps"] = "success" => xcom.scored \subseteq scores

MarkedInv == BatchShape /\ Order /\ InCall /\ HandedOn /\ MarkedIsComplete

\* Whatever is owed was paid in a call that has not come to its cost row.
Paying == {c \in Clients : call[c].at \in {"batch", "log"}}

CostInv ==
  /\ call = [c \in Clients |-> call[c]] /\ \A c \in Clients : IsCall(call[c])
  /\ failures \in [{"paying", "other"} -> Nat]
  /\ deployed.bad = {} /\ failures["paying"] = 0
       => owed \subseteq UNION {call[c].paid : c \in Paying}

LEMMA UpstreamOf ==
  /\ Upstream["fetch"] = {} /\ Upstream["generate"] = {"fetch"}
  /\ Upstream["calculate"] = {"generate"} /\ Upstream["store"] = {"generate"}
  /\ Upstream["update_sps"] = {"calculate"} /\ Upstream["graph"] = {"calculate"}
  /\ Upstream["mark"] = {"store", "update_sps", "graph"}
BY DEF Upstream, Tasks

\* An execution that ends moves its own task only, from "waiting".
LEMMA TaskStep ==
  ASSUME BatchShape, Order, NEW t \in Tasks, Ready(t), Succeed(t) \/ FailTry(t)
  PROVE  /\ state' \in [Tasks -> {"waiting", "success", "failed"}] /\ Order'
         /\ \A u \in Tasks : u # t => state'[u] = state[u]
         /\ state[t] = "waiting" /\ (FailTry(t) => state'[t] # "success")
<1>1. state \in [Tasks -> {"waiting", "success", "failed"}]  BY DEF BatchShape
<1>2. /\ state' \in [Tasks -> {"waiting", "success", "failed"}]
      /\ \A u \in Tasks : u # t => state'[u] = state[u]
      /\ state[t] = "waiting" /\ (FailTry(t) => state'[t] # "success")
  BY <1>1 DEF Succeed, FailTry, Ready
<1>3. \A u \in Tasks : Upstream[u] \subseteq Tasks
  BY UpstreamOf DEF Tasks
<1>4. ASSUME NEW u \in Tasks, state'[u] = "success", NEW v \in Upstream[u]
      PROVE  state'[v] = "success"
  <2>1. v \in Tasks  BY <1>3
  <2>2. state[v] = "success"
    <3>1. CASE u = t  BY <3>1 DEF Ready
    <3>2. CASE u # t  BY <1>2, <1>4, <3>2 DEF Order
    <3>3. QED  BY <3>1, <3>2
  <2>3. v # t  BY <1>2, <2>2
  <2>4. QED  BY <1>2, <2>1, <2>2, <2>3
<1>5. QED  BY <1>2, <1>4 DEF Order

\* Before generate has succeeded, nothing behind it has.
LEMMA NotYet ==
  ASSUME Order, state["generate"] # "success"
  PROVE  state["calculate"] # "success" /\ state["store"] # "success"
         /\ state["update_sps"] # "success"
BY UpstreamOf DEF Order, Tasks

\* One client's call is set; the other's stays.
LEMMA CallSet ==
  ASSUME call = [c \in Clients |-> call[c]], \A c \in Clients : IsCall(call[c]),
         NEW c \in Clients, NEW x, IsCall(x), call' = [call EXCEPT ![c] = x]
  PROVE  /\ call' = [d \in Clients |-> call'[d]] /\ \A d \in Clients : IsCall(call'[d])
         /\ call'[c] = x /\ \A d \in Clients : d # c => call'[d] = call[d]
<1>1. \A d \in Clients : call'[d] = IF d = c THEN x ELSE call[d]  OBVIOUS
<1>2. \A d \in Clients : IsCall(call'[d])  BY <1>1
<1>3. call' = [d \in Clients |-> call'[d]]  OBVIOUS
<1>4. QED  BY <1>1, <1>2, <1>3

LEMMA IdleIsCall == IsCall(Idle) /\ Idle.at = "idle" /\ Idle.paid = {}
BY DEF IsCall, Idle

\* A step of embed_batch, by either client: where its call goes, and what becomes of the task
\* of the DAG.
LEMMA EmbedShape ==
  ASSUME BatchShape, NEW c \in Clients, Embed(c)
  PROVE  /\ UNCHANGED <<deployed, backlog, done, vectors, scores, transit, xcom>>
         /\ \E x : IsCall(x) /\ call' = [call EXCEPT ![c] = x]
                   /\ (x.at # "idle" => state' = state)
         /\ c = "dag" => Ready("generate") \/ call["dag"].at # "idle"
         /\ \/ UNCHANGED <<state, tries>>
            \/ c = "dag" /\ FailTry("generate")
<1> DEFINE Goal == /\ UNCHANGED <<deployed, backlog, done, vectors, scores, transit, xcom>>
                   /\ \E x : IsCall(x) /\ call' = [call EXCEPT ![c] = x]
                             /\ (x.at # "idle" => state' = state)
                   /\ c = "dag" => Ready("generate") \/ call["dag"].at # "idle"
                   /\ \/ UNCHANGED <<state, tries>>
                      \/ c = "dag" /\ FailTry("generate")
<1>1. Raise(c) => /\ \E x : IsCall(x) /\ call' = [call EXCEPT ![c] = x]
                            /\ (x.at # "idle" => state' = state)
                  /\ UNCHANGED <<state, tries>> \/ (c = "dag" /\ FailTry("generate"))
  BY IdleIsCall DEF Raise
<1>2. ASSUME NEW ok \in BOOLEAN, CheckCache(c, ok) PROVE Goal
  <2>1. (c = "dag" => Ready("generate"))
        /\ UNCHANGED <<deployed, backlog, done, vectors, scores, transit, xcom>>
    BY <1>2 DEF CheckCache, Starts, store
  <2>2. CASE Raise(c)  BY <1>1, <2>1, <2>2
  <2>3. CASE ~Raise(c)
    <3>1. PICK a, t : /\ call' = [call EXCEPT ![c] = [at |-> a, todo |-> t, paid |-> {}]]
                      /\ UNCHANGED <<state, tries, celery>>
      BY <1>2, <2>3 DEF CheckCache
    <3>2. IsCall([at |-> a, todo |-> t, paid |-> {}])  BY DEF IsCall
    <3>3. QED  BY <2>1, <3>1, <3>2
  <2>4. QED  BY <2>2, <2>3
<1>3. ASSUME CallOpenAI(c) PROVE Goal
  <2>1. PICK a, t, p : call' = [call EXCEPT ![c] = [at |-> a, todo |-> t, paid |-> p]]
    BY <1>3 DEF CallOpenAI
  <2>2. IsCall([at |-> a, todo |-> t, paid |-> p])  BY DEF IsCall
  <2>3. call[c].at = "batch" /\ UNCHANGED <<state, tries>>
        /\ UNCHANGED <<deployed, backlog, done, vectors, scores, transit, xcom>>
    BY <1>3 DEF CallOpenAI, store, run
  <2>4. QED  BY <2>1, <2>2, <2>3
<1>4. ASSUME CallFails(c) PROVE Goal
  <2>1. call[c].at = "batch" /\ Raise(c)
        /\ UNCHANGED <<deployed, backlog, done, vectors, scores, transit, xcom>>
    BY <1>4 DEF CallFails, store
  <2>2. QED  BY <1>1, <2>1
<1>5. ASSUME NEW ok \in BOOLEAN, LogCost(c, ok) PROVE Goal
  <2>1. call[c].at = "log"
        /\ UNCHANGED <<deployed, backlog, done, vectors, scores, transit, xcom>>
    BY <1>5 DEF LogCost, store
  <2>2. CASE Raise(c)  BY <1>1, <2>1, <2>2
  <2>3. CASE ~Raise(c)
    <3>1. call' = [call EXCEPT ![c].at = "return"] /\ UNCHANGED <<state, tries>>
      BY <1>5, <2>3 DEF LogCost
    <3> DEFINE x == [call[c] EXCEPT !.at = "return"]
    <3>2. call[c] = [at |-> call[c].at, todo |-> call[c].todo, paid |-> call[c].paid]
      BY DEF BatchShape, IsCall
    <3>3. x = [at |-> "return", todo |-> call[c].todo, paid |-> call[c].paid]  BY <3>2
    <3>4. IsCall(x)
      <4>1. \A t, p : IsCall([at |-> "return", todo |-> t, paid |-> p])  BY DEF IsCall
      <4> HIDE DEF x
      <4>2. QED  BY <3>3, <4>1
    <3>5. call' = [call EXCEPT ![c] = x]  BY <3>1
    <3> HIDE DEF x
    <3>6. QED  BY <2>1, <3>1, <3>4, <3>5
  <2>4. QED  BY <2>2, <2>3
<1>6. QED
  <2> HIDE DEF Goal
  <2>1. Goal  BY <1>2, <1>3, <1>4, <1>5 DEF Embed
  <2>2. QED  BY <2>1 DEF Goal

LEMMA MarkedInit == EmbeddingInit => MarkedInv
<1> SUFFICES ASSUME EmbeddingInit PROVE MarkedInv  OBVIOUS
<1>1. BatchShape
  <2>1. call = [c \in Clients |-> Idle]  BY DEF EmbeddingInit
  <2>2. \A c \in Clients : IsCall(call[c])  BY <2>1, IdleIsCall
  <2>3. call = [c \in Clients |-> call[c]]  BY <2>1
  <2>4. IsResult(xcom)  BY DEF EmbeddingInit, IsResult, NoResult
  <2>5. QED  BY <2>2, <2>3, <2>4 DEF EmbeddingInit, BatchShape
<1>2. \A t \in Tasks : state[t] = "waiting"  BY DEF EmbeddingInit
<1>3. Order  BY <1>2 DEF Order
<1>4. InCall  BY IdleIsCall DEF EmbeddingInit, InCall, Clients
<1>5. HandedOn
  BY <1>2 DEF EmbeddingInit, HandedOn, NoResult, Tasks
<1>6. MarkedIsComplete  BY DEF EmbeddingInit, MarkedIsComplete
<1>7. QED  BY <1>1, <1>3, <1>4, <1>5, <1>6 DEF MarkedInv

\* What a step of the other tasks leaves alone.
LEMMA TasksApart ==
  ASSUME MarkedInv, NEW t \in Tasks, t # "generate", Ready(t), Succeed(t) \/ FailTry(t),
         call' = call
  PROVE  InCall'
<1>1. /\ \A u \in Tasks : u # t => state'[u] = state[u]
      /\ state[t] = "waiting"
  BY TaskStep DEF MarkedInv
<1>2. ASSUME call["dag"].at # "idle" PROVE Ready("generate")'
  <2>1. Ready("generate")  BY <1>2 DEF MarkedInv, InCall
  <2>2. state["generate"] = "waiting" /\ state["fetch"] = "success"
    BY <2>1, UpstreamOf DEF Ready
  <2>3. state'["generate"] = "waiting" /\ state'["fetch"] = "success"
    BY <1>1, <2>2 DEF Tasks
  <2>4. QED  BY <2>3, UpstreamOf DEF Ready
<1>3. QED  BY <1>2 DEF InCall

\* In its own task, embed_batch leaves everything as it is that the tasks behind look at.
LEMMA MarkedEmbed ==
  ASSUME MarkedInv, NEW c \in Clients, Embed(c)
  PROVE  MarkedInv'
<1>1. BatchShape /\ Order /\ InCall /\ HandedOn /\ MarkedIsComplete  BY DEF MarkedInv
<1>2. UNCHANGED <<deployed, backlog, done, vectors, scores, transit, xcom>>
  BY <1>1, EmbedShape
<1>3. PICK x : IsCall(x) /\ call' = [call EXCEPT ![c] = x] /\ (x.at # "idle" => state' = state)
  BY <1>1, EmbedShape
<1>4. /\ call' = [d \in Clients |-> call'[d]] /\ \A d \in Clients : IsCall(call'[d])
      /\ call'[c] = x /\ \A d \in Clients : d # c => call'[d] = call[d]
  BY <1>1, <1>3, CallSet DEF BatchShape
<1>5. c = "dag" => Ready("generate")  BY <1>1, EmbedShape DEF InCall
<1>6. CASE UNCHANGED <<state, tries>>
  <2>1. BatchShape'  BY <1>1, <1>2, <1>4, <1>6 DEF BatchShape
  <2>2. Order' /\ HandedOn' /\ MarkedIsComplete'
    BY <1>1, <1>2, <1>6 DEF Order, HandedOn, MarkedIsComplete, Scorable
  <2>3. Ready("generate") => Ready("generate")'  BY <1>6 DEF Ready
  <2>4. "dag" \in Clients  BY DEF Clients
  <2>5. InCall'  BY <1>1, <1>4, <1>5, <2>3, <2>4 DEF InCall
  <2>6. QED  BY <2>1, <2>2, <2>5 DEF MarkedInv
<1>7. CASE c = "dag" /\ FailTry("generate")
  <2>1. "generate" \in Tasks  BY DEF Tasks
  <2>2. /\ state' \in [Tasks -> {"waiting", "success", "failed"}] /\ Order'
        /\ \A u \in Tasks : u # "generate" => state'[u] = state[u]
        /\ state[ "generate"] = "waiting" /\ state'["generate"] # "success"
    BY <1>1, <1>5, <1>7, <2>1, TaskStep
  <2>3. BatchShape'  BY <1>1, <1>2, <1>4, <2>2 DEF BatchShape
  <2>4. HandedOn' /\ MarkedIsComplete'
    BY <1>1, <1>2, <2>2 DEF HandedOn, MarkedIsComplete, Tasks, Scorable
  <2>5. InCall'
    <3>1. CASE x.at = "idle"  BY <1>4, <1>7, <3>1 DEF InCall
    <3>2. CASE x.at # "idle"
      <4>1. state' = state  BY <1>3, <3>2
      <4>2. Ready("generate")'  BY <1>5, <1>7, <4>1 DEF Ready
      <4>3. QED  BY <4>2 DEF InCall
    <3>3. QED  BY <3>1, <3>2
  <2>6. QED  BY <2>2, <2>3, <2>4, <2>5 DEF MarkedInv
<1>8. QED  BY <1>1, <1>6, <1>7, EmbedShape

\* generate_embeddings hands on new hashes only when nothing of the run has been stored.
LEMMA MarkedGenerated ==
  ASSUME MarkedInv, NEW ok \in BOOLEAN, Generated(ok)
  PROVE  MarkedInv'
<1>1. BatchShape /\ Order /\ InCall /\ HandedOn /\ MarkedIsComplete  BY DEF MarkedInv
<1>2. /\ Ready("generate") /\ "generate" \in Tasks /\ "dag" \in Clients
      /\ UNCHANGED <<deployed, backlog, done, vectors, scores>>
  BY <1>1 DEF Generated, InCall, Tasks, Clients, store
<1>3. state["generate"] = "waiting"  BY <1>2 DEF Ready
<1>4. call' = [call EXCEPT !["dag"] = Idle]  BY DEF Generated, Raise
<1>5. /\ call' = [d \in Clients |-> call'[d]] /\ \A d \in Clients : IsCall(call'[d])
      /\ call'["dag"] = Idle
  BY <1>1, <1>2, <1>4, IdleIsCall, CallSet DEF BatchShape
<1>6. InCall'  BY <1>5, IdleIsCall DEF InCall
<1>7. Succeed("generate") \/ FailTry("generate")  BY DEF Generated, Raise
<1>8. /\ state' \in [Tasks -> {"waiting", "success", "failed"}] /\ Order'
      /\ \A u \in Tasks : u # "generate" => state'[u] = state[u]
  BY <1>1, <1>2, <1>7, TaskStep
<1>9. state["calculate"] # "success" /\ state["store"] # "success"
      /\ state["update_sps"] # "success"
  BY <1>1, <1>3, NotYet
<1>10. /\ IsResult(xcom') /\ xcom'.stored = xcom.stored
  <2>1. CASE ok
    <3>1. PICK h : xcom' = [xcom EXCEPT !.hashes = h]  BY <2>1 DEF Generated
    <3>2. xcom = [events |-> xcom.events, hashes |-> xcom.hashes, scored |-> xcom.scored,
                  stored |-> xcom.stored]
      BY <1>1 DEF BatchShape, IsResult
    <3>3. xcom' = [events |-> xcom.events, hashes |-> h, scored |-> xcom.scored,
                   stored |-> xcom.stored]
      BY <3>1, <3>2
    <3>4. QED  BY <3>3 DEF IsResult
  <2>2. CASE ~ok  BY <1>1, <2>2 DEF Generated, BatchShape
  <2>3. QED  BY <2>1, <2>2
<1>11. BatchShape'  BY <1>5, <1>8, <1>10 DEF BatchShape
<1>12. HandedOn'
  <2>1. xcom'.stored = {}  BY <1>1, <1>9, <1>10 DEF HandedOn
  <2>2. state'["calculate"] # "success" /\ state'["update_sps"] # "success"
    BY <1>8, <1>9 DEF Tasks
  <2>3. QED  BY <2>1, <2>2 DEF HandedOn
<1>13. MarkedIsComplete'  BY <1>1, <1>2 DEF MarkedIsComplete
<1>14. QED  BY <1>6, <1>8, <1>11, <1>12, <1>13 DEF MarkedInv

\* An update of what a task returns.
LEMMA ResultSet ==
  ASSUME IsResult(xcom), NEW v
  PROVE  \A x :
           /\ x = [xcom EXCEPT !.events = v] =>
                IsResult(x) /\ x.hashes = xcom.hashes /\ x.scored = xcom.scored
                /\ x.stored = xcom.stored
           /\ x = [xcom EXCEPT !.scored = v] =>
                IsResult(x) /\ x.hashes = xcom.hashes /\ x.scored = v
                /\ x.stored = xcom.stored
           /\ x = [xcom EXCEPT !.stored = v] =>
                IsResult(x) /\ x.hashes = xcom.hashes /\ x.scored = xcom.scored
                /\ x.stored = v
<1>1. \A e, h, s, t : IsResult([events |-> e, hashes |-> h, scored |-> s, stored |-> t])
  BY DEF IsResult
<1>2. xcom = [events |-> xcom.events, hashes |-> xcom.hashes, scored |-> xcom.scored,
              stored |-> xcom.stored]
  BY DEF IsResult
<1>3. [xcom EXCEPT !.events = v] = [events |-> v, hashes |-> xcom.hashes,
                                    scored |-> xcom.scored, stored |-> xcom.stored]
  BY <1>2
<1>4. [xcom EXCEPT !.scored = v] = [events |-> xcom.events, hashes |-> xcom.hashes,
                                    scored |-> v, stored |-> xcom.stored]
  BY <1>2
<1>5. [xcom EXCEPT !.stored = v] = [events |-> xcom.events, hashes |-> xcom.hashes,
                                    scored |-> xcom.scored, stored |-> v]
  BY <1>2
<1>6. QED  BY <1>1, <1>3, <1>4, <1>5

LEMMA MarkedFetch ==
  ASSUME MarkedInv, NEW ok \in BOOLEAN, Fetch(ok) \/ WriteGraph(ok)
  PROVE  MarkedInv'
<1>1. BatchShape /\ Order /\ InCall /\ HandedOn /\ MarkedIsComplete  BY DEF MarkedInv
<1>2. PICK t \in {"fetch", "graph"} :
        /\ Ready(t) /\ (Succeed(t) \/ FailTry(t))
        /\ UNCHANGED <<deployed, done, vectors, scores, call>>
        /\ xcom' = xcom \/ \E v : xcom' = [xcom EXCEPT !.events = v]
  BY DEF Fetch, WriteGraph, store
<1>3. t \in Tasks /\ t # "generate"  BY <1>2 DEF Tasks
<1>4. /\ state' \in [Tasks -> {"waiting", "success", "failed"}] /\ Order'
      /\ \A u \in Tasks : u # t => state'[u] = state[u]
  BY <1>1, <1>2, <1>3, TaskStep
<1>5. IsResult(xcom') /\ xcom'.hashes = xcom.hashes /\ xcom'.scored = xcom.scored
      /\ xcom'.stored = xcom.stored
  BY <1>1, <1>2, ResultSet DEF BatchShape
<1>6. BatchShape'  BY <1>1, <1>2, <1>4, <1>5 DEF BatchShape
<1>7. InCall'  BY <1>2, <1>3, TasksApart
<1>8. HandedOn' /\ MarkedIsComplete'
  BY <1>1, <1>2, <1>4, <1>5 DEF HandedOn, MarkedIsComplete, Scorable, Tasks
<1>9. QED  BY <1>4, <1>6, <1>7, <1>8 DEF MarkedInv

\* What is scored is everything that can be, and calculate comes before update_sps.
LEMMA MarkedCalculate ==
  ASSUME MarkedInv, NEW ok \in BOOLEAN, Calculate(ok)
  PROVE  MarkedInv'
<1>1. BatchShape /\ Order /\ InCall /\ HandedOn /\ MarkedIsComplete  BY DEF MarkedInv
<1> DEFINE t == "calculate"
<1>2. t \in Tasks /\ t # "generate" /\ Ready(t) /\ (Succeed(t) \/ FailTry(t))
      /\ UNCHANGED <<deployed, done, vectors, scores, call>>
  BY DEF Calculate, store, Tasks
<1>3. /\ state' \in [Tasks -> {"waiting", "success", "failed"}] /\ Order'
      /\ \A u \in Tasks : u # t => state'[u] = state[u]
      /\ state[t] = "waiting" /\ (FailTry(t) => state'[t] # "success")
  BY <1>1, <1>2, TaskStep
<1>4. state["update_sps"] # "success"  BY <1>1, <1>3, UpstreamOf DEF Order, Tasks
<1>5. /\ IsResult(xcom') /\ xcom'.hashes = xcom.hashes /\ xcom'.stored = xcom.stored
      /\ xcom'.scored = Scorable(xcom.hashes) \/ (xcom' = xcom /\ FailTry(t))
  <2>1. IsResult(xcom)  BY <1>1 DEF BatchShape
  <2>2. xcom' = [xcom EXCEPT !.scored = Scorable(xcom.hashes)] \/ (xcom' = xcom /\ FailTry(t))
    BY DEF Calculate
  <2>3. QED  BY <2>1, <2>2, ResultSet
<1>6. BatchShape'  BY <1>1, <1>2, <1>3, <1>5 DEF BatchShape
<1>7. InCall'  BY <1>2, TasksApart
<1>8. HandedOn'
  <2>1. xcom'.stored \subseteq vectors' \cap xcom'.hashes  BY <1>1, <1>2, <1>5 DEF HandedOn
  <2>2. state'["store"] # "success" => xcom'.stored = {}
    BY <1>1, <1>3, <1>5 DEF HandedOn, Tasks
  <2>3. state'[t] = "success" => Scorable(xcom.hashes) \subseteq xcom'.scored  BY <1>3, <1>5
  <2>4. state'["update_sps"] # "success"  BY <1>3, <1>4 DEF Tasks
  <2>5. Scorable(xcom.hashes)' = Scorable(xcom.hashes)  BY <1>2, <1>5 DEF Scorable
  <2>6. QED  BY <2>1, <2>2, <2>3, <2>4, <2>5 DEF HandedOn
<1>9. MarkedIsComplete'  BY <1>1, <1>2 DEF MarkedIsComplete
<1>10. QED  BY <1>3, <1>6, <1>7, <1>8, <1>9 DEF MarkedInv

\* Only hashes whose vector was there, and is in Qdrant now, are returned.
LEMMA MarkedStore ==
  ASSUME MarkedInv, NEW ok \in BOOLEAN, StoreVectors(ok)
  PROVE  MarkedInv'
<1>1. BatchShape /\ Order /\ InCall /\ HandedOn /\ MarkedIsComplete  BY DEF MarkedInv
<1> DEFINE t == "store"
<1>2. t \in Tasks /\ t # "generate" /\ Ready(t) /\ (Succeed(t) \/ FailTry(t))
      /\ UNCHANGED <<deployed, done, scores, call>>
  BY DEF StoreVectors, Tasks
<1>3. /\ state' \in [Tasks -> {"waiting", "success", "failed"}] /\ Order'
      /\ \A u \in Tasks : u # t => state'[u] = state[u]
      /\ state[t] = "waiting"
  BY <1>1, <1>2, TaskStep
<1>4. /\ IsResult(xcom') /\ xcom'.hashes = xcom.hashes /\ xcom'.scored = xcom.scored
      /\ vectors \subseteq vectors' /\ xcom'.stored \subseteq vectors' \cap xcom.hashes
      /\ ok \/ xcom'.stored = xcom.stored
  <2>1. CASE ok
    <3>1. vectors' = vectors \cup (xcom.hashes \cap transit)
          /\ xcom' = [xcom EXCEPT !.stored = xcom.hashes \cap transit]
      BY <2>1 DEF StoreVectors, Upsert, Stored
    <3>2. IsResult(xcom)  BY <1>1 DEF BatchShape
    <3>3. QED  BY <2>1, <3>1, <3>2, ResultSet
  <2>2. CASE ~ok  BY <1>1, <2>2 DEF StoreVectors, BatchShape, HandedOn
  <2>3. QED  BY <2>1, <2>2
<1>5. BatchShape'  BY <1>1, <1>2, <1>3, <1>4 DEF BatchShape
<1>6. InCall'  BY <1>2, TasksApart
<1>7. HandedOn'
  <2>1. state'[t] # "success" => xcom'.stored = {}
    <3>1. CASE ok  BY <1>1, <1>2, <3>1 DEF StoreVectors, Succeed, BatchShape
    <3>2. CASE ~ok  BY <1>1, <1>3, <1>4, <3>2 DEF HandedOn
    <3>3. QED  BY <3>1, <3>2
  <2>2. Scorable(xcom.hashes)' = Scorable(xcom.hashes)  BY <1>2, <1>4 DEF Scorable
  <2>3. state'["calculate"] = state["calculate"] /\ state'["update_sps"] = state["update_sps"]
    BY <1>3 DEF Tasks
  <2>4. QED  BY <1>1, <1>2, <1>4, <2>1, <2>2, <2>3 DEF HandedOn
<1>8. MarkedIsComplete'  BY <1>1, <1>2, <1>4 DEF MarkedIsComplete
<1>9. QED  BY <1>3, <1>5, <1>6, <1>7, <1>8 DEF MarkedInv

LEMMA MarkedScores ==
  ASSUME MarkedInv, NEW ok \in BOOLEAN, NEW committed \in BOOLEAN, UpdateScores(ok, committed)
  PROVE  MarkedInv'
<1>1. BatchShape /\ Order /\ InCall /\ HandedOn /\ MarkedIsComplete  BY DEF MarkedInv
<1> DEFINE t == "update_sps"
<1>2. t \in Tasks /\ t # "generate" /\ Ready(t) /\ (Succeed(t) \/ FailTry(t))
      /\ UNCHANGED <<deployed, done, vectors, call, xcom>>
  BY DEF UpdateScores, Tasks
<1>3. /\ state' \in [Tasks -> {"waiting", "success", "failed"}] /\ Order'
      /\ \A u \in Tasks : u # t => state'[u] = state[u]
      /\ state[t] = "waiting" /\ (FailTry(t) => state'[t] # "success")
  BY <1>1, <1>2, TaskStep
<1>4. scores \subseteq scores' /\ (ok => xcom.scored \subseteq scores')
  BY DEF UpdateScores
<1>5. ~ok => FailTry(t)  BY DEF UpdateScores
<1>6. BatchShape'  BY <1>1, <1>2, <1>3 DEF BatchShape
<1>7. InCall'  BY <1>2, TasksApart
<1>8. HandedOn'
  <2>1. state'[t] = "success" => xcom'.scored \subseteq scores'  BY <1>2, <1>3, <1>4, <1>5
  <2>2. state'["calculate"] = state["calculate"] /\ state'["store"] = state["store"]
    BY <1>3 DEF Tasks
  <2>3. QED  BY <1>1, <1>2, <2>1, <2>2 DEF HandedOn, Scorable
<1>9. MarkedIsComplete'  BY <1>1, <1>2, <1>4 DEF MarkedIsComplete
<1>10. QED  BY <1>3, <1>6, <1>7, <1>8, <1>9 DEF MarkedInv

\* mark_processed runs when all three tasks before it have succeeded: what it marks has been
\* stored, and what has been stored can be scored and was.
LEMMA MarkedMark ==
  ASSUME MarkedInv, NEW ok \in BOOLEAN, NEW committed \in BOOLEAN, MarkProcessed(ok, committed)
  PROVE  MarkedInv'
<1>1. BatchShape /\ Order /\ InCall /\ HandedOn /\ MarkedIsComplete  BY DEF MarkedInv
<1> DEFINE t == "mark"
<1>2. t \in Tasks /\ t # "generate" /\ Ready(t) /\ (Succeed(t) \/ FailTry(t))
      /\ UNCHANGED <<deployed, vectors, scores, call, xcom>>
  BY DEF MarkProcessed, Tasks
<1>3. /\ state' \in [Tasks -> {"waiting", "success", "failed"}] /\ Order'
      /\ \A u \in Tasks : u # t => state'[u] = state[u]
  BY <1>1, <1>2, TaskStep
<1>4. state["update_sps"] = "success" /\ state["calculate"] = "success"
  <2>1. state["update_sps"] = "success"  BY <1>2, UpstreamOf DEF Ready
  <2>2. QED  BY <1>1, <2>1, UpstreamOf DEF Order, Tasks
<1>5. \A m \in xcom.stored : m \in vectors /\ (deployed.concepts => m \in scores)
  BY <1>1, <1>4 DEF HandedOn, Scorable
<1>6. done' \subseteq done \cup xcom.stored  BY DEF MarkProcessed
<1>7. BatchShape'  BY <1>1, <1>2, <1>3 DEF BatchShape
<1>8. InCall'  BY <1>2, TasksApart
<1>9. HandedOn'  BY <1>1, <1>2, <1>3 DEF HandedOn, Scorable, Tasks
<1>10. MarkedIsComplete'  BY <1>1, <1>2, <1>5, <1>6 DEF MarkedIsComplete
<1>11. QED  BY <1>3, <1>7, <1>8, <1>9, <1>10 DEF MarkedInv

\* A run ends with the call of its task.
LEMMA MarkedNextRun ==
  ASSUME MarkedInv, NextRun
  PROVE  MarkedInv'
<1>1. BatchShape /\ Order /\ InCall /\ HandedOn /\ MarkedIsComplete  BY DEF MarkedInv
<1>2. call["dag"].at = "idle"  BY <1>1 DEF InCall, NextRun, RunOver, Tasks
<1>3. /\ state' = [t \in Tasks |-> "waiting"] /\ xcom' = NoResult
      /\ UNCHANGED <<deployed, done, vectors, scores, call>>
  BY DEF NextRun, store
<1>4. BatchShape'
  <2>1. IsResult(NoResult)  BY DEF IsResult, NoResult
  <2>2. QED  BY <1>1, <1>3, <2>1 DEF BatchShape
<1>5. Order' /\ InCall'  BY <1>2, <1>3 DEF Order, InCall
<1>6. HandedOn'  BY <1>3 DEF HandedOn, NoResult, Tasks
<1>7. MarkedIsComplete'  BY <1>1, <1>3 DEF MarkedIsComplete
<1>8. QED  BY <1>4, <1>5, <1>6, <1>7 DEF MarkedInv

\* The steps of the Celery task that are not in embed_batch, of those who insert mentions and
\* of the keys that go.
LEMMA MarkedOthers ==
  ASSUME MarkedInv,
         \/ \E t \in Texts : Mention(t) \/ Ask(t)
         \/ \E ok \in BOOLEAN : UpsertOne(ok)
         \/ KeyGone \/ UNCHANGED embeddingVars
  PROVE  MarkedInv'
<1>1. BatchShape /\ Order /\ InCall /\ HandedOn /\ MarkedIsComplete  BY DEF MarkedInv
<1>2. UNCHANGED <<deployed, done, scores, state, xcom>> /\ vectors \subseteq vectors'
  <2>1. ASSUME NEW ok \in BOOLEAN, UpsertOne(ok)
        PROVE  UNCHANGED <<deployed, done, scores, state, xcom>> /\ vectors \subseteq vectors'
    BY <2>1 DEF UpsertOne, Upsert, Raise
  <2>2. QED  BY <2>1 DEF Mention, Ask, KeyGone, embeddingVars, run, store
<1>3. call' = call \/ call' = [call EXCEPT !["celery"] = Idle]
  BY DEF UpsertOne, Raise, Mention, Ask, KeyGone, embeddingVars
<1>4. /\ call' = [d \in Clients |-> call'[d]] /\ \A d \in Clients : IsCall(call'[d])
      /\ call'["dag"] = call["dag"]
  <2>1. CASE call' = call  BY <1>1, <2>1 DEF BatchShape
  <2>2. CASE call' = [call EXCEPT !["celery"] = Idle]
    BY <1>1, <2>2, IdleIsCall, CallSet DEF BatchShape, Clients
  <2>3. QED  BY <1>3, <2>1, <2>2
<1>5. BatchShape'  BY <1>1, <1>2, <1>4 DEF BatchShape
<1>6. Order' /\ InCall'  BY <1>1, <1>2, <1>4 DEF Order, InCall, Ready
<1>7. HandedOn' /\ MarkedIsComplete'
  BY <1>1, <1>2 DEF HandedOn, MarkedIsComplete, Scorable
<1>8. QED  BY <1>5, <1>6, <1>7 DEF MarkedInv

LEMMA MarkedKept ==
  ASSUME MarkedInv, [EmbeddingNext]_embeddingVars
  PROVE  MarkedInv'
<1>1. "dag" \in Clients /\ "celery" \in Clients /\ Direct \subseteq Texts
  BY EmbeddingAssumption DEF Clients, EmbeddingAssumption
<1>2. QED
  BY <1>1, MarkedEmbed, MarkedGenerated, MarkedFetch, MarkedCalculate, MarkedStore, MarkedScores,
     MarkedMark, MarkedNextRun, MarkedOthers
  DEF EmbeddingNext, Airflow

-------------------------------------------------------------------------------
(* The embedding batch: every payment has its cost row coming *)

LEMMA CostInit == EmbeddingInit => CostInv
<1> SUFFICES ASSUME EmbeddingInit PROVE CostInv  OBVIOUS
<1>1. call = [c \in Clients |-> Idle]  BY DEF EmbeddingInit
<1>2. \A c \in Clients : IsCall(call[c])  BY <1>1, IdleIsCall
<1>3. call = [c \in Clients |-> call[c]]  BY <1>1
<1>4. failures \in [{"paying", "other"} -> Nat] /\ owed = {}  BY DEF EmbeddingInit
<1>5. QED  BY <1>2, <1>3, <1>4 DEF CostInv

LEMMA FaultTyped ==
  ASSUME failures \in [{"paying", "other"} -> Nat], NEW k \in {"paying", "other"}, Fault(k)
  PROVE  /\ failures' \in [{"paying", "other"} -> Nat]
         /\ failures'["paying"] = 0 => k # "paying" /\ failures["paying"] = 0
BY DEF Fault

LEMMA OutcomeCounted ==
  ASSUME failures \in [{"paying", "other"} -> Nat], NEW ok, Outcome(ok)
  PROVE  /\ failures' \in [{"paying", "other"} -> Nat]
         /\ failures'["paying"] = 0 => failures["paying"] = 0
BY FaultTyped DEF Outcome

\* A call that is not paying may be set to anything with nothing paid, and nothing else
\* changes: then every payment keeps its call.
LEMMA CostStays ==
  ASSUME CostInv, owed' = owed, deployed' = deployed,
         failures' \in [{"paying", "other"} -> Nat],
         failures'["paying"] = 0 => failures["paying"] = 0,
         \/ call' = call
         \/ \E c \in Clients \ Paying : \E x : IsCall(x) /\ call' = [call EXCEPT ![c] = x]
  PROVE  CostInv'
<1>1. CASE call' = call  BY <1>1 DEF CostInv, Paying
<1>2. ASSUME NEW c \in Clients \ Paying, NEW x, IsCall(x), call' = [call EXCEPT ![c] = x]
      PROVE  CostInv'
  <2>1. /\ call' = [d \in Clients |-> call'[d]] /\ \A d \in Clients : IsCall(call'[d])
        /\ call'[c] = x /\ \A d \in Clients : d # c => call'[d] = call[d]
    BY <1>2, CallSet DEF CostInv
  <2>2. \A d \in Paying : d \in Paying' /\ call'[d] = call[d]  BY <2>1 DEF Paying
  <2>3. UNION {call[d].paid : d \in Paying} \subseteq UNION {call'[d].paid : d \in Paying'}
    BY <2>2
  <2>4. QED  BY <2>1, <2>3 DEF CostInv
<1>3. QED  BY <1>1, <1>2

\* A batch is paid for: the call counts what OpenAI does, until one of them fails.
LEMMA CostOpenAI ==
  ASSUME CostInv, NEW c \in Clients, CallOpenAI(c)
  PROVE  CostInv'
<1> DEFINE B == ToSet(Batch(c))
           t == Rest(BatchSize, call[c].todo)
           a == IF t = <<>> THEN "log" ELSE "batch"
<1>0. a \in {"log", "batch"}
  OBVIOUS
<1>1. call' = [call EXCEPT ![c] = [at |-> a, todo |-> t, paid |-> PaidSoFar(c)]]
  BY DEF CallOpenAI
<1> HIDE DEF a, t
<1>2. call[c].at = "batch" /\ owed' = owed \cup B /\ UNCHANGED <<deployed, failures>>
  BY DEF CallOpenAI
<1>3. PaidSoFar(c) = call[c].paid \cup B  BY DEF PaidSoFar
<1> HIDE DEF B
<1> DEFINE x == [at |-> a, todo |-> t, paid |-> PaidSoFar(c)]
<1>4. IsCall(x) /\ x.at = a /\ x.paid = call[c].paid \cup B  BY <1>3 DEF IsCall
<1> HIDE DEF x
<1>5. call' = [call EXCEPT ![c] = x]  BY <1>1 DEF x
<1>6. /\ call' = [d \in Clients |-> call'[d]] /\ \A d \in Clients : IsCall(call'[d])
      /\ call'[c] = x /\ \A d \in Clients : d # c => call'[d] = call[d]
  BY <1>4, <1>5, CallSet DEF CostInv
<1>7. c \in Paying' /\ B \subseteq call'[c].paid  BY <1>0, <1>4, <1>6 DEF Paying
<1>8. \A d \in Paying : d \in Paying' /\ call[d].paid \subseteq call'[d].paid
  BY <1>4, <1>6, <1>7 DEF Paying
<1>9. (UNION {call[d].paid : d \in Paying}) \cup B \subseteq UNION {call'[d].paid : d \in Paying'}
  BY <1>7, <1>8
<1>10. QED  BY <1>2, <1>6, <1>9 DEF CostInv

\* A batch fails only with a failure of the payment, or where texts are refused.
LEMMA CostFails ==
  ASSUME CostInv, NEW c \in Clients, CallFails(c)
  PROVE  CostInv'
<1>1. call' = [call EXCEPT ![c] = Idle] /\ deployed' = deployed  BY DEF CallFails, Raise
<1>2. /\ call' = [d \in Clients |-> call'[d]] /\ \A d \in Clients : IsCall(call'[d])
  BY <1>1, IdleIsCall, CallSet DEF CostInv
<1>3. failures \in [{"paying", "other"} -> Nat]  BY DEF CostInv
<1>4. failures' \in [{"paying", "other"} -> Nat]
      /\ ~(deployed.bad = {} /\ failures'["paying"] = 0)
  <2>1. CASE ToSet(Batch(c)) \cap deployed.bad # {} /\ failures' = failures  BY <1>3, <2>1
  <2>2. CASE Fault("paying")  BY <1>3, <2>2, FaultTyped
  <2>3. QED  BY <2>1, <2>2 DEF CallFails
<1>5. QED  BY <1>1, <1>2, <1>4 DEF CostInv

\* The row takes what the call has paid for; what the other call owes stays.
LEMMA CostLog ==
  ASSUME CostInv, NEW c \in Clients, NEW ok \in BOOLEAN, LogCost(c, ok)
  PROVE  CostInv'
<1>0. failures \in [{"paying", "other"} -> Nat] /\ deployed' = deployed
      /\ call = [d \in Clients |-> call[d]] /\ \A d \in Clients : IsCall(call[d])
  BY DEF LogCost, CostInv
<1>1. PICK x : IsCall(x) /\ call' = [call EXCEPT ![c] = x]
  <2>1. CASE Raise(c)  BY <2>1, IdleIsCall DEF Raise
  <2>2. CASE ~Raise(c)
    <3> DEFINE x == [call[c] EXCEPT !.at = "return"]
    <3>1. call' = [call EXCEPT ![c] = x]  BY <2>2 DEF LogCost
    <3>2. x = [at |-> "return", todo |-> call[c].todo, paid |-> call[c].paid]
      BY <1>0 DEF IsCall
    <3>3. \A t, p : IsCall([at |-> "return", todo |-> t, paid |-> p])  BY DEF IsCall
    <3> HIDE DEF x
    <3>4. IsCall(x)  BY <3>2, <3>3
    <3>5. QED  BY <3>1, <3>4
  <2>3. QED  BY <2>1, <2>2
<1>2. /\ call' = [d \in Clients |-> call'[d]] /\ \A d \in Clients : IsCall(call'[d])
      /\ \A d \in Clients : d # c => call'[d] = call[d]
  BY <1>0, <1>1, CallSet
<1>3. CASE ~ok
  <2>1. Fault("paying")  BY <1>3 DEF LogCost, InsertCost
  <2>2. failures' \in [{"paying", "other"} -> Nat] /\ failures'["paying"] # 0
    BY <1>0, <2>1, FaultTyped
  <2>3. QED  BY <1>2, <2>2 DEF CostInv
<1>4. CASE ok
  <2>1. failures' = failures /\ owed' = owed \ call[c].paid
    BY <1>4 DEF LogCost, InsertCost
  <2>2. \A d \in Paying \ {c} : d \in Paying' /\ call'[d] = call[d]  BY <1>2 DEF Paying
  <2>3. (UNION {call[d].paid : d \in Paying}) \ call[c].paid
          \subseteq UNION {call'[d].paid : d \in Paying'}
    BY <2>2
  <2>4. QED  BY <1>0, <1>2, <2>1, <2>3 DEF CostInv
<1>5. QED  BY <1>3, <1>4

LEMMA CostEmbed ==
  ASSUME CostInv, NEW c \in Clients, Embed(c)
  PROVE  CostInv'
<1>1. ASSUME NEW ok \in BOOLEAN, CheckCache(c, ok) PROVE CostInv'
  <2>1. c \in Clients \ Paying  BY <1>1 DEF CheckCache, Starts, Paying
  <2>2. failures' \in [{"paying", "other"} -> Nat]
        /\ (failures'["paying"] = 0 => failures["paying"] = 0)
    BY <1>1, OutcomeCounted DEF CheckCache, CostInv
  <2>3. PICK x : IsCall(x) /\ call' = [call EXCEPT ![c] = x]
    <3>1. CASE Raise(c)  BY <3>1, IdleIsCall DEF Raise
    <3>2. CASE ~Raise(c)
      <4>1. PICK a, t : call' = [call EXCEPT ![c] = [at |-> a, todo |-> t, paid |-> {}]]
        BY <1>1, <3>2 DEF CheckCache
      <4>2. IsCall([at |-> a, todo |-> t, paid |-> {}])  BY DEF IsCall
      <4>3. QED  BY <4>1, <4>2
    <3>3. QED  BY <3>1, <3>2
  <2>4. owed' = owed /\ deployed' = deployed  BY <1>1 DEF CheckCache
  <2>5. QED  BY <2>1, <2>2, <2>3, <2>4, CostStays
<1>2. QED  BY <1>1, CostOpenAI, CostFails, CostLog DEF Embed

\* The steps outside embed_batch change a call only when it has returned.
LEMMA CostOthers ==
  ASSUME CostInv,
         \/ \E ok \in BOOLEAN : Generated(ok) \/ UpsertOne(ok) \/ Fetch(ok) \/ Calculate(ok)
                                \/ StoreVectors(ok) \/ WriteGraph(ok)
         \/ \E ok, committed \in BOOLEAN :
              UpdateScores(ok, committed) \/ MarkProcessed(ok, committed)
         \/ \E t \in Texts : Mention(t) \/ Ask(t)
         \/ NextRun \/ KeyGone \/ UNCHANGED embeddingVars
  PROVE  CostInv'
<1>0. failures \in [{"paying", "other"} -> Nat]  BY DEF CostInv
<1>1. ASSUME NEW ok \in BOOLEAN, Generated(ok) \/ UpsertOne(ok) PROVE CostInv'
  <2>1. PICK c \in Clients : call[c].at = "return" /\ call' = [call EXCEPT ![c] = Idle]
    BY <1>1 DEF Generated, UpsertOne, Raise, Clients
  <2>2. c \in Clients \ Paying  BY <2>1 DEF Paying
  <2>3. Outcome(ok) /\ owed' = owed /\ deployed' = deployed  BY <1>1 DEF Generated, UpsertOne
  <2>4. QED  BY <1>0, <2>1, <2>2, <2>3, IdleIsCall, OutcomeCounted, CostStays
<1>2. ASSUME NEW ok \in BOOLEAN, NEW committed \in BOOLEAN,
             \/ Fetch(ok) \/ Calculate(ok) \/ StoreVectors(ok) \/ WriteGraph(ok)
             \/ UpdateScores(ok, committed) \/ MarkProcessed(ok, committed)
      PROVE  CostInv'
  <2>1. Outcome(ok) /\ owed' = owed /\ deployed' = deployed /\ call' = call
    BY <1>2 DEF Fetch, Calculate, StoreVectors, WriteGraph, UpdateScores, MarkProcessed
  <2>2. QED  BY <1>0, <2>1, OutcomeCounted, CostStays
<1>3. ASSUME \/ \E t \in Texts : Mention(t) \/ Ask(t)
             \/ NextRun \/ UNCHANGED embeddingVars
      PROVE  CostInv'
  <2>1. failures' = failures /\ owed' = owed /\ deployed' = deployed /\ call' = call
    BY <1>3 DEF Mention, Ask, NextRun, embeddingVars
  <2>2. QED  BY <1>0, <2>1, CostStays
<1>4. CASE KeyGone
  <2>1. Fault("other") /\ owed' = owed /\ deployed' = deployed /\ call' = call
    BY <1>4 DEF KeyGone
  <2>2. QED  BY <1>0, <2>1, FaultTyped, CostStays
<1>5. QED  BY <1>1, <1>2, <1>3, <1>4

LEMMA CostKept ==
  ASSUME CostInv, [EmbeddingNext]_embeddingVars
  PROVE  CostInv'
<1>1. "dag" \in Clients /\ "celery" \in Clients /\ Direct \subseteq Texts
  BY EmbeddingAssumption DEF Clients, EmbeddingAssumption
<1>2. QED  BY <1>1, CostEmbed, CostOthers DEF EmbeddingNext, Airflow

-------------------------------------------------------------------------------
(* The embedding batch: theorems *)

\* Whatever fails, is lost or runs again: a mention is marked only by the last task of a run
\* in which all before it have succeeded, and only if its vector is in Qdrant; and if there
\* was anything to score it against, it was among what is scored.
THEOREM MarkedIsAlwaysComplete == EmbeddingSpec => []MarkedIsComplete
<1>1. MarkedInv /\ [EmbeddingNext]_embeddingVars => MarkedInv'  BY MarkedKept
<1>2. MarkedInv => MarkedIsComplete  BY DEF MarkedInv
<1>3. QED  BY <1>1, <1>2, MarkedInit, PTL DEF EmbeddingSpec

\* Unless a payment or its row fails, or a text is refused for ever: the two clients may pay
\* for the same text at the same time, and neither's row hides what the other owes.
THEOREM CostsAreLogged == EmbeddingSpec => []CostsLogged
<1>1. CostInv /\ [EmbeddingNext]_embeddingVars => CostInv'  BY CostKept
<1>2. CostInv => CostsLogged
  <2>1. UNION {call[c].paid : c \in Paying} \subseteq UNION {call[c].paid : c \in Clients}
    BY DEF Paying
  <2>2. QED  BY <2>1 DEF CostInv, CostsLogged
<1>3. QED  BY <1>1, <1>2, CostInit, PTL DEF EmbeddingSpec

================================================================================
