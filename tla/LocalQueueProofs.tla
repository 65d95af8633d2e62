-------------------------- MODULE LocalQueueProofs --------------------------
(***************************************************************************)
(* Proofs about LocalQueue for any number of runs, processes, faults and   *)
(* commands.                                                               *)
(***************************************************************************)
EXTENDS LocalQueue, FiniteSetTheorems, SequenceTheorems, WellFoundedInduction, TLAPS

-----------------------------------------------------------------------------
(* Numbers, sequences and the history.                                     *)

\* Every set of natural numbers that is not empty has a least element.
LEMMA LeastNat ==
  ASSUME NEW T \in SUBSET Nat, T # {}
  PROVE  \E x \in T : \A y \in T : x <= y
<1>1. PICK x \in T : \A y \in T : ~(<<y, x>> \in OpToRel(<, Nat))
  BY NatLessThanWellFounded, WFMin
<1>2. ASSUME NEW y \in T PROVE x <= y
  <2>1. <<y, x>> \in Nat \X Nat /\ <<y, x>>[1] = y /\ <<y, x>>[2] = x
    OBVIOUS
  <2>2. ~(y < x)
    BY <1>1, <2>1 DEF OpToRel
  <2> QED
    BY <2>2
<1> QED
  BY <1>2

\* A bounded set of natural numbers has a greatest element, and Max is it.
LEMMA MaxFacts ==
  ASSUME NEW n \in Nat, NEW S \in SUBSET (0 .. n), S # {}
  PROVE  Max(S) \in S /\ \A y \in S : y <= Max(S)
<1> DEFINE T == {k \in 0 .. n : n - k \in S}
<1>1. T \in SUBSET Nat /\ T # {}
  <2>1. PICK y \in S : TRUE
    OBVIOUS
  <2>2. y \in Int /\ n - y \in 0 .. n /\ n - (n - y) = y
    OBVIOUS
  <2>3. n - y \in T
    BY <2>2
  <2>4. \A k \in T : k \in Nat
    OBVIOUS
  <2> HIDE DEF T
  <2> QED
    BY <2>3, <2>4
<1>2. PICK x \in T : \A y \in T : x <= y
  BY <1>1, LeastNat
<1>3. n - x \in S /\ \A y \in S : n - x >= y
  <2>1. ASSUME NEW y \in S PROVE n - x >= y
    <3>1. n - y \in T
      BY <2>1
    <3>2. x <= n - y
      BY <1>2, <3>1
    <3> QED
      BY <1>2, <3>2
  <2> QED
    BY <1>2, <2>1
<1>4. Max(S) \in S /\ \A y \in S : Max(S) >= y
  BY <1>3 DEF Max
<1> QED
  BY <1>4

\* The position of an element in a set of numbers runs through all positions.
LEMMA RankFacts ==
  ASSUME NEW m \in Nat, NEW S \in SUBSET (1 .. m)
  PROVE  /\ IsFiniteSet(S) /\ Cardinality(S) \in Nat
         /\ \A i \in S : Cardinality({j \in S : j <= i}) \in 1 .. Cardinality(S)
         /\ \A n \in 1 .. Cardinality(S) : \E i \in S : Cardinality({j \in S : j <= i}) = n
         /\ \A i, k \in S : Cardinality({j \in S : j <= i}) = Cardinality({j \in S : j <= k})
                              => i = k
<1> DEFINE Low(i) == {j \in S : j <= i}
           rank == [i \in S |-> Cardinality(Low(i))]
<1>1. IsFiniteSet(S) /\ Cardinality(S) \in Nat
  <2>1. IsFiniteSet(1 .. m)
    BY FS_Interval
  <2>2. IsFiniteSet(S)
    BY <2>1, FS_Subset
  <2> QED
    BY <2>2, FS_CardinalityType
<1>2. ASSUME NEW i \in S PROVE IsFiniteSet(Low(i)) /\ Cardinality(Low(i)) \in 1 .. Cardinality(S)
  <2>1. IsFiniteSet(Low(i)) /\ Cardinality(Low(i)) <= Cardinality(S)
    BY <1>1, FS_Subset
  <2>2. Cardinality(Low(i)) \in Nat
    BY <2>1, FS_CardinalityType
  <2>3. i \in Low(i)
    OBVIOUS
  <2>4. Cardinality(Low(i)) # 0
    BY <2>1, <2>3, FS_EmptySet
  <2> QED
    BY <1>1, <2>1, <2>2, <2>4
<1>3. ASSUME NEW i \in S, NEW k \in S, i < k PROVE Cardinality(Low(i)) # Cardinality(Low(k))
  <2>1. Low(i) \in SUBSET Low(k) /\ k \in Low(k) /\ k \notin Low(i)
    <3>1. i \in Int /\ k \in Int /\ \A j \in S : j \in Int
      OBVIOUS
    <3>2. ASSUME NEW j \in Low(i) PROVE j \in Low(k)
      BY <1>3, <3>1, <3>2
    <3>3. k \in Low(k) /\ k \notin Low(i)
      BY <1>3, <3>1
    <3> HIDE DEF Low
    <3> QED
      BY <3>2, <3>3
  <2> HIDE DEF Low
  <2> QED
    BY <1>2, <2>1, FS_Subset
<1>4. ASSUME NEW i \in S, NEW k \in S, Cardinality(Low(i)) = Cardinality(Low(k)) PROVE i = k
  <2>1. i \in Int /\ k \in Int
    OBVIOUS
  <2> QED
    BY <1>3, <1>4, <2>1
<1> HIDE DEF Low
<1>5. rank \in Injection(S, 1 .. Cardinality(S))
  BY <1>2, <1>4 DEF Injection, IsInjective
<1>6. IsFiniteSet(1 .. Cardinality(S)) /\ Cardinality(1 .. Cardinality(S)) = Cardinality(S)
  BY <1>1, FS_Interval
<1>7. rank \in Surjection(S, 1 .. Cardinality(S))
  BY <1>5, <1>6, FS_Injection
<1>8. \A n \in 1 .. Cardinality(S) : \E i \in S : Cardinality(Low(i)) = n
  BY <1>7 DEF Surjection
<1> QED
  BY <1>1, <1>2, <1>4, <1>8 DEF Low

\* Without keeps exactly the items of the other runs.
LEMMA WithoutFacts ==
  ASSUME items \in Seq(Run), NEW r
  PROVE  /\ Without(r) \in Seq(Run)
         /\ \A x : x \in ToSet(Without(r)) <=> x \in ToSet(items) /\ x # r
<1> DEFINE rest == {k \in DOMAIN items : items[k] # r}
           pos(k) == Cardinality({j \in rest : j <= k})
           nth(n) == CHOOSE k \in rest : pos(k) = n
<1>1. Without(r) = [n \in 1 .. Cardinality(rest) |-> items[nth(n)]]
  BY DEF Without
<1>2. Len(items) \in Nat /\ rest \in SUBSET (1 .. Len(items))
  OBVIOUS
<1>3. /\ Cardinality(rest) \in Nat
      /\ \A k \in rest : pos(k) \in 1 .. Cardinality(rest)
      /\ \A n \in 1 .. Cardinality(rest) : \E k \in rest : pos(k) = n
      /\ \A i, k \in rest : pos(i) = pos(k) => i = k
  BY <1>2, RankFacts
<1> HIDE DEF pos
<1>4. \A n \in 1 .. Cardinality(rest) : nth(n) \in rest /\ pos(nth(n)) = n
  BY <1>3
<1>5. \A k \in rest : nth(pos(k)) = k
  BY <1>3, <1>4
<1> HIDE DEF nth
<1>6. \A k \in rest : k \in DOMAIN items /\ items[k] \in Run /\ items[k] # r
  BY <1>2
<1>7. Without(r) \in Seq(Run)
  BY <1>1, <1>3, <1>4, <1>6
<1>8. DOMAIN Without(r) = 1 .. Cardinality(rest)
  BY <1>1
<1>9. ASSUME NEW x \in ToSet(Without(r)) PROVE x \in ToSet(items) /\ x # r
  <2>1. PICK n \in DOMAIN Without(r) : x = Without(r)[n]
    BY <1>9 DEF ToSet
  <2>2. x = items[nth(n)] /\ nth(n) \in rest
    BY <1>1, <1>4, <1>8, <2>1
  <2> QED
    BY <1>6, <2>2 DEF ToSet
<1>10. ASSUME NEW x \in ToSet(items), x # r PROVE x \in ToSet(Without(r))
  <2>1. PICK k \in DOMAIN items : x = items[k]
    BY DEF ToSet
  <2>2. k \in rest
    BY <1>10, <2>1
  <2>3. pos(k) \in DOMAIN Without(r) /\ Without(r)[pos(k)] = x
    BY <1>1, <1>3, <1>5, <1>8, <2>1, <2>2
  <2> QED
    BY <2>3 DEF ToSet
<1> QED
  BY <1>7, <1>9, <1>10

\* The latest attempt of a run is the newest one that has a visible status.
LEMMA LatestFacts ==
  ASSUME NEW h \in [Run -> Seq(AttemptStatus)], NEW r \in Run
  PROVE  /\ LatestOf(h, r) \in 0 .. Len(h[r])
         /\ LatestOf(h, r) # 0 => h[r][LatestOf(h, r)] \in Written
         /\ \A k \in 1 .. Len(h[r]) : h[r][k] \in Written => k <= LatestOf(h, r)
         /\ LatestOf(h, r) = 0 => StatusOf(h, r) = "none"
         /\ LatestOf(h, r) # 0 => StatusOf(h, r) = h[r][LatestOf(h, r)]
<1> DEFINE S == {0} \cup {k \in DOMAIN h[r] : h[r][k] \in Written}
<1>1. Len(h[r]) \in Nat /\ DOMAIN h[r] = 1 .. Len(h[r])
  OBVIOUS
<1>2. S \in SUBSET (0 .. Len(h[r])) /\ S # {}
  BY <1>1
<1>3. Max(S) \in S /\ \A y \in S : y <= Max(S)
  BY <1>1, <1>2, MaxFacts
<1>4. LatestOf(h, r) = Max(S)
  BY DEF LatestOf
<1>5. \A k \in S : k \in 0 .. Len(h[r]) /\ (k # 0 => h[r][k] \in Written)
  BY <1>1
<1>6. \A k \in 1 .. Len(h[r]) : h[r][k] \in Written => k \in S
  BY <1>1
<1> HIDE DEF S
<1>7. LatestOf(h, r) \in S /\ \A y \in S : y <= LatestOf(h, r)
  BY <1>3, <1>4
<1> QED
  BY <1>5, <1>6, <1>7 DEF StatusOf

\* ... and only that one is.
LEMMA LatestIs ==
  ASSUME NEW h \in [Run -> Seq(AttemptStatus)], NEW r \in Run,
         NEW k \in 0 .. Len(h[r]), k # 0 => h[r][k] \in Written,
         \A j \in 1 .. Len(h[r]) : h[r][j] \in Written => j <= k
  PROVE  LatestOf(h, r) = k
<1>1. Len(h[r]) \in Nat
  OBVIOUS
<1> QED
  BY <1>1, LatestFacts

\* What the queries return does not depend on the other runs.
LEMMA LatestLocal ==
  ASSUME NEW h, NEW g, NEW r, h[r] = g[r]
  PROVE  LatestOf(h, r) = LatestOf(g, r) /\ StatusOf(h, r) = StatusOf(g, r)
BY DEF LatestOf, StatusOf

\* Writing the status of one attempt leaves the others alone.
LEMMA SetFacts ==
  ASSUME NEW h \in [Run -> Seq(AttemptStatus)], NEW r \in Run,
         NEW k \in 1 .. Len(h[r]), NEW s \in AttemptStatus,
         NEW g, g = [h EXCEPT ![r][k] = s]
  PROVE  /\ g \in [Run -> Seq(AttemptStatus)]
         /\ \A q \in Run : Len(g[q]) = Len(h[q])
         /\ g[r][k] = s
         /\ \A j \in 1 .. Len(h[r]) : j # k => g[r][j] = h[r][j]
         /\ \A q \in Run : q # r => g[q] = h[q]
<1>1. Len(h[r]) \in Nat /\ h[r] \in Seq(AttemptStatus)
  OBVIOUS
<1>2. g[r] = [h[r] EXCEPT ![k] = s] /\ \A q \in Run : q # r => g[q] = h[q]
  OBVIOUS
<1>3. g[r] \in Seq(AttemptStatus) /\ Len(g[r]) = Len(h[r]) /\ g[r][k] = s
  BY <1>1, <1>2
<1>4. \A j \in 1 .. Len(h[r]) : j # k => g[r][j] = h[r][j]
  BY <1>1, <1>2
<1>5. g \in [Run -> Seq(AttemptStatus)]
  BY <1>2, <1>3
<1> QED
  BY <1>2, <1>3, <1>4, <1>5

\* A status that is written is the run's when its attempt is not older than the
\* latest one.
LEMMA SetLatest ==
  ASSUME NEW h \in [Run -> Seq(AttemptStatus)], NEW g \in [Run -> Seq(AttemptStatus)],
         NEW r \in Run, NEW k \in 1 .. Len(h[r]),
         Len(g[r]) = Len(h[r]), g[r][k] \in Written,
         \A j \in 1 .. Len(h[r]) : j # k => g[r][j] = h[r][j]
  PROVE  IF k >= LatestOf(h, r)
         THEN LatestOf(g, r) = k /\ StatusOf(g, r) = g[r][k]
         ELSE LatestOf(g, r) = LatestOf(h, r) /\ StatusOf(g, r) = StatusOf(h, r)
<1> DEFINE l == LatestOf(h, r)
<1>1. /\ l \in 0 .. Len(h[r]) /\ (l # 0 => h[r][l] \in Written)
      /\ \A j \in 1 .. Len(h[r]) : h[r][j] \in Written => j <= l
  BY LatestFacts
<1>2. Len(h[r]) \in Nat
  OBVIOUS
<1> HIDE DEF l
<1>3. ASSUME k >= l PROVE LatestOf(g, r) = k /\ StatusOf(g, r) = g[r][k]
  <2>1. \A j \in 1 .. Len(g[r]) : g[r][j] \in Written => j <= k
    BY <1>1, <1>2, <1>3
  <2>2. k \in 0 .. Len(g[r]) /\ k # 0
    BY <1>2
  <2>3. LatestOf(g, r) = k
    BY <2>1, <2>2, LatestIs
  <2> QED
    BY <2>2, <2>3 DEF StatusOf
<1>4. ASSUME ~(k >= l) PROVE LatestOf(g, r) = l /\ StatusOf(g, r) = StatusOf(h, r)
  <2>1. l \in 0 .. Len(g[r]) /\ l # 0 /\ l # k /\ l \in 1 .. Len(h[r])
    BY <1>1, <1>2, <1>4
  <2>2. g[r][l] = h[r][l] /\ g[r][l] \in Written
    BY <1>1, <2>1
  <2>3. \A j \in 1 .. Len(g[r]) : g[r][j] \in Written => j <= l
    BY <1>1, <1>2, <1>4
  <2>4. LatestOf(g, r) = l
    BY <2>1, <2>2, <2>3, LatestIs
  <2> QED
    BY <2>1, <2>2, <2>4 DEF StatusOf, l
<1> QED
  BY <1>3, <1>4 DEF l

\* Creating an attempt.
LEMMA AppendFacts ==
  ASSUME NEW h \in [Run -> Seq(AttemptStatus)], NEW r \in Run,
         NEW s \in AttemptStatus, NEW g, g = [h EXCEPT ![r] = Append(@, s)]
  PROVE  /\ g \in [Run -> Seq(AttemptStatus)]
         /\ Len(g[r]) = Len(h[r]) + 1
         /\ g[r][Len(h[r]) + 1] = s
         /\ \A j \in 1 .. Len(h[r]) : g[r][j] = h[r][j]
         /\ \A q \in Run : q # r => g[q] = h[q]
<1>1. Len(h[r]) \in Nat /\ h[r] \in Seq(AttemptStatus)
  OBVIOUS
<1>2. g[r] = Append(h[r], s) /\ \A q \in Run : q # r => g[q] = h[q]
  OBVIOUS
<1>3. /\ g[r] \in Seq(AttemptStatus) /\ Len(g[r]) = Len(h[r]) + 1
      /\ g[r][Len(h[r]) + 1] = s /\ \A j \in 1 .. Len(h[r]) : g[r][j] = h[r][j]
  BY <1>1, <1>2
<1>4. g \in [Run -> Seq(AttemptStatus)]
  BY <1>2, <1>3
<1> QED
  BY <1>2, <1>3, <1>4

\* A new attempt counts as soon as it has a status.
LEMMA AppendLatest ==
  ASSUME NEW h \in [Run -> Seq(AttemptStatus)], NEW g \in [Run -> Seq(AttemptStatus)],
         NEW r \in Run, Len(g[r]) = Len(h[r]) + 1,
         \A j \in 1 .. Len(h[r]) : g[r][j] = h[r][j]
  PROVE  IF g[r][Len(h[r]) + 1] \in Written
         THEN StatusOf(g, r) = g[r][Len(h[r]) + 1]
         ELSE LatestOf(g, r) = LatestOf(h, r) /\ StatusOf(g, r) = StatusOf(h, r)
<1> DEFINE s == g[r][Len(h[r]) + 1]
<1>1. Len(h[r]) \in Nat
  OBVIOUS
<1>2. ASSUME s \in Written PROVE StatusOf(g, r) = s
  <2>1. Len(h[r]) + 1 \in 0 .. Len(g[r]) /\ Len(h[r]) + 1 # 0
        /\ \A j \in 1 .. Len(g[r]) : j <= Len(h[r]) + 1
    BY <1>1
  <2>2. LatestOf(g, r) = Len(h[r]) + 1
    BY <1>2, <2>1, LatestIs
  <2> QED
    BY <2>1, <2>2 DEF StatusOf
<1>3. ASSUME s \notin Written
      PROVE  LatestOf(g, r) = LatestOf(h, r) /\ StatusOf(g, r) = StatusOf(h, r)
  <2> DEFINE l == LatestOf(h, r)
  <2>1. l \in 0 .. Len(h[r]) /\ (l # 0 => h[r][l] \in Written)
        /\ \A j \in 1 .. Len(h[r]) : h[r][j] \in Written => j <= l
    BY LatestFacts
  <2> HIDE DEF l
  <2>2. l \in 0 .. Len(g[r]) /\ (l # 0 => g[r][l] \in Written)
    BY <1>1, <2>1
  <2>3. \A j \in 1 .. Len(g[r]) : g[r][j] \in Written => j <= l
    BY <1>1, <1>3, <2>1
  <2>4. LatestOf(g, r) = l
    BY <2>2, <2>3, LatestIs
  <2>5. l # 0 => g[r][l] = h[r][l]
    BY <1>1, <2>1
  <2> QED
    BY <2>4, <2>5 DEF StatusOf, l
<1> QED
  BY <1>2, <1>3

\* All but the last of a run's attempts.
LEMMA FrontSeq ==
  ASSUME NEW s \in Seq(AttemptStatus), Len(s) > 0
  PROVE  /\ Front(s) \in Seq(AttemptStatus) /\ Len(Front(s)) = Len(s) - 1
         /\ \A j \in 1 .. Len(s) - 1 : Front(s)[j] = s[j]
<1> DEFINE n == Len(s) - 1
<1>1. n \in Int /\ n >= 0 /\ \A i \in 1 .. n : s[i] \in AttemptStatus
  OBVIOUS
<1>2. /\ SubSeq(s, 1, n) \in Seq(AttemptStatus)
      /\ Len(SubSeq(s, 1, n)) = IF 1 <= n THEN n - 1 + 1 ELSE 0
      /\ \A i \in 1 .. n - 1 + 1 : SubSeq(s, 1, n)[i] = s[1 + i - 1]
  BY <1>1, SubSeqProperties
<1>3. Front(s) = SubSeq(s, 1, n)
  BY DEF Front
<1>4. Len(Front(s)) = n /\ Front(s) \in Seq(AttemptStatus)
  <2> HIDE DEF n
  <2>1. (IF 1 <= n THEN n - 1 + 1 ELSE 0) = n
    BY <1>1
  <2> QED
    BY <1>2, <1>3, <2>1
<1>5. ASSUME NEW j \in 1 .. n PROVE Front(s)[j] = s[j]
  <2>1. j \in 1 .. n - 1 + 1 /\ 1 + j - 1 = j
    BY <1>1
  <2> QED
    BY <1>2, <1>3, <2>1
<1> QED
  BY <1>4, <1>5

\* Forgetting the last attempt, which has no status, changes nobody's answer.
LEMMA FrontLatest ==
  ASSUME NEW h \in [Run -> Seq(AttemptStatus)], NEW g \in [Run -> Seq(AttemptStatus)],
         NEW r \in Run, Len(h[r]) > 0, Last(h[r]) = "empty", g[r] = Front(h[r])
  PROVE  LatestOf(g, r) = LatestOf(h, r) /\ StatusOf(g, r) = StatusOf(h, r)
<1>1. Len(h[r]) \in Nat /\ h[r] \in Seq(AttemptStatus)
  OBVIOUS
<1>2. Len(g[r]) = Len(h[r]) - 1 /\ \A j \in 1 .. Len(h[r]) - 1 : g[r][j] = h[r][j]
  BY <1>1, FrontSeq
<1> DEFINE l == LatestOf(h, r)
<1>3. l \in 0 .. Len(h[r]) /\ (l # 0 => h[r][l] \in Written)
      /\ \A j \in 1 .. Len(h[r]) : h[r][j] \in Written => j <= l
  BY LatestFacts
<1> HIDE DEF l
<1>4. h[r][Len(h[r])] = "empty" /\ "empty" \notin Written
  BY <1>1 DEF Last, Written
<1>5. l \in 0 .. Len(g[r]) /\ (l # 0 => g[r][l] = h[r][l])
  BY <1>1, <1>2, <1>3, <1>4
<1>6. LatestOf(g, r) = l
  <2>1. \A j \in 1 .. Len(g[r]) : g[r][j] \in Written => j <= l
    BY <1>1, <1>2, <1>3
  <2>2. l # 0 => g[r][l] \in Written
    BY <1>3, <1>5
  <2> QED
    BY <1>5, <2>1, <2>2, LatestIs
<1> QED
  BY <1>5, <1>6 DEF StatusOf, l

\* CompareAndSwapLatestAttemptStatus writes the latest attempt or nothing.
LEMMA SwapFacts ==
  ASSUME hist \in [Run -> Seq(AttemptStatus)], NEW r \in Run, NEW att,
         NEW from \in Written, NEW to \in Written, Swap(r, att, from, to)
  PROVE  /\ hist' \in [Run -> Seq(AttemptStatus)]
         /\ \A q \in Run : Len(hist'[q]) = Len(hist[q])
         /\ \A q \in Run : q # r => hist'[q] = hist[q]
         /\ Swaps(r, att, from)
              => /\ att \in 1 .. Len(hist[r]) /\ att = LatestOf(hist, r)
                 /\ LatestOf(hist', r) = att /\ StatusOf(hist', r) = to
         /\ ~Swaps(r, att, from) => hist' = hist
<1>1. CASE ~Swaps(r, att, from)
  BY <1>1 DEF Swap
<1>2. CASE Swaps(r, att, from)
  <2>1. LatestOf(hist, r) = att /\ StatusOf(hist, r) = from /\ from # "none"
    BY <1>2 DEF Swaps, Latest, Status, Written
  <2>2. att \in 1 .. Len(hist[r])
    BY <2>1, LatestFacts
  <2>3. hist' = [hist EXCEPT ![r][att] = to] /\ to \in AttemptStatus
    BY <1>2 DEF Swap, AttemptStatus
  <2>4. att >= LatestOf(hist, r)
    BY <2>1, <2>2
  <2>5. /\ hist' \in [Run -> Seq(AttemptStatus)]
        /\ \A q \in Run : Len(hist'[q]) = Len(hist[q])
        /\ \A q \in Run : q # r => hist'[q] = hist[q]
        /\ LatestOf(hist', r) = att /\ StatusOf(hist', r) = to
    <3>1. to \in AttemptStatus
      BY <2>3
    <3>2. /\ hist' \in [Run -> Seq(AttemptStatus)]
          /\ \A q \in Run : Len(hist'[q]) = Len(hist[q])
          /\ \A q \in Run : q # r => hist'[q] = hist[q]
          /\ hist'[r][att] = to
          /\ \A j \in 1 .. Len(hist[r]) : j # att => hist'[r][j] = hist[r][j]
      BY <2>2, <2>3, <3>1, SetFacts
    <3>3. LatestOf(hist', r) = att /\ StatusOf(hist', r) = to
      BY <2>2, <2>4, <3>2, SetLatest
    <3> QED
      BY <3>2, <3>3
  <2> QED
    BY <1>2, <2>1, <2>2, <2>5
<1> QED
  BY <1>1, <1>2

\* AbortQueuedDAGRun changes statuses of the run's attempts alone.
LEMMA AbortFacts ==
  ASSUME hist \in [Run -> Seq(AttemptStatus)], NEW r \in Run, Status(r) = "queued"
  PROVE  /\ Aborted(r) \in [Run -> Seq(AttemptStatus)]
         /\ \A q \in Run : Len(Aborted(r)[q]) = Len(hist[q])
         /\ \A q \in Run : q # r => Aborted(r)[q] = hist[q]
<1> DEFINE hidden == [hist EXCEPT ![r][Latest(r)] = "gone"]
           none == [hist EXCEPT ![r] = [k \in DOMAIN @ |-> "gone"]]
<1>1. Latest(r) \in 1 .. Len(hist[r])
  BY LatestFacts DEF Latest, Status
<1>2. "gone" \in AttemptStatus
  BY DEF AttemptStatus
<1>3. /\ hidden \in [Run -> Seq(AttemptStatus)]
      /\ \A q \in Run : Len(hidden[q]) = Len(hist[q])
      /\ \A q \in Run : q # r => hidden[q] = hist[q]
  BY <1>1, <1>2, SetFacts
<1>4. /\ none \in [Run -> Seq(AttemptStatus)]
      /\ \A q \in Run : Len(none[q]) = Len(hist[q])
      /\ \A q \in Run : q # r => none[q] = hist[q]
  <2>1. hist[r] \in Seq(AttemptStatus) /\ DOMAIN hist[r] = 1 .. Len(hist[r])
        /\ Len(hist[r]) \in Nat
    OBVIOUS
  <2>2. none[r] = [k \in 1 .. Len(hist[r]) |-> "gone"]
    BY <2>1
  <2>3. none[r] \in Seq(AttemptStatus) /\ Len(none[r]) = Len(hist[r])
    BY <1>2, <2>1, <2>2
  <2>4. \A q \in Run : q # r => none[q] = hist[q]
    OBVIOUS
  <2>5. none \in [Run -> Seq(AttemptStatus)]
    <3>1. DOMAIN none = Run /\ none = [q \in Run |-> none[q]]
      OBVIOUS
    <3> HIDE DEF none
    <3> QED
      BY <2>3, <2>4, <3>1
  <2> HIDE DEF none
  <2> QED
    BY <2>3, <2>4, <2>5
<1>5. Aborted(r) = IF StatusOf(hidden, r) = "none" THEN none ELSE hidden
  BY DEF Aborted
<1> HIDE DEF hidden, none
<1> QED
  BY <1>3, <1>4, <1>5

-----------------------------------------------------------------------------
(* What a step does to the processes.                                      *)

\* A record of a process.
ProcRecord == [run : Run \cup {NoRun}, att : Nat,
               pc : {"free", "launched", "locked", "acquired",
                     "starting", "running", "ended", "dead"},
               beat : {"none", "fresh", "stale"},
               flag : {"seen", "unseen", "held"}]

\* No process at all.
LEMMA NoProcFacts ==
  /\ NoProc \in ProcRecord
  /\ NoProc.run = NoRun /\ NoProc.pc = "free" /\ NoProc.att = 0
  /\ NoProc.beat = "none" /\ NoProc.flag = "seen"
  /\ NoRun \notin Run
BY DEF NoProc, ProcRecord, NoRun, Run

\* A process exits: its heartbeat file goes with it.
LEMMA ExitFacts ==
  ASSUME proc \in [Proc -> ProcRecord], NEW p \in Proc, Exit(p)
  PROVE  /\ proc' \in [Proc -> ProcRecord]
         /\ proc'[p] = NoProc
         /\ \A q \in Proc : q # p => proc'[q] = proc[q]
<1>1. proc' = [proc EXCEPT ![p] = NoProc]
  BY DEF Exit
<1> QED
  BY <1>1, NoProcFacts

\* A process goes on and nothing else of it changes.
LEMMA PToFacts ==
  ASSUME proc \in [Proc -> ProcRecord], NEW p \in Proc,
         NEW c \in {"locked", "starting", "running", "ended", "dead"}, PTo(p, c)
  PROVE  /\ proc' \in [Proc -> ProcRecord]
         /\ proc'[p].pc = c /\ proc'[p].run = proc[p].run
         /\ proc'[p].att = proc[p].att /\ proc'[p].beat = proc[p].beat
         /\ proc'[p].flag = proc[p].flag
         /\ \A q \in Proc : q # p => proc'[q] = proc[q]
BY DEF PTo, ProcRecord

\* Forgetting changes what the processor sees of a starting process.
LEMMA ForgetFacts ==
  ASSUME proc \in [Proc -> ProcRecord], NEW ps, proc' = Forget(ps)
  PROVE  /\ proc' \in [Proc -> ProcRecord]
         /\ \A q \in Proc : /\ proc'[q].pc = proc[q].pc /\ proc'[q].run = proc[q].run
                            /\ proc'[q].att = proc[q].att /\ proc'[q].beat = proc[q].beat
                            /\ ~(q \in ps /\ Starting(q)) => proc'[q] = proc[q]
                            /\ q \in ps /\ Starting(q) => proc'[q].flag = "unseen"
<1>1. ASSUME NEW q \in Proc
      PROVE  /\ proc'[q] \in ProcRecord
             /\ proc'[q].pc = proc[q].pc /\ proc'[q].run = proc[q].run
             /\ proc'[q].att = proc[q].att /\ proc'[q].beat = proc[q].beat
             /\ ~(q \in ps /\ Starting(q)) => proc'[q] = proc[q]
             /\ q \in ps /\ Starting(q) => proc'[q].flag = "unseen"
  <2>1. proc'[q] = IF q \in ps /\ Starting(q)
                   THEN [proc[q] EXCEPT !.flag = "unseen"] ELSE proc[q]
    BY DEF Forget
  <2>2. proc[q] \in ProcRecord
    OBVIOUS
  <2> QED
    BY <2>1, <2>2 DEF ProcRecord
<1>2. proc' = [q \in Proc |-> proc'[q]]
  BY DEF Forget
<1> QED
  BY <1>1, <1>2

\* The processor starts a process.
LEMMA LaunchFacts ==
  ASSUME proc \in [Proc -> ProcRecord], NEW p \in Proc, NEW r \in Run,
         proc' = [proc EXCEPT ![p] = [NoProc EXCEPT !.run = r, !.pc = "launched"]]
  PROVE  /\ proc' \in [Proc -> ProcRecord]
         /\ proc'[p].pc = "launched" /\ proc'[p].run = r /\ proc'[p].att = 0
         /\ proc'[p].beat = "none" /\ proc'[p].flag = "seen"
         /\ \A q \in Proc : q # p => proc'[q] = proc[q]
BY DEF NoProc, ProcRecord

\* A process attaches to a new attempt.
LEMMA AttachFacts ==
  ASSUME proc \in [Proc -> ProcRecord], NEW p \in Proc, NEW n \in Nat,
         proc' = [proc EXCEPT ![p].pc = "acquired", ![p].beat = "fresh", ![p].att = n]
  PROVE  /\ proc' \in [Proc -> ProcRecord]
         /\ proc'[p].pc = "acquired" /\ proc'[p].run = proc[p].run /\ proc'[p].att = n
         /\ proc'[p].beat = "fresh" /\ proc'[p].flag = proc[p].flag
         /\ \A q \in Proc : q # p => proc'[q] = proc[q]
BY ZenonT(60) DEF ProcRecord

\* The heartbeat of a process changes.
LEMMA BeatFacts ==
  ASSUME proc \in [Proc -> ProcRecord], NEW p \in Proc,
         Expire(p) \/ Stall(p) \/ Beat(p)
  PROVE  /\ proc' \in [Proc -> ProcRecord]
         /\ proc'[p].pc = proc[p].pc /\ proc'[p].run = proc[p].run
         /\ proc'[p].att = proc[p].att
         /\ proc'[p].beat = IF Beat(p) THEN "fresh" ELSE "stale"
         /\ proc'[p].flag = IF Stall(p) THEN "held" ELSE proc[p].flag
         /\ \A q \in Proc : q # p => proc'[q] = proc[q]
<1>1. CASE Expire(p)
  BY <1>1 DEF Expire, Stall, Beat, ProcRecord
<1>2. CASE Stall(p)
  BY ZenonT(60), <1>2 DEF Expire, Stall, Beat, ProcRecord
<1>3. CASE Beat(p)
  BY <1>3 DEF Expire, Stall, Beat, ProcRecord
<1> QED
  BY <1>1, <1>2, <1>3

\* The detector removes a file, and with it what is left of a dead process.
LEMMA RemoveFacts ==
  ASSUME proc \in [Proc -> ProcRecord], ZRemove
  PROVE  /\ proc' \in [Proc -> ProcRecord]
         /\ \A q \in Proc :
              \/ proc'[q] = proc[q]
              \/ proc[q].pc = "dead" /\ proc'[q] = NoProc
              \/ /\ proc[q].pc # "dead" /\ proc[q].beat = "stale"
                 /\ proc'[q].pc = proc[q].pc /\ proc'[q].run = proc[q].run
                 /\ proc'[q].att = proc[q].att /\ proc'[q].flag = proc[q].flag
                 /\ proc'[q].beat = "none"
<1>1. ASSUME NEW q \in Proc
      PROVE  /\ proc'[q] \in ProcRecord
             /\ \/ proc'[q] = proc[q]
                \/ proc[q].pc = "dead" /\ proc'[q] = NoProc
                \/ /\ proc[q].pc # "dead" /\ proc[q].beat = "stale"
                   /\ proc'[q].pc = proc[q].pc /\ proc'[q].run = proc[q].run
                   /\ proc'[q].att = proc[q].att /\ proc'[q].flag = proc[q].flag
                   /\ proc'[q].beat = "none"
  <2>1. proc[q] \in ProcRecord
    OBVIOUS
  <2>2. \/ proc'[q] = proc[q]
        \/ proc[q].pc = "dead" /\ proc'[q] = NoProc
        \/ /\ proc[q].pc # "dead" /\ proc[q].beat = "stale"
           /\ proc'[q] = [proc[q] EXCEPT !.beat = "none"]
    BY DEF ZRemove, IsStale
  <2> QED
    BY <2>1, <2>2, NoProcFacts DEF ProcRecord
<1>2. proc' = [q \in Proc |-> proc'[q]]
  BY DEF ZRemove
<1> QED
  BY <1>1, <1>2

-----------------------------------------------------------------------------
(* The actors: what their local knowledge says of the stores.              *)

\* A process that has created its attempt.
Attached(p) == proc[p].pc \in {"acquired", "starting", "running", "ended", "dead"}

\* Who is not idle works on a run, and an automatic retry that has been read is
\* within its run's limit.
ProcRuns == \A p \in Proc : /\ proc[p].pc # "free" => proc[p].run \in Run
                            /\ proc[p].pc = "free" => proc[p] = NoProc
GoRuns == \A i \in Slot : go[i].pc # "idle" => go[i].run \in Run
EntryRun == z.pc # "idle" => z.run \in Run
EnqRuns == /\ \A a \in Enqueuer : enq[a].pc # "idle" => enq[a].run \in Run
           /\ enq["scanner"].pc = "read" => left[enq["scanner"].run] > 0
CmdRun == cmd.pc # "idle" => cmd.run \in Run
RunInv == ProcRuns /\ GoRuns /\ EntryRun /\ EnqRuns /\ CmdRun

\* A process that is attached has an attempt of its own; only such a process
\* has a heartbeat file.
OwnAttempt ==
  \A p \in Proc : IF Attached(p) THEN proc[p].att \in 1 .. Len(hist[proc[p].run])
                  ELSE proc[p].att = 0 /\ proc[p].beat = "none"
AttemptsDiffer ==
  \A p, q \in Proc : /\ p # q /\ Attached(p) /\ Attached(q)
                     /\ proc[p].run = proc[q].run
                     => proc[p].att # proc[q].att

\* A stale heartbeat belongs to a process that is dead or was held up, and the
\* processor never lost sight of one that is watched.
BeatInv ==
  \A p \in Proc :
    /\ proc[p].beat = "stale" => proc[p].pc = "dead" \/ proc[p].flag = "held"
    /\ proc[p].flag = "held" => proc[p].pc \in {"running", "ended", "dead"}
    /\ Watched(p) => proc[p].beat = "fresh"

\* The entry the detector looks at is an attempt whose process, if it lives, was
\* held up.
EntryInv ==
  z.pc # "idle" =>
    /\ z.att \in 1 .. Len(hist[z.run])
    /\ \A p \in Proc : Live(p) /\ proc[p].run = z.run /\ proc[p].att = z.att
                         => proc[p].flag = "held"

CoreInv == TypeOK /\ RunInv /\ OwnAttempt /\ AttemptsDiffer /\ BeatInv /\ EntryInv

\* A step that creates and forgets no attempt.
SameShape ==
  /\ hist' \in [Run -> Seq(AttemptStatus)]
  /\ \A q \in Run : Len(hist'[q]) = Len(hist[q])

\* Only the creation of an attempt, and a process that leaves without a status,
\* change the number of a run's attempts.
LEMMA ShapeKept ==
  ASSUME CoreInv
  PROVE  /\ hist' = hist => SameShape
         /\ \A i \in Slot : GoDrop(i) => SameShape
         /\ \A p \in Proc : PStart(p) \/ PProgress(p) \/ PFinish(p) => SameShape
         /\ ZWrite => SameShape
         /\ \A a \in Enqueuer : EnqSwap(a) \/ EnqUndo(a) => SameShape
         /\ \A r \in Run : CancelAutoRetry(r) \/ DequeueAbort(r) => SameShape
<1>0. hist \in [Run -> Seq(AttemptStatus)]
  BY DEF CoreInv, TypeOK
<1>0a. {"queued", "running", "done", "failed", "aborted"} = Written
       /\ Written \subseteq AttemptStatus /\ "gone" \in AttemptStatus
  BY DEF Written, AttemptStatus
<1>1. hist' = hist => SameShape
  BY <1>0 DEF SameShape
<1>2. ASSUME NEW i \in Slot, GoDrop(i) PROVE SameShape
  <2>1. go[i].run \in Run
    BY <1>2 DEF CoreInv, RunInv, GoRuns, GoDrop
  <2>2. Swap(go[i].run, go[i].att, "queued", "aborted")
    BY <1>2 DEF GoDrop
  <2> QED
    BY <1>0, <1>0a, <2>1, <2>2, SwapFacts DEF SameShape
<1>3. ASSUME NEW p \in Proc, NEW s \in AttemptStatus,
             proc[p].pc \in {"starting", "running"},
             hist' = [hist EXCEPT ![proc[p].run][proc[p].att] = s]
      PROVE  SameShape
  <2>1. proc[p].run \in Run /\ proc[p].att \in 1 .. Len(hist[proc[p].run])
    BY <1>3 DEF CoreInv, RunInv, ProcRuns, OwnAttempt, Attached
  <2> QED
    BY <1>0, <1>3, <2>1, SetFacts DEF SameShape
<1>4. ASSUME NEW p \in Proc, PStart(p) PROVE SameShape
  BY <1>0a, <1>3, <1>4 DEF PStart
<1>5. ASSUME NEW p \in Proc, NEW s \in Written, proc[p].pc = "running", WriteOpen(p, s)
      PROVE  SameShape
  <2>1. PICK t \in AttemptStatus : hist' = [hist EXCEPT ![proc[p].run][proc[p].att] = t]
    BY <1>0a, <1>5 DEF WriteOpen
  <2> QED
    BY <1>3, <1>5, <2>1
<1>6. ASSUME NEW p \in Proc, PProgress(p) \/ PFinish(p) PROVE SameShape
  BY <1>0a, <1>5, <1>6 DEF PProgress, PFinish
<1>7. ASSUME ZWrite PROVE SameShape
  <2>1. z.run \in Run /\ z.att \in 1 .. Len(hist[z.run])
    BY <1>7 DEF CoreInv, RunInv, EntryRun, EntryInv, ZWrite
  <2>2. hist' = [hist EXCEPT ![z.run][z.att] = "failed"]
    BY <1>7 DEF ZWrite
  <2> QED
    BY <1>0, <1>0a, <2>1, <2>2, SetFacts DEF SameShape
<1>8. ASSUME NEW a \in Enqueuer, EnqSwap(a) \/ EnqUndo(a) PROVE SameShape
  <2>1. enq[a].run \in Run /\ enq[a].from \in Written
    BY <1>8 DEF CoreInv, RunInv, EnqRuns, TypeOK, EnqSwap, EnqUndo
  <2>2. \/ Swap(enq[a].run, enq[a].att, enq[a].from, "queued")
        \/ Swap(enq[a].run, enq[a].att, "queued", enq[a].from)
    BY <1>8 DEF EnqSwap, EnqUndo
  <2> QED
    BY <1>0, <1>0a, <2>1, <2>2, SwapFacts DEF SameShape
<1>9. ASSUME NEW r \in Run, CancelAutoRetry(r) PROVE SameShape
  <2>1. Swap(r, Latest(r), "failed", "aborted")
    BY <1>9 DEF CancelAutoRetry
  <2> QED
    BY <1>0, <1>0a, <2>1, SwapFacts DEF SameShape
<1>10. ASSUME NEW r \in Run, DequeueAbort(r) PROVE SameShape
  <2>1. Status(r) = "queued" /\ hist' = Aborted(r)
    BY <1>10 DEF DequeueAbort
  <2> QED
    BY <1>0, <2>1, AbortFacts DEF SameShape
<1> QED
  BY <1>1, <1>2, <1>4, <1>6, <1>7, <1>8, <1>9, <1>10

-----------------------------------------------------------------------------
(* The ways in which a step changes the processes and their attempts.      *)

Keeps == proc' = proc /\ SameShape
Forgets == \E ps : proc' = Forget(ps) /\ hist' = hist
Launches ==
  \E p \in Proc, r \in Run :
    /\ proc[p] = NoProc /\ hist' = hist
    /\ proc' = [proc EXCEPT ![p] = [NoProc EXCEPT !.run = r, !.pc = "launched"]]
    /\ \E i \in Slot : /\ go[i].pc = "status" /\ go[i].run = r
                       /\ go' = [go EXCEPT ![i].pc = "wait", ![i].proc = {p}]
Exits ==
  \E p \in Proc :
    /\ Exit(p) /\ proc[p].pc # "free"
    /\ \/ hist' = hist
       \/ hist' = [hist EXCEPT ![proc[p].run] = Append(@, "failed")]
       \/ /\ proc[p].pc \in {"acquired", "starting"}
          /\ proc[p].att = Len(hist[proc[p].run]) /\ Last(hist[proc[p].run]) = "empty"
          /\ hist' = [hist EXCEPT ![proc[p].run] = Front(@)]
Attaches ==
  \E p \in Proc :
    /\ proc[p].pc = "locked"
    /\ hist' = [hist EXCEPT ![proc[p].run] = Append(@, "empty")]
    /\ proc' = [proc EXCEPT ![p].pc = "acquired", ![p].beat = "fresh",
                            ![p].att = Len(hist[proc[p].run]) + 1]
Moves ==
  \E p \in Proc, c \in {"locked", "starting", "running", "ended", "dead"} :
    /\ PTo(p, c) /\ SameShape
    /\ \/ proc[p].pc = "launched" /\ c = "locked"
       \/ proc[p].pc = "acquired" /\ c = "starting"
       \/ proc[p].pc = "starting" /\ c = "running"
       \/ proc[p].pc = "running" /\ c = "ended"
       \/ Live(p) /\ proc[p].beat # "none" /\ c = "dead"
Beats == hist' = hist /\ \E p \in Proc : Expire(p) \/ Stall(p) \/ Beat(p)
Removes == hist' = hist /\ ZRemove

ProcChange ==
  \/ Keeps \/ Forgets \/ Launches \/ Exits \/ Attaches \/ Moves \/ Beats \/ Removes

\* Every step changes the processes in one of these ways.
LEMMA ProcChanges ==
  ASSUME CoreInv, [Next]_vars
  PROVE  ProcChange
<1>0. hist' = hist => SameShape
  BY ShapeKept
<1> USE DEF procVars, queueVars, budget, ProcFrame, ZFrame, EnqFrame, CmdFrame, Fault, Hit, Command, vars
<1>1. CASE StartRound
  BY <1>1, <1>0 DEF StartRound, Keeps, ProcChange
<1>2. CASE Restart
  BY <1>2, <1>0 DEF Restart, GiveUp, Forgets, ProcChange
<1>3. ASSUME NEW i \in Slot, GoAlive(i) PROVE ProcChange
  BY <1>3, <1>0 DEF GoAlive, Keeps, ProcChange
<1>4. ASSUME NEW i \in Slot, GoStatus(i) PROVE ProcChange
  <2>1. go[i].run \in Run
    BY <1>4 DEF CoreInv, RunInv, GoRuns, GoStatus
  <2> QED
    BY <1>0, <1>4, <2>1 DEF GoStatus, Keeps, Launches, ProcChange
<1>5. ASSUME NEW i \in Slot, GoDrop(i) PROVE ProcChange
  BY <1>5, ShapeKept DEF GoDrop, Keeps, ProcChange
<1>6. ASSUME NEW i \in Slot, GoPoll(i) PROVE ProcChange
  BY <1>6, <1>0 DEF GoPoll, GiveUp, Forgets, ProcChange
<1>7. ASSUME NEW i \in Slot, GoGiveUp(i) PROVE ProcChange
  BY <1>7, <1>0 DEF GoGiveUp, GiveUp, Forgets, ProcChange
<1>8. ASSUME NEW i \in Slot, GoDequeue(i) PROVE ProcChange
  BY <1>8, <1>0 DEF GoDequeue, Keeps, ProcChange
<1>9. ASSUME NEW p \in Proc, PCheck(p) PROVE ProcChange
  BY <1>9, <1>0 DEF PCheck, Exits, ProcChange
<1>10. ASSUME NEW p \in Proc, PLock(p) PROVE ProcChange
  BY <1>10, <1>0 DEF PLock, Exits, Moves, ProcChange
<1>11. ASSUME NEW p \in Proc, PPrepare(p) PROVE ProcChange
  BY <1>11, <1>0 DEF PPrepare, Exits, Attaches, ProcChange
<1>12. ASSUME NEW p \in Proc, PAlready(p) PROVE ProcChange
  BY <1>12, <1>0 DEF PAlready, Leave, Exits, Moves, ProcChange
<1>13. ASSUME NEW p \in Proc, PStart(p) PROVE ProcChange
  BY <1>13, ShapeKept DEF PStart, Moves, ProcChange
<1>14. ASSUME NEW p \in Proc, PFinish(p) PROVE ProcChange
  BY <1>14, ShapeKept DEF PFinish, Moves, ProcChange
<1>15. ASSUME NEW p \in Proc, PStop(p) PROVE ProcChange
  BY <1>15, <1>0 DEF PStop, Exits, ProcChange
<1>16. ASSUME NEW p \in Proc, PInitFails(p) PROVE ProcChange
  BY <1>16, <1>0 DEF PInitFails, Leave, Exits, ProcChange
<1>17. ASSUME NEW p \in Proc, PProgress(p) PROVE ProcChange
  BY <1>17, ShapeKept DEF PProgress, Keeps, ProcChange
<1>18. ASSUME NEW p \in Proc, PCrash(p) PROVE ProcChange
  BY <1>18, <1>0 DEF PCrash, Live, Exits, Moves, ProcChange
<1>19. ASSUME NEW p \in Proc, Expire(p) PROVE ProcChange
  BY <1>19, <1>0 DEF Expire, Beats, ProcChange
<1>20. ASSUME NEW p \in Proc, Stall(p) PROVE ProcChange
  BY <1>20, <1>0 DEF Stall, Beats, ProcChange
<1>21. ASSUME NEW p \in Proc, Beat(p) PROVE ProcChange
  BY <1>21, <1>0 DEF Beat, Beats, ProcChange
<1>22. ASSUME NEW p \in Proc, ZList(p) PROVE ProcChange
  BY <1>22, <1>0 DEF ZList, Keeps, ProcChange
<1>23. CASE ZFind
  BY <1>23, <1>0 DEF ZFind, Keeps, ProcChange
<1>24. CASE ZRepair
  BY <1>24, <1>0 DEF ZRepair, Keeps, ProcChange
<1>25. CASE ZWrite
  BY <1>25, ShapeKept DEF ZWrite, Keeps, ProcChange
<1>26. CASE ZRemove
  BY <1>26, <1>0 DEF ZRemove, Removes, ProcChange
<1>27. ASSUME NEW a \in Enqueuer, EnqSwap(a) PROVE ProcChange
  BY <1>27, ShapeKept DEF EnqSwap, Keeps, ProcChange
<1>28. ASSUME NEW a \in Enqueuer, EnqAppend(a) PROVE ProcChange
  BY <1>28, <1>0 DEF EnqAppend, Keeps, ProcChange
<1>29. ASSUME NEW a \in Enqueuer, EnqUndo(a) PROVE ProcChange
  BY <1>29, ShapeKept DEF EnqUndo, Keeps, ProcChange
<1>30. CASE UserDies
  BY <1>30, <1>0 DEF UserDies, Keeps, ProcChange
<1>31. ASSUME NEW r \in Run, ScanRetry(r) PROVE ProcChange
  BY <1>31, <1>0 DEF ScanRetry, Keeps, ProcChange
<1>32. ASSUME NEW r \in Run, UserRetry(r) PROVE ProcChange
  BY <1>32, <1>0 DEF UserRetry, Keeps, ProcChange
<1>33. ASSUME NEW r \in Run, CancelAutoRetry(r) PROVE ProcChange
  BY <1>33, ShapeKept DEF CancelAutoRetry, Keeps, ProcChange
<1>34. ASSUME NEW r \in Run, DequeueAbort(r) PROVE ProcChange
  BY <1>34, ShapeKept DEF DequeueAbort, Keeps, ProcChange
<1>35. CASE Suspend
  BY <1>35, <1>0 DEF Suspend, Keeps, ProcChange
<1>36. CASE DequeueItem
  BY <1>36, <1>0 DEF DequeueItem, Keeps, ProcChange
<1>37. CASE UNCHANGED vars
  BY <1>0, <1>37 DEF Keeps, ProcChange
<1> QED
  BY <1>1, <1>2, <1>3, <1>4, <1>5, <1>6, <1>7, <1>8, <1>9, <1>10, <1>11,
     <1>12, <1>13, <1>14, <1>15, <1>16, <1>17, <1>18, <1>19, <1>20, <1>21,
     <1>22, <1>23, <1>24, <1>25, <1>26, <1>27, <1>28, <1>29, <1>30, <1>31,
     <1>32, <1>33, <1>34, <1>35, <1>36, <1>37 DEF Next, GoStep, PStep,
     ZStep, EnqStep

-----------------------------------------------------------------------------
(* The steps preserve what the invariant says of the processes.            *)

\* Who is there works on a run.
LEMMA ProcRunsStep ==
  ASSUME CoreInv, ProcChange
  PROVE  ProcRuns'
<1>0. proc \in [Proc -> ProcRecord] /\ ProcRuns
  BY DEF CoreInv, RunInv, TypeOK, ProcRecord
<1>1. CASE Keeps
  BY <1>0, <1>1 DEF Keeps, ProcRuns
<1>2. CASE Forgets
  <2>1. PICK ps : proc' = Forget(ps)
    BY <1>2 DEF Forgets
  <2> QED
    BY <1>0, <2>1, ForgetFacts DEF ProcRuns, Starting
<1>3. CASE Launches
  <2>1. PICK p \in Proc, r \in Run :
          proc' = [proc EXCEPT ![p] = [NoProc EXCEPT !.run = r, !.pc = "launched"]]
    BY <1>3 DEF Launches
  <2>2. /\ proc'[p].pc = "launched" /\ proc'[p].run = r
        /\ \A q \in Proc : q # p => proc'[q] = proc[q]
    BY <1>0, <2>1, LaunchFacts
  <2> QED
    BY <1>0, <2>2 DEF ProcRuns
<1>4. CASE Exits
  BY <1>0, <1>4, ExitFacts, NoProcFacts DEF Exits, ProcRuns
<1>5. CASE Attaches
  <2>1. PICK p \in Proc :
          /\ proc[p].pc = "locked"
          /\ proc' = [proc EXCEPT ![p].pc = "acquired", ![p].beat = "fresh",
                                  ![p].att = Len(hist[proc[p].run]) + 1]
    BY <1>5 DEF Attaches
  <2>2. proc[p].run \in Run /\ hist \in [Run -> Seq(AttemptStatus)]
    BY <1>0, <2>1 DEF ProcRuns, CoreInv, TypeOK
  <2>3. Len(hist[proc[p].run]) + 1 \in Nat
    BY <2>2
  <2> QED
    BY ZenonT(60), <1>0, <2>1, <2>2, <2>3, AttachFacts DEF ProcRuns
<1>6. CASE Moves
  <2>1. PICK p \in Proc, c \in {"locked", "starting", "running", "ended", "dead"} :
          PTo(p, c) /\ proc[p].pc # "free"
    BY <1>6 DEF Moves, Live
  <2> QED
    BY <1>0, <2>1, PToFacts DEF ProcRuns
<1>7. CASE Beats
  <2>1. PICK p \in Proc : (Expire(p) \/ Stall(p) \/ Beat(p)) /\ proc[p].pc # "free"
    BY <1>7 DEF Beats, Expire, Stall, Beat
  <2> QED
    BY <1>0, <2>1, BeatFacts DEF ProcRuns
<1>8. CASE Removes
  <2>1. ZRemove
    BY <1>8 DEF Removes
  <2> QED
    BY <1>0, <2>1, RemoveFacts, NoProcFacts DEF ProcRuns
<1> QED
  BY <1>1, <1>2, <1>3, <1>4, <1>5, <1>6, <1>7, <1>8 DEF ProcChange

\* Every process keeps its attempt, and attempts are not shared.
LEMMA AttemptStep ==
  ASSUME CoreInv, ProcChange
  PROVE  OwnAttempt' /\ AttemptsDiffer'
<1>0. /\ proc \in [Proc -> ProcRecord] /\ ProcRuns /\ OwnAttempt /\ AttemptsDiffer
      /\ hist \in [Run -> Seq(AttemptStatus)] /\ \A r \in Run : Len(hist[r]) \in Nat
  BY DEF CoreInv, RunInv, TypeOK, ProcRecord
<1> USE DEF Attached
<1>1. CASE Keeps
  BY <1>0, <1>1 DEF Keeps, SameShape, ProcRuns, OwnAttempt, AttemptsDiffer
<1>2. CASE Forgets
  <2>1. PICK ps : proc' = Forget(ps) /\ hist' = hist
    BY <1>2 DEF Forgets
  <2> QED
    BY SMTT(30), <1>0, <2>1, ForgetFacts DEF OwnAttempt, AttemptsDiffer
<1>3. CASE Launches
  <2>1. PICK p \in Proc, r \in Run :
          /\ hist' = hist
          /\ proc' = [proc EXCEPT ![p] = [NoProc EXCEPT !.run = r, !.pc = "launched"]]
    BY <1>3 DEF Launches
  <2>2. /\ proc'[p].pc = "launched" /\ proc'[p].att = 0 /\ proc'[p].beat = "none"
        /\ \A q \in Proc : q # p => proc'[q] = proc[q]
    BY <1>0, <2>1, LaunchFacts
  <2> QED
    BY <1>0, <2>1, <2>2 DEF OwnAttempt, AttemptsDiffer
<1>4. CASE Exits
  <2>1. PICK p \in Proc :
          /\ Exit(p) /\ proc[p].pc # "free"
          /\ \/ hist' = hist
             \/ hist' = [hist EXCEPT ![proc[p].run] = Append(@, "failed")]
             \/ /\ proc[p].pc \in {"acquired", "starting"}
                /\ proc[p].att = Len(hist[proc[p].run]) /\ Last(hist[proc[p].run]) = "empty"
                /\ hist' = [hist EXCEPT ![proc[p].run] = Front(@)]
    BY <1>4 DEF Exits
  <2> DEFINE r == proc[p].run
  <2>2. r \in Run
    BY <1>0, <2>1 DEF ProcRuns
  <2>3. proc'[p] = NoProc /\ \A q \in Proc : q # p => proc'[q] = proc[q]
    BY <1>0, <2>1, ExitFacts
  <2>4. \A q \in Proc : proc[q].pc # "free" => proc[q].run \in Run
    BY <1>0 DEF ProcRuns
  <2>5. CASE hist' = hist
    BY <1>0, <2>3, <2>5, NoProcFacts DEF OwnAttempt, AttemptsDiffer
  <2>6. CASE hist' = [hist EXCEPT ![r] = Append(@, "failed")]
    <3>1. "failed" \in AttemptStatus
      BY DEF AttemptStatus, Written
    <3>2. Len(hist'[r]) = Len(hist[r]) + 1 /\ \A q \in Run : q # r => hist'[q] = hist[q]
      BY <1>0, <2>2, <2>6, <3>1, AppendFacts
    <3> HIDE DEF r
    <3>3. \A q \in Run : Len(hist'[q]) \in Nat /\ Len(hist'[q]) >= Len(hist[q])
      BY <1>0, <2>2, <3>2
    <3>4. OwnAttempt'
      BY <1>0, <2>3, <2>4, <3>3, NoProcFacts DEF OwnAttempt
    <3>5. AttemptsDiffer'
      BY <1>0, <2>3, NoProcFacts DEF AttemptsDiffer
    <3> QED
      BY <3>4, <3>5
  <2>7. CASE /\ proc[p].pc \in {"acquired", "starting"}
             /\ proc[p].att = Len(hist[r]) /\ Last(hist[r]) = "empty"
             /\ hist' = [hist EXCEPT ![r] = Front(@)]
    <3>1. proc[p].att \in 1 .. Len(hist[r]) /\ Len(hist[r]) > 0
      BY <1>0, <2>2, <2>7 DEF OwnAttempt
    <3>2. Len(hist'[r]) = Len(hist[r]) - 1 /\ \A q \in Run : q # r => hist'[q] = hist[q]
      <4>1. hist' = [hist EXCEPT ![r] = Front(@)] /\ Last(hist[r]) = "empty"
        BY <2>7
      <4> HIDE DEF r
      <4> QED
        BY <1>0, <2>2, <3>1, <4>1, FrontSeq
    <3>3. ASSUME NEW q \in Proc, q # p, Attached(q), proc[q].run = r
          PROVE  proc[q].att \in 1 .. Len(hist'[r])
      <4>1. proc[q].att \in 1 .. Len(hist[r]) /\ proc[q].att # Len(hist[r])
        BY <1>0, <2>7, <3>3 DEF OwnAttempt, AttemptsDiffer
      <4> QED
        BY <1>0, <2>2, <3>2, <4>1
    <3>4. OwnAttempt'
      BY SMTT(30), <1>0, <2>3, <2>4, <3>2, <3>3, NoProcFacts DEF OwnAttempt
    <3>5. AttemptsDiffer'
      BY <1>0, <2>3, NoProcFacts DEF AttemptsDiffer
    <3> QED
      BY <3>4, <3>5
  <2> QED
    BY <2>1, <2>5, <2>6, <2>7
<1>5. CASE Attaches
  <2>1. PICK p \in Proc :
          /\ proc[p].pc = "locked"
          /\ hist' = [hist EXCEPT ![proc[p].run] = Append(@, "empty")]
          /\ proc' = [proc EXCEPT ![p].pc = "acquired", ![p].beat = "fresh",
                                  ![p].att = Len(hist[proc[p].run]) + 1]
    BY <1>5 DEF Attaches
  <2> DEFINE r == proc[p].run
  <2>2. r \in Run /\ \A q \in Proc : proc[q].pc # "free" => proc[q].run \in Run
    BY <1>0, <2>1 DEF ProcRuns
  <2>3. Len(hist[r]) + 1 \in Nat /\ "empty" \in AttemptStatus
    BY <1>0, <2>2 DEF AttemptStatus
  <2>4. /\ proc'[p].pc = "acquired" /\ proc'[p].run = r
        /\ proc'[p].att = Len(hist[r]) + 1 /\ proc'[p].beat = "fresh"
        /\ \A q \in Proc : q # p => proc'[q] = proc[q]
    BY <1>0, <2>1, <2>3, AttachFacts
  <2>5. Len(hist'[r]) = Len(hist[r]) + 1 /\ \A q \in Run : q # r => hist'[q] = hist[q]
    BY <1>0, <2>1, <2>2, <2>3, AppendFacts
  <2> HIDE DEF r
  <2>6. OwnAttempt'
    <3>1. \A q \in Run : Len(hist'[q]) \in Nat /\ Len(hist'[q]) >= Len(hist[q])
      BY <1>0, <2>2, <2>5
    <3>2. proc'[p].att \in 1 .. Len(hist'[r])
      BY <1>0, <2>2, <2>4, <2>5
    <3> QED
      BY <1>0, <2>2, <2>4, <3>1, <3>2 DEF OwnAttempt
  <2>7. \A q \in Proc : Attached(q) /\ proc[q].run = r => proc[q].att # Len(hist[r]) + 1
    BY <1>0, <2>2 DEF OwnAttempt
  <2>8. AttemptsDiffer'
    BY <1>0, <2>4, <2>7 DEF AttemptsDiffer
  <2> QED
    BY <2>6, <2>8
<1>6. CASE Moves
  <2>1. PICK p \in Proc, c \in {"locked", "starting", "running", "ended", "dead"} :
          /\ PTo(p, c) /\ SameShape /\ proc[p].pc # "free"
          /\ c = "locked" => proc[p].pc = "launched"
          /\ c # "locked" => Attached(p)
    BY <1>0, <1>6 DEF Moves, Live, OwnAttempt
  <2>2. /\ proc'[p].pc = c /\ proc'[p].run = proc[p].run
        /\ proc'[p].att = proc[p].att /\ proc'[p].beat = proc[p].beat
        /\ \A q \in Proc : q # p => proc'[q] = proc[q]
    BY <1>0, <2>1, PToFacts
  <2>3. \A q \in Run : Len(hist'[q]) = Len(hist[q])
    BY <2>1 DEF SameShape
  <2>4. \A q \in Proc : Attached(q) => proc[q].run \in Run
    BY <1>0 DEF ProcRuns
  <2>5. OwnAttempt'
    BY <1>0, <2>1, <2>2, <2>3, <2>4 DEF OwnAttempt
  <2>6. AttemptsDiffer'
    BY <1>0, <2>1, <2>2 DEF AttemptsDiffer
  <2> QED
    BY <2>5, <2>6
<1>7. CASE Beats
  <2>1. PICK p \in Proc : (Expire(p) \/ Stall(p) \/ Beat(p)) /\ Attached(p)
    BY <1>7 DEF Beats, Expire, Stall, Beat
  <2>2. hist' = hist
    BY <1>7 DEF Beats
  <2> QED
    <3>1. /\ proc'[p].pc = proc[p].pc /\ proc'[p].run = proc[p].run
          /\ proc'[p].att = proc[p].att
          /\ \A q \in Proc : q # p => proc'[q] = proc[q]
      BY <1>0, <2>1, BeatFacts
    <3>2. OwnAttempt'
      BY <1>0, <2>1, <2>2, <3>1 DEF OwnAttempt
    <3>3. AttemptsDiffer'
      BY <1>0, <3>1 DEF AttemptsDiffer
    <3> QED
      BY <3>2, <3>3
<1>8. CASE Removes
  <2>1. ZRemove /\ hist' = hist
    BY <1>8 DEF Removes
  <2> QED
    BY <1>0, <2>1, RemoveFacts, NoProcFacts DEF OwnAttempt, AttemptsDiffer
<1> QED
  BY <1>1, <1>2, <1>3, <1>4, <1>5, <1>6, <1>7, <1>8 DEF ProcChange

\* Heartbeats go stale for a reason.
LEMMA BeatStep ==
  ASSUME CoreInv, ProcChange
  PROVE  BeatInv'
<1>0. proc \in [Proc -> ProcRecord] /\ OwnAttempt /\ BeatInv
  BY DEF CoreInv, TypeOK, ProcRecord
<1> USE DEF Attached, Watched, Executing, BeatInv
<1>1. CASE Keeps
  BY <1>0, <1>1 DEF Keeps
<1>2. CASE Forgets
  <2>1. PICK ps : proc' = Forget(ps)
    BY <1>2 DEF Forgets
  <2> QED
    BY <1>0, <2>1, ForgetFacts DEF Starting
<1>3. CASE Launches
  <2>1. PICK p \in Proc, r \in Run :
          proc' = [proc EXCEPT ![p] = [NoProc EXCEPT !.run = r, !.pc = "launched"]]
    BY <1>3 DEF Launches
  <2>2. /\ proc'[p].pc = "launched" /\ proc'[p].beat = "none" /\ proc'[p].flag = "seen"
        /\ \A q \in Proc : q # p => proc'[q] = proc[q]
    BY <1>0, <2>1, LaunchFacts
  <2> QED
    BY <1>0, <2>2
<1>4. CASE Exits
  BY <1>0, <1>4, ExitFacts, NoProcFacts DEF Exits
<1>5. CASE Attaches
  <2>1. PICK p \in Proc, n \in Nat :
          /\ proc[p].pc = "locked"
          /\ proc' = [proc EXCEPT ![p].pc = "acquired", ![p].beat = "fresh", ![p].att = n]
    <3>1. PICK p \in Proc :
          /\ proc[p].pc = "locked"
          /\ proc' = [proc EXCEPT ![p].pc = "acquired", ![p].beat = "fresh",
                                  ![p].att = Len(hist[proc[p].run]) + 1]
      BY <1>5 DEF Attaches
    <3>2. proc[p].run \in Run /\ hist \in [Run -> Seq(AttemptStatus)]
      BY <3>1 DEF ProcRuns, CoreInv, RunInv, TypeOK
    <3>3. Len(hist[proc[p].run]) + 1 \in Nat
      BY <3>2
    <3> QED
      BY <3>1, <3>3
  <2> QED
    <3>1. /\ proc'[p].pc = "acquired" /\ proc'[p].beat = "fresh"
          /\ proc'[p].flag = proc[p].flag
          /\ \A q \in Proc : q # p => proc'[q] = proc[q]
      BY <1>0, <2>1, AttachFacts
    <3> QED
      BY <1>0, <2>1, <3>1
<1>6. CASE Moves
  <2>1. PICK p \in Proc, c \in {"locked", "starting", "running", "ended", "dead"} :
          /\ PTo(p, c)
          /\ \/ proc[p].pc = "launched" /\ c = "locked"
             \/ proc[p].pc = "acquired" /\ c = "starting"
             \/ proc[p].pc = "starting" /\ c = "running"
             \/ proc[p].pc = "running" /\ c = "ended"
             \/ c = "dead"
    BY <1>6 DEF Moves
  <2>2. \A q \in Proc : proc[q].pc = "launched" => proc[q].beat = "none"
    BY <1>0 DEF OwnAttempt
  <2> QED
    BY <1>0, <2>1, <2>2, PToFacts
<1>7. CASE Beats
  <2>1. PICK p \in Proc : Expire(p) \/ Stall(p) \/ Beat(p)
    BY <1>7 DEF Beats
  <2>2. CASE Expire(p) /\ ~Stall(p) /\ ~Beat(p)
    <3>1. proc[p].pc = "dead"
      BY <2>2 DEF Expire
    <3> QED
      BY <1>0, <2>2, <3>1, BeatFacts
  <2>3. CASE Stall(p) /\ ~Beat(p)
    <3>1. proc[p].pc = "running"
      BY <2>3 DEF Stall
    <3> QED
      BY <1>0, <2>3, <3>1, BeatFacts
  <2>4. CASE Beat(p)
    <3>1. ~Stall(p)
      BY <2>4 DEF Stall, Beat
    <3> QED
      BY <1>0, <2>4, <3>1, BeatFacts
  <2> QED
    BY <2>1, <2>2, <2>3, <2>4
<1>8. CASE Removes
  <2>1. ZRemove
    BY <1>8 DEF Removes
  <2> QED
    BY <1>0, <2>1, RemoveFacts, NoProcFacts
<1> QED
  BY <1>1, <1>2, <1>3, <1>4, <1>5, <1>6, <1>7, <1>8 DEF ProcChange

-----------------------------------------------------------------------------
(* Who writes what.                                                        *)

Writers ==
  /\ go' = go \/ StartRound \/ Restart \/ \E i \in Slot : GoStep(i)
  /\ z' = z \/ Restart \/ ZStep \/ \E p \in Proc : ZList(p)
  /\ \/ enq' = enq /\ left' = left
     \/ Restart \/ UserDies
     \/ \E a \in Enqueuer : EnqStep(a)
     \/ \E r \in Run : ScanRetry(r) \/ UserRetry(r)
  /\ cmd' = cmd \/ DequeueItem \/ \E r \in Run : DequeueAbort(r)
  /\ \/ items' = items \/ DequeueItem
     \/ \E i \in Slot : GoDequeue(i)
     \/ \E a \in Enqueuer : EnqAppend(a)
  /\ \/ lock' = lock \/ DequeueItem
     \/ \E p \in Proc : PLock(p) \/ PPrepare(p) \/ PCrash(p)
     \/ \E r \in Run : DequeueAbort(r)

\* A step changes these variables only where the model names a writer.
LEMMA WritersAre ==
  ASSUME [Next]_vars
  PROVE  Writers
<1> USE DEF procVars, queueVars, budget, ProcFrame, ZFrame, EnqFrame, CmdFrame, Fault, Hit, Command, vars
<1>1. CASE StartRound
  BY <1>1 DEF StartRound, Writers
<1>2. CASE Restart
  BY <1>2 DEF Restart, Writers
<1>3. ASSUME NEW i \in Slot, GoAlive(i) PROVE Writers
  BY <1>3 DEF GoAlive, Writers, GoStep
<1>4. ASSUME NEW i \in Slot, GoStatus(i) PROVE Writers
  BY <1>4 DEF GoStatus, Writers, GoStep
<1>5. ASSUME NEW i \in Slot, GoDrop(i) PROVE Writers
  BY <1>5 DEF GoDrop, Writers, GoStep
<1>6. ASSUME NEW i \in Slot, GoPoll(i) PROVE Writers
  BY <1>6 DEF GoPoll, Writers, GoStep
<1>7. ASSUME NEW i \in Slot, GoGiveUp(i) PROVE Writers
  BY <1>7 DEF GoGiveUp, Writers, GoStep
<1>8. ASSUME NEW i \in Slot, GoDequeue(i) PROVE Writers
  BY <1>8 DEF GoDequeue, Writers, GoStep
<1>9. ASSUME NEW p \in Proc, PCheck(p) PROVE Writers
  BY <1>9 DEF PCheck, Writers
<1>10. ASSUME NEW p \in Proc, PLock(p) PROVE Writers
  BY <1>10 DEF PLock, Writers
<1>11. ASSUME NEW p \in Proc, PPrepare(p) PROVE Writers
  BY <1>11 DEF PPrepare, Writers
<1>12. ASSUME NEW p \in Proc, PAlready(p) PROVE Writers
  BY <1>12 DEF PAlready, Writers
<1>13. ASSUME NEW p \in Proc, PStart(p) PROVE Writers
  BY <1>13 DEF PStart, Writers
<1>14. ASSUME NEW p \in Proc, PFinish(p) PROVE Writers
  BY <1>14 DEF PFinish, Writers
<1>15. ASSUME NEW p \in Proc, PStop(p) PROVE Writers
  BY <1>15 DEF PStop, Writers
<1>16. ASSUME NEW p \in Proc, PInitFails(p) PROVE Writers
  BY <1>16 DEF PInitFails, Writers
<1>17. ASSUME NEW p \in Proc, PProgress(p) PROVE Writers
  BY <1>17 DEF PProgress, Writers
<1>18. ASSUME NEW p \in Proc, PCrash(p) PROVE Writers
  BY <1>18 DEF PCrash, Writers
<1>19. ASSUME NEW p \in Proc, Expire(p) PROVE Writers
  BY <1>19 DEF Expire, Writers
<1>20. ASSUME NEW p \in Proc, Stall(p) PROVE Writers
  BY <1>20 DEF Stall, Writers
<1>21. ASSUME NEW p \in Proc, Beat(p) PROVE Writers
  BY <1>21 DEF Beat, Writers
<1>22. ASSUME NEW p \in Proc, ZList(p) PROVE Writers
  BY <1>22 DEF ZList, Writers
<1>23. CASE ZFind
  BY <1>23 DEF ZFind, Writers, ZStep
<1>24. CASE ZRepair
  BY <1>24 DEF ZRepair, Writers, ZStep
<1>25. CASE ZWrite
  BY <1>25 DEF ZWrite, Writers, ZStep
<1>26. CASE ZRemove
  BY <1>26 DEF ZRemove, Writers, ZStep
<1>27. ASSUME NEW a \in Enqueuer, EnqSwap(a) PROVE Writers
  BY <1>27 DEF EnqSwap, Writers, EnqStep
<1>28. ASSUME NEW a \in Enqueuer, EnqAppend(a) PROVE Writers
  BY <1>28 DEF EnqAppend, Writers, EnqStep
<1>29. ASSUME NEW a \in Enqueuer, EnqUndo(a) PROVE Writers
  BY <1>29 DEF EnqUndo, Writers, EnqStep
<1>30. CASE UserDies
  BY <1>30 DEF UserDies, Writers
<1>31. ASSUME NEW r \in Run, ScanRetry(r) PROVE Writers
  BY <1>31 DEF ScanRetry, Writers
<1>32. ASSUME NEW r \in Run, UserRetry(r) PROVE Writers
  BY <1>32 DEF UserRetry, Writers
<1>33. ASSUME NEW r \in Run, CancelAutoRetry(r) PROVE Writers
  BY <1>33 DEF CancelAutoRetry, Writers
<1>34. ASSUME NEW r \in Run, DequeueAbort(r) PROVE Writers
  BY <1>34 DEF DequeueAbort, Writers
<1>35. CASE Suspend
  BY <1>35 DEF Suspend, Writers
<1>36. CASE DequeueItem
  BY <1>36 DEF DequeueItem, Writers
<1>37. CASE UNCHANGED vars
  BY <1>37 DEF Writers
<1> QED
  BY <1>1, <1>2, <1>3, <1>4, <1>5, <1>6, <1>7, <1>8, <1>9, <1>10, <1>11,
     <1>12, <1>13, <1>14, <1>15, <1>16, <1>17, <1>18, <1>19, <1>20, <1>21,
     <1>22, <1>23, <1>24, <1>25, <1>26, <1>27, <1>28, <1>29, <1>30, <1>31,
     <1>32, <1>33, <1>34, <1>35, <1>36, <1>37 DEF Next, GoStep, PStep,
     ZStep, EnqStep

-----------------------------------------------------------------------------
(* The processor, the detector and the commands.                           *)

\* A goroutine of the processor.
GoRecord == [run : Run \cup {NoRun}, att : Nat,
             pc : {"idle", "alive", "status", "drop", "wait", "dequeue"},
             proc : SUBSET Proc]

\* A goroutine goes on, or is done with its item.
LEMMA GoFacts ==
  ASSUME go \in [Slot -> GoRecord], GoRuns, NEW i \in Slot, GoStep(i),
         hist \in [Run -> Seq(AttemptStatus)]
  PROVE  /\ go'[i] \in GoRecord
         /\ go' = [j \in Slot |-> IF j = i THEN go'[i] ELSE go[j]]
         /\ go[i].run \in Run
         /\ go'[i].pc # "idle" => go'[i].run = go[i].run
<1>1. go[i] \in GoRecord /\ DOMAIN go = Slot
  OBVIOUS
<1>2. go[i].pc # "idle"
  BY DEF GoStep, GoAlive, GoStatus, GoDrop, GoPoll, GoGiveUp, GoDequeue
<1>3. go[i].run \in Run /\ Latest(go[i].run) \in Nat
  BY <1>2, LatestFacts DEF GoRuns, Latest
<1>4. NoGo \in GoRecord /\ NoGo.pc = "idle"
  BY DEF NoGo, GoRecord, NoRun
<1>5. ASSUME NEW g \in GoRecord, g.pc # "idle" => g.run = go[i].run, go' = [go EXCEPT ![i] = g]
      PROVE  /\ go'[i] \in GoRecord
             /\ go' = [j \in Slot |-> IF j = i THEN go'[i] ELSE go[j]]
             /\ go[i].run \in Run
             /\ go'[i].pc # "idle" => go'[i].run = go[i].run
  <2>1. go'[i] = g
    BY <1>1, <1>5
  <2> QED
    BY <1>1, <1>3, <1>5, <2>1
<1>6. ASSUME NEW c \in {"idle", "alive", "status", "drop", "wait", "dequeue"}
      PROVE  /\ [go[i] EXCEPT !.pc = c] \in GoRecord
             /\ [go[i] EXCEPT !.pc = c].run = go[i].run
  BY <1>1 DEF GoRecord
<1>7. ASSUME NEW c \in {"status", "dequeue"}, GoTo(i, c) PROVE go' = [go EXCEPT ![i] = [go[i] EXCEPT !.pc = c]]
  BY <1>7 DEF GoTo
<1>8. CASE GoAlive(i)
  BY <1>5, <1>6, <1>7, <1>8 DEF GoAlive
<1>9. CASE GoStatus(i)
  <2>1. CASE GoTo(i, "dequeue")
    BY <1>5, <1>6, <1>7, <2>1
  <2>2. CASE go' = [go EXCEPT ![i].pc = "drop", ![i].att = Latest(go[i].run)]
    <3> DEFINE g == [go[i] EXCEPT !.pc = "drop", !.att = Latest(go[i].run)]
    <3>1. g \in GoRecord /\ g.run = go[i].run /\ go' = [go EXCEPT ![i] = g]
      BY <1>1, <1>3, <2>2 DEF GoRecord
    <3> HIDE DEF g
    <3> QED
      BY <1>5, <3>1
  <2>3. ASSUME NEW p \in Proc, go' = [go EXCEPT ![i].pc = "wait", ![i].proc = {p}]
        PROVE  /\ go'[i] \in GoRecord
               /\ go' = [j \in Slot |-> IF j = i THEN go'[i] ELSE go[j]]
               /\ go[i].run \in Run
               /\ go'[i].pc # "idle" => go'[i].run = go[i].run
    <3> DEFINE g == [go[i] EXCEPT !.pc = "wait", !.proc = {p}]
    <3>1. g \in GoRecord /\ g.run = go[i].run /\ go' = [go EXCEPT ![i] = g]
      BY <1>1, <2>3 DEF GoRecord
    <3> HIDE DEF g
    <3> QED
      BY <1>5, <3>1
  <2>4. CASE go' = [go EXCEPT ![i] = NoGo]
    BY <1>4, <1>5, <2>4
  <2> QED
    BY <1>9, <2>1, <2>2, <2>3, <2>4 DEF GoStatus
<1>10. CASE GoDrop(i)
  BY <1>5, <1>6, <1>7, <1>10 DEF GoDrop
<1>11. CASE GoPoll(i)
  <2> DEFINE g == [go[i] EXCEPT !.pc = "dequeue", !.proc = {}]
  <2>1. g \in GoRecord /\ g.run = go[i].run /\ go' = [go EXCEPT ![i] = g]
    BY <1>1, <1>11 DEF GoRecord, GoPoll
  <2> HIDE DEF g
  <2> QED
    BY <1>5, <2>1
<1>12. CASE GoGiveUp(i) \/ GoDequeue(i)
  BY <1>4, <1>5, <1>12 DEF GoGiveUp, GiveUp, GoDequeue
<1> QED
  BY <1>8, <1>9, <1>10, <1>11, <1>12 DEF GoStep

\* The goroutines work on runs.
LEMMA GoRunsStep ==
  ASSUME CoreInv, [Next]_vars
  PROVE  go' \in [Slot -> GoRecord] /\ GoRuns'
<1>0. go \in [Slot -> GoRecord] /\ GoRuns /\ items \in Seq(Run)
      /\ hist \in [Run -> Seq(AttemptStatus)]
  BY DEF CoreInv, RunInv, TypeOK, GoRecord
<1>1. NoGo \in GoRecord /\ NoGo.pc = "idle"
  BY DEF NoGo, GoRecord, NoRun
<1>2. CASE go' = go
  BY <1>0, <1>2 DEF GoRuns
<1>3. CASE StartRound
  <2>1. ASSUME NEW i \in Slot PROVE go'[i] \in GoRecord /\ (go'[i].pc # "idle" => go'[i].run \in Run)
    <3>1. CASE go'[i] = NoGo
      BY <1>1, <3>1
    <3>2. CASE go'[i] # NoGo
      <4>1. go'[i] = [NoGo EXCEPT !.run = items[i], !.pc = "alive"] /\ i <= Len(items)
        BY <1>3, <3>2 DEF StartRound
      <4>2. i \in 1 .. Len(items)
        BY <1>0, <4>1, LocalQueueAssumption DEF Slot
      <4>3. items[i] \in Run
        BY <1>0, <4>2
      <4>4. go'[i] = [run |-> items[i], pc |-> "alive", att |-> 0, proc |-> {}]
        BY <4>1 DEF NoGo
      <4> QED
        BY <4>3, <4>4 DEF GoRecord
    <3> QED
      BY <3>1, <3>2
  <2>2. go' = [i \in Slot |-> go'[i]]
    BY <1>3 DEF StartRound
  <2> QED
    BY <2>1, <2>2 DEF GoRuns
<1>4. CASE Restart
  BY <1>1, <1>4 DEF Restart, GoRuns
<1>5. ASSUME NEW i \in Slot, GoStep(i) PROVE go' \in [Slot -> GoRecord] /\ GoRuns'
  <2>1. /\ go'[i] \in GoRecord
        /\ go' = [j \in Slot |-> IF j = i THEN go'[i] ELSE go[j]]
        /\ go[i].run \in Run
        /\ go'[i].pc # "idle" => go'[i].run = go[i].run
    BY <1>0, <1>5, GoFacts
  <2>2. \A j \in Slot : j # i => go'[j] = go[j]
    BY <2>1
  <2> QED
    BY <1>0, <2>1, <2>2 DEF GoRuns
<1> QED
  BY <1>2, <1>3, <1>4, <1>5, WritersAre DEF Writers

\* The detector works on a run, and what it knows is of its type.
LEMMA EntryRunStep ==
  ASSUME CoreInv, [Next]_vars
  PROVE  /\ EntryRun'
         /\ z' \in [run : Run \cup {NoRun}, att : Nat, proc : SUBSET Proc,
                    pc : {"idle", "find", "repair", "write", "remove"}]
<1>0. /\ EntryRun /\ ProcRuns /\ OwnAttempt /\ proc \in [Proc -> ProcRecord]
      /\ z \in [run : Run \cup {NoRun}, att : Nat, proc : SUBSET Proc,
                pc : {"idle", "find", "repair", "write", "remove"}]
  BY DEF CoreInv, RunInv, TypeOK, ProcRecord
<1>1. CASE z' = z
  BY <1>0, <1>1 DEF EntryRun
<1>2. CASE Restart \/ ZRemove
  BY <1>2 DEF Restart, ZRemove, NoEntry, EntryRun, NoRun
<1>3. CASE ZFind \/ ZWrite
  BY <1>0, <1>3 DEF ZFind, ZWrite, EntryRun
<1>4. CASE ZRepair
  BY <1>0, <1>4 DEF ZRepair, NoEntry, EntryRun, NoRun
<1>5. ASSUME NEW p \in Proc, ZList(p)
      PROVE  /\ EntryRun'
             /\ z' \in [run : Run \cup {NoRun}, att : Nat, proc : SUBSET Proc,
                        pc : {"idle", "find", "repair", "write", "remove"}]
  <2>1. proc[p].beat = "stale"
    BY <1>5 DEF ZList, IsStale
  <2>2. proc[p].run \in Run /\ proc[p].att \in Nat
    BY <1>0, <2>1 DEF ProcRuns, OwnAttempt, Attached, ProcRecord
  <2> QED
    BY <1>5, <2>2 DEF ZList, Entry, EntryRun
<1> QED
  BY <1>1, <1>2, <1>3, <1>4, <1>5, WritersAre DEF Writers, ZStep

\* A dequeue command works on a run.
LEMMA CmdRunStep ==
  ASSUME CoreInv, [Next]_vars
  PROVE  CmdRun' /\ cmd' \in [run : Run \cup {NoRun}, pc : {"idle", "aborted"}]
<1>0. CmdRun /\ cmd \in [run : Run \cup {NoRun}, pc : {"idle", "aborted"}]
  BY DEF CoreInv, RunInv, TypeOK
<1>1. CASE cmd' = cmd
  BY <1>0, <1>1 DEF CmdRun
<1>2. CASE DequeueItem
  BY <1>2 DEF DequeueItem, NoCmd, CmdRun, NoRun
<1>3. ASSUME NEW r \in Run, DequeueAbort(r)
      PROVE  CmdRun' /\ cmd' \in [run : Run \cup {NoRun}, pc : {"idle", "aborted"}]
  BY <1>3 DEF DequeueAbort, CmdRun
<1> QED
  BY <1>1, <1>2, <1>3, WritersAre DEF Writers

\* A call of EnqueueRetry.
EnqRecord == [run : Run \cup {NoRun}, att : Nat,
              pc : {"idle", "read", "swapped", "undo"}, from : Written]

\* A call of EnqueueRetry moves on.
LEMMA EnqToFacts ==
  ASSUME enq \in [Enqueuer -> EnqRecord], NEW a \in Enqueuer,
         NEW c \in {"swapped", "undo"}, enq' = [enq EXCEPT ![a].pc = c]
  PROVE  /\ enq' \in [Enqueuer -> EnqRecord]
         /\ enq'[a].pc = c /\ enq'[a].run = enq[a].run /\ enq'[a].att = enq[a].att
         /\ enq'[a].from = enq[a].from
         /\ \A b \in Enqueuer : b # a => enq'[b] = enq[b]
BY DEF EnqRecord

\* A call of EnqueueRetry ends or is lost.
LEMMA EnqEndFacts ==
  ASSUME enq \in [Enqueuer -> EnqRecord], NEW a \in Enqueuer,
         enq' = [enq EXCEPT ![a] = NoEnq]
  PROVE  /\ enq' \in [Enqueuer -> EnqRecord]
         /\ enq'[a] = NoEnq /\ NoEnq.pc = "idle" /\ NoEnq.from = "failed"
         /\ \A b \in Enqueuer : b # a => enq'[b] = enq[b]
BY DEF EnqRecord, NoEnq, NoRun, Written

\* A call of EnqueueRetry reads the latest attempt.
LEMMA EnqReadFacts ==
  ASSUME enq \in [Enqueuer -> EnqRecord], NEW a \in Enqueuer,
         hist \in [Run -> Seq(AttemptStatus)], NEW r \in Run,
         Status(r) # "none", Read(a, r)
  PROVE  /\ enq' \in [Enqueuer -> EnqRecord]
         /\ enq'[a].pc = "read" /\ enq'[a].run = r /\ enq'[a].from = Status(r)
         /\ \A b \in Enqueuer : b # a => enq'[b] = enq[b]
<1>1. Latest(r) \in Nat /\ Status(r) \in Written
  BY LatestFacts DEF Latest, Status
<1>2. enq' = [enq EXCEPT ![a] = [run |-> r, pc |-> "read", att |-> Latest(r),
                                 from |-> Status(r)]]
  BY DEF Read
<1> QED
  BY <1>1, <1>2 DEF EnqRecord

\* EnqueueRetry works on a run, and never takes a retry beyond the limit.
LEMMA EnqRunsStep ==
  ASSUME CoreInv, [Next]_vars
  PROVE  EnqRuns' /\ enq' \in [Enqueuer -> EnqRecord] /\ left' \in [Run -> Nat]
<1>0. /\ EnqRuns /\ enq \in [Enqueuer -> EnqRecord] /\ left \in [Run -> Nat]
      /\ hist \in [Run -> Seq(AttemptStatus)]
  BY DEF CoreInv, RunInv, TypeOK, EnqRecord
<1>1. {"scanner", "user"} = Enqueuer
  BY DEF Enqueuer
<1>2. CASE enq' = enq /\ left' = left
  BY <1>0, <1>2 DEF EnqRuns
<1>3. CASE Restart \/ UserDies
  <2>1. PICK a \in Enqueuer : enq' = [enq EXCEPT ![a] = NoEnq] /\ left' = left
    BY <1>1, <1>3 DEF Restart, UserDies, EnqFrame
  <2> QED
    BY <1>0, <1>1, <2>1, EnqEndFacts DEF EnqRuns
<1>4. ASSUME NEW r \in Run, ScanRetry(r)
      PROVE  EnqRuns' /\ enq' \in [Enqueuer -> EnqRecord] /\ left' \in [Run -> Nat]
  <2>1. Status(r) # "none" /\ left[r] > 0 /\ Read("scanner", r) /\ left' = left
    BY <1>4 DEF ScanRetry
  <2>2. /\ enq' \in [Enqueuer -> EnqRecord]
        /\ enq'["scanner"].pc = "read" /\ enq'["scanner"].run = r
        /\ \A b \in Enqueuer : b # "scanner" => enq'[b] = enq[b]
    BY <1>0, <1>1, <2>1, EnqReadFacts
  <2> QED
    BY <1>0, <1>1, <2>1, <2>2 DEF EnqRuns
<1>5. ASSUME NEW r \in Run, UserRetry(r)
      PROVE  EnqRuns' /\ enq' \in [Enqueuer -> EnqRecord] /\ left' \in [Run -> Nat]
  <2>1. Status(r) # "none" /\ Read("user", r) /\ left' = left
    BY <1>5 DEF UserRetry
  <2>2. /\ enq' \in [Enqueuer -> EnqRecord]
        /\ enq'["user"].pc = "read" /\ enq'["user"].run = r
        /\ \A b \in Enqueuer : b # "user" => enq'[b] = enq[b]
    BY <1>0, <1>1, <2>1, EnqReadFacts
  <2> QED
    BY <1>0, <1>1, <2>1, <2>2 DEF EnqRuns
<1>6. ASSUME NEW a \in Enqueuer, EnqSwap(a)
      PROVE  EnqRuns' /\ enq' \in [Enqueuer -> EnqRecord] /\ left' \in [Run -> Nat]
  <2>1. enq[a].pc = "read" /\ enq[a].run \in Run
    BY <1>0, <1>6 DEF EnqSwap, EnqRuns
  <2>2. CASE enq' = [enq EXCEPT ![a] = NoEnq] /\ left' = left
    BY <1>0, <1>1, <2>2, EnqEndFacts DEF EnqRuns
  <2>3. CASE /\ enq' = [enq EXCEPT ![a].pc = "swapped"]
             /\ left' = IF a = "scanner" THEN [left EXCEPT ![enq[a].run] = @ - 1] ELSE left
    <3>1. /\ enq' \in [Enqueuer -> EnqRecord]
          /\ enq'[a].pc = "swapped" /\ enq'[a].run = enq[a].run
          /\ \A b \in Enqueuer : b # a => enq'[b] = enq[b]
      BY <1>0, <2>3, EnqToFacts
    <3>2. CASE a = "scanner"
      <4>1. left[enq[a].run] \in Nat /\ left[enq[a].run] > 0
        BY <1>0, <2>1, <3>2 DEF EnqRuns
      <4>2. left' \in [Run -> Nat]
        BY <1>0, <2>1, <2>3, <3>2, <4>1
      <4>3. EnqRuns'
        BY <1>0, <1>1, <2>1, <3>1, <3>2 DEF EnqRuns
      <4> QED
        BY <3>1, <4>2, <4>3
    <3>3. CASE a # "scanner"
      BY <1>0, <1>1, <2>1, <2>3, <3>1, <3>3 DEF EnqRuns
    <3> QED
      BY <3>2, <3>3
  <2> QED
    BY <1>6, <2>2, <2>3 DEF EnqSwap
<1>7. ASSUME NEW a \in Enqueuer, EnqAppend(a)
      PROVE  EnqRuns' /\ enq' \in [Enqueuer -> EnqRecord] /\ left' \in [Run -> Nat]
  <2>1. enq[a].pc = "swapped" /\ enq[a].run \in Run /\ left' = left
    BY <1>0, <1>7 DEF EnqAppend, EnqRuns
  <2>2. CASE enq' = [enq EXCEPT ![a] = NoEnq]
    BY <1>0, <1>1, <2>1, <2>2, EnqEndFacts DEF EnqRuns
  <2>3. CASE enq' = [enq EXCEPT ![a].pc = "undo"]
    BY <1>0, <1>1, <2>1, <2>3, EnqToFacts DEF EnqRuns
  <2> QED
    BY <1>7, <2>2, <2>3 DEF EnqAppend
<1>8. ASSUME NEW a \in Enqueuer, EnqUndo(a)
      PROVE  EnqRuns' /\ enq' \in [Enqueuer -> EnqRecord] /\ left' \in [Run -> Nat]
  <2>1. enq[a].run \in Run /\ enq' = [enq EXCEPT ![a] = NoEnq]
    BY <1>0, <1>8 DEF EnqUndo, EnqRuns
  <2>2. left' = left \/ left' = [left EXCEPT ![enq[a].run] = @ + 1]
    BY <1>8 DEF EnqUndo
  <2>3. left' \in [Run -> Nat] /\ \A r \in Run : left'[r] >= left[r]
    <3>1. CASE left' = left
      BY <1>0, <3>1
    <3>2. CASE left' = [left EXCEPT ![enq[a].run] = @ + 1]
      BY <1>0, <2>1, <3>2
    <3> QED
      BY <2>2, <3>1, <3>2
  <2>4. /\ enq' \in [Enqueuer -> EnqRecord] /\ enq'[a].pc = "idle"
        /\ \A b \in Enqueuer : b # a => enq'[b] = enq[b]
    BY <1>0, <2>1, EnqEndFacts
  <2>5. EnqRuns'
    <3>1. \A b \in Enqueuer : enq'[b].pc # "idle" => enq'[b].run \in Run
      BY <1>0, <2>4 DEF EnqRuns
    <3>2. ASSUME enq'["scanner"].pc = "read" PROVE left'[enq'["scanner"].run] > 0
      <4>1. enq'["scanner"] = enq["scanner"] /\ enq["scanner"].run \in Run
        BY <1>0, <1>1, <2>4, <3>2 DEF EnqRuns
      <4>2. left[enq["scanner"].run] > 0 /\ left[enq["scanner"].run] \in Nat
        BY <1>0, <3>2, <4>1 DEF EnqRuns
      <4>3. left'[enq["scanner"].run] \in Nat
            /\ left'[enq["scanner"].run] >= left[enq["scanner"].run]
        BY <2>3, <4>1
      <4> QED
        BY <4>1, <4>2, <4>3
    <3> QED
      BY <3>1, <3>2 DEF EnqRuns
  <2> QED
    BY <2>3, <2>4, <2>5
<1> QED
  BY <1>2, <1>3, <1>4, <1>5, <1>6, <1>7, <1>8, WritersAre DEF Writers, EnqStep

\* The bounds and the history variables.
Counted ==
  /\ suspended \in BOOLEAN /\ faults \in Nat /\ commands \in Nat
  /\ excused \in SUBSET Run /\ tangled \in SUBSET Run

\* The bounds and the history variables keep their types.
LEMMA CountersStep ==
  ASSUME CoreInv, [Next]_vars
  PROVE  Counted'
<1>0. ProcRuns /\ GoRuns /\ EnqRuns /\ CmdRun /\ Counted
  BY DEF CoreInv, RunInv, TypeOK, Counted
<1> USE DEF Counted, procVars, queueVars, budget, ProcFrame, ZFrame, EnqFrame, CmdFrame, Fault, Hit, Command, vars
<1>1. CASE StartRound
  BY <1>1, <1>0 DEF StartRound
<1>2. CASE Restart
  BY <1>2, <1>0 DEF Restart, EnqRuns, Enqueuer
<1>3. ASSUME NEW i \in Slot, GoAlive(i) PROVE Counted'
  BY <1>3, <1>0 DEF GoAlive
<1>4. ASSUME NEW i \in Slot, GoStatus(i) PROVE Counted'
  BY <1>4, <1>0 DEF GoStatus
<1>5. ASSUME NEW i \in Slot, GoDrop(i) PROVE Counted'
  BY <1>5, <1>0 DEF GoDrop
<1>6. ASSUME NEW i \in Slot, GoPoll(i) PROVE Counted'
  BY <1>6, <1>0 DEF GoPoll
<1>7. ASSUME NEW i \in Slot, GoGiveUp(i) PROVE Counted'
  BY <1>7, <1>0 DEF GoGiveUp
<1>8. ASSUME NEW i \in Slot, GoDequeue(i) PROVE Counted'
  BY <1>8, <1>0 DEF GoDequeue, ExcusedBy, GoRuns
<1>9. ASSUME NEW p \in Proc, PCheck(p) PROVE Counted'
  BY <1>9, <1>0 DEF PCheck
<1>10. ASSUME NEW p \in Proc, PLock(p) PROVE Counted'
  BY <1>10, <1>0 DEF PLock
<1>11. ASSUME NEW p \in Proc, PPrepare(p) PROVE Counted'
  BY <1>11, <1>0 DEF PPrepare, ProcRuns
<1>12. ASSUME NEW p \in Proc, PAlready(p) PROVE Counted'
  BY <1>12, <1>0 DEF PAlready, Leave, ProcRuns
<1>13. ASSUME NEW p \in Proc, PStart(p) PROVE Counted'
  BY <1>13, <1>0 DEF PStart
<1>14. ASSUME NEW p \in Proc, PFinish(p) PROVE Counted'
  BY <1>14, <1>0 DEF PFinish
<1>15. ASSUME NEW p \in Proc, PStop(p) PROVE Counted'
  BY <1>15, <1>0 DEF PStop
<1>16. ASSUME NEW p \in Proc, PInitFails(p) PROVE Counted'
  BY <1>16, <1>0 DEF PInitFails, Leave, ProcRuns
<1>17. ASSUME NEW p \in Proc, PProgress(p) PROVE Counted'
  BY <1>17, <1>0 DEF PProgress
<1>18. ASSUME NEW p \in Proc, PCrash(p) PROVE Counted'
  BY <1>18, <1>0 DEF PCrash, Live, ProcRuns
<1>19. ASSUME NEW p \in Proc, Expire(p) PROVE Counted'
  BY <1>19, <1>0 DEF Expire
<1>20. ASSUME NEW p \in Proc, Stall(p) PROVE Counted'
  BY <1>20, <1>0 DEF Stall, ProcRuns
<1>21. ASSUME NEW p \in Proc, Beat(p) PROVE Counted'
  BY <1>21, <1>0 DEF Beat
<1>22. ASSUME NEW p \in Proc, ZList(p) PROVE Counted'
  BY <1>22, <1>0 DEF ZList
<1>23. CASE ZFind
  BY <1>23, <1>0 DEF ZFind
<1>24. CASE ZRepair
  BY <1>24, <1>0 DEF ZRepair
<1>25. CASE ZWrite
  BY <1>25, <1>0 DEF ZWrite
<1>26. CASE ZRemove
  BY <1>26, <1>0 DEF ZRemove
<1>27. ASSUME NEW a \in Enqueuer, EnqSwap(a) PROVE Counted'
  BY <1>27, <1>0 DEF EnqSwap
<1>28. ASSUME NEW a \in Enqueuer, EnqAppend(a) PROVE Counted'
  BY <1>28, <1>0 DEF EnqAppend
<1>29. ASSUME NEW a \in Enqueuer, EnqUndo(a) PROVE Counted'
  BY <1>29, <1>0 DEF EnqUndo
<1>30. CASE UserDies
  BY <1>30, <1>0 DEF UserDies, EnqRuns, Enqueuer
<1>31. ASSUME NEW r \in Run, ScanRetry(r) PROVE Counted'
  BY <1>31, <1>0 DEF ScanRetry
<1>32. ASSUME NEW r \in Run, UserRetry(r) PROVE Counted'
  BY <1>32, <1>0 DEF UserRetry
<1>33. ASSUME NEW r \in Run, CancelAutoRetry(r) PROVE Counted'
  BY <1>33, <1>0 DEF CancelAutoRetry
<1>34. ASSUME NEW r \in Run, DequeueAbort(r) PROVE Counted'
  BY <1>34, <1>0 DEF DequeueAbort, ExcusedBy
<1>35. CASE Suspend
  BY <1>35, <1>0 DEF Suspend
<1>36. CASE DequeueItem
  BY <1>36, <1>0 DEF DequeueItem, ExcusedBy, CmdRun
<1>37. CASE UNCHANGED vars
  BY <1>0, <1>37
<1> QED
  BY <1>1, <1>2, <1>3, <1>4, <1>5, <1>6, <1>7, <1>8, <1>9, <1>10, <1>11,
     <1>12, <1>13, <1>14, <1>15, <1>16, <1>17, <1>18, <1>19, <1>20, <1>21,
     <1>22, <1>23, <1>24, <1>25, <1>26, <1>27, <1>28, <1>29, <1>30, <1>31,
     <1>32, <1>33, <1>34, <1>35, <1>36, <1>37 DEF Next, GoStep, PStep,
     ZStep, EnqStep

\* The processes, the items, the lock and the counters keep their types.
LEMMA TypeStep ==
  ASSUME CoreInv, [Next]_vars
  PROVE  TypeOK'
<1>0. ProcChange
  BY ProcChanges
<1>1. /\ proc \in [Proc -> ProcRecord] /\ hist \in [Run -> Seq(AttemptStatus)]
      /\ items \in Seq(Run) /\ ProcRuns
  BY DEF CoreInv, RunInv, TypeOK, ProcRecord
<1>2. proc' \in [Proc -> ProcRecord] /\ hist' \in [Run -> Seq(AttemptStatus)]
  <2>1. CASE Keeps
    BY <1>1, <2>1 DEF Keeps, SameShape
  <2>2. CASE Forgets
    BY <1>1, <2>2, ForgetFacts DEF Forgets
  <2>3. CASE Launches
    <3>1. PICK p \in Proc, r \in Run :
            /\ hist' = hist
            /\ proc' = [proc EXCEPT ![p] = [NoProc EXCEPT !.run = r, !.pc = "launched"]]
      BY <2>3 DEF Launches
    <3> QED
      BY <1>1, <3>1, LaunchFacts
  <2>4. CASE Exits
    <3>1. PICK p \in Proc :
            /\ Exit(p) /\ proc[p].pc # "free"
            /\ \/ hist' = hist
               \/ hist' = [hist EXCEPT ![proc[p].run] = Append(@, "failed")]
               \/ /\ proc[p].pc \in {"acquired", "starting"}
                  /\ proc[p].att = Len(hist[proc[p].run])
                  /\ hist' = [hist EXCEPT ![proc[p].run] = Front(@)]
      BY <2>4 DEF Exits
    <3>2. proc' \in [Proc -> ProcRecord] /\ proc[p].run \in Run
      BY <1>1, <3>1, ExitFacts DEF ProcRuns
    <3>3. "failed" \in AttemptStatus
      BY DEF AttemptStatus, Written
    <3>4. CASE hist' = [hist EXCEPT ![proc[p].run] = Append(@, "failed")]
      BY <1>1, <3>2, <3>3, <3>4, AppendFacts
    <3>5. CASE /\ proc[p].pc \in {"acquired", "starting"}
               /\ proc[p].att = Len(hist[proc[p].run])
               /\ hist' = [hist EXCEPT ![proc[p].run] = Front(@)]
      <4>1. Len(hist[proc[p].run]) > 0
        BY <3>5 DEF CoreInv, OwnAttempt, Attached
      <4> QED
        BY <1>1, <3>2, <3>5, <4>1, FrontSeq
    <3> QED
      BY <1>1, <3>1, <3>2, <3>4, <3>5
  <2>5. CASE Attaches
    <3>1. PICK p \in Proc :
            /\ proc[p].pc = "locked"
            /\ hist' = [hist EXCEPT ![proc[p].run] = Append(@, "empty")]
            /\ proc' = [proc EXCEPT ![p].pc = "acquired", ![p].beat = "fresh",
                                    ![p].att = Len(hist[proc[p].run]) + 1]
      BY <2>5 DEF Attaches
    <3>2. proc[p].run \in Run /\ "empty" \in AttemptStatus
      BY <1>1, <3>1 DEF ProcRuns, AttemptStatus
    <3>3. Len(hist[proc[p].run]) + 1 \in Nat
      BY <1>1, <3>2
    <3>4. proc' \in [Proc -> ProcRecord]
      BY <1>1, <3>1, <3>3, AttachFacts
    <3>5. hist' \in [Run -> Seq(AttemptStatus)]
      BY <1>1, <3>1, <3>2, AppendFacts
    <3> QED
      BY <3>4, <3>5
  <2>6. CASE Moves
    BY <1>1, <2>6, PToFacts DEF Moves, SameShape
  <2>7. CASE Beats
    BY <1>1, <2>7, BeatFacts DEF Beats
  <2>8. CASE Removes
    BY <1>1, <2>8, RemoveFacts DEF Removes
  <2> QED
    BY <1>0, <2>1, <2>2, <2>3, <2>4, <2>5, <2>6, <2>7, <2>8 DEF ProcChange
<1>3. items' \in Seq(Run)
  <2>1. ASSUME NEW a \in Enqueuer, EnqAppend(a) PROVE items' \in Seq(Run)
    <3>1. enq[a].run \in Run
      BY <2>1 DEF EnqAppend, CoreInv, RunInv, EnqRuns
    <3>2. items' = items \/ items' = Append(items, enq[a].run)
      BY <2>1 DEF EnqAppend
    <3>3. Append(items, enq[a].run) \in Seq(Run)
      BY <1>1, <3>1, AppendProperties
    <3> QED
      BY <1>1, <3>2, <3>3
  <2>2. ASSUME NEW r, items' = Without(r) PROVE items' \in Seq(Run)
    BY <1>1, <2>2, WithoutFacts
  <2>3. ASSUME NEW i \in Slot, GoDequeue(i) PROVE items' \in Seq(Run)
    BY <2>2, <2>3 DEF GoDequeue
  <2>4. CASE DequeueItem
    BY <2>2, <2>4 DEF DequeueItem
  <2> QED
    BY <1>1, <2>1, <2>3, <2>4, WritersAre DEF Writers
<1>4. lock' \in SUBSET (Proc \cup {Dequeuer}) /\ Cardinality(lock') <= 1
  <2>1. lock \in SUBSET (Proc \cup {Dequeuer}) /\ Cardinality(lock) <= 1
    BY DEF CoreInv, TypeOK
  <2>2. Cardinality({}) = 0 /\ \A p : Cardinality({p}) = 1
    BY FS_EmptySet, FS_Singleton
  <2>3. CASE lock' = lock
    BY <2>1, <2>3
  <2>4. CASE lock' = {}
    BY <2>2, <2>4
  <2>5. ASSUME NEW p \in Proc \cup {Dequeuer}, lock' = {p}
        PROVE  lock' \in SUBSET (Proc \cup {Dequeuer}) /\ Cardinality(lock') <= 1
    <3>1. Cardinality({p}) = 1
      BY <2>2
    <3>2. Cardinality(lock') = 1
      BY <2>5, <3>1
    <3>3. lock' \in SUBSET (Proc \cup {Dequeuer})
      BY <2>5
    <3> QED
      BY <3>2, <3>3
  <2>6. ASSUME NEW p, lock' = lock \ {p}
        PROVE  lock' \in SUBSET (Proc \cup {Dequeuer}) /\ Cardinality(lock') <= 1
    <3>1. IsFiniteSet(Proc)
      BY FS_Interval, LocalQueueAssumption DEF Proc
    <3>2. IsFiniteSet(lock)
      BY <2>1, <3>1, FS_AddElement, FS_Subset
    <3>3. Cardinality(lock') <= Cardinality(lock) /\ IsFiniteSet(lock') /\ lock' \subseteq lock
      BY <2>6, <3>2, FS_Subset
    <3>4. Cardinality(lock') \in Nat /\ Cardinality(lock) \in Nat
      BY <3>2, <3>3, FS_CardinalityType
    <3> QED
      BY <2>1, <3>3, <3>4
  <2>7. ASSUME NEW p \in Proc, PLock(p) \/ PPrepare(p) \/ PCrash(p)
        PROVE  lock' \in SUBSET (Proc \cup {Dequeuer}) /\ Cardinality(lock') <= 1
    BY <2>3, <2>4, <2>5, <2>6, <2>7 DEF PLock, PPrepare, PCrash
  <2>8. ASSUME NEW r \in Run, DequeueAbort(r)
        PROVE  lock' \in SUBSET (Proc \cup {Dequeuer}) /\ Cardinality(lock') <= 1
    BY <2>5, <2>8 DEF DequeueAbort
  <2>9. CASE DequeueItem
    BY <2>4, <2>9 DEF DequeueItem
  <2> QED
    BY <2>3, <2>7, <2>8, <2>9, WritersAre DEF Writers
<1>5. suspended' \in BOOLEAN /\ {faults', commands'} \subseteq Nat
      /\ {excused', tangled'} \subseteq SUBSET Run
  BY CountersStep DEF Counted
<1> QED
  BY <1>2, <1>3, <1>4, <1>5, GoRunsStep, EntryRunStep, CmdRunStep, EnqRunsStep
     DEF TypeOK, ProcRecord, GoRecord, EnqRecord

\* While the detector looks at an entry, only processes that were held up work on
\* that attempt.
LEMMA EntryKept ==
  ASSUME CoreInv, ProcChange, z.pc # "idle", z'.run = z.run, z'.att = z.att
  PROVE  /\ z.att \in 1 .. Len(hist'[z.run])
         /\ \A p \in Proc : Live(p)' /\ proc'[p].run = z.run /\ proc'[p].att = z.att
                              => proc'[p].flag = "held"
<1>0. /\ proc \in [Proc -> ProcRecord] /\ ProcRuns /\ OwnAttempt /\ AttemptsDiffer /\ BeatInv
      /\ hist \in [Run -> Seq(AttemptStatus)] /\ \A r \in Run : Len(hist[r]) \in Nat
  BY DEF CoreInv, RunInv, TypeOK, ProcRecord
<1>1. /\ z.run \in Run /\ z.att \in 1 .. Len(hist[z.run])
      /\ \A p \in Proc : Live(p) /\ proc[p].run = z.run /\ proc[p].att = z.att
                           => proc[p].flag = "held"
  BY DEF CoreInv, RunInv, EntryRun, EntryInv
<1>2. z.att # 0
  BY <1>0, <1>1
<1> USE DEF Live
<1>3. CASE Keeps
  BY <1>1, <1>3 DEF Keeps, SameShape
<1>4. CASE Forgets
  <2>1. PICK ps : proc' = Forget(ps) /\ hist' = hist
    BY <1>4 DEF Forgets
  <2>2. \A p \in Proc : Starting(p) => proc[p].att = 0
    BY <1>0 DEF Starting, OwnAttempt, Attached
  <2> QED
    BY <1>0, <1>1, <1>2, <2>1, <2>2, ForgetFacts
<1>5. CASE Launches
  <2>1. PICK p \in Proc, r \in Run :
          /\ hist' = hist
          /\ proc' = [proc EXCEPT ![p] = [NoProc EXCEPT !.run = r, !.pc = "launched"]]
    BY <1>5 DEF Launches
  <2>2. proc'[p].att = 0 /\ \A q \in Proc : q # p => proc'[q] = proc[q]
    BY <1>0, <2>1, LaunchFacts
  <2> QED
    BY <1>1, <1>2, <2>1, <2>2
<1>6. CASE Exits
  <2>1. PICK p \in Proc :
          /\ Exit(p) /\ proc[p].pc # "free"
          /\ \/ hist' = hist
             \/ hist' = [hist EXCEPT ![proc[p].run] = Append(@, "failed")]
             \/ /\ proc[p].pc \in {"acquired", "starting"}
                /\ proc[p].att = Len(hist[proc[p].run])
                /\ hist' = [hist EXCEPT ![proc[p].run] = Front(@)]
    BY <1>6 DEF Exits
  <2> DEFINE r == proc[p].run
  <2>2. r \in Run
    BY <1>0, <2>1 DEF ProcRuns
  <2>3. proc'[p] = NoProc /\ \A q \in Proc : q # p => proc'[q] = proc[q]
    BY <1>0, <2>1, ExitFacts
  <2>4. \A q \in Proc : Live(q)' /\ proc'[q].run = z.run /\ proc'[q].att = z.att
                          => proc'[q].flag = "held"
    BY <1>1, <2>3, NoProcFacts
  <2>5. CASE hist' = hist
    BY <1>1, <2>4, <2>5
  <2>6. CASE hist' = [hist EXCEPT ![r] = Append(@, "failed")]
    <3>1. "failed" \in AttemptStatus
      BY DEF AttemptStatus, Written
    <3>2. Len(hist'[r]) = Len(hist[r]) + 1 /\ \A q \in Run : q # r => hist'[q] = hist[q]
      BY <1>0, <2>2, <2>6, <3>1, AppendFacts
    <3> HIDE DEF r
    <3>3. \A q \in Run : Len(hist'[q]) \in Nat /\ Len(hist'[q]) >= Len(hist[q])
      BY <1>0, <2>2, <3>2
    <3> QED
      BY <1>0, <1>1, <2>4, <3>3
  <2>7. CASE /\ proc[p].pc \in {"acquired", "starting"} /\ proc[p].att = Len(hist[r])
             /\ hist' = [hist EXCEPT ![r] = Front(@)]
    <3>1. proc[p].att \in 1 .. Len(hist[r]) /\ Len(hist[r]) > 0
      BY <1>0, <2>2, <2>7 DEF OwnAttempt, Attached
    <3>2. Len(hist'[r]) = Len(hist[r]) - 1 /\ \A q \in Run : q # r => hist'[q] = hist[q]
      <4>1. hist' = [hist EXCEPT ![r] = Front(@)]
        BY <2>7
      <4> HIDE DEF r
      <4> QED
        BY <1>0, <2>2, <3>1, <4>1, FrontSeq
    <3>3. z.run = r => z.att # Len(hist[r])
      BY <1>0, <1>1, <2>7 DEF BeatInv
    <3>4. z.att \in 1 .. Len(hist'[z.run])
      <4> HIDE DEF r
      <4>1. CASE z.run = r
        BY <1>0, <1>1, <2>2, <3>2, <3>3, <4>1
      <4>2. CASE z.run # r
        BY <1>1, <3>2, <4>2
      <4> QED
        BY <4>1, <4>2
    <3> QED
      BY <2>4, <3>4
  <2> QED
    BY <2>1, <2>5, <2>6, <2>7
<1>7. CASE Attaches
  <2>1. PICK p \in Proc :
          /\ proc[p].pc = "locked"
          /\ hist' = [hist EXCEPT ![proc[p].run] = Append(@, "empty")]
          /\ proc' = [proc EXCEPT ![p].pc = "acquired", ![p].beat = "fresh",
                                  ![p].att = Len(hist[proc[p].run]) + 1]
    BY <1>7 DEF Attaches
  <2> DEFINE r == proc[p].run
  <2>2. r \in Run
    BY <1>0, <2>1 DEF ProcRuns
  <2>3. Len(hist[r]) + 1 \in Nat /\ "empty" \in AttemptStatus
    BY <1>0, <2>2 DEF AttemptStatus
  <2>4. /\ proc'[p].run = r /\ proc'[p].att = Len(hist[r]) + 1
        /\ \A q \in Proc : q # p => proc'[q] = proc[q]
    BY <1>0, <2>1, <2>3, AttachFacts
  <2>5. Len(hist'[r]) = Len(hist[r]) + 1 /\ \A q \in Run : q # r => hist'[q] = hist[q]
    BY <1>0, <2>1, <2>2, <2>3, AppendFacts
  <2> HIDE DEF r
  <2>6. \A q \in Run : Len(hist'[q]) \in Nat /\ Len(hist'[q]) >= Len(hist[q])
    BY <1>0, <2>2, <2>5
  <2>7. z.att \in 1 .. Len(hist'[z.run])
    BY <1>0, <1>1, <2>6
  <2>8. z.run = r => z.att # Len(hist[r]) + 1
    BY <1>0, <1>1, <2>2
  <2> QED
    BY <1>1, <2>4, <2>7, <2>8
<1>8. CASE Moves
  <2>1. PICK p \in Proc, c \in {"locked", "starting", "running", "ended", "dead"} :
          PTo(p, c) /\ SameShape /\ proc[p].pc # "free" /\ (c # "dead" => proc[p].pc # "dead")
    BY <1>8 DEF Moves
  <2>2. /\ proc'[p].pc = c /\ proc'[p].run = proc[p].run
        /\ proc'[p].att = proc[p].att /\ proc'[p].flag = proc[p].flag
        /\ \A q \in Proc : q # p => proc'[q] = proc[q]
    BY <1>0, <2>1, PToFacts
  <2> QED
    BY <1>1, <2>1, <2>2 DEF SameShape
<1>9. CASE Beats
  <2>1. PICK p \in Proc : Expire(p) \/ Stall(p) \/ Beat(p)
    BY <1>9 DEF Beats
  <2>2. hist' = hist
    BY <1>9 DEF Beats
  <2>3. /\ proc'[p].pc = proc[p].pc /\ proc'[p].run = proc[p].run
        /\ proc'[p].att = proc[p].att
        /\ proc'[p].flag = IF Stall(p) THEN "held" ELSE proc[p].flag
        /\ \A q \in Proc : q # p => proc'[q] = proc[q]
    BY <1>0, <2>1, BeatFacts
  <2> QED
    BY <1>1, <2>2, <2>3
<1>10. CASE Removes
  <2>1. ZRemove /\ hist' = hist
    BY <1>10 DEF Removes
  <2> QED
    BY <1>0, <1>1, <2>1, RemoveFacts, NoProcFacts
<1> QED
  BY <1>3, <1>4, <1>5, <1>6, <1>7, <1>8, <1>9, <1>10 DEF ProcChange

\* The entry the detector takes up, and what it makes of it.
LEMMA EntryStep ==
  ASSUME CoreInv, [Next]_vars
  PROVE  EntryInv'
<1>1. ProcChange
  BY ProcChanges
<1>2. CASE z'.pc # "idle" /\ z.pc # "idle" /\ z'.run = z.run /\ z'.att = z.att
  BY <1>1, <1>2, EntryKept DEF EntryInv
<1>3. CASE z'.pc = "idle"
  BY <1>3 DEF EntryInv
<1>4. ASSUME NEW p \in Proc, ZList(p) PROVE EntryInv'
  <2>1. /\ proc[p].beat = "stale" /\ proc' = proc /\ hist' = hist
        /\ z'.run = proc[p].run /\ z'.att = proc[p].att
    BY <1>4 DEF ZList, IsStale, Entry
  <2>2. Attached(p) /\ proc[p].att \in 1 .. Len(hist[proc[p].run])
    BY <2>1 DEF CoreInv, OwnAttempt
  <2>3. \A q \in Proc : Live(q) /\ proc[q].run = proc[p].run /\ proc[q].att = proc[p].att
                          => Attached(q)
    <3>1. proc[p].run \in Run /\ hist \in [Run -> Seq(AttemptStatus)]
      BY <2>2 DEF CoreInv, RunInv, TypeOK, ProcRuns, Attached
    <3>2. Len(hist[proc[p].run]) \in Nat
      BY <3>1
    <3>3. proc[p].att # 0
      BY <2>2, <3>2
    <3>4. \A q \in Proc : proc[q].att # 0 => Attached(q)
      BY DEF CoreInv, OwnAttempt, Attached
    <3> QED
      BY <3>3, <3>4
  <2>4. \A q \in Proc : Live(q) /\ proc[q].run = proc[p].run /\ proc[q].att = proc[p].att
                          => q = p
    BY <2>2, <2>3 DEF CoreInv, AttemptsDiffer
  <2>5. Live(p) => proc[p].flag = "held"
    BY <2>1 DEF CoreInv, BeatInv, Live
  <2> QED
    BY <2>1, <2>2, <2>4, <2>5 DEF EntryInv, Live
<1>5. ASSUME z' # z, ~\E p \in Proc : ZList(p)
      PROVE  \/ z'.pc = "idle"
             \/ z.pc # "idle" /\ z'.run = z.run /\ z'.att = z.att
  <2>0. z \in [run : Run \cup {NoRun}, att : Nat, proc : SUBSET Proc,
               pc : {"idle", "find", "repair", "write", "remove"}]
    BY DEF CoreInv, TypeOK
  <2>1. CASE Restart \/ ZRemove
    BY <2>1 DEF Restart, ZRemove, NoEntry
  <2>2. CASE ZFind \/ ZWrite
    BY <2>0, <2>2 DEF ZFind, ZWrite
  <2>3. CASE ZRepair
    BY <2>0, <2>3 DEF ZRepair, NoEntry
  <2> QED
    BY <1>5, <2>1, <2>2, <2>3, WritersAre DEF Writers, ZStep
<1> QED
  BY <1>2, <1>3, <1>4, <1>5

\* The initial states satisfy the core of the invariant.
LEMMA CoreInit == Init => CoreInv
<1> SUFFICES ASSUME Init PROVE CoreInv
  OBVIOUS
<1>1. PICK b \in Budgets :
        /\ items = [i \in DOMAIN b.retries |-> i]
        /\ hist = [r \in Run |-> IF r \in DOMAIN b.retries THEN <<"queued">> ELSE <<>>]
        /\ left = [r \in Run |-> IF r \in DOMAIN b.retries THEN b.retries[r] ELSE 0]
        /\ faults = b.faults /\ commands = b.commands
  BY DEF Init
<1>2. /\ b.retries \in Seq(Nat) /\ Len(b.retries) \in 1 .. Runs /\ Runs \in Nat
      /\ b.faults \in Nat /\ b.commands \in Nat
  BY LocalQueueAssumption
<1>3. items \in Seq(Run)
  BY <1>1, <1>2 DEF Run
<1>4. hist \in [Run -> Seq(AttemptStatus)]
  <2>1. <<"queued">> \in Seq(AttemptStatus) /\ <<>> \in Seq(AttemptStatus)
    BY DEF AttemptStatus, Written
  <2> QED
    BY <1>1, <2>1
<1>5. left \in [Run -> Nat] /\ faults \in Nat /\ commands \in Nat
  BY <1>1, <1>2
<1>6. \A p \in Proc : proc[p] = NoProc
  BY DEF Init
<1>7. proc \in [Proc -> ProcRecord]
  BY NoProcFacts DEF Init
<1>8. go \in [Slot -> GoRecord] /\ z = NoEntry /\ enq \in [Enqueuer -> EnqRecord] /\ cmd = NoCmd
      /\ GoRuns
  BY DEF Init, NoGo, GoRecord, NoRun, NoEnq, EnqRecord, Written, GoRuns
<1>9. lock \in SUBSET (Proc \cup {Dequeuer}) /\ Cardinality(lock) <= 1
  BY FS_EmptySet DEF Init
<1>10. suspended \in BOOLEAN /\ excused = {} /\ tangled = {}
  BY DEF Init
<1>11. TypeOK
  <2>1. z \in [run : Run \cup {NoRun}, att : Nat, proc : SUBSET Proc,
               pc : {"idle", "find", "repair", "write", "remove"}]
        /\ cmd \in [run : Run \cup {NoRun}, pc : {"idle", "aborted"}]
    BY <1>8 DEF NoEntry, NoCmd, NoRun
  <2> QED
    BY <1>3, <1>4, <1>5, <1>7, <1>8, <1>9, <1>10, <2>1
       DEF TypeOK, ProcRecord, GoRecord, EnqRecord
<1>12. RunInv
  BY <1>6, <1>8, NoProcFacts
     DEF Init, RunInv, ProcRuns, EntryRun, EnqRuns, CmdRun, NoEntry, NoEnq, NoCmd, Enqueuer
<1>13. OwnAttempt /\ AttemptsDiffer /\ BeatInv /\ EntryInv
  BY <1>6, <1>8, NoProcFacts
     DEF OwnAttempt, AttemptsDiffer, BeatInv, EntryInv, Attached, Watched, Executing, NoEntry
<1> QED
  BY <1>11, <1>12, <1>13 DEF CoreInv

\* Every step preserves it.
LEMMA CoreStep == CoreInv /\ [Next]_vars => CoreInv'
<1> SUFFICES ASSUME CoreInv, [Next]_vars PROVE CoreInv'
  OBVIOUS
<1>1. ProcChange
  BY ProcChanges
<1> QED
  BY <1>1, TypeStep, ProcRunsStep, GoRunsStep, EntryRunStep, EnqRunsStep, CmdRunStep,
     AttemptStep, BeatStep, EntryStep DEF CoreInv, RunInv

\* The core of the invariant holds always.
THEOREM QueueCore == Spec => []CoreInv
BY CoreInit, CoreStep, PTL DEF Spec

\* The types of the queue, the history, the processes and every actor's local
\* state, among them that a retry is never taken beyond its limit (left stays a
\* natural number) and that one actor at most holds the group's lock.
THEOREM QueueTypeCorrect == Spec => []TypeOK
<1>1. CoreInv => TypeOK
  BY DEF CoreInv
<1> QED
  BY <1>1, QueueCore, PTL

\* The zombie detector never fails the attempt of a live process that was not
\* held up, in whatever order its listing, its two reads, its write and the
\* process's own heartbeats and statuses happen (checkAndCleanZombie,
\* RepairStaleLocalRun).
THEOREM RepairIsJustified == Spec => RepairSparesLive
<1>1. CoreInv => [\A p \in Proc :
                    ZWrite /\ proc[p].run = z.run /\ proc[p].att = z.att /\ Live(p)
                      => proc[p].flag = "held"]_vars
  BY DEF CoreInv, EntryInv, ZWrite
<1> QED
  BY <1>1, QueueCore, PTL DEF RepairSparesLive

-----------------------------------------------------------------------------
(* A queued run waits for something.                                       *)

\* QueuedHasItem counts every call in flight; it is inductive when only the
\* calls count whose attempt is still the latest one.  The others leave the run
\* to whoever queued it since.
Called(r) == \E a \in Enqueuer : /\ enq[a].run = r /\ enq[a].att = Latest(r)
                                 /\ enq[a].pc \in {"swapped", "undo"}
Served(r) == \E p \in Proc : Serves(p, r, hist)
Expected(r) == r \in ToSet(items) \/ Served(r) \/ Called(r) \/ cmd.run = r
ExpectedInv == \A r \in Run : Status(r) = "queued" /\ r \notin excused => Expected(r)

\* EnqueueRetry never undoes into the queue.
FromInv == \A a \in Enqueuer : enq[a].from # "queued"

\* Who expected a run that is still queued at the same attempt expects it still,
\* unless the step took that away.
LEMMA ExpectedKept ==
  ASSUME ExpectedInv, NEW r \in Run, excused \subseteq excused', r \notin excused',
         Status(r) = "queued", LatestOf(hist', r) = LatestOf(hist, r),
         r \in ToSet(items) => Expected(r)',
         Served(r) => Expected(r)',
         \A a \in Enqueuer : enq[a].run = r /\ enq[a].pc \in {"swapped", "undo"}
                               /\ enq[a].att = LatestOf(hist, r) => Expected(r)',
         cmd.run = r => Expected(r)'
  PROVE  Expected(r)'
<1>1. Expected(r)
  BY DEF ExpectedInv
<1>2. CASE Called(r)
  BY <1>2 DEF Called, Latest
<1> QED
  BY <1>1, <1>2 DEF Expected

\* A process serves a run as long as neither its own state nor the run's
\* attempts change.
LEMMA ServesKept ==
  ASSUME NEW p \in Proc, NEW r \in Run, Serves(p, r, hist), hist'[r] = hist[r],
         proc'[p].run = proc[p].run, proc'[p].pc = proc[p].pc, proc'[p].att = proc[p].att
  PROVE  Serves(p, r, hist)'
<1>1. LatestOf(hist', r) = LatestOf(hist, r)
  BY LatestLocal
<1> QED
  BY <1>1 DEF Serves, Starting, Executing

\* A step that changes no status of a run and none of its servers.
LEMMA QuietRun ==
  ASSUME ExpectedInv, NEW r \in Run, excused \subseteq excused', r \notin excused',
         StatusOf(hist', r) = "queued", hist'[r] = hist[r],
         \A p \in Proc : Serves(p, r, hist)
            => proc'[p].run = proc[p].run /\ proc'[p].pc = proc[p].pc /\ proc'[p].att = proc[p].att,
         r \in ToSet(items) => r \in ToSet(items'),
         \A a \in Enqueuer : enq[a].run = r /\ enq[a].pc \in {"swapped", "undo"}
            => enq'[a].run = r /\ enq'[a].pc \in {"swapped", "undo"} /\ enq'[a].att = enq[a].att,
         cmd.run = r => cmd'.run = r
  PROVE  Expected(r)'
<1>1. LatestOf(hist', r) = LatestOf(hist, r) /\ Status(r) = "queued"
  BY LatestLocal DEF Status
<1>2. Served(r) => Served(r)'
  BY ServesKept DEF Served
<1>3. ASSUME NEW a \in Enqueuer, enq[a].run = r, enq[a].pc \in {"swapped", "undo"},
             enq[a].att = LatestOf(hist, r)
      PROVE  Called(r)'
  BY <1>1, <1>3 DEF Called, Latest
<1> QED
  BY <1>1, <1>2, <1>3, ExpectedKept DEF Expected

\* Writing a status other than queued, by a process or by the detector.
LEMMA WriteRun ==
  ASSUME CoreInv, ExpectedInv, excused' = excused, items' = items, enq' = enq, cmd' = cmd,
         NEW r0 \in Run, NEW k \in 1 .. Len(hist[r0]),
         NEW s \in Written, s # "queued",
         hist' \in [Run -> Seq(AttemptStatus)], hist'[r0][k] = s,
         \A q \in Run : Len(hist'[q]) = Len(hist[q]),
         \A j \in 1 .. Len(hist[r0]) : j # k => hist'[r0][j] = hist[r0][j],
         \A q \in Run : q # r0 => hist'[q] = hist[q],
         \A q \in Proc : proc'[q] = proc[q] \/ (proc[q].run = r0 /\ proc[q].att = k /\ Attached(q))
  PROVE  ExpectedInv'
<1>0. /\ hist \in [Run -> Seq(AttemptStatus)] /\ OwnAttempt /\ s \in AttemptStatus
      /\ \A r \in Run : Len(hist[r]) \in Nat
  BY SMTT(30) DEF CoreInv, TypeOK, AttemptStatus
<1>1. /\ hist' \in [Run -> Seq(AttemptStatus)]
      /\ \A q \in Run : Len(hist'[q]) = Len(hist[q])
      /\ hist'[r0][k] = s
      /\ \A j \in 1 .. Len(hist[r0]) : j # k => hist'[r0][j] = hist[r0][j]
      /\ \A q \in Run : q # r0 => hist'[q] = hist[q]
  OBVIOUS
<1>2. ASSUME NEW r \in Run, StatusOf(hist', r) = "queued", r \notin excused'
      PROVE  Expected(r)'
  <2>1. CASE r # r0
    <3>1. \A p \in Proc : Serves(p, r, hist) => proc'[p] = proc[p]
      BY <2>1 DEF Serves
    <3> QED
      BY <1>1, <1>2, <2>1, <3>1, QuietRun
  <2>2. CASE r = r0
    <3>1. /\ ~(k >= LatestOf(hist, r0)) /\ LatestOf(hist', r0) = LatestOf(hist, r0)
          /\ StatusOf(hist', r0) = StatusOf(hist, r0)
      <4>1. hist'[r0][k] \in Written /\ Len(hist'[r0]) = Len(hist[r0])
        BY <1>1
      <4>2. k >= LatestOf(hist, r0) => StatusOf(hist', r0) = hist'[r0][k]
        BY ZenonT(60), <1>0, <1>1, <4>1, SetLatest
      <4>3. ~(k >= LatestOf(hist, r0))
        BY <1>1, <1>2, <2>2, <4>2
      <4>4. /\ LatestOf(hist', r0) = LatestOf(hist, r0)
            /\ StatusOf(hist', r0) = StatusOf(hist, r0)
        BY <1>0, <1>1, <4>1, <4>3, SetLatest
      <4> QED
        BY <4>3, <4>4
    <3>2. ASSUME NEW p \in Proc, Serves(p, r0, hist) PROVE Serves(p, r0, hist)'
      <4>1. LatestOf(hist, r0) \in Nat
        BY <1>0, LatestFacts
      <4>2. CASE Starting(p)
        <5>1. proc'[p] = proc[p] /\ proc[p].run = r0
          BY <3>2, <4>2 DEF Serves, Starting, Attached
        <5> QED
          BY <4>2, <5>1 DEF Serves, Starting
      <4>3. CASE ~Starting(p)
        <5>1. /\ Executing(p) /\ proc[p].run = r0 /\ proc[p].att >= LatestOf(hist, r0)
              /\ ~(proc[p].pc = "running" /\ hist[r0][proc[p].att] = "gone")
          BY <3>2, <4>3 DEF Serves
        <5>2. proc[p].att \in 1 .. Len(hist[r0])
          BY <1>0, <5>1 DEF OwnAttempt, Attached, Executing
        <5>3. proc[p].att # k
          BY <1>0, <3>1, <4>1, <5>1, <5>2
        <5>4. proc'[p] = proc[p] /\ hist'[r0][proc[p].att] = hist[r0][proc[p].att]
          BY <1>1, <5>2, <5>3
        <5> QED
          BY <3>1, <5>1, <5>4 DEF Serves, Executing
      <4> QED
        BY <4>2, <4>3
    <3>3. Served(r0) => Served(r0)'
      BY <3>2 DEF Served
    <3>4. ASSUME NEW a \in Enqueuer, enq[a].run = r0, enq[a].pc \in {"swapped", "undo"},
                 enq[a].att = LatestOf(hist, r0)
          PROVE  Called(r0)'
      BY <3>1, <3>4 DEF Called, Latest
    <3>5. Status(r0) = "queued"
      BY <1>2, <2>2, <3>1 DEF Status
    <3> QED
      BY <1>2, <2>2, <3>1, <3>3, <3>4, <3>5, ExpectedKept DEF Expected
  <2> QED
    BY <2>1, <2>2
<1> QED
  BY <1>2 DEF ExpectedInv, Status

\* A swap into another status.
LEMMA SwapRun ==
  ASSUME CoreInv, ExpectedInv, excused' = excused, items' = items, cmd' = cmd, proc' = proc,
         NEW r0 \in Run, NEW att, NEW from \in Written, NEW to \in Written, to # "queued",
         Swap(r0, att, from, to),
         \A a \in Enqueuer : /\ enq[a].pc \in {"swapped", "undo"}
                             /\ ~(from = "queued" /\ enq[a].run = r0 /\ enq[a].att = att)
            => enq'[a] = enq[a]
  PROVE  ExpectedInv'
<1>0. hist \in [Run -> Seq(AttemptStatus)]
  BY DEF CoreInv, TypeOK
<1>1. /\ \A q \in Run : q # r0 => hist'[q] = hist[q]
      /\ Swaps(r0, att, from) => StatusOf(hist', r0) = to
      /\ ~Swaps(r0, att, from) => hist' = hist
  BY <1>0, SwapFacts
<1>2. ASSUME NEW r \in Run, StatusOf(hist', r) = "queued", r \notin excused'
      PROVE  Expected(r)'
  <2>1. hist'[r] = hist[r] /\ (r = r0 => ~Swaps(r0, att, from))
    BY <1>1, <1>2
  <2>2. LatestOf(hist', r) = LatestOf(hist, r) /\ Status(r) = "queued"
    BY <1>2, <2>1, LatestLocal DEF Status
  <2>3. Served(r) => Served(r)'
    BY <2>1, ServesKept DEF Served
  <2>4. ASSUME NEW a \in Enqueuer, enq[a].run = r, enq[a].pc \in {"swapped", "undo"},
               enq[a].att = LatestOf(hist, r)
        PROVE  Called(r)'
    <3>1. enq'[a] = enq[a]
      BY <2>1, <2>2, <2>4 DEF Swaps, Latest
    <3> QED
      BY <2>2, <2>4, <3>1 DEF Called, Latest
  <2> QED
    BY <1>2, <2>2, <2>3, <2>4, ExpectedKept DEF Expected
<1> QED
  BY <1>2 DEF ExpectedInv, Status

\* A step that leaves the history alone and disturbs no process that serves a run.
LEMMA SameHistory ==
  ASSUME ExpectedInv, hist' = hist, excused \subseteq excused',
         \A p \in Proc : \A r \in Run : Serves(p, r, hist) /\ Status(r) = "queued"
                                          /\ r \notin excused'
            => Serves(p, r, hist)',
         \A r \in Run : r \in ToSet(items) /\ Status(r) = "queued" /\ r \notin excused'
            => r \in ToSet(items') \/ Served(r)',
         \A a \in Enqueuer : enq[a].pc \in {"swapped", "undo"}
            => \/ enq'[a].run = enq[a].run /\ enq'[a].att = enq[a].att
                  /\ enq'[a].pc \in {"swapped", "undo"}
               \/ enq[a].run \in ToSet(items') \cup excused',
         \A r \in Run : cmd.run = r /\ Status(r) = "queued" /\ r \notin excused'
            => cmd'.run = r \/ Served(r)'
  PROVE  ExpectedInv'
<1>1. ASSUME NEW r \in Run, StatusOf(hist', r) = "queued", r \notin excused'
      PROVE  Expected(r)'
  <2>1. LatestOf(hist', r) = LatestOf(hist, r) /\ Status(r) = "queued"
    BY <1>1, LatestLocal DEF Status
  <2>2. Served(r) => Served(r)'
    BY <1>1, <2>1 DEF Served
  <2>3. ASSUME NEW a \in Enqueuer, enq[a].run = r, enq[a].pc \in {"swapped", "undo"},
               enq[a].att = LatestOf(hist, r)
        PROVE  Expected(r)'
    <3>1. CASE enq[a].run \in ToSet(items') \cup excused'
      BY <1>1, <2>3, <3>1 DEF Expected
    <3>2. CASE enq'[a].run = enq[a].run /\ enq'[a].att = enq[a].att
               /\ enq'[a].pc \in {"swapped", "undo"}
      BY <2>1, <2>3, <3>2 DEF Expected, Called, Latest
    <3> QED
      BY <2>3, <3>1, <3>2
  <2>4. r \in ToSet(items) => Expected(r)'
    BY <1>1, <2>1 DEF Expected
  <2>5. cmd.run = r => Expected(r)'
    BY <1>1, <2>1 DEF Expected
  <2> QED
    BY <1>1, <2>1, <2>2, <2>3, <2>4, <2>5, ExpectedKept DEF Expected
<1> QED
  BY <1>1 DEF ExpectedInv, Status

\* A process that leaves without a status takes at most its own empty attempt
\* with it, and its run is excused.
LEMMA LeaveRun ==
  ASSUME CoreInv, ExpectedInv, items' = items, enq' = enq, cmd' = cmd,
         NEW p \in Proc, proc[p].pc \in {"acquired", "starting"}, Leave(p)
  PROVE  ExpectedInv'
<1>0. /\ hist \in [Run -> Seq(AttemptStatus)] /\ proc \in [Proc -> ProcRecord] /\ ProcRuns
      /\ OwnAttempt
  BY DEF CoreInv, RunInv, TypeOK, ProcRecord
<1>1. proc[p].run \in Run /\ Exit(p) /\ excused' = excused \cup {proc[p].run}
  BY <1>0 DEF ProcRuns, Leave
<1>2. \A q \in Run : q # proc[p].run => hist'[q] = hist[q]
  BY <1>0, <1>1 DEF Leave
<1>3. \A q \in Proc : q # p => proc'[q] = proc[q]
  BY <1>0, <1>1, ExitFacts
<1>4. ASSUME NEW r \in Run, StatusOf(hist', r) = "queued", r \notin excused'
      PROVE  Expected(r)'
  <2>1. r # proc[p].run
    BY <1>1, <1>4
  <2>2. \A q \in Proc : Serves(q, r, hist) => proc'[q] = proc[q]
    BY <1>3, <2>1 DEF Serves
  <2> QED
    BY <1>1, <1>2, <1>4, <2>1, <2>2, QuietRun
<1> QED
  BY <1>4 DEF ExpectedInv, Status

\* The items after an append.
LEMMA AppendSet ==
  ASSUME NEW s \in Seq(Run), NEW r \in Run
  PROVE  ToSet(Append(s, r)) = ToSet(s) \cup {r}
<1>1. /\ Append(s, r) \in Seq(Run) /\ Len(Append(s, r)) = Len(s) + 1 /\ Len(s) \in Nat
      /\ \A i \in 1 .. Len(s) : Append(s, r)[i] = s[i]
      /\ Append(s, r)[Len(s) + 1] = r
  BY AppendProperties
<1>2. DOMAIN Append(s, r) = 1 .. Len(s) + 1 /\ DOMAIN s = 1 .. Len(s)
  BY <1>1
<1>3. \A x : x \in ToSet(Append(s, r)) <=> x \in ToSet(s) \cup {r}
  BY <1>1, <1>2 DEF ToSet
<1> QED
  BY <1>3

\* A step that only moves processes.
LEMMA StillServed ==
  ASSUME ExpectedInv, hist' = hist, items' = items, enq' = enq, cmd' = cmd,
         excused \subseteq excused', NEW p \in Proc,
         \A q \in Proc : q # p => proc'[q] = proc[q],
         \A r \in Run : Serves(p, r, hist) /\ Status(r) = "queued" /\ r \notin excused'
            => Serves(p, r, hist)'
  PROVE  ExpectedInv'
<1>1. \A q \in Proc : \A r \in Run : q # p /\ Serves(q, r, hist) => Serves(q, r, hist)'
  BY ServesKept
<1> QED
  BY <1>1, SameHistory

\* A step that touches no process that serves a run and no call in flight.
LEMMA StillSame ==
  ASSUME ExpectedInv, hist' = hist, items' = items, cmd' = cmd, excused' = excused,
         \A q \in Proc : \/ proc[q].pc \in {"free", "ended", "dead"}
                         \/ /\ proc'[q].pc = proc[q].pc /\ proc'[q].run = proc[q].run
                            /\ proc'[q].att = proc[q].att,
         \A a \in Enqueuer : enq[a].pc \in {"swapped", "undo"}
            => /\ enq'[a].run = enq[a].run /\ enq'[a].att = enq[a].att
               /\ enq'[a].pc \in {"swapped", "undo"}
  PROVE  ExpectedInv'
<1>1. \A q \in Proc : \A r \in Run : Serves(q, r, hist)
                                       => proc[q].pc \notin {"free", "ended", "dead"}
  BY DEF Serves, Starting, Executing
<1>2. \A q \in Proc : \A r \in Run : Serves(q, r, hist) => Serves(q, r, hist)'
  BY <1>1, ServesKept
<1> QED
  BY <1>2, SameHistory

\* An item is taken out: its run is excused unless a process serves it.
LEMMA TakenOut ==
  ASSUME ExpectedInv, hist' = hist, proc' = proc, enq' = enq, items \in Seq(Run), NEW r0,
         items' = Without(r0), excused' = ExcusedBy(r0, hist), cmd' = cmd \/ cmd.run = r0
  PROVE  ExpectedInv'
<1>1. \A x : x \in ToSet(Without(r0)) <=> x \in ToSet(items) /\ x # r0
  BY WithoutFacts
<1>2. \A q \in Proc : \A r \in Run : Serves(q, r, hist) => Serves(q, r, hist)'
  BY ServesKept
<1>3. excused \subseteq excused'
  BY DEF ExcusedBy
<1>4. r0 \in Run /\ Status(r0) = "queued" /\ r0 \notin excused' => Served(r0)
  BY DEF ExcusedBy, Served, Status
<1>5. r0 \in Run /\ Status(r0) = "queued" /\ r0 \notin excused' => Served(r0)'
  BY <1>2, <1>4 DEF Served
<1> QED
  BY <1>1, <1>2, <1>3, <1>5, SameHistory

\* A call in flight is lost with the actor that made it: its run is excused.
LEMMA CallLost ==
  ASSUME ExpectedInv, hist' = hist, items' = items, cmd' = cmd,
         enq \in [Enqueuer -> EnqRecord], NEW a \in Enqueuer,
         enq' = [enq EXCEPT ![a] = NoEnq], excused \subseteq excused',
         enq[a].pc \in {"swapped", "undo"} => enq[a].run \in excused',
         \A q \in Proc : /\ proc'[q].pc = proc[q].pc /\ proc'[q].run = proc[q].run
                         /\ proc'[q].att = proc[q].att
  PROVE  ExpectedInv'
<1>1. \A b \in Enqueuer : b # a => enq'[b] = enq[b]
  BY EnqEndFacts
<1>2. \A q \in Proc : \A r \in Run : Serves(q, r, hist) => Serves(q, r, hist)'
  BY ServesKept
<1> QED
  BY <1>1, <1>2, SameHistory

\* A step of one process that concerns its own run alone.
LEMMA OtherRuns ==
  ASSUME ExpectedInv, items' = items, enq' = enq, cmd' = cmd, excused' = excused,
         NEW p \in Proc, NEW r0 \in Run, r0 = proc[p].run,
         \A q \in Proc : q # p => proc'[q] = proc[q],
         \A q \in Run : q # r0 => hist'[q] = hist[q],
         StatusOf(hist', r0) = "queued" => Expected(r0)'
  PROVE  ExpectedInv'
<1>1. ASSUME NEW r \in Run, StatusOf(hist', r) = "queued", r \notin excused', r # r0
      PROVE  Expected(r)'
  <2>1. \A q \in Proc : Serves(q, r, hist) => proc'[q] = proc[q]
    BY <1>1 DEF Serves
  <2>2. hist'[r] = hist[r]
    BY <1>1
  <2> QED
    BY <1>1, <2>1, <2>2, QuietRun
<1> QED
  BY <1>1 DEF ExpectedInv, Status

\* The step writes one attempt's status.
Writes(r, k, s) == hist' = [hist EXCEPT ![r][k] = s]

\* A process writes a status of its own attempt.
LEMMA ProcWrites ==
  ASSUME CoreInv, ExpectedInv, items' = items, enq' = enq, cmd' = cmd, excused' = excused,
         NEW p \in Proc, proc[p].pc \in {"starting", "running"},
         proc' = proc \/ \E c \in {"running", "ended"} : PTo(p, c),
         NEW s \in Written, s # "queued",
         Writes(proc[p].run, proc[p].att, s)
  PROVE  ExpectedInv'
<1>1. /\ hist \in [Run -> Seq(AttemptStatus)] /\ proc \in [Proc -> ProcRecord]
      /\ s \in AttemptStatus
  BY DEF CoreInv, TypeOK, ProcRecord, AttemptStatus
<1>2. Attached(p) /\ proc[p].run \in Run /\ proc[p].att \in 1 .. Len(hist[proc[p].run])
  BY DEF CoreInv, RunInv, ProcRuns, OwnAttempt, Attached
<1>3. \A q \in Proc : q # p => proc'[q] = proc[q]
  BY <1>1, PToFacts
<1>4. /\ hist' \in [Run -> Seq(AttemptStatus)] /\ hist'[proc[p].run][proc[p].att] = s
      /\ \A q \in Run : Len(hist'[q]) = Len(hist[q])
      /\ \A j \in 1 .. Len(hist[proc[p].run]) :
           j # proc[p].att => hist'[proc[p].run][j] = hist[proc[p].run][j]
      /\ \A q \in Run : q # proc[p].run => hist'[q] = hist[q]
  BY <1>1, <1>2, SetFacts DEF Writes
<1>5. \A q \in Proc : \/ proc'[q] = proc[q]
                      \/ /\ proc[q].run = proc[p].run /\ proc[q].att = proc[p].att
                         /\ Attached(q)
  BY <1>2, <1>3
<1> QED
  BY <1>2, <1>4, <1>5, WriteRun

\* ... unless the attempt was hidden or removed meanwhile.
LEMMA ProcWritesOpen ==
  ASSUME CoreInv, ExpectedInv, items' = items, enq' = enq, cmd' = cmd, excused' = excused,
         NEW p \in Proc, proc[p].pc = "running", proc' = proc \/ PTo(p, "ended"),
         NEW s \in Written, s # "queued", WriteOpen(p, s)
  PROVE  ExpectedInv'
<1> DEFINE r == proc[p].run
           k == proc[p].att
<1>1. hist \in [Run -> Seq(AttemptStatus)] /\ proc \in [Proc -> ProcRecord]
  BY DEF CoreInv, TypeOK, ProcRecord
<1>2. CASE hist[r][k] # "gone"
  <2>1. hist' = [hist EXCEPT ![r][k] = s]
    BY <1>2 DEF WriteOpen
  <2> QED
    BY <2>1, ProcWrites DEF Writes
<1>3. CASE hist[r][k] = "gone"
  <2>1. hist' = hist
    BY <1>1, <1>3 DEF WriteOpen
  <2>2. \A q \in Proc : q # p => proc'[q] = proc[q]
    BY <1>1, PToFacts
  <2>3. \A q \in Run : ~Serves(p, q, hist)
    BY <1>3 DEF Serves, Starting
  <2> QED
    BY <2>1, <2>2, <2>3, StillServed
<1> QED
  BY <1>2, <1>3

\* What a step takes away from a queued run it replaces, or the run is excused.
LEMMA ExpectedStep ==
  ASSUME CoreInv, FromInv, ExpectedInv, [Next]_vars
  PROVE  ExpectedInv'
<1>0. /\ hist \in [Run -> Seq(AttemptStatus)] /\ proc \in [Proc -> ProcRecord]
      /\ enq \in [Enqueuer -> EnqRecord] /\ items \in Seq(Run)
  BY DEF CoreInv, TypeOK, ProcRecord, EnqRecord
<1> USE DEF procVars, queueVars, budget, ProcFrame, ZFrame, EnqFrame, CmdFrame, Fault, Hit, Command, vars
<1>1. CASE StartRound
  <2>1. hist' = hist /\ proc' = proc /\ items' = items /\ enq' = enq /\ cmd' = cmd
        /\ excused' = excused
    BY <1>1 DEF StartRound
  <2> QED
    BY <1>0, <2>1, StillSame
<1>2. CASE Restart
  <2>1. /\ hist' = hist /\ items' = items /\ cmd' = cmd
        /\ enq' = [enq EXCEPT !["scanner"] = NoEnq]
        /\ proc' = Forget(UNION {go[i].proc : i \in Slot})
        /\ excused' = IF enq["scanner"].pc \in {"swapped", "undo"}
                      THEN excused \cup {enq["scanner"].run} ELSE excused
    BY <1>2 DEF Restart
  <2> QED
    BY <1>0, <2>1, CallLost, ForgetFacts DEF Enqueuer
<1>3. ASSUME NEW i \in Slot, GoAlive(i) PROVE ExpectedInv'
  <2>1. hist' = hist /\ proc' = proc /\ items' = items /\ enq' = enq /\ cmd' = cmd
        /\ excused' = excused
    BY <1>3 DEF GoAlive
  <2> QED
    BY <1>0, <2>1, StillSame
<1>4. ASSUME NEW i \in Slot, GoStatus(i) PROVE ExpectedInv'
  <2>1. /\ hist' = hist /\ items' = items /\ enq' = enq /\ cmd' = cmd
        /\ excused' = excused
    BY <1>4 DEF GoStatus
  <2>2. CASE proc' = proc
    BY <1>0, <2>1, <2>2, StillSame
  <2>3. ASSUME NEW p \in Proc, proc[p] = NoProc,
               proc' = [proc EXCEPT ![p] = [NoProc EXCEPT !.run = go[i].run, !.pc = "launched"]]
        PROVE  ExpectedInv'
    <3>1. go[i].run \in Run
      BY <1>4 DEF CoreInv, RunInv, GoRuns, GoStatus
    <3>2. proc[p].pc = "free" /\ \A q \in Proc : q # p => proc'[q] = proc[q]
      BY <1>0, <2>3, <3>1, LaunchFacts, NoProcFacts
    <3> QED
      BY <1>0, <2>1, <3>2, StillSame
  <2> QED
    BY <1>4, <2>2, <2>3 DEF GoStatus
<1>5. ASSUME NEW i \in Slot, GoDrop(i) PROVE ExpectedInv'
  <2>1. /\ items' = items /\ cmd' = cmd /\ proc' = proc /\ excused' = excused /\ enq' = enq
        /\ Swap(go[i].run, go[i].att, "queued", "aborted")
    BY <1>5 DEF GoDrop
  <2>2. go[i].run \in Run /\ "queued" \in Written /\ "aborted" \in Written
    BY <1>5 DEF CoreInv, RunInv, GoRuns, GoDrop, Written
  <2> QED
    BY <1>0, <2>1, <2>2, SwapRun
<1>6. ASSUME NEW i \in Slot, GoPoll(i) PROVE ExpectedInv'
  <2>1. /\ hist' = hist /\ items' = items /\ enq' = enq /\ cmd' = cmd
        /\ excused' = excused /\ proc' = Forget(go[i].proc)
    BY <1>6 DEF GoPoll, GiveUp
  <2> QED
    BY <1>0, <2>1, StillSame, ForgetFacts
<1>7. ASSUME NEW i \in Slot, GoGiveUp(i) PROVE ExpectedInv'
  <2>1. /\ hist' = hist /\ items' = items /\ enq' = enq /\ cmd' = cmd
        /\ excused' = excused /\ proc' = Forget(go[i].proc)
    BY <1>7 DEF GoGiveUp, GiveUp
  <2> QED
    BY <1>0, <2>1, StillSame, ForgetFacts
<1>8. ASSUME NEW i \in Slot, GoDequeue(i) PROVE ExpectedInv'
  <2>1. hist' = hist /\ proc' = proc /\ enq' = enq /\ cmd' = cmd
        /\ items' = Without(go[i].run) /\ excused' = ExcusedBy(go[i].run, hist)
    BY <1>8 DEF GoDequeue
  <2> QED
    BY <1>0, <2>1, TakenOut
<1>9. ASSUME NEW p \in Proc, PCheck(p) PROVE ExpectedInv'
  <2>1. /\ hist' = hist /\ items' = items /\ enq' = enq /\ cmd' = cmd
        /\ excused' = excused /\ Exit(p) /\ Status(proc[p].run) # "queued"
    BY <1>9 DEF PCheck
  <2>2. \A q \in Proc : q # p => proc'[q] = proc[q]
    BY <1>0, <2>1, ExitFacts
  <2>3. \A r \in Run : Status(r) = "queued" => ~Serves(p, r, hist)
    BY <2>1 DEF Serves
  <2> QED
    BY <1>0, <2>1, <2>2, <2>3, StillServed
<1>10. ASSUME NEW p \in Proc, PLock(p) PROVE ExpectedInv'
  <2>1. /\ hist' = hist /\ items' = items /\ enq' = enq /\ cmd' = cmd
        /\ excused' = excused /\ proc[p].pc = "launched"
    BY <1>10 DEF PLock
  <2>2. CASE Exit(p) /\ Status(proc[p].run) # "queued"
    <3>1. \A q \in Proc : q # p => proc'[q] = proc[q]
      BY <1>0, <2>2, ExitFacts
    <3>2. \A r \in Run : Status(r) = "queued" => ~Serves(p, r, hist)
      BY <2>2 DEF Serves
    <3> QED
      BY <1>0, <2>1, <3>1, <3>2, StillServed
  <2>3. CASE PTo(p, "locked")
    <3>1. /\ proc'[p].pc = "locked" /\ proc'[p].run = proc[p].run
          /\ \A q \in Proc : q # p => proc'[q] = proc[q]
      BY <1>0, <2>3, PToFacts
    <3>2. \A r \in Run : Serves(p, r, hist) => Serves(p, r, hist)'
      BY <2>1, <3>1 DEF Serves, Starting
    <3> QED
      BY <1>0, <2>1, <3>1, <3>2, StillServed
  <2> QED
    BY <1>10, <2>2, <2>3 DEF PLock, StillQueued
<1>11. ASSUME NEW p \in Proc, PPrepare(p) PROVE ExpectedInv'
  <2>0. PICK r0 \in Run : r0 = proc[p].run
    BY <1>11 DEF PPrepare, CoreInv, RunInv, ProcRuns
  <2>1. /\ items' = items /\ enq' = enq /\ cmd' = cmd /\ excused' = excused
        /\ proc[p].pc = "locked"
    BY <1>11 DEF PPrepare
  <2>2. "failed" \in AttemptStatus /\ "empty" \in AttemptStatus
        /\ "failed" \in Written /\ "empty" \notin Written
    BY DEF AttemptStatus, Written
  <2>3. CASE hist' = [hist EXCEPT ![r0] = Append(@, "failed")] /\ Exit(p)
    <3>1. StatusOf(hist', r0) = "failed" /\ \A q \in Run : q # r0 => hist'[q] = hist[q]
      <4>1. /\ hist' \in [Run -> Seq(AttemptStatus)] /\ Len(hist'[r0]) = Len(hist[r0]) + 1
            /\ hist'[r0][Len(hist[r0]) + 1] = "failed"
            /\ \A j \in 1 .. Len(hist[r0]) : hist'[r0][j] = hist[r0][j]
            /\ \A q \in Run : q # r0 => hist'[q] = hist[q]
        BY <1>0, <2>2, <2>3, AppendFacts
      <4> QED
        BY ZenonT(60), <1>0, <2>2, <4>1, AppendLatest
    <3>2. \A q \in Proc : q # p => proc'[q] = proc[q]
      BY <1>0, <2>3, ExitFacts
    <3> QED
      BY <1>0, <2>0, <2>1, <3>1, <3>2, OtherRuns
  <2>4. CASE /\ hist' = [hist EXCEPT ![r0] = Append(@, "empty")]
             /\ proc' = [proc EXCEPT ![p].pc = "acquired", ![p].beat = "fresh",
                                     ![p].att = Len(hist[r0]) + 1]
    <3>1. Len(hist[r0]) \in Nat /\ Len(hist[r0]) + 1 \in Nat
      BY <1>0, <2>2
    <3>2. /\ LatestOf(hist', r0) = LatestOf(hist, r0) /\ StatusOf(hist', r0) = StatusOf(hist, r0)
          /\ \A q \in Run : q # r0 => hist'[q] = hist[q]
      <4>1. /\ hist' \in [Run -> Seq(AttemptStatus)] /\ Len(hist'[r0]) = Len(hist[r0]) + 1
            /\ hist'[r0][Len(hist[r0]) + 1] = "empty"
            /\ \A j \in 1 .. Len(hist[r0]) : hist'[r0][j] = hist[r0][j]
            /\ \A q \in Run : q # r0 => hist'[q] = hist[q]
        BY <1>0, <2>2, <2>4, AppendFacts
      <4> QED
        BY ZenonT(60), <1>0, <2>2, <4>1, AppendLatest
    <3>3. /\ proc'[p].pc = "acquired" /\ proc'[p].run = r0 /\ proc'[p].att = Len(hist[r0]) + 1
          /\ \A q \in Proc : q # p => proc'[q] = proc[q]
      <4>1. PICK n \in Nat : n = Len(hist[r0]) + 1
        BY <3>1
      <4>2. proc' = [proc EXCEPT ![p].pc = "acquired", ![p].beat = "fresh", ![p].att = n]
        BY <2>4, <4>1
      <4> QED
        BY ZenonT(60), <1>0, <2>0, <4>1, <4>2, AttachFacts
    <3>4. LatestOf(hist, r0) \in 0 .. Len(hist[r0])
      BY <1>0, <2>2, LatestFacts
    <3>5. Serves(p, r0, hist)'
      BY <3>1, <3>2, <3>3, <3>4 DEF Serves, Executing
    <3>6. Expected(r0)'
      BY <3>5 DEF Expected, Served
    <3> QED
      BY <1>0, <2>0, <2>1, <3>2, <3>3, <3>6, OtherRuns
  <2> QED
    BY <1>11, <2>0, <2>3, <2>4 DEF PPrepare
<1>12. ASSUME NEW p \in Proc, PAlready(p) PROVE ExpectedInv'
  <2>1. proc[p].pc = "acquired" /\ items' = items /\ enq' = enq /\ cmd' = cmd
    BY <1>12 DEF PAlready
  <2>2. CASE Leave(p)
    BY <1>0, <2>1, <2>2, LeaveRun
  <2>3. CASE PTo(p, "starting") /\ hist' = hist /\ excused' = excused
    <3>1. /\ proc'[p].pc = "starting" /\ proc'[p].run = proc[p].run
          /\ proc'[p].att = proc[p].att
          /\ \A q \in Proc : q # p => proc'[q] = proc[q]
      BY <1>0, <2>3, PToFacts
    <3>2. \A r \in Run : Serves(p, r, hist) => Serves(p, r, hist)'
      BY <2>1, <2>3, <3>1 DEF Serves, Starting, Executing
    <3> QED
      BY <1>0, <2>1, <2>3, <3>1, <3>2, StillServed
  <2> QED
    BY <1>12, <2>2, <2>3 DEF PAlready
<1>13. ASSUME NEW p \in Proc, PStart(p) PROVE ExpectedInv'
  <2>1. /\ items' = items /\ enq' = enq /\ cmd' = cmd /\ excused' = excused
        /\ proc[p].pc = "starting" /\ PTo(p, "running")
        /\ hist' = [hist EXCEPT ![proc[p].run][proc[p].att] = "running"]
    BY <1>13 DEF PStart
  <2> QED
    BY <1>0, <2>1, ProcWrites DEF Written, Writes
<1>14. ASSUME NEW p \in Proc, PFinish(p) PROVE ExpectedInv'
  <2>1. PICK s \in {"done", "failed"} : WriteOpen(p, s)
    BY <1>14 DEF PFinish
  <2>2. /\ items' = items /\ enq' = enq /\ cmd' = cmd /\ excused' = excused
        /\ proc[p].pc = "running" /\ PTo(p, "ended")
    BY <1>14 DEF PFinish
  <2> QED
    BY <1>0, <2>1, <2>2, ProcWritesOpen DEF Written
<1>15. ASSUME NEW p \in Proc, PStop(p) PROVE ExpectedInv'
  <2>1. /\ hist' = hist /\ items' = items /\ enq' = enq /\ cmd' = cmd
        /\ excused' = excused /\ Exit(p) /\ proc[p].pc = "ended"
    BY <1>15 DEF PStop
  <2>2. \A q \in Proc : q # p => proc'[q] = proc[q]
    BY <1>0, <2>1, ExitFacts
  <2> QED
    BY <1>0, <2>1, <2>2, StillSame
<1>16. ASSUME NEW p \in Proc, PInitFails(p) PROVE ExpectedInv'
  <2>1. proc[p].pc = "starting" /\ Leave(p) /\ items' = items /\ enq' = enq /\ cmd' = cmd
    BY <1>16 DEF PInitFails
  <2> QED
    BY <1>0, <2>1, LeaveRun
<1>17. ASSUME NEW p \in Proc, PProgress(p) PROVE ExpectedInv'
  <2>1. /\ items' = items /\ enq' = enq /\ cmd' = cmd /\ excused' = excused /\ proc' = proc
        /\ proc[p].pc = "running" /\ WriteOpen(p, "running")
    BY <1>17 DEF PProgress
  <2> QED
    BY <1>0, <2>1, ProcWritesOpen DEF Written
<1>18. ASSUME NEW p \in Proc, PCrash(p) PROVE ExpectedInv'
  <2>1. /\ hist' = hist /\ items' = items /\ enq' = enq /\ cmd' = cmd
        /\ excused' = excused \cup {proc[p].run}
    BY <1>18 DEF PCrash
  <2>2. Exit(p) \/ PTo(p, "dead")
    BY <1>18 DEF PCrash
  <2>3. \A q \in Proc : q # p => proc'[q] = proc[q]
    BY <1>0, <2>2, ExitFacts, PToFacts
  <2>4. \A r \in Run : r \notin excused' => ~Serves(p, r, hist)
    BY <2>1 DEF Serves
  <2> QED
    BY <1>0, <2>1, <2>3, <2>4, StillServed
<1>19. ASSUME NEW p \in Proc, Expire(p) PROVE ExpectedInv'
  <2>1. /\ hist' = hist /\ items' = items /\ enq' = enq /\ cmd' = cmd
        /\ excused' = excused
    BY <1>19 DEF Expire
  <2>2. /\ proc'[p].pc = proc[p].pc /\ proc'[p].run = proc[p].run
        /\ proc'[p].att = proc[p].att /\ \A q \in Proc : q # p => proc'[q] = proc[q]
    BY <1>0, <1>19, BeatFacts
  <2> QED
    BY <1>0, <2>1, <2>2, StillSame
<1>20. ASSUME NEW p \in Proc, Stall(p) PROVE ExpectedInv'
  <2>1. /\ hist' = hist /\ items' = items /\ enq' = enq /\ cmd' = cmd
        /\ excused' = excused
    BY <1>20 DEF Stall
  <2>2. /\ proc'[p].pc = proc[p].pc /\ proc'[p].run = proc[p].run
        /\ proc'[p].att = proc[p].att /\ \A q \in Proc : q # p => proc'[q] = proc[q]
    BY <1>0, <1>20, BeatFacts
  <2> QED
    BY <1>0, <2>1, <2>2, StillSame
<1>21. ASSUME NEW p \in Proc, Beat(p) PROVE ExpectedInv'
  <2>1. /\ hist' = hist /\ items' = items /\ enq' = enq /\ cmd' = cmd
        /\ excused' = excused
    BY <1>21 DEF Beat
  <2>2. /\ proc'[p].pc = proc[p].pc /\ proc'[p].run = proc[p].run
        /\ proc'[p].att = proc[p].att /\ \A q \in Proc : q # p => proc'[q] = proc[q]
    BY <1>0, <1>21, BeatFacts
  <2> QED
    BY <1>0, <2>1, <2>2, StillSame
<1>22. ASSUME NEW p \in Proc, ZList(p) PROVE ExpectedInv'
  <2>1. hist' = hist /\ proc' = proc /\ items' = items /\ enq' = enq /\ cmd' = cmd
        /\ excused' = excused
    BY <1>22 DEF ZList
  <2> QED
    BY <1>0, <2>1, StillSame
<1>23. CASE ZFind
  <2>1. hist' = hist /\ proc' = proc /\ items' = items /\ enq' = enq /\ cmd' = cmd
        /\ excused' = excused
    BY <1>23 DEF ZFind
  <2> QED
    BY <1>0, <2>1, StillSame
<1>24. CASE ZRepair
  <2>1. hist' = hist /\ proc' = proc /\ items' = items /\ enq' = enq /\ cmd' = cmd
        /\ excused' = excused
    BY <1>24 DEF ZRepair
  <2> QED
    BY <1>0, <2>1, StillSame
<1>25. CASE ZWrite
  <2>1. /\ items' = items /\ proc' = proc /\ enq' = enq /\ cmd' = cmd /\ excused' = excused
        /\ hist' = [hist EXCEPT ![z.run][z.att] = "failed"] /\ z.pc = "write"
    BY <1>25 DEF ZWrite
  <2>2. z.run \in Run /\ z.att \in 1 .. Len(hist[z.run])
        /\ "failed" \in Written /\ "failed" \in AttemptStatus
    BY <2>1 DEF CoreInv, RunInv, EntryRun, EntryInv, Written, AttemptStatus
  <2>3. /\ hist' \in [Run -> Seq(AttemptStatus)] /\ hist'[z.run][z.att] = "failed"
        /\ \A q \in Run : Len(hist'[q]) = Len(hist[q])
        /\ \A j \in 1 .. Len(hist[z.run]) : j # z.att => hist'[z.run][j] = hist[z.run][j]
        /\ \A q \in Run : q # z.run => hist'[q] = hist[q]
    BY <1>0, <2>1, <2>2, SetFacts
  <2>4. items' = items /\ proc' = proc /\ enq' = enq /\ cmd' = cmd /\ excused' = excused
    BY <2>1
  <2> QED
    BY <1>0, <2>2, <2>3, <2>4, WriteRun
<1>26. CASE ZRemove
  <2>1. /\ hist' = hist /\ items' = items /\ enq' = enq /\ cmd' = cmd
        /\ excused' = excused
    BY <1>26 DEF ZRemove
  <2>2. \A q \in Proc : \/ proc[q].pc = "dead"
                        \/ /\ proc'[q].pc = proc[q].pc /\ proc'[q].run = proc[q].run
                           /\ proc'[q].att = proc[q].att
    BY <1>0, <1>26, RemoveFacts
  <2> QED
    BY <1>0, <2>1, <2>2, StillSame
<1>27. ASSUME NEW a \in Enqueuer, EnqSwap(a) PROVE ExpectedInv'
  <2> DEFINE e == enq[a]
  <2>1. /\ items' = items /\ cmd' = cmd /\ proc' = proc /\ excused' = excused
        /\ e.pc = "read" /\ Swap(e.run, e.att, e.from, "queued")
    BY <1>27 DEF EnqSwap
  <2>2. e.run \in Run /\ e.from \in Written /\ "queued" \in Written
    BY <1>0, <2>1 DEF CoreInv, RunInv, EnqRuns, EnqRecord, Written
  <2>3. CASE ~Swaps(e.run, e.att, e.from)
    <3>1. hist' = hist /\ enq' = [enq EXCEPT ![a] = NoEnq]
      BY <1>27, <2>1, <2>3 DEF EnqSwap, Swap
    <3>2. \A b \in Enqueuer : b # a => enq'[b] = enq[b]
      BY <1>0, <3>1, EnqEndFacts
    <3> QED
      BY <1>0, <2>1, <3>1, <3>2, StillSame
  <2>4. CASE Swaps(e.run, e.att, e.from)
    <3>1. /\ \A q \in Run : q # e.run => hist'[q] = hist[q]
          /\ LatestOf(hist', e.run) = e.att
      BY <1>0, <2>1, <2>2, <2>4, SwapFacts
    <3>2. enq' = [enq EXCEPT ![a].pc = "swapped"]
      BY <1>27, <2>4 DEF EnqSwap
    <3>3. /\ enq'[a].pc = "swapped" /\ enq'[a].run = e.run /\ enq'[a].att = e.att
          /\ \A b \in Enqueuer : b # a => enq'[b] = enq[b]
      BY <1>0, <3>2, EnqToFacts
    <3>0. PICK r0 \in Run : r0 = e.run
      BY <2>2
    <3>4. Expected(r0)'
      BY <3>0, <3>1, <3>3 DEF Expected, Called, Latest
    <3>5. ASSUME NEW r \in Run, StatusOf(hist', r) = "queued", r \notin excused', r # r0
          PROVE  Expected(r)'
      <4>1. hist'[r] = hist[r]
        BY <3>0, <3>1, <3>5
      <4>2. \A b \in Enqueuer : enq[b].run = r => enq'[b] = enq[b]
        BY <3>0, <3>3, <3>5
      <4> HIDE DEF e
      <4> QED
        BY <1>0, <2>1, <3>5, <4>1, <4>2, QuietRun
    <3> QED
      BY <3>4, <3>5 DEF ExpectedInv, Status
  <2> QED
    BY <2>3, <2>4
<1>28. ASSUME NEW a \in Enqueuer, EnqAppend(a) PROVE ExpectedInv'
  <2>1. /\ hist' = hist /\ cmd' = cmd /\ proc' = proc /\ excused' = excused
        /\ enq[a].pc = "swapped"
    BY <1>28 DEF EnqAppend
  <2>2. CASE items' = Append(items, enq[a].run) /\ enq' = [enq EXCEPT ![a] = NoEnq]
    <3>1. enq[a].run \in Run /\ items \in Seq(Run)
      BY <2>1 DEF CoreInv, RunInv, TypeOK, EnqRuns
    <3>2. ToSet(items') = ToSet(items) \cup {enq[a].run}
      BY <2>2, <3>1, AppendSet
    <3>3. \A b \in Enqueuer : b # a => enq'[b] = enq[b]
      BY <1>0, <2>2, EnqEndFacts
    <3>4. \A b \in Enqueuer : enq[b].pc \in {"swapped", "undo"}
             => \/ enq'[b].run = enq[b].run /\ enq'[b].att = enq[b].att
                   /\ enq'[b].pc \in {"swapped", "undo"}
                \/ enq[b].run \in ToSet(items') \cup excused'
      BY <3>2, <3>3
    <3>5. \A q \in Proc : \A r \in Run : Serves(q, r, hist) => Serves(q, r, hist)'
      BY <2>1, ServesKept
    <3>6. \A r \in Run : r \in ToSet(items) => r \in ToSet(items')
      BY <3>2
    <3>7. hist' = hist /\ cmd' = cmd /\ excused \subseteq excused'
      BY <2>1
    <3> QED
      BY <3>4, <3>5, <3>6, <3>7, SameHistory
  <2>3. CASE items' = items /\ enq' = [enq EXCEPT ![a].pc = "undo"]
    <3>1. /\ enq'[a].pc = "undo" /\ enq'[a].run = enq[a].run /\ enq'[a].att = enq[a].att
          /\ \A b \in Enqueuer : b # a => enq'[b] = enq[b]
      BY <1>0, <2>3, EnqToFacts
    <3> QED
      BY <1>0, <2>1, <2>3, <3>1, StillSame
  <2> QED
    BY <1>28, <2>2, <2>3 DEF EnqAppend
<1>29. ASSUME NEW a \in Enqueuer, EnqUndo(a) PROVE ExpectedInv'
  <2>1. /\ items' = items /\ cmd' = cmd /\ proc' = proc /\ excused' = excused
        /\ enq[a].pc = "undo" /\ Swap(enq[a].run, enq[a].att, "queued", enq[a].from)
        /\ enq' = [enq EXCEPT ![a] = NoEnq]
    BY <1>29 DEF EnqUndo
  <2>2. enq[a].run \in Run /\ enq[a].from \in Written /\ "queued" \in Written
        /\ enq[a].from # "queued"
    BY <1>0, <2>1 DEF CoreInv, RunInv, EnqRuns, EnqRecord, Written, FromInv
  <2>3. \A b \in Enqueuer : b # a => enq'[b] = enq[b]
    BY <1>0, <2>1, EnqEndFacts
  <2> QED
    BY <1>0, <2>1, <2>2, <2>3, SwapRun
<1>30. CASE UserDies
  <2>1. /\ hist' = hist /\ items' = items /\ cmd' = cmd /\ proc' = proc
        /\ enq' = [enq EXCEPT !["user"] = NoEnq]
        /\ excused' = excused \cup {enq["user"].run}
    BY <1>30 DEF UserDies
  <2> QED
    BY <1>0, <2>1, CallLost DEF Enqueuer
<1>31. ASSUME NEW r \in Run, ScanRetry(r) PROVE ExpectedInv'
  <2>1. /\ hist' = hist /\ items' = items /\ cmd' = cmd /\ proc' = proc
        /\ excused' = excused /\ enq["scanner"] = NoEnq /\ Status(r) # "none"
        /\ Read("scanner", r)
    BY <1>31 DEF ScanRetry
  <2>2. \A b \in Enqueuer : b # "scanner" => enq'[b] = enq[b]
    BY <1>0, <2>1, EnqReadFacts DEF Enqueuer
  <2>3. \A b \in Enqueuer : enq[b].pc \in {"swapped", "undo"} => enq'[b] = enq[b]
    BY <2>1, <2>2 DEF NoEnq
  <2> QED
    BY <1>0, <2>1, <2>3, StillSame
<1>32. ASSUME NEW r \in Run, UserRetry(r) PROVE ExpectedInv'
  <2>1. /\ hist' = hist /\ items' = items /\ cmd' = cmd /\ proc' = proc
        /\ excused' = excused /\ enq["user"] = NoEnq /\ Status(r) # "none"
        /\ Read("user", r)
    BY <1>32 DEF UserRetry
  <2>2. \A b \in Enqueuer : b # "user" => enq'[b] = enq[b]
    BY <1>0, <2>1, EnqReadFacts DEF Enqueuer
  <2>3. \A b \in Enqueuer : enq[b].pc \in {"swapped", "undo"} => enq'[b] = enq[b]
    BY <2>1, <2>2 DEF NoEnq
  <2> QED
    BY <1>0, <2>1, <2>3, StillSame
<1>33. ASSUME NEW r \in Run, CancelAutoRetry(r) PROVE ExpectedInv'
  <2>1. /\ items' = items /\ cmd' = cmd /\ proc' = proc /\ excused' = excused /\ enq' = enq
        /\ Swap(r, Latest(r), "failed", "aborted")
    BY <1>33 DEF CancelAutoRetry
  <2>2. "failed" \in Written /\ "aborted" \in Written
    BY DEF Written
  <2> QED
    BY <1>0, <2>1, <2>2, SwapRun
<1>34. ASSUME NEW r \in Run, DequeueAbort(r) PROVE ExpectedInv'
  <2>1. /\ items' = items /\ proc' = proc /\ enq' = enq /\ cmd = NoCmd /\ hist' = Aborted(r)
        /\ cmd'.run = r /\ excused' = ExcusedBy(r, Aborted(r)) /\ Status(r) = "queued"
    BY <1>34 DEF DequeueAbort
  <2>2. \A q \in Run : q # r => hist'[q] = hist[q]
    BY <1>0, <2>1, AbortFacts
  <2>3. excused \subseteq excused' /\ \A q \in Run : cmd.run # q
    BY <2>1 DEF ExcusedBy, NoCmd, NoRun, Run
  <2>4. ASSUME NEW q \in Run, q # r, StatusOf(hist', q) = "queued", q \notin excused'
        PROVE  Expected(q)'
    <3>1. hist'[q] = hist[q]
      BY <2>2, <2>4
    <3>2. items' = items /\ proc' = proc /\ enq' = enq
      BY <2>1
    <3> QED
      BY <1>0, <2>3, <2>4, <3>1, <3>2, QuietRun
  <2>5. Expected(r)'
    BY <2>1 DEF Expected
  <2> QED
    BY <2>4, <2>5 DEF ExpectedInv, Status
<1>35. CASE Suspend
  <2>1. hist' = hist /\ proc' = proc /\ items' = items /\ enq' = enq /\ cmd' = cmd
        /\ excused' = excused
    BY <1>35 DEF Suspend
  <2> QED
    BY <1>0, <2>1, StillSame
<1>36. CASE DequeueItem
  <2>1. hist' = hist /\ proc' = proc /\ enq' = enq /\ cmd' = NoCmd
        /\ items' = Without(cmd.run) /\ excused' = ExcusedBy(cmd.run, hist)
    BY <1>36 DEF DequeueItem
  <2> QED
    BY <1>0, <2>1, TakenOut
<1>37. CASE UNCHANGED vars
  BY <1>0, <1>37, StillSame
<1> QED
  BY <1>1, <1>2, <1>3, <1>4, <1>5, <1>6, <1>7, <1>8, <1>9, <1>10, <1>11,
     <1>12, <1>13, <1>14, <1>15, <1>16, <1>17, <1>18, <1>19, <1>20, <1>21,
     <1>22, <1>23, <1>24, <1>25, <1>26, <1>27, <1>28, <1>29, <1>30, <1>31,
     <1>32, <1>33, <1>34, <1>35, <1>36, <1>37 DEF Next, GoStep, PStep,
     ZStep, EnqStep

\* EnqueueRetry keeps the status it found, which was not queued.
LEMMA FromStep ==
  ASSUME CoreInv, FromInv, [Next]_vars
  PROVE  FromInv'
<1>0. enq \in [Enqueuer -> EnqRecord] /\ hist \in [Run -> Seq(AttemptStatus)]
      /\ {"scanner", "user"} = Enqueuer
  BY DEF CoreInv, TypeOK, EnqRecord, Enqueuer
<1>1. CASE enq' = enq
  BY <1>1 DEF FromInv
<1>2. ASSUME NEW a \in Enqueuer, enq' = [enq EXCEPT ![a] = NoEnq] PROVE FromInv'
  BY <1>0, <1>2, EnqEndFacts DEF FromInv
<1>3. ASSUME NEW a \in Enqueuer, NEW c \in {"swapped", "undo"}, enq' = [enq EXCEPT ![a].pc = c]
      PROVE  FromInv'
  BY <1>0, <1>3, EnqToFacts DEF FromInv
<1>4. ASSUME NEW a \in Enqueuer, NEW r \in Run, Status(r) \notin {"none", "queued"}, Read(a, r)
      PROVE  FromInv'
  BY <1>0, <1>4, EnqReadFacts DEF FromInv
<1>5. CASE Restart \/ UserDies
  BY <1>0, <1>2, <1>5 DEF Restart, UserDies
<1>6. ASSUME NEW a \in Enqueuer, EnqStep(a) PROVE FromInv'
  BY <1>2, <1>3, <1>6 DEF EnqStep, EnqSwap, EnqAppend, EnqUndo
<1>7. ASSUME NEW r \in Run, ScanRetry(r) \/ UserRetry(r) PROVE FromInv'
  BY <1>0, <1>4, <1>7 DEF ScanRetry, UserRetry
<1> QED
  BY <1>1, <1>5, <1>6, <1>7, WritersAre DEF Writers

\* A queued run waits for an item of the queue, a process that will overwrite
\* its status or a call in flight, in every interleaving of the processor, the
\* processes, the detector, EnqueueRetry and the commands; the exceptions are
\* the events that excused names (EnqueueRetry, DequeueByDAGRunID,
\* AbortQueuedDAGRun).
THEOREM QueuedRunsWait == Spec => []QueuedHasItem
<1> DEFINE Inv == CoreInv /\ FromInv /\ ExpectedInv
<1>1. Init => Inv
  <2> SUFFICES ASSUME Init PROVE FromInv /\ ExpectedInv
    BY CoreInit
  <2>1. FromInv
    BY DEF Init, NoEnq, FromInv
  <2>2. PICK b \in Budgets :
          /\ items = [i \in DOMAIN b.retries |-> i]
          /\ hist = [r \in Run |-> IF r \in DOMAIN b.retries THEN <<"queued">> ELSE <<>>]
    BY DEF Init
  <2>3. ASSUME NEW r \in Run, Status(r) = "queued" PROVE r \in ToSet(items)
    <3>1. hist \in [Run -> Seq(AttemptStatus)]
      BY CoreInit DEF CoreInv, TypeOK
    <3>2. hist[r] # <<>>
      <4>1. LatestOf(hist, r) # 0
        BY <2>3 DEF Status, StatusOf
      <4>2. LatestOf(hist, r) \in 0 .. Len(hist[r])
        BY <3>1, LatestFacts
      <4> QED
        BY <4>1, <4>2
    <3>3. r \in DOMAIN b.retries
      BY <2>2, <3>2
    <3> QED
      BY <2>2, <3>3 DEF ToSet
  <2> QED
    BY <2>1, <2>3 DEF ExpectedInv, Expected
<1>2. Inv /\ [Next]_vars => Inv'
  BY CoreStep, FromStep, ExpectedStep
<1>3. Inv => QueuedHasItem
  BY DEF ExpectedInv, Expected, Served, Called, QueuedHasItem, Awaited
<1> QED
  BY <1>1, <1>2, <1>3, PTL DEF Spec

-----------------------------------------------------------------------------
(* The queue's limit.                                                      *)

\* The processes that the processor sees, and the goroutines that may still
\* start one.
Engaged == {p \in Proc : proc[p].flag = "seen" /\ (Starting(p) \/ Executing(p))}
EngagedRuns == {proc[p].run : p \in Engaged}
Pending == {i \in Slot : go[i].pc \in {"alive", "status"}}

\* While a process starts, a goroutine of the processor waits for it.
WatchInv == \A p \in Proc : Starting(p) /\ proc[p].flag = "seen"
                              => \E i \in Slot : /\ go[i].pc = "wait" /\ p \in go[i].proc
                                                 /\ go[i].run = proc[p].run

\* Every pending goroutine has a slot of its own.
SlotInv == Cardinality(EngagedRuns) + Cardinality(Pending) <= MaxConcurrency

\* No two goroutines that may start or await a process work on one run, no two
\* engaged processes execute one run, and a goroutine that found no heartbeat of
\* a run is about to start its only engaged process.
Busy == {i \in Slot : go[i].pc \in {"alive", "status", "wait"}}
ApartInv ==
  /\ \A i, j \in Busy : i # j => go[i].run # go[j].run
  /\ \A p, q \in Engaged : p # q => proc[p].run # proc[q].run
  /\ \A p \in Engaged, i \in Slot : go[i].pc = "status" => go[i].run # proc[p].run

\* No process becomes engaged and no goroutine pending.
Shrinks ==
  /\ \A p \in Proc : p \in Engaged' => p \in Engaged /\ proc'[p].run = proc[p].run
  /\ Pending' \subseteq Pending

\* The sets that the limit is about are finite.
LEMMA Finite ==
  ASSUME CoreInv
  PROVE  /\ IsFiniteSet(Run) /\ IsFiniteSet(Slot) /\ MaxConcurrency \in Nat
         /\ EngagedRuns \subseteq Run
         /\ IsFiniteSet(EngagedRuns) /\ Cardinality(EngagedRuns) \in Nat
         /\ IsFiniteSet(Pending) /\ Cardinality(Pending) \in Nat
<1>1. Runs \in Nat /\ MaxConcurrency \in Nat /\ 1 \in Int
  BY LocalQueueAssumption
<1>2. IsFiniteSet(Run) /\ IsFiniteSet(Slot)
  BY <1>1, FS_Interval DEF Run, Slot
<1>3. EngagedRuns \subseteq Run
  BY DEF EngagedRuns, Engaged, Starting, Executing, CoreInv, RunInv, ProcRuns
<1>4. Pending \subseteq Slot
  BY DEF Pending
<1>5. IsFiniteSet(EngagedRuns) /\ IsFiniteSet(Pending)
  BY <1>2, <1>3, <1>4, FS_Subset
<1> QED
  BY <1>1, <1>2, <1>3, <1>5, FS_CardinalityType

\* A step that does not change the goroutines engages nobody.
LEMMA EngagedKept ==
  ASSUME CoreInv, ProcChange, ~Launches
  PROVE  \A p \in Proc : p \in Engaged' =>
            /\ p \in Engaged /\ proc'[p].run = proc[p].run
            /\ Starting(p)' => Starting(p)
<1>0. proc \in [Proc -> ProcRecord] /\ ProcRuns /\ BeatInv
  BY DEF CoreInv, RunInv, TypeOK, ProcRecord
<1> USE DEF Engaged, Starting, Executing
<1>1. CASE Keeps
  BY <1>1 DEF Keeps
<1>2. CASE Forgets
  <2>1. PICK ps : proc' = Forget(ps)
    BY <1>2 DEF Forgets
  <2> QED
    BY <1>0, <2>1, ForgetFacts
<1>3. CASE Exits
  <2>1. PICK p \in Proc : Exit(p)
    BY <1>3 DEF Exits
  <2> QED
    BY <1>0, <2>1, ExitFacts, NoProcFacts
<1>4. CASE Attaches
  <2>1. PICK p \in Proc :
          /\ proc[p].pc = "locked"
          /\ proc' = [proc EXCEPT ![p].pc = "acquired", ![p].beat = "fresh",
                                  ![p].att = Len(hist[proc[p].run]) + 1]
    BY <1>4 DEF Attaches
  <2>2. proc[p].run \in Run /\ hist \in [Run -> Seq(AttemptStatus)]
    BY <1>0, <2>1 DEF ProcRuns, CoreInv, TypeOK
  <2>3. Len(hist[proc[p].run]) + 1 \in Nat
    BY <2>2
  <2>4. /\ proc'[p].pc = "acquired" /\ proc'[p].run = proc[p].run
        /\ proc'[p].flag = proc[p].flag
        /\ \A q \in Proc : q # p => proc'[q] = proc[q]
    BY <1>0, <2>1, <2>3, AttachFacts
  <2> QED
    BY ZenonT(60), <2>1, <2>4
<1>5. CASE Moves
  <2>1. PICK p \in Proc, c \in {"locked", "starting", "running", "ended", "dead"} :
          /\ PTo(p, c)
          /\ \/ proc[p].pc = "launched" /\ c = "locked"
             \/ proc[p].pc = "acquired" /\ c = "starting"
             \/ proc[p].pc = "starting" /\ c = "running"
             \/ c = "ended"
             \/ c = "dead"
    BY <1>5 DEF Moves
  <2>2. /\ proc'[p].pc = c /\ proc'[p].run = proc[p].run /\ proc'[p].flag = proc[p].flag
        /\ \A q \in Proc : q # p => proc'[q] = proc[q]
    BY <1>0, <2>1, PToFacts
  <2> QED
    BY <2>1, <2>2
<1>6. CASE Beats
  <2>1. PICK p \in Proc : Expire(p) \/ Stall(p) \/ Beat(p)
    BY <1>6 DEF Beats
  <2>2. /\ proc'[p].pc = proc[p].pc /\ proc'[p].run = proc[p].run
        /\ proc'[p].flag = IF Stall(p) THEN "held" ELSE proc[p].flag
        /\ \A q \in Proc : q # p => proc'[q] = proc[q]
    BY <1>0, <2>1, BeatFacts
  <2> QED
    BY <2>2
<1>7. CASE Removes
  <2>1. ZRemove
    BY <1>7 DEF Removes
  <2> QED
    BY <1>0, <2>1, RemoveFacts, NoProcFacts
<1> QED
  BY <1>1, <1>2, <1>3, <1>4, <1>5, <1>6, <1>7 DEF ProcChange

\* A step of the processor either starts a process or engages nobody.
LEMMA SlotCases ==
  ASSUME CoreInv, [Next]_vars
  PROVE  StartRound \/ Launches \/ Shrinks
<1>0. go \in [Slot -> GoRecord] /\ ProcChange
  BY ProcChanges DEF CoreInv, TypeOK, GoRecord
<1>1. SUFFICES ASSUME ~StartRound, ~Launches PROVE Pending' \subseteq Pending
  BY <1>0, EngagedKept DEF Shrinks
<1>2. CASE go' = go
  BY <1>2 DEF Pending
<1>3. CASE Restart
  BY <1>3 DEF Restart, Pending, NoGo
<1>4. ASSUME NEW i \in Slot, GoStep(i) PROVE Pending' \subseteq Pending
  <2>1. /\ \A j \in Slot : j # i => go'[j] = go[j]
        /\ go'[i].pc \in {"alive", "status"} => go[i].pc \in {"alive", "status"}
    <3>1. CASE GoAlive(i)
      BY <1>0, <3>1 DEF GoAlive, GoTo, GoRecord
    <3>2. CASE GoStatus(i)
      <4>1. \A j \in Slot : j # i => go'[j] = go[j]
        BY <1>0, <3>2 DEF GoStatus, GoTo
      <4> QED
        BY <3>2, <4>1 DEF GoStatus
    <3>3. CASE GoDrop(i)
      BY <1>0, <3>3 DEF GoDrop, GoTo, GoRecord
    <3>4. CASE GoPoll(i)
      BY <1>0, <3>4 DEF GoPoll, GoRecord
    <3>5. CASE GoGiveUp(i) \/ GoDequeue(i)
      BY <1>0, <3>5 DEF GoGiveUp, GiveUp, GoDequeue, NoGo
    <3> QED
      BY <1>4, <3>1, <3>2, <3>3, <3>4, <3>5 DEF GoStep
  <2> QED
    BY <2>1 DEF Pending
<1> QED
  BY <1>1, <1>2, <1>3, <1>4, WritersAre DEF Writers

\* A step that engages nobody keeps the limit.
LEMMA ShrinkKeeps ==
  ASSUME CoreInv, SlotInv, Shrinks
  PROVE  SlotInv'
<1>1. EngagedRuns' \subseteq EngagedRuns
  BY DEF Shrinks, EngagedRuns, Engaged
<1>2. /\ Cardinality(EngagedRuns') <= Cardinality(EngagedRuns)
      /\ Cardinality(EngagedRuns') \in Nat
  BY <1>1, Finite, FS_Subset, FS_CardinalityType
<1>3. Pending' \subseteq Pending
  BY DEF Shrinks
<1>4. /\ Cardinality(Pending') <= Cardinality(Pending)
      /\ Cardinality(Pending') \in Nat
  BY <1>3, Finite, FS_Subset, FS_CardinalityType
<1> QED
  BY <1>2, <1>4, Finite DEF SlotInv

\* A round counts the runs whose heartbeats are fresh: all that are engaged.
LEMMA RoundKeeps ==
  ASSUME CoreInv, WatchInv, StartRound
  PROVE  SlotInv'
<1> DEFINE alive == {r \in Run : IsRunAlive(r)}
<1>1. proc' = proc /\ FreeSlots > 0 /\ \A i \in Slot : go[i].pc = "idle"
  BY DEF StartRound, procVars
<1>2. \A p \in Engaged : Watched(p)
  BY <1>1 DEF WatchInv, Engaged, Watched
<1>3. EngagedRuns \subseteq alive
  BY <1>2, Finite DEF CoreInv, BeatInv, IsRunAlive, EngagedRuns, Engaged
<1>4. IsFiniteSet(alive) /\ Cardinality(alive) \in Nat
  BY Finite, FS_Subset, FS_CardinalityType
<1>5. Cardinality(EngagedRuns) <= Cardinality(alive)
  BY <1>3, <1>4, FS_Subset
<1>6. FreeSlots = MaxConcurrency - Cardinality(alive) /\ FreeSlots \in Int
  BY <1>4, Finite DEF FreeSlots, CountAlive
<1>7. Pending' \subseteq 1 .. FreeSlots
  <2>1. ASSUME NEW i \in Slot, go'[i].pc # "idle" PROVE i <= FreeSlots
    BY <2>1 DEF StartRound, NoGo
  <2>2. \A i \in Slot : i \in Int /\ i >= 1
    BY Finite DEF Slot
  <2> QED
    BY <1>6, <2>1, <2>2 DEF Pending
<1>8. IsFiniteSet(1 .. FreeSlots) /\ Cardinality(1 .. FreeSlots) = FreeSlots
  BY <1>1, <1>6, FS_Interval
<1>9. Cardinality(Pending') <= FreeSlots /\ Cardinality(Pending') \in Nat
  BY <1>7, <1>8, FS_Subset, FS_CardinalityType
<1>10. Engaged' = Engaged /\ EngagedRuns' = EngagedRuns
  BY <1>1 DEF Engaged, EngagedRuns, Starting, Executing
<1>11. Cardinality(EngagedRuns) \in Nat /\ MaxConcurrency \in Nat
  BY Finite
<1> HIDE DEF alive
<1> QED
  BY <1>4, <1>5, <1>6, <1>9, <1>10, <1>11 DEF SlotInv

\* A goroutine that starts a process gives its place to it.
LEMMA LaunchKeeps ==
  ASSUME CoreInv, SlotInv, Launches
  PROVE  SlotInv'
<1>0. proc \in [Proc -> ProcRecord] /\ go \in [Slot -> GoRecord]
  BY DEF CoreInv, TypeOK, ProcRecord, GoRecord
<1>1. PICK p \in Proc, r \in Run, i \in Slot :
        /\ proc' = [proc EXCEPT ![p] = [NoProc EXCEPT !.run = r, !.pc = "launched"]]
        /\ go[i].pc = "status"
        /\ go' = [go EXCEPT ![i].pc = "wait", ![i].proc = {p}]
  BY DEF Launches
<1>2. proc'[p].run = r /\ \A q \in Proc : q # p => proc'[q] = proc[q]
  BY ZenonT(60), <1>0, <1>1, LaunchFacts
<1>3. \A q \in Proc : q \in Engaged' => q = p \/ q \in Engaged
  BY <1>2 DEF Engaged, Starting, Executing
<1>4. EngagedRuns' \subseteq EngagedRuns \cup {r}
  BY <1>2, <1>3 DEF EngagedRuns, Engaged
<1>5. /\ Cardinality(EngagedRuns \cup {r}) <= Cardinality(EngagedRuns) + 1
      /\ IsFiniteSet(EngagedRuns \cup {r}) /\ Cardinality(EngagedRuns \cup {r}) \in Nat
  <2>1. IsFiniteSet(EngagedRuns) /\ Cardinality(EngagedRuns) \in Nat
    BY Finite
  <2>2. /\ IsFiniteSet(EngagedRuns \cup {r})
        /\ Cardinality(EngagedRuns \cup {r}) =
             IF r \in EngagedRuns THEN Cardinality(EngagedRuns)
                                  ELSE Cardinality(EngagedRuns) + 1
    BY <2>1, FS_AddElement
  <2> QED
    BY <2>1, <2>2
<1>6. /\ Cardinality(EngagedRuns') <= Cardinality(EngagedRuns \cup {r})
      /\ Cardinality(EngagedRuns') \in Nat
  BY <1>4, <1>5, FS_Subset, FS_CardinalityType
<1>7. i \in Pending /\ Pending' = Pending \ {i}
  BY <1>0, <1>1 DEF Pending, GoRecord
<1>8. Cardinality(Pending') = Cardinality(Pending) - 1
  BY <1>7, Finite, FS_RemoveElement
<1> QED
  BY <1>5, <1>6, <1>8, Finite DEF SlotInv

\* Whoever stops waiting for a process forgets it.
LEMMA WatchStep ==
  ASSUME CoreInv, WatchInv, [Next]_vars
  PROVE  WatchInv'
<1>0. proc \in [Proc -> ProcRecord] /\ go \in [Slot -> GoRecord] /\ ProcChange
  BY ProcChanges DEF CoreInv, TypeOK, ProcRecord, GoRecord
<1>1. ASSUME proc' = proc, \A i \in Slot : go[i].pc = "wait" => go'[i] = go[i]
      PROVE  WatchInv'
  BY <1>1 DEF WatchInv, Starting
<1>2. CASE go' = go
  <2>1. ~Launches
    <3>1. SUFFICES ASSUME Launches PROVE FALSE
      OBVIOUS
    <3>2. PICK p \in Proc, i \in Slot :
            go[i].pc = "status" /\ go' = [go EXCEPT ![i].pc = "wait", ![i].proc = {p}]
      BY <3>1 DEF Launches
    <3>3. go'[i].pc = "wait"
      BY <1>0, <3>2 DEF GoRecord
    <3> QED
      BY <1>2, <3>2, <3>3
  <2>2. \A p \in Proc : Starting(p)' /\ proc'[p].flag = "seen"
                          => /\ Starting(p) /\ proc[p].flag = "seen"
                             /\ proc'[p].run = proc[p].run
    BY <1>0, <2>1, EngagedKept DEF Engaged
  <2> QED
    BY <1>2, <2>2 DEF WatchInv
<1>3. CASE StartRound
  BY <1>1, <1>3 DEF StartRound, procVars
<1>4. ASSUME NEW ps, proc' = Forget(ps),
             \A i \in Slot : go[i].pc = "wait" => go'[i] = go[i] \/ go[i].proc \subseteq ps
      PROVE  WatchInv'
  <2>1. ASSUME NEW p \in Proc, Starting(p)', proc'[p].flag = "seen"
        PROVE  \E i \in Slot : /\ go'[i].pc = "wait" /\ p \in go'[i].proc
                                /\ go'[i].run = proc'[p].run
    <3>1. Starting(p) /\ p \notin ps /\ proc[p].flag = "seen" /\ proc'[p].run = proc[p].run
      BY <1>0, <1>4, <2>1, ForgetFacts DEF Starting
    <3> QED
      BY <1>4, <3>1 DEF WatchInv
  <2> QED
    BY <2>1 DEF WatchInv
<1>5. CASE Restart
  <2>1. proc' = Forget(UNION {go[i].proc : i \in Slot})
    BY <1>5 DEF Restart
  <2>2. \A i \in Slot : go[i].proc \subseteq UNION {go[j].proc : j \in Slot}
    OBVIOUS
  <2> QED
    BY <1>4, <2>1, <2>2
<1>6. ASSUME NEW i \in Slot, GoStep(i) PROVE WatchInv'
  <2>1. CASE GoAlive(i) \/ GoDrop(i)
    BY <1>0, <1>1, <2>1 DEF GoAlive, GoDrop, GoTo, procVars
  <2>2. CASE GoDequeue(i)
    BY <1>0, <1>1, <2>2 DEF GoDequeue, procVars
  <2>3. CASE GoPoll(i) \/ GoGiveUp(i)
    <3>1. proc' = Forget(go[i].proc) /\ \A j \in Slot : j # i => go'[j] = go[j]
      BY <1>0, <2>3 DEF GoPoll, GoGiveUp, GiveUp
    <3>2. PICK ps : ps = go[i].proc
      OBVIOUS
    <3> QED
      BY <1>4, <3>1, <3>2
  <2>4. CASE GoStatus(i)
    <3>1. go[i].pc = "status" /\ \A j \in Slot : j # i => go'[j] = go[j]
      BY <1>0, <2>4 DEF GoStatus, GoTo
    <3>2. CASE proc' = proc
      BY <1>1, <3>1, <3>2
    <3>3. ASSUME NEW p \in Proc,
                 proc' = [proc EXCEPT ![p] = [NoProc EXCEPT !.run = go[i].run, !.pc = "launched"]],
                 go' = [go EXCEPT ![i].pc = "wait", ![i].proc = {p}]
          PROVE  WatchInv'
      <4>1. go[i].run \in Run
        BY <3>1 DEF CoreInv, RunInv, GoRuns
      <4>2. proc'[p].run = go[i].run /\ \A q \in Proc : q # p => proc'[q] = proc[q]
        BY <1>0, <3>3, <4>1, LaunchFacts
      <4>3. go'[i].pc = "wait" /\ p \in go'[i].proc /\ go'[i].run = go[i].run
        BY <1>0, <3>3 DEF GoRecord
      <4> QED
        BY <3>1, <4>2, <4>3 DEF WatchInv, Starting
    <3> QED
      BY <2>4, <3>2, <3>3 DEF GoStatus
  <2> QED
    BY <1>6, <2>1, <2>2, <2>3, <2>4 DEF GoStep
<1> QED
  BY <1>2, <1>3, <1>5, <1>6, WritersAre DEF Writers

\* The limit and its invariants hold at the start.
LEMMA SlotInit == Init => WatchInv /\ SlotInv /\ ApartInv
<1> SUFFICES ASSUME Init PROVE WatchInv /\ SlotInv /\ ApartInv
  OBVIOUS
<1>1. \A p \in Proc : proc[p] = NoProc
  BY DEF Init
<1>2. Engaged = {} /\ WatchInv
  BY <1>1, NoProcFacts DEF Engaged, WatchInv, Starting, Executing
<1>3. EngagedRuns = {}
  BY <1>2 DEF EngagedRuns
<1>4. Pending = {}
  BY DEF Init, Pending, NoGo
<1>5. SlotInv
  BY <1>3, <1>4, FS_EmptySet, LocalQueueAssumption DEF SlotInv
<1>6. \A i \in Slot : go[i].pc = "idle"
  BY DEF Init, NoGo
<1> QED
  BY <1>2, <1>5, <1>6 DEF ApartInv, Busy

\* The queue's limit, for any number of slots and processes: the runs that
\* execute under the processor's eyes never exceed it, although the heartbeats
\* are counted before a batch is started and processes come up later
\* (ProcessQueueItems, waitForStartup).
THEOREM LimitIsKept == Spec => []SlotsBound
<1> DEFINE Inv == CoreInv /\ WatchInv /\ SlotInv
<1>1. Init => Inv
  BY CoreInit, SlotInit
<1>2. Inv /\ [Next]_vars => Inv'
  BY CoreStep, WatchStep, SlotCases, ShrinkKeeps, RoundKeeps, LaunchKeeps
<1>3. Inv => SlotsBound
  <2> SUFFICES ASSUME Inv PROVE SlotsBound
    OBVIOUS
  <2> DEFINE runs == {proc[p].run : p \in {q \in Proc : Watched(q)}}
  <2>1. runs \subseteq EngagedRuns
    BY DEF EngagedRuns, Engaged, Watched
  <2>2. Cardinality(runs) <= Cardinality(EngagedRuns) /\ Cardinality(runs) \in Nat
    BY <2>1, Finite, FS_Subset, FS_CardinalityType
  <2> HIDE DEF runs
  <2>3. Cardinality(runs) <= MaxConcurrency
    BY <2>2, Finite DEF SlotInv
  <2> QED
    BY <2>3 DEF SlotsBound, runs
<1> QED
  BY <1>1, <1>2, <1>3, PTL DEF Spec

-----------------------------------------------------------------------------
(* One process for one run.                                                *)

\* The items that a round selects are of different runs.
DistinctRound ==
  StartRound => \A i, j \in Slot : i # j /\ go'[i].pc = "alive" /\ go'[j].pc = "alive"
                                     => go'[i].run # go'[j].run

\* Whoever launches a process has a goroutine that waits for it.
LEMMA LaunchWaits ==
  ASSUME CoreInv, Launches
  PROVE  \E i \in Slot : go[i].pc = "status" /\ go'[i].pc = "wait"
<1>1. go \in [Slot -> GoRecord]
  BY DEF CoreInv, TypeOK, GoRecord
<1>2. PICK p \in Proc, i \in Slot :
        go[i].pc = "status" /\ go' = [go EXCEPT ![i].pc = "wait", ![i].proc = {p}]
  BY DEF Launches
<1>3. go'[i].pc = "wait"
  BY <1>1, <1>2 DEF GoRecord
<1> QED
  BY <1>2, <1>3

\* Goroutines and processes of one run are kept apart.
LEMMA ApartStep ==
  ASSUME CoreInv, WatchInv, ApartInv, [Next]_vars, [DistinctRound]_vars
  PROVE  ApartInv'
<1>0. proc \in [Proc -> ProcRecord] /\ go \in [Slot -> GoRecord] /\ ProcChange /\ GoRuns
      /\ hist \in [Run -> Seq(AttemptStatus)]
  BY ProcChanges DEF CoreInv, TypeOK, ProcRecord, GoRecord, RunInv
<1>1. ASSUME ~Launches,
             \A i \in Slot : i \in Busy' => i \in Busy /\ go'[i].run = go[i].run,
             \A i \in Slot : go'[i].pc = "status" => go[i].pc = "status"
      PROVE  ApartInv'
  <2>1. \A p \in Proc : p \in Engaged' => p \in Engaged /\ proc'[p].run = proc[p].run
    BY <1>0, <1>1, EngagedKept
  <2>2. Engaged' \subseteq Proc /\ Busy' \subseteq Slot
    BY DEF Engaged, Busy
  <2>3. \A i \in Slot : go'[i].pc = "status" => i \in Busy'
    BY DEF Busy
  <2> QED
    BY <1>1, <2>1, <2>2, <2>3 DEF ApartInv
<1>2. CASE go' = go
  <2>1. ~Launches
    BY <1>2, LaunchWaits
  <2> QED
    BY <1>1, <1>2, <2>1 DEF Busy
<1>3. CASE StartRound /\ go' # go
  <2>1. proc' = proc /\ DistinctRound
    <3>1. proc' = proc
      BY <1>3 DEF StartRound, procVars
    <3>2. DistinctRound
      BY <1>3 DEF vars
    <3> QED
      BY <3>1, <3>2
  <2>2. \A i \in Slot : go'[i].pc \in {"idle", "alive"}
    BY <1>3 DEF StartRound, NoGo
  <2>3. Engaged' = Engaged
    BY <2>1 DEF Engaged, Starting, Executing
  <2> QED
    BY <1>3, <2>1, <2>2, <2>3 DEF ApartInv, DistinctRound, Busy
<1>4. CASE Restart
  <2>1. \A i \in Slot : go'[i].pc = "idle"
    BY <1>4 DEF Restart, NoGo
  <2>2. ~Launches
    BY <2>1, LaunchWaits
  <2> QED
    BY <1>1, <2>1, <2>2 DEF Busy
<1>5. ASSUME NEW i \in Slot, GoStep(i) PROVE ApartInv'
  <2>1. /\ \A j \in Slot : j # i => go'[j] = go[j]
        /\ go'[i].pc # "idle" => go'[i].run = go[i].run
        /\ go[i].run \in Run
    BY <1>0, <1>5, GoFacts
  <2>2. CASE GoDrop(i) \/ GoPoll(i) \/ GoGiveUp(i) \/ GoDequeue(i)
    <3>1. go[i].pc # "status" /\ go'[i].pc \in {"idle", "dequeue"}
      BY <1>0, <2>2 DEF GoDrop, GoTo, GoPoll, GoGiveUp, GiveUp, GoDequeue, NoGo, GoRecord
    <3>2. ~Launches
      BY <2>1, <3>1, LaunchWaits
    <3> QED
      BY <1>1, <2>1, <3>1, <3>2 DEF Busy
  <2>3. CASE GoAlive(i)
    <3>1. /\ proc' = proc /\ go[i].pc = "alive"
          /\ go'[i].pc = IF IsRunAlive(go[i].run) THEN "dequeue" ELSE "status"
      BY <1>0, <2>3 DEF GoAlive, GoTo, GoRecord, procVars
    <3>2. Engaged' = Engaged
      BY <3>1 DEF Engaged, Starting, Executing
    <3>3. ASSUME go'[i].pc = "status", NEW p \in Engaged PROVE go[i].run # proc[p].run
      <4>1. ~IsRunAlive(go[i].run) /\ p \in Proc /\ proc[p].flag = "seen"
        BY <3>1, <3>3 DEF Engaged
      <4>2. CASE Executing(p)
        BY <4>1, <4>2 DEF CoreInv, BeatInv, Watched, IsRunAlive
      <4>3. CASE Starting(p)
        <5>1. PICK j \in Slot : go[j].pc = "wait" /\ go[j].run = proc[p].run
          BY <4>1, <4>3 DEF WatchInv
        <5> QED
          BY <3>1, <5>1 DEF ApartInv, Busy
      <4> QED
        BY <4>2, <4>3 DEF Engaged
    <3> QED
      BY <2>1, <3>1, <3>2, <3>3 DEF ApartInv, Busy
  <2>4. CASE GoStatus(i)
    <3>1. go[i].pc = "status"
      BY <2>4 DEF GoStatus
    <3>2. CASE Launches
      <4>1. PICK p \in Proc, r \in Run, j \in Slot :
              /\ proc' = [proc EXCEPT ![p] = [NoProc EXCEPT !.run = r, !.pc = "launched"]]
              /\ go[j].pc = "status" /\ go[j].run = r
              /\ go' = [go EXCEPT ![j].pc = "wait", ![j].proc = {p}]
        BY <3>2 DEF Launches
      <4>2. go'[j].pc = "wait" /\ go'[j].run = r /\ \A k \in Slot : k # j => go'[k] = go[k]
        BY <1>0, <4>1 DEF GoRecord
      <4>3. proc'[p].run = r /\ \A q \in Proc : q # p => proc'[q] = proc[q]
        BY <1>0, <4>1, LaunchFacts
      <4>4. \A q \in Proc : q \in Engaged' => q = p \/ (q \in Engaged /\ proc'[q].run = proc[q].run)
        BY <4>3 DEF Engaged, Starting, Executing
      <4>5. \A q \in Engaged : proc[q].run # r
        BY <4>1 DEF ApartInv
      <4>6. \A k \in Slot : go[k].pc = "status" /\ k # j => go[k].run # r
        BY <4>1 DEF ApartInv, Busy
      <4>7. Engaged' \subseteq Proc
        BY DEF Engaged
      <4>8. \A k, l \in Busy' : k # l => go'[k].run # go'[l].run
        <5>1. \A k \in Busy' : k \in Busy /\ go'[k].run = go[k].run
          BY <4>1, <4>2 DEF Busy
        <5> QED
          BY <5>1 DEF ApartInv
      <4>9. \A q, o \in Engaged' : q # o => proc'[q].run # proc'[o].run
        BY <4>3, <4>4, <4>5, <4>7 DEF ApartInv
      <4>10. \A q \in Engaged', k \in Slot : go'[k].pc = "status" => go'[k].run # proc'[q].run
        BY <4>2, <4>3, <4>4, <4>6, <4>7 DEF ApartInv
      <4> QED
        BY <4>8, <4>9, <4>10 DEF ApartInv
    <3>3. CASE ~Launches
      <4>1. ASSUME GoTo(i, "dequeue") PROVE go'[i].pc = "dequeue"
        BY <1>0, <4>1 DEF GoTo, GoRecord
      <4>2. ASSUME go' = [go EXCEPT ![i].pc = "drop", ![i].att = Latest(go[i].run)]
            PROVE  go'[i].pc = "drop"
        <5>1. PICK n : n = Latest(go[i].run)
          OBVIOUS
        <5>2. go' = [go EXCEPT ![i].pc = "drop", ![i].att = n]
          BY <4>2, <5>1
        <5> QED
          BY <1>0, <5>2 DEF GoRecord
      <4>3. ASSUME go' = [go EXCEPT ![i] = NoGo] PROVE go'[i].pc = "idle"
        BY <1>0, <4>3 DEF NoGo
      <4>4. ASSUME NEW p \in Proc, proc[p] = NoProc,
                   proc' = [proc EXCEPT ![p] = [NoProc EXCEPT !.run = go[i].run, !.pc = "launched"]],
                   go' = [go EXCEPT ![i].pc = "wait", ![i].proc = {p}]
            PROVE  Launches
        <5>1. hist' = hist
          BY <2>4 DEF GoStatus
        <5>2. PICK r \in Run : r = go[i].run
          BY <2>1
        <5>3. proc' = [proc EXCEPT ![p] = [NoProc EXCEPT !.run = r, !.pc = "launched"]]
          BY <4>4, <5>2
        <5> QED
          BY <3>1, <4>4, <5>1, <5>2, <5>3 DEF Launches
      <4>5. go'[i].pc \in {"idle", "drop", "dequeue"}
        BY <2>4, <3>3, <4>1, <4>2, <4>3, <4>4 DEF GoStatus
      <4> QED
        BY <1>1, <2>1, <3>3, <4>5 DEF Busy
    <3> QED
      BY <3>2, <3>3
  <2> QED
    BY <1>5, <2>2, <2>3, <2>4 DEF GoStep
<1> QED
  BY <1>2, <1>3, <1>4, <1>5, WritersAre DEF Writers

\* For any number of slots: two processes never execute one run under the
\* processor's eyes, as long as no round selects two items of one run; that is
\* the only way (IsRunAlive, waitForStartup, checkIsAlreadyRunning).
THEOREM RunsAreApart == Spec /\ [][DistinctRound]_vars => []NoDoubleRun
<1> DEFINE Inv == CoreInv /\ WatchInv /\ ApartInv
<1>1. Init => Inv
  BY CoreInit, SlotInit
<1>2. Inv /\ [Next]_vars /\ [DistinctRound]_vars => Inv'
  BY CoreStep, WatchStep, ApartStep
<1>3. Inv => NoDoubleRun
  BY DEF ApartInv, Engaged, Watched, NoDoubleRun
<1> QED
  BY <1>1, <1>2, <1>3, PTL DEF Spec

\* With one slot a round selects one item, so that two processes never execute
\* one run under the processor's eyes, whatever is queued
\* (IsRunAlive, ensureQueueDispatchRetryTarget, checkIsAlreadyRunning).
THEOREM RunsAreSingle ==
  ASSUME MaxConcurrency = 1
  PROVE  Spec => []NoDoubleRun
<1>1. [Next]_vars => [DistinctRound]_vars
  BY DEF DistinctRound, Slot
<1>2. Spec => [][DistinctRound]_vars
  BY <1>1, PTL DEF Spec
<1> QED
  BY <1>2, RunsAreApart, PTL
=============================================================================
