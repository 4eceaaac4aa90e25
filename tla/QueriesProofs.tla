--------------------------- MODULE QueriesProofs ---------------------------
(***************************************************************************)
(* What the analyzer says of a query, proved for all relations, GROUP BY   *)
(* clauses and VALUES lists: this module has the lemmas on sequences, the  *)
(* scope a FROM clause builds and the joins.                               *)
(***************************************************************************)
EXTENDS Queries, FiniteSetTheorems, SequenceTheorems, WellFoundedInduction, TLAPS

-----------------------------------------------------------------------------
(* Numbers and sequences.                                                   *)

\* Every set of numbers that is not empty has a least one.
LEMMA LeastNumber ==
    ASSUME NEW T, T \subseteq Nat, T # {}
    PROVE  \E m \in T : \A k \in T : m <= k
<1> DEFINE R == {p \in Nat \X Nat : p[1] < p[2]}
<1>1. R = OpToRel(<, Nat)
  BY DEF OpToRel
<1>2. IsWellFoundedOn(R, Nat)
  BY <1>1, NatLessThanWellFounded
<1>3. \A k, m \in Nat : <<k, m>> \notin R => m <= k
  OBVIOUS
<1> HIDE DEF R
<1>4. QED
  BY <1>2, <1>3, WFMin

\* Induction up to a bound, on the set of numbers for which something holds.
LEMMA CountingUp ==
    ASSUME NEW N \in Nat, NEW T, 0 \in T, \A n \in 1..N : n - 1 \in T => n \in T
    PROVE  \A n \in 0..N : n \in T
<1> DEFINE Out == {n \in 0..N : n \notin T}
<1>1. SUFFICES ASSUME Out # {} PROVE FALSE
  OBVIOUS
<1>2. Out \subseteq Nat
  OBVIOUS
<1>3. PICK m \in Out : \A k \in Out : m <= k
  <2> HIDE DEF Out
  <2>1. QED
    BY <1>1, <1>2, LeastNumber
<1>4. m \in 1..N /\ m - 1 \in 0..N
  BY <1>3
<1>5. m - 1 \in T
  BY <1>3, <1>4
<1>6. QED
  BY <1>3, <1>4, <1>5

\* A function on 0..N that is defined step by step.
Steps(G, N, S) == N \in Nat /\ G \in [1..N -> [S -> S]]

Takes(f, G, N, S, a) ==
    /\ f \in [0..N -> S]
    /\ f[0] = a /\ \A n \in 1..N : f[n] = G[n][f[n-1]]

LEMMA StepByStep ==
    ASSUME NEW S, NEW N, NEW a \in S, NEW G, Steps(G, N, S)
    PROVE  \E f : Takes(f, G, N, S, a)
<1>0. N \in Nat /\ G \in [1..N -> [S -> S]]
  BY DEF Steps
<1> DEFINE Ok(m, f) == f[0] = a /\ \A n \in 1..m : f[n] = G[n][f[n-1]]
           T == {m \in 0..N : \E f \in [0..m -> S] : Ok(m, f)}
<1>1. 0 \in T
  <2>1. [n \in 0..0 |-> a] \in [0..0 -> S] /\ Ok(0, [n \in 0..0 |-> a])
    OBVIOUS
  <2>2. \E f \in [0..0 -> S] : Ok(0, f)
    BY <2>1
  <2>3. QED
    BY <1>0, <2>2
<1>2. ASSUME NEW m \in 1..N, m - 1 \in T PROVE m \in T
  <2>1. PICK f \in [0..(m-1) -> S] : Ok(m - 1, f)
    BY <1>0, <1>2
  <2> DEFINE g == [n \in 0..m |-> IF n = m THEN G[m][f[m-1]] ELSE f[n]]
  <2>2. f[m-1] \in S /\ G[m][f[m-1]] \in S
    BY <1>0, <2>1
  <2>3. g \in [0..m -> S] /\ g[m] = G[m][f[m-1]] /\ \A n \in 0..(m-1) : g[n] = f[n]
    BY <1>0, <2>1, <2>2
  <2> HIDE DEF g
  <2>4. g[0] = a
    BY <1>0, <2>1, <2>3
  <2>5. ASSUME NEW n \in 1..m PROVE g[n] = G[n][g[n-1]]
    <3>1. n - 1 \in 0..(m-1) /\ g[n-1] = f[n-1]
      BY <2>3
    <3>2. CASE n = m
      BY <2>3, <3>1, <3>2
    <3>3. CASE n # m
      <4>1. n \in 1..(m-1) /\ n \in 0..(m-1)
        BY <3>3
      <4>2. QED
        BY <2>1, <2>3, <3>1, <4>1
    <3>4. QED
      BY <3>2, <3>3
  <2>6. \E h \in [0..m -> S] : Ok(m, h)
    BY <2>3, <2>4, <2>5
  <2>7. m \in 0..N
    BY <1>0
  <2> HIDE DEF Ok
  <2>8. QED
    BY <2>6, <2>7
<1> HIDE DEF T
<1>3. \A n \in 0..N : n \in T
  BY <1>0, <1>1, <1>2, CountingUp
<1>4. QED
  BY <1>0, <1>3 DEF T, Takes

\* The values of a sequence.
Members(s) == {s[i] : i \in DOMAIN s}

\* Each member of s comes before the later ones, in an order given as pairs.
Increasing(s, order) == \A i, j \in DOMAIN s : i < j => <<s[i], s[j]>> \in order

\* s \o t where all members of s come before those of t.
LEMMA AppendSorted ==
    ASSUME NEW S, NEW s \in Seq(S), NEW t \in Seq(S), NEW order,
           Increasing(s, order), Increasing(t, order),
           \A a \in Members(s), b \in Members(t) : <<a, b>> \in order
    PROVE  /\ s \o t \in Seq(S)
           /\ Members(s \o t) = Members(s) \cup Members(t)
           /\ Increasing(s \o t, order)
<1> DEFINE u == s \o t
           m == Len(s)
           n == Len(t)
<1>1. /\ u \in Seq(S) /\ Len(u) = m + n /\ m \in Nat /\ n \in Nat
      /\ \A i \in 1..(m + n) : u[i] = IF i <= m THEN s[i] ELSE t[i - m]
  BY ConcatProperties
<1>2. DOMAIN s = 1..m /\ DOMAIN t = 1..n /\ DOMAIN u = 1..(m + n)
  BY <1>1
<1> HIDE DEF u, m, n
<1>3. Members(u) = Members(s) \cup Members(t)
  <2>1. ASSUME NEW i \in 1..(m + n) PROVE u[i] \in Members(s) \cup Members(t)
    <3>1. i <= m => i \in 1..m
      BY <1>1
    <3>2. ~ (i <= m) => i - m \in 1..n
      BY <1>1
    <3>3. QED
      BY <1>1, <1>2, <3>1, <3>2 DEF Members
  <2>2. ASSUME NEW i \in 1..m PROVE s[i] \in Members(u)
    <3>1. i \in 1..(m + n) /\ i <= m
      BY <1>1
    <3>2. QED
      BY <1>1, <1>2, <3>1 DEF Members
  <2>3. ASSUME NEW i \in 1..n PROVE t[i] \in Members(u)
    <3>1. i + m \in 1..(m + n) /\ ~ (i + m <= m) /\ i + m - m = i
      BY <1>1
    <3>2. u[i + m] = t[i]
      BY <1>1, <3>1
    <3>3. QED
      BY <1>2, <3>1, <3>2 DEF Members
  <2>4. QED
    BY <1>2, <2>1, <2>2, <2>3 DEF Members
<1>4. ASSUME NEW i \in 1..(m + n), NEW j \in 1..(m + n), i < j
      PROVE  <<u[i], u[j]>> \in order
  <2>1. CASE j <= m
    <3>1. i \in 1..m /\ j \in 1..m /\ i <= m
      BY <1>1, <1>4, <2>1
    <3>2. QED
      BY <1>1, <1>2, <1>4, <2>1, <3>1 DEF Increasing
  <2>2. CASE ~ (j <= m) /\ i <= m
    <3>1. i \in 1..m /\ j - m \in 1..n
      BY <1>1, <2>2
    <3>2. QED
      BY <1>1, <1>2, <2>2, <3>1 DEF Members
  <2>3. CASE ~ (j <= m) /\ ~ (i <= m)
    <3>1. i - m \in 1..n /\ j - m \in 1..n /\ i - m < j - m
      BY <1>1, <1>4, <2>3
    <3>2. QED
      BY <1>1, <1>2, <2>3, <3>1 DEF Increasing
  <2>4. QED
    BY <2>1, <2>2, <2>3
<1>5. QED
  BY <1>1, <1>2, <1>3, <1>4 DEF Increasing, u

\* The function FlattenSeq takes its result from.
Flattening(seqs) ==
    LET flatten[i \in 1..Len(seqs)] ==
            IF i = 1 THEN seqs[i] ELSE flatten[i-1] \o seqs[i]
    IN  flatten

IsFlattening(f, seqs) ==
    f = [i \in 1..Len(seqs) |-> IF i = 1 THEN seqs[i] ELSE f[i-1] \o seqs[i]]

LEMMA FlatteningSteps ==
    ASSUME NEW S, NEW seqs \in Seq(Seq(S)), seqs # <<>>
    PROVE  LET f == Flattening(seqs)
           IN  /\ f[1] = seqs[1]
               /\ \A i \in 2..Len(seqs) : f[i] = f[i-1] \o seqs[i]
<1> DEFINE N == Len(seqs)
<1>1. N \in Nat /\ N # 0 /\ \A i \in 1..N : seqs[i] \in Seq(S)
  BY EmptySeq
<1> HIDE DEF N
<1>2. \E f : IsFlattening(f, seqs)
  <2> DEFINE G == [i \in 1..N |-> [x \in Seq(S) |-> x \o seqs[i]]]
  <2>1. \A i \in 1..N, x \in Seq(S) : x \o seqs[i] \in Seq(S)
    BY <1>1, ConcatProperties
  <2>2. G \in [1..N -> [Seq(S) -> Seq(S)]]
    BY <2>1
  <2>3. <<>> \in Seq(S)
    BY EmptySeq
  <2>4. PICK f \in [0..N -> Seq(S)] : f[0] = <<>> /\ \A n \in 1..N : f[n] = G[n][f[n-1]]
    <3>1. Steps(G, N, Seq(S))
      BY <1>1, <2>2 DEF Steps
    <3> HIDE DEF G
    <3>2. \E f : Takes(f, G, N, Seq(S), <<>>)
      BY <2>3, <3>1, StepByStep
    <3>3. QED
      BY <3>2 DEF Takes
  <2> DEFINE g == [i \in 1..N |-> f[i]]
             h == [i \in 1..N |-> IF i = 1 THEN seqs[i] ELSE g[i-1] \o seqs[i]]
  <2>5. ASSUME NEW i \in 1..N PROVE f[i] = h[i]
    <3>1. i - 1 \in 0..N /\ f[i-1] \in Seq(S)
      BY <1>1, <2>4
    <3>2. f[i] = f[i-1] \o seqs[i]
      BY <2>4, <3>1
    <3>3. CASE i = 1
      <4>1. f[0] = <<>> /\ seqs[1] \in Seq(S) /\ i - 1 = 0
        BY <1>1, <2>4, <3>3
      <4>2. <<>> \o seqs[1] = seqs[1]
        BY <4>1, ConcatEmptySeq
      <4>3. QED
        BY <3>2, <3>3, <4>1, <4>2
    <3>4. CASE i # 1
      <4>1. i - 1 \in 1..N
        BY <1>1, <3>4
      <4>2. QED
        BY <3>2, <3>4, <4>1
    <3>5. QED
      BY <3>3, <3>4
  <2>6. g = h
    BY <2>5
  <2>7. IsFlattening(g, seqs)
    BY <2>6 DEF IsFlattening, N
  <2>8. QED
    BY <2>7
<1>3. IsFlattening(Flattening(seqs), seqs)
  BY <1>2, Zenon DEF Flattening, IsFlattening
<1>4. 1 \in 1..N /\ \A i \in 2..N : i \in 1..N /\ i # 1
  BY <1>1
<1> DEFINE f == Flattening(seqs)
<1>5. f = [i \in 1..N |-> IF i = 1 THEN seqs[i] ELSE f[i-1] \o seqs[i]]
  BY <1>3 DEF IsFlattening, N
<1> HIDE DEF f
<1>6. f[1] = seqs[1] /\ \A i \in 2..N : f[i] = f[i-1] \o seqs[i]
  BY <1>4, <1>5
<1>7. QED
  BY <1>6 DEF f, N

\* Flattening sequences that follow one another in order.
LEMMA FlattenSorted ==
    ASSUME NEW S, NEW seqs \in Seq(Seq(S)), NEW order,
           \A i \in DOMAIN seqs : Increasing(seqs[i], order),
           \A i, j \in DOMAIN seqs : i < j =>
               \A a \in Members(seqs[i]), b \in Members(seqs[j]) : <<a, b>> \in order
    PROVE  /\ FlattenSeq(seqs) \in Seq(S)
           /\ Members(FlattenSeq(seqs)) = UNION {Members(seqs[i]) : i \in DOMAIN seqs}
           /\ Increasing(FlattenSeq(seqs), order)
<1> DEFINE N == Len(seqs)
<1>1. N \in Nat /\ DOMAIN seqs = 1..N /\ \A i \in 1..N : seqs[i] \in Seq(S)
  OBVIOUS
<1>2. CASE seqs = <<>>
  <2>1. FlattenSeq(seqs) = <<>> /\ DOMAIN seqs = {}
    BY <1>2 DEF FlattenSeq
  <2>2. QED
    BY <2>1, EmptySeq DEF Members, Increasing
<1>3. CASE seqs # <<>>
  <2> DEFINE f == Flattening(seqs)
             Ok(n) == /\ f[n] \in Seq(S)
                      /\ Members(f[n]) = UNION {Members(seqs[i]) : i \in 1..n}
                      /\ Increasing(f[n], order)
             T == {n \in 0..N : n = 0 \/ Ok(n)}
  <2>1. N # 0 /\ FlattenSeq(seqs) = f[N]
    BY <1>1, <1>3, EmptySeq, Zenon DEF FlattenSeq, Flattening
  <2>2. f[1] = seqs[1] /\ \A i \in 2..N : f[i] = f[i-1] \o seqs[i]
    BY <1>3, FlatteningSteps
  <2> HIDE DEF f
  <2>3. Ok(1)
    <3>1. 1 \in 1..N /\ 1..1 = {1}
      BY <1>1, <2>1
    <3>2. QED
      BY <1>1, <2>2, <3>1
  <2>4. ASSUME NEW n \in 2..N, Ok(n-1) PROVE Ok(n)
    <3>1. n - 1 \in 1..N /\ n \in 1..N /\ 1..n = (1..(n-1)) \cup {n} /\ \A i \in 1..(n-1) : i \in 1..N /\ i < n
      BY <1>1
    <3>2. \A a \in Members(f[n-1]), b \in Members(seqs[n]) : <<a, b>> \in order
      BY <1>1, <2>4, <3>1
    <3>3. /\ f[n-1] \in Seq(S) /\ Increasing(f[n-1], order)
          /\ seqs[n] \in Seq(S) /\ Increasing(seqs[n], order)
          /\ f[n] = f[n-1] \o seqs[n]
      BY <1>1, <2>2, <2>4, <3>1
    <3>3a. /\ f[n-1] \o seqs[n] \in Seq(S)
          /\ Members(f[n-1] \o seqs[n]) = Members(f[n-1]) \cup Members(seqs[n])
          /\ Increasing(f[n-1] \o seqs[n], order)
      BY <3>2, <3>3, AppendSorted
    <3>4. QED
      BY <2>4, <3>1, <3>3, <3>3a
  <2> HIDE DEF Ok
  <2>5. 0 \in T
    BY <1>1
  <2>6. ASSUME NEW n \in 1..N, n - 1 \in T PROVE n \in T
    <3>1. CASE n = 1
      BY <1>1, <2>3, <3>1
    <3>2. CASE n # 1
      <4>1. n \in 2..N /\ n - 1 # 0
        BY <3>2
      <4>2. QED
        BY <2>4, <2>6, <4>1
    <3>3. QED
      BY <3>1, <3>2
  <2> HIDE DEF T
  <2>7. \A n \in 0..N : n \in T
    BY <1>1, <2>5, <2>6, CountingUp
  <2>8. Ok(N)
    BY <1>1, <2>1, <2>7 DEF T
  <2>9. QED
    BY <1>1, <2>1, <2>8 DEF Ok
<1>4. QED
  BY <1>2, <1>3

LEMMA KeepingSorted ==
    ASSUME NEW S, NEW s \in Seq(S), NEW places, NEW order, Increasing(s, order)
    PROVE  /\ Keeping(s, places) \in Seq(S)
           /\ Members(Keeping(s, places)) = {s[i] : i \in DOMAIN s \cap places}
           /\ Increasing(Keeping(s, places), order)
<1> DEFINE seqs == [i \in DOMAIN s |-> IF i \in places THEN <<s[i]>> ELSE <<>>]
<1>1. Len(s) \in Nat /\ DOMAIN s = 1..Len(s) /\ \A i \in DOMAIN s : s[i] \in S
  OBVIOUS
<1>2. \A x \in S : <<x>> \in Seq(S) /\ <<>> \in Seq(S)
  OBVIOUS
<1>3. seqs \in Seq(Seq(S)) /\ DOMAIN seqs = DOMAIN s
  BY <1>1, <1>2, IsASeq
<1>4. \A i \in DOMAIN s : Members(seqs[i]) = IF i \in places THEN {s[i]} ELSE {}
  BY DEF Members
<1>5. \A i \in DOMAIN s : Increasing(seqs[i], order)
  BY DEF Increasing
<1>6. \A i, j \in DOMAIN s : i < j =>
          \A a \in Members(seqs[i]), b \in Members(seqs[j]) : <<a, b>> \in order
  BY <1>4 DEF Increasing
<1>7. Keeping(s, places) = FlattenSeq(seqs)
  BY DEF Keeping
<1> HIDE DEF seqs
<1>8. UNION {Members(seqs[i]) : i \in DOMAIN seqs} = {s[i] : i \in DOMAIN s \cap places}
  BY <1>3, <1>4
<1>9. QED
  BY <1>3, <1>5, <1>6, <1>7, <1>8, FlattenSorted

\* Two sequences with the same members, both sorted, are the same.
LEMMA SameSorted ==
    ASSUME NEW S, NEW s \in Seq(S), NEW t \in Seq(S), NEW order,
           \A a, b \in S : <<a, b>> \in order => <<b, a>> \notin order,
           Increasing(s, order), Increasing(t, order), Members(s) = Members(t)
    PROVE  s = t
<1> DEFINE m == Len(s)
           n == Len(t)
           Both == {i \in 1..m : i <= n /\ s[i] # t[i]}
<1>1. /\ m \in Nat /\ n \in Nat /\ DOMAIN s = 1..m /\ DOMAIN t = 1..n
      /\ (\A i \in 1..m : s[i] \in S) /\ (\A i \in 1..n : t[i] \in S)
  OBVIOUS
<1> HIDE DEF m, n
<1>2. \A i \in 1..m : \E j \in 1..n : t[j] = s[i]
  BY <1>1 DEF Members
<1>3. \A j \in 1..n : \E i \in 1..m : s[i] = t[j]
  BY <1>1 DEF Members
<1>4. /\ \A i, j \in 1..m : i < j => <<s[i], s[j]>> \in order
      /\ \A i, j \in 1..n : i < j => <<t[i], t[j]>> \in order
  BY <1>1 DEF Increasing
<1>5. Both = {}
  <2>1. SUFFICES ASSUME Both # {} PROVE FALSE
    OBVIOUS
  <2>2. Both \subseteq Nat
    BY <1>1
  <2>3. PICK i \in Both : \A k \in Both : i <= k
    <3> HIDE DEF Both
    <3>1. QED
      BY <2>1, <2>2, LeastNumber
  <2>4. i \in 1..m /\ i \in 1..n /\ s[i] # t[i]
    BY <1>1, <2>3
  <2>5. \A k \in 1..m : k < i => k \in 1..n /\ s[k] = t[k]
    BY <1>1, <2>3, <2>4
  <2>6. PICK j \in 1..n : t[j] = s[i]
    BY <1>2, <2>4
  <2>7. PICK k \in 1..m : s[k] = t[i]
    BY <1>3, <2>4
  <2>8. i < j
    <3>1. ASSUME j < i PROVE FALSE
      <4>1. j \in 1..m
        BY <1>1, <2>4, <3>1
      <4>2. s[j] = s[i] /\ <<s[j], s[i]>> \in order
        BY <1>4, <2>4, <2>5, <2>6, <3>1, <4>1
      <4>3. QED
        BY <1>1, <2>4, <4>2
    <3>2. j # i
      BY <2>4, <2>6
    <3>3. QED
      BY <1>1, <2>4, <3>1, <3>2
  <2>9. i < k
    <3>1. ASSUME k < i PROVE FALSE
      <4>1. k \in 1..n /\ t[k] = t[i] /\ <<t[k], t[i]>> \in order
        BY <1>4, <2>4, <2>5, <2>7, <3>1
      <4>2. QED
        BY <1>1, <2>4, <4>1
    <3>2. k # i
      BY <2>4, <2>7
    <3>3. QED
      BY <1>1, <2>4, <3>1, <3>2
  <2>10. <<t[i], s[i]>> \in order /\ <<s[i], t[i]>> \in order
    BY <1>4, <2>4, <2>6, <2>7, <2>8, <2>9
  <2>11. QED
    BY <1>1, <2>4, <2>10
<1>6. \A i \in 1..m : i <= n => s[i] = t[i]
  BY <1>5
<1>7. ~ (m < n)
  <2>1. SUFFICES ASSUME m < n PROVE FALSE
    OBVIOUS
  <2>2. m + 1 \in 1..n
    BY <1>1, <2>1
  <2>3. PICK i \in 1..m : s[i] = t[m + 1]
    BY <1>3, <2>2
  <2>4. i \in 1..n /\ i < m + 1 /\ t[i] = t[m + 1] /\ <<t[i], t[m + 1]>> \in order
    BY <1>1, <1>4, <1>6, <2>1, <2>2, <2>3
  <2>5. QED
    BY <1>1, <2>2, <2>4
<1>8. ~ (n < m)
  <2>1. SUFFICES ASSUME n < m PROVE FALSE
    OBVIOUS
  <2>2. n + 1 \in 1..m
    BY <1>1, <2>1
  <2>3. PICK i \in 1..n : t[i] = s[n + 1]
    BY <1>2, <2>2
  <2>4. i \in 1..m /\ i < n + 1 /\ s[i] = s[n + 1] /\ <<s[i], s[n + 1]>> \in order
    BY <1>1, <1>4, <1>6, <2>1, <2>2, <2>3
  <2>5. QED
    BY <1>1, <2>2, <2>4
<1>9. m = n
  BY <1>1, <1>7, <1>8
<1>10. QED
  <2>1. \A i \in 1..m : s[i] = t[i]
    BY <1>1, <1>6, <1>9
  <2>2. Len(s) = Len(t)
    BY <1>9 DEF m, n
  <2>3. QED
    BY <1>1, <2>1, <2>2, SeqEqual

-----------------------------------------------------------------------------
(* Positions in a scope.                                                    *)

Places == Nat \X Nat

\* Before, as a set of pairs.
PlaceOrder == {z \in Places \X Places : Before(z[1], z[2])}

LEMMA PlaceOrderStrict ==
    /\ \A p, q \in Places : <<p, q>> \in PlaceOrder <=> Before(p, q)
    /\ \A p, q \in Places : <<p, q>> \in PlaceOrder => <<q, p>> \notin PlaceOrder
    /\ \A p, q \in Places : p = q \/ Before(p, q) \/ Before(q, p)
    /\ \A p \in Places : ~Before(p, p)
    /\ \A p, q, r \in Places : Before(p, q) /\ Before(q, r) => Before(p, r)
<1>1. \A p \in Places : p[1] \in Nat /\ p[2] \in Nat /\ p = <<p[1], p[2]>>
  BY DEF Places
<1>2. \A p, q \in Places : <<p, q>> \in PlaceOrder <=> Before(p, q)
  BY DEF PlaceOrder
<1>3. \A p, q \in Places : p = q \/ Before(p, q) \/ Before(q, p)
  BY <1>1 DEF Before
<1>4. \A p, q \in Places : Before(p, q) => ~Before(q, p)
  BY <1>1 DEF Before
<1>5. \A p, q, r \in Places : Before(p, q) /\ Before(q, r) => Before(p, r)
  BY <1>1 DEF Before
<1>6. QED
  BY <1>2, <1>3, <1>4, <1>5

\* Names.  That the literals are strings no backend knows.
Text == STRING \cup {"", "x", "y"}

Column == [name : Text, notnull : BOOLEAN]
Source == [alias : Text, cols : Seq(Column), key : SUBSET Text]

LEMMA PositionsTyped ==
    ASSUME NEW sources \in Seq(Source)
    PROVE  /\ Positions(sources) \subseteq Places
           /\ \A s, c : <<s, c>> \in Positions(sources) <=>
                            s \in DOMAIN sources /\ c \in DOMAIN sources[s].cols
           /\ \A p \in Positions(sources) :
                 /\ p[1] \in DOMAIN sources /\ p[2] \in DOMAIN sources[p[1]].cols
                 /\ p = <<p[1], p[2]>>
                 /\ sources[p[1]] \in Source
                 /\ sources[p[1]].alias \in Text
                 /\ Col(sources, p) \in Column
                 /\ Col(sources, p).name \in Text
<1>1. DOMAIN sources \subseteq Nat /\ \A s \in DOMAIN sources : sources[s] \in Source
  OBVIOUS
<1>2. \A src \in Source : /\ src.alias \in Text /\ src.cols \in Seq(Column)
  BY DEF Source
<1>3. \A cols \in Seq(Column) : DOMAIN cols \subseteq Nat /\ \A c \in DOMAIN cols : cols[c] \in Column
  OBVIOUS
<1>4. \A x \in Column : x.name \in Text
  BY DEF Column
<1>5. \A s, c : <<s, c>> \in Positions(sources) <=> s \in DOMAIN sources /\ c \in DOMAIN sources[s].cols
  BY DEF Positions
<1>6. \A p \in Positions(sources) : p = <<p[1], p[2]>> /\ p[1] \in DOMAIN sources /\ p[2] \in DOMAIN sources[p[1]].cols
  BY DEF Positions
<1>7. \A p \in Positions(sources) : p \in Places
  BY <1>1, <1>2, <1>3, <1>6 DEF Places
<1>8. \A p \in Positions(sources) : /\ sources[p[1]] \in Source /\ Col(sources, p) \in Column
  BY <1>1, <1>2, <1>3, <1>6 DEF Col
<1>9. QED
  BY <1>2, <1>4, <1>5, <1>6, <1>7, <1>8

LEMMA OrderedSorted ==
    ASSUME NEW sources \in Seq(Source)
    PROVE  /\ Ordered(sources) \in Seq(Places)
           /\ Members(Ordered(sources)) = Positions(sources)
           /\ Increasing(Ordered(sources), PlaceOrder)
<1> DEFINE row(s) == [c \in DOMAIN sources[s].cols |-> <<s, c>>]
           seqs == [s \in DOMAIN sources |-> row(s)]
<1>1. Len(sources) \in Nat /\ DOMAIN sources = 1..Len(sources)
  OBVIOUS
<1>2. ASSUME NEW s \in DOMAIN sources
      PROVE  row(s) \in Seq(Places) /\ Members(row(s)) = {<<s, c>> : c \in DOMAIN sources[s].cols}
             /\ Increasing(row(s), PlaceOrder)
  <2>1. sources[s].cols \in Seq(Column) /\ s \in Nat
    <3>1. sources[s] \in Source
      OBVIOUS
    <3>2. QED
      BY <1>1, <3>1 DEF Source
  <2> DEFINE n == Len(sources[s].cols)
  <2>2. n \in Nat /\ DOMAIN sources[s].cols = 1..n
    BY <2>1
  <2> HIDE DEF n
  <2>3. \A c \in 1..n : <<s, c>> \in Places
    BY <2>1, <2>2 DEF Places
  <2>4. row(s) \in Seq(Places)
    BY <2>2, <2>3, IsASeq
  <2>5. Members(row(s)) = {<<s, c>> : c \in DOMAIN sources[s].cols}
    BY DEF Members
  <2>6. \A i, j \in 1..n : i < j => Before(<<s, i>>, <<s, j>>)
    BY <2>1, <2>2 DEF Before
  <2>7. Increasing(row(s), PlaceOrder)
    BY <2>2, <2>3, <2>6, PlaceOrderStrict DEF Increasing
  <2>8. QED
    BY <2>4, <2>5, <2>7
<1>3. seqs \in Seq(Seq(Places)) /\ DOMAIN seqs = DOMAIN sources /\ \A s \in DOMAIN sources : seqs[s] = row(s)
  BY <1>1, <1>2, IsASeq
<1>4. \A s \in DOMAIN seqs : Increasing(seqs[s], PlaceOrder)
  BY <1>2, <1>3
<1>5. ASSUME NEW s \in DOMAIN seqs, NEW t \in DOMAIN seqs, s < t,
             NEW a \in Members(seqs[s]), NEW b \in Members(seqs[t])
      PROVE  <<a, b>> \in PlaceOrder
  <2>1. a \in {<<s, c>> : c \in DOMAIN sources[s].cols} /\ b \in {<<t, c>> : c \in DOMAIN sources[t].cols}
    BY <1>2, <1>3
  <2>2. a \in Positions(sources) /\ b \in Positions(sources) /\ a[1] = s /\ b[1] = t
    BY <1>3, <2>1 DEF Positions
  <2>3. a \in Places /\ b \in Places
    BY <2>2, PositionsTyped
  <2>4. QED
    BY <1>5, <2>2, <2>3, PlaceOrderStrict DEF Before
<1>6. Ordered(sources) = FlattenSeq(seqs)
  BY DEF Ordered
<1> HIDE DEF seqs
<1>7. UNION {Members(seqs[s]) : s \in DOMAIN seqs} = Positions(sources)
  <2>1. \A s \in DOMAIN sources : Members(seqs[s]) = {<<s, c>> : c \in DOMAIN sources[s].cols}
    BY <1>2, <1>3
  <2>2. QED
    BY <1>3, <2>1 DEF Positions
<1>8. \A s, t \in DOMAIN seqs : s < t =>
          \A a \in Members(seqs[s]), b \in Members(seqs[t]) : <<a, b>> \in PlaceOrder
  BY <1>5
<1>9. seqs \in Seq(Seq(Places))
  BY <1>3
<1>10. /\ FlattenSeq(seqs) \in Seq(Places)
       /\ Members(FlattenSeq(seqs)) = UNION {Members(seqs[s]) : s \in DOMAIN seqs}
       /\ Increasing(FlattenSeq(seqs), PlaceOrder)
  BY <1>4, <1>8, <1>9, FlattenSorted
<1>11. QED
  BY <1>6, <1>7, <1>10

\* Where the members of s \o t come from.
LEMMA Joined ==
    ASSUME NEW S, NEW s \in Seq(S), NEW t \in Seq(S)
    PROVE  /\ s \o t \in Seq(S)
           /\ Len(s) \in Nat
           /\ \A i \in DOMAIN s : /\ i \in Nat /\ 1 <= i /\ i <= Len(s)
                                  /\ i \in DOMAIN (s \o t) /\ (s \o t)[i] = s[i]
           /\ \A j \in DOMAIN t : /\ j \in Nat /\ 1 <= j
                                  /\ j + Len(s) \in DOMAIN (s \o t) /\ (s \o t)[j + Len(s)] = t[j]
           /\ \A i \in DOMAIN (s \o t) : i \in DOMAIN s \/ \E j \in DOMAIN t : i = j + Len(s)
<1> DEFINE u == s \o t
           m == Len(s)
           n == Len(t)
<1>1. /\ u \in Seq(S) /\ Len(u) = m + n /\ m \in Nat /\ n \in Nat
      /\ \A i \in 1..(m + n) : u[i] = IF i <= m THEN s[i] ELSE t[i - m]
  BY ConcatProperties
<1>2. DOMAIN s = 1..m /\ DOMAIN t = 1..n /\ DOMAIN u = 1..(m + n)
  BY <1>1
<1> HIDE DEF u, m, n
<1>3. \A i \in 1..m : i \in Nat /\ 1 <= i /\ i <= m /\ i \in 1..(m + n) /\ u[i] = s[i]
  BY <1>1
<1>4. ASSUME NEW j \in 1..n
      PROVE  j \in Nat /\ 1 <= j /\ j + m \in 1..(m + n) /\ u[j + m] = t[j]
  <2>1. j + m \in 1..(m + n) /\ ~ (j + m <= m) /\ j + m - m = j
    BY <1>1
  <2>2. u[j + m] = t[j]
    BY <1>1, <2>1
  <2>3. QED
    BY <1>1, <2>1, <2>2
<1>5. ASSUME NEW i \in 1..(m + n) PROVE i \in 1..m \/ \E j \in 1..n : i = j + m
  <2>1. CASE i <= m
    BY <1>1, <2>1
  <2>2. CASE ~ (i <= m)
    <3>1. i - m \in 1..n /\ i = (i - m) + m
      BY <1>1, <2>2
    <3>2. QED
      BY <3>1
  <2>3. QED
    BY <2>1, <2>2
<1>6. QED
  BY <1>1, <1>2, <1>3, <1>4, <1>5 DEF u, m, n

\* A position behind k more sources.
Later(p, k) == <<p[1] + k, p[2]>>

LEMMA PositionsJoined ==
    ASSUME NEW a \in Seq(Source), NEW b \in Seq(Source)
    PROVE  LET s == a \o b
               m == Len(a)
           IN  /\ s \in Seq(Source) /\ m \in Nat
               /\ \A p \in Positions(a) :
                     /\ p \in Positions(s) /\ s[p[1]] = a[p[1]]
                     /\ Col(s, p) = Col(a, p) /\ Key(s, p) = Key(a, p)
               /\ \A p \in Positions(b) :
                     /\ Later(p, m) \in Positions(s) /\ s[Later(p, m)[1]] = b[p[1]]
                     /\ Col(s, Later(p, m)) = Col(b, p) /\ Key(s, Later(p, m)) = Key(b, p)
               /\ \A p \in Positions(s) :
                     p \in Positions(a) \/ \E q \in Positions(b) : p = Later(q, m)
               /\ \A p \in Positions(a), q \in Positions(b) : Before(p, Later(q, m))
               /\ \A p, q \in Positions(b) : Before(Later(p, m), Later(q, m)) <=> Before(p, q)
<1> DEFINE s == a \o b
           m == Len(a)
<1>1. /\ s \in Seq(Source) /\ m \in Nat
      /\ \A i \in DOMAIN a : i \in Nat /\ 1 <= i /\ i <= m /\ i \in DOMAIN s /\ s[i] = a[i]
      /\ \A j \in DOMAIN b : j \in Nat /\ 1 <= j /\ j + m \in DOMAIN s /\ s[j + m] = b[j]
      /\ \A i \in DOMAIN s : i \in DOMAIN a \/ \E j \in DOMAIN b : i = j + m
  BY Joined
<1> HIDE DEF s, m
<1>2. ASSUME NEW p \in Positions(a)
      PROVE  p \in Positions(s) /\ s[p[1]] = a[p[1]] /\ Col(s, p) = Col(a, p) /\ Key(s, p) = Key(a, p)
  <2>1. p[1] \in DOMAIN a /\ p[2] \in DOMAIN a[p[1]].cols /\ p = <<p[1], p[2]>>
    BY PositionsTyped
  <2>2. p[1] \in DOMAIN s /\ s[p[1]] = a[p[1]]
    BY <1>1, <2>1
  <2>3. <<p[1], p[2]>> \in Positions(s)
    BY <1>1, <2>1, <2>2, PositionsTyped
  <2>4. QED
    BY <2>1, <2>2, <2>3 DEF Col, Key
<1>3. ASSUME NEW p \in Positions(b)
      PROVE  /\ Later(p, m) \in Positions(s) /\ s[Later(p, m)[1]] = b[p[1]]
             /\ Col(s, Later(p, m)) = Col(b, p) /\ Key(s, Later(p, m)) = Key(b, p)
  <2>1. p[1] \in DOMAIN b /\ p[2] \in DOMAIN b[p[1]].cols
    BY PositionsTyped
  <2>2. p[1] + m \in DOMAIN s /\ s[p[1] + m] = b[p[1]]
    BY <1>1, <2>1
  <2>3. <<p[1] + m, p[2]>> \in Positions(s)
    BY <1>1, <2>1, <2>2, PositionsTyped
  <2>4. QED
    BY <2>2, <2>3 DEF Col, Key, Later
<1>4. ASSUME NEW p \in Positions(s)
      PROVE  p \in Positions(a) \/ \E q \in Positions(b) : p = Later(q, m)
  <2>1. p[1] \in DOMAIN s /\ p[2] \in DOMAIN s[p[1]].cols /\ p = <<p[1], p[2]>>
    BY <1>1, PositionsTyped
  <2>2. CASE p[1] \in DOMAIN a
    <3>1. <<p[1], p[2]>> \in Positions(a)
      BY <1>1, <2>1, <2>2, PositionsTyped
    <3>2. QED
      BY <2>1, <3>1
  <2>3. ASSUME NEW j \in DOMAIN b, p[1] = j + m PROVE \E q \in Positions(b) : p = Later(q, m)
    <3>1. <<j, p[2]>> \in Positions(b)
      BY <1>1, <2>1, <2>3, PositionsTyped
    <3>2. p = Later(<<j, p[2]>>, m)
      BY <2>1, <2>3 DEF Later
    <3>3. QED
      BY <3>1, <3>2
  <2>4. QED
    BY <1>1, <2>1, <2>2, <2>3
<1>5. ASSUME NEW p \in Positions(a), NEW q \in Positions(b) PROVE Before(p, Later(q, m))
  <2>1. p[1] \in DOMAIN a /\ q[1] \in DOMAIN b
    BY PositionsTyped
  <2>2. p[1] \in Nat /\ p[1] <= m /\ q[1] \in Nat /\ 1 <= q[1]
    BY <1>1, <2>1
  <2>3. p[1] < q[1] + m
    BY <1>1, <2>2
  <2>4. QED
    BY <2>3 DEF Before, Later
<1>6. ASSUME NEW p \in Positions(b), NEW q \in Positions(b)
      PROVE  Before(Later(p, m), Later(q, m)) <=> Before(p, q)
  <2>1. p[1] \in Nat /\ q[1] \in Nat
    <3>1. p[1] \in DOMAIN b /\ q[1] \in DOMAIN b
      BY PositionsTyped
    <3>2. QED
      BY <1>1, <3>1
  <2>2. (p[1] + m < q[1] + m <=> p[1] < q[1]) /\ (p[1] + m = q[1] + m <=> p[1] = q[1])
    BY <1>1, <2>1
  <2>3. QED
    BY <2>2 DEF Before, Later
<1>7. QED
  BY <1>1, <1>2, <1>3, <1>4, <1>5, <1>6 DEF s, m

-----------------------------------------------------------------------------
(* What holds of every FROM item.                                           *)

Values == Seq(Nat)
Shows  == [name : Text, at : Places]
Item  == [sources : Seq(Source), rows : SUBSET Seq(Values), out : Seq(Shows)]

\* A row has a value for every column.
Fits(it) ==
    \A r \in it.rows :
        /\ DOMAIN r = DOMAIN it.sources
        /\ \A s \in DOMAIN it.sources : DOMAIN r[s] = DOMAIN it.sources[s].cols

KeyPlaces(src) == {c \in DOMAIN src.cols : src.cols[c].name \in src.key}

NamesApart(src) ==
    \A c, d \in DOMAIN src.cols : src.cols[c].name = src.cols[d].name => c = d

\* A primary key names columns of its source, by names that are unique.
KeyNamed(src) ==
    /\ src.alias # ""
    /\ \A n \in src.key : \E c \in DOMAIN src.cols : src.cols[c].name = n
    /\ NamesApart(src)

KeysNamed(it) ==
    \A s \in DOMAIN it.sources : it.sources[s].key # {} => KeyNamed(it.sources[s])

\* The key settles what a source contributes to a row.  A part an outer join
\* padded is told from the others by a key of NULLs.
KeysSettle(it) ==
    \A s \in DOMAIN it.sources : it.sources[s].key # {} =>
        \A r \in it.rows :
            /\ \/ \A c \in DOMAIN r[s] : r[s][c] = Null
               \/ \A c \in KeyPlaces(it.sources[s]) : r[s][c] # Null
            /\ \A x \in it.rows :
                  (\A c \in KeyPlaces(it.sources[s]) : x[s][c] = r[s][c]) => x[s] = r[s]

\* Only merged sources share an alias, the empty one.
AliasesApart(it) ==
    \A s, t \in DOMAIN it.sources :
        it.sources[s].alias = it.sources[t].alias /\ it.sources[s].alias # "" => s = t

\* A column PostgreSQL shows is there, under its name.
OutNamed(it) ==
    \A i \in DOMAIN it.out :
        /\ it.out[i].at \in Positions(it.sources)
        /\ it.out[i].name = Col(it.sources, it.out[i].at).name

\* A column PostgreSQL does not show stands behind one of its name.
OutCovers(it) ==
    \A p \in Positions(it.sources) :
        \/ \E i \in DOMAIN it.out : it.out[i].at = p
        \/ \E q \in Positions(it.sources) :
              Before(q, p) /\ Col(it.sources, q).name = Col(it.sources, p).name

ItemOk(it) ==
    /\ it \in Item
    /\ Fits(it) /\ KeysNamed(it) /\ KeysSettle(it) /\ AliasesApart(it)
    /\ OutNamed(it) /\ OutCovers(it)

\* Outside the aliases of M a NOT NULL column is never NULL.
NullsOk(it, M) ==
    \A r \in it.rows : \A p \in Positions(it.sources) :
        Col(it.sources, p).notnull /\ it.sources[p[1]].alias \notin M => At(r, p) # Null

\* The columns PostgreSQL shows are those that are not in H, in their order.
StarShown(it, H) ==
    /\ \A i, j \in DOMAIN it.out : i < j => Before(it.out[i].at, it.out[j].at)
    /\ \A p \in Positions(it.sources) :
          Key(it.sources, p) \notin H <=> \E i \in DOMAIN it.out : it.out[i].at = p
    /\ \A s \in DOMAIN it.sources : NamesApart(it.sources[s])

\* Those that are in H have been merged.
StarOk(it, H) ==
    /\ StarShown(it, H)
    /\ \A p \in Positions(it.sources) : Key(it.sources, p) \in H =>
          \E q \in Positions(it.sources) :
             it.sources[q[1]].alias = "" /\ Col(it.sources, q).name = Col(it.sources, p).name

\* Fewer rows do no harm.
LEMMA FewerRows ==
    ASSUME NEW it, ItemOk(it), NEW R, R \subseteq it.rows
    PROVE  LET less == [sources |-> it.sources, rows |-> R, out |-> it.out]
           IN  /\ ItemOk(less)
               /\ \A M : NullsOk(it, M) => NullsOk(less, M)
               /\ \A H : StarOk(it, H) => StarOk(less, H)
<1> DEFINE less == [sources |-> it.sources, rows |-> R, out |-> it.out]
<1>1. less.sources = it.sources /\ less.rows = R /\ less.out = it.out
  OBVIOUS
<1>2. less \in Item
  BY DEF ItemOk, Item
<1> HIDE DEF less
<1>3. Fits(less)
  BY <1>1 DEF ItemOk, Fits
<1>4. KeysNamed(less)
  BY <1>1 DEF ItemOk, KeysNamed
<1>5. KeysSettle(less)
  BY <1>1 DEF ItemOk, KeysSettle
<1>6. AliasesApart(less)
  BY <1>1 DEF ItemOk, AliasesApart
<1>7. OutNamed(less)
  BY <1>1 DEF ItemOk, OutNamed
<1>8. OutCovers(less)
  BY <1>1 DEF ItemOk, OutCovers
<1>9. \A M : NullsOk(it, M) => NullsOk(less, M)
  BY <1>1 DEF NullsOk
<1>10. \A H : StarOk(it, H) => StarOk(less, H)
  BY <1>1 DEF StarOk, StarShown
<1>11. QED
  BY <1>2, <1>3, <1>4, <1>5, <1>6, <1>7, <1>8, <1>9, <1>10 DEF ItemOk, less

\* What an outer join may pad.
WithPad(it) == [sources |-> it.sources, rows |-> it.rows \cup {Pad(it)}, out |-> it.out]

LEMMA PadTyped ==
    ASSUME NEW it \in Item
    PROVE  /\ Pad(it) \in Seq(Values)
           /\ DOMAIN Pad(it) = DOMAIN it.sources
           /\ \A s \in DOMAIN it.sources :
                 /\ DOMAIN Pad(it)[s] = DOMAIN it.sources[s].cols
                 /\ \A c \in DOMAIN it.sources[s].cols : Pad(it)[s][c] = Null
<1>1. it.sources \in Seq(Source)
  BY DEF Item
<1>2. Len(it.sources) \in Nat /\ DOMAIN it.sources = 1..Len(it.sources)
  BY <1>1
<1>3. \A s \in DOMAIN it.sources : it.sources[s].cols \in Seq(Column)
  <2>1. \A s \in DOMAIN it.sources : it.sources[s] \in Source
    BY <1>1
  <2>2. QED
    BY <2>1 DEF Source
<1> DEFINE part(s) == [c \in DOMAIN it.sources[s].cols |-> Null]
<1>4. \A s \in DOMAIN it.sources : part(s) \in Values
  <2>1. ASSUME NEW s \in DOMAIN it.sources PROVE part(s) \in Values
    <3>1. Len(it.sources[s].cols) \in Nat /\ DOMAIN it.sources[s].cols = 1..Len(it.sources[s].cols)
      BY <1>3
    <3>2. QED
      BY <3>1, IsASeq DEF Null, Values
  <2>2. QED
    BY <2>1
<1>5. Pad(it) = [s \in 1..Len(it.sources) |-> part(s)]
  BY <1>2 DEF Pad
<1>6. \A s \in DOMAIN it.sources : /\ DOMAIN part(s) = DOMAIN it.sources[s].cols
                                   /\ \A c \in DOMAIN it.sources[s].cols : part(s)[c] = Null
  OBVIOUS
<1> HIDE DEF part
<1>7. Pad(it) \in Seq(Values)
  BY <1>2, <1>4, <1>5, IsASeq
<1>8. QED
  BY <1>2, <1>5, <1>6, <1>7

LEMMA PaddedOk ==
    ASSUME NEW it, ItemOk(it)
    PROVE  /\ ItemOk(WithPad(it))
           /\ \A M : collect_aliases(it) \subseteq M => NullsOk(WithPad(it), M)
<1> DEFINE w == WithPad(it)
           pad == Pad(it)
<1>1. w.sources = it.sources /\ w.rows = it.rows \cup {pad} /\ w.out = it.out
  BY DEF WithPad
<1>2. it \in Item
  BY DEF ItemOk
<1>3. /\ pad \in Seq(Values) /\ DOMAIN pad = DOMAIN it.sources
      /\ \A s \in DOMAIN it.sources :
            /\ DOMAIN pad[s] = DOMAIN it.sources[s].cols
            /\ \A c \in DOMAIN it.sources[s].cols : pad[s][c] = Null
  BY <1>2, PadTyped
<1>4. w \in Item
  BY <1>2, <1>3 DEF Item, WithPad
<1> HIDE DEF w, pad
<1>5. Fits(w)
  BY <1>1, <1>3 DEF ItemOk, Fits
<1>6. KeysNamed(w)
  BY <1>1 DEF ItemOk, KeysNamed
<1>7. KeysSettle(w)
  <2> SUFFICES ASSUME NEW s \in DOMAIN it.sources, it.sources[s].key # {}
               PROVE \A r \in w.rows :
            /\ \/ \A c \in DOMAIN r[s] : r[s][c] = Null
               \/ \A c \in KeyPlaces(it.sources[s]) : r[s][c] # Null
            /\ \A x \in w.rows :
                  (\A c \in KeyPlaces(it.sources[s]) : x[s][c] = r[s][c]) => x[s] = r[s]
    BY <1>1 DEF KeysSettle
  <2>1. \A r \in w.rows : \/ \A c \in DOMAIN r[s] : r[s][c] = Null
                          \/ \A c \in KeyPlaces(it.sources[s]) : r[s][c] # Null
    <3>1. \A r \in it.rows : \/ \A c \in DOMAIN r[s] : r[s][c] = Null
                             \/ \A c \in KeyPlaces(it.sources[s]) : r[s][c] # Null
      BY DEF ItemOk, KeysSettle
    <3>2. \A c \in DOMAIN pad[s] : pad[s][c] = Null
      BY <1>3
    <3>3. QED
      BY <1>1, <3>1, <3>2
  <2>2. PICK k \in KeyPlaces(it.sources[s]) : TRUE
    <3>1. KeyNamed(it.sources[s])
      BY DEF ItemOk, KeysNamed
    <3>2. PICK n \in it.sources[s].key : TRUE
      OBVIOUS
    <3>3. PICK c \in DOMAIN it.sources[s].cols : it.sources[s].cols[c].name = n
      BY <3>1, <3>2 DEF KeyNamed
    <3>4. c \in KeyPlaces(it.sources[s])
      BY <3>3 DEF KeyPlaces
    <3>5. QED
      BY <3>4
  <2>3. \A r \in w.rows : r \in Seq(Values) /\ DOMAIN r = DOMAIN it.sources
                          /\ DOMAIN r[s] = DOMAIN it.sources[s].cols
    BY <1>1, <1>2, <1>3 DEF ItemOk, Fits, Item
  <2>4. \A r \in w.rows : r[s] \in Values
    BY <2>3
  <2>5. ASSUME NEW r \in w.rows, NEW x \in w.rows,
               \A c \in KeyPlaces(it.sources[s]) : x[s][c] = r[s][c]
        PROVE  x[s] = r[s]
    <3>1. CASE r \in it.rows /\ x \in it.rows
      BY <2>5, <3>1 DEF ItemOk, KeysSettle
    <3>2. CASE r = pad \/ x = pad
      <4>1. k \in DOMAIN it.sources[s].cols
        BY <2>2 DEF KeyPlaces
      <4>2. r[s][k] = Null /\ x[s][k] = Null
        BY <1>3, <2>2, <2>5, <3>2, <4>1
      <4>3. (\A c \in DOMAIN r[s] : r[s][c] = Null) /\ (\A c \in DOMAIN x[s] : x[s][c] = Null)
        BY <2>1, <2>2, <4>2
      <4>4. Len(r[s]) = Len(x[s]) /\ DOMAIN r[s] = 1..Len(r[s])
        BY <2>3, <2>4 DEF Values
      <4>5. \A c \in 1..Len(r[s]) : r[s][c] = x[s][c]
        BY <2>3, <4>3, <4>4
      <4>6. QED
        BY <2>4, <4>4, <4>5, SeqEqual DEF Values
    <3>3. QED
      BY <1>1, <3>1, <3>2
  <2>6. QED
    BY <2>1, <2>5
<1>8. AliasesApart(w) /\ OutNamed(w) /\ OutCovers(w)
  BY <1>1 DEF ItemOk, AliasesApart, OutNamed, OutCovers
<1>9. ASSUME NEW M, collect_aliases(it) \subseteq M PROVE NullsOk(w, M)
  <2>1. \A p \in Positions(it.sources) : it.sources[p[1]].alias \in M
    BY <1>2, <1>9, PositionsTyped DEF Item, collect_aliases
  <2>2. QED
    BY <1>1, <2>1 DEF NullsOk
<1>10. QED
  BY <1>4, <1>5, <1>6, <1>7, <1>8, <1>9 DEF ItemOk, w

LEMMA ShiftTyped ==
    ASSUME NEW out \in Seq(Shows), NEW k \in Nat
    PROVE  /\ Shift(out, k) \in Seq(Shows) /\ DOMAIN Shift(out, k) = DOMAIN out
           /\ \A i \in DOMAIN out : /\ Shift(out, k)[i].name = out[i].name
                                    /\ Shift(out, k)[i].at = Later(out[i].at, k)
<1> DEFINE new(i) == [out[i] EXCEPT !.at = <<@[1] + k, @[2]>>]
<1>1. Len(out) \in Nat /\ DOMAIN out = 1..Len(out) /\ \A i \in DOMAIN out : out[i] \in Shows
  OBVIOUS
<1>2. ASSUME NEW i \in DOMAIN out
      PROVE  new(i) \in Shows /\ new(i).name = out[i].name /\ new(i).at = Later(out[i].at, k)
  <2>1. out[i].name \in Text /\ out[i].at \in Places /\ out[i] = [name |-> out[i].name, at |-> out[i].at]
    BY <1>1 DEF Shows
  <2>2. out[i].at[1] + k \in Nat /\ out[i].at[2] \in Nat
    BY <2>1 DEF Places
  <2>3. new(i) = [name |-> out[i].name, at |-> <<out[i].at[1] + k, out[i].at[2]>>]
    BY <2>1
  <2>4. QED
    BY <2>1, <2>2, <2>3 DEF Later, Shows, Places
<1>3. Shift(out, k) = [i \in 1..Len(out) |-> new(i)]
  BY <1>1 DEF Shift
<1> HIDE DEF new
<1>4. Shift(out, k) \in Seq(Shows)
  BY <1>1, <1>2, <1>3, IsASeq
<1>5. QED
  BY <1>1, <1>2, <1>3, <1>4

LEMMA RowsJoined ==
    ASSUME NEW a \in Seq(Source), NEW x \in Seq(Values), DOMAIN x = DOMAIN a, NEW y \in Seq(Values)
    PROVE  /\ x \o y \in Seq(Values)
           /\ \A s \in DOMAIN x : s \in DOMAIN (x \o y) /\ (x \o y)[s] = x[s]
           /\ \A s \in DOMAIN y : /\ s + Len(a) \in DOMAIN (x \o y)
                                  /\ (x \o y)[s + Len(a)] = y[s]
           /\ \A s \in DOMAIN (x \o y) : s \in DOMAIN x \/ \E t \in DOMAIN y : s = t + Len(a)
           /\ \A p : p[1] \in DOMAIN x => At(x \o y, p) = At(x, p)
           /\ \A p : p[1] \in DOMAIN y => At(x \o y, Later(p, Len(a))) = At(y, p)
<1>1. Len(x) = Len(a)
  OBVIOUS
<1>2. /\ x \o y \in Seq(Values)
      /\ \A s \in DOMAIN x : s \in DOMAIN (x \o y) /\ (x \o y)[s] = x[s]
      /\ \A s \in DOMAIN y : s + Len(a) \in DOMAIN (x \o y) /\ (x \o y)[s + Len(a)] = y[s]
      /\ \A s \in DOMAIN (x \o y) : s \in DOMAIN x \/ \E t \in DOMAIN y : s = t + Len(a)
  BY <1>1, Joined
<1>3. \A p : p[1] \in DOMAIN x => At(x \o y, p) = At(x, p)
  BY <1>2 DEF At
<1>4. \A p : p[1] \in DOMAIN y => At(x \o y, Later(p, Len(a))) = At(y, p)
  BY <1>2 DEF At, Later
<1>5. QED
  BY <1>2, <1>3, <1>4

Apart(l, r) == collect_aliases(l) \cap collect_aliases(r) \subseteq {""}

LEMMA CrossRows ==
    ASSUME NEW l, NEW r
    PROVE  /\ \A x \in l.rows, y \in r.rows : x \o y \in Cross(l, r).rows
           /\ \A w \in Cross(l, r).rows : \E x \in l.rows, y \in r.rows : w = x \o y
<1>1. Cross(l, r).rows = {z[1] \o z[2] : z \in l.rows \X r.rows}
  BY DEF Cross
<1>2. ASSUME NEW x \in l.rows, NEW y \in r.rows PROVE x \o y \in Cross(l, r).rows
  <2>1. <<x, y>> \in l.rows \X r.rows /\ <<x, y>>[1] = x /\ <<x, y>>[2] = y
    OBVIOUS
  <2>2. QED
    BY <1>1, <2>1
<1>3. ASSUME NEW w \in Cross(l, r).rows PROVE \E x \in l.rows, y \in r.rows : w = x \o y
  BY <1>1
<1>4. QED
  BY <1>2, <1>3

\* The sources of Cross(l, r), and where they come from.
LEMMA CrossSources ==
    ASSUME NEW l, NEW r, l.sources \in Seq(Source), r.sources \in Seq(Source)
    PROVE  LET c == Cross(l, r)
               m == Len(l.sources)
           IN  /\ c.sources \in Seq(Source) /\ m \in Nat
               /\ \A s \in DOMAIN l.sources : s \in DOMAIN c.sources /\ c.sources[s] = l.sources[s]
               /\ \A s \in DOMAIN r.sources : s + m \in DOMAIN c.sources /\ c.sources[s + m] = r.sources[s]
               /\ \A s \in DOMAIN c.sources : s \in DOMAIN l.sources \/ \E t \in DOMAIN r.sources : s = t + m
<1>1. Cross(l, r).sources = l.sources \o r.sources
  BY DEF Cross
<1> DEFINE c == l.sources \o r.sources
           m == Len(l.sources)
<1>2. /\ c \in Seq(Source) /\ m \in Nat
      /\ \A s \in DOMAIN l.sources : s \in DOMAIN c /\ c[s] = l.sources[s]
      /\ \A s \in DOMAIN r.sources : s + m \in DOMAIN c /\ c[s + m] = r.sources[s]
      /\ \A s \in DOMAIN c : s \in DOMAIN l.sources \/ \E t \in DOMAIN r.sources : s = t + m
  <2>1. ASSUME NEW a \in Seq(Source), NEW b \in Seq(Source)
        PROVE  /\ a \o b \in Seq(Source) /\ Len(a) \in Nat
               /\ \A s \in DOMAIN a : s \in DOMAIN (a \o b) /\ (a \o b)[s] = a[s]
               /\ \A s \in DOMAIN b : s + Len(a) \in DOMAIN (a \o b) /\ (a \o b)[s + Len(a)] = b[s]
               /\ \A s \in DOMAIN (a \o b) : s \in DOMAIN a \/ \E t \in DOMAIN b : s = t + Len(a)
    BY Joined
  <2>2. QED
    BY <2>1
<1> HIDE DEF c
<1>3. QED
  BY <1>1, <1>2 DEF c

\* Cross(l, r) is an item whose rows fit it.
LEMMA CrossTyped ==
    ASSUME NEW l, NEW r, l \in Item, r \in Item, Fits(l), Fits(r)
    PROVE  /\ Cross(l, r) \in Item /\ Fits(Cross(l, r))
           /\ collect_aliases(Cross(l, r)) = collect_aliases(l) \cup collect_aliases(r)
<1> DEFINE c == Cross(l, r)
           m == Len(l.sources)
<1>0. /\ c.out = l.out \o Shift(r.out, m)
      /\ c = [sources |-> c.sources, rows |-> c.rows, out |-> c.out]
  BY DEF Cross
<1>1. \A w \in c.rows : \E x \in l.rows, y \in r.rows : w = x \o y
  BY CrossRows
<1>2. /\ l.sources \in Seq(Source) /\ r.sources \in Seq(Source)
      /\ l.out \in Seq(Shows) /\ r.out \in Seq(Shows)
      /\ l.rows \subseteq Seq(Values) /\ r.rows \subseteq Seq(Values)
  BY DEF Item
<1>3. /\ c.sources \in Seq(Source) /\ m \in Nat
      /\ \A s \in DOMAIN l.sources : s \in DOMAIN c.sources /\ c.sources[s] = l.sources[s]
      /\ \A s \in DOMAIN r.sources : s + m \in DOMAIN c.sources /\ c.sources[s + m] = r.sources[s]
      /\ \A s \in DOMAIN c.sources : s \in DOMAIN l.sources \/ \E t \in DOMAIN r.sources : s = t + m
  BY <1>2, CrossSources
<1> HIDE DEF c, m
<1>4. c.out \in Seq(Shows)
  <2>1. Shift(r.out, m) \in Seq(Shows)
    BY <1>2, <1>3, ShiftTyped DEF m
  <2>2. QED
    BY <1>0, <1>2, <2>1, ConcatProperties
<1>5. ASSUME NEW x \in l.rows, NEW y \in r.rows
      PROVE  /\ x \o y \in Seq(Values) /\ DOMAIN (x \o y) = DOMAIN c.sources
             /\ \A s \in DOMAIN c.sources : DOMAIN (x \o y)[s] = DOMAIN c.sources[s].cols
  <2>1. /\ x \in Seq(Values) /\ y \in Seq(Values)
        /\ DOMAIN x = DOMAIN l.sources /\ DOMAIN y = DOMAIN r.sources
        /\ \A s \in DOMAIN l.sources : DOMAIN x[s] = DOMAIN l.sources[s].cols
        /\ \A s \in DOMAIN r.sources : DOMAIN y[s] = DOMAIN r.sources[s].cols
    BY <1>2 DEF Fits
  <2>2. /\ x \o y \in Seq(Values)
        /\ \A s \in DOMAIN x : s \in DOMAIN (x \o y) /\ (x \o y)[s] = x[s]
        /\ \A s \in DOMAIN y : s + m \in DOMAIN (x \o y) /\ (x \o y)[s + m] = y[s]
        /\ \A s \in DOMAIN (x \o y) : s \in DOMAIN x \/ \E t \in DOMAIN y : s = t + m
    BY <1>2, <2>1, RowsJoined DEF m
  <2>3. DOMAIN (x \o y) = DOMAIN c.sources
    <3> DEFINE z == x \o y
    <3>1. /\ \A s \in DOMAIN x : s \in DOMAIN z
          /\ \A s \in DOMAIN y : s + m \in DOMAIN z
          /\ \A s \in DOMAIN z : s \in DOMAIN x \/ \E t \in DOMAIN y : s = t + m
      BY <2>2
    <3> HIDE DEF z
    <3>2. \A s \in DOMAIN z : s \in DOMAIN c.sources
      BY <1>3, <2>1, <3>1
    <3>3. \A s \in DOMAIN c.sources : s \in DOMAIN z
      BY <1>3, <2>1, <3>1
    <3>4. DOMAIN z = DOMAIN c.sources
      BY <3>2, <3>3
    <3>5. QED
      BY <3>4 DEF z
  <2>4. ASSUME NEW s \in DOMAIN c.sources PROVE DOMAIN (x \o y)[s] = DOMAIN c.sources[s].cols
    <3>1. CASE s \in DOMAIN l.sources
      BY <1>3, <2>1, <2>2, <3>1
    <3>2. ASSUME NEW t \in DOMAIN r.sources, s = t + m PROVE DOMAIN (x \o y)[s] = DOMAIN c.sources[s].cols
      BY <1>3, <2>1, <2>2, <3>2
    <3>3. QED
      BY <1>3, <3>1, <3>2
  <2>5. QED
    BY <2>2, <2>3, <2>4
<1>6. ASSUME NEW w \in c.rows
      PROVE  /\ w \in Seq(Values) /\ DOMAIN w = DOMAIN c.sources
             /\ \A s \in DOMAIN c.sources : DOMAIN w[s] = DOMAIN c.sources[s].cols
  <2>1. PICK x \in l.rows, y \in r.rows : w = x \o y
    BY <1>1
  <2>2. QED
    BY <1>5, <2>1
<1>7. Fits(c)
  BY <1>6 DEF Fits
<1>8. collect_aliases(c) = collect_aliases(l) \cup collect_aliases(r)
  <2>1. \A s \in DOMAIN c.sources : c.sources[s].alias \in collect_aliases(l) \cup collect_aliases(r)
    BY <1>3 DEF collect_aliases
  <2>2. \A s \in DOMAIN l.sources : l.sources[s].alias \in collect_aliases(c)
    BY <1>3 DEF collect_aliases
  <2>3. \A s \in DOMAIN r.sources : r.sources[s].alias \in collect_aliases(c)
    BY <1>3 DEF collect_aliases
  <2>4. QED
    BY <2>1, <2>2, <2>3 DEF collect_aliases
<1>9. c \in Item
  BY <1>0, <1>3, <1>4, <1>6 DEF Item
<1>10. QED
  BY <1>7, <1>8, <1>9 DEF c

LEMMA CrossKeys ==
    ASSUME NEW l, NEW r, ItemOk(l), ItemOk(r)
    PROVE  KeysNamed(Cross(l, r)) /\ KeysSettle(Cross(l, r))
<1> DEFINE c == Cross(l, r)
           m == Len(l.sources)
<1>1. \A w \in c.rows : \E x \in l.rows, y \in r.rows : w = x \o y
  BY CrossRows
<1>2. /\ l.sources \in Seq(Source) /\ r.sources \in Seq(Source)
      /\ l.rows \subseteq Seq(Values) /\ r.rows \subseteq Seq(Values)
      /\ Fits(l) /\ Fits(r) /\ KeysNamed(l) /\ KeysNamed(r) /\ KeysSettle(l) /\ KeysSettle(r)
  BY DEF ItemOk, Item
<1>3. /\ \A s \in DOMAIN l.sources : s \in DOMAIN c.sources /\ c.sources[s] = l.sources[s]
      /\ \A s \in DOMAIN r.sources : s + m \in DOMAIN c.sources /\ c.sources[s + m] = r.sources[s]
      /\ \A s \in DOMAIN c.sources : s \in DOMAIN l.sources \/ \E t \in DOMAIN r.sources : s = t + m
  BY <1>2, CrossSources
<1> HIDE DEF c, m
<1>4. KeysNamed(c)
  <2>1. \A s \in DOMAIN l.sources : c.sources[s].key # {} => KeyNamed(c.sources[s])
    BY <1>2, <1>3 DEF KeysNamed
  <2>2. \A s \in DOMAIN r.sources : c.sources[s + m].key # {} => KeyNamed(c.sources[s + m])
    BY <1>2, <1>3 DEF KeysNamed
  <2>3. QED
    BY <1>3, <2>1, <2>2 DEF KeysNamed
<1>5. ASSUME NEW x \in l.rows, NEW y \in r.rows
      PROVE  /\ \A s \in DOMAIN l.sources : (x \o y)[s] = x[s]
             /\ \A s \in DOMAIN r.sources : (x \o y)[s + m] = y[s]
  <2>1. /\ x \in Seq(Values) /\ y \in Seq(Values)
        /\ DOMAIN x = DOMAIN l.sources /\ DOMAIN y = DOMAIN r.sources
    BY <1>2 DEF Fits
  <2>2. QED
    BY <1>2, <2>1, RowsJoined DEF m
<1> DEFINE Settles(w, s, src) ==
            /\ \/ \A k \in DOMAIN w[s] : w[s][k] = Null
               \/ \A k \in KeyPlaces(src) : w[s][k] # Null
            /\ \A z \in c.rows : (\A k \in KeyPlaces(src) : z[s][k] = w[s][k]) => z[s] = w[s]
<1>6. ASSUME NEW s \in DOMAIN l.sources, l.sources[s].key # {}, NEW w \in c.rows
      PROVE  Settles(w, s, l.sources[s])
  <2>1. PICK x \in l.rows, y \in r.rows : w = x \o y
    BY <1>1
  <2>2. w[s] = x[s]
    BY <1>5, <2>1
  <2>3. \/ \A k \in DOMAIN x[s] : x[s][k] = Null
        \/ \A k \in KeyPlaces(l.sources[s]) : x[s][k] # Null
    BY <1>2, <1>6 DEF KeysSettle
  <2>4. ASSUME NEW z \in c.rows, \A k \in KeyPlaces(l.sources[s]) : z[s][k] = w[s][k]
        PROVE  z[s] = w[s]
    <3>1. PICK u \in l.rows, v \in r.rows : z = u \o v
      BY <1>1
    <3>2. z[s] = u[s]
      BY <1>5, <3>1
    <3>3. \A k \in KeyPlaces(l.sources[s]) : u[s][k] = x[s][k]
      BY <2>2, <2>4, <3>2
    <3>4. u[s] = x[s]
      BY <1>2, <1>6, <3>3 DEF KeysSettle
    <3>5. QED
      BY <2>2, <3>2, <3>4
  <2>5. QED
    BY <2>2, <2>3, <2>4
<1>7. ASSUME NEW s \in DOMAIN r.sources, r.sources[s].key # {}, NEW w \in c.rows
      PROVE  Settles(w, s + m, r.sources[s])
  <2>1. PICK x \in l.rows, y \in r.rows : w = x \o y
    BY <1>1
  <2>2. w[s + m] = y[s]
    BY <1>5, <2>1
  <2>3. \/ \A k \in DOMAIN y[s] : y[s][k] = Null
        \/ \A k \in KeyPlaces(r.sources[s]) : y[s][k] # Null
    BY <1>2, <1>7 DEF KeysSettle
  <2>4. ASSUME NEW z \in c.rows, \A k \in KeyPlaces(r.sources[s]) : z[s + m][k] = w[s + m][k]
        PROVE  z[s + m] = w[s + m]
    <3>1. PICK u \in l.rows, v \in r.rows : z = u \o v
      BY <1>1
    <3>2. z[s + m] = v[s]
      BY <1>5, <3>1
    <3>3. \A k \in KeyPlaces(r.sources[s]) : v[s][k] = y[s][k]
      BY <2>2, <2>4, <3>2
    <3>4. v[s] = y[s]
      BY <1>2, <1>7, <3>3 DEF KeysSettle
    <3>5. QED
      BY <2>2, <3>2, <3>4
  <2>5. QED
    BY <2>2, <2>3, <2>4
<1> HIDE DEF Settles
<1>8. \A s \in DOMAIN c.sources : c.sources[s].key # {} => \A w \in c.rows : Settles(w, s, c.sources[s])
  <2>1. ASSUME NEW s \in DOMAIN c.sources, c.sources[s].key # {}, NEW w \in c.rows
        PROVE  Settles(w, s, c.sources[s])
    <3>1. CASE s \in DOMAIN l.sources
      BY <1>3, <1>6, <2>1, <3>1
    <3>2. ASSUME NEW t \in DOMAIN r.sources, s = t + m PROVE Settles(w, s, c.sources[s])
      BY <1>3, <1>7, <2>1, <3>2
    <3>3. QED
      BY <1>3, <3>1, <3>2
  <2>2. QED
    BY <2>1
<1>9. KeysSettle(c)
  BY <1>8 DEF KeysSettle, Settles
<1>10. QED
  BY <1>4, <1>9 DEF c

\* What Cross(l, r) shows, and where it comes from.
LEMMA CrossShows ==
    ASSUME NEW l, NEW r, l \in Item, r \in Item
    PROVE  LET out == Cross(l, r).out
               m == Len(l.sources)
               n == Len(l.out)
           IN  /\ n \in Nat
               /\ \A i \in DOMAIN l.out : i \in Nat /\ i <= n /\ i \in DOMAIN out /\ out[i] = l.out[i]
               /\ \A j \in DOMAIN r.out :
                     /\ j \in Nat /\ 1 <= j /\ j + n \in DOMAIN out
                     /\ out[j + n].name = r.out[j].name
                     /\ out[j + n].at = Later(r.out[j].at, m)
               /\ \A i \in DOMAIN out : i \in DOMAIN l.out \/ \E j \in DOMAIN r.out : i = j + n
<1> DEFINE out == Cross(l, r).out
           m == Len(l.sources)
           n == Len(l.out)
           shifted == Shift(r.out, m)
<1>1. l.sources \in Seq(Source) /\ l.out \in Seq(Shows) /\ r.out \in Seq(Shows)
  BY DEF Item
<1>2. m \in Nat
  BY <1>1
<1>3. /\ shifted \in Seq(Shows) /\ DOMAIN shifted = DOMAIN r.out
      /\ \A j \in DOMAIN r.out : /\ shifted[j].name = r.out[j].name
                                 /\ shifted[j].at = Later(r.out[j].at, m)
  BY <1>1, <1>2, ShiftTyped
<1>4. out = l.out \o shifted
  BY DEF Cross
<1> HIDE DEF out, shifted, m
<1>5. /\ n \in Nat
      /\ \A i \in DOMAIN l.out : i \in Nat /\ i <= n /\ i \in DOMAIN out /\ out[i] = l.out[i]
      /\ \A j \in DOMAIN shifted : j \in Nat /\ 1 <= j /\ j + n \in DOMAIN out /\ out[j + n] = shifted[j]
      /\ \A i \in DOMAIN out : i \in DOMAIN l.out \/ \E j \in DOMAIN shifted : i = j + n
  <2> DEFINE first == l.out
  <2>1. first \in Seq(Shows) /\ shifted \in Seq(Shows) /\ out = first \o shifted
    BY <1>1, <1>3, <1>4
  <2> HIDE DEF first
  <2>2. /\ Len(first) \in Nat
        /\ \A i \in DOMAIN first : i \in Nat /\ i <= Len(first) /\ i \in DOMAIN out /\ out[i] = first[i]
        /\ \A j \in DOMAIN shifted : /\ j \in Nat /\ 1 <= j /\ j + Len(first) \in DOMAIN out
                                     /\ out[j + Len(first)] = shifted[j]
        /\ \A i \in DOMAIN out : i \in DOMAIN first \/ \E j \in DOMAIN shifted : i = j + Len(first)
    BY <2>1, Joined
  <2>3. QED
    BY <2>2 DEF first
<1> HIDE DEF n
<1>6. \A j \in DOMAIN r.out : /\ j \in Nat /\ 1 <= j /\ j + n \in DOMAIN out
                              /\ out[j + n].name = r.out[j].name
                              /\ out[j + n].at = Later(r.out[j].at, m)
  BY <1>3, <1>5
<1>7. QED
  BY <1>3, <1>5, <1>6 DEF out, m, n

\* The positions of Cross(l, r), and where they come from.
LEMMA CrossPositions ==
    ASSUME NEW l, NEW r, l \in Item, r \in Item
    PROVE  LET s == Cross(l, r).sources
               a == l.sources
               b == r.sources
               m == Len(l.sources)
           IN  /\ s \in Seq(Source) /\ m \in Nat
               /\ \A p \in Positions(a) :
                     /\ p \in Positions(s) /\ s[p[1]] = a[p[1]]
                     /\ Col(s, p) = Col(a, p) /\ Key(s, p) = Key(a, p)
               /\ \A p \in Positions(b) :
                     /\ Later(p, m) \in Positions(s) /\ s[Later(p, m)[1]] = b[p[1]]
                     /\ Col(s, Later(p, m)) = Col(b, p) /\ Key(s, Later(p, m)) = Key(b, p)
               /\ \A p \in Positions(s) :
                     p \in Positions(a) \/ \E q \in Positions(b) : p = Later(q, m)
               /\ \A p \in Positions(a), q \in Positions(b) : Before(p, Later(q, m))
               /\ \A p, q \in Positions(b) : Before(Later(p, m), Later(q, m)) <=> Before(p, q)
<1>1. l.sources \in Seq(Source) /\ r.sources \in Seq(Source)
  BY DEF Item
<1>2. Cross(l, r).sources = l.sources \o r.sources
  BY DEF Cross
<1> DEFINE a == l.sources
           b == r.sources
           s == Cross(l, r).sources
<1>3. a \in Seq(Source) /\ b \in Seq(Source) /\ s = a \o b
  BY <1>1, <1>2
<1> HIDE DEF a, b, s
<1>4. /\ s \in Seq(Source) /\ Len(a) \in Nat
      /\ \A p \in Positions(a) :
            /\ p \in Positions(s) /\ s[p[1]] = a[p[1]]
            /\ Col(s, p) = Col(a, p) /\ Key(s, p) = Key(a, p)
      /\ \A p \in Positions(b) :
            /\ Later(p, Len(a)) \in Positions(s) /\ s[Later(p, Len(a))[1]] = b[p[1]]
            /\ Col(s, Later(p, Len(a))) = Col(b, p) /\ Key(s, Later(p, Len(a))) = Key(b, p)
      /\ \A p \in Positions(s) :
            p \in Positions(a) \/ \E q \in Positions(b) : p = Later(q, Len(a))
      /\ \A p \in Positions(a), q \in Positions(b) : Before(p, Later(q, Len(a)))
      /\ \A p, q \in Positions(b) : Before(Later(p, Len(a)), Later(q, Len(a))) <=> Before(p, q)
  BY <1>3, PositionsJoined
<1>5. QED
  BY <1>4 DEF a, b, s

LEMMA CrossNamed ==
    ASSUME NEW l, NEW r, l \in Item, r \in Item, OutNamed(l), OutNamed(r)
    PROVE  OutNamed(Cross(l, r))
<1> DEFINE c == Cross(l, r)
           s == c.sources
           a == l.sources
           b == r.sources
           m == Len(l.sources)
           n == Len(l.out)
<1>1. /\ \A p \in Positions(a) : p \in Positions(s) /\ Col(s, p) = Col(a, p)
      /\ \A p \in Positions(b) :
            Later(p, m) \in Positions(s) /\ Col(s, Later(p, m)) = Col(b, p)
  BY CrossPositions
<1>2. /\ \A i \in DOMAIN l.out : c.out[i] = l.out[i]
      /\ \A j \in DOMAIN r.out :
            /\ c.out[j + n].name = r.out[j].name
            /\ c.out[j + n].at = Later(r.out[j].at, m)
      /\ \A i \in DOMAIN c.out : i \in DOMAIN l.out \/ \E j \in DOMAIN r.out : i = j + n
  BY CrossShows
<1> HIDE DEF c, m, n
<1>3. /\ \A i \in DOMAIN l.out : /\ l.out[i].at \in Positions(a)
                                 /\ l.out[i].name = Col(a, l.out[i].at).name
      /\ \A i \in DOMAIN r.out : /\ r.out[i].at \in Positions(b)
                                 /\ r.out[i].name = Col(b, r.out[i].at).name
  BY DEF OutNamed
<1>4. \A i \in DOMAIN l.out : /\ c.out[i].at \in Positions(s)
                              /\ c.out[i].name = Col(s, c.out[i].at).name
  BY <1>1, <1>2, <1>3
<1>5. \A j \in DOMAIN r.out : /\ c.out[j + n].at \in Positions(s)
                              /\ c.out[j + n].name = Col(s, c.out[j + n].at).name
  BY <1>1, <1>2, <1>3
<1>6. OutNamed(c)
  BY <1>2, <1>4, <1>5 DEF OutNamed
<1>7. QED
  BY <1>6 DEF c

LEMMA CrossOk ==
    ASSUME NEW l, NEW r, ItemOk(l), ItemOk(r), Apart(l, r)
    PROVE  ItemOk(Cross(l, r))
<1> DEFINE c == Cross(l, r)
           s == c.sources
           a == l.sources
           b == r.sources
           m == Len(l.sources)
           n == Len(l.out)
<1>1. l \in Item /\ r \in Item /\ Fits(l) /\ Fits(r)
  BY DEF ItemOk
<1>2. c \in Item /\ Fits(c)
  BY <1>1, CrossTyped
<1>3. KeysNamed(c) /\ KeysSettle(c)
  BY CrossKeys
<1>4. /\ \A p \in Positions(a) :
            /\ p \in Positions(s) /\ s[p[1]] = a[p[1]]
            /\ Col(s, p) = Col(a, p) /\ Key(s, p) = Key(a, p)
      /\ \A p \in Positions(b) :
            /\ Later(p, m) \in Positions(s) /\ s[Later(p, m)[1]] = b[p[1]]
            /\ Col(s, Later(p, m)) = Col(b, p) /\ Key(s, Later(p, m)) = Key(b, p)
      /\ \A p \in Positions(s) :
            p \in Positions(a) \/ \E q \in Positions(b) : p = Later(q, m)
      /\ \A p, q \in Positions(b) : Before(Later(p, m), Later(q, m)) <=> Before(p, q)
  BY <1>1, CrossPositions
<1>5. /\ \A i \in DOMAIN l.out : i \in DOMAIN c.out /\ c.out[i] = l.out[i]
      /\ \A j \in DOMAIN r.out :
            /\ j + n \in DOMAIN c.out
            /\ c.out[j + n].name = r.out[j].name
            /\ c.out[j + n].at = Later(r.out[j].at, m)
      /\ \A i \in DOMAIN c.out : i \in DOMAIN l.out \/ \E j \in DOMAIN r.out : i = j + n
  BY <1>1, CrossShows
<1>6. /\ \A i \in DOMAIN a : i \in DOMAIN s /\ s[i] = a[i]
      /\ \A i \in DOMAIN b : i + m \in DOMAIN s /\ s[i + m] = b[i]
      /\ \A i \in DOMAIN s : i \in DOMAIN a \/ \E j \in DOMAIN b : i = j + m
  BY <1>1, CrossSources DEF Item
<1> HIDE DEF c, m, n
<1>7. AliasesApart(c)
  <2>1. /\ \A i, j \in DOMAIN a : a[i].alias = a[j].alias /\ a[i].alias # "" => i = j
        /\ \A i, j \in DOMAIN b : b[i].alias = b[j].alias /\ b[i].alias # "" => i = j
    BY DEF ItemOk, AliasesApart
  <2>2. \A i \in DOMAIN a, j \in DOMAIN b : a[i].alias = b[j].alias => a[i].alias = ""
    BY DEF Apart, collect_aliases
  <2>3. ASSUME NEW i \in DOMAIN s, NEW j \in DOMAIN s, s[i].alias = s[j].alias, s[i].alias # ""
        PROVE  i = j
    <3>1. CASE i \in DOMAIN a /\ j \in DOMAIN a
      BY <1>6, <2>1, <2>3, <3>1
    <3>2. ASSUME i \in DOMAIN a, NEW k \in DOMAIN b, j = k + m PROVE FALSE
      <4>1. s[i] = a[i] /\ s[j] = b[k]
        BY <1>6, <3>2
      <4>2. QED
        BY <2>2, <2>3, <3>2, <4>1
    <3>3. ASSUME j \in DOMAIN a, NEW k \in DOMAIN b, i = k + m PROVE FALSE
      <4>1. s[j] = a[j] /\ s[i] = b[k]
        BY <1>6, <3>3
      <4>2. QED
        BY <2>2, <2>3, <3>3, <4>1
    <3>4. ASSUME NEW k \in DOMAIN b, i = k + m, NEW h \in DOMAIN b, j = h + m PROVE i = j
      <4>1. s[i] = b[k] /\ s[j] = b[h]
        BY <1>6, <3>4
      <4>2. QED
        BY <2>1, <2>3, <3>4, <4>1
    <3>5. QED
      BY <1>6, <3>1, <3>2, <3>3, <3>4
  <2>4. QED
    BY <2>3 DEF AliasesApart
<1>8. OutNamed(c)
  BY <1>1, CrossNamed DEF ItemOk, c
<1>9. OutCovers(c)
  <2>1. ASSUME NEW p \in Positions(a)
        PROVE  \/ \E i \in DOMAIN c.out : c.out[i].at = p
               \/ \E q \in Positions(s) : Before(q, p) /\ Col(s, q).name = Col(s, p).name
    <3>1. CASE \E i \in DOMAIN l.out : l.out[i].at = p
      BY <1>5, <3>1
    <3>2. CASE \E q \in Positions(a) : Before(q, p) /\ Col(a, q).name = Col(a, p).name
      BY <1>4, <3>2
    <3>3. QED
      BY <3>1, <3>2 DEF ItemOk, OutCovers
  <2>2. ASSUME NEW p \in Positions(b)
        PROVE  \/ \E i \in DOMAIN c.out : c.out[i].at = Later(p, m)
               \/ \E q \in Positions(s) : Before(q, Later(p, m)) /\ Col(s, q).name = Col(s, Later(p, m)).name
    <3>1. ASSUME NEW i \in DOMAIN r.out, r.out[i].at = p
          PROVE  \E j \in DOMAIN c.out : c.out[j].at = Later(p, m)
      BY <1>5, <3>1
    <3>2. ASSUME NEW q \in Positions(b), Before(q, p), Col(b, q).name = Col(b, p).name
          PROVE  \E x \in Positions(s) : Before(x, Later(p, m)) /\ Col(s, x).name = Col(s, Later(p, m)).name
      <4>1. /\ Later(q, m) \in Positions(s) /\ Before(Later(q, m), Later(p, m))
            /\ Col(s, Later(q, m)).name = Col(s, Later(p, m)).name
        BY <1>4, <3>2
      <4>2. QED
        BY <4>1
    <3>3. QED
      BY <3>1, <3>2 DEF ItemOk, OutCovers
  <2>3. QED
    BY <1>4, <2>1, <2>2 DEF OutCovers
<1>10. QED
  BY <1>2, <1>3, <1>7, <1>8, <1>9 DEF ItemOk, c

LEMMA CrossNulls ==
    ASSUME NEW l, NEW r, ItemOk(l), ItemOk(r), NEW M, NullsOk(l, M), NullsOk(r, M)
    PROVE  NullsOk(Cross(l, r), M)
<1> DEFINE c == Cross(l, r)
           s == c.sources
           a == l.sources
           b == r.sources
           m == Len(l.sources)
<1>1. l \in Item /\ r \in Item /\ Fits(l) /\ Fits(r)
  BY DEF ItemOk
<1>2. /\ \A p \in Positions(a) : s[p[1]] = a[p[1]] /\ Col(s, p) = Col(a, p)
      /\ \A p \in Positions(b) : /\ s[Later(p, m)[1]] = b[p[1]]
                                 /\ Col(s, Later(p, m)) = Col(b, p)
      /\ \A p \in Positions(s) :
            p \in Positions(a) \/ \E q \in Positions(b) : p = Later(q, m)
  BY <1>1, CrossPositions
<1>3. \A w \in c.rows : \E x \in l.rows, y \in r.rows : w = x \o y
  BY CrossRows
<1>4. ASSUME NEW x \in l.rows, NEW y \in r.rows
      PROVE  /\ \A p \in Positions(a) : At(x \o y, p) = At(x, p)
             /\ \A p \in Positions(b) : At(x \o y, Later(p, m)) = At(y, p)
  <2>1. /\ a \in Seq(Source) /\ b \in Seq(Source) /\ x \in Seq(Values) /\ y \in Seq(Values)
        /\ DOMAIN x = DOMAIN a /\ DOMAIN y = DOMAIN b
    BY <1>1 DEF Item, Fits
  <2>2. /\ \A p \in Positions(a) : p[1] \in DOMAIN x
        /\ \A p \in Positions(b) : p[1] \in DOMAIN y
    BY <2>1, PositionsTyped
  <2>3. /\ \A p : p[1] \in DOMAIN x => At(x \o y, p) = At(x, p)
        /\ \A p : p[1] \in DOMAIN y => At(x \o y, Later(p, m)) = At(y, p)
    BY <2>1, RowsJoined
  <2>4. QED
    BY <2>2, <2>3
<1> HIDE DEF c, m
<1>5. ASSUME NEW w \in c.rows, NEW p \in Positions(s), Col(s, p).notnull, s[p[1]].alias \notin M
      PROVE  At(w, p) # Null
  <2>1. PICK x \in l.rows, y \in r.rows : w = x \o y
    BY <1>3
  <2>2. CASE p \in Positions(a)
    BY <1>2, <1>4, <1>5, <2>1, <2>2 DEF NullsOk
  <2>3. ASSUME NEW q \in Positions(b), p = Later(q, m) PROVE At(w, p) # Null
    BY <1>2, <1>4, <1>5, <2>1, <2>3 DEF NullsOk
  <2>4. QED
    BY <1>2, <2>2, <2>3
<1>6. QED
  BY <1>5 DEF NullsOk, c

LEMMA CrossShown ==
    ASSUME NEW l, NEW r, l \in Item, r \in Item, OutNamed(l), OutNamed(r),
           NEW H, StarShown(l, H), StarShown(r, H)
    PROVE  StarShown(Cross(l, r), H)
<1> DEFINE c == Cross(l, r)
           s == c.sources
           a == l.sources
           b == r.sources
           m == Len(l.sources)
           n == Len(l.out)
<1>1. l \in Item /\ r \in Item
  OBVIOUS
<1>2. /\ s \in Seq(Source)
      /\ \A p \in Positions(a) :
            /\ p \in Positions(s) /\ s[p[1]] = a[p[1]]
            /\ Col(s, p) = Col(a, p) /\ Key(s, p) = Key(a, p)
      /\ \A p \in Positions(b) :
            /\ Later(p, m) \in Positions(s) /\ s[Later(p, m)[1]] = b[p[1]]
            /\ Col(s, Later(p, m)) = Col(b, p) /\ Key(s, Later(p, m)) = Key(b, p)
      /\ \A p \in Positions(s) :
            p \in Positions(a) \/ \E q \in Positions(b) : p = Later(q, m)
      /\ \A p \in Positions(a), q \in Positions(b) : Before(p, Later(q, m))
      /\ \A p, q \in Positions(b) : Before(Later(p, m), Later(q, m)) <=> Before(p, q)
  BY <1>1, CrossPositions
<1>3. /\ n \in Nat
      /\ \A i \in DOMAIN l.out : i \in Nat /\ i <= n /\ i \in DOMAIN c.out /\ c.out[i] = l.out[i]
      /\ \A j \in DOMAIN r.out :
            /\ j \in Nat /\ 1 <= j /\ j + n \in DOMAIN c.out
            /\ c.out[j + n].at = Later(r.out[j].at, m)
      /\ \A i \in DOMAIN c.out : i \in DOMAIN l.out \/ \E j \in DOMAIN r.out : i = j + n
  BY <1>1, CrossShows
<1>4. /\ \A i \in DOMAIN a : i \in DOMAIN s /\ s[i] = a[i]
      /\ \A i \in DOMAIN b : i + m \in DOMAIN s /\ s[i + m] = b[i]
      /\ \A i \in DOMAIN s : i \in DOMAIN a \/ \E j \in DOMAIN b : i = j + m
  BY <1>1, CrossSources DEF Item
<1>5. /\ Positions(a) \subseteq Places /\ Positions(b) \subseteq Places /\ Positions(s) \subseteq Places
  BY <1>1, <1>2, PositionsTyped DEF Item
<1>6. /\ \A i \in DOMAIN l.out : l.out[i].at \in Positions(a)
      /\ \A i \in DOMAIN r.out : r.out[i].at \in Positions(b)
  BY DEF OutNamed
<1>7. \A p, q \in Positions(b) : Later(p, m) = Later(q, m) => p = q
  <2>1. \A p \in Positions(b) : ~Before(Later(p, m), Later(p, m))
    BY <1>2, <1>5, PlaceOrderStrict
  <2>2. \A p, q \in Positions(b) : p = q \/ Before(p, q) \/ Before(q, p)
    BY <1>5, PlaceOrderStrict
  <2>3. QED
    BY <1>2, <2>1, <2>2
<1>8. \A p \in Positions(a), q \in Positions(b) : p # Later(q, m)
  <2>1. \A p \in Positions(a) : ~Before(p, p)
    BY <1>5, PlaceOrderStrict
  <2>2. QED
    BY <1>2, <2>1
<1> HIDE DEF c, m, n
<1>9. ASSUME NEW i \in DOMAIN c.out, NEW j \in DOMAIN c.out, i < j
      PROVE  Before(c.out[i].at, c.out[j].at)
  <2>1. CASE i \in DOMAIN l.out /\ j \in DOMAIN l.out
    BY <1>3, <1>9, <2>1 DEF StarShown
  <2>2. ASSUME i \in DOMAIN l.out, NEW k \in DOMAIN r.out, j = k + n
        PROVE  Before(c.out[i].at, c.out[j].at)
    BY <1>2, <1>3, <1>6, <2>2
  <2>3. ASSUME j \in DOMAIN l.out, NEW k \in DOMAIN r.out, i = k + n PROVE FALSE
    BY <1>3, <1>9, <2>3
  <2>4. ASSUME NEW h \in DOMAIN r.out, i = h + n, NEW k \in DOMAIN r.out, j = k + n
        PROVE  Before(c.out[i].at, c.out[j].at)
    <3>1. h < k
      BY <1>3, <1>9, <2>4
    <3>2. Before(r.out[h].at, r.out[k].at)
      BY <3>1 DEF StarShown
    <3>3. QED
      BY <1>2, <1>3, <1>6, <2>4, <3>2
  <2>5. QED
    BY <1>3, <2>1, <2>2, <2>3, <2>4
<1>10. ASSUME NEW p \in Positions(a)
       PROVE  Key(s, p) \notin H <=> \E i \in DOMAIN c.out : c.out[i].at = p
  <2>1. Key(a, p) \notin H <=> \E i \in DOMAIN l.out : l.out[i].at = p
    BY DEF StarShown
  <2>2. (\E i \in DOMAIN l.out : l.out[i].at = p) => \E i \in DOMAIN c.out : c.out[i].at = p
    BY <1>3
  <2>3. ASSUME NEW i \in DOMAIN c.out, c.out[i].at = p PROVE \E k \in DOMAIN l.out : l.out[k].at = p
    BY <1>3, <1>6, <1>8, <2>3
  <2>4. QED
    BY <1>2, <2>1, <2>2, <2>3
<1>11. ASSUME NEW p \in Positions(b)
       PROVE  Key(s, Later(p, m)) \notin H <=> \E i \in DOMAIN c.out : c.out[i].at = Later(p, m)
  <2>1. Key(b, p) \notin H <=> \E i \in DOMAIN r.out : r.out[i].at = p
    BY DEF StarShown
  <2>2. ASSUME NEW i \in DOMAIN r.out, r.out[i].at = p PROVE \E k \in DOMAIN c.out : c.out[k].at = Later(p, m)
    BY <1>3, <2>2
  <2>3. ASSUME NEW i \in DOMAIN c.out, c.out[i].at = Later(p, m) PROVE \E k \in DOMAIN r.out : r.out[k].at = p
    <3>1. CASE i \in DOMAIN l.out
      BY <1>3, <1>6, <1>8, <2>3, <3>1
    <3>2. ASSUME NEW k \in DOMAIN r.out, i = k + n PROVE r.out[k].at = p
      BY <1>3, <1>6, <1>7, <2>3, <3>2
    <3>3. QED
      BY <1>3, <3>1, <3>2
  <2>4. QED
    BY <1>2, <2>1, <2>2, <2>3
<1>12. \A p \in Positions(s) : Key(s, p) \notin H <=> \E i \in DOMAIN c.out : c.out[i].at = p
  BY <1>2, <1>10, <1>11
<1>13. ASSUME NEW i \in DOMAIN s
       PROVE  NamesApart(s[i])
  <2>1. CASE i \in DOMAIN a
    BY <1>4, <2>1 DEF StarShown
  <2>2. ASSUME NEW j \in DOMAIN b, i = j + m
        PROVE  NamesApart(s[i])
    BY <1>4, <2>2 DEF StarShown
  <2>3. QED
    BY <1>4, <2>1, <2>2
<1>14. QED
  BY <1>9, <1>12, <1>13 DEF StarShown, c

LEMMA CrossStars ==
    ASSUME NEW l, NEW r, ItemOk(l), ItemOk(r), NEW H, StarOk(l, H), StarOk(r, H)
    PROVE  StarOk(Cross(l, r), H)
<1> DEFINE c == Cross(l, r)
           s == c.sources
           a == l.sources
           b == r.sources
           m == Len(l.sources)
<1>1. l \in Item /\ r \in Item /\ OutNamed(l) /\ OutNamed(r)
  BY DEF ItemOk
<1>2. /\ \A p \in Positions(a) :
            /\ p \in Positions(s) /\ s[p[1]] = a[p[1]]
            /\ Col(s, p) = Col(a, p) /\ Key(s, p) = Key(a, p)
      /\ \A p \in Positions(b) :
            /\ Later(p, m) \in Positions(s) /\ s[Later(p, m)[1]] = b[p[1]]
            /\ Col(s, Later(p, m)) = Col(b, p) /\ Key(s, Later(p, m)) = Key(b, p)
      /\ \A p \in Positions(s) :
            p \in Positions(a) \/ \E q \in Positions(b) : p = Later(q, m)
  BY <1>1, CrossPositions
<1>3. StarShown(c, H)
  BY <1>1, CrossShown DEF StarOk
<1> HIDE DEF c, m
<1>4. ASSUME NEW p \in Positions(s), Key(s, p) \in H
       PROVE  \E q \in Positions(s) : s[q[1]].alias = "" /\ Col(s, q).name = Col(s, p).name
  <2>1. CASE p \in Positions(a)
    <3>1. \E q \in Positions(a) : a[q[1]].alias = "" /\ Col(a, q).name = Col(a, p).name
      BY <1>2, <1>4, <2>1 DEF StarOk
    <3>2. QED
      BY <1>2, <2>1, <3>1
  <2>2. ASSUME NEW k \in Positions(b), p = Later(k, m)
        PROVE  \E q \in Positions(s) : s[q[1]].alias = "" /\ Col(s, q).name = Col(s, p).name
    <3>1. PICK q \in Positions(b) : b[q[1]].alias = "" /\ Col(b, q).name = Col(b, k).name
      BY <1>2, <1>4, <2>2 DEF StarOk
    <3>2. /\ Later(q, m) \in Positions(s) /\ s[Later(q, m)[1]].alias = ""
          /\ Col(s, Later(q, m)).name = Col(s, p).name
      BY <1>2, <2>2, <3>1
    <3>3. QED
      BY <3>2
  <2>3. QED
    BY <1>2, <2>1, <2>2
<1>5. QED
  BY <1>3, <1>4 DEF StarOk, c

-----------------------------------------------------------------------------
(* The whole FROM clause.                                                   *)

\* The function From takes its result from.
Scopes ==
    LET upto[n \in 0..Len(items)] ==
            IF n = 0 THEN [sources |-> <<>>, rows |-> {<<>>}, out |-> <<>>]
            ELSE Cross(upto[n - 1], items[n])
    IN  upto

IsScopes(f) ==
    f = [n \in 0..Len(items) |->
            IF n = 0 THEN [sources |-> <<>>, rows |-> {<<>>}, out |-> <<>>]
            ELSE Cross(f[n - 1], items[n])]

NoItem == [sources |-> <<>>, rows |-> {<<>>}, out |-> <<>>]

LEMMA NoItemOk ==
    /\ ItemOk(NoItem) /\ collect_aliases(NoItem) = {}
    /\ \A M : NullsOk(NoItem, M)
    /\ \A H : StarOk(NoItem, H)
<1>1. NoItem.sources = <<>> /\ NoItem.rows = {<<>>} /\ NoItem.out = <<>>
  BY DEF NoItem
<1>2. NoItem \in Item
  BY EmptySeq DEF NoItem, Item
<1>3. Positions(NoItem.sources) = {} /\ DOMAIN NoItem.sources = {} /\ DOMAIN NoItem.out = {}
  BY <1>1 DEF Positions
<1>4. Fits(NoItem)
  BY <1>1 DEF Fits
<1>5. KeysNamed(NoItem) /\ KeysSettle(NoItem) /\ AliasesApart(NoItem)
  BY <1>3 DEF KeysNamed, KeysSettle, AliasesApart
<1>6. OutNamed(NoItem) /\ OutCovers(NoItem)
  BY <1>3 DEF OutNamed, OutCovers
<1>7. collect_aliases(NoItem) = {}
  BY <1>3 DEF collect_aliases
<1>8. \A M : NullsOk(NoItem, M)
  BY <1>3 DEF NullsOk
<1>9. \A H : StarOk(NoItem, H)
  BY <1>3 DEF StarOk, StarShown
<1>10. QED
  BY <1>2, <1>4, <1>5, <1>6, <1>7, <1>8, <1>9 DEF ItemOk

\* The FROM items are as described, and share no alias.
Separate(its) ==
    /\ its \in Seq(Item)
    /\ \A i \in DOMAIN its : ItemOk(its[i])
    /\ \A i, j \in DOMAIN its : i # j => Apart(its[i], its[j])

ItemsOk == Separate(items)

LEMMA ScopeSteps ==
    ASSUME ItemsOk
    PROVE  /\ Len(items) \in Nat /\ DOMAIN items = 1..Len(items)
           /\ From = Scopes[Len(items)]
           /\ Scopes[0] = NoItem
           /\ \A n \in 1..Len(items) : Scopes[n] = Cross(Scopes[n-1], items[n])
<1> DEFINE N == Len(items)
           D == {it \in Item : Fits(it)}
<1>1. N \in Nat /\ DOMAIN items = 1..N /\ \A n \in 1..N : items[n] \in D
  BY DEF ItemsOk, Separate, ItemOk
<1>2. \A x \in D, y \in D : Cross(x, y) \in D
  BY CrossTyped
<1>3. NoItem \in D
  BY NoItemOk DEF ItemOk
<1> HIDE DEF N, D
<1>4. \E f : IsScopes(f)
  <2> DEFINE G == [n \in 1..N |-> [x \in D |-> Cross(x, items[n])]]
  <2>1. Steps(G, N, D)
    BY <1>1, <1>2 DEF Steps
  <2>2. \A n \in 1..N, x \in D : G[n][x] = Cross(x, items[n])
    OBVIOUS
  <2> HIDE DEF G
  <2>3. \E f : Takes(f, G, N, D, NoItem)
    BY <1>3, <2>1, StepByStep
  <2>4. PICK f \in [0..N -> D] : f[0] = NoItem /\ \A n \in 1..N : f[n] = G[n][f[n-1]]
    BY <2>3 DEF Takes
  <2> DEFINE h == [n \in 0..N |-> IF n = 0 THEN NoItem ELSE Cross(f[n-1], items[n])]
  <2>5. ASSUME NEW n \in 0..N PROVE f[n] = h[n]
    <3>1. CASE n = 0
      BY <2>4, <3>1
    <3>2. CASE n # 0
      <4>1. n \in 1..N /\ n - 1 \in 0..N
        BY <1>1, <3>2
      <4>2. f[n-1] \in D
        BY <2>4, <4>1
      <4>3. QED
        BY <2>2, <2>4, <3>2, <4>1, <4>2
    <3>3. QED
      BY <3>1, <3>2
  <2>6. f = h
    <3>1. f = [n \in 0..N |-> f[n]] /\ DOMAIN h = 0..N /\ h = [n \in 0..N |-> h[n]]
      BY <2>4
    <3> HIDE DEF h
    <3>2. QED
      BY <2>5, <3>1
  <2>7. IsScopes(f)
    BY <2>6 DEF IsScopes, N, NoItem
  <2>8. QED
    BY <2>7
<1>5. IsScopes(Scopes)
  BY <1>4, Zenon DEF Scopes, IsScopes
<1> DEFINE f == Scopes
<1>6. f = [n \in 0..N |-> IF n = 0 THEN NoItem ELSE Cross(f[n - 1], items[n])]
  BY <1>5 DEF IsScopes, N, NoItem
<1>7. From = f[N]
  BY Zenon DEF From, Scopes, N
<1> HIDE DEF f
<1>8. 0 \in 0..N /\ \A n \in 1..N : n \in 0..N /\ n # 0
  BY <1>1
<1>9. f[0] = NoItem /\ \A n \in 1..N : f[n] = Cross(f[n-1], items[n])
  BY <1>6, <1>8
<1>10. QED
  BY <1>1, <1>7, <1>9 DEF N, f

\* The aliases of a FROM clause.
TakenBy(its) == UNION {collect_aliases(its[i]) : i \in DOMAIN its}

LEMMA FromOk ==
    ASSUME ItemsOk
    PROVE  /\ ItemOk(From) /\ collect_aliases(From) = TakenBy(items)
           /\ \A M : (\A i \in DOMAIN items : NullsOk(items[i], M)) => NullsOk(From, M)
           /\ \A H : (\A i \in DOMAIN items : StarOk(items[i], H)) => StarOk(From, H)
<1> DEFINE N == Len(items)
           f == Scopes
           Upto(n) == UNION {collect_aliases(items[i]) : i \in 1..n}
           T == {n \in 0..N : ItemOk(f[n]) /\ collect_aliases(f[n]) = Upto(n)}
<1>1. /\ N \in Nat /\ DOMAIN items = 1..N
      /\ From = f[N] /\ f[0] = NoItem
      /\ \A n \in 1..N : f[n] = Cross(f[n-1], items[n])
  BY ScopeSteps
<1>2. /\ \A i \in 1..N : ItemOk(items[i])
      /\ \A i, j \in 1..N : i # j => Apart(items[i], items[j])
  BY <1>1 DEF ItemsOk, Separate
<1> HIDE DEF N, f
<1>3. 0 \in T
  <2>1. 1..0 = {}
    OBVIOUS
  <2>2. Upto(0) = {}
    BY <2>1
  <2>3. QED
    BY <1>1, <2>2, NoItemOk
<1>4. ASSUME NEW n \in 1..N, n - 1 \in T PROVE n \in T
  <2>1. /\ n - 1 \in Nat /\ n \in 0..N /\ 1..n = (1..(n-1)) \cup {n}
        /\ \A i \in 1..(n-1) : i \in 1..N /\ i # n
    BY <1>1
  <2>2. Upto(n) = Upto(n-1) \cup collect_aliases(items[n])
    BY <2>1
  <2>3. ItemOk(f[n-1]) /\ collect_aliases(f[n-1]) = Upto(n-1)
    BY <1>4
  <2>4. Apart(f[n-1], items[n])
    <3>1. ASSUME NEW x \in collect_aliases(f[n-1]), x \in collect_aliases(items[n]) PROVE x = ""
      <4>1. PICK i \in 1..(n-1) : x \in collect_aliases(items[i])
        BY <2>3
      <4>2. Apart(items[i], items[n])
        BY <1>2, <2>1
      <4>3. QED
        BY <3>1, <4>1, <4>2 DEF Apart
    <3>2. QED
      BY <3>1 DEF Apart
  <2>5. ItemOk(items[n]) /\ f[n] = Cross(f[n-1], items[n])
    BY <1>1, <1>2
  <2> HIDE DEF Upto
  <2>6. ItemOk(f[n])
    BY <2>3, <2>4, <2>5, CrossOk
  <2>7. collect_aliases(f[n]) = collect_aliases(f[n-1]) \cup collect_aliases(items[n])
    BY <2>3, <2>5, CrossTyped DEF ItemOk
  <2>8. QED
    BY <2>1, <2>2, <2>3, <2>6, <2>7
<1> HIDE DEF T
<1>5. \A n \in 0..N : n \in T
  BY <1>1, <1>3, <1>4, CountingUp
<1>6. \A n \in 0..N : ItemOk(f[n]) /\ collect_aliases(f[n]) = Upto(n)
  BY <1>5 DEF T
<1>7. N \in 0..N /\ \A n \in 1..N : n \in 0..N /\ n - 1 \in 0..N
  BY <1>1
<1>8. ItemOk(From) /\ collect_aliases(From) = TakenBy(items)
  BY <1>1, <1>6, <1>7 DEF TakenBy
<1> HIDE DEF Upto
<1>9. ASSUME NEW M, \A i \in DOMAIN items : NullsOk(items[i], M) PROVE NullsOk(From, M)
  <2> DEFINE U == {n \in 0..N : NullsOk(f[n], M)}
  <2>1. 0 \in U
    BY <1>1, NoItemOk
  <2>2. ASSUME NEW n \in 1..N, n - 1 \in U PROVE n \in U
    <3>1. ItemOk(f[n-1]) /\ ItemOk(items[n]) /\ NullsOk(f[n-1], M) /\ NullsOk(items[n], M)
          /\ f[n] = Cross(f[n-1], items[n])
      BY <1>1, <1>2, <1>6, <1>7, <1>9, <2>2
    <3>2. NullsOk(f[n], M)
      BY <3>1, CrossNulls
    <3>3. QED
      BY <1>7, <3>2
  <2> HIDE DEF U
  <2>3. \A n \in 0..N : n \in U
    BY <1>1, <2>1, <2>2, CountingUp
  <2>4. QED
    BY <1>1, <1>7, <2>3 DEF U
<1>10. ASSUME NEW H, \A i \in DOMAIN items : StarOk(items[i], H) PROVE StarOk(From, H)
  <2> DEFINE U == {n \in 0..N : StarOk(f[n], H)}
  <2>1. 0 \in U
    BY <1>1, NoItemOk
  <2>2. ASSUME NEW n \in 1..N, n - 1 \in U PROVE n \in U
    <3>1. ItemOk(f[n-1]) /\ ItemOk(items[n]) /\ StarOk(f[n-1], H) /\ StarOk(items[n], H)
          /\ f[n] = Cross(f[n-1], items[n])
      BY <1>1, <1>2, <1>6, <1>7, <1>10, <2>2
    <3>2. StarOk(f[n], H)
      BY <3>1, CrossStars
    <3>3. QED
      BY <1>7, <3>2
  <2> HIDE DEF U
  <2>3. \A n \in 0..N : n \in U
    BY <1>1, <2>1, <2>2, CountingUp
  <2>4. QED
    BY <1>1, <1>7, <2>3 DEF U
<1>11. QED
  BY <1>8, <1>9, <1>10

-----------------------------------------------------------------------------
(* What an action makes of FROM items.                                      *)

\* A relation, subquery or merged source, with rows that fit it.
LEMMA LeafOk ==
    ASSUME NEW src \in Source, NEW rows,
           rows \subseteq Values, \A r \in rows : DOMAIN r = DOMAIN src.cols,
           src.key # {} =>
               /\ KeyNamed(src)
               /\ \A r \in rows : \A c \in KeyPlaces(src) : r[c] # Null
               /\ \A r, x \in rows : (\A c \in KeyPlaces(src) : x[c] = r[c]) => x = r
    PROVE  LET it == Leaf(src, rows)
           IN  /\ ItemOk(it) /\ collect_aliases(it) = {src.alias}
               /\ \A M : (\A r \in rows : \A c \in DOMAIN src.cols :
                             src.cols[c].notnull /\ src.alias \notin M => r[c] # Null)
                         => NullsOk(it, M)
               /\ \A H : NamesApart(src) /\ (\A k \in H : k[1] # src.alias) => StarOk(it, H)
<1> DEFINE it == Leaf(src, rows)
           n == Len(src.cols)
<1>1. /\ it.sources = <<src>> /\ it.rows = {<<r>> : r \in rows}
      /\ it = [sources |-> it.sources, rows |-> it.rows, out |-> it.out]
  BY DEF Leaf
<1>2. it.out = [i \in DOMAIN src.cols |-> [name |-> src.cols[i].name, at |-> <<1, i>>]]
  BY DEF Leaf
<1> HIDE DEF it
<1>3. /\ src.cols \in Seq(Column) /\ n \in Nat /\ DOMAIN src.cols = 1..n
      /\ \A c \in 1..n : src.cols[c] \in Column /\ src.cols[c].name \in Text
  <2>1. src.cols \in Seq(Column)
    BY DEF Source
  <2>2. \A x \in Column : x.name \in Text
    BY DEF Column
  <2>3. QED
    BY <2>1, <2>2
<1>4. DOMAIN it.sources = {1} /\ it.sources[1] = src /\ it.sources \in Seq(Source)
  BY <1>1
<1>5. /\ \A p \in Positions(it.sources) : p[1] = 1 /\ p[2] \in 1..n /\ p = <<1, p[2]>>
      /\ \A c \in 1..n : <<1, c>> \in Positions(it.sources) /\ Col(it.sources, <<1, c>>) = src.cols[c]
  BY <1>3, <1>4 DEF Positions, Col
<1>6. /\ DOMAIN it.out = 1..n
      /\ \A i \in 1..n : it.out[i].name = src.cols[i].name /\ it.out[i].at = <<1, i>>
  BY <1>2, <1>3
<1>7. it.out \in Seq(Shows)
  <2>1. \A i \in 1..n : [name |-> src.cols[i].name, at |-> <<1, i>>] \in Shows
    BY <1>3 DEF Shows, Places
  <2>2. QED
    BY <1>2, <1>3, <2>1, IsASeq
<1>8. it.rows \subseteq Seq(Values)
  <2>1. \A r \in Values : <<r>> \in Seq(Values)
    OBVIOUS
  <2>2. QED
    BY <1>1, <2>1
<1>9. it \in Item
  BY <1>1, <1>4, <1>7, <1>8 DEF Item
<1>10. \A w \in it.rows : \E r \in rows : w = <<r>> /\ DOMAIN w = {1} /\ w[1] = r
  BY <1>1
<1>11. Fits(it)
  BY <1>4, <1>10 DEF Fits
<1>12. KeysNamed(it)
  BY <1>4 DEF KeysNamed
<1>13. KeysSettle(it)
  <2> SUFFICES ASSUME src.key # {}, NEW w \in it.rows
               PROVE  /\ \A c \in KeyPlaces(src) : w[1][c] # Null
                      /\ \A z \in it.rows : (\A c \in KeyPlaces(src) : z[1][c] = w[1][c]) => z[1] = w[1]
    BY <1>4 DEF KeysSettle
  <2>1. PICK r \in rows : w[1] = r
    BY <1>10
  <2>2. \A c \in KeyPlaces(src) : r[c] # Null
    OBVIOUS
  <2>3. ASSUME NEW z \in it.rows, \A c \in KeyPlaces(src) : z[1][c] = w[1][c] PROVE z[1] = w[1]
    <3>1. PICK x \in rows : z[1] = x
      BY <1>10
    <3>2. x = r
      BY <2>1, <2>3, <3>1
    <3>3. QED
      BY <2>1, <3>1, <3>2
  <2>4. QED
    BY <2>1, <2>2, <2>3
<1>14. AliasesApart(it)
  BY <1>4 DEF AliasesApart
<1>15. OutNamed(it)
  <2>1. \A i \in 1..n : /\ it.out[i].at \in Positions(it.sources)
                        /\ it.out[i].name = Col(it.sources, it.out[i].at).name
    <3>1. ASSUME NEW i \in 1..n
          PROVE  it.out[i].at \in Positions(it.sources) /\ it.out[i].name = Col(it.sources, it.out[i].at).name
      <4>1. it.out[i].at = <<1, i>> /\ it.out[i].name = src.cols[i].name
        BY <1>6
      <4>2. <<1, i>> \in Positions(it.sources) /\ Col(it.sources, <<1, i>>) = src.cols[i]
        BY <1>5
      <4>3. QED
        BY <4>1, <4>2
    <3>2. QED
      BY <3>1
  <2>2. QED
    BY <1>6, <2>1 DEF OutNamed
<1>16. OutCovers(it)
  BY <1>5, <1>6 DEF OutCovers
<1>17. collect_aliases(it) = {src.alias}
  BY <1>4 DEF collect_aliases
<1>18. ASSUME NEW M,
              \A r \in rows : \A c \in DOMAIN src.cols :
                  src.cols[c].notnull /\ src.alias \notin M => r[c] # Null
       PROVE  NullsOk(it, M)
  <2>1. ASSUME NEW w \in it.rows, NEW p \in Positions(it.sources),
               Col(it.sources, p).notnull, it.sources[p[1]].alias \notin M
        PROVE  At(w, p) # Null
    <3>1. PICK r \in rows : w[1] = r
      BY <1>10
    <3>2. p[2] \in 1..n /\ src.cols[p[2]].notnull /\ src.alias \notin M /\ p[1] = 1
      BY <1>4, <1>5, <2>1 DEF Col
    <3>3. r[p[2]] # Null
      BY <1>3, <1>18, <3>2
    <3>4. QED
      BY <3>1, <3>2, <3>3 DEF At
  <2>2. QED
    BY <2>1 DEF NullsOk
<1>19. ASSUME NEW H, NamesApart(src), \A k \in H : k[1] # src.alias PROVE StarOk(it, H)
  <2>1. \A i, j \in DOMAIN it.out : i < j => Before(it.out[i].at, it.out[j].at)
    BY <1>3, <1>6 DEF Before
  <2>2. \A p \in Positions(it.sources) : \E i \in DOMAIN it.out : it.out[i].at = p
    BY <1>5, <1>6
  <2>3. \A p \in Positions(it.sources) : Key(it.sources, p) \notin H
    BY <1>4, <1>5, <1>19 DEF Key
  <2>4. QED
    BY <1>4, <1>19, <2>1, <2>2, <2>3 DEF StarOk, StarShown
<1>20. QED
  BY <1>9, <1>11, <1>12, <1>13, <1>14, <1>15, <1>16, <1>17, <1>18, <1>19 DEF ItemOk, it

\* The columns of l and r with rows of L and R, which have the same columns.
LEMMA CrossWith ==
    ASSUME NEW l, NEW r, NEW L, NEW R, ItemOk(L), ItemOk(R), Apart(L, R),
           l.sources = L.sources, l.out = L.out, r.sources = R.sources, r.out = R.out,
           NEW rows, \A w \in rows : \E x \in L.rows, y \in R.rows : w = x \o y
    PROVE  LET new == [Cross(l, r) EXCEPT !.rows = rows]
           IN  /\ ItemOk(new) /\ collect_aliases(new) = collect_aliases(L) \cup collect_aliases(R)
               /\ \A M : NullsOk(L, M) /\ NullsOk(R, M) => NullsOk(new, M)
               /\ \A H : StarOk(L, H) /\ StarOk(R, H) => StarOk(new, H)
<1> DEFINE c == Cross(L, R)
           new == [Cross(l, r) EXCEPT !.rows = rows]
           less == [sources |-> c.sources, rows |-> rows, out |-> c.out]
<1>1. new = less
  <2>1. new = [sources |-> l.sources \o r.sources, rows |-> rows,
               out |-> l.out \o Shift(r.out, Len(l.sources))]
    <3>1. ASSUME NEW x, NEW a, NEW b, NEW o, x = [sources |-> a, rows |-> b, out |-> o]
          PROVE  [x EXCEPT !.rows = rows] = [sources |-> a, rows |-> rows, out |-> o]
      BY <3>1
    <3>2. Cross(l, r) = [sources |-> l.sources \o r.sources, rows |-> Cross(l, r).rows,
                         out |-> l.out \o Shift(r.out, Len(l.sources))]
      BY DEF Cross
    <3> DEFINE x == Cross(l, r)
               a == l.sources \o r.sources
               b == Cross(l, r).rows
               o == l.out \o Shift(r.out, Len(l.sources))
    <3>3. x = [sources |-> a, rows |-> b, out |-> o]
      BY <3>2
    <3> HIDE DEF x, a, b, o
    <3>4. [x EXCEPT !.rows = rows] = [sources |-> a, rows |-> rows, out |-> o]
      BY <3>1, <3>3
    <3>5. QED
      BY <3>4 DEF x, a, b, o
  <2>2. c.sources = L.sources \o R.sources /\ c.out = L.out \o Shift(R.out, Len(L.sources))
    BY DEF Cross
  <2> HIDE DEF c, new
  <2>3. QED
    BY <2>1, <2>2
<1>2. rows \subseteq c.rows
  BY CrossRows
<1>3. ItemOk(c)
  BY CrossOk
<1>4. /\ \A M : NullsOk(L, M) /\ NullsOk(R, M) => NullsOk(c, M)
      /\ \A H : StarOk(L, H) /\ StarOk(R, H) => StarOk(c, H)
  BY CrossNulls, CrossStars
<1>5. collect_aliases(c) = collect_aliases(L) \cup collect_aliases(R)
  BY CrossTyped DEF ItemOk
<1>6. collect_aliases(less) = collect_aliases(c)
  BY DEF collect_aliases
<1> HIDE DEF c
<1>7. /\ ItemOk(less)
      /\ \A M : NullsOk(c, M) => NullsOk(less, M)
      /\ \A H : StarOk(c, H) => StarOk(less, H)
  BY <1>2, <1>3, FewerRows
<1> HIDE DEF less, new
<1>8. QED
  BY <1>1, <1>4, <1>5, <1>6, <1>7 DEF new

\* The operands of a join, with the row that may stand for them.
PadsLeft(kind)  == kind \in {"right", "full"}
PadsRight(kind) == kind \in {"left", "full"}

Side(it, padded) == IF padded THEN WithPad(it) ELSE it

LEMMA SideOk ==
    ASSUME NEW it, ItemOk(it), NEW padded \in BOOLEAN
    PROVE  LET side == Side(it, padded)
           IN  /\ ItemOk(side) /\ collect_aliases(side) = collect_aliases(it)
               /\ side.sources = it.sources /\ side.out = it.out
               /\ it.rows \subseteq side.rows /\ (padded => Pad(it) \in side.rows)
               /\ \A M : NullsOk(it, M) /\ (padded => collect_aliases(it) \subseteq M) => NullsOk(side, M)
               /\ \A H : StarOk(it, H) => StarOk(side, H)
<1>1. CASE padded
  <2>1. Side(it, padded) = WithPad(it)
    BY <1>1 DEF Side
  <2>2. /\ WithPad(it).sources = it.sources /\ WithPad(it).out = it.out
        /\ WithPad(it).rows = it.rows \cup {Pad(it)}
    BY DEF WithPad
  <2>3. collect_aliases(WithPad(it)) = collect_aliases(it)
    BY <2>2 DEF collect_aliases
  <2>4. \A H : StarOk(it, H) => StarOk(WithPad(it), H)
    BY <2>2 DEF StarOk, StarShown
  <2>5. QED
    BY <1>1, <2>1, <2>2, <2>3, <2>4, PaddedOk
<1>2. CASE ~padded
  BY <1>2 DEF Side
<1>3. QED
  BY <1>1, <1>2

\* A pair of rows is a match, or a row and what is padded.
IsPair(kind, l, r, matched, z) ==
    \/ z \in matched
    \/ PadsRight(kind) /\ z[1] \in l.rows /\ z[2] = Pad(r)
    \/ PadsLeft(kind) /\ z[1] = Pad(l) /\ z[2] \in r.rows

LEMMA PairRows ==
    ASSUME NEW kind, NEW l, NEW r, NEW matched, matched \subseteq l.rows \X r.rows,
           NEW pairs,
           pairs = matched
                   \cup (IF kind \in {"left", "full"}
                         THEN {<<x, Pad(r)>> : x \in l.rows \ {z[1] : z \in matched}} ELSE {})
                   \cup (IF kind \in {"right", "full"}
                         THEN {<<Pad(l), y>> : y \in r.rows \ {z[2] : z \in matched}} ELSE {})
    PROVE  \A z \in pairs : IsPair(kind, l, r, matched, z)
<1> DEFINE alone == l.rows \ {z[1] : z \in matched}
           single == r.rows \ {z[2] : z \in matched}
<1>1. alone \subseteq l.rows /\ single \subseteq r.rows
  OBVIOUS
<1>2. pairs = matched
              \cup (IF kind \in {"left", "full"} THEN {<<x, Pad(r)>> : x \in alone} ELSE {})
              \cup (IF kind \in {"right", "full"} THEN {<<Pad(l), y>> : y \in single} ELSE {})
  OBVIOUS
<1> HIDE DEF alone, single
<1>3. ASSUME NEW z \in pairs PROVE IsPair(kind, l, r, matched, z)
  <2>1. CASE z \in matched
    BY <2>1 DEF IsPair
  <2>2. ASSUME kind \in {"left", "full"}, NEW x \in alone, z = <<x, Pad(r)>>
        PROVE  IsPair(kind, l, r, matched, z)
    BY <1>1, <2>2 DEF IsPair, PadsRight
  <2>3. ASSUME kind \in {"right", "full"}, NEW y \in single, z = <<Pad(l), y>>
        PROVE  IsPair(kind, l, r, matched, z)
    BY <1>1, <2>3 DEF IsPair, PadsLeft
  <2>4. QED
    BY <1>2, <2>1, <2>2, <2>3
<1>4. QED
  BY <1>3

LEMMA PairSides ==
    ASSUME NEW kind, NEW l, NEW r, ItemOk(l), ItemOk(r),
           NEW matched, matched \subseteq l.rows \X r.rows,
           NEW z, IsPair(kind, l, r, matched, z)
    PROVE  /\ z[1] \in Side(l, PadsLeft(kind)).rows
           /\ z[2] \in Side(r, PadsRight(kind)).rows
<1>1. PadsLeft(kind) \in BOOLEAN /\ PadsRight(kind) \in BOOLEAN
  BY DEF PadsLeft, PadsRight
<1>2. /\ l.rows \subseteq Side(l, PadsLeft(kind)).rows
      /\ PadsLeft(kind) => Pad(l) \in Side(l, PadsLeft(kind)).rows
      /\ r.rows \subseteq Side(r, PadsRight(kind)).rows
      /\ PadsRight(kind) => Pad(r) \in Side(r, PadsRight(kind)).rows
  BY <1>1, SideOk
<1>3. z \in matched => z[1] \in l.rows /\ z[2] \in r.rows
  OBVIOUS
<1>4. QED
  BY <1>2, <1>3 DEF IsPair

\* mark_all_nullable marks what a join may pad.
LEMMA MarksPadded ==
    ASSUME NEW kind, NEW l, NEW r
    PROVE  /\ marked \subseteq mark_all_nullable(kind, l, r)
           /\ PadsLeft(kind) => collect_aliases(l) \subseteq mark_all_nullable(kind, l, r)
           /\ PadsRight(kind) => collect_aliases(r) \subseteq mark_all_nullable(kind, l, r)
BY DEF mark_all_nullable, PadsLeft, PadsRight

LEMMA MoreMarked ==
    ASSUME NEW it, NEW M, NEW N, M \subseteq N, NullsOk(it, M)
    PROVE  NullsOk(it, N)
BY DEF NullsOk

\* A join on a condition.
LEMMA JoinOnOk ==
    ASSUME NEW kind, NEW l, NEW r, ItemOk(l), ItemOk(r), Apart(l, r),
           NEW matched, matched \subseteq l.rows \X r.rows,
           NEW pairs, \A z \in pairs : IsPair(kind, l, r, matched, z)
    PROVE  LET new == [Cross(l, r) EXCEPT !.rows = {z[1] \o z[2] : z \in pairs}]
           IN  /\ ItemOk(new) /\ collect_aliases(new) = collect_aliases(l) \cup collect_aliases(r)
               /\ NullsOk(l, marked) /\ NullsOk(r, marked) => NullsOk(new, mark_all_nullable(kind, l, r))
               /\ \A H : StarOk(l, H) /\ StarOk(r, H) => StarOk(new, H)
<1> DEFINE L == Side(l, PadsLeft(kind))
           R == Side(r, PadsRight(kind))
           M == mark_all_nullable(kind, l, r)
           rows == {z[1] \o z[2] : z \in pairs}
           new == [Cross(l, r) EXCEPT !.rows = rows]
<1>1. PadsLeft(kind) \in BOOLEAN /\ PadsRight(kind) \in BOOLEAN
  BY DEF PadsLeft, PadsRight
<1>2. /\ ItemOk(L) /\ collect_aliases(L) = collect_aliases(l)
      /\ L.sources = l.sources /\ L.out = l.out
      /\ \A N : NullsOk(l, N) /\ (PadsLeft(kind) => collect_aliases(l) \subseteq N) => NullsOk(L, N)
      /\ \A H : StarOk(l, H) => StarOk(L, H)
  BY <1>1, SideOk
<1>3. /\ ItemOk(R) /\ collect_aliases(R) = collect_aliases(r)
      /\ R.sources = r.sources /\ R.out = r.out
      /\ \A N : NullsOk(r, N) /\ (PadsRight(kind) => collect_aliases(r) \subseteq N) => NullsOk(R, N)
      /\ \A H : StarOk(r, H) => StarOk(R, H)
  BY <1>1, SideOk
<1>4. \A z \in pairs : z[1] \in L.rows /\ z[2] \in R.rows
  BY PairSides
<1> HIDE DEF L, R
<1>5. \A w \in rows : \E x \in L.rows, y \in R.rows : w = x \o y
  BY <1>4
<1>6. Apart(L, R)
  BY <1>2, <1>3 DEF Apart
<1> HIDE DEF rows
<1>7. /\ ItemOk(new) /\ collect_aliases(new) = collect_aliases(L) \cup collect_aliases(R)
      /\ \A N : NullsOk(L, N) /\ NullsOk(R, N) => NullsOk(new, N)
      /\ \A H : StarOk(L, H) /\ StarOk(R, H) => StarOk(new, H)
  BY <1>2, <1>3, <1>5, <1>6, CrossWith
<1> HIDE DEF new
<1>8. ASSUME NullsOk(l, marked), NullsOk(r, marked) PROVE NullsOk(new, M)
  <2>1. NullsOk(l, M) /\ NullsOk(r, M)
    BY <1>8, MarksPadded, MoreMarked
  <2>2. NullsOk(L, M) /\ NullsOk(R, M)
    BY <1>2, <1>3, <2>1, MarksPadded
  <2>3. QED
    BY <1>7, <2>2
<1>9. QED
  BY <1>2, <1>3, <1>7, <1>8 DEF new, rows

LEMMA AtTyped ==
    ASSUME NEW it, it \in Item, Fits(it), NEW r \in it.rows, NEW p \in Positions(it.sources)
    PROVE  At(r, p) \in Nat /\ p[1] \in DOMAIN r /\ p[2] \in DOMAIN r[p[1]]
<1>1. it.sources \in Seq(Source) /\ r \in Seq(Values)
  BY DEF Item
<1>2. p[1] \in DOMAIN it.sources /\ p[2] \in DOMAIN it.sources[p[1]].cols
  BY <1>1, PositionsTyped
<1>3. p[1] \in DOMAIN r /\ p[2] \in DOMAIN r[p[1]]
  BY <1>2 DEF Fits
<1>4. r[p[1]] \in Values
  BY <1>1, <1>3
<1>5. \A v \in Values : \A c \in DOMAIN v : v[c] \in Nat
  BY DEF Values
<1>6. QED
  BY <1>3, <1>4, <1>5 DEF At

LEMMA Single ==
    ASSUME NEW S, NEW v \in S
    PROVE  <<v>> \in Seq(S) /\ DOMAIN <<v>> = {1} /\ <<v>>[1] = v
<1>1. 1..1 = {1}
  OBVIOUS
<1>2. QED
  BY <1>1

\* The lateral subquery of column p of l, and the item it is part of.
LateralSub(l, p, a) == Leaf([alias |-> a, cols |-> <<Col(l.sources, p)>>, key |-> {}], {})

LateralItem(l, p, a) ==
    [Cross(l, LateralSub(l, p, a)) EXCEPT !.rows = {x \o <<<<At(x, p)>>>> : x \in l.rows}]

LEMMA LateralOk ==
    ASSUME NEW kind, NEW l, NEW p, NEW alias, ItemOk(l), p \in Positions(l.sources),
           alias \in Text, alias # "", alias \notin collect_aliases(l)
    PROVE  /\ ItemOk(LateralItem(l, p, alias))
           /\ collect_aliases(LateralItem(l, p, alias)) = collect_aliases(l) \cup {alias}
           /\ NullsOk(l, marked) /\ ~(l.sources[p[1]].alias \in marked /\ Col(l.sources, p).notnull)
              => NullsOk(LateralItem(l, p, alias), mark_all_nullable(kind, l, LateralSub(l, p, alias)))
           /\ \A H : StarOk(l, H) /\ (\A k \in H : k[1] # alias) => StarOk(LateralItem(l, p, alias), H)
<1> DEFINE c    == Col(l.sources, p)
           src  == [alias |-> alias, cols |-> <<c>>, key |-> {}]
           sub  == Leaf(src, {})
           vals == {<<At(x, p)>> : x \in l.rows}
           R    == Leaf(src, vals)
           rows == {x \o <<<<At(x, p)>>>> : x \in l.rows}
           new  == [Cross(l, sub) EXCEPT !.rows = rows]
           M    == mark_all_nullable(kind, l, sub)
<1>1. l \in Item /\ Fits(l) /\ l.sources \in Seq(Source)
  BY DEF ItemOk, Item
<1>2. c \in Column
  BY <1>1, PositionsTyped
<1> HIDE DEF c
<1>2a. <<c>> \in Seq(Column) /\ DOMAIN <<c>> = {1} /\ <<c>>[1] = c
  BY <1>2, Single
<1>3. src \in Source
  BY <1>2a DEF Source
<1>3a. src.key = {} /\ src.alias = alias /\ src.cols = <<c>>
  OBVIOUS
<1> HIDE DEF src
<1>4. DOMAIN src.cols = {1} /\ src.cols[1] = c
  BY <1>2a, <1>3a
<1>5. NamesApart(src)
  BY <1>4 DEF NamesApart
<1>6. \A x \in l.rows : At(x, p) \in Nat
  BY <1>1, AtTyped
<1>7. ASSUME NEW r \in vals
      PROVE  r \in Values /\ DOMAIN r = {1} /\ \E x \in l.rows : r[1] = At(x, p)
  <2>1. PICK x \in l.rows : r = <<At(x, p)>>
    OBVIOUS
  <2>2. \A v \in Nat : <<v>> \in Seq(Nat) /\ DOMAIN <<v>> = {1} /\ <<v>>[1] = v
    BY Single
  <2>3. QED
    BY <1>6, <2>1, <2>2 DEF Values
<1>8. R.rows = {<<r>> : r \in vals} /\ R.sources = sub.sources /\ R.out = sub.out
  BY DEF Leaf
<1>9. \A w \in rows : \E x \in l.rows, y \in R.rows : w = x \o y
  <2>1. ASSUME NEW x \in l.rows PROVE <<<<At(x, p)>>>> \in R.rows
    BY <1>8
  <2>2. QED
    BY <2>1
<1> HIDE DEF vals
<1>10. /\ ItemOk(R) /\ collect_aliases(R) = {alias}
       /\ \A N : (\A r \in vals : \A k \in DOMAIN src.cols :
                     src.cols[k].notnull /\ src.alias \notin N => r[k] # Null) => NullsOk(R, N)
       /\ \A H : (\A k \in H : k[1] # alias) => StarOk(R, H)
  <2>1. vals \subseteq Values /\ \A r \in vals : DOMAIN r = DOMAIN src.cols
    BY <1>4, <1>7
  <2>2. /\ ItemOk(R) /\ collect_aliases(R) = {src.alias}
        /\ \A N : (\A r \in vals : \A k \in DOMAIN src.cols :
                      src.cols[k].notnull /\ src.alias \notin N => r[k] # Null) => NullsOk(R, N)
        /\ \A H : NamesApart(src) /\ (\A k \in H : k[1] # src.alias) => StarOk(R, H)
    BY <1>3, <1>3a, <2>1, LeafOk
  <2>3. QED
    BY <1>3a, <1>5, <2>2
<1>11. Apart(l, R)
  BY <1>10 DEF Apart
<1> HIDE DEF R, rows, sub
<1>12. /\ ItemOk(new) /\ collect_aliases(new) = collect_aliases(l) \cup collect_aliases(R)
       /\ \A N : NullsOk(l, N) /\ NullsOk(R, N) => NullsOk(new, N)
       /\ \A H : StarOk(l, H) /\ StarOk(R, H) => StarOk(new, H)
  BY <1>8, <1>9, <1>10, <1>11, CrossWith
<1> HIDE DEF new
<1>13. ASSUME NullsOk(l, marked), ~(l.sources[p[1]].alias \in marked /\ c.notnull)
       PROVE  NullsOk(new, M)
  <2>1. NullsOk(l, M)
    BY <1>13, MarksPadded, MoreMarked
  <2>2. c.notnull => \A x \in l.rows : At(x, p) # Null
    BY <1>13 DEF NullsOk, c
  <2>3. \A r \in vals : \A k \in DOMAIN src.cols :
            src.cols[k].notnull /\ src.alias \notin M => r[k] # Null
    BY <1>4, <1>7, <2>2
  <2>4. NullsOk(R, M)
    BY <1>10, <2>3
  <2>5. QED
    BY <1>12, <2>1, <2>4
<1>14. QED
  BY <1>10, <1>12, <1>13 DEF new, rows, sub, src, c, LateralItem, LateralSub

-----------------------------------------------------------------------------
(* JOIN USING.  The new item is the merged source crossed with what the     *)
(* join makes of its sides; of that, it shows less.                         *)

LEMMA FirstPlace ==
    ASSUME NEW S, S \subseteq Places, S # {}
    PROVE  \E p \in S : \A q \in S : q = p \/ Before(p, q)
<1>1. \A p \in S : p[1] \in Nat /\ p[2] \in Nat
  BY DEF Places
<1> DEFINE A == {p[1] : p \in S}
<1>2. A \subseteq Nat /\ A # {}
  BY <1>1
<1> HIDE DEF A
<1>3. PICK a \in A : \A m \in A : a <= m
  BY <1>2, LeastNumber
<1> DEFINE B == {p[2] : p \in {q \in S : q[1] = a}}
<1>4. PICK q \in S : q[1] = a
  BY <1>3 DEF A
<1>5. B \subseteq Nat /\ B # {}
  BY <1>1, <1>4
<1> HIDE DEF B
<1>6. PICK b \in B : \A m \in B : b <= m
  BY <1>5, LeastNumber
<1>7. PICK p \in S : p[1] = a /\ p[2] = b
  BY <1>6 DEF B
<1>8. ASSUME NEW r \in S PROVE r = p \/ Before(p, r)
  <2>1. a <= r[1] /\ (r[1] = a => b <= r[2])
    <3>1. r[1] \in A /\ (r[1] = a => r[2] \in B)
      BY DEF A, B
    <3>2. QED
      BY <1>3, <1>6, <3>1
  <2>2. r[1] = p[1] /\ r[2] = p[2] => r = p
    BY DEF Places
  <2>3. QED
    BY <1>1, <1>7, <2>1, <2>2 DEF Before
<1>9. QED
  BY <1>8

\* A name shown once is found at the column shown.
LEMMA ShownFound ==
    ASSUME NEW it, ItemOk(it), NEW name, ShownOnce(it, name)
    PROVE  LET p == Shown(it, name)
           IN  /\ p \in Positions(it.sources) /\ Col(it.sources, p).name = name
               /\ find_col(it.sources, name) = {p}
               /\ \A i \in DOMAIN it.out : it.out[i].name = name => it.out[i].at = p
               /\ \E i \in DOMAIN it.out : it.out[i].at = p
<1> DEFINE I == {i \in DOMAIN it.out : it.out[i].name = name}
           p == Shown(it, name)
           here == {q \in Positions(it.sources) : Col(it.sources, q).name = name}
<1>1. it \in Item /\ it.out \in Seq(Shows) /\ it.sources \in Seq(Source)
  BY DEF ItemOk, Item
<1>2. PICK i \in DOMAIN it.out : I = {i}
  <2>1. IsFiniteSet(I)
    <3>1. DOMAIN it.out = 1..Len(it.out) /\ Len(it.out) \in Nat
      BY <1>1
    <3>2. IsFiniteSet(1..Len(it.out))
      BY <3>1, FS_Interval
    <3>3. I \in SUBSET (1..Len(it.out))
      BY <3>1
    <3>4. QED
      BY <3>2, <3>3, FS_Subset
  <2>2. Cardinality(I) = 1
    BY DEF ShownOnce
  <2>3. PICK x : I = {x}
    BY <2>1, <2>2, FS_Singleton
  <2>4. QED
    BY <2>3
<1>3. p = it.out[i].at
  BY <1>2 DEF Shown
<1>4. it.out[i].name = name /\ \A j \in DOMAIN it.out : it.out[j].name = name => j = i
  BY <1>2
<1>5. p \in here
  BY <1>3, <1>4 DEF ItemOk, OutNamed
<1>6. here \subseteq Places
  BY <1>1, PositionsTyped
<1> HIDE DEF p
<1>7. PICK q \in here : \A r \in here : r = q \/ Before(q, r)
  BY <1>5, <1>6, FirstPlace
<1>8. q = p
  <2>1. CASE \E j \in DOMAIN it.out : it.out[j].at = q
    <3>1. PICK j \in DOMAIN it.out : it.out[j].at = q
      BY <2>1
    <3>2. it.out[j].name = name
      BY <3>1 DEF ItemOk, OutNamed
    <3>3. QED
      BY <1>3, <1>4, <3>1, <3>2
  <2>2. ASSUME NEW r \in Positions(it.sources), Before(r, q), Col(it.sources, r).name = Col(it.sources, q).name
        PROVE  FALSE
    <3>1. r \in here
      BY <2>2
    <3>2. r = q \/ Before(q, r)
      BY <1>7, <3>1
    <3>3. q \in Places /\ r \in Places
      BY <1>6, <3>1
    <3>4. QED
      BY <2>2, <3>2, <3>3, PlaceOrderStrict
  <2>3. QED
    BY <2>1, <2>2 DEF ItemOk, OutCovers
<1>9. find_col(it.sources, name) = {r \in here : \A s \in here \ {r} : Before(r, s)}
  BY DEF find_col
<1>10. \A r \in here : (\A s \in here \ {r} : Before(r, s)) <=> r = p
  <2>1. \A s \in here \ {p} : Before(p, s)
    BY <1>7, <1>8
  <2>2. ASSUME NEW r \in here, \A s \in here \ {r} : Before(r, s), r # p PROVE FALSE
    <3>1. Before(r, p) /\ Before(p, r)
      BY <1>5, <2>1, <2>2
    <3>2. QED
      BY <1>5, <1>6, <3>1, PlaceOrderStrict
  <2>3. QED
    BY <2>1, <2>2
<1>11. find_col(it.sources, name) = {p}
  BY <1>5, <1>9, <1>10
<1>12. QED
  BY <1>3, <1>4, <1>5, <1>11 DEF p

\* What is still shown of c when the columns named in N are merged.
Rest(c, N) ==
    [sources |-> c.sources, rows |-> c.rows,
     out |-> Keeping(c.out, {i \in DOMAIN c.out : c.out[i].name \notin N})]

ShowsOrder == {z \in Shows \X Shows : Before(z[1].at, z[2].at)}

LEMMA RestShows ==
    ASSUME NEW c \in Item, OutNamed(c), NEW N
    PROVE  LET rest == Rest(c, N)
           IN  /\ rest \in Item /\ rest.sources = c.sources /\ rest.rows = c.rows
               /\ OutNamed(rest)
               /\ \A i \in DOMAIN rest.out : rest.out[i].name \notin N
               /\ \A j \in DOMAIN c.out : c.out[j].name \notin N =>
                     \E i \in DOMAIN rest.out : rest.out[i] = c.out[j]
               /\ \A i \in DOMAIN rest.out : \E j \in DOMAIN c.out : rest.out[i] = c.out[j]
               /\ (\A i, j \in DOMAIN c.out : i < j => Before(c.out[i].at, c.out[j].at))
                  => \A i, j \in DOMAIN rest.out : i < j => Before(rest.out[i].at, rest.out[j].at)
<1> DEFINE rest == Rest(c, N)
           places == {i \in DOMAIN c.out : c.out[i].name \notin N}
           o == c.out
<1>1. o \in Seq(Shows)
  BY DEF Item
<1>2. rest.sources = c.sources /\ rest.rows = c.rows /\ rest.out = Keeping(o, places)
  BY DEF Rest
<1>3. \A order : Increasing(o, order) =>
         /\ Keeping(o, places) \in Seq(Shows)
         /\ Members(Keeping(o, places)) = {o[i] : i \in DOMAIN o \cap places}
         /\ Increasing(Keeping(o, places), order)
  <2> HIDE DEF o, places
  <2>1. QED
    BY <1>1, KeepingSorted
<1>4. /\ rest.out \in Seq(Shows)
      /\ Members(rest.out) = {o[i] : i \in DOMAIN o \cap places}
  <2>1. Increasing(o, Shows \X Shows)
    BY <1>1 DEF Increasing
  <2>2. QED
    BY <1>2, <1>3, <2>1
<1>5. rest \in Item
  BY <1>4 DEF Rest, Item
<1>6. \A x : x \in Members(rest.out) <=> \E i \in DOMAIN rest.out : rest.out[i] = x
  BY DEF Members
<1>7. /\ \A i \in DOMAIN rest.out : \E j \in DOMAIN o : rest.out[i] = o[j] /\ o[j].name \notin N
      /\ \A j \in DOMAIN o : o[j].name \notin N => \E i \in DOMAIN rest.out : rest.out[i] = o[j]
  <2> HIDE DEF rest
  <2>1. \A i \in DOMAIN rest.out : \E j \in DOMAIN o \cap places : rest.out[i] = o[j]
    BY <1>4, <1>6
  <2>2. \A j \in DOMAIN o \cap places : \E i \in DOMAIN rest.out : rest.out[i] = o[j]
    BY <1>4, <1>6
  <2>3. QED
    BY <2>1, <2>2
<1>8. ASSUME \A i, j \in DOMAIN o : i < j => Before(o[i].at, o[j].at)
      PROVE  \A i, j \in DOMAIN rest.out : i < j => Before(rest.out[i].at, rest.out[j].at)
  <2>1. Increasing(o, ShowsOrder)
    BY <1>1, <1>8 DEF Increasing, ShowsOrder
  <2>2. Increasing(rest.out, ShowsOrder)
    BY <1>2, <1>3, <2>1
  <2>3. \A x, y : <<x, y>> \in ShowsOrder => Before(x.at, y.at)
    BY DEF ShowsOrder
  <2>4. QED
    BY <2>2, <2>3 DEF Increasing
<1>9. OutNamed(rest)
  <2> HIDE DEF rest
  <2>1. QED
    BY <1>2, <1>7 DEF OutNamed
<1>10. QED
  BY <1>2, <1>5, <1>7, <1>8, <1>9 DEF rest, o

\* The positions of s, where b stands behind the m sources of a.
StandBehind(s, a, b, m) ==
    /\ \A p \in Positions(a) :
          /\ p \in Positions(s) /\ s[p[1]] = a[p[1]]
          /\ Col(s, p) = Col(a, p) /\ Key(s, p) = Key(a, p)
    /\ \A p \in Positions(b) :
          /\ Later(p, m) \in Positions(s) /\ s[Later(p, m)[1]] = b[p[1]]
          /\ Col(s, Later(p, m)) = Col(b, p) /\ Key(s, Later(p, m)) = Key(b, p)
    /\ \A p \in Positions(s) :
          p \in Positions(a) \/ \E q \in Positions(b) : p = Later(q, m)
    /\ \A p \in Positions(a), q \in Positions(b) : Before(p, Later(q, m))
    /\ \A p, q \in Positions(b) : Before(Later(p, m), Later(q, m)) <=> Before(p, q)

LEMMA CrossStands ==
    ASSUME NEW l, NEW r, l \in Item, r \in Item
    PROVE  StandBehind(Cross(l, r).sources, l.sources, r.sources, Len(l.sources))
BY CrossPositions DEF StandBehind

\* The merged source mi in front of c, where N are the names merged.
LEMMA MergingOk ==
    ASSUME NEW mi, NEW c, ItemOk(mi), ItemOk(c), Apart(mi, c), NEW N,
           \A n \in N : \E p \in Positions(mi.sources) : Col(mi.sources, p).name = n
    PROVE  LET new == Cross(mi, Rest(c, N))
           IN  /\ ItemOk(new) /\ collect_aliases(new) = collect_aliases(mi) \cup collect_aliases(c)
               /\ \A M : NullsOk(mi, M) /\ NullsOk(c, M) => NullsOk(new, M)
<1> DEFINE big  == Cross(mi, c)
           a == mi.sources
           b == c.sources
           m == Len(mi.sources)
           n == Len(mi.out)
<1>1. /\ mi \in Item /\ Fits(mi) /\ OutNamed(mi)
      /\ c \in Item /\ Fits(c) /\ OutNamed(c)
  BY DEF ItemOk
<1>2. PICK rest \in Item :
      /\ rest = Rest(c, N) /\ rest.sources = b /\ rest.rows = c.rows /\ OutNamed(rest)
      /\ \A j \in DOMAIN c.out : c.out[j].name \notin N =>
            \E i \in DOMAIN rest.out : rest.out[i] = c.out[j]
  BY <1>1, RestShows
<1> DEFINE new  == Cross(mi, rest)
           s == new.sources
<1>3. Fits(rest)
  BY <1>1, <1>2 DEF Fits
<1>4. ItemOk(big) /\ collect_aliases(big) = collect_aliases(mi) \cup collect_aliases(c)
  BY <1>1, CrossOk, CrossTyped
<1>5. new.sources = big.sources /\ new.rows = big.rows
  BY <1>2 DEF Cross
<1>6. new \in Item /\ Fits(new) /\ OutNamed(new)
  BY <1>1, <1>2, <1>3, CrossTyped, CrossNamed
<1>7. /\ \A p \in Positions(a) : p \in Positions(s) /\ Col(s, p) = Col(a, p)
      /\ \A p \in Positions(b) : /\ Later(p, m) \in Positions(s)
                                 /\ Col(s, Later(p, m)) = Col(b, p)
      /\ \A p \in Positions(s) : p \in Positions(a) \/ \E q \in Positions(b) : p = Later(q, m)
      /\ \A p \in Positions(a), q \in Positions(b) : Before(p, Later(q, m))
      /\ \A p, q \in Positions(b) : Before(Later(p, m), Later(q, m)) <=> Before(p, q)
  <2>1. StandBehind(s, a, rest.sources, m)
    BY <1>1, CrossStands
  <2>2. StandBehind(s, a, b, m)
    BY <1>2, <2>1
  <2> HIDE DEF s, a, b, m
  <2>3. QED
    BY <2>2 DEF StandBehind
<1>8. /\ \A i \in DOMAIN mi.out : i \in DOMAIN new.out /\ new.out[i] = mi.out[i]
      /\ \A j \in DOMAIN rest.out : j + n \in DOMAIN new.out
                                    /\ new.out[j + n].at = Later(rest.out[j].at, m)
  BY <1>1, <1>2, CrossShows
<1> HIDE DEF new, big, m, n
<1>9. OutCovers(new)
  <2>1. ASSUME NEW p \in Positions(a)
        PROVE  \/ \E i \in DOMAIN new.out : new.out[i].at = p
               \/ \E q \in Positions(s) : Before(q, p) /\ Col(s, q).name = Col(s, p).name
    <3>1. CASE \E i \in DOMAIN mi.out : mi.out[i].at = p
      BY <1>8, <3>1
    <3>2. CASE \E q \in Positions(a) : Before(q, p) /\ Col(a, q).name = Col(a, p).name
      BY <1>7, <3>2
    <3>3. QED
      BY <3>1, <3>2 DEF ItemOk, OutCovers
  <2>2. ASSUME NEW p \in Positions(b)
        PROVE  \/ \E i \in DOMAIN new.out : new.out[i].at = Later(p, m)
               \/ \E q \in Positions(s) : Before(q, Later(p, m)) /\ Col(s, q).name = Col(s, Later(p, m)).name
    <3>1. CASE Col(b, p).name \in N
      <4>1. PICK q \in Positions(a) : Col(a, q).name = Col(b, p).name
        BY <3>1
      <4>2. q \in Positions(s) /\ Before(q, Later(p, m)) /\ Col(s, q).name = Col(s, Later(p, m)).name
        BY <1>7, <4>1
      <4>3. QED
        BY <4>2
    <3>2. ASSUME NEW i \in DOMAIN c.out, c.out[i].at = p, Col(b, p).name \notin N
          PROVE  \E j \in DOMAIN new.out : new.out[j].at = Later(p, m)
      <4>1. c.out[i].name \notin N
        BY <1>1, <3>2 DEF OutNamed
      <4>2. PICK j \in DOMAIN rest.out : rest.out[j] = c.out[i]
        BY <1>2, <4>1
      <4>3. j + n \in DOMAIN new.out /\ new.out[j + n].at = Later(p, m)
        BY <1>8, <3>2, <4>2
      <4>4. QED
        BY <4>3
    <3>3. ASSUME NEW q \in Positions(b), Before(q, p), Col(b, q).name = Col(b, p).name
          PROVE  \E x \in Positions(s) : Before(x, Later(p, m)) /\ Col(s, x).name = Col(s, Later(p, m)).name
      <4>1. /\ Later(q, m) \in Positions(s) /\ Before(Later(q, m), Later(p, m))
            /\ Col(s, Later(q, m)).name = Col(s, Later(p, m)).name
        BY <1>7, <3>3
      <4>2. QED
        BY <4>1
    <3>4. QED
      BY <3>1, <3>2, <3>3 DEF ItemOk, OutCovers
  <2>3. QED
    BY <1>7, <2>1, <2>2 DEF OutCovers
<1>10. KeysNamed(new)
  BY <1>4, <1>5 DEF ItemOk, KeysNamed
<1>11. KeysSettle(new)
  BY <1>4, <1>5 DEF ItemOk, KeysSettle
<1>12. AliasesApart(new)
  BY <1>4, <1>5 DEF ItemOk, AliasesApart
<1>13. ItemOk(new)
  BY <1>6, <1>9, <1>10, <1>11, <1>12 DEF ItemOk
<1>14. collect_aliases(new) = collect_aliases(mi) \cup collect_aliases(c)
  BY <1>4, <1>5 DEF collect_aliases
<1>15. ASSUME NEW M, NullsOk(mi, M), NullsOk(c, M) PROVE NullsOk(new, M)
  <2>1. NullsOk(big, M)
    BY <1>15, CrossNulls DEF big
  <2>2. QED
    BY <1>5, <2>1 DEF NullsOk
<1>16. QED
  BY <1>2, <1>13, <1>14, <1>15 DEF new

\* J are the columns merged away, the ones named in N.
LEMMA MergingStars ==
    ASSUME NEW mi, NEW c, ItemOk(mi), ItemOk(c), NEW N, NEW H, NEW J,
           \A n \in N : \E p \in Positions(mi.sources) :
               mi.sources[p[1]].alias = "" /\ Col(mi.sources, p).name = n,
           StarOk(mi, H \cup J), StarOk(c, H),
           \A p \in Positions(mi.sources) : Key(mi.sources, p) \notin H \cup J,
           \A p \in Positions(c.sources) : Key(c.sources, p) \in J <=> Col(c.sources, p).name \in N
    PROVE  StarOk(Cross(mi, Rest(c, N)), H \cup J)
<1> DEFINE a == mi.sources
           b == c.sources
           m == Len(mi.sources)
<1>1. /\ mi \in Item /\ OutNamed(mi)
      /\ c \in Item /\ OutNamed(c)
  BY DEF ItemOk
<1>2. PICK rest \in Item :
      /\ rest = Rest(c, N) /\ rest.sources = b /\ OutNamed(rest)
      /\ \A i \in DOMAIN rest.out : rest.out[i].name \notin N
      /\ \A j \in DOMAIN c.out : c.out[j].name \notin N =>
            \E i \in DOMAIN rest.out : rest.out[i] = c.out[j]
      /\ \A i \in DOMAIN rest.out : \E j \in DOMAIN c.out : rest.out[i] = c.out[j]
      /\ (\A i, j \in DOMAIN c.out : i < j => Before(c.out[i].at, c.out[j].at))
         => \A i, j \in DOMAIN rest.out : i < j => Before(rest.out[i].at, rest.out[j].at)
  BY <1>1, RestShows
<1> DEFINE new  == Cross(mi, rest)
           s == new.sources
<1>3. StarShown(rest, H \cup J)
  <2>1. \A i, j \in DOMAIN rest.out : i < j => Before(rest.out[i].at, rest.out[j].at)
    BY <1>2 DEF StarOk, StarShown
  <2>2. \A i \in DOMAIN b : NamesApart(b[i])
    BY DEF StarOk, StarShown
  <2>3. ASSUME NEW p \in Positions(b)
        PROVE  Key(b, p) \notin H \cup J <=> \E i \in DOMAIN rest.out : rest.out[i].at = p
    <3>1. Key(b, p) \notin H <=> \E i \in DOMAIN c.out : c.out[i].at = p
      BY DEF StarOk, StarShown
    <3>2. Key(b, p) \in J <=> Col(b, p).name \in N
      OBVIOUS
    <3>3. ASSUME NEW i \in DOMAIN c.out, c.out[i].at = p, Col(b, p).name \notin N
          PROVE  \E j \in DOMAIN rest.out : rest.out[j].at = p
      <4>1. c.out[i].name \notin N
        BY <1>1, <3>3 DEF OutNamed
      <4>2. PICK j \in DOMAIN rest.out : rest.out[j] = c.out[i]
        BY <1>2, <4>1
      <4>3. QED
        BY <3>3, <4>2
    <3>4. ASSUME NEW i \in DOMAIN rest.out, rest.out[i].at = p
          PROVE  Col(b, p).name \notin N /\ \E j \in DOMAIN c.out : c.out[j].at = p
      <4>1. PICK j \in DOMAIN c.out : rest.out[i] = c.out[j]
        BY <1>2
      <4>2. c.out[j].at = p /\ c.out[j].name \notin N
        BY <1>2, <3>4, <4>1
      <4>3. c.out[j].name = Col(b, p).name
        BY <1>1, <4>2 DEF OutNamed
      <4>4. QED
        BY <4>2, <4>3
    <3>5. QED
      BY <3>1, <3>2, <3>3, <3>4
  <2>4. QED
    BY <1>2, <2>1, <2>2, <2>3 DEF StarShown
<1>4. StarShown(new, H \cup J)
  BY <1>1, <1>2, <1>3, CrossShown DEF StarOk
<1>5. /\ \A p \in Positions(a) :
            /\ p \in Positions(s) /\ s[p[1]] = a[p[1]]
            /\ Col(s, p) = Col(a, p) /\ Key(s, p) = Key(a, p)
      /\ \A p \in Positions(b) :
            /\ Later(p, m) \in Positions(s) /\ s[Later(p, m)[1]] = b[p[1]]
            /\ Col(s, Later(p, m)) = Col(b, p) /\ Key(s, Later(p, m)) = Key(b, p)
      /\ \A p \in Positions(s) :
            p \in Positions(a) \/ \E q \in Positions(b) : p = Later(q, m)
  <2>1. StandBehind(s, a, rest.sources, m)
    BY <1>1, CrossStands
  <2>2. StandBehind(s, a, b, m)
    BY <1>2, <2>1
  <2> HIDE DEF s, a, b, m
  <2>3. QED
    BY <2>2 DEF StandBehind
<1> HIDE DEF new, m
<1>6. ASSUME NEW p \in Positions(s), Key(s, p) \in H \cup J
      PROVE  \E q \in Positions(s) : s[q[1]].alias = "" /\ Col(s, q).name = Col(s, p).name
  <2>1. PICK k \in Positions(b) : p = Later(k, m)
    BY <1>5, <1>6
  <2>2. Key(b, k) \in H \/ Col(b, k).name \in N
    BY <1>5, <1>6, <2>1
  <2>3. ASSUME Key(b, k) \in H
        PROVE  \E q \in Positions(s) : s[q[1]].alias = "" /\ Col(s, q).name = Col(s, p).name
    <3>1. PICK q \in Positions(b) : b[q[1]].alias = "" /\ Col(b, q).name = Col(b, k).name
      BY <2>3 DEF StarOk
    <3>2. /\ Later(q, m) \in Positions(s) /\ s[Later(q, m)[1]].alias = ""
          /\ Col(s, Later(q, m)).name = Col(s, p).name
      BY <1>5, <2>1, <3>1
    <3>3. QED
      BY <3>2
  <2>4. ASSUME Col(b, k).name \in N
        PROVE  \E q \in Positions(s) : s[q[1]].alias = "" /\ Col(s, q).name = Col(s, p).name
    <3>1. PICK q \in Positions(a) : a[q[1]].alias = "" /\ Col(a, q).name = Col(b, k).name
      BY <2>4
    <3>2. q \in Positions(s) /\ s[q[1]].alias = "" /\ Col(s, q).name = Col(s, p).name
      BY <1>5, <2>1, <3>1
    <3>3. QED
      BY <3>2
  <2>5. QED
    BY <2>2, <2>3, <2>4
<1>7. QED
  BY <1>2, <1>4, <1>6 DEF StarOk, new

\* The merged source of a JOIN USING, and what it holds in a row.
MergedColumns(kind, l, r, names) ==
    [i \in DOMAIN names |->
        [name    |-> names[i],
         notnull |-> merged_not_null(kind,
                       Col(l.sources, CHOOSE p \in find_col(l.sources, names[i]) : TRUE).notnull,
                       Col(r.sources, CHOOSE p \in find_col(r.sources, names[i]) : TRUE).notnull)]]

MergedSource(kind, l, r, names) ==
    [alias |-> "", cols |-> MergedColumns(kind, l, r, names), key |-> {}]

MergedValues(kind, l, r, names, z) ==
    [i \in DOMAIN names |-> MergedValue(kind, At(z[1], Shown(l, names[i])),
                                              At(z[2], Shown(r, names[i])))]

\* The pairs whose merged columns are equal.
Matched(l, r, names) ==
    {z \in l.rows \X r.rows :
        \A i \in DOMAIN names : /\ At(z[1], Shown(l, names[i])) # Null
                                /\ At(z[1], Shown(l, names[i])) = At(z[2], Shown(r, names[i]))}

BothShow(l, r, names) ==
    \A i \in DOMAIN names : ShownOnce(l, names[i]) /\ ShownOnce(r, names[i])

IsMergedSource(src, kind, l, r, names) ==
    /\ src \in Source /\ src.alias = "" /\ src.key = {}
    /\ DOMAIN src.cols = DOMAIN names
    /\ \A i \in DOMAIN names :
          /\ src.cols[i].name = names[i]
          /\ src.cols[i].notnull =
               merged_not_null(kind, Col(l.sources, Shown(l, names[i])).notnull,
                                     Col(r.sources, Shown(r, names[i])).notnull)

LEMMA MergedTyped ==
    ASSUME NEW kind, NEW l, NEW r, ItemOk(l), ItemOk(r),
           NEW names \in Seq(Text), BothShow(l, r, names)
    PROVE  IsMergedSource(MergedSource(kind, l, r, names), kind, l, r, names)
<1> DEFINE src == MergedSource(kind, l, r, names)
           lc(i) == Col(l.sources, CHOOSE p \in find_col(l.sources, names[i]) : TRUE)
           rc(i) == Col(r.sources, CHOOSE p \in find_col(r.sources, names[i]) : TRUE)
           col(i) == [name |-> names[i], notnull |-> merged_not_null(kind, lc(i).notnull, rc(i).notnull)]
<1>1. l.sources \in Seq(Source) /\ r.sources \in Seq(Source)
  BY DEF ItemOk, Item
<1>2. Len(names) \in Nat /\ DOMAIN names = 1..Len(names) /\ \A i \in DOMAIN names : names[i] \in Text
  OBVIOUS
<1>3. \A x : (CHOOSE p \in {x} : TRUE) = x
  OBVIOUS
<1>4. ASSUME NEW i \in DOMAIN names
      PROVE  /\ lc(i) = Col(l.sources, Shown(l, names[i])) /\ lc(i) \in Column
             /\ rc(i) = Col(r.sources, Shown(r, names[i])) /\ rc(i) \in Column
  <2>1. ShownOnce(l, names[i]) /\ ShownOnce(r, names[i])
    BY DEF BothShow
  <2>2. /\ Shown(l, names[i]) \in Positions(l.sources)
        /\ find_col(l.sources, names[i]) = {Shown(l, names[i])}
    BY <2>1, ShownFound
  <2>3. /\ Shown(r, names[i]) \in Positions(r.sources)
        /\ find_col(r.sources, names[i]) = {Shown(r, names[i])}
    BY <2>1, ShownFound
  <2>4. lc(i) = Col(l.sources, Shown(l, names[i])) /\ rc(i) = Col(r.sources, Shown(r, names[i]))
    BY <1>3, <2>2, <2>3
  <2>5. QED
    BY <1>1, <2>2, <2>3, <2>4, PositionsTyped
<1> HIDE DEF lc, rc
<1>5. \A i \in DOMAIN names : col(i) \in Column
  <2>1. \A x, y \in BOOLEAN : merged_not_null(kind, x, y) \in BOOLEAN
    BY DEF merged_not_null
  <2>2. \A i \in DOMAIN names : lc(i).notnull \in BOOLEAN /\ rc(i).notnull \in BOOLEAN
    BY <1>4 DEF Column
  <2>3. QED
    BY <1>2, <2>1, <2>2 DEF Column
<1>6. src.cols = [i \in 1..Len(names) |-> col(i)] /\ src.alias = "" /\ src.key = {}
  BY <1>2 DEF MergedSource, MergedColumns, lc, rc
<1> DEFINE cols == MergedColumns(kind, l, r, names)
           n == Len(names)
<1>7. src = [alias |-> "", cols |-> cols, key |-> {}] /\ cols = [i \in 1..n |-> col(i)]
  BY <1>2 DEF MergedSource, MergedColumns, lc, rc
<1> HIDE DEF src, cols
<1>8. \A i \in DOMAIN names : cols[i] = col(i)
  BY <1>2, <1>7
<1>9. \A i \in DOMAIN names : /\ col(i).name = names[i]
                             /\ col(i).notnull = merged_not_null(kind, lc(i).notnull, rc(i).notnull)
  OBVIOUS
<1> HIDE DEF col
<1>10. cols \in Seq(Column)
  <2>1. n \in Nat /\ \A i \in 1..n : col(i) \in Column
    BY <1>2, <1>5
  <2>2. cols = [i \in 1..n |-> col(i)]
    BY <1>7
  <2> HIDE DEF n
  <2>3. [i \in 1..n |-> col(i)] \in Seq(Column)
    BY <2>1, IsASeq
  <2>4. QED
    BY <2>2, <2>3
<1>11. src \in Source
  <2>1. src = [alias |-> "", cols |-> cols, key |-> {}]
    BY <1>7
  <2>2. [alias |-> "", cols |-> cols, key |-> {}] \in Source
    <3>1. "" \in Text
      BY DEF Text
    <3>2. QED
      BY <1>10, <3>1 DEF Source
  <2>3. QED
    BY <2>1, <2>2
<1>12. src.cols = cols /\ DOMAIN cols = DOMAIN names
  BY <1>2, <1>7
<1>13. QED
  BY <1>4, <1>6, <1>8, <1>9, <1>11, <1>12 DEF src, IsMergedSource

LEMMA MergedValuesTyped ==
    ASSUME NEW kind, NEW l, NEW r, ItemOk(l), ItemOk(r),
           NEW names \in Seq(Text), BothShow(l, r, names),
           NEW L, ItemOk(L), L.sources = l.sources, NEW R, ItemOk(R), R.sources = r.sources,
           NEW z, z[1] \in L.rows, z[2] \in R.rows
    PROVE  LET v == MergedValues(kind, l, r, names, z)
           IN  v \in Values /\ DOMAIN v = DOMAIN names
<1> DEFINE v == MergedValues(kind, l, r, names, z)
           x(i) == At(z[1], Shown(l, names[i]))
           y(i) == At(z[2], Shown(r, names[i]))
<1>1. Len(names) \in Nat /\ DOMAIN names = 1..Len(names)
  OBVIOUS
<1>2. ASSUME NEW i \in DOMAIN names PROVE x(i) \in Nat /\ y(i) \in Nat
  <2>1. ShownOnce(l, names[i]) /\ ShownOnce(r, names[i])
    BY DEF BothShow
  <2>2. Shown(l, names[i]) \in Positions(L.sources)
    BY <2>1, ShownFound
  <2>3. Shown(r, names[i]) \in Positions(R.sources)
    BY <2>1, ShownFound
  <2>4. L \in Item /\ Fits(L) /\ R \in Item /\ Fits(R)
    BY DEF ItemOk
  <2>5. x(i) \in Nat
    BY <2>2, <2>4, AtTyped
  <2>6. y(i) \in Nat
    BY <2>3, <2>4, AtTyped
  <2>7. QED
    BY <2>5, <2>6
<1> HIDE DEF x, y
<1>3. \A i \in DOMAIN names : MergedValue(kind, x(i), y(i)) \in Nat
  BY <1>2 DEF MergedValue
<1>4. v = [i \in 1..Len(names) |-> MergedValue(kind, x(i), y(i))]
  BY <1>1 DEF MergedValues, x, y
<1>5. v \in Values
  BY <1>1, <1>3, <1>4, IsASeq DEF Values
<1>6. QED
  BY <1>1, <1>4, <1>5

\* Outside the padded shapes a merged column declared NOT NULL is not NULL.
LEMMA MergedNotNull ==
    ASSUME NEW kind \in Kinds, NEW l, NEW r, ItemOk(l), ItemOk(r),
           NullsOk(l, marked), NullsOk(r, marked),
           NEW names, BothShow(l, r, names),
           "using_padded" \notin MergeGaps(kind, l, r, names),
           NEW z, IsPair(kind, l, r, Matched(l, r, names), z),
           NEW i \in DOMAIN names,
           merged_not_null(kind, Col(l.sources, Shown(l, names[i])).notnull,
                                 Col(r.sources, Shown(r, names[i])).notnull)
    PROVE  MergedValue(kind, At(z[1], Shown(l, names[i])), At(z[2], Shown(r, names[i]))) # Null
<1> DEFINE p == Shown(l, names[i])
           q == Shown(r, names[i])
           n == names[i]
           dl == Col(l.sources, p).notnull
           dr == Col(r.sources, q).notnull
           al == l.sources[p[1]].alias
           ar == r.sources[q[1]].alias
<1>1. /\ p \in Positions(l.sources) /\ find_col(l.sources, n) = {p}
      /\ q \in Positions(r.sources) /\ find_col(r.sources, n) = {q}
  <2>1. ShownOnce(l, n) /\ ShownOnce(r, n)
    BY DEF BothShow
  <2>2. QED
    BY <2>1, ShownFound
<1>2. dl \in BOOLEAN /\ dr \in BOOLEAN
  <2>1. l.sources \in Seq(Source) /\ r.sources \in Seq(Source)
    BY DEF ItemOk, Item
  <2>2. Col(l.sources, p) \in Column /\ Col(r.sources, q) \in Column
    BY <1>1, <2>1, PositionsTyped
  <2>3. QED
    BY <2>2 DEF Column
<1>3. merged_not_null(kind, dl, dr)
  OBVIOUS
<1> DEFINE declared(it, x) == \A y \in find_col(it.sources, x) : Col(it.sources, y).notnull
           padded(it, x)   == \E y \in find_col(it.sources, x) : it.sources[y[1]].alias \in marked
           mayBeNull(it, x) == padded(it, x) \/ ~declared(it, x)
           bad(x) == /\ merged_not_null(kind, declared(l, x), declared(r, x))
                     /\ \/ kind \in {"left", "full"}  /\ mayBeNull(l, x)
                        \/ kind \in {"right", "full"} /\ mayBeNull(r, x)
<1>4. ~bad(n)
  <2>1. n \in ToSet(names)
    BY DEF ToSet
  <2>2. ~\E x \in ToSet(names) : bad(x)
    BY DEF MergeGaps
  <2>3. QED
    BY <2>1, <2>2
<1>5. /\ declared(l, n) <=> dl
      /\ declared(r, n) <=> dr
      /\ mayBeNull(l, n) <=> al \in marked \/ ~dl
      /\ mayBeNull(r, n) <=> ar \in marked \/ ~dr
  BY <1>1, <1>2
<1>6. merged_not_null(kind, declared(l, n), declared(r, n))
  <2> HIDE DEF declared
  <2>1. CASE kind = "right"
    BY <1>3, <1>5, <2>1 DEF merged_not_null
  <2>2. CASE kind = "full"
    BY <1>3, <1>5, <2>2 DEF merged_not_null
  <2>3. CASE kind # "right" /\ kind # "full"
    BY <1>3, <1>5, <2>3 DEF merged_not_null
  <2>4. QED
    BY <2>1, <2>2, <2>3
<1>7. /\ kind \in {"left", "full"} => al \notin marked /\ dl
      /\ kind \in {"right", "full"} => ar \notin marked /\ dr
  <2> HIDE DEF declared, padded, mayBeNull
  <2>1. QED
    BY <1>4, <1>5, <1>6
<1> HIDE DEF declared, padded, mayBeNull, bad, p, q
<1>8. /\ z[1] \in l.rows /\ al \notin marked /\ dl => At(z[1], p) # Null
      /\ z[2] \in r.rows /\ ar \notin marked /\ dr => At(z[2], q) # Null
  BY <1>1 DEF NullsOk
<1>9. z \in Matched(l, r, names) => z[1] \in l.rows /\ z[2] \in r.rows /\ At(z[1], p) # Null
  BY DEF Matched, p
<1> DEFINE x == At(z[1], p)
           y == At(z[2], q)
<1> HIDE DEF x, y, dl, dr, al, ar
<1>10. CASE kind = "inner"
  <2>1. z \in Matched(l, r, names)
    BY <1>10 DEF IsPair, PadsLeft, PadsRight
  <2>2. MergedValue(kind, x, y) = x
    BY <1>10 DEF MergedValue
  <2>3. QED
    BY <1>9, <2>1, <2>2 DEF x, y, p, q
<1>11. CASE kind = "left"
  <2>1. z[1] \in l.rows
    BY <1>9, <1>11 DEF IsPair, PadsLeft, PadsRight
  <2>2. MergedValue(kind, x, y) = x
    BY <1>11 DEF MergedValue
  <2>3. x # Null
    BY <1>7, <1>8, <1>11, <2>1 DEF x
  <2>4. QED
    BY <2>2, <2>3 DEF x, y, p, q
<1>12. CASE kind = "right"
  <2>1. z[2] \in r.rows
    BY <1>9, <1>12 DEF IsPair, PadsLeft, PadsRight
  <2>2. MergedValue(kind, x, y) = y
    BY <1>12 DEF MergedValue
  <2>3. y # Null
    BY <1>7, <1>8, <1>12, <2>1 DEF y
  <2>4. QED
    BY <2>2, <2>3 DEF x, y, p, q
<1>13. CASE kind = "full"
  <2>1. z[1] \in l.rows \/ z[2] \in r.rows
    BY <1>9 DEF IsPair
  <2>2. MergedValue(kind, x, y) = IF x = Null THEN y ELSE x
    BY <1>13 DEF MergedValue
  <2>3. x # Null \/ y # Null
    BY <1>7, <1>8, <1>13, <2>1 DEF x, y
  <2>4. QED
    BY <2>2, <2>3 DEF x, y, p, q
<1>14. QED
  BY <1>10, <1>11, <1>12, <1>13 DEF Kinds

IsMerge(new, pairs, kind, l, r, names) ==
    new = [sources |-> <<MergedSource(kind, l, r, names)>> \o Cross(l, r).sources,
           rows    |-> {<<MergedValues(kind, l, r, names, z)>> \o z[1] \o z[2] : z \in pairs},
           out     |-> [i \in DOMAIN names |-> [name |-> names[i], at |-> <<1, i>>]]
                       \o Shift(Rest(Cross(l, r), ToSet(names)).out, 1)]

LEMMA UsingShape ==
    ASSUME NEW kind, NEW l, NEW r, NEW names
    PROVE  \E pairs :
              /\ \A z \in pairs : IsPair(kind, l, r, Matched(l, r, names), z)
              /\ IsMerge(merge_using_columns(kind, l, r, names), pairs, kind, l, r, names)
<1> DEFINE equal(x, y) == \A i \in DOMAIN names :
                             /\ At(x, Shown(l, names[i])) # Null
                             /\ At(x, Shown(l, names[i])) = At(y, Shown(r, names[i]))
           pairs == JoinPairs(kind, l, r, equal)
           matched == {z \in l.rows \X r.rows : equal(z[1], z[2])}
           both == Cross(l, r)
           merged == MergedColumns(kind, l, r, names)
           value(z) == MergedValues(kind, l, r, names, z)
<1>1. matched = Matched(l, r, names)
  BY DEF Matched
<1>2. pairs = matched
              \cup (IF kind \in {"left", "full"}
                    THEN {<<x, Pad(r)>> : x \in l.rows \ {z[1] : z \in matched}} ELSE {})
              \cup (IF kind \in {"right", "full"}
                    THEN {<<Pad(l), y>> : y \in r.rows \ {z[2] : z \in matched}} ELSE {})
  BY DEF JoinPairs
<1>3. matched \subseteq l.rows \X r.rows
  OBVIOUS
<1>4. merge_using_columns(kind, l, r, names) =
         [sources |-> <<[alias |-> "", cols |-> merged, key |-> {}]>> \o both.sources,
          rows    |-> {<<value(z)>> \o z[1] \o z[2] : z \in pairs},
          out     |-> [i \in DOMAIN names |-> [name |-> names[i], at |-> <<1, i>>]]
                      \o Shift(Keeping(both.out, {i \in DOMAIN both.out :
                                                    both.out[i].name \notin ToSet(names)}), 1)]
  BY DEF merge_using_columns, MergedColumns, MergedValues
<1>5. Rest(both, ToSet(names)).out =
         Keeping(both.out, {i \in DOMAIN both.out : both.out[i].name \notin ToSet(names)})
  BY DEF Rest
<1>6. MergedSource(kind, l, r, names) = [alias |-> "", cols |-> merged, key |-> {}]
  BY DEF MergedSource
<1> HIDE DEF pairs, matched, both, merged, value
<1>7. \A z \in pairs : IsPair(kind, l, r, matched, z)
  BY <1>2, <1>3, PairRows
<1>8. QED
  BY <1>1, <1>4, <1>5, <1>6, <1>7 DEF both, value, IsMerge

\* A name merged away has no other column on its side.
LEMMA MergedAlone ==
    ASSUME NEW it, ItemOk(it), NEW H, StarOk(it, H), \A k \in H : k[1] # "",
           NEW n, ShownOnce(it, n), it.sources[Shown(it, n)[1]].alias # ""
    PROVE  \A p \in Positions(it.sources) : Col(it.sources, p).name = n => p = Shown(it, n)
<1>1. \A i \in DOMAIN it.out : it.out[i].name = n => it.out[i].at = Shown(it, n)
  BY ShownFound
<1>2. \A q \in Positions(it.sources) :
         Col(it.sources, q).name = n /\ Key(it.sources, q) \notin H => q = Shown(it, n)
  <2>1. ASSUME NEW q \in Positions(it.sources), Col(it.sources, q).name = n, Key(it.sources, q) \notin H
        PROVE  q = Shown(it, n)
    <3>1. PICK i \in DOMAIN it.out : it.out[i].at = q
      BY <2>1 DEF StarOk, StarShown
    <3>2. it.out[i].name = n
      BY <2>1, <3>1 DEF ItemOk, OutNamed
    <3>3. QED
      BY <1>1, <3>1, <3>2
  <2>2. QED
    BY <2>1
<1>3. ASSUME NEW p \in Positions(it.sources), Col(it.sources, p).name = n, Key(it.sources, p) \in H
      PROVE  FALSE
  <2>1. PICK q \in Positions(it.sources) :
            it.sources[q[1]].alias = "" /\ Col(it.sources, q).name = Col(it.sources, p).name
    BY <1>3 DEF StarOk
  <2>2. Key(it.sources, q)[1] = ""
    BY <2>1 DEF Key
  <2>3. q = Shown(it, n)
    BY <1>2, <1>3, <2>1, <2>2
  <2>4. QED
    BY <2>1, <2>3
<1>4. QED
  BY <1>2, <1>3

LEMMA MergedAwayNames ==
    ASSUME NEW l, NEW r, ItemOk(l), ItemOk(r), NEW H, StarOk(l, H), StarOk(r, H),
           NEW names, BothShow(l, r, names),
           \A k \in H \cup MergedAway(l, r, names) : k[1] # "",
           NEW it \in {l, r}, NEW p \in Positions(it.sources)
    PROVE  Key(it.sources, p) \in MergedAway(l, r, names) <=> Col(it.sources, p).name \in ToSet(names)
<1> DEFINE N == ToSet(names)
           J == MergedAway(l, r, names)
<1>1. \A n \in N : \A x \in {l, r} : /\ find_col(x.sources, n) = {Shown(x, n)} /\ ShownOnce(x, n)
                                     /\ Col(x.sources, Shown(x, n)).name = n
  <2>1. ASSUME NEW n \in N, NEW x \in {l, r}
        PROVE  /\ find_col(x.sources, n) = {Shown(x, n)} /\ ShownOnce(x, n)
               /\ Col(x.sources, Shown(x, n)).name = n
    <3>1. ShownOnce(x, n) /\ ItemOk(x)
      BY DEF ToSet, BothShow
    <3>2. QED
      BY <3>1, ShownFound
  <2>2. QED
    BY <2>1
<1> DEFINE of(x) == UNION {{Key(x.sources, q) : q \in find_col(x.sources, n)} : n \in N}
<1>2. J = of(l) \cup of(r)
  BY DEF MergedAway
<1> HIDE DEF N, J
<1>3. ASSUME NEW x \in {l, r}, NEW n \in N PROVE Key(x.sources, Shown(x, n)) \in J
  <2>1. Key(x.sources, Shown(x, n)) \in of(x)
    <3>1. Shown(x, n) \in find_col(x.sources, n)
      BY <1>1
    <3>2. Key(x.sources, Shown(x, n)) \in {Key(x.sources, q) : q \in find_col(x.sources, n)}
      BY <3>1
    <3>3. QED
      BY <3>2
  <2> HIDE DEF of
  <2>2. QED
    BY <1>2, <2>1
<1>4. ASSUME NEW k \in J PROVE \E n \in N, x \in {l, r} : k = Key(x.sources, Shown(x, n))
  <2>1. PICK x \in {l, r} : k \in of(x)
    <3> HIDE DEF of
    <3>1. QED
      BY <1>2
  <2>2. PICK n \in N : k \in {Key(x.sources, q) : q \in find_col(x.sources, n)}
    BY <2>1
  <2>3. k = Key(x.sources, Shown(x, n))
    <3>1. find_col(x.sources, n) = {Shown(x, n)}
      BY <1>1
    <3>2. \A q \in find_col(x.sources, n) : q = Shown(x, n)
      BY <3>1
    <3>3. QED
      BY <2>2, <3>2
  <2>4. QED
    BY <2>3
<1> HIDE DEF of
<1>5. ASSUME Col(it.sources, p).name \in N PROVE Key(it.sources, p) \in J
  <2> DEFINE n == Col(it.sources, p).name
  <2>1. Key(it.sources, Shown(it, n)) \in J
    BY <1>3, <1>5
  <2>2. it.sources[Shown(it, n)[1]].alias # ""
    <3>1. Key(it.sources, Shown(it, n))[1] # ""
      BY <2>1 DEF J
    <3>2. QED
      BY <3>1 DEF Key
  <2>3. ItemOk(it) /\ StarOk(it, H) /\ ShownOnce(it, n) /\ \A k \in H : k[1] # ""
    BY <1>1, <1>5
  <2>4. p = Shown(it, n)
    BY <2>2, <2>3, MergedAlone
  <2>5. QED
    BY <2>1, <2>4
<1>6. ASSUME Key(it.sources, p) \in J PROVE Col(it.sources, p).name \in N
  <2>1. PICK n \in N, x \in {l, r} : Key(it.sources, p) = Key(x.sources, Shown(x, n))
    BY <1>4, <1>6
  <2>2. Key(it.sources, p)[2] = Key(x.sources, Shown(x, n))[2]
    BY <2>1
  <2>3. Col(it.sources, p).name = Col(x.sources, Shown(x, n)).name
    BY <2>2 DEF Key
  <2>4. QED
    BY <1>1, <2>1, <2>3
<1>7. QED
  BY <1>5, <1>6 DEF N, J

LEMMA UsingOk ==
    ASSUME NEW kind \in Kinds, NEW l, NEW r, ItemOk(l), ItemOk(r), Apart(l, r),
           NEW names \in Seq(Text), BothShow(l, r, names)
    PROVE  LET new == merge_using_columns(kind, l, r, names)
               J   == MergedAway(l, r, names)
           IN  /\ ItemOk(new)
               /\ collect_aliases(new) = {""} \cup (collect_aliases(l) \cup collect_aliases(r))
               /\ /\ NullsOk(l, marked) /\ NullsOk(r, marked)
                  /\ "using_padded" \notin MergeGaps(kind, l, r, names)
                  => NullsOk(new, mark_all_nullable(kind, l, r))
               /\ \A H : /\ StarOk(l, H) /\ StarOk(r, H) /\ (\A k \in H \cup J : k[1] # "")
                         /\ \A i, j \in DOMAIN names : names[i] = names[j] => i = j
                         => StarOk(new, H \cup J)
<1> DEFINE new == merge_using_columns(kind, l, r, names)
           M   == mark_all_nullable(kind, l, r)
           J   == MergedAway(l, r, names)
           N   == ToSet(names)
           L   == Side(l, PadsLeft(kind))
           R   == Side(r, PadsRight(kind))
           src == MergedSource(kind, l, r, names)
           value(z) == MergedValues(kind, l, r, names, z)
           both == Cross(l, r)
           c   == Cross(L, R)
<1>1. PICK pairs :
         /\ \A z \in pairs : IsPair(kind, l, r, Matched(l, r, names), z)
         /\ IsMerge(new, pairs, kind, l, r, names)
  BY UsingShape
<1>1a. new = [sources |-> <<src>> \o both.sources,
              rows    |-> {<<value(z)>> \o z[1] \o z[2] : z \in pairs},
              out     |-> [i \in DOMAIN names |-> [name |-> names[i], at |-> <<1, i>>]]
                          \o Shift(Rest(both, N).out, 1)]
  <2> HIDE DEF new
  <2>1. QED
    BY <1>1 DEF IsMerge
<1> DEFINE vals == {value(z) : z \in pairs}
           mi   == Leaf(src, vals)
           rows == {<<value(z)>> \o z[1] \o z[2] : z \in pairs}
           top  == [i \in DOMAIN names |-> [name |-> names[i], at |-> <<1, i>>]]
           big  == Cross(mi, Rest(c, N))
<1>2. PadsLeft(kind) \in BOOLEAN /\ PadsRight(kind) \in BOOLEAN
  BY DEF PadsLeft, PadsRight
<1>3. /\ ItemOk(L) /\ collect_aliases(L) = collect_aliases(l)
      /\ L.sources = l.sources /\ L.out = l.out
      /\ \A K : NullsOk(l, K) /\ (PadsLeft(kind) => collect_aliases(l) \subseteq K) => NullsOk(L, K)
      /\ \A H : StarOk(l, H) => StarOk(L, H)
  BY <1>2, SideOk
<1>4. /\ ItemOk(R) /\ collect_aliases(R) = collect_aliases(r)
      /\ R.sources = r.sources /\ R.out = r.out
      /\ \A K : NullsOk(r, K) /\ (PadsRight(kind) => collect_aliases(r) \subseteq K) => NullsOk(R, K)
      /\ \A H : StarOk(r, H) => StarOk(R, H)
  BY <1>2, SideOk
<1>5. \A z \in pairs : z[1] \in L.rows /\ z[2] \in R.rows
  <2>1. Matched(l, r, names) \subseteq l.rows \X r.rows
    BY DEF Matched
  <2>2. QED
    BY <1>1, <2>1, PairSides
<1> HIDE DEF new, L, R
<1>6. both.sources = c.sources /\ both.out = c.out
  BY <1>3, <1>4 DEF Cross
<1>7. Apart(L, R)
  BY <1>3, <1>4 DEF Apart
<1>8. /\ ItemOk(c) /\ collect_aliases(c) = collect_aliases(l) \cup collect_aliases(r)
      /\ \A x \in L.rows, y \in R.rows : x \o y \in c.rows
  <2>1. L \in Item /\ R \in Item /\ Fits(L) /\ Fits(R)
    BY <1>3, <1>4 DEF ItemOk
  <2>2. collect_aliases(c) = collect_aliases(L) \cup collect_aliases(R)
    BY <2>1, CrossTyped
  <2>3. ItemOk(c)
    BY <1>3, <1>4, <1>7, CrossOk
  <2>4. \A x \in L.rows, y \in R.rows : x \o y \in c.rows
    BY CrossRows
  <2>5. QED
    BY <1>3, <1>4, <2>2, <2>3, <2>4
<1>9. /\ src \in Source /\ src.alias = "" /\ src.key = {}
      /\ DOMAIN src.cols = DOMAIN names
      /\ \A i \in DOMAIN names :
            /\ src.cols[i].name = names[i]
            /\ src.cols[i].notnull =
                 merged_not_null(kind, Col(l.sources, Shown(l, names[i])).notnull,
                                       Col(r.sources, Shown(r, names[i])).notnull)
  <2>1. IsMergedSource(src, kind, l, r, names)
    BY MergedTyped
  <2> HIDE DEF src
  <2>2. QED
    BY <2>1 DEF IsMergedSource
<1>10. \A z \in pairs : value(z) \in Values /\ DOMAIN value(z) = DOMAIN names
  <2>1. ASSUME NEW z \in pairs PROVE value(z) \in Values /\ DOMAIN value(z) = DOMAIN names
    BY <1>3, <1>4, <1>5, MergedValuesTyped
  <2>2. QED
    BY <2>1
<1> HIDE DEF src, value, both, c
<1>11. vals \subseteq Values /\ \A v \in vals : DOMAIN v = DOMAIN src.cols
  BY <1>9, <1>10
<1> HIDE DEF vals
<1>12. /\ ItemOk(mi) /\ collect_aliases(mi) = {""}
       /\ \A K : (\A v \in vals : \A i \in DOMAIN src.cols :
                     src.cols[i].notnull /\ src.alias \notin K => v[i] # Null) => NullsOk(mi, K)
       /\ \A H : NamesApart(src) /\ (\A k \in H : k[1] # "") => StarOk(mi, H)
  <2>1. /\ ItemOk(mi) /\ collect_aliases(mi) = {src.alias}
        /\ \A K : (\A v \in vals : \A i \in DOMAIN src.cols :
                      src.cols[i].notnull /\ src.alias \notin K => v[i] # Null) => NullsOk(mi, K)
        /\ \A H : NamesApart(src) /\ (\A k \in H : k[1] # src.alias) => StarOk(mi, H)
    BY <1>9, <1>11, LeafOk
  <2> HIDE DEF mi
  <2>2. QED
    BY <1>9, <2>1
<1>13. /\ mi.sources = <<src>> /\ mi.rows = {<<v>> : v \in vals}
       /\ mi.out = [i \in DOMAIN src.cols |-> [name |-> src.cols[i].name, at |-> <<1, i>>]]
  BY DEF Leaf
<1>14. mi.out = top
  BY <1>9, <1>13
<1>15. DOMAIN mi.sources = {1} /\ mi.sources[1] = src /\ Len(mi.sources) = 1
  BY <1>13
<1> HIDE DEF mi
<1>16. \A n \in N : \E p \in Positions(mi.sources) :
           mi.sources[p[1]].alias = "" /\ Col(mi.sources, p).name = n
  <2>1. ASSUME NEW n \in N
        PROVE \E p \in Positions(mi.sources) :
                  mi.sources[p[1]].alias = "" /\ Col(mi.sources, p).name = n
    <3>1. PICK i \in DOMAIN names : n = names[i]
      BY DEF ToSet
    <3>2. mi.sources \in Seq(Source)
      BY <1>12 DEF ItemOk, Item
    <3>3. <<1, i>> \in Positions(mi.sources)
      BY <1>9, <1>15, <3>2, PositionsTyped
    <3>4. Col(mi.sources, <<1, i>>).name = n /\ mi.sources[<<1, i>>[1]].alias = ""
      BY <1>9, <1>15, <3>1 DEF Col
    <3>5. QED
      BY <3>3, <3>4
  <2>2. QED
    BY <2>1
<1>17. Apart(mi, c)
  BY <1>12 DEF Apart
<1> HIDE DEF N
<1>18. /\ ItemOk(big) /\ collect_aliases(big) = collect_aliases(mi) \cup collect_aliases(c)
       /\ \A K : NullsOk(mi, K) /\ NullsOk(c, K) => NullsOk(big, K)
  <2>1. \A n \in N : \E p \in Positions(mi.sources) : Col(mi.sources, p).name = n
    BY <1>16
  <2>2. QED
    BY <1>8, <1>12, <1>17, <2>1, MergingOk
<1>19. /\ big.sources = <<src>> \o both.sources
       /\ big.out = top \o Shift(Rest(both, N).out, 1)
       /\ \A x \in mi.rows, y \in c.rows : x \o y \in big.rows
  <2> DEFINE rest == Rest(c, N)
  <2>1. rest.sources = c.sources /\ rest.rows = c.rows
    BY DEF Rest
  <2>2. rest.out = Rest(both, N).out
    BY <1>6 DEF Rest
  <2> HIDE DEF rest
  <2>3. big.sources = mi.sources \o rest.sources
    BY DEF Cross, rest
  <2>4. big.out = mi.out \o Shift(rest.out, Len(mi.sources))
    BY DEF Cross, rest
  <2>5. \A x \in mi.rows, y \in rest.rows : x \o y \in big.rows
    BY CrossRows DEF rest
  <2> HIDE DEF big, top
  <2>6. big.sources = <<src>> \o both.sources
    BY <1>6, <1>13, <2>1, <2>3
  <2>7. big.out = top \o Shift(Rest(both, N).out, 1)
    BY <1>14, <1>15, <2>2, <2>4
  <2>8. QED
    BY <2>1, <2>5, <2>6, <2>7
<1> HIDE DEF big, top, rows
<1>20. rows \subseteq big.rows
  <2>1. ASSUME NEW z \in pairs PROVE <<value(z)>> \o z[1] \o z[2] \in big.rows
    <3>1. z[1] \in Seq(Values) /\ z[2] \in Seq(Values)
      BY <1>3, <1>4, <1>5 DEF ItemOk, Item
    <3>2. value(z) \in vals
      BY DEF vals
    <3>3. <<value(z)>> \in mi.rows
      BY <1>13, <3>2
    <3>4. <<value(z)>> \in Seq(Values)
      BY <1>10, Single
    <3>5. (<<value(z)>> \o z[1]) \o z[2] = <<value(z)>> \o (z[1] \o z[2])
      <4>1. \A x, y, w \in Seq(Values) : (x \o y) \o w = x \o (y \o w)
        BY ConcatAssociative
      <4>2. QED
        BY <3>1, <3>4, <4>1
    <3>6. z[1] \o z[2] \in c.rows
      BY <1>5, <1>8
    <3>7. QED
      BY <1>19, <3>3, <3>5, <3>6
  <2>2. QED
    BY <2>1 DEF rows
<1> DEFINE less == [sources |-> big.sources, rows |-> rows, out |-> big.out]
<1>21. new = less
  BY <1>1a, <1>19 DEF rows, top
<1>22. /\ ItemOk(less)
       /\ \A K : NullsOk(big, K) => NullsOk(less, K)
       /\ \A H : StarOk(big, H) => StarOk(less, H)
  BY <1>18, <1>20, FewerRows
<1>23. collect_aliases(new) = {""} \cup (collect_aliases(l) \cup collect_aliases(r))
  <2>1. collect_aliases(less) = collect_aliases(big)
    BY DEF collect_aliases
  <2>2. QED
    BY <1>8, <1>12, <1>18, <1>21, <2>1
<1> HIDE DEF less
<1>24. ASSUME NullsOk(l, marked), NullsOk(r, marked),
              "using_padded" \notin MergeGaps(kind, l, r, names)
       PROVE  NullsOk(new, M)
  <2>1. \A v \in vals : \A i \in DOMAIN src.cols : src.cols[i].notnull => v[i] # Null
    <3>1. ASSUME NEW z \in pairs, NEW i \in DOMAIN names, src.cols[i].notnull
          PROVE  value(z)[i] # Null
      <4>1. merged_not_null(kind, Col(l.sources, Shown(l, names[i])).notnull,
                                  Col(r.sources, Shown(r, names[i])).notnull)
        BY <1>9, <3>1
      <4>2. IsPair(kind, l, r, Matched(l, r, names), z)
        BY <1>1
      <4>3. MergedValue(kind, At(z[1], Shown(l, names[i])), At(z[2], Shown(r, names[i]))) # Null
        BY <1>24, <4>1, <4>2, MergedNotNull
      <4>4. QED
        BY <4>3 DEF value, MergedValues
    <3>2. QED
      BY <1>9, <3>1 DEF vals
  <2>2. NullsOk(mi, M)
    BY <1>12, <2>1
  <2>3. NullsOk(l, M) /\ NullsOk(r, M)
    BY <1>24, MarksPadded, MoreMarked
  <2>4. NullsOk(L, M) /\ NullsOk(R, M)
    BY <1>3, <1>4, <2>3, MarksPadded
  <2>5. NullsOk(c, M)
    BY <1>3, <1>4, <2>4, CrossNulls DEF c
  <2>6. QED
    BY <1>18, <1>21, <1>22, <2>2, <2>5
<1>25. ASSUME NEW H, StarOk(l, H), StarOk(r, H), \A k \in H \cup J : k[1] # "",
              \A i, j \in DOMAIN names : names[i] = names[j] => i = j
       PROVE  StarOk(new, H \cup J)
  <2>1. StarOk(L, H) /\ StarOk(R, H)
    BY <1>3, <1>4, <1>25
  <2>2. StarOk(c, H)
    BY <1>3, <1>4, <2>1, CrossStars DEF c
  <2>3. NamesApart(src)
    BY <1>9, <1>25 DEF NamesApart
  <2>4. StarOk(mi, H \cup J)
    BY <1>12, <1>25, <2>3
  <2>5. \A p \in Positions(mi.sources) : Key(mi.sources, p) \notin H \cup J
    <3>1. \A p \in Positions(mi.sources) : p[1] = 1
      BY <1>15 DEF Positions
    <3>2. \A p \in Positions(mi.sources) : Key(mi.sources, p)[1] = ""
      BY <1>9, <1>15, <3>1 DEF Key
    <3>3. QED
      BY <1>25, <3>2
  <2>6. \A p \in Positions(c.sources) : Key(c.sources, p) \in J <=> Col(c.sources, p).name \in N
    <3> DEFINE m == Len(l.sources)
               s == both.sources
    <3>1. /\ \A p \in Positions(l.sources) : Key(l.sources, p) \in J <=> Col(l.sources, p).name \in N
          /\ \A p \in Positions(r.sources) : Key(r.sources, p) \in J <=> Col(r.sources, p).name \in N
      <4>1. \A it \in {l, r} : \A p \in Positions(it.sources) :
                Key(it.sources, p) \in J <=> Col(it.sources, p).name \in N
        BY <1>25, MergedAwayNames DEF N
      <4>2. QED
        BY <4>1
    <3>2. l \in Item /\ r \in Item
      BY DEF ItemOk
    <3>3. StandBehind(s, l.sources, r.sources, m)
      BY <3>2, CrossStands DEF both
    <3> HIDE DEF s, m, J
    <3>4. /\ \A p \in Positions(l.sources) : Col(s, p) = Col(l.sources, p) /\ Key(s, p) = Key(l.sources, p)
          /\ \A p \in Positions(r.sources) : /\ Col(s, Later(p, m)) = Col(r.sources, p)
                                             /\ Key(s, Later(p, m)) = Key(r.sources, p)
          /\ \A p \in Positions(s) :
                p \in Positions(l.sources) \/ \E q \in Positions(r.sources) : p = Later(q, m)
      BY <3>3 DEF StandBehind
    <3>5. ASSUME NEW p \in Positions(s) PROVE Key(s, p) \in J <=> Col(s, p).name \in N
      <4>1. CASE p \in Positions(l.sources)
        BY <3>1, <3>4, <4>1
      <4>2. ASSUME NEW q \in Positions(r.sources), p = Later(q, m)
            PROVE  Key(s, p) \in J <=> Col(s, p).name \in N
        BY <3>1, <3>4, <4>2
      <4>3. QED
        BY <3>4, <4>1, <4>2
    <3>6. QED
      BY <1>6, <3>5 DEF s
  <2> HIDE DEF J
  <2>7. StarOk(Cross(mi, Rest(c, N)), H \cup J)
    BY <1>8, <1>12, <1>16, <2>2, <2>4, <2>5, <2>6, MergingStars
  <2>8. StarOk(big, H \cup J)
    BY <2>7 DEF big
  <2>9. QED
    BY <1>21, <1>22, <2>8
<1>26. QED
  BY <1>21, <1>22, <1>23, <1>24, <1>25 DEF new

\* What NATURAL merges are names, and outside a chain they differ.
LEMMA NaturalNames ==
    ASSUME NEW l, NEW r, ItemOk(l), ItemOk(r)
    PROVE  LET names == natural_names(l, r)
           IN  /\ names \in Seq(Text)
               /\ \A H : /\ StarOk(l, H) /\ StarOk(r, H) /\ BothShow(l, r, names)
                         /\ \A k \in H \cup MergedAway(l, r, names) : k[1] # ""
                         => \A i, j \in DOMAIN names : names[i] = names[j] => i = j
<1> DEFINE names == natural_names(l, r)
           all == Ordered(l.sources)
           s == [i \in DOMAIN all |-> Col(l.sources, all[i]).name]
           places == {i \in DOMAIN all : find_col(r.sources, Col(l.sources, all[i]).name) # {}}
           N == ToSet(names)
<1>1. l.sources \in Seq(Source)
  BY DEF ItemOk, Item
<1>2. /\ all \in Seq(Places) /\ Members(all) = Positions(l.sources)
      /\ Increasing(all, PlaceOrder)
  BY <1>1, OrderedSorted
<1>3. names = Keeping(s, places)
  BY DEF natural_names
<1> HIDE DEF all, places
<1>4. Len(all) \in Nat /\ DOMAIN all = 1..Len(all) /\ \A i \in DOMAIN all : all[i] \in Positions(l.sources)
  BY <1>2 DEF Members
<1>5. s \in Seq(Text) /\ DOMAIN s = DOMAIN all /\ \A i \in DOMAIN all : s[i] = Col(l.sources, all[i]).name
  <2> DEFINE n == Len(all)
             name(i) == Col(l.sources, all[i]).name
  <2>1. \A i \in 1..n : name(i) \in Text
    BY <1>1, <1>4, PositionsTyped
  <2>2. s = [i \in 1..n |-> name(i)] /\ n \in Nat
    BY <1>4
  <2> HIDE DEF n, name
  <2>3. [i \in 1..n |-> name(i)] \in Seq(Text)
    BY <2>1, <2>2, IsASeq
  <2>4. QED
    BY <1>4, <2>2, <2>3 DEF n, name
<1> HIDE DEF s, names
<1>6. \A order : Increasing(s, order) =>
         Keeping(s, places) \in Seq(Text) /\ Increasing(Keeping(s, places), order)
  BY <1>5, KeepingSorted
<1>7. names \in Seq(Text)
  <2>1. Increasing(s, Text \X Text)
    BY <1>5 DEF Increasing
  <2>2. QED
    BY <1>3, <1>6, <2>1
<1>8. ASSUME NEW H, StarOk(l, H), StarOk(r, H), BothShow(l, r, names),
             \A k \in H \cup MergedAway(l, r, names) : k[1] # "",
             NEW i \in DOMAIN names, NEW j \in DOMAIN names, names[i] = names[j]
      PROVE  i = j
  <2> DEFINE order == {z \in Text \X Text : ~(z[1] = z[2] /\ z[1] \in N)}
  <2>1. \A n \in N : /\ ShownOnce(l, n) /\ find_col(l.sources, n) = {Shown(l, n)}
                     /\ l.sources[Shown(l, n)[1]].alias # ""
    <3>1. ASSUME NEW n \in N
          PROVE  /\ ShownOnce(l, n) /\ find_col(l.sources, n) = {Shown(l, n)}
                 /\ l.sources[Shown(l, n)[1]].alias # ""
      <4>1. ShownOnce(l, n)
        BY <1>8 DEF ToSet, BothShow
      <4>2. /\ Shown(l, n) \in Positions(l.sources) /\ Col(l.sources, Shown(l, n)).name = n
            /\ find_col(l.sources, n) = {Shown(l, n)}
        BY <4>1, ShownFound
      <4>3. Key(l.sources, Shown(l, n)) \in MergedAway(l, r, names)
        <5>1. l \in {l, r} /\ Shown(l, n) \in Positions(l.sources)
          BY <4>2
        <5>2. Key(l.sources, Shown(l, n)) \in MergedAway(l, r, names)
              <=> Col(l.sources, Shown(l, n)).name \in ToSet(names)
          BY <1>8, <5>1, MergedAwayNames
        <5>3. QED
          BY <4>2, <5>2
      <4>4. Key(l.sources, Shown(l, n))[1] # ""
        BY <1>8, <4>3
      <4>5. QED
        BY <4>1, <4>2, <4>4 DEF Key
    <3>2. QED
      BY <3>1
  <2>2. \A n \in N : \A p \in Positions(l.sources) : Col(l.sources, p).name = n => p = Shown(l, n)
    <3>1. ASSUME NEW n \in N
          PROVE  \A p \in Positions(l.sources) : Col(l.sources, p).name = n => p = Shown(l, n)
      <4>1. \A k \in H : k[1] # ""
        BY <1>8
      <4>2. QED
        BY <1>8, <2>1, <4>1, MergedAlone
    <3>2. QED
      BY <3>1
  <2>3. \A a, b \in DOMAIN all : a < b => all[a] # all[b]
    <3>1. \A a, b \in DOMAIN all : a < b => Before(all[a], all[b])
      BY <1>2 DEF Increasing, PlaceOrder
    <3>2. \A a \in DOMAIN all : all[a] \in Places /\ ~Before(all[a], all[a])
      BY <1>2, PlaceOrderStrict
    <3>3. QED
      BY <3>1, <3>2
  <2>4. Increasing(s, order)
    <3>1. ASSUME NEW a \in DOMAIN s, NEW b \in DOMAIN s, a < b PROVE <<s[a], s[b]>> \in order
      <4>1. s[a] \in Text /\ s[b] \in Text
        BY <1>5
      <4>2. ASSUME s[a] = s[b], s[a] \in N PROVE FALSE
        <5>1. all[a] = Shown(l, s[a]) /\ all[b] = Shown(l, s[a])
          BY <1>4, <1>5, <2>2, <4>2
        <5>2. QED
          BY <1>5, <2>3, <3>1, <5>1
      <4>3. QED
        BY <4>1, <4>2
    <3>2. QED
      BY <3>1 DEF Increasing
  <2>5. Increasing(names, order)
    BY <1>3, <1>6, <2>4
  <2>6. \A a, b \in DOMAIN names : a < b => names[a] # names[b]
    <3>1. \A a, b \in DOMAIN names : a < b => <<names[a], names[b]>> \in order
      BY <2>5 DEF Increasing
    <3>2. \A a \in DOMAIN names : names[a] \in N
      BY DEF ToSet
    <3>3. QED
      BY <3>1, <3>2
  <2>7. i \in Nat /\ j \in Nat
    BY <1>7
  <2>8. i < j \/ i = j \/ j < i
    BY <2>7
  <2>9. names[i] = names[j]
    BY <1>8
  <2>10. QED
    BY <2>6, <2>8, <2>9
<1>9. QED
  BY <1>7, <1>8 DEF names

\* The other lists of names a JOIN USING is tried with.
LEMMA ListedNames ==
    ASSUME NEW names \in {<<"x">>, <<"x", "y">>}
    PROVE  names \in Seq(Text) /\ \A i, j \in DOMAIN names : names[i] = names[j] => i = j
<1>1. "x" \in Text /\ "y" \in Text
  BY DEF Text
<1>2. CASE names = <<"x">>
  BY <1>1, <1>2
<1>3. CASE names = <<"x", "y">>
  BY <1>1, <1>3
<1>4. QED
  BY <1>2, <1>3
=============================================================================
