--------------------------- MODULE SequenceLemmas ---------------------------
(***************************************************************************)
(* Facts about sequences that the proofs share.  The induction they need   *)
(* is that of the natural numbers: a set of numbers that is not empty has  *)
(* a least one.                                                            *)
(***************************************************************************)
EXTENDS Integers, Lists, FiniteSetTheorems, WellFoundedInduction, TLAPS

LEMMA LeastNumber ==
  ASSUME NEW T \in SUBSET Nat, T # {}
  PROVE  \E n \in T : \A m \in T : n <= m
<1> DEFINE R == {p \in Nat \X Nat : p[1] < p[2]}
<1>1. OpToRel(<, Nat) = R
    BY DEF OpToRel
<1>2. IsWellFoundedOn(R, Nat)
    BY <1>1, NatLessThanWellFounded, Zenon
<1>3. \A m, n \in Nat : m < n => <<m, n>> \in R
    OBVIOUS
<1> HIDE DEF R
<1>4. PICK n \in T : \A m \in T : ~ (<<m, n>> \in R)
    BY <1>2, WFMin, Zenon
<1>5. ASSUME NEW m \in T PROVE n <= m
  <2>1. ~ (m < n)
      BY <1>3, <1>4
  <2> QED BY <2>1
<1> QED BY <1>5

(* A set of numbers with 0 and the successor of each of its members, up to *)
(* n, has all the numbers up to n.                                         *)
LEMMA UpTo ==
  ASSUME NEW n \in Nat, NEW T, 0 \in T,
         \A k \in 0 .. n - 1 : k \in T => k + 1 \in T
  PROVE  \A k \in 0 .. n : k \in T
<1> DEFINE Out == {k \in 0 .. n : k \notin T}
<1> SUFFICES ASSUME Out # {} PROVE FALSE
    OBVIOUS
<1>1. Out \in SUBSET Nat
    OBVIOUS
<1>2. \A k \in 0 .. n : k \in Out <=> k \notin T
    OBVIOUS
<1>3. \A k \in Out : k \in 0 .. n
    OBVIOUS
<1> HIDE DEF Out
<1>4. PICK k \in Out : \A m \in Out : k <= m
    BY <1>1, LeastNumber
<1>5. k \in 0 .. n /\ k # 0 /\ k \notin T
    BY <1>2, <1>3
<1>6. k - 1 \in 0 .. n - 1 /\ k - 1 \in 0 .. n /\ ~ (k <= k - 1) /\ (k - 1) + 1 = k
    BY <1>5
<1>7. k - 1 \in T
    BY <1>2, <1>4, <1>6
<1> QED BY <1>5, <1>6, <1>7

-----------------------------------------------------------------------------
(***************************************************************************)
(* FlattenSeq puts the sequences one behind the other.                     *)
(***************************************************************************)
Flattens(g, ss) ==
  /\ g[0] = << >>
  /\ \A i \in 1 .. Len(ss) : g[i] = g[i - 1] \o ss[i]

LEMMA FlattenSteps ==
  ASSUME NEW S, NEW ss \in Seq(Seq(S))
  PROVE  \E g \in [0 .. Len(ss) -> Seq(S)] : Flattens(g, ss) /\ FlattenSeq(ss) = g[Len(ss)]
<1> DEFINE n == Len(ss)
           Step(g, i) == IF i = 1 THEN ss[i] ELSE g[i - 1] \o ss[i]
           Partial(k) == {g \in [1 .. k -> Seq(S)] : \A i \in 1 .. k : g[i] = Step(g, i)}
           Reached == {k \in 0 .. n : Partial(k) # {}}
<1>1. n \in Nat /\ \A i \in 1 .. n : ss[i] \in Seq(S)
    OBVIOUS
<1> HIDE DEF n
<1>2. 0 \in Reached
  <2> DEFINE none == [i \in 1 .. 0 |-> << >>]
  <2>1. none \in [1 .. 0 -> Seq(S)] /\ \A i \in 1 .. 0 : none[i] = Step(none, i)
      OBVIOUS
  <2> HIDE DEF none, Step
  <2>2. none \in Partial(0)
      BY <2>1
  <2> HIDE DEF Partial
  <2> QED BY <1>1, <2>2
<1>3. ASSUME NEW k \in 0 .. n - 1, k \in Reached PROVE k + 1 \in Reached
  <2>1. PICK g \in [1 .. k -> Seq(S)] : \A i \in 1 .. k : g[i] = Step(g, i)
      BY <1>3
  <2> DEFINE h == [i \in 1 .. k + 1 |-> IF i <= k THEN g[i] ELSE Step(g, k + 1)]
  <2>2. k \in Nat /\ k + 1 \in 1 .. n /\ k + 1 \in 0 .. n
      BY <1>1, <1>3
  <2>3. Step(g, k + 1) \in Seq(S)
      BY <1>1, <2>1, <2>2
  <2>4. h \in [1 .. k + 1 -> Seq(S)]
      BY <2>1, <2>2, <2>3
  <2>5. ASSUME NEW i \in 1 .. k + 1 PROVE h[i] = Step(h, i)
    <3>1. i = 1 \/ i - 1 \in 1 .. k
        BY <2>2
    <3>2. i - 1 \in 1 .. k => h[i - 1] = g[i - 1]
        BY <2>2
    <3>3. CASE i \in 1 .. k
      <4>1. h[i] = g[i]
        <5> HIDE DEF Step
        <5> QED BY <2>2, <3>3
      <4> HIDE DEF h
      <4>2. Step(h, i) = Step(g, i)
          BY <3>1, <3>2
      <4> HIDE DEF Step
      <4> QED BY <2>1, <3>3, <4>1, <4>2
    <3>4. CASE i = k + 1
        BY <2>2, <3>1, <3>2, <3>4
    <3> QED BY <2>2, <3>3, <3>4
  <2> HIDE DEF h, Step
  <2> QED BY <2>2, <2>4, <2>5
<1>4. n \in Reached
  <2> HIDE DEF Reached
  <2>1. \A k \in 0 .. n : k \in Reached
      BY <1>1, <1>2, <1>3, UpTo
  <2> QED BY <1>1, <2>1
<1> DEFINE flat == CHOOSE g : g = [i \in 1 .. n |-> Step(g, i)]
<1>5. flat = [i \in 1 .. n |-> Step(flat, i)]
  <2>1. PICK g \in [1 .. n -> Seq(S)] : \A i \in 1 .. n : g[i] = Step(g, i)
      BY <1>4
  <2>2. g = [i \in 1 .. n |-> Step(g, i)]
      BY <2>1
  <2> HIDE DEF Step
  <2> QED BY <2>2
<1> DEFINE all == [i \in 0 .. n |-> IF i = 0 THEN << >> ELSE flat[i]]
<1>6. FlattenSeq(ss) = IF n = 0 THEN ss ELSE flat[n]
    BY DEF FlattenSeq, n
<1> HIDE DEF flat
<1>7. ASSUME NEW i \in 1 .. n PROVE all[i - 1] \in Seq(S) => all[i] = all[i - 1] \o ss[i]
  <2>1. flat[i] = Step(flat, i)
      BY <1>5
  <2>2. all[i] = flat[i]
      BY <1>1
  <2>3. CASE i = 1
    <3>1. all[i - 1] = << >> /\ flat[i] = ss[i]
        BY <1>1, <2>1, <2>3
    <3>2. << >> \o ss[i] = ss[i]
        BY <1>1
    <3> HIDE DEF all
    <3> QED BY <2>2, <3>1, <3>2
  <2>4. CASE i # 1
    <3>1. i - 1 \in 1 .. n
        BY <1>1, <2>4
    <3>2. all[i - 1] = flat[i - 1]
        BY <1>1, <3>1
    <3> QED BY <2>1, <2>2, <2>4, <3>2
  <2> QED BY <2>3, <2>4
<1>8. \A i \in 0 .. n : all[i] \in Seq(S)
  <2> DEFINE T == {i \in 0 .. n : all[i] \in Seq(S)}
  <2>1. 0 \in T
      BY <1>1
  <2>2. ASSUME NEW k \in 0 .. n - 1, k \in T PROVE k + 1 \in T
    <3>1. k + 1 \in 1 .. n /\ (k + 1) - 1 = k /\ k + 1 \in 0 .. n
        BY <1>1, <2>2
    <3> HIDE DEF all
    <3>2. all[k] \in Seq(S)
        BY <2>2
    <3>3. all[k + 1] = all[k] \o ss[k + 1]
        BY <1>7, <3>1, <3>2
    <3>4. all[k] \o ss[k + 1] \in Seq(S)
        BY <1>1, <3>1, <3>2
    <3> QED BY <3>1, <3>3, <3>4
  <2> HIDE DEF T
  <2>3. \A k \in 0 .. n : k \in T
      BY <1>1, <2>1, <2>2, UpTo
  <2> QED BY <2>3 DEF T
<1>9. all \in [0 .. n -> Seq(S)] /\ all[0] = << >>
    BY <1>1, <1>8
<1>10. FlattenSeq(ss) = all[n]
  <2>1. CASE n = 0
      BY <1>6, <2>1, <1>1 DEF n
  <2>2. CASE n # 0
      BY <1>1, <1>6, <2>2
  <2> QED BY <2>1, <2>2
<1>11. \A i \in 1 .. n : all[i] = all[i - 1] \o ss[i]
  <2>1. \A i \in 1 .. n : i - 1 \in 0 .. n
      BY <1>1
  <2> HIDE DEF all
  <2> QED BY <1>7, <1>8, <2>1
<1> HIDE DEF all
<1> QED BY <1>9, <1>10, <1>11 DEF Flattens, n

LEMMA FlattenType ==
  ASSUME NEW S, NEW ss \in Seq(Seq(S))
  PROVE  FlattenSeq(ss) \in Seq(S)
<1>1. Len(ss) \in Nat
    OBVIOUS
<1>2. PICK g \in [0 .. Len(ss) -> Seq(S)] : FlattenSeq(ss) = g[Len(ss)]
    BY FlattenSteps
<1> QED BY <1>1, <1>2

(* What is in it is in one of them.                                        *)
LEMMA FlattenElement ==
  ASSUME NEW S, NEW ss \in Seq(Seq(S)), NEW k \in DOMAIN FlattenSeq(ss)
  PROVE  \E i \in DOMAIN ss : \E j \in DOMAIN ss[i] : FlattenSeq(ss)[k] = ss[i][j]
<1> DEFINE E == {x \in S : \E i \in DOMAIN ss : \E j \in DOMAIN ss[i] : x = ss[i][j]}
<1>1. ASSUME NEW i \in DOMAIN ss PROVE ss[i] \in Seq(E)
  <2>1. ss[i] \in Seq(S) /\ Len(ss[i]) \in Nat /\ DOMAIN ss[i] = 1 .. Len(ss[i])
      OBVIOUS
  <2>2. \A j \in 1 .. Len(ss[i]) : ss[i][j] \in E
      BY <2>1
  <2> HIDE DEF E
  <2> QED BY <2>1, <2>2
<1>2. ss \in Seq(Seq(E))
  <2> HIDE DEF E
  <2> QED BY <1>1
<1>3. FlattenSeq(ss) \in Seq(E)
  <2> HIDE DEF E
  <2> QED BY <1>2, FlattenType
<1>4. FlattenSeq(ss)[k] \in E
  <2> HIDE DEF E
  <2> QED BY <1>3
<1> QED BY <1>4
-----------------------------------------------------------------------------
(***************************************************************************)
(* A state that is changed n times, each time in its own way.              *)
(***************************************************************************)
Runs(f, s, step, n) == f[0] = s /\ \A i \in 1 .. n : f[i] = step[i][f[i - 1]]

LEMMA StepByStep ==
  ASSUME NEW n \in Nat, NEW S, NEW s \in S, NEW step,
         \A i \in 1 .. n, x \in S : step[i][x] \in S
  PROVE  \E f \in [0 .. n -> S] : Runs(f, s, step, n)
<1> DEFINE Run(f, k) == f[0] = s /\ \A i \in 1 .. k : f[i] = step[i][f[i - 1]]
           Reached == {k \in 0 .. n : \E f \in [0 .. k -> S] : Run(f, k)}
<1>1. 0 \in Reached
  <2> DEFINE f == [i \in 0 .. 0 |-> s]
  <2>1. f \in [0 .. 0 -> S] /\ Run(f, 0)
      OBVIOUS
  <2> HIDE DEF f, Run
  <2> QED BY <2>1
<1>2. ASSUME NEW k \in 0 .. n - 1, k \in Reached PROVE k + 1 \in Reached
  <2>1. PICK f \in [0 .. k -> S] : Run(f, k)
      BY <1>2
  <2> DEFINE g == [i \in 0 .. k + 1 |-> IF i <= k THEN f[i] ELSE step[k + 1][f[k]]]
  <2>2. k \in Nat /\ k \in 0 .. k /\ k + 1 \in 1 .. n /\ k + 1 \in 0 .. n
      OBVIOUS
  <2>3. f[k] \in S
      BY <2>2
  <2>4. step[k + 1][f[k]] \in S
      BY <2>2, <2>3
  <2>5. g \in [0 .. k + 1 -> S]
      BY <2>2, <2>4
  <2>6. \A i \in 0 .. k : g[i] = f[i]
      BY <2>2
  <2>7. g[k + 1] = step[k + 1][f[k]]
      BY <2>2
  <2> HIDE DEF g
  <2>8. ASSUME NEW i \in 1 .. k + 1 PROVE g[i] = step[i][g[i - 1]]
    <3>1. i - 1 \in 0 .. k /\ (i \in 1 .. k \/ i = k + 1) /\ (k + 1) - 1 = k
        BY <2>2
    <3>2. g[i - 1] = f[i - 1]
        BY <2>6, <3>1
    <3>3. CASE i \in 1 .. k
      <4>1. i \in 0 .. k
          BY <2>2, <3>3
      <4> QED BY <2>1, <2>6, <3>2, <3>3, <4>1
    <3>4. CASE i = k + 1
        BY <2>7, <3>1, <3>2, <3>4
    <3> QED BY <3>1, <3>3, <3>4
  <2>9. g[0] = s
    <3>1. 0 \in 0 .. k
        BY <2>2
    <3> QED BY <2>1, <2>6, <3>1
  <2>10. Run(g, k + 1)
      BY <2>8, <2>9
  <2> HIDE DEF Run
  <2> QED BY <2>2, <2>5, <2>10
<1> HIDE DEF Reached
<1>3. \A k \in 0 .. n : k \in Reached
    BY <1>1, <1>2, UpTo
<1>4. n \in Reached
    BY <1>3
<1> QED BY <1>4 DEF Reached, Runs

(* What concatenation keeps of two sequences, FlattenSeq keeps of many.    *)
LEMMA FlattenKeeps ==
  ASSUME NEW S, NEW C \in SUBSET Seq(S), << >> \in C, \A s, t \in C : s \o t \in C,
         NEW ss \in Seq(C)
  PROVE  FlattenSeq(ss) \in C
<1>1. ss \in Seq(Seq(S)) /\ Len(ss) \in Nat /\ \A i \in 1 .. Len(ss) : ss[i] \in C
    OBVIOUS
<1> DEFINE n == Len(ss)
<1>2. PICK g \in [0 .. n -> Seq(S)] : Flattens(g, ss) /\ FlattenSeq(ss) = g[n]
    BY <1>1, FlattenSteps
<1> DEFINE T == {k \in 0 .. n : g[k] \in C}
<1>3. 0 \in T
    BY <1>1, <1>2 DEF Flattens
<1>4. ASSUME NEW k \in 0 .. n - 1, k \in T PROVE k + 1 \in T
  <2>1. k + 1 \in 1 .. n /\ k + 1 \in 0 .. n /\ (k + 1) - 1 = k
      BY <1>1
  <2>2. g[k + 1] = g[k] \o ss[k + 1]
      BY <1>2, <2>1 DEF Flattens
  <2> QED BY <1>1, <1>4, <2>1, <2>2
<1> HIDE DEF T
<1>5. \A k \in 0 .. n : k \in T
    BY <1>1, <1>3, <1>4, UpTo
<1>6. n \in T
    BY <1>1, <1>5
<1> QED BY <1>2, <1>6 DEF T

(* Nothing that is in one of them is lost.                                 *)
LEMMA FlattenContains ==
  ASSUME NEW S, NEW ss \in Seq(Seq(S)), NEW i \in DOMAIN ss, NEW j \in DOMAIN ss[i]
  PROVE  \E k \in DOMAIN FlattenSeq(ss) : FlattenSeq(ss)[k] = ss[i][j]
<1> DEFINE n == Len(ss)
           x == ss[i][j]
           In(s) == \E k \in DOMAIN s : s[k] = x
<1>1. n \in Nat /\ i \in 1 .. n /\ \A k \in 1 .. n : ss[k] \in Seq(S)
    OBVIOUS
<1>2. PICK g \in [0 .. n -> Seq(S)] : Flattens(g, ss) /\ FlattenSeq(ss) = g[n]
    BY FlattenSteps
<1>3. ASSUME NEW s \in Seq(S), NEW t \in Seq(S), In(s) \/ In(t) PROVE In(s \o t)
  <2>1. /\ Len(s) \in Nat /\ Len(t) \in Nat /\ DOMAIN s = 1 .. Len(s) /\ DOMAIN t = 1 .. Len(t)
        /\ DOMAIN (s \o t) = 1 .. Len(s) + Len(t)
      OBVIOUS
  <2>2. CASE In(s)
    <3>1. PICK k \in 1 .. Len(s) : s[k] = x
        BY <2>1, <2>2
    <3>2. k \in 1 .. Len(s) + Len(t) /\ (s \o t)[k] = s[k]
        BY <2>1
    <3> QED BY <2>1, <3>1, <3>2
  <2>3. CASE In(t)
    <3>1. PICK k \in 1 .. Len(t) : t[k] = x
        BY <2>1, <2>3
    <3>2. Len(s) + k \in 1 .. Len(s) + Len(t) /\ (s \o t)[Len(s) + k] = t[k]
        BY <2>1
    <3> QED BY <2>1, <3>1, <3>2
  <2> QED BY <1>3, <2>2, <2>3
<1>4. In(ss[i])
    OBVIOUS
<1> HIDE DEF In, x
<1> DEFINE T == {k \in 0 .. n : k >= i => In(g[k])}
<1>5. 0 \in T
    BY <1>1
<1>6. ASSUME NEW k \in 0 .. n - 1, k \in T PROVE k + 1 \in T
  <2>1. /\ k + 1 \in 1 .. n /\ k + 1 \in 0 .. n /\ (k + 1) - 1 = k /\ k \in 0 .. n
        /\ k + 1 >= i => k >= i \/ k + 1 = i
      BY <1>1
  <2>2. g[k + 1] = g[k] \o ss[k + 1]
      BY <1>2, <2>1 DEF Flattens
  <2>3. g[k] \in Seq(S) /\ ss[k + 1] \in Seq(S)
      BY <1>1, <1>2, <2>1
  <2>4. k >= i => In(g[k])
      BY <1>6
  <2> HIDE DEF n
  <2> QED BY <1>3, <1>4, <2>1, <2>2, <2>3, <2>4
<1> HIDE DEF T
<1>7. \A k \in 0 .. n : k \in T
    BY <1>1, <1>5, <1>6, UpTo
<1>8. n \in T /\ n >= i
    BY <1>1, <1>7
<1>9. In(FlattenSeq(ss))
    BY <1>2, <1>8 DEF T
<1> QED BY <1>9 DEF In, x
-----------------------------------------------------------------------------
(***************************************************************************)
(* Where the last message of a kind decides: no element of s is in K, and  *)
(* the last one that is in K is in T.                                      *)
(***************************************************************************)
None(s, K) == \A i \in 1 .. Len(s) : s[i] \notin K

EndsIn(s, K, T) ==
  \A i \in 1 .. Len(s) : s[i] \in K => s[i] \in T \/ \E j \in i + 1 .. Len(s) : s[j] \in K

LEMMA NothingEnds ==
  ASSUME NEW K, NEW T, NEW s, s = << >>
  PROVE  None(s, K) /\ EndsIn(s, K, T)
BY DEF None, EndsIn

LEMMA OneEnds ==
  ASSUME NEW K, NEW T, NEW x
  PROVE  /\ None(<<x>>, K) <=> x \notin K
         /\ EndsIn(<<x>>, K, T) <=> x \notin K \/ x \in T
<1>1. Len(<<x>>) = 1 /\ <<x>>[1] = x /\ \A i \in 1 .. 1 : i = 1
    OBVIOUS
<1>2. \A j \in 1 + 1 .. 1 : FALSE
    OBVIOUS
<1> QED BY <1>1, <1>2 DEF None, EndsIn

LEMMA BehindAnother ==
  ASSUME NEW S, NEW s \in Seq(S), NEW t \in Seq(S)
  PROVE  /\ Len(s) \in Nat /\ Len(t) \in Nat /\ Len(s \o t) = Len(s) + Len(t)
         /\ \A i \in 1 .. Len(s) : (s \o t)[i] = s[i]
         /\ \A i \in 1 .. Len(t) : (s \o t)[Len(s) + i] = t[i]
OBVIOUS

LEMMA BothNone ==
  ASSUME NEW S, NEW s \in Seq(S), NEW t \in Seq(S), NEW K
  PROVE  None(s \o t, K) <=> None(s, K) /\ None(t, K)
<1> DEFINE u == s \o t
           n == Len(s)
<1>1. /\ n \in Nat /\ Len(t) \in Nat /\ Len(u) = n + Len(t)
      /\ \A i \in 1 .. n : u[i] = s[i]
      /\ \A i \in 1 .. Len(t) : u[n + i] = t[i]
    BY BehindAnother
<1> HIDE DEF u
<1>2. ASSUME None(u, K) PROVE None(s, K) /\ None(t, K)
  <2>1. \A i \in 1 .. n : i \in 1 .. Len(u)
      BY <1>1
  <2>2. \A i \in 1 .. Len(t) : n + i \in 1 .. Len(u)
      BY <1>1
  <2> QED BY <1>1, <1>2, <2>1, <2>2 DEF None
<1>3. ASSUME None(s, K), None(t, K) PROVE None(u, K)
  <2> SUFFICES ASSUME NEW i \in 1 .. Len(u) PROVE u[i] \notin K
      BY DEF None
  <2>1. CASE i \in 1 .. n
      BY <1>1, <1>3, <2>1 DEF None
  <2>2. CASE ~ i \in 1 .. n
    <3>1. i - n \in 1 .. Len(t) /\ n + (i - n) = i
        BY <1>1, <2>2
    <3> QED BY <1>1, <1>3, <3>1 DEF None
  <2> QED BY <2>1, <2>2
<1> QED BY <1>2, <1>3 DEF u

LEMMA BehindEnds ==
  ASSUME NEW S, NEW s \in Seq(S), NEW t \in Seq(S), NEW K, NEW T,
         EndsIn(t, K, T), None(t, K) => EndsIn(s, K, T)
  PROVE  EndsIn(s \o t, K, T)
<1> DEFINE u == s \o t
           n == Len(s)
<1>1. /\ n \in Nat /\ Len(t) \in Nat /\ Len(u) = n + Len(t)
      /\ \A i \in 1 .. n : u[i] = s[i]
      /\ \A i \in 1 .. Len(t) : u[n + i] = t[i]
    BY BehindAnother
<1> HIDE DEF u
<1> SUFFICES ASSUME NEW i \in 1 .. Len(u), u[i] \in K
             PROVE  u[i] \in T \/ \E j \in i + 1 .. Len(u) : u[j] \in K
    BY DEF EndsIn, u
<1>2. CASE ~ i \in 1 .. n
  <2>1. i - n \in 1 .. Len(t) /\ n + (i - n) = i
      BY <1>1, <1>2
  <2>2. t[i - n] = u[i]
      BY <1>1, <2>1
  <2>3. CASE u[i] \notin T
    <3>1. PICK j \in (i - n) + 1 .. Len(t) : t[j] \in K
        BY <2>1, <2>2, <2>3 DEF EndsIn
    <3>2. n + j \in i + 1 .. Len(u) /\ j \in 1 .. Len(t)
        BY <1>1, <2>1
    <3> QED BY <1>1, <3>1, <3>2
  <2> QED BY <2>3
<1>3. CASE i \in 1 .. n /\ None(t, K)
  <2>1. s[i] = u[i]
      BY <1>1, <1>3
  <2>2. CASE u[i] \notin T
    <3>1. PICK j \in i + 1 .. n : s[j] \in K
        BY <1>3, <2>1, <2>2 DEF EndsIn
    <3>2. j \in i + 1 .. Len(u) /\ j \in 1 .. n
        BY <1>1, <1>3
    <3> QED BY <1>1, <3>1, <3>2
  <2> QED BY <2>2
<1>4. CASE i \in 1 .. n /\ ~ None(t, K)
  <2>1. PICK j \in 1 .. Len(t) : t[j] \in K
      BY <1>4 DEF None
  <2>2. n + j \in i + 1 .. Len(u)
      BY <1>1, <1>4
  <2> QED BY <1>1, <2>1, <2>2
<1> QED BY <1>2, <1>3, <1>4

(* The first is taken away.                                                *)
LEMMA TailEnds ==
  ASSUME NEW S, NEW s \in Seq(S), s # << >>, NEW K, NEW T, EndsIn(s, K, T)
  PROVE  /\ EndsIn(Tail(s), K, T)
         /\ None(Tail(s), K) => (Head(s) \in K => Head(s) \in T)
         /\ None(Tail(s), K) /\ Head(s) \notin K => None(s, K)
<1> DEFINE u == Tail(s)
<1>1. /\ Len(s) \in Nat \ {0} /\ Len(u) = Len(s) - 1 /\ Head(s) = s[1]
      /\ \A i \in 1 .. Len(u) : u[i] = s[i + 1]
    OBVIOUS
<1> HIDE DEF u
<1>2. \A i \in 2 .. Len(s) : u[i - 1] = s[i] /\ i - 1 \in 1 .. Len(u)
  <2> SUFFICES ASSUME NEW i \in 2 .. Len(s) PROVE u[i - 1] = s[i] /\ i - 1 \in 1 .. Len(u)
      OBVIOUS
  <2>1. i - 1 \in 1 .. Len(u) /\ (i - 1) + 1 = i
      BY <1>1
  <2> QED BY <1>1, <2>1
<1>3. EndsIn(u, K, T)
  <2> SUFFICES ASSUME NEW i \in 1 .. Len(u), u[i] \in K, u[i] \notin T
               PROVE  \E j \in i + 1 .. Len(u) : u[j] \in K
      BY DEF EndsIn
  <2>1. i + 1 \in 1 .. Len(s) /\ u[i] = s[i + 1]
      BY <1>1
  <2>2. PICK j \in (i + 1) + 1 .. Len(s) : s[j] \in K
      BY <2>1 DEF EndsIn
  <2>3. j \in 2 .. Len(s) /\ j - 1 \in i + 1 .. Len(u)
      BY <1>1
  <2> QED BY <1>2, <2>2, <2>3
<1>4. ASSUME None(u, K) PROVE \A i \in 2 .. Len(s) : s[i] \notin K
    BY <1>2, <1>4 DEF None
<1>5. ASSUME None(u, K), s[1] \in K PROVE s[1] \in T
  <2>1. 1 \in 1 .. Len(s) /\ 1 + 1 = 2
      BY <1>1
  <2> QED BY <1>4, <1>5, <2>1 DEF EndsIn
<1>6. ASSUME None(u, K), s[1] \notin K PROVE None(s, K)
  <2> SUFFICES ASSUME NEW i \in 1 .. Len(s) PROVE s[i] \notin K
      BY DEF None
  <2>1. i = 1 \/ i \in 2 .. Len(s)
      BY <1>1
  <2> QED BY <1>4, <1>6, <2>1
<1> QED BY <1>1, <1>3, <1>5, <1>6 DEF u

LEMMA TailNone ==
  ASSUME NEW S, NEW s \in Seq(S), s # << >>, NEW K, None(s, K)
  PROVE  None(Tail(s), K) /\ Head(s) \notin K
<1> DEFINE u == Tail(s)
<1>1. /\ Len(s) \in Nat \ {0} /\ Len(u) = Len(s) - 1 /\ Head(s) = s[1]
      /\ \A i \in 1 .. Len(u) : u[i] = s[i + 1]
    OBVIOUS
<1> HIDE DEF u
<1>2. 1 \in 1 .. Len(s) /\ \A i \in 1 .. Len(u) : i + 1 \in 1 .. Len(s)
    BY <1>1
<1>3. None(u, K)
    BY <1>1, <1>2 DEF None
<1> QED BY <1>1, <1>2, <1>3 DEF None, u

(* What was put behind s.                                                  *)
LEMMA SubSeqBehind ==
  ASSUME NEW S, NEW s \in Seq(S), NEW t \in Seq(S)
  PROVE  SubSeq(s \o t, Len(s) + 1, Len(s \o t)) = t
<1> DEFINE u == s \o t
           n == Len(s)
           v == SubSeq(u, n + 1, Len(u))
<1>1. /\ n \in Nat /\ Len(t) \in Nat /\ Len(u) = n + Len(t)
      /\ \A i \in 1 .. Len(t) : u[n + i] = t[i]
    BY BehindAnother
<1>2. v = [i \in 1 .. (Len(u) - (n + 1)) + 1 |-> u[i + (n + 1) - 1]]
    BY <1>1
<1>3. (Len(u) - (n + 1)) + 1 = Len(t)
    BY <1>1
<1>4. \A i \in 1 .. Len(t) : i + (n + 1) - 1 = n + i
    BY <1>1
<1> HIDE DEF u, n
<1>5. v = [i \in 1 .. Len(t) |-> t[i]]
    BY <1>1, <1>2, <1>3, <1>4
<1>6. t = [i \in 1 .. Len(t) |-> t[i]]
    OBVIOUS
<1> QED BY <1>5, <1>6 DEF u, n

-----------------------------------------------------------------------------
(***************************************************************************)
(* A queue leads from one state to another: whoever handles its messages   *)
(* one after the other, each by a step of step, may come from s to t.      *)
(***************************************************************************)
Leads(step, S, s, q, t) ==
  \E f \in [0 .. Len(q) -> S] :
    /\ f[0] = s
    /\ f[Len(q)] = t
    /\ \A i \in 1 .. Len(q) : <<f[i - 1], q[i], f[i]>> \in step

LEMMA LeadsNowhere ==
  ASSUME NEW step, NEW S, NEW s \in S
  PROVE  Leads(step, S, s, << >>, s)
<1> DEFINE f == [i \in 0 .. 0 |-> s]
<1>1. f \in [0 .. 0 -> S] /\ f[0] = s
    OBVIOUS
<1> HIDE DEF f
<1>2. Len(<< >>) = 0 /\ \A i \in 1 .. 0 : FALSE
    OBVIOUS
<1> QED BY <1>1, <1>2 DEF Leads

LEMMA LeadsOne ==
  ASSUME NEW step, NEW S, NEW s \in S, NEW t \in S, NEW x, <<s, x, t>> \in step
  PROVE  Leads(step, S, s, <<x>>, t)
<1> DEFINE f == [i \in 0 .. 1 |-> IF i = 0 THEN s ELSE t]
<1>1. f \in [0 .. 1 -> S] /\ f[0] = s /\ f[1] = t
    OBVIOUS
<1> HIDE DEF f
<1>2. Len(<<x>>) = 1 /\ <<x>>[1] = x /\ \A i \in 1 .. 1 : i = 1 /\ i - 1 = 0
    OBVIOUS
<1>3. \A i \in 1 .. 1 : <<f[i - 1], <<x>>[i], f[i]>> \in step
    BY <1>1, <1>2, Zenon
<1> QED BY <1>1, <1>2, <1>3 DEF Leads

LEMMA LeadsOn ==
  ASSUME NEW step, NEW S, NEW M, NEW p \in Seq(M), NEW q \in Seq(M), NEW s, NEW t, NEW u,
         Leads(step, S, s, p, t), Leads(step, S, t, q, u)
  PROVE  Leads(step, S, s, p \o q, u)
<1> DEFINE m == Len(p)
           n == Len(q)
<1>1. /\ m \in Nat /\ n \in Nat /\ Len(p \o q) = m + n
      /\ \A i \in 1 .. m : (p \o q)[i] = p[i]
      /\ \A i \in m + 1 .. m + n : (p \o q)[i] = q[i - m]
    OBVIOUS
<1>2. PICK f \in [0 .. m -> S] :
        f[0] = s /\ f[m] = t /\ \A i \in 1 .. m : <<f[i - 1], p[i], f[i]>> \in step
    BY DEF Leads
<1>3. PICK g \in [0 .. n -> S] :
        g[0] = t /\ g[n] = u /\ \A i \in 1 .. n : <<g[i - 1], q[i], g[i]>> \in step
    BY DEF Leads
<1> HIDE DEF m, n
<1> DEFINE h == [i \in 0 .. m + n |-> IF i <= m THEN f[i] ELSE g[i - m]]
<1>4. h \in [0 .. m + n -> S]
  <2>1. ASSUME NEW i \in 0 .. m + n
        PROVE  h[i] \in S
    <3>1. CASE i <= m
      <4>1. i \in 0 .. m
          BY <1>1, <3>1
      <4>2. f[i] \in S
          BY <4>1
      <4> QED BY <3>1, <4>2
    <3>2. CASE ~ i <= m
      <4>1. i - m \in 0 .. n
          BY <1>1, <3>2
      <4> QED BY <1>3, <3>2, <4>1
    <3> QED BY <3>1, <3>2
  <2> QED BY <2>1
<1>5. \A i \in 0 .. m : h[i] = f[i]
    BY <1>1
<1>6. \A i \in 0 .. n : m + i \in 0 .. m + n /\ h[m + i] = g[i]
  <2> SUFFICES ASSUME NEW i \in 0 .. n PROVE m + i \in 0 .. m + n /\ h[m + i] = g[i]
      OBVIOUS
  <2>1. m + i \in 0 .. m + n /\ (m + i) - m = i /\ (m + i <= m => i = 0 /\ m + i = m)
      BY <1>1
  <2>2. CASE m + i <= m
      BY <1>2, <1>3, <2>1, <2>2
  <2>3. CASE ~ m + i <= m
      BY <2>1, <2>3
  <2> QED BY <2>1, <2>2, <2>3
<1> HIDE DEF h
<1>7. ASSUME NEW i \in 1 .. m + n
      PROVE  <<h[i - 1], (p \o q)[i], h[i]>> \in step
  <2>1. CASE i <= m
    <3>1. i \in 1 .. m /\ i \in 0 .. m /\ i - 1 \in 0 .. m
        BY <1>1, <2>1
    <3>2. <<f[i - 1], p[i], f[i]>> \in step
        BY <1>2, <3>1
    <3>3. h[i - 1] = f[i - 1] /\ h[i] = f[i] /\ (p \o q)[i] = p[i]
        BY <1>1, <1>5, <3>1
    <3> QED BY <3>2, <3>3
  <2>2. CASE ~ i <= m
    <3> DEFINE j == i - m
    <3>1. /\ j \in 1 .. n /\ j \in 0 .. n /\ j - 1 \in 0 .. n
          /\ m + j = i /\ m + (j - 1) = i - 1 /\ i \in m + 1 .. m + n
        BY <1>1, <2>2
    <3>2. <<g[j - 1], q[j], g[j]>> \in step
        BY <1>3, <3>1
    <3>3. (p \o q)[i] = q[j]
        BY <1>1, <3>1
    <3> HIDE DEF j
    <3>4. h[i - 1] = g[j - 1] /\ h[i] = g[j]
        BY <1>6, <3>1
    <3> QED BY <3>2, <3>3, <3>4
  <2> QED BY <2>1, <2>2
<1>8. h[0] = s /\ h[m + n] = u
  <2>1. 0 \in 0 .. m /\ n \in 0 .. n
      BY <1>1
  <2> QED BY <1>2, <1>3, <1>5, <1>6, <2>1
<1> QED BY <1>1, <1>4, <1>7, <1>8 DEF Leads

LEMMA LeadsFromNext ==
  ASSUME NEW step, NEW S, NEW M, NEW q \in Seq(M), q # << >>, NEW s, NEW t,
         Leads(step, S, s, q, t)
  PROVE  \E u \in S : <<s, Head(q), u>> \in step /\ Leads(step, S, u, Tail(q), t)
<1> DEFINE n == Len(q)
<1>1. /\ n \in Nat /\ n > 0 /\ Len(Tail(q)) = n - 1 /\ Head(q) = q[1]
      /\ \A i \in 1 .. n - 1 : Tail(q)[i] = q[i + 1]
    OBVIOUS
<1>2. PICK f \in [0 .. n -> S] :
        f[0] = s /\ f[n] = t /\ \A i \in 1 .. n : <<f[i - 1], q[i], f[i]>> \in step
    BY DEF Leads
<1> HIDE DEF n
<1> DEFINE g == [i \in 0 .. n - 1 |-> f[i + 1]]
<1>3. g \in [0 .. n - 1 -> S]
    BY <1>1, <1>2
<1>4. \A i \in 0 .. n - 1 : g[i] = f[i + 1]
    OBVIOUS
<1> HIDE DEF g
<1>5. ASSUME NEW i \in 1 .. n - 1
      PROVE  <<g[i - 1], Tail(q)[i], g[i]>> \in step
  <2>1. i \in 0 .. n - 1 /\ i - 1 \in 0 .. n - 1 /\ (i - 1) + 1 = i /\ i + 1 \in 1 .. n
        /\ (i + 1) - 1 = i
      BY <1>1
  <2>2. <<f[(i + 1) - 1], q[i + 1], f[i + 1]>> \in step
      BY <1>2, <2>1
  <2>3. g[i - 1] = f[i] /\ g[i] = f[i + 1] /\ Tail(q)[i] = q[i + 1]
      BY <1>1, <1>4, <2>1
  <2> QED BY <2>1, <2>2, <2>3
<1>6. g[0] = f[1] /\ g[n - 1] = t /\ f[1] \in S /\ <<s, Head(q), f[1]>> \in step
  <2>1. 0 \in 0 .. n - 1 /\ n - 1 \in 0 .. n - 1 /\ (n - 1) + 1 = n /\ 1 \in 1 .. n /\ 1 - 1 = 0
        /\ 1 \in 0 .. n /\ 0 + 1 = 1
      BY <1>1
  <2>2. <<f[1 - 1], q[1], f[1]>> \in step
      BY <1>2, <2>1
  <2>3. g[0] = f[0 + 1] /\ g[n - 1] = f[(n - 1) + 1]
      BY <1>4, <2>1
  <2> QED BY <1>1, <1>2, <2>1, <2>2, <2>3
<1>7. Leads(step, S, f[1], Tail(q), t)
    BY <1>1, <1>3, <1>5, <1>6 DEF Leads
<1> QED BY <1>6, <1>7

LEMMA LeadsThrough ==
  ASSUME NEW step, NEW S, NEW M, NEW ss \in Seq(Seq(M)), NEW t \in [0 .. Len(ss) -> S],
         \A i \in 1 .. Len(ss) : Leads(step, S, t[i - 1], ss[i], t[i])
  PROVE  Leads(step, S, t[0], FlattenSeq(ss), t[Len(ss)])
<1> DEFINE n == Len(ss)
<1>1. n \in Nat /\ \A i \in 1 .. n : ss[i] \in Seq(M)
    OBVIOUS
<1>2. PICK g \in [0 .. n -> Seq(M)] : Flattens(g, ss) /\ FlattenSeq(ss) = g[n]
    BY FlattenSteps
<1> DEFINE T == {k \in 0 .. n : Leads(step, S, t[0], g[k], t[k])}
<1> HIDE DEF n
<1>3. 0 \in T
  <2>1. g[0] = << >> /\ t[0] \in S /\ 0 \in 0 .. n
      BY <1>1, <1>2 DEF Flattens, n
  <2> QED BY <2>1, LeadsNowhere
<1>4. ASSUME NEW k \in 0 .. n - 1, k \in T
      PROVE  k + 1 \in T
  <2>1. k + 1 \in 1 .. n /\ k + 1 \in 0 .. n /\ (k + 1) - 1 = k /\ k \in 0 .. n
      BY <1>1
  <2>2. g[k + 1] = g[k] \o ss[k + 1]
      BY <1>2, <2>1 DEF Flattens, n
  <2>3. Leads(step, S, t[k], ss[k + 1], t[k + 1])
      BY <2>1 DEF n
  <2>4. Leads(step, S, t[0], g[k], t[k])
      BY <1>4
  <2>5. g[k] \in Seq(M) /\ ss[k + 1] \in Seq(M)
      BY <1>1, <1>2, <2>1
  <2>6. Leads(step, S, t[0], g[k] \o ss[k + 1], t[k + 1])
      BY <2>3, <2>4, <2>5, LeadsOn
  <2> QED BY <2>1, <2>2, <2>6
<1> HIDE DEF T
<1>5. \A k \in 0 .. n : k \in T
    BY <1>1, <1>3, <1>4, UpTo
<1>6. n \in T
    BY <1>1, <1>5
<1> QED BY <1>2, <1>6 DEF T, n

-----------------------------------------------------------------------------
(***************************************************************************)
(* What is kept of a sequence.                                             *)
(***************************************************************************)
Distinct(s) == \A i, j \in 1 .. Len(s) : s[i] = s[j] => i = j

LEMMA ListOf ==
  ASSUME NEW A, NEW s \in Seq(A)
  PROVE  /\ Len(s) \in Nat /\ DOMAIN s = 1 .. Len(s)
         /\ \A i \in 1 .. Len(s) : s[i] \in A /\ s[i] \in ToSet(s)
         /\ \A x : x \in ToSet(s) <=> \E i \in 1 .. Len(s) : s[i] = x
BY DEF ToSet

LEMMA Appended ==
  ASSUME NEW A, NEW s \in Seq(A), NEW x \in A
  PROVE  /\ Append(s, x) \in Seq(A) /\ Len(Append(s, x)) = Len(s) + 1
         /\ \A i \in 1 .. Len(s) : Append(s, x)[i] = s[i]
         /\ Append(s, x)[Len(s) + 1] = x
         /\ ToSet(Append(s, x)) = ToSet(s) \cup {x}
         /\ Distinct(s) /\ x \notin ToSet(s) => Distinct(Append(s, x))
<1> DEFINE t == Append(s, x)
           n == Len(s)
<1>1. /\ t \in Seq(A) /\ n \in Nat /\ Len(t) = n + 1 /\ DOMAIN t = 1 .. n + 1 /\ DOMAIN s = 1 .. n
      /\ \A i \in 1 .. n : t[i] = s[i]
      /\ t[n + 1] = x
    OBVIOUS
<1> HIDE DEF t
<1>2. \A i \in 1 .. n + 1 : i \in 1 .. n \/ i = n + 1
    BY <1>1
<1>3. \A i \in 1 .. n : i \in 1 .. n + 1
    BY <1>1
<1>4. n + 1 \in 1 .. n + 1
    BY <1>1
<1>5. ToSet(t) = ToSet(s) \cup {x}
  <2>1. ASSUME NEW y \in ToSet(t) PROVE y \in ToSet(s) \cup {x}
    <3>1. PICK i \in 1 .. n + 1 : t[i] = y
        BY <1>1 DEF ToSet
    <3> QED BY <1>1, <1>2, <3>1 DEF ToSet
  <2>2. ASSUME NEW y \in ToSet(s) PROVE y \in ToSet(t)
    <3>1. PICK i \in 1 .. n : s[i] = y
        BY <1>1 DEF ToSet
    <3> QED BY <1>1, <1>3, <3>1 DEF ToSet
  <2>3. x \in ToSet(t)
      BY <1>1, <1>4 DEF ToSet
  <2> QED BY <2>1, <2>2, <2>3
<1>6. ASSUME Distinct(s), x \notin ToSet(s) PROVE Distinct(t)
  <2>1. \A i \in 1 .. n : s[i] # x
      BY <1>1, <1>6 DEF ToSet
  <2> SUFFICES ASSUME NEW i \in 1 .. n + 1, NEW j \in 1 .. n + 1, t[i] = t[j] PROVE i = j
      BY <1>1 DEF Distinct
  <2> QED BY <1>1, <1>2, <1>6, <2>1 DEF Distinct
<1> QED BY <1>1, <1>5, <1>6 DEF t

Kept(g, s, S) ==
  /\ g[0] = << >>
  /\ \A i \in 1 .. Len(s) : g[i] = IF s[i] \in S THEN Append(g[i - 1], s[i]) ELSE g[i - 1]

LEMMA KeepSteps ==
  ASSUME NEW A, NEW s \in Seq(A), NEW S
  PROVE  \E g \in [0 .. Len(s) -> Seq(A)] : Kept(g, s, S) /\ Keep(s, S) = g[Len(s)]
<1> DEFINE n == Len(s)
           ss == [i \in DOMAIN s |-> IF s[i] \in S THEN <<s[i]>> ELSE << >>]
<1>1. n \in Nat /\ DOMAIN s = 1 .. n /\ \A i \in 1 .. n : s[i] \in A
    OBVIOUS
<1>2. ss \in Seq(Seq(A)) /\ Len(ss) = n
  <2>1. \A i \in 1 .. n : <<s[i]>> \in Seq(A) /\ << >> \in Seq(A)
      BY <1>1
  <2>2. ss \in [1 .. n -> Seq(A)]
      BY <1>1, <2>1
  <2> HIDE DEF ss
  <2> QED BY <1>1, <2>2
<1>3. \A i \in 1 .. n : ss[i] = IF s[i] \in S THEN <<s[i]>> ELSE << >>
    BY <1>1
<1>4. Keep(s, S) = FlattenSeq(ss)
    BY DEF Keep
<1> HIDE DEF ss
<1>5. PICK g \in [0 .. n -> Seq(A)] : Flattens(g, ss) /\ FlattenSeq(ss) = g[n]
    BY <1>2, FlattenSteps
<1>6. ASSUME NEW i \in 1 .. n
      PROVE  g[i] = IF s[i] \in S THEN Append(g[i - 1], s[i]) ELSE g[i - 1]
  <2>1. g[i] = g[i - 1] \o ss[i] /\ g[i - 1] \in Seq(A)
    <3>1. i - 1 \in 0 .. n
        BY <1>1
    <3>2. g[i - 1] \in Seq(A)
        BY <1>5, <3>1
    <3> QED BY <1>2, <1>5, <3>2 DEF Flattens
  <2>2. CASE s[i] \in S
    <3>1. ss[i] = <<s[i]>>
        BY <1>3, <2>2
    <3>2. g[i - 1] \o <<s[i]>> = Append(g[i - 1], s[i])
        BY <1>1, <2>1
    <3> QED BY <2>1, <2>2, <3>1, <3>2
  <2>3. CASE s[i] \notin S
    <3>1. ss[i] = << >>
        BY <1>3, <2>3
    <3>2. g[i - 1] \o << >> = g[i - 1]
        BY <2>1
    <3> QED BY <2>1, <2>3, <3>1, <3>2
  <2> QED BY <2>2, <2>3
<1> QED BY <1>4, <1>5, <1>6 DEF Flattens, Kept

LEMMA KeepKeeps ==
  ASSUME NEW A, NEW s \in Seq(A), NEW S
  PROVE  /\ Keep(s, S) \in Seq(A)
         /\ ToSet(Keep(s, S)) = ToSet(s) \cap S
         /\ Distinct(s) => Distinct(Keep(s, S))
<1> DEFINE n == Len(s)
<1>1. n \in Nat /\ \A i \in 1 .. n : s[i] \in A
    OBVIOUS
<1>2. PICK g \in [0 .. n -> Seq(A)] :
        /\ g[0] = << >>
        /\ \A i \in 1 .. n : g[i] = IF s[i] \in S THEN Append(g[i - 1], s[i]) ELSE g[i - 1]
        /\ Keep(s, S) = g[n]
  <2>1. PICK g \in [0 .. n -> Seq(A)] : Kept(g, s, S) /\ Keep(s, S) = g[n]
      BY KeepSteps
  <2> QED BY <2>1 DEF Kept
<1> DEFINE Upto(k) == {s[j] : j \in {i \in 1 .. k : s[i] \in S}}
           T == {k \in 0 .. n : ToSet(g[k]) = Upto(k) /\ (Distinct(s) => Distinct(g[k]))}
<1> HIDE DEF n
<1>3. 0 \in T
  <2>1. Upto(0) = {}
      OBVIOUS
  <2>2. ToSet(<< >>) = {} /\ Distinct(<< >>)
      BY DEF ToSet, Distinct
  <2>3. ToSet(g[0]) = {} /\ Distinct(g[0]) /\ 0 \in 0 .. n
      BY <1>1, <1>2, <2>2
  <2> HIDE DEF Upto
  <2> QED BY <2>1, <2>3
<1>4. ASSUME NEW k \in 0 .. n - 1, k \in T PROVE k + 1 \in T
  <2>1. k + 1 \in 1 .. n /\ k + 1 \in 0 .. n /\ (k + 1) - 1 = k /\ k \in 0 .. n
      BY <1>1
  <2>2. g[k + 1] = IF s[k + 1] \in S THEN Append(g[k], s[k + 1]) ELSE g[k]
      BY <1>2, <2>1
  <2>3. g[k] \in Seq(A) /\ s[k + 1] \in A
      BY <1>1, <1>2, <2>1
  <2>4. \A i : i \in 1 .. k + 1 <=> i \in 1 .. k \/ i = k + 1
      BY <2>1
  <2>5. Upto(k + 1) = IF s[k + 1] \in S THEN Upto(k) \cup {s[k + 1]} ELSE Upto(k)
      BY <2>4
  <2>6. Distinct(s) => s[k + 1] \notin Upto(k)
    <3>1. ASSUME NEW i \in 1 .. k, s[i] = s[k + 1], Distinct(s) PROVE FALSE
      <4>1. i \in 1 .. n /\ i # k + 1
          BY <1>1, <2>1
      <4> QED BY <2>1, <3>1, <4>1 DEF Distinct, n
    <3> QED BY <3>1
  <2>7. ToSet(g[k]) = Upto(k) /\ (Distinct(s) => Distinct(g[k]))
      BY <1>4
  <2> HIDE DEF Upto
  <2>8. CASE s[k + 1] \in S
    <3>1. g[k + 1] = Append(g[k], s[k + 1])
        BY <2>2, <2>8
    <3>2. /\ ToSet(g[k + 1]) = ToSet(g[k]) \cup {s[k + 1]}
          /\ Distinct(g[k]) /\ s[k + 1] \notin ToSet(g[k]) => Distinct(g[k + 1])
        BY <2>3, <3>1, Appended
    <3> QED BY <2>1, <2>5, <2>6, <2>7, <2>8, <3>2
  <2>9. CASE s[k + 1] \notin S
      BY <2>1, <2>2, <2>5, <2>7, <2>9
  <2> QED BY <2>8, <2>9
<1> HIDE DEF T
<1>5. \A k \in 0 .. n : k \in T
    BY <1>1, <1>3, <1>4, UpTo
<1>6. ToSet(g[n]) = Upto(n) /\ (Distinct(s) => Distinct(g[n]))
    BY <1>1, <1>5 DEF T
<1>7. Upto(n) = ToSet(s) \cap S
    BY DEF ToSet, n
<1> QED BY <1>1, <1>2, <1>6, <1>7

(* Of nothing, nothing is kept.                                            *)
LEMMA KeepNothing ==
  ASSUME NEW S
  PROVE  Keep(<< >>, S) = << >>
<1>1. << >> \in Seq(Int) /\ Len(<< >>) = 0
    OBVIOUS
<1>2. PICK s : s = << >>
    OBVIOUS
<1>3. s \in Seq(Int) /\ Len(s) = 0
    BY <1>1, <1>2
<1>4. PICK g \in [0 .. Len(s) -> Seq(Int)] : Kept(g, s, S) /\ Keep(s, S) = g[Len(s)]
    BY <1>3, KeepSteps
<1>5. Keep(s, S) = << >>
    BY <1>4, <1>3 DEF Kept
<1> QED BY <1>2, <1>5

AddsBehind(s, t, x) == Append(s \o t, x) = s \o Append(t, x)

(* Appending to the second of two sequences.                               *)
LEMMA AppendBehind ==
  ASSUME NEW A, NEW s \in Seq(A), NEW t \in Seq(A), NEW x \in A
  PROVE  AddsBehind(s, t, x)
BY DEF AddsBehind

(* What is kept depends on the elements that are there.                    *)
LEMMA KeepAlike ==
  ASSUME NEW A, NEW s \in Seq(A), NEW S, NEW R, ToSet(s) \cap S = ToSet(s) \cap R
  PROVE  Keep(s, S) = Keep(s, R)
<1>1. \A i \in DOMAIN s : s[i] \in S <=> s[i] \in R
    BY DEF ToSet
<1>2. [i \in DOMAIN s |-> IF s[i] \in S THEN <<s[i]>> ELSE << >>]
        = [i \in DOMAIN s |-> IF s[i] \in R THEN <<s[i]>> ELSE << >>]
    BY <1>1
<1> QED BY <1>2, Zenon DEF Keep

(* An element behind the others is kept or not.                            *)
LEMMA KeepAppended ==
  ASSUME NEW A, NEW s \in Seq(A), NEW x \in A, NEW S
  PROVE  Keep(Append(s, x), S) = IF x \in S THEN Append(Keep(s, S), x) ELSE Keep(s, S)
<1> DEFINE t == Append(s, x)
           n == Len(s)
<1>1. /\ t \in Seq(A) /\ n \in Nat /\ Len(t) = n + 1
      /\ \A i \in 1 .. n : t[i] = s[i]
      /\ t[n + 1] = x
    OBVIOUS
<1> HIDE DEF t
<1>2. PICK g \in [0 .. n -> Seq(A)] : Kept(g, s, S) /\ Keep(s, S) = g[n]
    BY KeepSteps
<1>3. PICK h \in [0 .. Len(t) -> Seq(A)] : Kept(h, t, S) /\ Keep(t, S) = h[Len(t)]
    BY <1>1, KeepSteps
<1> DEFINE T == {k \in 0 .. n : h[k] = g[k]}
<1> HIDE DEF n
<1>4. 0 \in T
    BY <1>1, <1>2, <1>3 DEF Kept
<1>5. ASSUME NEW k \in 0 .. n - 1, k \in T PROVE k + 1 \in T
  <2>1. k + 1 \in 1 .. n /\ k + 1 \in 0 .. n /\ (k + 1) - 1 = k /\ k + 1 \in 1 .. n + 1
      BY <1>1
  <2>2. h[k] = g[k]
      BY <1>5
  <2>3. g[k + 1] = IF s[k + 1] \in S THEN Append(g[k], s[k + 1]) ELSE g[k]
      BY <1>2, <2>1 DEF Kept, n
  <2>4. h[k + 1] = IF t[k + 1] \in S THEN Append(h[k], t[k + 1]) ELSE h[k]
      BY <1>1, <1>3, <2>1 DEF Kept
  <2>5. t[k + 1] = s[k + 1]
      BY <1>1, <2>1
  <2> QED BY <2>1, <2>2, <2>3, <2>4, <2>5
<1> HIDE DEF T
<1>6. \A k \in 0 .. n : k \in T
    BY <1>1, <1>4, <1>5, UpTo
<1>7. h[n] = g[n]
    BY <1>1, <1>6 DEF T
<1>8. h[n + 1] = IF x \in S THEN Append(h[n], x) ELSE h[n]
  <2>1. n + 1 \in 1 .. n + 1 /\ (n + 1) - 1 = n
      BY <1>1
  <2> QED BY <1>1, <1>3, <2>1 DEF Kept
<1> QED BY <1>1, <1>2, <1>3, <1>7, <1>8 DEF t, n

(* So does it count.                                                       *)
LEMMA CountAppended ==
  ASSUME NEW A, NEW s \in Seq(A), NEW x \in A, NEW S
  PROVE  /\ Len(Keep(s, S)) \in Nat
         /\ Len(Keep(Append(s, x), S)) = IF x \in S THEN Len(Keep(s, S)) + 1 ELSE Len(Keep(s, S))
<1> DEFINE q == Keep(s, S)
<1>1. q \in Seq(A)
    BY KeepKeeps
<1>2. Keep(Append(s, x), S) = IF x \in S THEN Append(q, x) ELSE q
    BY KeepAppended
<1> HIDE DEF q
<1>3. Len(q) \in Nat /\ Len(Append(q, x)) = Len(q) + 1
    BY <1>1
<1> QED BY <1>2, <1>3 DEF q

(* Two sequences, each for itself.                                         *)
LEMMA KeepJoined ==
  ASSUME NEW A, NEW s \in Seq(A), NEW t \in Seq(A), NEW S
  PROVE  Keep(s \o t, S) = Keep(s, S) \o Keep(t, S)
<1> DEFINE n == Len(t)
           first(k) == SubSeq(t, 1, k)
           T == {k \in 0 .. n : Keep(s \o first(k), S) = Keep(s, S) \o Keep(first(k), S)}
<1>1. n \in Nat /\ first(n) = t /\ \A i \in 1 .. n : t[i] \in A
    OBVIOUS
<1>2. Keep(s, S) \in Seq(A)
    BY KeepKeeps
<1>3. first(0) = << >>
    OBVIOUS
<1>4. 0 \in T
  <2>1. s \o << >> = s /\ Keep(s, S) \o << >> = Keep(s, S)
      BY <1>2
  <2> HIDE DEF first
  <2>2. Keep(first(0), S) = << >>
      BY <1>3, KeepNothing
  <2>3. Keep(s \o first(0), S) = Keep(s, S) \o Keep(first(0), S)
      BY <1>3, <2>1, <2>2
  <2>4. 0 \in 0 .. n
      BY <1>1
  <2> QED BY <2>3, <2>4
<1>5. ASSUME NEW k \in 0 .. n - 1, k \in T PROVE k + 1 \in T
  <2>1. k + 1 \in 0 .. n /\ k + 1 \in 1 .. n
      BY <1>1
  <2>2. first(k) \in Seq(A) /\ first(k + 1) = Append(first(k), t[k + 1]) /\ t[k + 1] \in A
    <3>1. first(k) \in Seq(A) /\ Len(first(k)) = k
        BY <2>1
    <3>2. first(k + 1) \in Seq(A) /\ Len(first(k + 1)) = k + 1
        BY <2>1
    <3>3. \A i \in 1 .. k : first(k + 1)[i] = first(k)[i]
        BY <2>1
    <3>4. first(k + 1)[k + 1] = t[k + 1]
        BY <2>1
    <3> HIDE DEF first
    <3>5. Append(first(k), t[k + 1]) \in Seq(A) /\ Len(Append(first(k), t[k + 1])) = k + 1
        BY <1>1, <2>1, <3>1
    <3>6. \A i \in 1 .. k + 1 : first(k + 1)[i] = Append(first(k), t[k + 1])[i]
        BY <2>1, <3>1, <3>3, <3>4
    <3> QED BY <1>1, <2>1, <3>1, <3>2, <3>5, <3>6
  <2>3. Keep(s \o first(k), S) = Keep(s, S) \o Keep(first(k), S)
      BY <1>5
  <2> DEFINE x == t[k + 1]
  <2> HIDE DEF first, x
  <2>4. x \in A /\ first(k + 1) = Append(first(k), x)
      BY <2>2 DEF x
  <2>5. s \o Append(first(k), x) = Append(s \o first(k), x) /\ s \o first(k) \in Seq(A)
      BY <2>2, <2>4
  <2>6. Keep(first(k), S) \in Seq(A)
      BY <2>2, KeepKeeps
  <2>7. Keep(Append(first(k), x), S)
          = IF x \in S THEN Append(Keep(first(k), S), x) ELSE Keep(first(k), S)
      BY <2>2, <2>4, KeepAppended
  <2>8. Keep(Append(s \o first(k), x), S)
          = IF x \in S THEN Append(Keep(s \o first(k), S), x) ELSE Keep(s \o first(k), S)
      BY <2>4, <2>5, KeepAppended
  <2>9. Append(Keep(s, S) \o Keep(first(k), S), x) = Keep(s, S) \o Append(Keep(first(k), S), x)
    <3>1. PICK a \in Seq(A) : a = Keep(s, S)
        BY <1>2
    <3>2. PICK b \in Seq(A) : b = Keep(first(k), S)
        BY <2>6
    <3>3. PICK y \in A : y = x
        BY <2>4
    <3>4. Append(a \o b, y) = a \o Append(b, y)
      <4>1. AddsBehind(a, b, y)
          BY AppendBehind
      <4> QED BY <4>1, Zenon DEF AddsBehind
    <3> QED BY <3>1, <3>2, <3>3, <3>4
  <2>10. Keep(s \o first(k + 1), S) = Keep(s, S) \o Keep(first(k + 1), S)
      BY <2>3, <2>4, <2>5, <2>7, <2>8, <2>9
  <2> QED BY <2>1, <2>10
<1> HIDE DEF T
<1>6. \A k \in 0 .. n : k \in T
    BY <1>1, <1>4, <1>5, UpTo
<1>7. n \in T
    BY <1>1, <1>6
<1> HIDE DEF first
<1> QED BY <1>1, <1>7 DEF T

(* What is kept of what is kept.                                           *)
LEMMA KeepTwice ==
  ASSUME NEW A, NEW s \in Seq(A), NEW S, NEW R
  PROVE  Keep(Keep(s, S), R) = Keep(s, S \cap R)
<1> DEFINE n == Len(s)
<1>1. n \in Nat /\ \A i \in 1 .. n : s[i] \in A
    OBVIOUS
<1>2. PICK g \in [0 .. n -> Seq(A)] : Kept(g, s, S) /\ Keep(s, S) = g[n]
    BY KeepSteps
<1>3. PICK h \in [0 .. n -> Seq(A)] : Kept(h, s, S \cap R) /\ Keep(s, S \cap R) = h[n]
    BY KeepSteps
<1> DEFINE T == {k \in 0 .. n : Keep(g[k], R) = h[k]}
<1> HIDE DEF n
<1>4. 0 \in T
    BY <1>1, <1>2, <1>3, KeepNothing DEF Kept
<1>5. ASSUME NEW k \in 0 .. n - 1, k \in T PROVE k + 1 \in T
  <2>1. k + 1 \in 1 .. n /\ k + 1 \in 0 .. n /\ (k + 1) - 1 = k /\ k \in 0 .. n
      BY <1>1
  <2>2. Keep(g[k], R) = h[k]
      BY <1>5
  <2>3. g[k + 1] = IF s[k + 1] \in S THEN Append(g[k], s[k + 1]) ELSE g[k]
      BY <1>2, <2>1 DEF Kept, n
  <2>4. h[k + 1] = IF s[k + 1] \in S \cap R THEN Append(h[k], s[k + 1]) ELSE h[k]
      BY <1>3, <2>1 DEF Kept, n
  <2> DEFINE x == s[k + 1]
             q == g[k]
  <2>5. q \in Seq(A) /\ x \in A
      BY <1>1, <1>2, <2>1
  <2> HIDE DEF x, q
  <2>6. Keep(Append(q, x), R) = IF x \in R THEN Append(Keep(q, R), x) ELSE Keep(q, R)
      BY <2>5, KeepAppended
  <2> QED BY <2>1, <2>2, <2>3, <2>4, <2>6 DEF x, q
<1> HIDE DEF T
<1>6. \A k \in 0 .. n : k \in T
    BY <1>1, <1>4, <1>5, UpTo
<1> QED BY <1>1, <1>2, <1>3, <1>6 DEF T

(* Elements of two kinds are counted apart.                                *)
LEMMA KeepParts ==
  ASSUME NEW A, NEW s \in Seq(A), NEW S, NEW R, S \cap R = {}
  PROVE  /\ Len(Keep(s, S)) \in Nat /\ Len(Keep(s, R)) \in Nat
         /\ Len(Keep(s, S \cup R)) = Len(Keep(s, S)) + Len(Keep(s, R))
<1> DEFINE n == Len(s)
<1>1. n \in Nat /\ \A i \in 1 .. n : s[i] \in A
    OBVIOUS
<1>2. PICK g \in [0 .. n -> Seq(A)] : Kept(g, s, S) /\ Keep(s, S) = g[n]
    BY KeepSteps
<1>3. PICK h \in [0 .. n -> Seq(A)] : Kept(h, s, R) /\ Keep(s, R) = h[n]
    BY KeepSteps
<1>4. PICK f \in [0 .. n -> Seq(A)] : Kept(f, s, S \cup R) /\ Keep(s, S \cup R) = f[n]
    BY KeepSteps
<1> DEFINE T == {k \in 0 .. n : Len(f[k]) = Len(g[k]) + Len(h[k])}
<1> HIDE DEF n
<1>5. 0 \in T
    BY <1>1, <1>2, <1>3, <1>4 DEF Kept
<1>6. ASSUME NEW k \in 0 .. n - 1, k \in T PROVE k + 1 \in T
  <2>1. k + 1 \in 1 .. n /\ k + 1 \in 0 .. n /\ (k + 1) - 1 = k /\ k \in 0 .. n
      BY <1>1
  <2> DEFINE x == s[k + 1]
  <2>2. Len(f[k]) = Len(g[k]) + Len(h[k])
      BY <1>6
  <2>3. g[k + 1] = IF x \in S THEN Append(g[k], x) ELSE g[k]
      BY <1>2, <2>1 DEF Kept, n
  <2>4. h[k + 1] = IF x \in R THEN Append(h[k], x) ELSE h[k]
      BY <1>3, <2>1 DEF Kept, n
  <2>5. f[k + 1] = IF x \in S \cup R THEN Append(f[k], x) ELSE f[k]
      BY <1>4, <2>1 DEF Kept, n
  <2>6. g[k] \in Seq(A) /\ h[k] \in Seq(A) /\ f[k] \in Seq(A) /\ x \in A
      BY <1>1, <1>2, <1>3, <1>4, <2>1
  <2> HIDE DEF x
  <2>7. /\ Len(g[k]) \in Nat /\ Len(h[k]) \in Nat
        /\ Len(Append(g[k], x)) = Len(g[k]) + 1
        /\ Len(Append(h[k], x)) = Len(h[k]) + 1
        /\ Len(Append(f[k], x)) = Len(f[k]) + 1
      BY <2>6
  <2>8. ~ (x \in S /\ x \in R)
      OBVIOUS
  <2>9. Len(f[k + 1]) = Len(g[k + 1]) + Len(h[k + 1])
    <3>1. CASE x \in S
      <4>1. f[k + 1] = Append(f[k], x) /\ g[k + 1] = Append(g[k], x) /\ h[k + 1] = h[k]
          BY <2>3, <2>4, <2>5, <2>8, <3>1
      <4> QED BY <2>2, <2>7, <4>1
    <3>2. CASE x \in R
      <4>1. f[k + 1] = Append(f[k], x) /\ g[k + 1] = g[k] /\ h[k + 1] = Append(h[k], x)
          BY <2>3, <2>4, <2>5, <2>8, <3>2
      <4> QED BY <2>2, <2>7, <4>1
    <3>3. CASE x \notin S \cup R
        BY <2>2, <2>3, <2>4, <2>5, <3>3
    <3> QED BY <3>1, <3>2, <3>3
  <2> QED BY <2>1, <2>9
<1> HIDE DEF T
<1>7. \A k \in 0 .. n : k \in T
    BY <1>1, <1>5, <1>6, UpTo
<1>8. Len(f[n]) = Len(g[n]) + Len(h[n])
    BY <1>1, <1>7 DEF T
<1>9. Keep(s, S) \in Seq(A) /\ Keep(s, R) \in Seq(A)
    BY KeepKeeps
<1>10. Len(Keep(s, S)) \in Nat /\ Len(Keep(s, R)) \in Nat
    BY <1>9
<1> QED BY <1>2, <1>3, <1>4, <1>8, <1>10

(* None is kept when none is there.                                        *)
LEMMA KeepsSome ==
  ASSUME NEW A, NEW s \in Seq(A), NEW S
  PROVE  /\ Len(Keep(s, S)) \in Nat
         /\ Len(Keep(s, S)) = 0 <=> ToSet(s) \cap S = {}
<1>1. Keep(s, S) \in Seq(A) /\ ToSet(Keep(s, S)) = ToSet(s) \cap S
    BY KeepKeeps
<1> DEFINE k == Keep(s, S)
<1> HIDE DEF k
<1>2. k \in Seq(A) => Len(k) \in Nat /\ (Len(k) = 0 <=> ToSet(k) = {})
  <2> SUFFICES ASSUME k \in Seq(A) PROVE Len(k) \in Nat /\ (Len(k) = 0 <=> ToSet(k) = {})
      OBVIOUS
  <2>1. Len(k) \in Nat /\ \A x : x \in ToSet(k) <=> \E i \in 1 .. Len(k) : k[i] = x
      BY ListOf
  <2>2. CASE Len(k) = 0
      BY <2>1, <2>2
  <2>3. CASE Len(k) # 0
    <3>1. 1 \in 1 .. Len(k)
        BY <2>1, <2>3
    <3> QED BY <2>1, <2>3, <3>1
  <2> QED BY <2>2, <2>3
<1> QED BY <1>1, <1>2 DEF k
(* A sequence is its first elements and the others behind them.            *)
Joined(s, a, b) == s = a \o b

LEMMA JoinsUp ==
  ASSUME NEW A, NEW s \in Seq(A), NEW a \in Seq(A), NEW b \in Seq(A),
         Len(s) = Len(a) + Len(b),
         \A i \in 1 .. Len(a) : s[i] = a[i],
         \A i \in 1 .. Len(b) : s[Len(a) + i] = b[i]
  PROVE  Joined(s, a, b)
<1> DEFINE z == a \o b
<1>1. /\ Len(a) \in Nat /\ Len(b) \in Nat /\ Len(z) = Len(a) + Len(b)
      /\ \A i \in 1 .. Len(a) : z[i] = a[i]
      /\ \A i \in 1 .. Len(b) : z[Len(a) + i] = b[i]
    BY BehindAnother
<1>2. z \in Seq(A)
    OBVIOUS
<1> HIDE DEF z
<1>3. ASSUME NEW i \in 1 .. Len(s) PROVE s[i] = z[i]
  <2>1. CASE i \in 1 .. Len(a)
      BY <1>1, <2>1
  <2>2. CASE i \notin 1 .. Len(a)
    <3>1. i - Len(a) \in 1 .. Len(b) /\ Len(a) + (i - Len(a)) = i
        BY <1>1, <2>2
    <3> QED BY <1>1, <3>1
  <2> QED BY <2>1, <2>2
<1>4. s = z
    BY <1>1, <1>2, <1>3
<1> QED BY <1>4 DEF z, Joined

-----------------------------------------------------------------------------
(***************************************************************************)
(* Ends of sequences, and sequences without doubles.                       *)
(***************************************************************************)
(* Sequences of none, one and two elements.                                *)
LEMMA NoItems ==
  ASSUME NEW A
  PROVE  << >> \in Seq(A)
OBVIOUS

LEMMA OneItem ==
  ASSUME NEW A, NEW x \in A
  PROVE  <<x>> \in Seq(A)
OBVIOUS

LEMMA TwoItems ==
  ASSUME NEW A, NEW x \in A, NEW y \in A
  PROVE  <<x, y>> \in Seq(A)
OBVIOUS

(* Without doubles, the elements are as many as the places.                *)
LEMMA CountDistinct ==
  ASSUME NEW A, NEW s \in Seq(A), Distinct(s)
  PROVE  Len(s) = Cardinality(ToSet(s)) /\ IsFiniteSet(ToSet(s))
<1> DEFINE n == Len(s)
<1>1. n \in Nat /\ DOMAIN s = 1 .. n /\ s \in [1 .. n -> ToSet(s)]
    BY ListOf
<1>2. s \in Bijection(1 .. n, ToSet(s))
  <2>1. s \in Injection(1 .. n, ToSet(s))
      BY <1>1 DEF Injection, IsInjective, Distinct
  <2>2. s \in Surjection(1 .. n, ToSet(s))
      BY <1>1 DEF Surjection, ToSet
  <2> QED BY <2>1, <2>2 DEF Bijection
<1>3. ExistsBijection(1 .. n, ToSet(s))
    BY <1>2 DEF ExistsBijection
<1>4. IsFiniteSet(ToSet(s))
    BY <1>1, <1>3, FS_NatBijection
<1> QED BY <1>1, <1>3, <1>4, FS_CountingElements

(* A sequence is one of its own elements.                                  *)
LEMMA OwnElements ==
  ASSUME NEW A, NEW s \in Seq(A), NEW B, ToSet(s) \subseteq B
  PROVE  s \in Seq(B)
<1>1. Len(s) \in Nat /\ s = [i \in 1 .. Len(s) |-> s[i]]
    OBVIOUS
<1>2. \A i \in 1 .. Len(s) : s[i] \in B
    BY ListOf
<1> QED BY <1>1, <1>2

(* The last element, and those before it.                                  *)
LEMMA ListHead ==
  ASSUME NEW A, NEW s \in Seq(A), s # << >>
  PROVE  /\ Last(s) \in A /\ Front(s) \in Seq(A) /\ Last(s) \in ToSet(s)
         /\ Len(Front(s)) + 1 = Len(s) /\ Last(s) = s[Len(s)]
         /\ \A i \in 1 .. Len(Front(s)) : Front(s)[i] = s[i]
         /\ ToSet(s) = ToSet(Front(s)) \cup {Last(s)}
         /\ Distinct(s) => Distinct(Front(s)) /\ Last(s) \notin ToSet(Front(s))
<1> DEFINE n == Len(s)
           f == Front(s)
<1>1. n \in Nat /\ n > 0 /\ n \in 1 .. n /\ Last(s) = s[n] /\ s[n] \in A
    BY DEF Last
<1>2. f \in Seq(A) /\ Len(f) = n - 1 /\ \A i \in 1 .. n - 1 : f[i] = s[i]
  <2>1. f = SubSeq(s, 1, n - 1)
      BY DEF Front
  <2>2. \A i \in 1 .. n - 1 : s[i] \in A
      BY <1>1
  <2>3. SubSeq(s, 1, n - 1) \in Seq(A)
      BY <1>1
  <2>4. Len(SubSeq(s, 1, n - 1)) = n - 1
    <3>1. n - 1 \in Nat /\ 1 \in Int /\ n - 1 \in Int
        BY <1>1
    <3>2. \A t, m : t \in Seq(A) /\ m \in Nat => Len(SubSeq(t, 1, m)) = m
        OBVIOUS
    <3> HIDE DEF n
    <3> QED BY <3>1, <3>2
  <2>5. \A i \in 1 .. n - 1 : SubSeq(s, 1, n - 1)[i] = s[i]
      BY <1>1
  <2> HIDE DEF f
  <2> QED BY <2>1, <2>3, <2>4, <2>5
<1>3. \A x : x \in ToSet(s) <=> \E i \in 1 .. n : s[i] = x
    BY ListOf
<1> HIDE DEF f
<1>4. \A x : x \in ToSet(f) <=> \E i \in 1 .. n - 1 : f[i] = x
    BY <1>2, ListOf
<1> HIDE DEF n
<1>5. \A i \in 1 .. n : i = n \/ i \in 1 .. n - 1
    BY <1>1
<1>6. \A i \in 1 .. n - 1 : i \in 1 .. n /\ i # n
    BY <1>1
<1>7. ToSet(s) = ToSet(f) \cup {Last(s)}
    BY <1>1, <1>2, <1>3, <1>4, <1>5, <1>6
<1>8. ASSUME Distinct(s) PROVE Distinct(f) /\ Last(s) \notin ToSet(f)
  <2>1. \A i, j \in 1 .. n : s[i] = s[j] => i = j
      BY <1>8 DEF Distinct, n
  <2>2. Distinct(f)
      BY <1>2, <1>6, <2>1 DEF Distinct
  <2>3. Last(s) \notin ToSet(f)
      BY <1>1, <1>2, <1>4, <1>6, <2>1
  <2> QED BY <2>2, <2>3
<1> QED BY <1>1, <1>2, <1>3, <1>7, <1>8 DEF n, f

(* The first items of a sequence.                                          *)
FirstOf(s, k) == SubSeq(s, 1, k)

(* One element after the other.                                            *)
LEMMA FirstNext ==
  ASSUME NEW A, NEW s \in Seq(A), NEW k \in 0 .. Len(s) - 1
  PROVE  /\ FirstOf(s, k) \in Seq(A) /\ s[k + 1] \in A
         /\ FirstOf(s, k + 1) = Append(FirstOf(s, k), s[k + 1])
<1> DEFINE n == Len(s)
<1>0. n \in Nat /\ k + 1 \in 1 .. n /\ s[k + 1] \in A /\ k \in Nat
    OBVIOUS
<1>1. FirstOf(s, k) \in Seq(A) /\ Len(FirstOf(s, k)) = k
    BY <1>0 DEF FirstOf
<1>2. FirstOf(s, k + 1) \in Seq(A) /\ Len(FirstOf(s, k + 1)) = k + 1
    BY <1>0 DEF FirstOf
<1>3. \A i \in 1 .. k : FirstOf(s, k + 1)[i] = FirstOf(s, k)[i]
    BY <1>0 DEF FirstOf
<1>4. FirstOf(s, k + 1)[k + 1] = s[k + 1]
    BY <1>0 DEF FirstOf
<1>5. Append(FirstOf(s, k), s[k + 1]) \in Seq(A) /\ Len(Append(FirstOf(s, k), s[k + 1])) = k + 1
    BY <1>0, <1>1
<1>6. \A i \in 1 .. k + 1 : FirstOf(s, k + 1)[i] = Append(FirstOf(s, k), s[k + 1])[i]
    BY <1>0, <1>1, <1>3, <1>4
<1> QED BY <1>0, <1>1, <1>2, <1>5, <1>6

(* From no element to all of them.                                         *)
LEMMA FirstNone ==
  ASSUME NEW A, NEW s \in Seq(A)
  PROVE  FirstOf(s, 0) = << >> /\ FirstOf(s, Len(s)) = s
BY DEF FirstOf

(* What has been counted is part of what there is to count.                *)
LEMMA FirstCounts ==
  ASSUME NEW A, NEW s \in Seq(A), NEW k \in 0 .. Len(s), NEW S
  PROVE  /\ Len(Keep(FirstOf(s, k), S)) \in Nat /\ Len(Keep(s, S)) \in Nat
         /\ Len(Keep(FirstOf(s, k), S)) <= Len(Keep(s, S))
<1> DEFINE a == FirstOf(s, k)
           b == SubSeq(s, k + 1, Len(s))
<1>1. a \in Seq(A) /\ b \in Seq(A)
    BY DEF FirstOf
<1>2. s = a \o b
  <2>1. Len(s) \in Nat /\ k \in 0 .. Len(s)
      OBVIOUS
  <2>2. Len(a) = k /\ \A i \in 1 .. k : s[i] = a[i]
      BY <2>1 DEF FirstOf
  <2>3. Len(b) = Len(s) - k /\ \A i \in 1 .. Len(s) - k : s[k + i] = b[i]
      BY <2>1
  <2> HIDE DEF a, b
  <2>4. Len(s) = Len(a) + Len(b)
      BY <2>1, <2>2, <2>3
  <2>5. Joined(s, a, b)
      BY <1>1, <2>2, <2>3, <2>4, JoinsUp
  <2> QED BY <2>5 DEF Joined
<1> HIDE DEF a, b
<1>3. Keep(s, S) = Keep(a, S) \o Keep(b, S)
    BY <1>1, <1>2, KeepJoined
<1> DEFINE x == Keep(a, S)
           y == Keep(b, S)
<1>4. x \in Seq(A) /\ y \in Seq(A)
    BY <1>1, KeepKeeps
<1>5. Keep(s, S) = x \o y
    BY <1>3
<1> HIDE DEF x, y
<1>6. Len(x) \in Nat /\ Len(x \o y) \in Nat /\ Len(x) <= Len(x \o y)
    BY <1>4
<1> QED BY <1>5, <1>6 DEF x, a

(* The first of the elements that are x goes.                              *)
LEMMA FirstGoes ==
  ASSUME NEW A, NEW s \in Seq(A), NEW x \in ToSet(s)
  PROVE  \E i \in 1 .. Len(s) : s[i] = x /\ RemoveFirst(s, x) = RemoveAt(s, i)
<1> DEFINE I == {i \in 1 .. Len(s) : s[i] = x}
<1>1. Len(s) \in Nat /\ \E i \in 1 .. Len(s) : s[i] = x
    BY ListOf
<1>2. I # {} /\ I \in SUBSET Nat
    BY <1>1
<1>3. \E i \in I : \A j \in I : i <= j
  <2> HIDE DEF I
  <2> QED BY <1>2, LeastNumber
<1>4. SelectInSeq(s, LAMBDA v : v = x) = Min(I)
    BY <1>2 DEF SelectInSeq
<1>5. Min(I) \in I
  <2> HIDE DEF I
  <2> QED BY <1>3 DEF Min
<1>6. RemoveFirst(s, x) = RemoveAt(s, Min(I))
    BY <1>1, <1>4 DEF RemoveFirst
<1>7. \A i \in I : i \in 1 .. Len(s) /\ s[i] = x
    OBVIOUS
<1> HIDE DEF I
<1> QED BY <1>5, <1>6, <1>7

(* One element counts once or not at all.                                  *)
LEMMA OneCounts ==
  ASSUME NEW A, NEW x \in A, NEW S
  PROVE  Len(Keep(<<x>>, S)) = IF x \in S THEN 1 ELSE 0
<1>1. << >> \in Seq(A)
    BY NoItems
<1> DEFINE e == << >>
<1>2. e \in Seq(A) /\ Append(e, x) = <<x>> /\ Keep(e, S) = e /\ Len(e) = 0
    BY <1>1, KeepNothing
<1> HIDE DEF e
<1>3. Len(Keep(Append(e, x), S)) = IF x \in S THEN Len(Keep(e, S)) + 1 ELSE Len(Keep(e, S))
    BY <1>2, CountAppended
<1> QED BY <1>2, <1>3

(* Two sequences count together.                                           *)
LEMMA JoinedCounts ==
  ASSUME NEW A, NEW s \in Seq(A), NEW t \in Seq(A), NEW S
  PROVE  /\ Len(Keep(s, S)) \in Nat /\ Len(Keep(t, S)) \in Nat
         /\ Len(Keep(s \o t, S)) = Len(Keep(s, S)) + Len(Keep(t, S))
<1>1. Keep(s \o t, S) = Keep(s, S) \o Keep(t, S)
    BY KeepJoined
<1> DEFINE a == Keep(s, S)
           b == Keep(t, S)
<1>2. a \in Seq(A) /\ b \in Seq(A)
    BY KeepKeeps
<1> HIDE DEF a, b
<1>3. Len(a \o b) = Len(a) + Len(b) /\ Len(a) \in Nat /\ Len(b) \in Nat
    BY <1>2, BehindAnother
<1> QED BY <1>1, <1>3 DEF a, b

(* It counts no more; everything else does.                                *)
LEMMA FirstGoesCounts ==
  ASSUME NEW A, NEW s \in Seq(A), NEW x \in ToSet(s), NEW S
  PROVE  /\ RemoveFirst(s, x) \in Seq(A)
         /\ Len(Keep(RemoveFirst(s, x), S)) \in Nat
         /\ Len(Keep(s, S)) = Len(Keep(RemoveFirst(s, x), S)) + (IF x \in S THEN 1 ELSE 0)
<1>1. PICK i \in 1 .. Len(s) : s[i] = x /\ RemoveFirst(s, x) = RemoveAt(s, i)
    BY FirstGoes
<1> DEFINE a == SubSeq(s, 1, i - 1)
           b == SubSeq(s, i + 1, Len(s))
           o == <<x>>
<1>2. a \in Seq(A) /\ b \in Seq(A) /\ o \in Seq(A) /\ x \in A
    BY <1>1
<1>3. RemoveFirst(s, x) = a \o b
    BY <1>1 DEF RemoveAt
<1>4. Len(Keep(o, S)) = IF x \in S THEN 1 ELSE 0
    BY <1>2, OneCounts
<1> DEFINE t == o \o b
<1>5. t \in Seq(A)
    BY <1>2
<1>6. s = a \o t
  <2>1. /\ Len(a) = i - 1 /\ \A j \in 1 .. i - 1 : a[j] = s[j]
        /\ Len(b) = Len(s) - i /\ \A j \in 1 .. Len(s) - i : b[j] = s[i + j]
      OBVIOUS
  <2>2. Len(t) = Len(b) + 1 /\ t[1] = x /\ \A j \in 1 .. Len(b) : t[j + 1] = b[j]
    <3>1. Len(o) = 1 /\ o[1] = x
        OBVIOUS
    <3> HIDE DEF a, b, o
    <3>2. Len(o \o b) = Len(o) + Len(b) /\ Len(b) \in Nat
          /\ (\A j \in 1 .. Len(o) : (o \o b)[j] = o[j])
          /\ (\A j \in 1 .. Len(b) : (o \o b)[Len(o) + j] = b[j])
        BY <1>2, BehindAnother
    <3>3. \A j \in 1 .. Len(b) : Len(o) + j = j + 1
        BY <3>1, <3>2
    <3>4. 1 \in 1 .. Len(o)
        BY <3>1
    <3> QED BY <3>1, <3>2, <3>3, <3>4
  <2> HIDE DEF a, b, o, t
  <2>3. Len(s) = Len(a) + Len(t)
      BY <1>2, <2>1, <2>2
  <2>4. ASSUME NEW j \in 1 .. Len(t) PROVE s[Len(a) + j] = t[j]
    <3>1. CASE j = 1
        BY <1>1, <2>1, <2>2, <3>1
    <3>2. CASE j # 1
      <4>1. j - 1 \in 1 .. Len(b) /\ (j - 1) + 1 = j
          BY <1>2, <2>2, <3>2
      <4>2. i + (j - 1) = Len(a) + j /\ j - 1 \in 1 .. Len(s) - i
          BY <2>1, <4>1
      <4>3. t[j] = b[j - 1] /\ b[j - 1] = s[i + (j - 1)]
          BY <2>1, <2>2, <4>1, <4>2
      <4> QED BY <4>2, <4>3
    <3> QED BY <3>1, <3>2
  <2>5. \A j \in 1 .. Len(a) : s[j] = a[j]
      BY <2>1
  <2>6. Joined(s, a, t)
      BY <1>2, <1>5, <2>3, <2>4, <2>5, JoinsUp
  <2> QED BY <2>6 DEF Joined
<1>7. Len(Keep(t, S)) = Len(Keep(o, S)) + Len(Keep(b, S))
  <2> HIDE DEF a, b, o
  <2> QED BY <1>2, JoinedCounts
<1> HIDE DEF a, b, o, t
<1>8. /\ Len(Keep(a \o t, S)) = Len(Keep(a, S)) + Len(Keep(t, S))
      /\ Len(Keep(a, S)) \in Nat /\ Len(Keep(b, S)) \in Nat
    BY <1>2, <1>5, JoinedCounts
<1>9. Len(Keep(a \o b, S)) = Len(Keep(a, S)) + Len(Keep(b, S))
    BY <1>2, JoinedCounts
<1>10. a \o b \in Seq(A)
    BY <1>2
<1>11. Len(Keep(s, S)) = Len(Keep(a, S)) + Len(Keep(t, S))
    BY <1>6, <1>8
<1> DEFINE p == RemoveFirst(s, x)
           na == Len(Keep(a, S))
           nb == Len(Keep(b, S))
<1>12. p \in Seq(A) /\ Len(Keep(p, S)) = na + nb
    BY <1>3, <1>9, <1>10
<1>13. Len(Keep(s, S)) = na + (Len(Keep(o, S)) + nb) /\ na \in Nat /\ nb \in Nat
    BY <1>7, <1>8, <1>11
<1> HIDE DEF p, na, nb
<1>14. /\ Len(Keep(p, S)) \in Nat
       /\ Len(Keep(s, S)) = Len(Keep(p, S)) + (IF x \in S THEN 1 ELSE 0)
    BY <1>4, <1>12, <1>13
<1> QED BY <1>12, <1>14 DEF p

(***************************************************************************)
(* The queues.                                                             *)
(***************************************************************************)
(* The head, and those behind it.                                          *)
LEMMA HeadCounts ==
  ASSUME NEW A, NEW s \in Seq(A), s # << >>, NEW S
  PROVE  /\ Head(s) \in A /\ Tail(s) \in Seq(A)
         /\ Len(Keep(s, S)) \in Nat /\ Len(Keep(Tail(s), S)) \in Nat
         /\ Len(Keep(s, S)) = Len(Keep(Tail(s), S)) + (IF Head(s) \in S THEN 1 ELSE 0)
<1> DEFINE x == Head(s)
           o == <<x>>
           t == Tail(s)
<1>1. x \in A /\ o \in Seq(A) /\ t \in Seq(A) /\ Len(o) = 1 /\ o[1] = x
    OBVIOUS
<1>2. Len(s) = Len(o) + Len(t) /\ s[1] = x /\ \A i \in 1 .. Len(t) : s[1 + i] = t[i]
    OBVIOUS
<1> HIDE DEF o, t, x
<1>3. \A i \in 1 .. Len(o) : s[i] = o[i]
    BY <1>1, <1>2
<1>4. \A i \in 1 .. Len(t) : s[Len(o) + i] = t[i]
    BY <1>1, <1>2
<1>5. s = o \o t
    BY <1>1, <1>2, <1>3, <1>4, JoinsUp DEF Joined
<1>6. /\ Len(Keep(o, S)) \in Nat /\ Len(Keep(t, S)) \in Nat
      /\ Len(Keep(o \o t, S)) = Len(Keep(o, S)) + Len(Keep(t, S))
    BY <1>1, JoinedCounts
<1>7. Len(Keep(o, S)) = IF x \in S THEN 1 ELSE 0
    BY <1>1, OneCounts DEF o
<1>8. Len(Keep(s, S)) = Len(Keep(o, S)) + Len(Keep(t, S))
    BY <1>5, <1>6
<1> QED BY <1>1, <1>6, <1>7, <1>8 DEF t, x
=============================================================================
