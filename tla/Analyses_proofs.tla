---------------------------- MODULE Analyses_proofs ----------------------------
(***************************************************************************)
(* Proofs about what is computed from lists of events, alerts, messages    *)
(* and readings.  First the lists themselves: folds, sorting,              *)
(* comprehensions and sums, for lists of any length.  Then Escalation,     *)
(* for any policy and window; ContextAssembly, for any material and any    *)
(* budget; RootCause, for any decay; Anomalies, for any lookback; and      *)
(* Predictions, for any events.                                            *)
(***************************************************************************)
EXTENDS Escalation, ContextAssembly, RootCause, Anomalies, Predictions, WellFoundedInduction,
        FiniteSetTheorems, SequenceTheorems, TLAPS

------------------------------------------------------------------------------
(* Lists and sets of naturals. *)

\* A set of naturals with a bound has a greatest element.
LEMMA GreatestExists ==
    ASSUME NEW n \in Nat, NEW T \in SUBSET (0 .. n), T # {}
    PROVE  \E x \in T : \A y \in T : y <= x
<1> DEFINE D == {n - y : y \in T}
<1>1. D \subseteq Nat /\ D # {}
  <2>1. \A y \in T : n - y \in Nat
    OBVIOUS
  <2> QED
    BY <2>1
<1> HIDE DEF D
<1> DEFINE R == {ss \in Nat \X Nat : ss[1] < ss[2]}
<1>2. IsWellFoundedOn(R, Nat)
  BY NatLessThanWellFounded DEF OpToRel
<1>3. \A x, y \in Nat : x < y => <<x, y>> \in R
  OBVIOUS
<1> HIDE DEF R
<1>4. PICK m \in D : \A d \in D : <<d, m>> \notin R
  BY <1>1, <1>2, WFMin
<1>5. ASSUME NEW d \in D PROVE m <= d
  <2>1. d \in Nat /\ m \in Nat
    BY <1>1
  <2>2. ~(d < m)
    BY <1>3, <1>4, <2>1
  <2> QED
    BY <2>1, <2>2
<1>6. PICK x \in T : m = n - x
  BY <1>4 DEF D
<1>7. ASSUME NEW y \in T PROVE y <= x
  <2>1. n - y \in D
    BY DEF D
  <2>2. m <= n - y
    BY <1>5, <2>1
  <2> QED
    BY <1>6, <2>2
<1> QED
  BY <1>7

------------------------------------------------------------------------------
(* Folds.  FoldLeft is a recursive function on the sets of the places of a sequence; *)
(* a loop of the code that folds is the induction over its first k places.           *)

\* Induction up to a number, with the set of the numbers it has been shown of.
LEMMA UpTo ==
    ASSUME NEW n \in Nat, NEW G, 0 \in G, \A k \in 1 .. n : k - 1 \in G => k \in G
    PROVE  \A k \in 0 .. n : k \in G
<1> DEFINE D == {n - k : k \in (0 .. n) \ G}
<1> SUFFICES ASSUME D # {} PROVE FALSE
  OBVIOUS
<1>1. \A k \in (0 .. n) \ G : n - k \in 0 .. n
  OBVIOUS
<1>2. D \in SUBSET (0 .. n)
  BY <1>1
<1>3. PICK x \in D : \A y \in D : y <= x
  BY <1>2, GreatestExists
<1>4. PICK k \in (0 .. n) \ G : x = n - k
  BY <1>3
<1>5. k # 0 /\ k - 1 \in 0 .. n /\ k - 1 \notin G
  BY <1>4
<1>6. n - (k - 1) \in D
  BY <1>5
<1>7. n - (k - 1) <= n - k
  BY <1>3, <1>4, <1>6
<1> QED
  BY <1>7

\* Max of a set of places is one of them.
LEMMA MaxFacts ==
    ASSUME NEW n \in Nat, NEW s \in SUBSET (1 .. n), s # {}
    PROVE  Max(s) \in s /\ \A k \in s : k <= Max(s)
<1>1. s \in SUBSET (0 .. n)
  OBVIOUS
<1>2. PICK x \in s : \A y \in s : y <= x
  BY <1>1, GreatestExists
<1>3. \A y \in s : x >= y
  BY <1>2
<1> QED
  BY <1>3 DEF Max

\* One turn of a loop over n places, its values in V.
StepFunction(n, V, step) == step \in [(1 .. n) \X V -> V]

\* The recursive function of MapThenFoldSet, over the places 1 to n.
FoldOver(n, V, base, step, g) ==
    /\ g \in [SUBSET (1 .. n) -> V]
    /\ \A s \in SUBSET (1 .. n) :
          g[s] = IF s = {} THEN base ELSE step[<<Max(s), g[s \ {Max(s)}]>>]

\* A fold over the places 1 to n has a value in every set of places.
LEMMA FoldExists ==
    ASSUME NEW n \in Nat, NEW V, NEW base \in V, NEW step, StepFunction(n, V, step)
    PROVE  \E g : FoldOver(n, V, base, step, g)
<1> USE DEF StepFunction
<1> DEFINE Folds(k, g) ==
             \A s \in SUBSET (1 .. k) :
                 g[s] = IF s = {} THEN base ELSE step[<<Max(s), g[s \ {Max(s)}]>>]
           G == {k \in 0 .. n : \E g \in [SUBSET (1 .. k) -> V] : Folds(k, g)}
<1>1. 0 \in G
  <2>1. PICK z \in 0 .. n : z = 0
    OBVIOUS
  <2> DEFINE g == [s \in SUBSET (1 .. z) |-> base]
  <2>2. g \in [SUBSET (1 .. z) -> V] /\ \A s \in SUBSET (1 .. z) : s = {} /\ g[s] = base
    BY <2>1
  <2> HIDE DEF g
  <2>3. Folds(z, g)
    BY <2>2
  <2> HIDE DEF Folds
  <2>4. \E h \in [SUBSET (1 .. z) -> V] : Folds(z, h)
    BY <2>2, <2>3
  <2>5. z \in G
    BY <2>4
  <2> QED
    BY <2>1, <2>5
<1>2. ASSUME NEW k \in 1 .. n, k - 1 \in G PROVE k \in G
  <2>1. PICK f \in [SUBSET (1 .. k - 1) -> V] : Folds(k - 1, f)
    BY <1>2
  <2> DEFINE g == [s \in SUBSET (1 .. k) |-> IF k \in s THEN step[<<k, f[s \ {k}]>>] ELSE f[s]]
  <2>2. ASSUME NEW s \in SUBSET (1 .. k)
        PROVE  /\ s \ {k} \in SUBSET (1 .. k - 1)
               /\ k \notin s => s \in SUBSET (1 .. k - 1)
    OBVIOUS
  <2>3. g \in [SUBSET (1 .. k) -> V]
    BY <2>1, <2>2
  <2>4. \A s \in SUBSET (1 .. k) : g[s] = IF k \in s THEN step[<<k, f[s \ {k}]>>] ELSE f[s]
    OBVIOUS
  <2> HIDE DEF g
  <2>5. ASSUME NEW s \in SUBSET (1 .. k), s # {}
        PROVE  g[s] = step[<<Max(s), g[s \ {Max(s)}]>>]
    <3>0. k \in Nat
      OBVIOUS
    <3>1. Max(s) \in s /\ (\A m \in s : m <= Max(s)) /\ s \ {Max(s)} \in SUBSET (1 .. k)
      BY <2>5, <3>0, MaxFacts
    <3>2. CASE k \in s
      <4>1. Max(s) = k
        <5>1. Max(s) \in 1 .. k /\ k <= Max(s)
          BY <3>1, <3>2
        <5> QED
          BY <5>1
      <4>2. g[s \ {k}] = f[s \ {k}]
        BY <2>2, <2>4
      <4> QED
        BY <2>4, <3>2, <4>1, <4>2
    <3>3. CASE k \notin s
      <4>1. s \in SUBSET (1 .. k - 1)
        BY <2>2, <3>3
      <4>2. f[s] = step[<<Max(s), f[s \ {Max(s)}]>>]
        BY <2>1, <2>5, <4>1
      <4>3. g[s \ {Max(s)}] = f[s \ {Max(s)}]
        BY <2>4, <3>1, <3>3
      <4> QED
        BY <2>4, <3>3, <4>2, <4>3
    <3> QED
      BY <3>2, <3>3
  <2>6. g[{}] = base
    <3>1. f[{}] = base
      BY <2>1
    <3> QED
      BY <2>4, <3>1
  <2>7. Folds(k, g)
    BY <2>5, <2>6
  <2> HIDE DEF Folds
  <2>8. \E h \in [SUBSET (1 .. k) -> V] : Folds(k, h)
    BY <2>3, <2>7
  <2> QED
    BY <2>8
<1> HIDE DEF G
<1>3. n \in G
  BY <1>1, <1>2, UpTo
<1> QED
  BY <1>3 DEF G, FoldOver

\* The last of the first k places.
LEMMA MaxUpTo ==
    ASSUME NEW k \in Nat \ {0}
    PROVE  Max(1 .. k) = k /\ (1 .. k) \ {k} = 1 .. k - 1
<1>0. 1 .. k \in SUBSET (1 .. k) /\ k \in 1 .. k
  OBVIOUS
<1>1. Max(1 .. k) \in 1 .. k /\ \A m \in 1 .. k : m <= Max(1 .. k)
  BY <1>0, MaxFacts
<1> QED
  BY <1>1

------------------------------------------------------------------------------
(* Sums, as a loop runs them up. *)

\* The running sum of a list.
Running(list, acc) ==
    /\ acc \in [0 .. Len(list) -> Int] /\ acc[0] = 0
    /\ \A k \in 1 .. Len(list) : acc[k] = acc[k - 1] + list[k]

\* Sum is the last value of the running sum, which every list has.
LEMMA SumRuns ==
    ASSUME NEW list \in Seq(Int)
    PROVE  \E acc : Running(list, acc) /\ Sum(list) = acc[Len(list)]
<1> DEFINE n == Len(list)
           W == Int
           step == [p \in (1 .. n) \X W |-> p[2] + list[p[1]]]
<1>1. n \in Nat /\ DOMAIN list = 1 .. n /\ \A k \in 1 .. n : list[k] \in Int
  OBVIOUS
<1>2. StepFunction(n, W, step) /\ \A k \in 1 .. n, v \in Int : step[<<k, v>>] = v + list[k]
  BY <1>1 DEF StepFunction
<1> HIDE DEF n, step, W
<1> DEFINE Z == 0
<1> HIDE DEF Z
<1>3. PICK g : FoldOver(n, W, Z, step, g)
  <2>1. Z \in W
    BY DEF Z, W
  <2> QED
    BY <1>1, <1>2, <2>1, FoldExists
<1>4. \A s \in SUBSET (1 .. n) : g[s] = IF s = {} THEN Z ELSE g[s \ {Max(s)}] + list[Max(s)]
  <2> SUFFICES ASSUME NEW s \in SUBSET (1 .. n), s # {} PROVE g[s] = g[s \ {Max(s)}] + list[Max(s)]
    BY <1>3 DEF FoldOver
  <2>1. Max(s) \in 1 .. n /\ g[s \ {Max(s)}] \in Int
    BY <1>1, <1>3, MaxFacts DEF W, FoldOver
  <2> QED
    BY <1>2, <1>3, <2>1 DEF FoldOver
<1>5. g = [s \in SUBSET (1 .. n) |-> IF s = {} THEN 0 ELSE g[s \ {Max(s)}] + list[Max(s)]]
  BY <1>3, <1>4 DEF Z, FoldOver
<1>6. PICK it : /\ it = [s \in SUBSET (1 .. n) |-> IF s = {} THEN 0 ELSE it[s \ {Max(s)}] + list[Max(s)]]
                /\ Sum(list) = it[1 .. n]
  BY <1>1, <1>5 DEF Sum, FoldLeft, MapThenFoldSet
<1> DEFINE acc == [k \in 0 .. n |-> it[1 .. k]]
<1>7. it[1 .. 0] = 0
  BY <1>1, <1>6
<1>8. ASSUME NEW k \in 1 .. n PROVE it[1 .. k] = it[1 .. k - 1] + list[k]
  <2>1. 1 .. k \in SUBSET (1 .. n) /\ 1 .. k # {}
    <3>1. k \in 1 .. k /\ \A m \in 1 .. k : m \in 1 .. n
      BY <1>1
    <3> QED
      BY <3>1
  <2>2. Max(1 .. k) = k /\ (1 .. k) \ {k} = 1 .. k - 1
    BY <1>1, MaxUpTo
  <2> QED
    BY <1>6, <2>1, <2>2
<1>9. \A k \in 0 .. n : it[1 .. k] \in Int
  <2> DEFINE G == {k \in 0 .. n : it[1 .. k] \in Int}
  <2>1. 0 \in G
    BY <1>1, <1>7
  <2>2. ASSUME NEW k \in 1 .. n, k - 1 \in G PROVE k \in G
    BY <1>1, <1>8, <2>2
  <2>3. \A k \in 0 .. n : k \in G
    <3> HIDE DEF G
    <3> QED
      BY <1>1, <2>1, <2>2, UpTo
  <2> QED
    BY <2>3
<1>10. Running(list, acc)
  BY <1>1, <1>7, <1>8, <1>9 DEF Running, n
<1>11. Sum(list) = acc[n]
  <2>1. n \in 0 .. n
    BY <1>1
  <2>2. acc[n] = it[1 .. n]
    BY <2>1
  <2>3. Sum(list) = it[1 .. n]
    BY <1>6
  <2> QED
    BY <2>2, <2>3
<1> QED
  BY <1>10, <1>11 DEF n

\* The running sum of a list is that of every list that begins like it.
LEMMA SumOfPrefix ==
    ASSUME NEW list \in Seq(Int), NEW acc, Running(list, acc),
           NEW m \in 0 .. Len(list), NEW pre \in Seq(Int), Len(pre) = m,
           \A i \in 1 .. m : pre[i] = list[i]
    PROVE  Sum(pre) = acc[m]
<1>1. PICK b : Running(pre, b) /\ Sum(pre) = b[m]
  BY SumRuns
<1>2. m \in Nat /\ Len(list) \in Nat /\ \A i \in 1 .. m : i \in 1 .. Len(list)
  OBVIOUS
<1> DEFINE G == {k \in 0 .. m : b[k] = acc[k]}
<1>3. 0 \in G
  BY <1>1, <1>2 DEF Running
<1>4. ASSUME NEW k \in 1 .. m, k - 1 \in G PROVE k \in G
  <2>1. b[k] = b[k - 1] + pre[k]
    BY <1>1 DEF Running
  <2>2. acc[k] = acc[k - 1] + list[k]
    BY <1>2 DEF Running
  <2> QED
    BY <1>2, <1>4, <2>1, <2>2
<1>5. \A k \in 0 .. m : k \in G
  <2> HIDE DEF G
  <2> QED
    BY <1>2, <1>3, <1>4, UpTo
<1>6. m \in 0 .. m
  BY <1>2
<1> QED
  BY <1>1, <1>5, <1>6

\* A fold each of whose turns is one of step, as far as its values are in V.
Unfolds(n, V, base, step, it) ==
    /\ it[{}] = base
    /\ \A s \in SUBSET (1 .. n) :
          s # {} /\ it[s \ {Max(s)}] \in V => it[s] = step[<<Max(s), it[s \ {Max(s)}]>>]

\* What such a fold goes through, from the first place to the last.
LEMMA FoldValues ==
    ASSUME NEW n \in Nat, NEW V, NEW base \in V, NEW step, StepFunction(n, V, step),
           NEW it, Unfolds(n, V, base, step, it)
    PROVE  \E h \in [0 .. n -> V] :
              h[0] = base /\ h[n] = it[1 .. n] /\ \A k \in 1 .. n : h[k] = step[<<k, h[k - 1]>>]
<1> DEFINE h == [k \in 0 .. n |-> it[1 .. k]]
           G == {k \in 0 .. n : it[1 .. k] \in V}
<1> USE DEF Unfolds
<1>1. 1 .. 0 = {}
  OBVIOUS
<1>2. ASSUME NEW k \in 1 .. n, it[1 .. k - 1] \in V
      PROVE  it[1 .. k] = step[<<k, it[1 .. k - 1]>>] /\ it[1 .. k] \in V
  <2>1. 1 .. k \in SUBSET (1 .. n) /\ 1 .. k # {}
    <3>1. k \in 1 .. k /\ \A m \in 1 .. k : m \in 1 .. n
      OBVIOUS
    <3> QED
      BY <3>1
  <2>2. Max(1 .. k) = k /\ (1 .. k) \ {k} = 1 .. k - 1
    BY MaxUpTo
  <2>3. it[1 .. k] = step[<<k, it[1 .. k - 1]>>]
    BY <1>2, <2>1, <2>2
  <2> QED
    BY <1>2, <2>3 DEF StepFunction
<1>3. \A k \in 0 .. n : k \in G
  <2>1. 0 \in G
    BY <1>1
  <2>2. ASSUME NEW k \in 1 .. n, k - 1 \in G PROVE k \in G
    <3>1. it[1 .. k - 1] \in V
      BY <2>2
    <3>2. it[1 .. k] \in V
      BY <1>2, <3>1
    <3> QED
      BY <3>2
  <2> HIDE DEF G
  <2> QED
    BY <2>1, <2>2, UpTo
<1>4. h \in [0 .. n -> V] /\ h[0] = base /\ h[n] = it[1 .. n]
  BY <1>1, <1>3
<1>5. ASSUME NEW k \in 1 .. n PROVE h[k] = step[<<k, h[k - 1]>>]
  <2>1. k \in 0 .. n /\ k - 1 \in 0 .. n
    OBVIOUS
  <2>2. it[1 .. k - 1] \in V
    BY <1>3, <2>1
  <2> QED
    BY <1>2, <2>1, <2>2
<1> HIDE DEF h
<1> QED
  BY <1>4, <1>5

------------------------------------------------------------------------------
(* The places of a list, and sets of naturals in ascending order. *)

\* What the loop of Ascending has kept after each of its turns.
Ascends(n, set, h) ==
    /\ h \in [0 .. n -> Seq(1 .. n)] /\ h[0] = <<>>
    /\ \A k \in 1 .. n : h[k] = IF k \in set THEN Append(h[k - 1], k) ELSE h[k - 1]

\* Ascending is the last of the lists its fold goes through.
LEMMA AscendingRuns ==
    ASSUME NEW n \in Nat, NEW set
    PROVE  \E h : Ascends(n, set, h) /\ Ascending(n, set) = h[n]
<1> DEFINE V == Seq(1 .. n)
           Turn(kept, i) == IF i \in set THEN Append(kept, i) ELSE kept
           step == [p \in (1 .. n) \X V |-> Turn(p[2], p[1])]
           base == <<>>
           turns == Turns(n)
<1>1. ASSUME NEW kept \in V, NEW k \in 1 .. n PROVE Turn(kept, k) \in V
  <2>1. kept \in Seq(1 .. n) /\ Append(kept, k) \in Seq(1 .. n)
    OBVIOUS
  <2> QED
    BY <2>1
<1>2. turns = [k \in 1 .. n |-> k] /\ DOMAIN turns = 1 .. n /\ \A k \in 1 .. n : turns[k] = k
  BY DEF Turns
<1> HIDE DEF Turn, turns
<1>3. StepFunction(n, V, step) /\ \A k \in 1 .. n, s \in V : step[<<k, s>>] = Turn(s, k)
  BY <1>1 DEF StepFunction
<1>4. base \in V
  OBVIOUS
<1> HIDE DEF step, V, base
<1> DEFINE P(f) == f = [s \in SUBSET DOMAIN turns |-> IF s = {} THEN base ELSE Turn(f[s \ {Max(s)}], turns[Max(s)])]
<1>5. PICK g : FoldOver(n, V, base, step, g)
  BY <1>3, <1>4, FoldExists
<1>6. ASSUME NEW s \in SUBSET (1 .. n), s # {} PROVE Max(s) \in 1 .. n /\ turns[Max(s)] = Max(s)
  BY <1>2, <1>6, MaxFacts
<1>7. P(g)
  <2>1. ASSUME NEW s \in SUBSET (1 .. n), s # {} PROVE g[s] = Turn(g[s \ {Max(s)}], turns[Max(s)])
    <3>1. g[s \ {Max(s)}] \in V
      BY <1>5, <2>1 DEF FoldOver
    <3> QED
      BY <1>3, <1>5, <1>6, <2>1, <3>1 DEF FoldOver
  <2> QED
    BY <1>2, <1>5, <2>1 DEF FoldOver
<1>8. PICK it : P(it) /\ Ascending(n, set) = it[DOMAIN turns]
  <2>1. P(CHOOSE f : P(f))
    <3> HIDE DEF P
    <3> QED
      BY <1>7
  <2>2. Ascending(n, set) = (CHOOSE f : P(f))[DOMAIN turns]
    BY Zenon DEF Ascending, FoldLeft, MapThenFoldSet, Turn, base, turns
  <2> QED
    BY <2>1, <2>2
<1>9. it[{}] = base
  BY <1>2, <1>8
<1>10. ASSUME NEW s \in SUBSET (1 .. n), s # {}, it[s \ {Max(s)}] \in V
       PROVE  it[s] = step[<<Max(s), it[s \ {Max(s)}]>>]
  <2>1. it[s] = Turn(it[s \ {Max(s)}], turns[Max(s)])
    BY <1>2, <1>8, <1>10
  <2> QED
    BY <1>3, <1>6, <1>10, <2>1
<1> HIDE DEF P
<1>11. PICK h \in [0 .. n -> V] :
         h[0] = base /\ h[n] = it[1 .. n] /\ \A k \in 1 .. n : h[k] = step[<<k, h[k - 1]>>]
  <2>1. Unfolds(n, V, base, step, it)
    BY <1>9, <1>10 DEF Unfolds
  <2> QED
    BY <1>3, <1>4, <2>1, FoldValues
<1>12. ASSUME NEW k \in 1 .. n PROVE h[k] = IF k \in set THEN Append(h[k - 1], k) ELSE h[k - 1]
  <2>1. k - 1 \in 0 .. n /\ h[k - 1] \in V
    BY <1>11
  <2> QED
    BY <1>3, <1>11, <2>1 DEF Turn
<1>13. Ascending(n, set) = h[n]
  BY <1>2, <1>8, <1>11
<1> QED
  BY <1>11, <1>12, <1>13 DEF Ascends, V, base

\* Ascending depends on nothing but which of the numbers are in the set, and goes on from its
\* beginnings.
LEMMA AscendingNext ==
    ASSUME NEW n \in Nat, NEW m \in 0 .. n, NEW set, NEW other, \A i \in 1 .. m : i \in set <=> i \in other
    PROVE  /\ m = n => Ascending(n, set) = Ascending(m, other)
           /\ m = 0 => Ascending(m, other) = <<>>
           /\ n = m + 1 => Ascending(n, set) = IF n \in set THEN Append(Ascending(m, other), n) ELSE Ascending(m, other)
<1>1. m \in Nat
  OBVIOUS
<1>2. PICK g : Ascends(n, set, g) /\ Ascending(n, set) = g[n]
  BY AscendingRuns
<1>3. PICK h : Ascends(m, other, h) /\ Ascending(m, other) = h[m]
  BY <1>1, AscendingRuns
<1> DEFINE G == {k \in 0 .. m : g[k] = h[k]}
<1>4. 0 \in G
  BY <1>1, <1>2, <1>3 DEF Ascends
<1>5. ASSUME NEW k \in 1 .. m, k - 1 \in G PROVE k \in G
  <2>1. k \in 1 .. n /\ k \in 0 .. m
    BY <1>1
  <2> QED
    BY <1>2, <1>3, <1>5, <2>1 DEF Ascends
<1>6. \A k \in 0 .. m : k \in G
  <2> HIDE DEF G
  <2> QED
    BY <1>1, <1>4, <1>5, UpTo
<1>7. g[m] = h[m] /\ h[0] = <<>>
  BY <1>1, <1>3, <1>6 DEF Ascends
<1>8. n = m + 1 => g[n] = IF n \in set THEN Append(g[m], n) ELSE g[m]
  <2> SUFFICES ASSUME n = m + 1 PROVE g[n] = IF n \in set THEN Append(g[m], n) ELSE g[m]
    OBVIOUS
  <2>1. n \in 1 .. n /\ n - 1 = m
    BY <1>1
  <2> QED
    BY <1>2, <2>1 DEF Ascends
<1> QED
  BY <1>2, <1>3, <1>7, <1>8

\* It has the numbers of the set, each once and in order.
LEMMA AscendingFacts ==
    ASSUME NEW n \in Nat, NEW set
    PROVE  /\ Ascending(n, set) \in Seq((1 .. n) \cap set)
           /\ Range(Ascending(n, set)) = (1 .. n) \cap set
           /\ \A i, j \in DOMAIN Ascending(n, set) : i < j => Ascending(n, set)[i] < Ascending(n, set)[j]
<1>1. PICK h : Ascends(n, set, h) /\ Ascending(n, set) = h[n]
  BY AscendingRuns
<1> DEFINE Good(k, s) ==
      /\ s \in Seq((1 .. k) \cap set) /\ Range(s) = (1 .. k) \cap set
      /\ \A i, j \in DOMAIN s : i < j => s[i] < s[j]
           G == {k \in 0 .. n : Good(k, h[k])}
<1>2. 0 \in G
  <2>1. h[0] = <<>> /\ 1 .. 0 = {}
    BY <1>1 DEF Ascends
  <2>2. Range(<<>>) = {} /\ <<>> \in Seq((1 .. 0) \cap set) /\ DOMAIN <<>> = {}
    BY <2>1 DEF Range
  <2>3. Good(0, h[0])
    BY <2>1, <2>2
  <2> HIDE DEF Good
  <2> QED
    BY <2>3
<1>3. ASSUME NEW k \in 1 .. n, k - 1 \in G PROVE k \in G
  <2> DEFINE s == h[k - 1]
             t == h[k]
  <2>1. s \in Seq((1 .. k - 1) \cap set) /\ Range(s) = (1 .. k - 1) \cap set
        /\ \A i, j \in DOMAIN s : i < j => s[i] < s[j]
    BY <1>3
  <2>2. t = IF k \in set THEN Append(s, k) ELSE s
    BY <1>1 DEF Ascends
  <2> HIDE DEF s, t
  <2>3. CASE k \notin set
    <3>1. (1 .. k) \cap set = (1 .. k - 1) \cap set
      BY <2>3
    <3> QED
      BY <2>1, <2>2, <2>3, <3>1 DEF t
  <2>4. CASE k \in set
    <3>1. (1 .. k) \cap set = ((1 .. k - 1) \cap set) \cup {k}
      BY <2>4
    <3>2. PICK m \in Nat : m = Len(s)
      BY <2>1
    <3>3. s \in Seq((1 .. k) \cap set)
      BY <2>1, <3>1, SeqMonotonic
    <3>4. /\ t \in Seq((1 .. k) \cap set) /\ DOMAIN t = 1 .. m + 1 /\ t[m + 1] = k
          /\ \A i \in 1 .. m : t[i] = s[i] /\ t[i] < k
          /\ DOMAIN s = 1 .. m
      <4>1. \A i \in 1 .. m : s[i] \in 1 .. k - 1
        BY <2>1, <3>2
      <4>2. t = Append(s, k) /\ k \in (1 .. k) \cap set
        BY <2>2, <2>4
      <4>3. /\ t \in Seq((1 .. k) \cap set) /\ DOMAIN t = 1 .. m + 1 /\ t[m + 1] = k
            /\ \A i \in 1 .. m : t[i] = s[i]
            /\ DOMAIN s = 1 .. m
        BY <3>2, <3>3, <4>2
      <4>4. \A i \in 1 .. m : t[i] < k
        BY <4>1, <4>3
      <4> QED
        BY <4>3, <4>4
    <3>5. Range(t) = Range(s) \cup {k}
      <4>1. \A i \in 1 .. m + 1 : i \in 1 .. m \/ i = m + 1
        BY <3>2
      <4>2. m + 1 \in 1 .. m + 1 /\ \A i \in 1 .. m : i \in 1 .. m + 1
        BY <3>2
      <4> QED
        BY <3>4, <4>1, <4>2 DEF Range
    <3>6. ASSUME NEW i \in DOMAIN t, NEW j \in DOMAIN t, i < j PROVE t[i] < t[j]
      <4>1. i \in 1 .. m /\ (j \in 1 .. m \/ j = m + 1)
        BY <3>2, <3>4, <3>6
      <4> QED
        BY <2>1, <3>4, <3>6, <4>1
    <3>7. Good(k, t)
      BY <2>1, <3>1, <3>4, <3>5, <3>6
    <3> QED
      BY <3>7 DEF t
  <2> QED
    BY <2>3, <2>4
<1>4. \A k \in 0 .. n : k \in G
  <2> HIDE DEF G
  <2> QED
    BY <1>2, <1>3, UpTo
<1>5. n \in G
  <2>1. n \in 0 .. n
    OBVIOUS
  <2> QED
    BY <1>4, <2>1
<1> QED
  BY <1>1, <1>5

------------------------------------------------------------------------------
(* Arranging a set by keys. *)

\* Keys to sort by: pairs of integers, no two of them equal.
AreKeys(key) ==
    /\ IsFiniteSet(DOMAIN key)
    /\ \A x \in DOMAIN key : key[x] \in Int \X Int
    /\ \A x, y \in DOMAIN key : key[x] = key[y] => x = y

\* Precedes is a strict order of pairs, and a total one.
LEMMA PrecedesIsAnOrder ==
    /\ \A p, q \in Int \X Int : p = q \/ Precedes(p, q) \/ Precedes(q, p)
    /\ \A p, q, r \in Int \X Int : Precedes(p, q) /\ Precedes(q, r) => Precedes(p, r)
    /\ \A p \in Int \X Int : ~Precedes(p, p)
BY DEF Precedes

\* A finite set with keys has a least element.
LEMMA LeastFacts ==
    ASSUME NEW key, AreKeys(key), NEW rest \in SUBSET DOMAIN key, rest # {}
    PROVE  /\ Least(key, rest) \in rest
           /\ \A y \in rest \ {Least(key, rest)} : Precedes(key[Least(key, rest)], key[y])
<1>1. IsFiniteSet(rest)
  BY FS_Subset DEF AreKeys
<1>2. PICK n \in Nat : ExistsBijection(1 .. n, rest)
  BY <1>1, FS_NatBijection
<1>3. PICK f \in [1 .. n -> rest] : \A x \in rest : \E i \in 1 .. n : f[i] = x
  BY <1>2 DEF ExistsBijection, Bijection, Surjection
<1>4. \A x \in rest : x \in DOMAIN key /\ key[x] \in Int \X Int
  BY DEF AreKeys
<1> DEFINE First(k, x) == \A i \in 1 .. k : f[i] = x \/ Precedes(key[x], key[f[i]])
           G == {k \in 0 .. n : k > 0 => \E x \in rest : First(k, x)}
<1>5. 0 \in G
  OBVIOUS
<1>6. ASSUME NEW k \in 1 .. n, k - 1 \in G PROVE k \in G
  <2>1. f[k] \in rest
    OBVIOUS
  <2>2. CASE k = 1
    <3>1. First(k, f[k])
      BY <2>2
    <3> QED
      BY <2>1, <3>1
  <2>3. CASE k # 1
    <3>1. PICK x \in rest : First(k - 1, x)
      BY <1>6, <2>3
    <3>2. \A i \in 1 .. k : i \in 1 .. k - 1 \/ i = k
      OBVIOUS
    <3>3. key[x] \in Int \X Int /\ key[f[k]] \in Int \X Int
      BY <1>4, <2>1
    <3>4. key[x] = key[f[k]] \/ Precedes(key[x], key[f[k]]) \/ Precedes(key[f[k]], key[x])
      BY <3>3, PrecedesIsAnOrder
    <3>5. CASE key[x] = key[f[k]] \/ Precedes(key[x], key[f[k]])
      <4>1. f[k] = x \/ Precedes(key[x], key[f[k]])
        BY <1>4, <2>1, <3>5 DEF AreKeys
      <4>2. First(k, x)
        BY <3>1, <3>2, <4>1
      <4> QED
        BY <4>2
    <3>6. CASE Precedes(key[f[k]], key[x])
      <4>1. ASSUME NEW i \in 1 .. k - 1 PROVE Precedes(key[f[k]], key[f[i]])
        <5>1. i \in 1 .. n /\ f[i] \in rest
          OBVIOUS
        <5>2. key[f[i]] \in Int \X Int
          BY <1>4, <5>1
        <5>3. f[i] = x \/ Precedes(key[x], key[f[i]])
          BY <3>1
        <5> QED
          BY <3>3, <3>6, <5>2, <5>3, PrecedesIsAnOrder
      <4>2. First(k, f[k])
        BY <3>2, <4>1
      <4> QED
        BY <2>1, <4>2
    <3> QED
      BY <3>4, <3>5, <3>6
  <2> QED
    BY <2>2, <2>3
<1>7. \A k \in 0 .. n : k \in G
  <2> HIDE DEF G
  <2> QED
    BY <1>5, <1>6, UpTo
<1>8. n # 0 /\ n \in 0 .. n
  BY <1>3
<1>9. PICK x \in rest : First(n, x)
  <2>1. n > 0
    BY <1>8
  <2>2. n \in G
    <3> HIDE DEF G
    <3> QED
      BY <1>7, <1>8
  <2> HIDE DEF First
  <2> QED
    BY <2>1, <2>2
<1>10. \A y \in rest \ {x} : Precedes(key[x], key[y])
  BY <1>3, <1>9
<1> QED
  BY <1>10 DEF Least

\* The first k of what Arranged has put in order.
Arranging(key, k, a) ==
    /\ a \in Seq(DOMAIN key) /\ Len(a) = k
    /\ \A i, j \in 1 .. k : i < j => Precedes(key[a[i]], key[a[j]])
    /\ \A i \in 1 .. k : \A y \in DOMAIN key \ Range(a) : Precedes(key[a[i]], key[y])

\* One element more is arranged.
LEMMA ArrangingNext ==
    ASSUME NEW key, AreKeys(key), NEW k \in Nat, k < Cardinality(DOMAIN key), NEW a, Arranging(key, k, a)
    PROVE  Arranging(key, k + 1, Append(a, Least(key, DOMAIN key \ Range(a))))
<1> DEFINE S == DOMAIN key
           rest == S \ Range(a)
           x == Least(key, rest)
           b == Append(a, x)
<1>1. a \in Seq(S) /\ Len(a) = k /\ DOMAIN a = 1 .. k /\ a \in [1 .. k -> S] /\ Range(a) \subseteq S
      /\ \A i \in 1 .. k : a[i] \in Range(a)
  BY DEF Arranging, Range
<1>2. rest # {}
  <2> SUFFICES ASSUME rest = {} PROVE FALSE
    OBVIOUS
  <2>1. Range(a) = S
    BY <1>1
  <2>2. a \in Surjection(1 .. k, S)
    BY <1>1, <2>1 DEF Surjection, Range
  <2>3. IsFiniteSet(1 .. k) /\ Cardinality(1 .. k) = k
    BY FS_Interval
  <2>4. IsFiniteSet(S) /\ Cardinality(S) <= k
    BY <2>2, <2>3, FS_Surjection
  <2>5. Cardinality(S) \in Nat
    BY <2>4, FS_CardinalityType
  <2> QED
    BY <2>4, <2>5
<1>3. x \in rest /\ \A y \in rest \ {x} : Precedes(key[x], key[y])
  BY <1>2, LeastFacts
<1> HIDE DEF x
<1>4. b \in Seq(S) /\ Len(b) = k + 1 /\ b[k + 1] = x /\ \A i \in 1 .. k : b[i] = a[i]
  BY <1>1, <1>3
<1>5. DOMAIN b = 1 .. k + 1
  BY <1>4
<1> HIDE DEF b
<1>6. \A i \in 1 .. k + 1 : i \in 1 .. k \/ i = k + 1
  OBVIOUS
<1>7. Range(b) = Range(a) \cup {x}
  <2>1. k + 1 \in 1 .. k + 1 /\ \A i \in 1 .. k : i \in 1 .. k + 1
    OBVIOUS
  <2> QED
    BY <1>1, <1>4, <1>5, <1>6, <2>1 DEF Range
<1>8. ASSUME NEW i \in 1 .. k + 1, NEW j \in 1 .. k + 1, i < j PROVE Precedes(key[b[i]], key[b[j]])
  <2>1. i \in 1 .. k
    BY <1>8
  <2>2. CASE j \in 1 .. k
    BY <1>4, <1>8, <2>1, <2>2 DEF Arranging
  <2>3. CASE j = k + 1
    BY <1>3, <1>4, <2>1, <2>3 DEF Arranging
  <2> QED
    BY <1>6, <2>2, <2>3
<1>9. ASSUME NEW i \in 1 .. k + 1, NEW y \in S \ Range(b) PROVE Precedes(key[b[i]], key[y])
  <2>1. y \in rest \ {x}
    BY <1>7
  <2> QED
    BY <1>3, <1>4, <1>6, <2>1 DEF Arranging
<1> QED
  BY <1>4, <1>8, <1>9 DEF Arranging, b, x

\* sorted(): all the elements, in the order of their keys.
Arranges(key, a) ==
    /\ a \in Seq(DOMAIN key) /\ Len(a) = Cardinality(DOMAIN key) /\ Range(a) = DOMAIN key
    /\ \A i, j \in 1 .. Len(a) : i < j => Precedes(key[a[i]], key[a[j]])
    /\ \A i, j \in 1 .. Len(a) : i # j => a[i] # a[j]

\* Arranged lists the domain of the keys, each element once and in their order.
LEMMA ArrangedFacts ==
    ASSUME NEW key, AreKeys(key)
    PROVE  Arranges(key, Arranged(key))
<1> DEFINE S == DOMAIN key
           n == Cardinality(S)
           All == S \cup {Least(key, rest) : rest \in SUBSET S}
           V == Seq(All)
           Turn(a, k) == Append(a, Least(key, S \ Range(a)))
           step == [p \in (1 .. n) \X V |-> Turn(p[2], p[1])]
           base == <<>>
           turns == Turns(n)
<1>0. n \in Nat /\ IsFiniteSet(S)
  BY FS_CardinalityType DEF AreKeys
<1>1. ASSUME NEW a \in V, NEW k \in 1 .. n PROVE Turn(a, k) \in V
  <2>1. S \ Range(a) \in SUBSET S
    OBVIOUS
  <2>2. Least(key, S \ Range(a)) \in All
    BY <2>1
  <2> QED
    BY <2>2
<1>2. turns = [k \in 1 .. n |-> k] /\ DOMAIN turns = 1 .. n /\ \A k \in 1 .. n : turns[k] = k
  BY DEF Turns
<1> HIDE DEF Turn, turns
<1>3. StepFunction(n, V, step) /\ \A k \in 1 .. n, s \in V : step[<<k, s>>] = Turn(s, k)
  BY <1>1 DEF StepFunction
<1>4. base \in V
  OBVIOUS
<1> HIDE DEF step, V, base, n
<1> DEFINE P(f) == f = [s \in SUBSET DOMAIN turns |-> IF s = {} THEN base ELSE Turn(f[s \ {Max(s)}], turns[Max(s)])]
<1>5. PICK g : FoldOver(n, V, base, step, g)
  BY <1>0, <1>3, <1>4, FoldExists
<1>6. ASSUME NEW s \in SUBSET (1 .. n), s # {} PROVE Max(s) \in 1 .. n /\ turns[Max(s)] = Max(s)
  BY <1>0, <1>2, <1>6, MaxFacts
<1>7. P(g)
  <2>1. ASSUME NEW s \in SUBSET (1 .. n), s # {} PROVE g[s] = Turn(g[s \ {Max(s)}], turns[Max(s)])
    <3>1. g[s \ {Max(s)}] \in V
      BY <1>5, <2>1 DEF FoldOver
    <3> QED
      BY <1>3, <1>5, <1>6, <2>1, <3>1 DEF FoldOver
  <2> QED
    BY <1>2, <1>5, <2>1 DEF FoldOver
<1>8. PICK it : P(it) /\ Arranged(key) = it[DOMAIN turns]
  <2>1. P(CHOOSE f : P(f))
    <3> HIDE DEF P
    <3> QED
      BY <1>7
  <2>2. Arranged(key) = (CHOOSE f : P(f))[DOMAIN turns]
    BY Zenon DEF Arranged, FoldLeft, MapThenFoldSet, Turn, base, turns, n
  <2> QED
    BY <2>1, <2>2
<1>9. it[{}] = base
  BY <1>2, <1>8
<1>10. ASSUME NEW s \in SUBSET (1 .. n), s # {}, it[s \ {Max(s)}] \in V
       PROVE  it[s] = step[<<Max(s), it[s \ {Max(s)}]>>]
  <2>1. it[s] = Turn(it[s \ {Max(s)}], turns[Max(s)])
    BY <1>2, <1>8, <1>10
  <2> QED
    BY <1>3, <1>6, <1>10, <2>1
<1> HIDE DEF P
<1>11. PICK h \in [0 .. n -> V] :
         h[0] = base /\ h[n] = it[1 .. n] /\ \A k \in 1 .. n : h[k] = step[<<k, h[k - 1]>>]
  <2>1. Unfolds(n, V, base, step, it)
    BY <1>9, <1>10 DEF Unfolds
  <2> QED
    BY <1>0, <1>3, <1>4, <2>1, FoldValues
<1>12. ASSUME NEW k \in 1 .. n PROVE h[k] = Append(h[k - 1], Least(key, S \ Range(h[k - 1])))
  <2>1. k - 1 \in 0 .. n /\ h[k - 1] \in V
    BY <1>0, <1>11
  <2> QED
    BY <1>3, <1>11, <2>1 DEF Turn
<1>13. Arranged(key) = h[n]
  BY <1>2, <1>8, <1>11
<1> DEFINE G == {k \in 0 .. n : Arranging(key, k, h[k])}
<1>14. 0 \in G
  <2>1. Arranging(key, 0, <<>>)
    BY DEF Arranging
  <2> QED
    BY <1>0, <1>11, <2>1 DEF base
<1>15. ASSUME NEW k \in 1 .. n, k - 1 \in G PROVE k \in G
  <2>1. k - 1 \in Nat /\ k - 1 < n /\ Arranging(key, k - 1, h[k - 1]) /\ k - 1 + 1 = k
    BY <1>0, <1>15
  <2>2. Arranging(key, k - 1 + 1, Append(h[k - 1], Least(key, S \ Range(h[k - 1]))))
    BY <2>1, ArrangingNext DEF n
  <2>3. Arranging(key, k, h[k])
    BY <1>12, <2>1, <2>2
  <2> QED
    BY <2>3
<1>16. \A k \in 0 .. n : k \in G
  <2> HIDE DEF G
  <2> QED
    BY <1>0, <1>14, <1>15, UpTo
<1>17. n \in 0 .. n
  BY <1>0
<1> DEFINE a == h[n]
<1>18. Arranging(key, n, a)
  BY <1>16, <1>17
<1> HIDE DEF a
<1>19. a \in Seq(S) /\ Len(a) = n /\ DOMAIN a = 1 .. n /\ a \in [1 .. n -> S] /\ Range(a) \in SUBSET S
       /\ \A i, j \in 1 .. n : i < j => Precedes(key[a[i]], key[a[j]])
  BY <1>0, <1>18 DEF Arranging, Range
<1>20. ASSUME NEW i \in 1 .. n, NEW j \in 1 .. n, i # j PROVE a[i] # a[j]
  <2>1. i < j \/ j < i
    BY <1>20
  <2>2. Precedes(key[a[i]], key[a[j]]) \/ Precedes(key[a[j]], key[a[i]])
    BY <1>19, <2>1
  <2>3. a[i] \in S /\ key[a[i]] \in Int \X Int
    BY <1>19 DEF AreKeys
  <2> QED
    BY <2>2, <2>3, PrecedesIsAnOrder
<1>21. Range(a) = S
  <2>1. IsFiniteSet(1 .. n) /\ Cardinality(1 .. n) = n
    BY <1>0, FS_Interval
  <2>2. a \in Injection(1 .. n, S)
    BY <1>19, <1>20 DEF Injection, IsInjective
  <2>3. a \in Surjection(1 .. n, S)
    BY <1>0, <2>1, <2>2, FS_Injection DEF n
  <2> QED
    BY <1>19, <2>3 DEF Surjection, Range
<1>22. Arranged(key) = a
  BY <1>13 DEF a
<1> QED
  BY <1>19, <1>20, <1>21, <1>22 DEF Arranges, n

------------------------------------------------------------------------------
(* sorted() with a key, and the comprehension with a condition. *)

\* The places of a list in the order sorted() puts them.
IsOrder(n, key, order) ==
    /\ order \in [1 .. n -> 1 .. n] /\ \A p \in 1 .. n : \E k \in 1 .. n : order[k] = p
    /\ \A i, j \in 1 .. n : i # j => order[i] # order[j]
    /\ \A i, j \in 1 .. n : i < j =>
          key[order[i]] < key[order[j]] \/ (key[order[i]] = key[order[j]] /\ order[i] < order[j])

\* What sorted() returns: the elements of the list, those with equal keys as they stood.
ComesSorted(S, list, key, sorted) ==
    \E order \in [1 .. Len(list) -> 1 .. Len(list)] :
       /\ IsOrder(Len(list), key, order)
       /\ sorted \in Seq(S) /\ Len(sorted) = Len(list)
       /\ \A k \in 1 .. Len(list) : sorted[k] = list[order[k]]

\* SortedBy is sorted().
LEMMA SortedByFacts ==
    ASSUME NEW S, NEW list \in Seq(S), NEW key, \A i \in 1 .. Len(list) : key[i] \in Int
    PROVE  ComesSorted(S, list, key, SortedBy(list, key))
<1> DEFINE n == Len(list)
           pairs == [i \in DOMAIN list |-> <<key[i], i>>]
           a == Arranged(pairs)
<1>1. n \in Nat /\ DOMAIN list = 1 .. n /\ \A i \in 1 .. n : list[i] \in S
  OBVIOUS
<1>2. DOMAIN pairs = 1 .. n /\ \A i \in 1 .. n : pairs[i] = <<key[i], i>> /\ pairs[i] \in Int \X Int
  BY <1>1
<1>3. AreKeys(pairs)
  <2>1. IsFiniteSet(1 .. n)
    BY <1>1, FS_Interval
  <2> HIDE DEF pairs
  <2>2. ASSUME NEW i \in 1 .. n, NEW j \in 1 .. n, pairs[i] = pairs[j] PROVE i = j
    BY <1>2, <2>2
  <2> QED
    BY <1>2, <2>1, <2>2 DEF AreKeys
<1>4. Cardinality(1 .. n) = n
  BY <1>1, FS_Interval
<1> HIDE DEF pairs
<1>5. /\ a \in Seq(1 .. n) /\ Len(a) = n /\ Range(a) = 1 .. n
      /\ \A i, j \in 1 .. n : i < j => Precedes(pairs[a[i]], pairs[a[j]])
      /\ \A i, j \in 1 .. n : i # j => a[i] # a[j]
  BY <1>2, <1>3, <1>4, ArrangedFacts DEF Arranges
<1> HIDE DEF a, n
<1>6. a \in [1 .. n -> 1 .. n] /\ DOMAIN a = 1 .. n
  BY <1>5
<1>7. \A p \in 1 .. n : \E k \in 1 .. n : a[k] = p
  BY <1>5, <1>6 DEF Range
<1>8. ASSUME NEW i \in 1 .. n, NEW j \in 1 .. n, i < j
      PROVE  key[a[i]] < key[a[j]] \/ (key[a[i]] = key[a[j]] /\ a[i] < a[j])
  <2>1. Precedes(pairs[a[i]], pairs[a[j]]) /\ a[i] \in 1 .. n /\ a[j] \in 1 .. n
    BY <1>5, <1>6, <1>8
  <2>2. pairs[a[i]] = <<key[a[i]], a[i]>> /\ pairs[a[j]] = <<key[a[j]], a[j]>>
    BY <1>2, <2>1
  <2> QED
    BY <2>1, <2>2 DEF Precedes
<1>9. IsOrder(n, key, a)
  BY <1>5, <1>6, <1>7, <1>8 DEF IsOrder
<1>10. SortedBy(list, key) = [k \in 1 .. n |-> list[a[k]]]
  BY <1>6 DEF SortedBy, At, a, pairs
<1>11. \A k \in 1 .. n : list[a[k]] \in S
  BY <1>1, <1>6
<1> DEFINE sorted == [k \in 1 .. n |-> list[a[k]]]
<1>12. sorted \in Seq(S) /\ Len(sorted) = n /\ \A k \in 1 .. n : sorted[k] = list[a[k]]
  BY <1>1, <1>11
<1> HIDE DEF sorted
<1>13. SortedBy(list, key) = sorted
  BY <1>10 DEF sorted
<1> QED
  BY <1>6, <1>9, <1>12, <1>13 DEF n, ComesSorted

\* The places a comprehension keeps, in order.
KeepsAt(list, places, order) ==
    /\ order \in Seq((1 .. Len(list)) \cap places) /\ Range(order) = (1 .. Len(list)) \cap places
    /\ \A i, j \in DOMAIN order : i < j => order[i] < order[j]
    /\ order = Ascending(Len(list), places)
    /\ Len(Kept(list, places)) = Len(order)
    /\ \A k \in 1 .. Len(order) : order[k] \in 1 .. Len(list) /\ Kept(list, places)[k] = list[order[k]]

\* A comprehension with a condition keeps elements of the list, in its order.
LEMMA KeptOrder ==
    ASSUME NEW S, NEW list \in Seq(S), NEW places
    PROVE  Kept(list, places) \in Seq(S) /\ \E order : KeepsAt(list, places, order)
<1> DEFINE n == Len(list)
           order == Ascending(n, places)
<1>1. n \in Nat /\ \A i \in 1 .. n : list[i] \in S
  OBVIOUS
<1>2. /\ order \in Seq((1 .. n) \cap places) /\ Range(order) = (1 .. n) \cap places
      /\ \A i, j \in DOMAIN order : i < j => order[i] < order[j]
  BY <1>1, AscendingFacts
<1> HIDE DEF order
<1>3. PICK m \in Nat : m = Len(order)
  BY <1>2
<1>4. DOMAIN order = 1 .. m /\ \A k \in 1 .. m : order[k] \in 1 .. n
  BY <1>2, <1>3
<1> DEFINE kept == [k \in 1 .. m |-> list[order[k]]]
<1>5. Kept(list, places) = kept
  BY <1>4 DEF Kept, At, order
<1>6. \A k \in 1 .. m : list[order[k]] \in S
  BY <1>1, <1>4
<1>7. kept \in Seq(S) /\ Len(kept) = m /\ \A k \in 1 .. m : kept[k] = list[order[k]]
  BY <1>6
<1> HIDE DEF kept
<1>8. order = Ascending(Len(list), places)
  BY DEF order
<1>9. Kept(list, places) \in Seq(S) /\ Len(Kept(list, places)) = Len(order)
  BY <1>3, <1>5, <1>7
<1>10. \A k \in 1 .. Len(order) : order[k] \in 1 .. Len(list) /\ Kept(list, places)[k] = list[order[k]]
  BY <1>3, <1>4, <1>5, <1>7
<1>11. KeepsAt(list, places, order)
  BY <1>2, <1>8, <1>9, <1>10 DEF KeepsAt
<1> QED
  BY <1>9, <1>11

------------------------------------------------------------------------------
(* Sums of lists. *)

\* A sum is the last of its running totals.
LEMMA SumIs ==
    ASSUME NEW list \in Seq(Int), NEW acc, Running(list, acc)
    PROVE  Sum(list) = acc[Len(list)] /\ Sum(list) \in Int
<1>1. Len(list) \in 0 .. Len(list)
  OBVIOUS
<1>2. Sum(list) = acc[Len(list)]
  BY <1>1, SumOfPrefix
<1> QED
  BY <1>1, <1>2 DEF Running

\* A sum of integers is an integer.
LEMMA SumType ==
    ASSUME NEW list \in Seq(Int)
    PROVE  Sum(list) \in Int
BY SumRuns, SumIs

\* Nothing adds up to 0.
LEMMA SumEmpty == Sum(<<>>) = 0
<1>1. <<>> \in Seq(Int) /\ Len(<<>>) = 0
  OBVIOUS
<1>2. PICK acc : Running(<<>>, acc) /\ Sum(<<>>) = acc[Len(<<>>)]
  BY <1>1, SumRuns
<1>3. Sum(<<>>) = acc[0]
  BY <1>1, <1>2
<1>4. acc[0] = 0
  BY <1>2 DEF Running
<1> QED
  BY <1>3, <1>4

\* The sum of one number more.
LEMMA SumAppend ==
    ASSUME NEW list \in Seq(Int), NEW x \in Int
    PROVE  Sum(Append(list, x)) = Sum(list) + x
<1> DEFINE more == Append(list, x)
           n == Len(list)
<1>1. n \in Nat /\ more \in Seq(Int) /\ Len(more) = n + 1 /\ more[n + 1] = x /\ \A i \in 1 .. n : more[i] = list[i]
  OBVIOUS
<1>2. PICK acc : Running(list, acc) /\ Sum(list) = acc[n]
  BY SumRuns
<1>3. acc \in [0 .. n -> Int] /\ acc[0] = 0 /\ \A k \in 1 .. n : acc[k] = acc[k - 1] + list[k]
  BY <1>2 DEF Running
<1> HIDE DEF more, n
<1> DEFINE b == [k \in 0 .. n + 1 |-> IF k = n + 1 THEN acc[n] + x ELSE acc[k]]
<1>4. b \in [0 .. n + 1 -> Int] /\ b[0] = 0 /\ b[n + 1] = acc[n] + x /\ \A k \in 0 .. n : b[k] = acc[k]
  BY <1>1, <1>3
<1> HIDE DEF b
<1>5. ASSUME NEW k \in 1 .. n + 1 PROVE b[k] = b[k - 1] + more[k]
  <2>1. CASE k = n + 1
    BY <1>1, <1>4, <2>1
  <2>2. CASE k # n + 1
    <3>1. k \in 1 .. n /\ k - 1 \in 0 .. n /\ k \in 0 .. n
      BY <1>1, <2>2
    <3> QED
      BY <1>1, <1>3, <1>4, <3>1
  <2> QED
    BY <2>1, <2>2
<1>6. Running(more, b)
  BY <1>1, <1>4, <1>5 DEF Running
<1>7. Sum(more) = b[n + 1]
  BY <1>1, <1>6, SumIs
<1> QED
  BY <1>2, <1>4, <1>7 DEF more

\* A list that is two lists added, each times a factor.
Combines(n, f, g, h, a, b) ==
    /\ n \in Nat /\ f \in Seq(Int) /\ g \in Seq(Int) /\ h \in Seq(Int) /\ a \in Int /\ b \in Int
    /\ Len(f) = n /\ Len(g) = n /\ Len(h) = n
    /\ \A i \in 1 .. n : h[i] = a * f[i] + b * g[i]

\* A sum of combinations is the combination of the sums.
LEMMA SumLinear ==
    ASSUME NEW n, NEW f, NEW g, NEW h, NEW a, NEW b, Combines(n, f, g, h, a, b)
    PROVE  Sum(h) = a * Sum(f) + b * Sum(g)
<1>0. /\ n \in Nat /\ f \in Seq(Int) /\ g \in Seq(Int) /\ h \in Seq(Int) /\ a \in Int /\ b \in Int
      /\ Len(f) = n /\ Len(g) = n /\ Len(h) = n
      /\ \A i \in 1 .. n : h[i] = a * f[i] + b * g[i]
  BY DEF Combines
<1>1. PICK p : Running(f, p) /\ Sum(f) = p[n]
  BY <1>0, SumRuns
<1>2. PICK q : Running(g, q) /\ Sum(g) = q[n]
  BY <1>0, SumRuns
<1>3. /\ p \in [0 .. n -> Int] /\ p[0] = 0 /\ \A k \in 1 .. n : p[k] = p[k - 1] + f[k]
      /\ q \in [0 .. n -> Int] /\ q[0] = 0 /\ \A k \in 1 .. n : q[k] = q[k - 1] + g[k]
  BY <1>0, <1>1, <1>2 DEF Running
<1> DEFINE r == [k \in 0 .. n |-> a * p[k] + b * q[k]]
<1>4. r \in [0 .. n -> Int] /\ r[0] = 0 /\ \A k \in 0 .. n : r[k] = a * p[k] + b * q[k]
  <2>1. \A k \in 0 .. n : p[k] \in Int /\ q[k] \in Int
    BY <1>3
  <2>2. ASSUME NEW k \in 0 .. n PROVE a * p[k] + b * q[k] \in Int
    <3>1. a * p[k] \in Int /\ b * q[k] \in Int
      BY <1>0, <2>1
    <3> QED
      BY <3>1
  <2>3. a * p[0] + b * q[0] = 0
    BY <1>0, <1>3
  <2> QED
    BY <1>0, <2>2, <2>3
<1> HIDE DEF r
<1>5. ASSUME NEW k \in 1 .. n PROVE r[k] = r[k - 1] + h[k]
  <2>1. PICK u \in Int, v \in Int, x \in Int, y \in Int :
          u = p[k - 1] /\ v = q[k - 1] /\ x = f[k] /\ y = g[k]
    <3>1. k - 1 \in 0 .. n /\ f[k] \in Int /\ g[k] \in Int
      BY <1>0
    <3>2. p[k - 1] \in Int /\ q[k - 1] \in Int
      BY <1>3, <3>1
    <3> QED
      BY <3>1, <3>2
  <2>2. p[k] = u + x /\ q[k] = v + y /\ h[k] = a * x + b * y
    BY <1>0, <1>3, <2>1
  <2>3. r[k - 1] = a * u + b * v /\ r[k] = a * (u + x) + b * (v + y)
    <3>1. k \in 0 .. n /\ k - 1 \in 0 .. n
      BY <1>0
    <3> QED
      BY <1>4, <2>1, <2>2, <3>1
  <2>4. a * (u + x) + b * (v + y) = a * u + b * v + (a * x + b * y)
    BY <1>0
  <2> QED
    BY <2>2, <2>3, <2>4
<1>6. Running(h, r)
  BY <1>0, <1>4, <1>5 DEF Running
<1>7. Sum(h) = r[n] /\ n \in 0 .. n
  BY <1>0, <1>6, SumIs
<1> QED
  BY <1>1, <1>2, <1>4, <1>7

\* A list that is nowhere larger has no larger sum.
LEMMA SumOrder ==
    ASSUME NEW n \in Nat, NEW f \in Seq(Int), NEW g \in Seq(Int),
           Len(f) = n, Len(g) = n, \A i \in 1 .. n : f[i] <= g[i]
    PROVE  Sum(f) <= Sum(g)
<1>1. PICK p : Running(f, p) /\ Sum(f) = p[n]
  BY SumRuns
<1>2. PICK q : Running(g, q) /\ Sum(g) = q[n]
  BY SumRuns
<1>3. /\ p \in [0 .. n -> Int] /\ p[0] = 0 /\ \A k \in 1 .. n : p[k] = p[k - 1] + f[k]
      /\ q \in [0 .. n -> Int] /\ q[0] = 0 /\ \A k \in 1 .. n : q[k] = q[k - 1] + g[k]
  BY <1>1, <1>2 DEF Running
<1> DEFINE G == {k \in 0 .. n : p[k] <= q[k]}
<1>4. 0 \in G
  BY <1>3
<1>5. ASSUME NEW k \in 1 .. n, k - 1 \in G PROVE k \in G
  <2>1. p[k - 1] \in Int /\ q[k - 1] \in Int /\ f[k] \in Int /\ g[k] \in Int /\ k \in 0 .. n
    BY <1>3
  <2> QED
    BY <1>3, <1>5, <2>1
<1>6. \A k \in 0 .. n : k \in G
  <2> HIDE DEF G
  <2> QED
    BY <1>4, <1>5, UpTo
<1> QED
  BY <1>1, <1>2, <1>6

\* A sum of naturals is one.
LEMMA SumIsNatural ==
    ASSUME NEW list \in Seq(Nat)
    PROVE  Sum(list) \in Nat
<1> DEFINE zeros == [i \in 1 .. Len(list) |-> 0]
<1>1. Len(list) \in Nat /\ list \in Seq(Int) /\ \A i \in 1 .. Len(list) : list[i] \in Nat
  OBVIOUS
<1>2. zeros \in Seq(Int) /\ Len(zeros) = Len(list) /\ \A i \in 1 .. Len(list) : zeros[i] = 0
  BY <1>1
<1> HIDE DEF zeros
<1>3. \A i \in 1 .. Len(list) : zeros[i] <= list[i] /\ zeros[i] = 0 * list[i] + 0 * list[i]
  BY <1>1, <1>2
<1>4. Sum(zeros) <= Sum(list)
  BY <1>1, <1>2, <1>3, SumOrder
<1>5. Sum(zeros) = 0 * Sum(list) + 0 * Sum(list) /\ Sum(list) \in Int
  <2>1. PICK n \in Nat : n = Len(list)
    BY <1>1
  <2>2. 0 \in Int /\ Len(list) = n /\ Len(zeros) = n /\ \A i \in 1 .. n : zeros[i] = 0 * list[i] + 0 * list[i]
    BY <1>2, <1>3, <2>1
  <2>3. Sum(zeros) = 0 * Sum(list) + 0 * Sum(list)
    <3>1. Combines(n, list, list, zeros, 0, 0)
      BY <1>1, <1>2, <2>2 DEF Combines
    <3> QED
      BY <3>1, SumLinear
  <2> QED
    BY <1>1, <2>3, SumType
<1> QED
  BY <1>4, <1>5

\* The sum of one list after another.
LEMMA SumConcat ==
    ASSUME NEW f \in Seq(Int), NEW g \in Seq(Int)
    PROVE  Sum(f \o g) = Sum(f) + Sum(g)
<1> DEFINE n == Len(f)
           m == Len(g)
           h == f \o g
<1>1. n \in Nat /\ m \in Nat
  OBVIOUS
<1>2. h \in Seq(Int) /\ Len(h) = n + m
      /\ \A i \in 1 .. n + m : h[i] = IF i <= n THEN f[i] ELSE g[i - n]
  BY ConcatProperties
<1>3. PICK p : Running(f, p) /\ Sum(f) = p[n]
  BY SumRuns
<1>4. PICK q : Running(g, q) /\ Sum(g) = q[m]
  BY SumRuns
<1>5. /\ p \in [0 .. n -> Int] /\ p[0] = 0 /\ \A k \in 1 .. n : p[k] = p[k - 1] + f[k]
      /\ q \in [0 .. m -> Int] /\ q[0] = 0 /\ \A k \in 1 .. m : q[k] = q[k - 1] + g[k]
  BY <1>3, <1>4 DEF Running
<1> HIDE DEF n, m, h
<1> DEFINE r == [k \in 0 .. n + m |-> IF k <= n THEN p[k] ELSE p[n] + q[k - n]]
<1>6. p[n] \in Int /\ n \in 0 .. n /\ 0 \in 0 .. m
  BY <1>1, <1>5
<1>7. /\ \A k \in 0 .. n : r[k] = p[k]
      /\ \A k \in 0 .. m : n + k \in 0 .. n + m /\ r[n + k] = p[n] + q[k]
  <2>1. \A k \in 0 .. n : k \in 0 .. n + m /\ k <= n
    BY <1>1
  <2>2. \A k \in 0 .. m : n + k \in 0 .. n + m /\ n + k - n = k /\ (n + k <= n <=> k = 0)
    BY <1>1
  <2>3. p[n] + q[0] = p[n]
    BY <1>5, <1>6
  <2>4. \A k \in 0 .. n : r[k] = p[k]
    BY <2>1
  <2>5. ASSUME NEW k \in 0 .. m PROVE r[n + k] = p[n] + q[k]
    <3>1. CASE k = 0
      <4>1. n + k = n /\ r[n] = p[n]
        BY <1>1, <1>6, <2>4, <3>1
      <4> QED
        BY <2>3, <3>1, <4>1
    <3>2. CASE k # 0
      <4>1. n + k \in 0 .. n + m /\ ~(n + k <= n) /\ n + k - n = k
        BY <2>2, <3>2
      <4>2. r[n + k] = p[n] + q[n + k - n]
        BY <1>1, <4>1
      <4> HIDE DEF r
      <4> QED
        BY <4>1, <4>2
    <3> QED
      BY <3>1, <3>2
  <2> QED
    BY <2>2, <2>4, <2>5
<1>8. r \in [0 .. n + m -> Int]
  <2>1. ASSUME NEW k \in 0 .. n + m PROVE (IF k <= n THEN p[k] ELSE p[n] + q[k - n]) \in Int
    <3>1. CASE k <= n
      <4>1. k \in 0 .. n
        BY <1>1, <3>1
      <4> QED
        BY <1>5, <3>1, <4>1
    <3>2. CASE ~(k <= n)
      <4>1. k - n \in 0 .. m
        BY <1>1, <3>2
      <4> QED
        BY <1>5, <1>6, <3>2, <4>1
    <3> QED
      BY <3>1, <3>2
  <2> QED
    BY <2>1
<1> HIDE DEF r
<1>9. ASSUME NEW k \in 1 .. n + m PROVE r[k] = r[k - 1] + h[k]
  <2>1. CASE k <= n
    <3>1. k \in 1 .. n /\ k \in 0 .. n /\ k - 1 \in 0 .. n
      BY <1>1, <2>1
    <3>2. h[k] = f[k]
      BY <1>2, <2>1
    <3> QED
      BY <1>5, <1>7, <3>1, <3>2
  <2>2. CASE ~(k <= n)
    <3>1. PICK j \in 1 .. m : k = n + j
      <4>1. k - n \in 1 .. m /\ k = n + (k - n)
        BY <1>1, <2>2
      <4> QED
        BY <4>1
    <3>2. j \in 0 .. m /\ j - 1 \in 0 .. m /\ k - 1 = n + (j - 1) /\ k - n = j
      BY <1>1, <3>1
    <3>3. h[k] = g[j]
      BY <1>2, <2>2, <3>2
    <3>4. r[k] = p[n] + q[j] /\ r[k - 1] = p[n] + q[j - 1] /\ q[j] = q[j - 1] + g[j]
      BY <1>5, <1>7, <3>1, <3>2
    <3>5. q[j - 1] \in Int /\ g[j] \in Int
      <4>1. j \in 1 .. Len(g)
        BY DEF m
      <4>2. g[j] \in Int
        BY <4>1
      <4> QED
        BY <1>5, <3>2, <4>2
    <3> QED
      BY <1>6, <3>3, <3>4, <3>5
  <2> QED
    BY <2>1, <2>2
<1>10. r[0] = 0
  BY <1>1, <1>5, <1>7
<1>11. Running(h, r)
  BY <1>2, <1>8, <1>9, <1>10 DEF Running
<1>12. Sum(h) = r[n + m]
  BY <1>2, <1>11, SumIs
<1>13. m \in 0 .. m
  BY <1>1
<1> QED
  BY <1>3, <1>4, <1>7, <1>12, <1>13 DEF h

\* A list read from its end.
LEMMA ReverseFacts ==
    ASSUME NEW S, NEW list \in Seq(S)
    PROVE  /\ Reverse(list) \in Seq(S) /\ Len(Reverse(list)) = Len(list)
           /\ \A i \in 1 .. Len(list) :
                Len(list) - i + 1 \in 1 .. Len(list) /\ Reverse(list)[i] = list[Len(list) - i + 1]
<1>1. Len(list) \in Nat /\ \A i \in 1 .. Len(list) : Len(list) - i + 1 \in 1 .. Len(list)
  OBVIOUS
<1>2. Reverse(list) = [i \in 1 .. Len(list) |-> list[Len(list) - i + 1]]
  BY DEF Reverse
<1> DEFINE back == [i \in 1 .. Len(list) |-> list[Len(list) - i + 1]]
<1>3. back \in Seq(S) /\ Len(back) = Len(list) /\ \A i \in 1 .. Len(list) : back[i] = list[Len(list) - i + 1]
  BY <1>1
<1> HIDE DEF back
<1>4. Reverse(list) = back
  BY <1>2 DEF back
<1> QED
  BY <1>1, <1>3, <1>4

\* A sum does not depend on the direction it is taken in.
LEMMA SumReverse ==
    ASSUME NEW list \in Seq(Int)
    PROVE  Sum(Reverse(list)) = Sum(list)
<1> DEFINE n == Len(list)
           back == Reverse(list)
<1>1. n \in Nat /\ back \in Seq(Int) /\ Len(back) = n /\ \A i \in 1 .. n : n - i + 1 \in 1 .. n /\ back[i] = list[n - i + 1]
  BY ReverseFacts
<1> HIDE DEF back
<1>2. PICK p : Running(list, p) /\ Sum(list) = p[n]
  BY SumRuns
<1>3. p \in [0 .. n -> Int] /\ p[0] = 0 /\ \A k \in 1 .. n : p[k] = p[k - 1] + list[k]
  BY <1>2 DEF Running
<1> DEFINE r == [k \in 0 .. n |-> p[n] - p[n - k]]
<1>4. ASSUME NEW k \in 0 .. n PROVE n - k \in 0 .. n /\ p[n - k] \in Int
  <2>1. n - k \in 0 .. n
    OBVIOUS
  <2> QED
    BY <1>3, <2>1
<1>5. n \in 0 .. n /\ 0 \in 0 .. n /\ p[n] \in Int /\ n - n = 0 /\ n - 0 = n
  BY <1>1, <1>3
<1>6. r \in [0 .. n -> Int] /\ r[0] = 0 /\ r[n] = p[n] /\ \A k \in 0 .. n : r[k] = p[n] - p[n - k]
  BY <1>3, <1>4, <1>5
<1> HIDE DEF r
<1>7. ASSUME NEW k \in 1 .. n PROVE r[k] = r[k - 1] + back[k]
  <2>1. k \in 0 .. n /\ k - 1 \in 0 .. n /\ n - (k - 1) = n - k + 1 /\ n - k + 1 \in 1 .. n /\ n - k + 1 - 1 = n - k
    OBVIOUS
  <2>2. p[n - k + 1] = p[n - k] + back[k]
    <3> DEFINE j == n - k + 1
    <3>1. j \in 1 .. n /\ j = n - k + 1 /\ j - 1 = n - k
      BY <2>1
    <3> HIDE DEF j
    <3>2. back[k] = list[j] /\ p[j] = p[j - 1] + list[j]
      BY <1>1, <1>3, <3>1
    <3> QED
      BY <3>1, <3>2
  <2>3. back[k] \in Int /\ p[n - k] \in Int
    BY <1>1, <1>4, <2>1
  <2> QED
    <3>1. r[k] = p[n] - p[n - k] /\ r[k - 1] = p[n] - p[n - k + 1]
      BY <1>6, <2>1
    <3> QED
      BY <1>5, <2>2, <2>3, <3>1
<1>8. Running(back, r)
  BY <1>1, <1>6, <1>7 DEF Running
<1>9. Sum(back) = r[n]
  BY <1>1, <1>8, SumIs
<1> QED
  BY <1>2, <1>6, <1>9 DEF back

\* A list of some is a list of more.
LEMMA WiderList ==
    ASSUME NEW A, NEW B, A \subseteq B, NEW list \in Seq(A)
    PROVE  list \in Seq(B)
<1>1. Len(list) \in Nat /\ list = [i \in 1 .. Len(list) |-> list[i]] /\ \A i \in 1 .. Len(list) : list[i] \in B
  OBVIOUS
<1> QED
  BY <1>1

\* The elements of a list.
LEMMA ItemOfList ==
    ASSUME NEW A, NEW list \in Seq(A), NEW k \in 1 .. Len(list)
    PROVE  list[k] \in A
OBVIOUS

------------------------------------------------------------------------------
(* Escalation. *)

AtMostOne(times) == times = {} \/ \E t \in 0 .. now : times = {t}

\* Alerts are raised and resolved at one time, now over; a stage returned is still due.
ClimbOf(a) ==
    /\ AtMostOne(raised[a]) /\ AtMostOne(resolvedAt[a])
    /\ raised[a] = {} => resolvedAt[a] = {} /\ stage[a] = 0 /\ a \notin late
    /\ raised[a] # {} => stage[a] <= LastDue(a)
    /\ a \in late => Breached(a)

EscalationInv == EscalationTypeOK /\ \A a \in Alerts : ClimbOf(a)

\* The stage that is due last, and that it only grows with what is due.
LEMMA LastDueGrows ==
    ASSUME NEW a
    PROVE  /\ LastDue(a) \in 0 .. Len(Policy) /\ LastDue(a)' \in 0 .. Len(Policy)
           /\ Due(a) \subseteq Due(a)' => LastDue(a) <= LastDue(a)'
<1>1. /\ Len(Policy) \in Nat /\ DOMAIN Policy = 1 .. Len(Policy)
      /\ Due(a) \in SUBSET (1 .. Len(Policy)) /\ Due(a)' \in SUBSET (1 .. Len(Policy))
  BY EscalationAssumption DEF Due
<1>2. ASSUME NEW T \in SUBSET (1 .. Len(Policy)), T # {}
      PROVE  Largest(T) \in T /\ \A m \in T : m <= Largest(T)
  <2>1. T \in SUBSET (0 .. Len(Policy))
    BY <1>1
  <2>2. \E n \in T : \A m \in T : m <= n
    BY <1>1, <1>2, <2>1, GreatestExists
  <2> QED
    BY <2>2 DEF Largest
<1>3. PICK D, E : D = Due(a) /\ E = Due(a)'
  OBVIOUS
<1>4. /\ LastDue(a) = IF D = {} THEN 0 ELSE Largest(D)
      /\ LastDue(a)' = IF E = {} THEN 0 ELSE Largest(E)
  BY <1>3 DEF LastDue, Largest
<1>5. \A T \in SUBSET (1 .. Len(Policy)) : T # {} => Largest(T) \in 1 .. Len(Policy)
  BY <1>2
<1>6. LastDue(a) \in 0 .. Len(Policy) /\ LastDue(a)' \in 0 .. Len(Policy)
  BY <1>1, <1>3, <1>4, <1>5
<1>7. ASSUME D \subseteq E PROVE LastDue(a) <= LastDue(a)'
  <2>1. CASE D = {}
    BY <1>4, <1>6, <2>1
  <2>2. CASE D # {}
    <3>1. Largest(D) \in E
      BY <1>1, <1>2, <1>3, <1>7, <2>2
    <3>2. Largest(D) <= Largest(E)
      BY <1>1, <1>2, <1>3, <3>1
    <3> QED
      BY <1>4, <2>2, <1>7, <3>2
  <2> QED
    BY <2>1, <2>2
<1> QED
  BY <1>3, <1>6, <1>7

\* An alert over which time passes, and which may be resolved and polled.
LEMMA ClimbKept ==
    ASSUME NEW a, ClimbOf(a), now \in Nat, now' \in Nat, now <= now', stage[a] \in Nat,
           raised'[a] = raised[a],
           \/ resolvedAt'[a] = resolvedAt[a]
           \/ raised[a] # {} /\ resolvedAt'[a] = {now'},
           stage'[a] \in {stage[a], 0, LastDue(a)} /\ (raised[a] = {} => stage'[a] = stage[a]),
           a \in late' => a \in late \/ (raised[a] # {} /\ Breached(a))
    PROVE  ClimbOf(a)'
<1>1. SlaTarget \in Int /\ \A i \in DOMAIN Policy : Policy[i] \in Int
  BY EscalationAssumption
<1>2. ASSUME NEW x \in Int, NEW y \in Int, NEW z \in Int, x <= y, x - z > SlaTarget
      PROVE  y - z > SlaTarget
  BY <1>1, <1>2
<1>3. CASE raised[a] = {}
  BY <1>3 DEF ClimbOf, AtMostOne
<1>4. CASE raised[a] # {}
  <2>1. PICK t \in 0 .. now : raised[a] = {t}
    BY <1>4 DEF ClimbOf, AtMostOne
  <2>2. The(raised[a]) = t /\ The(raised'[a]) = t
    BY <2>1 DEF The
  <2>3. stage'[a] <= LastDue(a)'
    <3>1. Due(a) \subseteq Due(a)'
      <4>1. Due(a) = {i \in DOMAIN Policy : now - t >= Policy[i]}
        BY <2>2 DEF Due
      <4>2. Due(a)' = {i \in DOMAIN Policy : now' - t >= Policy[i]}
        BY <2>2 DEF Due, The
      <4> QED
        BY <1>1, <2>1, <4>1, <4>2
    <3>2. LastDue(a) <= LastDue(a)' /\ LastDue(a) \in Nat /\ LastDue(a)' \in Nat
      BY <3>1, LastDueGrows
    <3>3. stage[a] <= LastDue(a)
      BY <1>4 DEF ClimbOf
    <3> QED
      BY <3>2, <3>3
  <2>4. AtMostOne(raised[a])'
    BY <2>1 DEF AtMostOne
  <2>5. AtMostOne(resolvedAt[a])'
    <3>1. CASE resolvedAt'[a] = resolvedAt[a]
      BY <3>1 DEF ClimbOf, AtMostOne
    <3>2. CASE resolvedAt'[a] = {now'}
      BY <3>2 DEF AtMostOne
    <3> QED
      BY <3>1, <3>2
  <2>6. ASSUME Breached(a) PROVE Breached(a)'
    <3>1. ASSUME NEW r, resolvedAt[a] = {r} PROVE Breached(a) <=> r - t > SlaTarget
      <4>1. TimeToResolve(a) = {r - t}
        BY <2>2, <3>1 DEF TimeToResolve
      <4>2. The(TimeToResolve(a)) = r - t
        BY <4>1 DEF The
      <4> QED
        BY <3>1, <4>2 DEF Breached
    <3>2. ASSUME NEW r, resolvedAt'[a] = {r} PROVE Breached(a)' <=> r - t > SlaTarget
      <4>1. TimeToResolve(a)' = {r - t}
        BY <2>2, <3>2 DEF TimeToResolve, The
      <4>2. The(TimeToResolve(a))' = r - t
        BY <4>1 DEF The
      <4> QED
        BY <3>2, <4>2 DEF Breached
    <3>3. /\ resolvedAt[a] = {} => (Breached(a) <=> now - t > SlaTarget)
          /\ resolvedAt'[a] = {} => (Breached(a)' <=> now' - t > SlaTarget)
      BY <2>2 DEF Breached, The
    <3>4. CASE resolvedAt[a] = {}
      <4>1. now - t > SlaTarget
        BY <2>6, <3>3, <3>4
      <4>2. now \in Int /\ now' \in Int /\ t \in Int
        BY <2>1
      <4>3. now' - t > SlaTarget
        BY <1>2, <4>1, <4>2
      <4>4. CASE resolvedAt'[a] = {}
        BY <3>3, <4>3, <4>4
      <4>5. CASE resolvedAt'[a] = {now'}
        BY <3>2, <4>3, <4>5
      <4> QED
        BY <3>4, <4>4, <4>5
    <3>5. CASE resolvedAt[a] # {}
      <4>1. PICK r \in 0 .. now : resolvedAt[a] = {r}
        BY <3>5 DEF ClimbOf, AtMostOne
      <4>2. r - t > SlaTarget
        BY <2>6, <3>1, <4>1
      <4>3. CASE resolvedAt'[a] = {r}
        BY <3>2, <4>2, <4>3
      <4>4. CASE resolvedAt'[a] = {now'}
        <5>1. r \in Int /\ t \in Int /\ now' \in Int /\ r <= now'
          BY <2>1, <4>1
        <5>2. now' - t > SlaTarget
          BY <1>2, <4>2, <5>1
        <5> QED
          BY <3>2, <4>4, <5>2
      <4> QED
        BY <4>1, <4>3, <4>4
    <3> QED
      BY <3>4, <3>5
  <2>7. a \in late' => Breached(a)'
    BY <2>6 DEF ClimbOf
  <2> QED
    BY <1>4, <2>3, <2>4, <2>5, <2>7 DEF ClimbOf
<1> QED
  BY <1>3, <1>4

\* Before the first alert the invariant holds.
LEMMA EscalationStart == EscalationInit => EscalationInv
<1> SUFFICES ASSUME EscalationInit PROVE EscalationInv
  OBVIOUS
<1>1. EscalationTypeOK
  BY EscalationAssumption DEF EscalationInit, EscalationTypeOK
<1>2. \A a \in Alerts : ClimbOf(a)
  BY DEF EscalationInit, ClimbOf, AtMostOne
<1> QED
  BY <1>1, <1>2 DEF EscalationInv

\* No step of the escalation leaves the types.
LEMMA EscalationTypeKept ==
    ASSUME EscalationInv, [EscalationNext]_escalationVars
    PROVE  EscalationTypeOK'
<1> USE EscalationAssumption DEF EscalationInv, EscalationTypeOK
<1>1. CASE Passes
  BY <1>1 DEF Passes
<1>2. ASSUME NEW a \in Alerts, Raise(a) PROVE EscalationTypeOK'
  BY <1>2 DEF Raise
<1>3. ASSUME NEW a \in Alerts, Acknowledge(a) PROVE EscalationTypeOK'
  BY <1>3 DEF Acknowledge
<1>4. ASSUME NEW a \in Alerts, Resolve(a) PROVE EscalationTypeOK'
  BY <1>4 DEF Resolve
<1>5. ASSUME NEW a \in Alerts, Poll(a) PROVE EscalationTypeOK'
  <2>1. StageOf(a) \in 0 .. Len(Policy)
    BY LastDueGrows DEF StageOf
  <2> QED
    BY <1>5, <2>1 DEF Poll
<1>6. CASE UNCHANGED escalationVars
  BY <1>6 DEF escalationVars
<1> QED
  BY <1>1, <1>2, <1>3, <1>4, <1>5, <1>6 DEF EscalationNext

\* Every step of the escalation keeps the invariant.
LEMMA EscalationStep == EscalationInv /\ [EscalationNext]_escalationVars => EscalationInv'
<1> SUFFICES ASSUME EscalationInv, [EscalationNext]_escalationVars PROVE EscalationInv'
  OBVIOUS
<1> USE EscalationAssumption
<1>1. EscalationTypeOK /\ EscalationTypeOK'
  BY EscalationTypeKept DEF EscalationInv
<1>2. now \in Nat /\ now' \in Nat /\ \A a \in Alerts : stage[a] \in Nat /\ ClimbOf(a)
  BY <1>1 DEF EscalationTypeOK, EscalationInv
<1> SUFFICES ASSUME NEW a \in Alerts PROVE ClimbOf(a)'
  BY <1>1 DEF EscalationInv
<1>3. CASE Passes \/ UNCHANGED escalationVars
  <2>1. now <= now' /\ UNCHANGED <<raised, resolvedAt, stage, late>>
    BY <1>2, <1>3 DEF Passes, escalationVars
  <2> QED
    BY <1>2, <2>1, ClimbKept
<1>4. ASSUME NEW b \in Alerts, Raise(b) PROVE ClimbOf(a)'
  <2>1. CASE a # b
    <3>1. now' = now /\ raised'[a] = raised[a] /\ UNCHANGED <<resolvedAt, stage, late>>
      BY <1>1, <1>4, <2>1 DEF Raise, EscalationTypeOK
    <3> QED
      BY <1>2, <3>1, ClimbKept
  <2>2. CASE a = b
    <3>1. raised[a] = {} /\ raised'[a] = {now} /\ now' = now /\ UNCHANGED <<resolvedAt, stage, late>>
      BY <1>1, <1>4, <2>2 DEF Raise, EscalationTypeOK
    <3>2. resolvedAt[a] = {} /\ stage[a] = 0 /\ a \notin late
      BY <1>2, <3>1 DEF ClimbOf
    <3>3. LastDue(a)' \in 0 .. Len(Policy)
      BY LastDueGrows
    <3> QED
      BY <1>2, <3>1, <3>2, <3>3 DEF ClimbOf, AtMostOne
  <2> QED
    BY <2>1, <2>2
<1>5. ASSUME NEW b \in Alerts, Acknowledge(b) \/ Resolve(b) PROVE ClimbOf(a)'
  <2>1. /\ now' = now /\ UNCHANGED <<raised, stage, late>>
        /\ \/ resolvedAt'[a] = resolvedAt[a]
           \/ raised[a] # {} /\ resolvedAt'[a] = {now'}
    BY <1>1, <1>5 DEF Acknowledge, Resolve, EscalationTypeOK
  <2> QED
    BY <1>2, <2>1, ClimbKept
<1>6. ASSUME NEW b \in Alerts, Poll(b) PROVE ClimbOf(a)'
  <2>1. /\ now' = now /\ UNCHANGED <<raised, resolvedAt>>
        /\ stage'[a] = stage[a] \/ (raised[a] # {} /\ stage'[a] = StageOf(a))
        /\ a \in late' => a \in late \/ (raised[a] # {} /\ Breached(a))
    BY <1>1, <1>6 DEF Poll, EscalationTypeOK
  <2>2. StageOf(a) \in {0, LastDue(a)}
    BY DEF StageOf
  <2> QED
    BY <1>2, <2>1, <2>2, ClimbKept
<1> QED
  BY <1>3, <1>4, <1>5, <1>6 DEF EscalationNext

\* Every variable keeps its type; in particular no stage is beyond the policy.
THEOREM EscalationTypeCorrect == EscalationSpec => []EscalationTypeOK
<1>1. EscalationInv => EscalationTypeOK
  BY DEF EscalationInv
<1> QED
  BY <1>1, EscalationStart, EscalationStep, PTL DEF EscalationSpec

\* What the invariant says of stages and breaches.
LEMMA InvClimbs == EscalationInv => EscalationOnlyClimbs
<1> SUFFICES ASSUME EscalationInv PROVE EscalationOnlyClimbs
  OBVIOUS
<1>1. ASSUME NEW a \in Raised, standing[a] = "active" PROVE StageOf(a) >= stage[a]
  <2>1. stage[a] <= LastDue(a) /\ stage[a] \in Nat /\ LastDue(a) \in Nat
    BY LastDueGrows DEF Raised, EscalationInv, ClimbOf, EscalationTypeOK
  <2> QED
    BY <1>1, <2>1 DEF StageOf
<1>2. \A a \in late : Breached(a)
  BY DEF EscalationInv, EscalationTypeOK, ClimbOf
<1> QED
  BY <1>1, <1>2 DEF EscalationOnlyClimbs

\* check_escalation and SLATracker.track, for any policy, in whatever order its waits are: the
\* stage of an alert nobody acknowledges never goes down, and a breach once found stays one.
THEOREM EscalationClimbs == EscalationSpec => []EscalationOnlyClimbs
  BY InvClimbs, EscalationStart, EscalationStep, PTL DEF EscalationSpec

------------------------------------------------------------------------------
(* Escalation: the groups of group_alerts. *)

\* A stretch of a list, made longer by the next element.
LEMMA StretchGrows ==
    ASSUME NEW S, NEW list \in Seq(S), NEW k \in 1 .. Len(list), NEW a \in 1 .. k
    PROVE  /\ SubSeq(list, k, k) = <<list[k]>>
           /\ a < k => Append(SubSeq(list, a, k - 1), list[k]) = SubSeq(list, a, k)
<1>1. ASSUME NEW b \in 1 .. k
      PROVE  /\ SubSeq(list, b, k) \in Seq(S) /\ Len(SubSeq(list, b, k)) = k - b + 1
             /\ \A i \in 1 .. k - b + 1 : SubSeq(list, b, k)[i] = list[b + i - 1]
  BY SubSeqProperties
<1>2. SubSeq(list, k, k) = <<list[k]>>
  <2> DEFINE x == SubSeq(list, k, k)
             y == <<list[k]>>
  <2>1. k \in 1 .. k /\ k \in Int /\ list[k] \in S
    OBVIOUS
  <2>2. x \in Seq(S) /\ Len(x) = 1 /\ x[1] = list[k]
    BY <1>1, <2>1
  <2>3. y \in Seq(S) /\ Len(y) = 1 /\ y[1] = list[k]
    BY <2>1
  <2> HIDE DEF x, y
  <2>4. x = y
    BY <2>2, <2>3, SeqEqual
  <2> QED
    BY <2>4 DEF x, y
<1>3. ASSUME a < k PROVE Append(SubSeq(list, a, k - 1), list[k]) = SubSeq(list, a, k)
  <2> DEFINE x == SubSeq(list, a, k)
             z == SubSeq(list, a, k - 1)
             y == Append(z, list[k])
  <2>1. k \in Int /\ a \in Int /\ list[k] \in S
    OBVIOUS
  <2>2. x \in Seq(S) /\ Len(x) = k - a + 1 /\ \A i \in 1 .. k - a + 1 : x[i] = list[a + i - 1]
    BY <1>1
  <2>3. z \in Seq(S) /\ Len(z) = k - a /\ \A i \in 1 .. k - a : z[i] = list[a + i - 1]
    BY <1>3, SubSeqProperties
  <2> HIDE DEF z
  <2>4. y \in Seq(S) /\ Len(y) = k - a + 1 /\ \A i \in 1 .. k - a + 1 : y[i] = list[a + i - 1]
    <3>1. PICK d \in Nat : d = k - a
      BY <1>3, <2>1
    <3>2. z \in Seq(S) /\ Len(z) = d /\ \A i \in 1 .. d : z[i] = list[a + i - 1]
      BY <2>3, <3>1
    <3>3. y \in Seq(S) /\ Len(y) = d + 1 /\ y[d + 1] = list[k] /\ \A i \in 1 .. d : y[i] = z[i]
      BY <2>1, <3>2
    <3>4. a + (d + 1) - 1 = k /\ d + 1 = k - a + 1
      BY <2>1, <3>1
    <3> HIDE DEF y
    <3>5. ASSUME NEW i \in 1 .. d + 1 PROVE y[i] = list[a + i - 1]
      <4>1. i \in 1 .. d \/ i = d + 1
        OBVIOUS
      <4> QED
        BY <3>2, <3>3, <3>4, <4>1
    <3> QED
      BY <3>3, <3>4, <3>5
  <2> HIDE DEF x, y
  <2>5. x = y
    BY <2>2, <2>4, SeqEqual
  <2> QED
    BY <2>5 DEF x, y, z
<1> QED
  BY <1>2, <1>3

\* Whether an alert of a bucket joins the group of the one before.
Joins(bucket, i) == GapFromPrevious(bucket, i, <<>>) <= Window

\* A group that begins where start says and ends before the next: it begins at a gap and has none.
IsChain(bucket, start, group, j) ==
    /\ start[j] < start[j + 1]
    /\ group = SubSeq(bucket, start[j], start[j + 1] - 1)
    /\ j > 1 => ~Joins(bucket, start[j])
    /\ \A i \in (start[j] + 1) .. (start[j + 1] - 1) : Joins(bucket, i)

\* The groups are the alerts before the next, cut wherever one does not join.
CutAtGaps(bucket, following, groups) ==
    \E start \in [1 .. Len(groups) + 1 -> 1 .. following] :
        /\ start[1] = 1 /\ start[Len(groups) + 1] = following
        /\ \A j \in 1 .. Len(groups) : IsChain(bucket, start, groups[j], j)

\* An alert that does not join begins a group.
LEMMA NextGroup ==
    ASSUME NEW S, NEW bucket \in Seq(S), NEW k \in 1 .. Len(bucket), NEW groups \in Seq(Seq(S)),
           CutAtGaps(bucket, k, groups), ~(k > 1 /\ Joins(bucket, k)),
           NEW t, t = Append(groups, <<bucket[k]>>)
    PROVE  CutAtGaps(bucket, k + 1, t)
<1>1. PICK m \in Nat : m = Len(groups)
  OBVIOUS
<1>2. PICK start \in [1 .. m + 1 -> 1 .. k] :
        /\ start[1] = 1 /\ start[m + 1] = k
        /\ \A j \in 1 .. m : IsChain(bucket, start, groups[j], j)
  BY <1>1 DEF CutAtGaps
<1>3. k \in Nat \ {0} /\ Len(bucket) \in Nat /\ bucket[k] \in S /\ k \in 1 .. k
  OBVIOUS
<1>4. /\ Len(t) = m + 1 /\ t[m + 1] = <<bucket[k]>>
      /\ \A j \in 1 .. m : t[j] = groups[j]
  BY <1>1
<1>5. SubSeq(bucket, k, k) = <<bucket[k]>>
  BY <1>3, StretchGrows
<1> DEFINE begin == [j \in 1 .. m + 2 |-> IF j = m + 2 THEN k + 1 ELSE start[j]]
<1>6. begin \in [1 .. m + 2 -> 1 .. k + 1] /\ begin[m + 2] = k + 1
  <2>1. \A j \in 1 .. m + 2 : j # m + 2 => j \in 1 .. m + 1
    BY <1>1
  <2>2. \A j \in 1 .. m + 1 : start[j] \in 1 .. k + 1
    BY <1>2, <1>3
  <2>3. k + 1 \in 1 .. k + 1 /\ m + 2 \in 1 .. m + 2
    BY <1>1, <1>3
  <2> QED
    BY <2>1, <2>2, <2>3
<1>7. \A j \in 1 .. m + 1 : j \in 1 .. m + 2 /\ begin[j] = start[j]
  BY <1>1
<1> HIDE DEF begin
<1>8. k = 1 => m = 0
  <2> SUFFICES ASSUME k = 1, m # 0 PROVE FALSE
    OBVIOUS
  <2>1. 1 \in 1 .. m /\ 1 + 1 = 2 /\ 2 \in 1 .. m + 1
    BY <1>1
  <2>2. start[1] < start[2] /\ start[1] = 1 /\ start[2] \in 1 .. 1
    BY <1>2, <2>1 DEF IsChain
  <2> QED
    BY <2>2
<1>9. ASSUME NEW j \in 1 .. m PROVE IsChain(bucket, begin, t[j], j)
  <2>1. j \in 1 .. m + 1 /\ j + 1 \in 1 .. m + 1
    BY <1>1
  <2>2. begin[j] = start[j] /\ begin[j + 1] = start[j + 1] /\ t[j] = groups[j]
    BY <1>4, <1>7, <2>1
  <2> QED
    BY <1>2, <2>2 DEF IsChain
<1>10. IsChain(bucket, begin, t[m + 1], m + 1)
  <2>1. begin[m + 1] = k /\ begin[m + 1 + 1] = k + 1
    <3>1. m + 1 + 1 = m + 2 /\ m + 1 \in 1 .. m + 1
      BY <1>1
    <3> QED
      BY <1>2, <1>6, <1>7, <3>1
  <2>2. k < k + 1 /\ k + 1 - 1 = k /\ (k + 1) .. (k + 1 - 1) = {}
    BY <1>3
  <2>3. m + 1 > 1 => k > 1
    BY <1>1, <1>3, <1>8
  <2> QED
    BY <1>4, <1>5, <2>1, <2>2, <2>3 DEF IsChain
<1>11. \A j \in 1 .. m + 1 : IsChain(bucket, begin, t[j], j)
  <2>1. \A j \in 1 .. m + 1 : j \in 1 .. m \/ j = m + 1
    BY <1>1
  <2> QED
    BY <1>9, <1>10, <2>1
<1>12. Len(t) + 1 = m + 2 /\ begin[1] = 1
  <2>1. 1 \in 1 .. m + 1
    BY <1>1
  <2> QED
    BY <1>1, <1>2, <1>4, <1>7, <2>1
<1> QED
  BY <1>4, <1>6, <1>11, <1>12 DEF CutAtGaps

\* An alert that joins makes the last group longer.
LEMMA LongerGroup ==
    ASSUME NEW S, NEW bucket \in Seq(S), NEW k \in 1 .. Len(bucket), NEW groups \in Seq(Seq(S)),
           CutAtGaps(bucket, k, groups), k > 1, Joins(bucket, k),
           NEW t, t = [groups EXCEPT ![Len(groups)] = Append(@, bucket[k])]
    PROVE  CutAtGaps(bucket, k + 1, t)
<1>1. PICK m \in Nat : m = Len(groups)
  OBVIOUS
<1>2. PICK start \in [1 .. m + 1 -> 1 .. k] :
        /\ start[1] = 1 /\ start[m + 1] = k
        /\ \A j \in 1 .. m : IsChain(bucket, start, groups[j], j)
  BY <1>1 DEF CutAtGaps
<1>3. k \in Nat \ {0} /\ Len(bucket) \in Nat /\ bucket[k] \in S
  OBVIOUS
<1>4. m # 0
  <2>1. 0 + 1 = 1 /\ k # 1
    BY <1>3
  <2> QED
    BY <1>2, <2>1
<1>5. m \in 1 .. m /\ 1 \in 1 .. m /\ start[m] \in 1 .. k /\ start[m] < k
  <2>1. m \in 1 .. m /\ 1 \in 1 .. m /\ m \in 1 .. m + 1
    BY <1>1, <1>4
  <2>2. IsChain(bucket, start, groups[m], m)
    BY <1>2, <2>1
  <2> QED
    BY <1>2, <2>1, <2>2 DEF IsChain
<1>6. /\ Len(t) = m /\ t[m] = Append(groups[m], bucket[k])
      /\ \A j \in 1 .. m : j # m => t[j] = groups[j]
  BY <1>1, <1>5
<1>7. Append(SubSeq(bucket, start[m], k - 1), bucket[k]) = SubSeq(bucket, start[m], k)
  BY <1>5, StretchGrows
<1> DEFINE begin == [j \in 1 .. m + 1 |-> IF j = m + 1 THEN k + 1 ELSE start[j]]
<1>8. begin \in [1 .. m + 1 -> 1 .. k + 1] /\ begin[m + 1] = k + 1
  <2>1. \A j \in 1 .. m + 1 : start[j] \in 1 .. k + 1
    BY <1>2, <1>3
  <2>2. k + 1 \in 1 .. k + 1 /\ m + 1 \in 1 .. m + 1
    BY <1>1, <1>3
  <2> QED
    BY <2>1, <2>2
<1>9. \A j \in 1 .. m : j \in 1 .. m + 1 /\ begin[j] = start[j]
  BY <1>1
<1> HIDE DEF begin
<1>10. ASSUME NEW j \in 1 .. m, j # m PROVE IsChain(bucket, begin, t[j], j)
  <2>1. j + 1 \in 1 .. m
    BY <1>1, <1>10
  <2>2. begin[j] = start[j] /\ begin[j + 1] = start[j + 1] /\ t[j] = groups[j]
    BY <1>6, <1>9, <1>10, <2>1
  <2> QED
    BY <1>2, <2>2 DEF IsChain
<1>11. IsChain(bucket, begin, t[m], m)
  <2>1. begin[m] = start[m] /\ begin[m + 1] = k + 1 /\ k + 1 - 1 = k
    BY <1>3, <1>5, <1>8, <1>9
  <2>2. /\ groups[m] = SubSeq(bucket, start[m], k - 1)
        /\ m > 1 => ~Joins(bucket, start[m])
        /\ \A i \in (start[m] + 1) .. (k - 1) : Joins(bucket, i)
    BY <1>2, <1>5 DEF IsChain
  <2>3. t[m] = SubSeq(bucket, start[m], k)
    BY <1>6, <1>7, <2>2
  <2>4. ASSUME NEW i \in (start[m] + 1) .. k PROVE Joins(bucket, i)
    <3>1. start[m] \in Int
      BY <1>5
    <3>2. i = k \/ i \in (start[m] + 1) .. (k - 1)
      BY <1>3, <3>1
    <3> QED
      BY <2>2, <3>2
  <2>5. start[m] < k + 1
    BY <1>3, <1>5
  <2>6. begin[m + 1] - 1 = k
    BY <2>1
  <2> QED
    BY <2>1, <2>2, <2>3, <2>4, <2>5, <2>6 DEF IsChain
<1>12. \A j \in 1 .. m : IsChain(bucket, begin, t[j], j)
  BY <1>10, <1>11
<1>13. begin[1] = 1
  BY <1>2, <1>5, <1>9
<1> QED
  BY <1>6, <1>8, <1>12, <1>13 DEF CutAtGaps

\* What one turn of the loop makes of the groups, typed.
LEMMA TurnTyped ==
    ASSUME NEW S, NEW groups \in Seq(Seq(S)), NEW a \in S
    PROVE  /\ Append(groups, <<a>>) \in Seq(Seq(S))
           /\ [groups EXCEPT ![Len(groups)] = Append(@, a)] \in Seq(Seq(S))
<1>1. Append(groups, <<a>>) \in Seq(Seq(S))
  OBVIOUS
<1>2. CASE Len(groups) = 0
  <2>1. DOMAIN groups = {}
    BY <1>2
  <2>2. [groups EXCEPT ![Len(groups)] = Append(@, a)] = groups
    BY <2>1
  <2> QED
    BY <1>1, <2>2
<1>3. CASE Len(groups) # 0
  <2>1. Len(groups) \in DOMAIN groups /\ groups[Len(groups)] \in Seq(S)
    BY <1>3
  <2>2. Append(groups[Len(groups)], a) \in Seq(S)
    BY <2>1
  <2> QED
    BY <1>1, <2>1, <2>2
<1> QED
  BY <1>2, <1>3

\* group_alerts, for any bucket of alerts and any window: a bucket is cut into groups at every
\* alert that comes later than the window after the one before it, and nowhere else.
THEOREM GroupsAreCutAtGaps ==
    ASSUME NEW S, NEW bucket \in Seq(S)
    PROVE  Groups(bucket) \in Seq(Seq(S)) /\ CutAtGaps(bucket, Len(bucket) + 1, Groups(bucket))
<1> DEFINE n == Len(bucket)
           V == Seq(Seq(S))
           place == [i \in DOMAIN bucket |-> i]
           Turn(groups, i) ==
             IF i > 1 /\ GapFromPrevious(bucket, i, groups[Len(groups)]) <= Window
               THEN [groups EXCEPT ![Len(groups)] = Append(@, bucket[i])]
               ELSE Append(groups, <<bucket[i]>>)
           step == [p \in (1 .. n) \X V |-> Turn(p[2], p[1])]
           base == <<>>
<1>1. n \in Nat /\ DOMAIN bucket = 1 .. n /\ \A k \in 1 .. n : bucket[k] \in S
  OBVIOUS
<1>2. ASSUME NEW groups \in V, NEW k \in 1 .. n PROVE Turn(groups, k) \in V
  BY <1>1, TurnTyped
<1> HIDE DEF Turn
<1>3. StepFunction(n, V, step) /\ \A k \in 1 .. n, s \in V : step[<<k, s>>] = Turn(s, k)
  BY <1>2 DEF StepFunction
<1>4. base \in V
  OBVIOUS
<1>5. DOMAIN place = 1 .. n /\ \A k \in 1 .. n : place[k] = k
  BY <1>1
<1> HIDE DEF n, step, V, base, place
<1>6. PICK g : FoldOver(n, V, base, step, g)
  BY <1>1, <1>3, <1>4, FoldExists
<1>7. g = [s \in SUBSET DOMAIN place |-> IF s = {} THEN base ELSE Turn(g[s \ {Max(s)}], place[Max(s)])]
  <2>1. ASSUME NEW s \in SUBSET (1 .. n), s # {} PROVE g[s] = Turn(g[s \ {Max(s)}], place[Max(s)])
    <3>1. Max(s) \in 1 .. n /\ g[s \ {Max(s)}] \in V
      BY <1>1, <1>6, <2>1, MaxFacts DEF FoldOver
    <3> QED
      BY <1>3, <1>5, <1>6, <2>1, <3>1 DEF FoldOver
  <2> QED
    BY <1>5, <1>6, <2>1 DEF FoldOver
<1>8. PICK it : /\ it = [s \in SUBSET DOMAIN place |->
                            IF s = {} THEN base ELSE Turn(it[s \ {Max(s)}], place[Max(s)])]
                /\ Groups(bucket) = it[DOMAIN place]
  <2> DEFINE P(h) == h = [s \in SUBSET DOMAIN place |->
                            IF s = {} THEN base ELSE Turn(h[s \ {Max(s)}], place[Max(s)])]
  <2>1. P(g)
    BY <1>7
  <2>2. P(CHOOSE h : P(h))
    <3> HIDE DEF P
    <3> QED
      BY <2>1
  <2>3. Groups(bucket) = (CHOOSE h : P(h))[DOMAIN place]
    BY Zenon DEF Groups, FoldLeft, MapThenFoldSet, Turn, base, place
  <2> QED
    BY <2>2, <2>3
<1>9. it[1 .. 0] = base
  <2>1. 1 .. 0 = {} /\ {} \in SUBSET (1 .. n)
    OBVIOUS
  <2> QED
    BY <1>5, <1>8, <2>1
<1>10. ASSUME NEW k \in 1 .. n PROVE it[1 .. k] = Turn(it[1 .. k - 1], k)
  <2>1. 1 .. k \in SUBSET (1 .. n) /\ 1 .. k # {}
    <3>1. k \in 1 .. k /\ \A m \in 1 .. k : m \in 1 .. n
      BY <1>1
    <3> QED
      BY <3>1
  <2>2. Max(1 .. k) = k /\ (1 .. k) \ {k} = 1 .. k - 1
    BY <1>1, MaxUpTo
  <2>3. it[1 .. k] = Turn(it[(1 .. k) \ {Max(1 .. k)}], place[Max(1 .. k)])
    BY <1>5, <1>8, <2>1
  <2> QED
    BY <1>5, <2>2, <2>3
<1> DEFINE G == {k \in 0 .. n : it[1 .. k] \in V /\ CutAtGaps(bucket, k + 1, it[1 .. k])}
<1>11. 0 \in G
  <2>1. CutAtGaps(bucket, 1, base)
    <3>1. Len(base) = 0 /\ Len(base) + 1 = 1
      BY DEF base
    <3> DEFINE start == [j \in 1 .. 1 |-> 1]
    <3>2. start \in [1 .. 1 -> 1 .. 1] /\ start[1] = 1 /\ 1 .. 0 = {}
      OBVIOUS
    <3> HIDE DEF start
    <3> QED
      BY <3>1, <3>2 DEF CutAtGaps
  <2>2. 0 + 1 = 1
    OBVIOUS
  <2> QED
    BY <1>1, <1>4, <1>9, <2>1, <2>2
<1>12. ASSUME NEW k \in 1 .. n, k - 1 \in G PROVE k \in G
  <2> DEFINE s == it[1 .. k - 1]
             t == it[1 .. k]
  <2>1. k - 1 + 1 = k
    OBVIOUS
  <2>2. s \in V /\ CutAtGaps(bucket, k, s)
    BY <1>12, <2>1
  <2>3. t = Turn(s, k)
    BY <1>10
  <2> HIDE DEF s, t
  <2>4. t \in V /\ k \in 1 .. Len(bucket) /\ s \in Seq(Seq(S))
    BY <1>2, <2>2, <2>3 DEF n, V
  <2>5. CutAtGaps(bucket, k + 1, t)
    <3>1. CASE k > 1 /\ Joins(bucket, k)
      <4>1. t = [s EXCEPT ![Len(s)] = Append(@, bucket[k])]
        BY <2>3, <3>1 DEF Turn, Joins, GapFromPrevious
      <4> QED
        BY <2>2, <2>4, <3>1, <4>1, LongerGroup
    <3>2. CASE ~(k > 1 /\ Joins(bucket, k))
      <4>1. t = Append(s, <<bucket[k]>>)
        BY <2>3, <3>2 DEF Turn, Joins, GapFromPrevious
      <4> QED
        BY <2>2, <2>4, <3>2, <4>1, NextGroup
    <3> QED
      BY <3>1, <3>2
  <2> QED
    BY <2>4, <2>5 DEF t
<1>13. \A k \in 0 .. n : k \in G
  <2> HIDE DEF G
  <2> QED
    BY <1>1, <1>11, <1>12, UpTo
<1>14. n \in 0 .. n
  BY <1>1
<1> QED
  BY <1>5, <1>8, <1>13, <1>14 DEF n, V

------------------------------------------------------------------------------
(* Quiet hours and the rota. *)

\* is_quiet_hours, for any two hours: the interval from the one to the other round the clock.
THEOREM QuietHoursAreAnInterval == QuietIsAnInterval
<1> SUFFICES ASSUME NEW start \in 0 .. 23, NEW end \in 0 .. 23, NEW hour \in 0 .. 23
             PROVE  Quiet(start, end, hour) <=> \E k \in 0 .. ((end - start) % 24) - 1 : hour = (start + k) % 24
  BY DEF QuietIsAnInterval
<1> DEFINE span == (end - start) % 24
           since == (hour - start) % 24
<1>1. span = IF start <= end THEN end - start ELSE end - start + 24
  OBVIOUS
<1>2. since = IF start <= hour THEN hour - start ELSE hour - start + 24
  OBVIOUS
<1>3. hour = (start + since) % 24 /\ since \in 0 .. 23
  BY <1>2
<1>4. ASSUME NEW k \in 0 .. 23, hour = (start + k) % 24 PROVE k = since
  <2>1. (start + k) % 24 = IF start + k <= 23 THEN start + k ELSE start + k - 24
    OBVIOUS
  <2> QED
    BY <1>2, <1>4, <2>1
<1>5. Quiet(start, end, hour) <=> since < span
  BY <1>1, <1>2 DEF Quiet
<1>6. span \in 0 .. 23 /\ span - 1 \in Int
  BY <1>1
<1> HIDE DEF span, since
<1>7. ASSUME since < span PROVE since \in 0 .. span - 1
  BY <1>3, <1>6, <1>7
<1>8. ASSUME NEW k \in 0 .. span - 1, hour = (start + k) % 24 PROVE since < span
  <2>1. k \in 0 .. 23 /\ k < span
    BY <1>6
  <2> QED
    BY <1>4, <1>8, <2>1
<1>9. Quiet(start, end, hour) <=> \E k \in 0 .. span - 1 : hour = (start + k) % 24
  BY <1>3, <1>5, <1>7, <1>8
<1> QED
  BY <1>9 DEF span

\* A number has one remainder.
LEMMA RemainderIs ==
    ASSUME NEW d \in Nat, d > 0, NEW q \in Nat, NEW r \in 0 .. d - 1, NEW a \in Nat, a = d * q + r
    PROVE  a % d = r
<1>1. a \div d \in Int /\ a % d \in 0 .. d - 1 /\ a = d * (a \div d) + (a % d)
  OBVIOUS
<1>2. PICK u \in Int, s \in 0 .. d - 1 : u = a \div d /\ s = a % d /\ a = d * u + s
  BY <1>1
<1>3. ASSUME NEW x \in Int, NEW y \in Int, x + 1 <= y PROVE d * x + d <= d * y
  <2>1. d * (x + 1) <= d * y
    BY <1>3
  <2>2. d * (x + 1) = d * x + d
    OBVIOUS
  <2> QED
    BY <2>1, <2>2
<1>4. d * u \in Int /\ d * q \in Int
  OBVIOUS
<1>5. CASE u + 1 <= q
  BY <1>2, <1>3, <1>4, <1>5
<1>6. CASE q + 1 <= u
  BY <1>2, <1>3, <1>4, <1>6
<1>7. CASE u = q
  BY <1>2, <1>4, <1>7
<1> QED
  BY <1>5, <1>6, <1>7

\* As many consecutive numbers have every remainder.
LEMMA RemaindersTakeTurns ==
    ASSUME NEW members \in Nat, members > 0, NEW p \in Nat, NEW r \in 0 .. members - 1
    PROVE  \E k \in 0 .. members - 1 : (p + k) % members = r
<1>1. p \div members \in Nat /\ p % members \in 0 .. members - 1 /\ p = members * (p \div members) + (p % members)
  OBVIOUS
<1>2. PICK q \in Nat, s \in 0 .. members - 1 : p = members * q + s
  BY <1>1
<1>3. CASE s <= r
  <2>1. PICK k \in 0 .. members - 1 : k = r - s
    BY <1>3
  <2>2. PICK a \in Nat : a = p + k
    OBVIOUS
  <2>3. a = members * q + r
    BY <1>2, <2>1, <2>2
  <2>4. a % members = r
    BY <2>3, RemainderIs
  <2> QED
    BY <2>2, <2>4
<1>4. CASE r < s
  <2>1. PICK k \in 0 .. members - 1 : k = r - s + members
    BY <1>4
  <2>2. members * (q + 1) = members * q + members /\ members * q \in Nat
    OBVIOUS
  <2>3. PICK a \in Nat : a = p + k
    OBVIOUS
  <2>4. PICK u \in Nat : u = q + 1
    OBVIOUS
  <2>5. a = members * u + r
    BY <1>2, <2>1, <2>2, <2>3, <2>4
  <2>6. a % members = r
    BY <2>5, RemainderIs
  <2> QED
    BY <2>3, <2>6
<1> QED
  BY <1>3, <1>4

\* From a day on, in as many periods as there are members each of them is on call, so that none
\* is twice, and the call changes hands only at the end of a period.
TakesTurns(members, index, day, weekly) ==
    LET length == IF weekly THEN 7 ELSE 1
        who(d) == OnCall(index, Period(weekly, d), members)
    IN  /\ {who(day + length * k) : k \in 0 .. members - 1} = 0 .. members - 1
        /\ (day + 1) % length # 0 => who(day + 1) = who(day)

\* get_current_oncall, for any rota and from any day on: everybody's turn comes round.
THEOREM OnCallTakesEveryTurn ==
    ASSUME NEW members \in Nat, members > 0, NEW index \in Nat, NEW day \in Nat, NEW weekly \in BOOLEAN
    PROVE  TakesTurns(members, index, day, weekly)
<1> DEFINE length == IF weekly THEN 7 ELSE 1
           who(d) == OnCall(index, Period(weekly, d), members)
           p == index + Period(weekly, day)
<1>1. p \in Nat
  BY DEF Period
<1>2. ASSUME NEW k \in 0 .. members - 1 PROVE who(day + length * k) = (p + k) % members
  <2>1. k \in Nat
    OBVIOUS
  <2>2. CASE weekly
    <3>1. (day + 7 * k) \div 7 = day \div 7 + k
      BY <2>1
    <3>2. Period(weekly, day + length * k) = Period(weekly, day) + k
      BY <2>2, <3>1 DEF Period
    <3>3. index + (Period(weekly, day) + k) = p + k
      BY <2>1, <2>2 DEF Period
    <3> QED
      BY <3>2, <3>3 DEF OnCall
  <2>3. CASE ~weekly
    <3>1. Period(weekly, day + length * k) = day + k /\ p = index + day
      BY <2>1, <2>3 DEF Period
    <3>2. index + (day + k) = p + k
      BY <2>1, <3>1
    <3> QED
      BY <3>1, <3>2 DEF OnCall
  <2> QED
    BY <2>2, <2>3
<1>3. ASSUME (day + 1) % length # 0 PROVE who(day + 1) = who(day)
  <2>1. weekly
    BY <1>3
  <2>2. (day + 1) \div 7 = day \div 7
    BY <1>3, <2>1
  <2> QED
    BY <2>1, <2>2 DEF OnCall, Period
<1> HIDE DEF p, who, length
<1>4. \A k \in 0 .. members - 1 : (p + k) % members \in 0 .. members - 1
  BY <1>1
<1>5. \A r \in 0 .. members - 1 : \E k \in 0 .. members - 1 : (p + k) % members = r
  BY <1>1, RemaindersTakeTurns
<1>6. {who(day + length * k) : k \in 0 .. members - 1} = 0 .. members - 1
  BY <1>2, <1>4, <1>5
<1> QED
  BY <1>3, <1>6 DEF who, length, TakesTurns

\* get_current_oncall, for the rotas of the runs.
THEOREM OnCallIsShared == OnCallTakesTurns
<1>1. ASSUME NEW members \in 1 .. 4, NEW index \in 0 .. 5, NEW day \in 0 .. 30, NEW weekly \in BOOLEAN
      PROVE  TakesTurns(members, index, day, weekly)
  <2>1. members \in Nat /\ members > 0 /\ index \in Nat /\ day \in Nat
    OBVIOUS
  <2> QED
    BY <2>1, OnCallTakesEveryTurn
<1> QED
  BY <1>1 DEF TakesTurns, OnCallTakesTurns

------------------------------------------------------------------------------
(* The SLA report. *)

\* A list that counts the parts of a set, each by the name all its elements have for f.
CountsParts(A, f, n, name, list) ==
    /\ n \in Nat /\ list \in Seq(Int) /\ Len(list) = n
    /\ \A k \in 1 .. n : list[k] = Cardinality({a \in A : f[a] = name[k]})
    /\ \A i, j \in 1 .. n : i # j => name[i] # name[j]
    /\ \A a \in A : \E k \in 1 .. n : f[a] = name[k]

\* Two finite sets without a common element.
LEMMA DisjointAdd ==
    ASSUME NEW X, NEW Y, IsFiniteSet(X), IsFiniteSet(Y), X \cap Y = {}
    PROVE  Cardinality(X \cup Y) = Cardinality(X) + Cardinality(Y)
<1>1. Cardinality({}) = 0
  BY FS_EmptySet
<1>2. Cardinality(X) \in Nat /\ Cardinality(Y) \in Nat
  BY FS_CardinalityType
<1>3. Cardinality(X \cup Y) = Cardinality(X) + Cardinality(Y) - Cardinality(X \cap Y)
  BY FS_Union
<1>4. Cardinality(X \cap Y) = 0
  BY <1>1
<1>5. PICK p \in Nat, q \in Nat : p = Cardinality(X) /\ q = Cardinality(Y)
  BY <1>2
<1>6. Cardinality(X \cup Y) = p + q - 0
  BY <1>3, <1>4, <1>5
<1> QED
  BY <1>5, <1>6

\* What is counted in each part adds up.
LEMMA PartsAddUp ==
    ASSUME NEW A, IsFiniteSet(A), NEW f, NEW n, NEW name, NEW list, CountsParts(A, f, n, name, list)
    PROVE  Sum(list) = Cardinality(A)
<1>0. /\ n \in Nat /\ list \in Seq(Int) /\ Len(list) = n
      /\ \A k \in 1 .. n : list[k] = Cardinality({a \in A : f[a] = name[k]})
      /\ \A i, j \in 1 .. n : i # j => name[i] # name[j]
      /\ \A a \in A : \E k \in 1 .. n : f[a] = name[k]
  BY DEF CountsParts
<1>1. PICK acc : Running(list, acc) /\ Sum(list) = acc[n]
  BY <1>0, SumRuns
<1>2. acc \in [0 .. n -> Int] /\ acc[0] = 0 /\ \A k \in 1 .. n : acc[k] = acc[k - 1] + list[k]
  BY <1>0, <1>1 DEF Running
<1> DEFINE Part(k) == {a \in A : f[a] = name[k]}
           First(k) == {a \in A : \E j \in 1 .. k : f[a] = name[j]}
           G == {k \in 0 .. n : acc[k] = Cardinality(First(k))}
<1>3. \A k : IsFiniteSet(Part(k)) /\ IsFiniteSet(First(k))
  BY FS_Subset
<1>4. 0 \in G
  <2>1. First(0) = {}
    OBVIOUS
  <2>2. Cardinality({}) = 0
    BY FS_EmptySet
  <2>3. Cardinality(First(0)) = 0
    BY <2>1, <2>2
  <2> HIDE DEF First
  <2> QED
    BY <1>0, <1>2, <2>3
<1>5. ASSUME NEW k \in 1 .. n, k - 1 \in G PROVE k \in G
  <2>1. k \in 0 .. n /\ k - 1 \in 0 .. n /\ \A j \in 1 .. k : j \in 1 .. k - 1 \/ j = k
    BY <1>0
  <2>2. First(k) = First(k - 1) \cup Part(k) /\ First(k - 1) \cap Part(k) = {}
    <3>1. \A j \in 1 .. k - 1 : j \in 1 .. k /\ j \in 1 .. n /\ j # k
      BY <1>0
    <3>2. k \in 1 .. k
      BY <1>0
    <3> QED
      BY <1>0, <2>1, <3>1, <3>2
  <2>3. Cardinality(First(k)) = Cardinality(First(k - 1)) + Cardinality(Part(k))
    <3>1. IsFiniteSet(First(k - 1)) /\ IsFiniteSet(Part(k))
      BY <1>3
    <3> HIDE DEF First, Part
    <3> QED
      BY <2>2, <3>1, DisjointAdd
  <2>4. acc[k] = acc[k - 1] + Cardinality(Part(k)) /\ acc[k - 1] = Cardinality(First(k - 1))
    BY <1>0, <1>2, <1>5
  <2> QED
    BY <2>1, <2>3, <2>4
<1>6. \A k \in 0 .. n : k \in G
  <2> HIDE DEF G
  <2> QED
    BY <1>0, <1>4, <1>5, UpTo
<1>7. First(n) = A
  BY <1>0
<1>8. n \in G
  <2>1. n \in 0 .. n
    BY <1>0
  <2> HIDE DEF G
  <2> QED
    BY <1>6, <2>1
<1> QED
  BY <1>1, <1>7, <1>8

\* Numbers for the elements of a finite set, no two of which are the same, number all of them.
LEMMA NumbersReachAll ==
    ASSUME NEW S, IsFiniteSet(S), NEW f \in [1 .. Cardinality(S) -> S],
           \A i, j \in 1 .. Cardinality(S) : i # j => f[i] # f[j]
    PROVE  Cardinality(S) \in Nat /\ \A x \in S : \E i \in 1 .. Cardinality(S) : f[i] = x
<1> DEFINE n == Cardinality(S)
<1>1. n \in Nat
  BY FS_CardinalityType
<1>2. f \in Injection(1 .. n, S)
  BY DEF Injection, IsInjective
<1>3. IsFiniteSet(1 .. n) /\ Cardinality(1 .. n) = n
  BY <1>1, FS_Interval
<1> HIDE DEF n
<1>4. f \in Surjection(1 .. n, S)
  BY <1>2, <1>3, FS_Injection DEF n
<1> QED
  BY <1>1, <1>4 DEF Surjection, n

\* A list of the alerts raised has each of them at one place.
LEMMA RaisedListFacts ==
    ASSUME EscalationInv, NEW list \in SetToSeqs(Raised)
    PROVE  /\ IsFiniteSet(Raised) /\ Range(list) = Raised
           /\ Len(list) \in Nat /\ DOMAIN list = 1 .. Len(list)
<1>1. IsFiniteSet(Raised)
  BY EscalationAssumption, FS_Subset DEF Raised
<1>2. /\ list \in [1 .. Cardinality(Raised) -> Raised]
      /\ \A i, j \in 1 .. Cardinality(Raised) : i # j => list[i] # list[j]
  BY DEF SetToSeqs
<1>3. /\ Cardinality(Raised) \in Nat
      /\ \A a \in Raised : \E i \in 1 .. Cardinality(Raised) : list[i] = a
  BY <1>1, <1>2, NumbersReachAll
<1>4. Range(list) = Raised
  BY <1>2, <1>3 DEF Range
<1>5. list \in Seq(Raised)
  BY <1>2, <1>3
<1> QED
  BY <1>1, <1>4, <1>5

\* The first of the numbers 1 to n with a property.
LEMMA FirstNumber ==
    ASSUME NEW n \in Nat, NEW S \in SUBSET (1 .. n), S # {}
    PROVE  \E i \in S : \A j \in 1 .. i - 1 : j \notin S
<1> DEFINE T == {k \in 0 .. n : n - k \in S}
<1>1. T # {}
  <2>1. PICK i \in 1 .. n : i \in S
    OBVIOUS
  <2>2. n - i \in 0 .. n /\ n - (n - i) = i
    OBVIOUS
  <2> QED
    BY <2>1, <2>2
<1>2. \A k \in 0 .. n : k \in T <=> n - k \in S
  OBVIOUS
<1> HIDE DEF T
<1>3. PICK k \in 0 .. n : k \in T /\ \A y \in T : y <= k
  <2>1. T \in SUBSET (0 .. n)
    BY DEF T
  <2> QED
    BY <1>1, <2>1, GreatestExists
<1>4. n - k \in S
  BY <1>2, <1>3
<1>5. ASSUME NEW j \in 1 .. n - k - 1 PROVE j \notin S
  <2>1. n - j \in 0 .. n /\ n - j > k /\ n - (n - j) = j
    BY <1>5
  <2> QED
    BY <1>2, <1>3, <2>1
<1> QED
  BY <1>4, <1>5

\* entity_stats, sorted: every entity with an alert once, and none before one with more breaches.
LEMMA MostBreachesFacts ==
    ASSUME EscalationInv, NEW list \in SetToSeqs(Raised)
    PROVE  LET ranked == MostBreaches(list) IN
           /\ ranked \in Seq({entity[a] : a \in Raised})
           /\ \A a \in Raised : \E k \in 1 .. Len(ranked) : ranked[k] = entity[a]
           /\ \A i, j \in 1 .. Len(ranked) : i < j =>
                 ranked[i] # ranked[j] /\ EntityBreaches(Raised, ranked[i]) >= EntityBreaches(Raised, ranked[j])
<1> DEFINE S == {entity[a] : a \in Raised}
           key == [e \in S |-> <<-EntityBreaches(Raised, e), FirstAlert(list, e)>>]
<1>1. PICK n \in Nat : n = Len(list) /\ DOMAIN list = 1 .. n
  BY RaisedListFacts
<1>2. IsFiniteSet(Raised) /\ Range(list) = Raised
  BY RaisedListFacts
<1>3. IsFiniteSet(S)
  <2> DEFINE f == [a \in Raised |-> entity[a]]
  <2>1. f \in Surjection(Raised, S)
    BY DEF Surjection
  <2> HIDE DEF f, S
  <2> QED
    BY <1>2, <2>1, FS_Surjection
<1>4. \A e : EntityBreaches(Raised, e) \in Nat
  BY <1>2, FS_Subset, FS_CardinalityType DEF EntityBreaches
<1>5. ASSUME NEW e \in S PROVE FirstAlert(list, e) \in 1 .. n /\ entity[list[FirstAlert(list, e)]] = e
  <2> DEFINE places == {i \in 1 .. n : entity[list[i]] = e}
  <2>1. places # {}
    <3>1. PICK a \in Raised : entity[a] = e
      BY <1>5
    <3>2. PICK i \in 1 .. n : list[i] = a
      BY <1>1, <1>2 DEF Range
    <3> QED
      BY <3>1, <3>2
  <2>2. PICK i \in places : \A j \in 1 .. i - 1 : j \notin places
    <3>1. places \in SUBSET (1 .. n)
      OBVIOUS
    <3> HIDE DEF places
    <3> QED
      BY <2>1, <3>1, FirstNumber
  <2>3. i \in DOMAIN list /\ entity[list[i]] = e /\ \A j \in 1 .. i - 1 : entity[list[j]] # e
    <3>1. \A j \in 1 .. i - 1 : j \in 1 .. n
      BY <2>2
    <3> QED
      BY <1>1, <2>2, <3>1
  <2> QED
    BY <1>1, <2>3, Zenon DEF FirstAlert
<1>6. MostBreaches(list) = Arranged(key)
  BY <1>2 DEF MostBreaches
<1> HIDE DEF S
<1>7. DOMAIN key = S /\ \A e \in S : key[e] = <<-EntityBreaches(Raised, e), FirstAlert(list, e)>>
  OBVIOUS
<1> HIDE DEF key
<1>8. \A e \in S : key[e] \in Int \X Int
  <2> TAKE e \in S
  <2>1. PICK s \in Nat : s = EntityBreaches(Raised, e)
    BY <1>4
  <2>2. PICK m \in 1 .. n : m = FirstAlert(list, e)
    BY <1>5
  <2>3. <<-s, m>> \in Int \X Int
    OBVIOUS
  <2> QED
    BY <1>7, <2>1, <2>2, <2>3
<1>9. \A e, f \in S : key[e] = key[f] => e = f
  <2> SUFFICES ASSUME NEW e \in S, NEW f \in S, key[e] = key[f] PROVE e = f
    OBVIOUS
  <2>1. FirstAlert(list, e) = FirstAlert(list, f)
    BY <1>7
  <2> QED
    BY <1>5, <2>1
<1>10. AreKeys(key)
  BY <1>3, <1>7, <1>8, <1>9 DEF AreKeys
<1>11. PICK ranked : ranked = MostBreaches(list)
  OBVIOUS
<1>12. /\ ranked \in Seq(S) /\ Range(ranked) = S
       /\ \A i, j \in 1 .. Len(ranked) : i < j => Precedes(key[ranked[i]], key[ranked[j]])
       /\ \A i, j \in 1 .. Len(ranked) : i # j => ranked[i] # ranked[j]
  BY <1>6, <1>7, <1>10, <1>11, ArrangedFacts DEF Arranges
<1>13. PICK k \in Nat : k = Len(ranked) /\ DOMAIN ranked = 1 .. k
  BY <1>12
<1>14. ASSUME NEW i \in 1 .. k, NEW j \in 1 .. k, i < j
       PROVE  ranked[i] # ranked[j] /\ EntityBreaches(Raised, ranked[i]) >= EntityBreaches(Raised, ranked[j])
  <2>1. ranked[i] \in S /\ ranked[j] \in S /\ ranked[i] # ranked[j]
    BY <1>12, <1>13, <1>14
  <2>2. Precedes(key[ranked[i]], key[ranked[j]])
    BY <1>12, <1>13, <1>14
  <2>3. PICK s \in Nat : s = EntityBreaches(Raised, ranked[i])
    BY <1>4
  <2>4. PICK t \in Nat : t = EntityBreaches(Raised, ranked[j])
    BY <1>4
  <2>5. key[ranked[i]][1] = -s /\ key[ranked[j]][1] = -t
    BY <1>7, <2>1, <2>3, <2>4
  <2>6. -s <= -t
    BY <2>2, <2>5 DEF Precedes
  <2>7. s >= t
    BY <2>6
  <2> QED
    BY <2>1, <2>3, <2>4, <2>7
<1>15. \A a \in Raised : \E m \in 1 .. k : ranked[m] = entity[a]
  BY <1>12, <1>13 DEF Range, S
<1> QED
  BY <1>11, <1>12, <1>13, <1>14, <1>15 DEF S

\* A list cut after its first n elements.
LEMMA CutFacts ==
    ASSUME NEW S, NEW list \in Seq(S), NEW n \in Nat
    PROVE  /\ Cut(list, n) \in Seq(S) /\ Len(Cut(list, n)) <= n /\ Len(Cut(list, n)) <= Len(list)
           /\ Len(Cut(list, n)) < n => Len(Cut(list, n)) = Len(list)
           /\ \A k \in 1 .. Len(Cut(list, n)) : k \in 1 .. Len(list) /\ Cut(list, n)[k] = list[k]
<1>1. PICK m \in Nat : m = (IF Len(list) < n THEN Len(list) ELSE n)
  OBVIOUS
<1>2. m <= n /\ m <= Len(list) /\ (m < n => m = Len(list))
  BY <1>1
<1>3. Cut(list, n) = SubSeq(list, 1, m)
  BY <1>1 DEF Cut
<1>4. /\ SubSeq(list, 1, m) \in Seq(S) /\ Len(SubSeq(list, 1, m)) = m
      /\ \A k \in 1 .. m : k \in 1 .. Len(list) /\ SubSeq(list, 1, m)[k] = list[k]
  BY <1>2
<1>5. PICK cut : cut = Cut(list, n)
  OBVIOUS
<1>6. cut \in Seq(S) /\ Len(cut) = m /\ \A k \in 1 .. m : k \in 1 .. Len(list) /\ cut[k] = list[k]
  BY <1>3, <1>4, <1>5
<1> QED
  BY ONLY <1>2, <1>5, <1>6

\* What there is of a finite set in the parts that are shown is counted by the rows.
CountsRows(A, f, m, shown, figure) ==
    /\ IsFiniteSet(A) /\ m \in Nat /\ \A i, j \in 1 .. m : i < j => shown[i] # shown[j]
    /\ figure = [k \in 1 .. m |-> figure[k]]
    /\ \A k \in 1 .. m : figure[k] = Cardinality({a \in A : f[a] = shown[k]})

AddsUp(A, f, m, shown, figure) == Sum(figure) = Cardinality({a \in A : \E k \in 1 .. m : f[a] = shown[k]})

LEMMA RowsAddUp ==
    ASSUME NEW A, NEW f, NEW m, NEW shown, NEW figure, CountsRows(A, f, m, shown, figure)
    PROVE  AddsUp(A, f, m, shown, figure)
<1>0. /\ IsFiniteSet(A) /\ m \in Nat /\ \A i, j \in 1 .. m : i < j => shown[i] # shown[j]
      /\ figure = [k \in 1 .. m |-> figure[k]]
      /\ \A k \in 1 .. m : figure[k] = Cardinality({a \in A : f[a] = shown[k]})
  BY DEF CountsRows
<1> DEFINE B == {a \in A : \E k \in 1 .. m : f[a] = shown[k]}
<1>1. IsFiniteSet(B)
  BY <1>0, FS_Subset
<1>2. ASSUME NEW k \in 1 .. m PROVE {a \in A : f[a] = shown[k]} = {a \in B : f[a] = shown[k]}
  BY <1>2
<1>3. ASSUME NEW k \in 1 .. m PROVE Cardinality({a \in A : f[a] = shown[k]}) \in Nat
  BY <1>0, FS_Subset, FS_CardinalityType
<1>4. figure \in Seq(Int) /\ Len(figure) = m
  <2>1. \A k \in 1 .. m : figure[k] \in Int
    <3> TAKE k \in 1 .. m
    <3>1. figure[k] = Cardinality({a \in A : f[a] = shown[k]})
      BY <1>0
    <3> QED
      BY <1>3, <3>1
  <2> DEFINE g == [k \in 1 .. m |-> figure[k]]
  <2>2. g \in Seq(Int) /\ Len(g) = m
    BY <1>0, <2>1
  <2> HIDE DEF g
  <2>3. figure = g
    BY <1>0, Zenon DEF g
  <2> QED
    BY <2>2, <2>3
<1>5. \A i, j \in 1 .. m : i # j => shown[i] # shown[j]
  <2> SUFFICES ASSUME NEW i \in 1 .. m, NEW j \in 1 .. m, i # j PROVE shown[i] # shown[j]
    OBVIOUS
  <2>1. i < j \/ j < i
    BY <1>0
  <2> QED
    BY <1>0, <2>1
<1>6. \A a \in B : \E k \in 1 .. m : f[a] = shown[k]
  OBVIOUS
<1>7. \A k \in 1 .. m : figure[k] = Cardinality({a \in B : f[a] = shown[k]})
  BY <1>0, <1>2
<1> HIDE DEF B
<1>8. CountsParts(B, f, m, shown, figure)
  BY <1>0, <1>4, <1>5, <1>6, <1>7 DEF CountsParts
<1>9. Sum(figure) = Cardinality(B)
  BY <1>1, <1>8, PartsAddUp
<1> QED
  BY <1>9 DEF B, AddsUp

\* The minutes that the tracker and the report compare with their targets are the same.
MinutesOf(a) == IF resolvedAt[a] # {} THEN The(TimeToResolve(a)) ELSE now - The(raised[a])

LEMMA BreachesAreMinutes ==
    ASSUME EscalationInv, NEW a \in Raised
    PROVE  /\ MinutesOf(a) \in Int
           /\ Breached(a) <=> MinutesOf(a) > SlaTarget
           /\ a \in ReportedBreaches(Raised) <=> MinutesOf(a) > ReportTarget
<1>1. /\ now \in Int /\ raised[a] \subseteq Int /\ raised[a] # {} /\ resolvedAt[a] \subseteq Int
  BY EscalationAssumption DEF EscalationInv, EscalationTypeOK, Raised
<1>2. The(raised[a]) \in Int
  BY <1>1 DEF The
<1>3. TimeToResolve(a) \subseteq Int /\ (resolvedAt[a] # {} => TimeToResolve(a) # {})
  <2>1. \A t \in resolvedAt[a] : t - The(raised[a]) \in Int
    BY <1>1, <1>2
  <2> QED
    BY <2>1 DEF TimeToResolve
<1>4. resolvedAt[a] # {} => The(TimeToResolve(a)) \in Int
  BY <1>3 DEF The
<1>5. now - The(raised[a]) \in Int
  BY <1>1, <1>2
<1>6. MinutesOf(a) \in Int
  BY <1>4, <1>5 DEF MinutesOf
<1>7. Breached(a) <=> MinutesOf(a) > SlaTarget
  BY DEF Breached, MinutesOf
<1>8. a \in ReportedBreaches(Raised) <=> MinutesOf(a) > ReportTarget
  BY DEF ReportedBreaches, CountsAsBreach, MinutesOf
<1> QED
  BY <1>6, <1>7, <1>8

\* The report's table, however the query lists the alerts.
TableIsSound(rows) ==
    /\ Len(rows) <= TableRows
    /\ \A k, m \in DOMAIN rows : k < m =>
          rows[k].entity # rows[m].entity /\ rows[k].breaches >= rows[m].breaches
    /\ \A a \in Raised \ AlertsOf(rows) :
          /\ Len(rows) = TableRows
          /\ \A k \in DOMAIN rows : EntityBreaches(Raised, entity[a]) <= rows[k].breaches
    /\ Sum([k \in DOMAIN rows |-> rows[k].total]) = Cardinality(AlertsOf(rows))
    /\ Sum([k \in DOMAIN rows |-> rows[k].breaches]) =
          Cardinality({a \in AlertsOf(rows) : a \in ReportedBreaches(Raised) /\ resolvedAt[a] # {}})

LEMMA TableFacts ==
    ASSUME EscalationInv, NEW list \in SetToSeqs(Raised)
    PROVE  TableIsSound(ByEntity(list))
<1>1. IsFiniteSet(Raised) /\ Range(list) = Raised
  BY RaisedListFacts
<1> DEFINE names == {entity[a] : a \in Raised}
<1>2. PICK ranked : ranked = MostBreaches(list)
  OBVIOUS
<1>3. /\ ranked \in Seq(names)
      /\ \A a \in Raised : \E k \in 1 .. Len(ranked) : ranked[k] = entity[a]
      /\ \A i, j \in 1 .. Len(ranked) : i < j =>
            ranked[i] # ranked[j] /\ EntityBreaches(Raised, ranked[i]) >= EntityBreaches(Raised, ranked[j])
  BY <1>2, MostBreachesFacts
<1> HIDE DEF names
<1>4. PICK shown : shown = Cut(ranked, TableRows)
  OBVIOUS
<1>5. /\ shown \in Seq(names) /\ Len(shown) <= TableRows /\ Len(shown) <= Len(ranked)
      /\ Len(shown) < TableRows => Len(shown) = Len(ranked)
      /\ \A k \in 1 .. Len(shown) : k \in 1 .. Len(ranked) /\ shown[k] = ranked[k]
  BY <1>3, <1>4, EscalationAssumption, CutFacts
<1>6. PICK n \in Nat : n = Len(ranked)
  BY <1>3
<1>7. PICK m \in Nat : m = Len(shown) /\ DOMAIN shown = 1 .. m
  BY <1>5
<1>8. TableRows \in Nat /\ m <= TableRows /\ m <= n /\ (m < TableRows => m = n)
  BY <1>5, <1>6, <1>7, EscalationAssumption
<1>9. PICK rows : rows = ByEntity(list)
  OBVIOUS
<1>10. rows = [k \in 1 .. m |-> [entity   |-> shown[k],
                                 total    |-> EntityTotal(Raised, shown[k]),
                                 breaches |-> EntityBreaches(Raised, shown[k])]]
  BY <1>1, <1>2, <1>4, <1>7, <1>9 DEF ByEntity
<1>11. DOMAIN rows = 1 .. m /\ Len(rows) = m
  BY <1>10
<1>12. \A k \in 1 .. m : /\ rows[k].entity = shown[k]
                         /\ rows[k].total = EntityTotal(Raised, shown[k])
                         /\ rows[k].breaches = EntityBreaches(Raised, shown[k])
  BY <1>10
<1>13. AlertsOf(rows) = {a \in Raised : \E k \in 1 .. m : entity[a] = shown[k]}
  BY <1>11, <1>12 DEF AlertsOf
<1>14. \A i, j \in 1 .. m : i < j =>
          shown[i] # shown[j] /\ EntityBreaches(Raised, shown[i]) >= EntityBreaches(Raised, shown[j])
  BY <1>3, <1>5, <1>7
<1>19. \A i, j \in 1 .. m : i < j => shown[i] # shown[j]
  BY <1>14
<1>15. ASSUME NEW a \in Raised \ AlertsOf(rows)
       PROVE  Len(rows) = TableRows /\ \A k \in DOMAIN rows : EntityBreaches(Raised, entity[a]) <= rows[k].breaches
  <2>1. PICK p \in 1 .. n : ranked[p] = entity[a]
    BY <1>3, <1>6
  <2>2. p \notin 1 .. m
    BY <1>5, <1>7, <1>13, <1>15, <2>1
  <2>3. m < p /\ m = TableRows
    BY <1>8, <2>2
  <2>4. ASSUME NEW k \in 1 .. m PROVE EntityBreaches(Raised, entity[a]) <= rows[k].breaches
    <3>1. k < p /\ k \in 1 .. n
      BY <1>8, <2>3
    <3>2. EntityBreaches(Raised, ranked[k]) >= EntityBreaches(Raised, ranked[p])
      BY <1>3, <1>6, <3>1
    <3>3. rows[k].breaches = EntityBreaches(Raised, ranked[k])
      BY <1>5, <1>7, <1>12
    <3>4. \A e : EntityBreaches(Raised, e) \in Nat
      BY <1>1, FS_Subset, FS_CardinalityType DEF EntityBreaches
    <3>5. PICK s \in Nat : s = EntityBreaches(Raised, ranked[k])
      BY <3>4
    <3>6. PICK t \in Nat : t = EntityBreaches(Raised, ranked[p])
      BY <3>4
    <3> QED
      BY <2>1, <3>2, <3>3, <3>5, <3>6
  <2> QED
    BY <1>11, <2>3, <2>4
<1>16. Sum([k \in DOMAIN rows |-> rows[k].total]) = Cardinality(AlertsOf(rows))
  <2> DEFINE figure == [k \in DOMAIN rows |-> rows[k].total]
  <2>1. DOMAIN figure = 1 .. m /\ \A k \in 1 .. m : figure[k] = Cardinality({a \in Raised : entity[a] = shown[k]})
    BY <1>11, <1>12 DEF EntityTotal
  <2>2. figure = [k \in 1 .. m |-> figure[k]]
    BY <1>11
  <2> HIDE DEF figure
  <2>3. Sum(figure) = Cardinality({a \in Raised : \E k \in 1 .. m : entity[a] = shown[k]})
    <3>1. CountsRows(Raised, entity, m, shown, figure)
      BY <1>1, <1>19, <2>1, <2>2 DEF CountsRows
    <3>2. AddsUp(Raised, entity, m, shown, figure)
      BY ONLY <3>1, RowsAddUp, Zenon
    <3> QED
      BY <3>2 DEF AddsUp
  <2> QED
    BY <1>13, <2>3 DEF figure
<1>17. Sum([k \in DOMAIN rows |-> rows[k].breaches]) =
          Cardinality({a \in AlertsOf(rows) : a \in ReportedBreaches(Raised) /\ resolvedAt[a] # {}})
  <2> DEFINE figure == [k \in DOMAIN rows |-> rows[k].breaches]
             A == {a \in Raised : a \in ReportedBreaches(Raised) /\ resolvedAt[a] # {}}
  <2>1. ASSUME NEW e PROVE EntityBreaches(Raised, e) = Cardinality({a \in A : entity[a] = e})
    <3>1. {a \in Raised : entity[a] = e /\ resolvedAt[a] # {} /\ CountsAsBreach(The(TimeToResolve(a)))}
            = {a \in A : entity[a] = e}
      BY DEF ReportedBreaches
    <3> QED
      BY <3>1 DEF EntityBreaches
  <2>2. DOMAIN figure = 1 .. m /\ \A k \in 1 .. m : figure[k] = Cardinality({a \in A : entity[a] = shown[k]})
    BY <1>11, <1>12, <2>1
  <2>3. figure = [k \in 1 .. m |-> figure[k]]
    BY <1>11
  <2>4. IsFiniteSet(A)
    BY <1>1, FS_Subset
  <2>5. {a \in AlertsOf(rows) : a \in ReportedBreaches(Raised) /\ resolvedAt[a] # {}}
          = {a \in A : \E k \in 1 .. m : entity[a] = shown[k]}
    BY <1>13
  <2> HIDE DEF figure, A
  <2>6. Sum(figure) = Cardinality({a \in A : \E k \in 1 .. m : entity[a] = shown[k]})
    <3>1. CountsRows(A, entity, m, shown, figure)
      BY <1>19, <2>2, <2>3, <2>4 DEF CountsRows
    <3>2. AddsUp(A, entity, m, shown, figure)
      BY ONLY <3>1, RowsAddUp, Zenon
    <3> QED
      BY <3>2 DEF AddsUp
  <2> QED
    BY <2>5, <2>6 DEF figure
<1>18. \A k, l \in DOMAIN rows : k < l =>
          rows[k].entity # rows[l].entity /\ rows[k].breaches >= rows[l].breaches
  BY <1>11, <1>12, <1>14
<1> QED
  BY <1>8, <1>9, <1>11, <1>15, <1>16, <1>17, <1>18 DEF TableIsSound

\* generate_sla_report beside SLATracker.track, whenever the report is made.
LEMMA SlaFigures == EscalationInv => SlaFiguresAgree
<1> SUFFICES ASSUME EscalationInv PROVE SlaFiguresAgree
  OBVIOUS
<1>1. SlaTarget \in Int /\ ReportTarget \in Int
  BY EscalationAssumption
<1>2. ReportedBreaches(Raised) \subseteq Raised
  BY DEF ReportedBreaches
<1>3. SlaTarget <= ReportTarget => ReportedBreaches(Raised) \subseteq {a \in Raised : Breached(a)}
  <2> SUFFICES ASSUME SlaTarget <= ReportTarget, NEW a \in Raised, a \in ReportedBreaches(Raised)
               PROVE  Breached(a)
    BY <1>2
  <2>1. PICK t \in Int : t = MinutesOf(a)
    BY BreachesAreMinutes
  <2>2. t > ReportTarget
    BY <2>1, BreachesAreMinutes
  <2>3. t > SlaTarget
    BY <1>1, <2>2
  <2> QED
    BY <2>1, <2>3, BreachesAreMinutes
<1>4. ReportTarget <= SlaTarget => {a \in Raised : Breached(a)} \subseteq ReportedBreaches(Raised)
  <2> SUFFICES ASSUME ReportTarget <= SlaTarget, NEW a \in Raised, Breached(a)
               PROVE  a \in ReportedBreaches(Raised)
    OBVIOUS
  <2>1. PICK t \in Int : t = MinutesOf(a)
    BY BreachesAreMinutes
  <2>2. t > SlaTarget
    BY <2>1, BreachesAreMinutes
  <2>3. t > ReportTarget
    BY <1>1, <2>2
  <2> QED
    BY <2>1, <2>3, BreachesAreMinutes
<1>5. \A list \in SetToSeqs(Raised) : TableIsSound(ByEntity(list))
  BY TableFacts
<1> QED
  BY <1>3, <1>4, <1>5 DEF SlaFiguresAgree, TableIsSound

Time(a) == The(raised[a])

\* Alerts in the order of their creation.
InTime(list) == \A i, j \in DOMAIN list : i < j => Time(list[i]) <= Time(list[j])

\* Groups of the alerts of one entity.
AreChains(groups, A) ==
    /\ \A g \in groups : /\ g \in Seq(A) /\ Len(g) >= 1
                         /\ \A i \in DOMAIN g : i > 1 => Apart(g[i - 1], g[i]) \in 0 .. Window
    /\ \A a \in A : \E g \in groups : a \in Range(g)
    /\ \A g, h \in groups : g # h => \A a \in Range(g), b \in Range(h) : Apart(a, b) \notin -Window .. Window

\* group_alerts on one bucket that has every alert of a set, in order.
LEMMA BucketChains ==
    ASSUME NEW A, NEW bucket \in Seq(A), \A a \in A : Time(a) \in Nat, InTime(bucket),
           \A a \in A : \E k \in DOMAIN bucket : bucket[k] = a
    PROVE  AreChains(Range(Groups(bucket)), A)
<1> DEFINE n == Len(bucket)
           gs == Groups(bucket)
           m == Len(gs)
<1>1. n \in Nat /\ DOMAIN bucket = 1 .. n /\ gs \in Seq(Seq(A)) /\ CutAtGaps(bucket, n + 1, gs)
  BY GroupsAreCutAtGaps
<1>2. m \in Nat /\ DOMAIN gs = 1 .. m
  BY <1>1
<1>3. PICK start \in [1 .. m + 1 -> 1 .. n + 1] :
        /\ start[1] = 1 /\ start[m + 1] = n + 1
        /\ \A j \in 1 .. m : IsChain(bucket, start, gs[j], j)
  BY <1>1 DEF CutAtGaps
<1>4. \A k \in 1 .. n : bucket[k] \in A /\ Time(bucket[k]) \in Nat
  BY <1>1
<1>5. \A i, j \in 1 .. n : i <= j => Time(bucket[i]) <= Time(bucket[j])
  <2>1. ASSUME NEW i \in 1 .. n, NEW j \in 1 .. n, i <= j PROVE Time(bucket[i]) <= Time(bucket[j])
    <3>1. i < j \/ i = j
      BY <2>1
    <3>2. Time(bucket[i]) \in Nat
      BY <1>4
    <3>3. i < j => Time(bucket[i]) <= Time(bucket[j])
      BY <1>1 DEF InTime
    <3>4. i = j => Time(bucket[i]) <= Time(bucket[j])
      BY <3>2
    <3> QED
      BY <3>1, <3>3, <3>4
  <2> QED
    BY <2>1
<1>6. Window \in Nat
  BY EscalationAssumption
<1>0. n \in Nat /\ m \in Nat
  BY <1>1, <1>2
<1> HIDE DEF n, gs, m
<1>7. ASSUME NEW j \in 1 .. m
      PROVE  /\ start[j] \in 1 .. n + 1 /\ start[j + 1] \in 1 .. n + 1 /\ start[j] < start[j + 1]
             /\ gs[j] \in Seq(A) /\ Len(gs[j]) = start[j + 1] - start[j]
             /\ \A i \in 1 .. start[j + 1] - start[j] : gs[j][i] = bucket[start[j] + i - 1]
             /\ j > 1 => ~Joins(bucket, start[j])
             /\ \A i \in start[j] + 1 .. start[j + 1] - 1 : Joins(bucket, i)
  <2>1. IsChain(bucket, start, gs[j], j) /\ j \in 1 .. m + 1 /\ j + 1 \in 1 .. m + 1
    BY <1>2, <1>3
  <2>2. PICK p \in 1 .. n + 1 : p = start[j]
    BY <1>3, <2>1
  <2>3. PICK q \in 1 .. n + 1 : q = start[j + 1]
    BY <1>3, <2>1
  <2>4. p < q /\ gs[j] = SubSeq(bucket, p, q - 1)
    BY <2>1, <2>2, <2>3 DEF IsChain
  <2>5. p \in 1 .. n /\ q - 1 \in 1 .. n /\ p <= q - 1 /\ q - 1 - p + 1 = q - p
    BY <1>1, <2>4
  <2>6. /\ SubSeq(bucket, p, q - 1) \in Seq(A) /\ Len(SubSeq(bucket, p, q - 1)) = q - 1 - p + 1
        /\ \A i \in 1 .. q - 1 - p + 1 : SubSeq(bucket, p, q - 1)[i] = bucket[p + i - 1]
    BY <2>5, SubSeqProperties DEF n
  <2> QED
    BY <2>1, <2>2, <2>3, <2>4, <2>5, <2>6 DEF IsChain
<1>17. ASSUME NEW j \in 1 .. m PROVE DOMAIN gs[j] = 1 .. start[j + 1] - start[j]
  <2>1. PICK g \in Seq(A) : g = gs[j]
    BY <1>7
  <2>2. DOMAIN g = 1 .. Len(g) /\ Len(g) = start[j + 1] - start[j]
    BY <1>7, <2>1
  <2> QED
    BY <2>1, <2>2
\* Groups later in the list start later.
<1>8. ASSUME NEW j \in 1 .. m PROVE \A l \in 1 .. m : j < l => start[j + 1] <= start[l]
  <2> DEFINE G == {l \in 0 .. m : j < l => start[j + 1] <= start[l]}
  <2>1. 0 \in G
    BY <1>2
  <2>2. ASSUME NEW l \in 1 .. m, l - 1 \in G PROVE l \in G
    <3>1. CASE l - 1 = j
      <4>1. j + 1 = l /\ start[l] \in 1 .. n + 1 /\ l \in 0 .. m
        BY <1>2, <1>7, <3>1
      <4>2. start[l] <= start[l]
        BY <1>1, <4>1
      <4> QED
        BY <4>1, <4>2
    <3>2. CASE j < l - 1
      <4>1. l - 1 \in 1 .. m /\ l - 1 + 1 = l /\ l \in 0 .. m
        BY <1>2, <3>2
      <4>2. start[l - 1] < start[l] /\ start[l - 1] \in 1 .. n + 1 /\ start[l] \in 1 .. n + 1
        BY <1>7, <4>1
      <4>3. start[j + 1] <= start[l - 1] /\ start[j + 1] \in 1 .. n + 1
        BY <1>7, <2>2, <3>2
      <4>4. PICK a \in Nat, b \in Nat, c \in Nat : a = start[j + 1] /\ b = start[l - 1] /\ c = start[l]
        BY <1>1, <4>2, <4>3
      <4>5. a <= b /\ b < c => a <= c
        OBVIOUS
      <4>6. start[j + 1] <= start[l]
        BY <4>2, <4>3, <4>4, <4>5
      <4> QED
        BY <4>1, <4>6
    <3>3. CASE l <= j
      BY <1>2, <3>3
    <3> QED
      BY <1>2, <3>1, <3>2, <3>3
  <2>3. \A l \in 0 .. m : l \in G
    <3> HIDE DEF G
    <3> QED
      BY <1>2, <2>1, <2>2, UpTo
  <2> QED
    BY <1>2, <2>3
\* What a group has, by its place in the bucket.
<1>9. ASSUME NEW j \in 1 .. m, NEW a \in Range(gs[j])
      PROVE  \E p \in 1 .. n : start[j] <= p /\ p < start[j + 1] /\ a = bucket[p]
  <2>1. PICK i \in DOMAIN gs[j] : a = gs[j][i]
    BY DEF Range
  <2>2. i \in 1 .. start[j + 1] - start[j] /\ a = bucket[start[j] + i - 1]
    BY <1>7, <1>17, <2>1
  <2>3. PICK p \in 1 .. n + 1 : p = start[j]
    BY <1>7
  <2>4. PICK q \in 1 .. n + 1 : q = start[j + 1]
    BY <1>7
  <2>5. i \in 1 .. q - p /\ a = bucket[p + i - 1]
    BY <2>2, <2>3, <2>4
  <2>6. p + i - 1 \in 1 .. n /\ p <= p + i - 1 /\ p + i - 1 < q
    BY <1>0, <2>5
  <2> QED
    BY <2>3, <2>4, <2>5, <2>6
<1>10. ASSUME NEW j \in 1 .. m, NEW i \in DOMAIN gs[j], i > 1
       PROVE  Apart(gs[j][i - 1], gs[j][i]) \in 0 .. Window
  <2>1. PICK r \in 1 .. n + 1 : r = start[j]
    BY <1>7
  <2>2. PICK q \in 1 .. n + 1 : q = start[j + 1]
    BY <1>7
  <2>3. /\ i \in 1 .. q - r /\ Len(gs[j]) = q - r
        /\ \A k \in 1 .. q - r : gs[j][k] = bucket[r + k - 1]
        /\ \A k \in r + 1 .. q - 1 : Joins(bucket, k)
    <3>1. gs[j] \in Seq(A) /\ Len(gs[j]) = q - r
      BY <1>7, <2>1, <2>2
    <3>2. i \in 1 .. q - r
      BY <1>17, <2>1, <2>2
    <3>3. \A k \in 1 .. q - r : gs[j][k] = bucket[r + k - 1]
      BY <1>7, <2>1, <2>2
    <3>4. \A k \in r + 1 .. q - 1 : Joins(bucket, k)
      BY <1>7, <2>1, <2>2
    <3> QED
      BY <3>1, <3>2, <3>3, <3>4
  <2> DEFINE p == r + i - 1
  <2>7. p \in 1 .. n /\ p - 1 \in 1 .. n /\ p \in r + 1 .. q - 1 /\ r + (i - 1) - 1 = p - 1 /\ i - 1 \in 1 .. q - r
    BY <1>0, <1>10, <2>3
  <2>4. gs[j][i] = bucket[p] /\ gs[j][i - 1] = bucket[p - 1] /\ Joins(bucket, p)
    BY <2>3, <2>7
  <2> HIDE DEF p
  <2>5. Time(bucket[p]) - Time(bucket[p - 1]) <= Window /\ Time(bucket[p - 1]) <= Time(bucket[p])
    <3>1. p - 1 <= p
      BY <1>0, <2>7
    <3> QED
      BY <1>5, <2>4, <2>7, <3>1 DEF Joins, GapFromPrevious, Time
  <2>6. Time(bucket[p]) \in Nat /\ Time(bucket[p - 1]) \in Nat
    BY <1>4, <2>7
  <2> QED
    BY <1>6, <2>4, <2>5, <2>6 DEF Apart, Time
<1>11. ASSUME NEW j \in 1 .. m, NEW l \in 1 .. m, j < l, NEW a \in Range(gs[j]), NEW b \in Range(gs[l])
       PROVE  Apart(a, b) > Window /\ Apart(b, a) < -Window
  <2>1. PICK p \in 1 .. n : start[j] <= p /\ p < start[j + 1] /\ a = bucket[p]
    BY <1>9
  <2>2. PICK q \in 1 .. n : start[l] <= q /\ q < start[l + 1] /\ b = bucket[q]
    BY <1>9
  <2>3. start[j + 1] <= start[l] /\ ~Joins(bucket, start[l])
    BY <1>2, <1>7, <1>8, <1>11
  <2>4. PICK s \in 1 .. n + 1 : s = start[l]
    BY <1>7
  <2>9. PICK r \in 1 .. n + 1 : r = start[j + 1]
    BY <1>7
  <2>10. r <= s /\ p < r /\ s <= q
    BY <2>1, <2>2, <2>3, <2>4, <2>9
  <2>5. p <= s - 1 /\ s <= q /\ s \in 1 .. n /\ s - 1 \in 1 .. n
    BY <1>0, <2>10
  <2>6. /\ Time(bucket[p]) <= Time(bucket[s - 1]) /\ Time(bucket[s]) <= Time(bucket[q])
        /\ ~(Time(bucket[s]) - Time(bucket[s - 1]) <= Window)
    BY <1>5, <2>3, <2>4, <2>5 DEF Joins, GapFromPrevious, Time
  <2>7. Time(bucket[p]) \in Nat /\ Time(bucket[q]) \in Nat /\ Time(bucket[s]) \in Nat /\ Time(bucket[s - 1]) \in Nat
    BY <1>4, <2>5
  <2>11. PICK t \in Nat : t = Time(bucket[p])
    BY <2>7
  <2>12. PICK u \in Nat : u = Time(bucket[q])
    BY <2>7
  <2>14. PICK v \in Nat : v = Time(bucket[s])
    BY <2>7
  <2>15. PICK w \in Nat : w = Time(bucket[s - 1])
    BY <2>7
  <2>16. t <= w /\ v <= u /\ ~(v - w <= Window)
    BY <2>6, <2>11, <2>12, <2>14, <2>15
  <2>13. u - t > Window /\ t - u < -Window
    BY <1>6, <2>16
  <2>8. Time(b) - Time(a) > Window /\ Time(a) - Time(b) < -Window
    BY <2>1, <2>2, <2>11, <2>12, <2>13
  <2> QED
    BY <2>8 DEF Apart, Time
<1>12. ASSUME NEW a \in A PROVE \E j \in 1 .. m : a \in Range(gs[j])
  <2>1. PICK k \in 1 .. n : bucket[k] = a
    BY <1>1
  <2> DEFINE Within(i, j) == start[j] <= i /\ i < start[j + 1]
             G == {i \in 0 .. n : i = 0 \/ \E j \in 1 .. m : Within(i, j)}
  <2>2. 0 \in G
    BY <1>1
  <2>3. ASSUME NEW i \in 1 .. n, i - 1 \in G PROVE i \in G
    <3>1. CASE i = 1
      <4>1. m >= 1
        <5>1. m = 0 => start[1] = n + 1
          BY <1>3
        <5> QED
          BY <1>1, <1>2, <1>3, <5>1
      <4>2. 1 \in 1 .. m /\ 1 + 1 \in Int
        BY <1>2, <4>1
      <4>3. start[1] <= 1 /\ 1 < start[1 + 1]
        BY <1>3, <1>7, <4>2
      <4> QED
        BY <1>1, <3>1, <4>2, <4>3
    <3>2. CASE i > 1
      <4>0. i - 1 # 0
        BY <1>0, <3>2
      <4>1. PICK j \in 1 .. m : Within(i - 1, j)
        BY <2>3, <4>0
      <4>2. start[j] \in 1 .. n + 1 /\ start[j + 1] \in 1 .. n + 1
        BY <1>7
      <4>3. CASE i < start[j + 1]
        <5>1. Within(i, j)
          BY <1>1, <4>1, <4>2, <4>3
        <5> QED
          BY <1>1, <5>1
      <4>4. CASE ~(i < start[j + 1])
        <5>1. i = start[j + 1]
          BY <1>1, <4>1, <4>2, <4>4
        <5>2. j # m
          BY <1>1, <1>3, <5>1
        <5>3. j + 1 \in 1 .. m
          BY <1>2, <5>2
        <5>4. start[j + 1] < start[j + 1 + 1] /\ start[j + 1] <= start[j + 1]
          BY <1>1, <1>7, <4>2, <5>3
        <5>5. Within(i, j + 1)
          BY <5>1, <5>4
        <5> QED
          BY <1>1, <5>3, <5>5
      <4> QED
        BY <4>3, <4>4
    <3> QED
      BY <1>1, <3>1, <3>2
  <2>4. \A i \in 0 .. n : i \in G
    <3> HIDE DEF G
    <3> QED
      BY <1>1, <2>2, <2>3, UpTo
  <2>5. PICK j \in 1 .. m : Within(k, j)
    <3>1. k \in 0 .. n /\ k # 0
      BY <1>1
    <3>2. k \in G
      BY <2>4, <3>1
    <3> HIDE DEF Within
    <3> QED
      BY <3>1, <3>2
  <2>6. start[j] \in 1 .. n + 1 /\ start[j + 1] \in 1 .. n + 1
    BY <1>7
  <2>7. PICK p \in 1 .. n + 1 : p = start[j]
    BY <2>6
  <2>8. PICK q \in 1 .. n + 1 : q = start[j + 1]
    BY <2>6
  <2>9. p <= k /\ k < q
    BY <2>5, <2>7, <2>8
  <2>10. k - p + 1 \in 1 .. q - p /\ p + (k - p + 1) - 1 = k
    BY <1>0, <2>9
  <2>11. gs[j] \in Seq(A) /\ Len(gs[j]) = q - p /\ \A i \in 1 .. q - p : gs[j][i] = bucket[p + i - 1]
    BY <1>7, <2>7, <2>8
  <2>12. DOMAIN gs[j] = 1 .. q - p
    BY <2>11
  <2>13. gs[j][k - p + 1] = a /\ k - p + 1 \in DOMAIN gs[j]
    BY <2>1, <2>10, <2>11, <2>12
  <2> QED
    BY <2>13 DEF Range
<1>13. \A g \in Range(gs) : \E j \in 1 .. m : g = gs[j]
  BY <1>2 DEF Range
<1>14. \A j \in 1 .. m : gs[j] \in Range(gs)
  BY <1>2 DEF Range
<1>15. ASSUME NEW g \in Range(gs)
       PROVE  /\ g \in Seq(A) /\ Len(g) >= 1
              /\ \A i \in DOMAIN g : i > 1 => Apart(g[i - 1], g[i]) \in 0 .. Window
  <2>1. PICK j \in 1 .. m : g = gs[j]
    BY <1>13
  <2>3. PICK p \in 1 .. n + 1 : p = start[j]
    BY <1>7
  <2>4. PICK q \in 1 .. n + 1 : q = start[j + 1]
    BY <1>7
  <2>5. gs[j] \in Seq(A) /\ Len(gs[j]) = q - p /\ p < q
    BY <1>7, <2>3, <2>4
  <2>6. q - p >= 1
    BY <1>0, <2>5
  <2>2. Len(gs[j]) >= 1 /\ gs[j] \in Seq(A)
    BY <2>5, <2>6
  <2> QED
    BY <1>10, <2>1, <2>2
<1>16. ASSUME NEW g \in Range(gs), NEW h \in Range(gs), g # h, NEW a \in Range(g), NEW b \in Range(h)
       PROVE  Apart(a, b) \notin -Window .. Window
  <2>1. PICK j \in 1 .. m : g = gs[j]
    BY <1>13
  <2>2. PICK l \in 1 .. m : h = gs[l]
    BY <1>13
  <2>3. j < l \/ l < j
    BY <1>2, <1>16, <2>1, <2>2
  <2>4. j < l => Apart(a, b) > Window
    BY <1>11, <2>1, <2>2
  <2>5. l < j => Apart(a, b) < -Window
    BY <1>11, <2>1, <2>2
  <2> QED
    BY <1>6, <2>3, <2>4, <2>5
<1> QED
  BY <1>12, <1>14, <1>15, <1>16 DEF AreChains, gs

\* The buckets of a sorted list.
LEMMA BucketFacts ==
    ASSUME EscalationInv, NEW list \in SetToSeqs(Raised), NEW e
    PROVE  /\ Bucket(InOrder(list), e) \in Seq({a \in Raised : entity[a] = e})
           /\ InTime(Bucket(InOrder(list), e))
           /\ \A a \in Raised : entity[a] = e =>
                 \E k \in DOMAIN Bucket(InOrder(list), e) : Bucket(InOrder(list), e)[k] = a
<1> DEFINE n == Cardinality(Raised)
           sorted == InOrder(list)
           places == {i \in DOMAIN sorted : entity[sorted[i]] = e}
           A == {a \in Raised : entity[a] = e}
           key == [i \in DOMAIN list |-> The(raised[list[i]])]
<1>1. IsFiniteSet(Raised)
  BY EscalationAssumption, FS_Subset DEF Raised
<1>2. list \in [1 .. n -> Raised] /\ \A i, j \in 1 .. n : i # j => list[i] # list[j]
  BY DEF SetToSeqs
<1>3. n \in Nat /\ \A a \in Raised : \E i \in 1 .. n : list[i] = a
  BY <1>1, <1>2, NumbersReachAll
<1>4. list \in Seq(Raised) /\ Len(list) = n /\ DOMAIN list = 1 .. n
  BY <1>2, <1>3
<1>5. \A a \in Raised : Time(a) \in Nat
  BY EscalationAssumption DEF EscalationInv, EscalationTypeOK, Raised, Time, The
<1> HIDE DEF n
<1>6. \A i \in 1 .. n : key[i] = Time(list[i]) /\ key[i] \in Int
  BY <1>2, <1>4, <1>5 DEF Time
<1> HIDE DEF key
<1>7. PICK order \in [1 .. n -> 1 .. n] :
         /\ IsOrder(n, key, order) /\ SortedBy(list, key) \in Seq(Raised) /\ Len(SortedBy(list, key)) = n
         /\ \A k \in 1 .. n : SortedBy(list, key)[k] = list[order[k]]
  <2>1. PICK s \in Seq(Raised) : s = list
    BY <1>4
  <2>2. Len(s) = n /\ \A i \in 1 .. Len(s) : key[i] \in Int
    BY <1>4, <1>6, <2>1
  <2>3. ComesSorted(Raised, s, key, SortedBy(s, key))
    BY <2>2, SortedByFacts
  <2> QED
    BY <2>1, <2>2, <2>3 DEF ComesSorted
<1>8. sorted \in Seq(Raised) /\ Len(sorted) = n /\ \A k \in 1 .. n : sorted[k] = list[order[k]]
  BY <1>7 DEF InOrder, key
<1> HIDE DEF sorted
<1>9. DOMAIN sorted = 1 .. n /\ \A k \in 1 .. n : sorted[k] \in Raised
  BY <1>3, <1>8
<1>10. ASSUME NEW a \in Raised PROVE \E k \in 1 .. n : sorted[k] = a
  <2>1. PICK i \in 1 .. n : list[i] = a
    BY <1>3
  <2>2. PICK k \in 1 .. n : order[k] = i
    BY <1>7 DEF IsOrder
  <2> QED
    BY <1>8, <2>1, <2>2
<1>11. \A i, j \in 1 .. n : i < j => Time(sorted[i]) <= Time(sorted[j])
  <2>1. ASSUME NEW i \in 1 .. n, NEW j \in 1 .. n, i < j PROVE Time(sorted[i]) <= Time(sorted[j])
    <3>1. key[order[i]] <= key[order[j]]
      <4>1. order[i] \in 1 .. n /\ order[j] \in 1 .. n
        BY <1>7
      <4>2. key[order[i]] \in Int /\ key[order[j]] \in Int
        BY <1>6, <4>1
      <4>3. key[order[i]] < key[order[j]] \/ key[order[i]] = key[order[j]]
        BY <1>7, <2>1 DEF IsOrder
      <4> QED
        BY <4>2, <4>3
    <3> QED
      BY <1>6, <1>7, <1>8, <3>1
  <2> QED
    BY <2>1
<1> HIDE DEF places
<1>12. PICK kept : KeepsAt(sorted, places, kept)
  BY <1>8, KeptOrder
<1>21. /\ kept \in Seq((1 .. n) \cap places) /\ Range(kept) = (1 .. n) \cap places
       /\ \A i, j \in DOMAIN kept : i < j => kept[i] < kept[j]
       /\ Len(Kept(sorted, places)) = Len(kept)
       /\ \A k \in DOMAIN kept : Kept(sorted, places)[k] = sorted[kept[k]]
  BY <1>8, <1>12 DEF KeepsAt
<1>22. Kept(sorted, places) \in Seq(Raised)
  BY <1>8, KeptOrder
<1> DEFINE bucket == Kept(sorted, places)
           m == Len(kept)
<1>13. Bucket(InOrder(list), e) = bucket
  BY DEF Bucket, sorted, places
<1>14. m \in Nat /\ DOMAIN kept = 1 .. m /\ DOMAIN bucket = 1 .. m /\ \A k \in 1 .. m : kept[k] \in (1 .. n) \cap places
  BY <1>21, <1>22
<1>15. \A k \in 1 .. m : bucket[k] = sorted[kept[k]]
  BY <1>14, <1>21
<1>16. bucket \in Seq(Raised) /\ Len(bucket) = m
  BY <1>21, <1>22
<1> HIDE DEF bucket, m
<1>17. \A k \in 1 .. m : bucket[k] \in A
  BY <1>9, <1>14, <1>15 DEF places
<1>18. bucket \in Seq(A)
  <2> HIDE DEF A
  <2>1. bucket = [k \in 1 .. m |-> bucket[k]]
    BY <1>14, <1>16
  <2> QED
    BY <1>14, <1>17, <2>1
<1>19. InTime(bucket)
  <2>1. ASSUME NEW i \in 1 .. m, NEW j \in 1 .. m, i < j PROVE Time(bucket[i]) <= Time(bucket[j])
    <3>1. kept[i] \in 1 .. n /\ kept[j] \in 1 .. n /\ kept[i] < kept[j]
      BY <1>14, <1>21, <2>1
    <3> QED
      BY <1>11, <1>15, <3>1
  <2> QED
    BY <1>14, <2>1 DEF InTime
<1>20. ASSUME NEW a \in Raised, entity[a] = e PROVE \E k \in DOMAIN bucket : bucket[k] = a
  <2>1. PICK p \in 1 .. n : sorted[p] = a
    BY <1>10
  <2>2. p \in Range(kept)
    BY <1>9, <1>20, <1>21, <2>1 DEF places
  <2>3. PICK k \in 1 .. m : kept[k] = p
    BY <1>14, <2>2 DEF Range
  <2> QED
    BY <1>14, <1>15, <2>1, <2>3
<1> QED
  BY <1>13, <1>18, <1>19, <1>20

\* group_alerts, however the alerts are listed.
LEMMA ChainsOfAll == EscalationInv => GroupsAreChains
<1> SUFFICES ASSUME EscalationInv, NEW list \in SetToSeqs(Raised)
             PROVE  LET groups == AlertGroups(list) IN
                    /\ \A a \in Raised : Cardinality({g \in groups : a \in Range(g)}) = 1
                    /\ \A g \in groups : \A i \in DOMAIN g : i > 1 =>
                          /\ entity[g[i]] = entity[g[1]]
                          /\ Apart(g[i - 1], g[i]) \in 0 .. Window
                    /\ \A g, h \in groups : g # h /\ entity[g[1]] = entity[h[1]] =>
                          \A a \in Range(g), b \in Range(h) : Apart(a, b) \notin -Window .. Window
  BY DEF GroupsAreChains
<1> DEFINE groups == AlertGroups(list)
           A(e) == {a \in Raised : entity[a] = e}
           GroupsOf(e) == Range(Groups(Bucket(InOrder(list), e)))
<1>1. \A a \in Raised : Time(a) \in Nat
  BY EscalationAssumption DEF EscalationInv, EscalationTypeOK, Raised, Time, The
<1>2. ASSUME NEW e PROVE AreChains(GroupsOf(e), A(e))
  <2> DEFINE bucket == Bucket(InOrder(list), e)
  <2>1. /\ bucket \in Seq(A(e)) /\ InTime(bucket)
        /\ \A a \in Raised : entity[a] = e => \E k \in DOMAIN bucket : bucket[k] = a
    BY BucketFacts
  <2>2. \A a \in A(e) : Time(a) \in Nat /\ \E k \in DOMAIN bucket : bucket[k] = a
    BY <1>1, <2>1
  <2> HIDE DEF bucket, A
  <2>3. AreChains(Range(Groups(bucket)), A(e))
    BY <2>1, <2>2, BucketChains
  <2> QED
    BY <2>3 DEF bucket
<1>3. Range(list) = Raised
  <2>1. IsFiniteSet(Raised)
    BY EscalationAssumption, FS_Subset DEF Raised
  <2>2. /\ list \in [1 .. Cardinality(Raised) -> Raised]
        /\ \A i, j \in 1 .. Cardinality(Raised) : i # j => list[i] # list[j]
    BY DEF SetToSeqs
  <2>3. \A a \in Raised : \E i \in 1 .. Cardinality(Raised) : list[i] = a
    BY <2>1, <2>2, NumbersReachAll
  <2> QED
    BY <2>2, <2>3 DEF Range
<1>4. groups = UNION {GroupsOf(e) : e \in {entity[a] : a \in Raised}}
  BY <1>3 DEF AlertGroups
<1> HIDE DEF groups, GroupsOf
<1>5. ASSUME NEW e, NEW g \in GroupsOf(e)
      PROVE  /\ Len(g) >= 1 /\ g \in Seq(Raised) /\ \A i \in DOMAIN g : entity[g[i]] = e
             /\ \A a \in Range(g) : a \in Raised /\ entity[a] = e
             /\ \A i \in DOMAIN g : i > 1 => Apart(g[i - 1], g[i]) \in 0 .. Window
  <2>1. g \in Seq(A(e)) /\ Len(g) >= 1 /\ \A i \in DOMAIN g : i > 1 => Apart(g[i - 1], g[i]) \in 0 .. Window
    BY <1>2 DEF AreChains
  <2>2. \A i \in DOMAIN g : g[i] \in A(e)
    <3> HIDE DEF A
    <3> QED
      BY <2>1
  <2>3. g \in Seq(Raised)
    <3>1. A(e) \subseteq Raised
      OBVIOUS
    <3> HIDE DEF A
    <3> QED
      BY <2>1, <3>1
  <2> QED
    BY <2>1, <2>2, <2>3 DEF Range
<1>6. \A g \in groups : \E e : g \in GroupsOf(e)
  BY <1>4
<1>7. ASSUME NEW a \in Raised PROVE Cardinality({g \in groups : a \in Range(g)}) = 1
  <2>1. PICK g \in GroupsOf(entity[a]) : a \in Range(g)
    <3>1. a \in A(entity[a])
      OBVIOUS
    <3> QED
      BY <1>2, <3>1 DEF AreChains
  <2>2. g \in groups
    BY <1>4, <2>1
  <2>3. ASSUME NEW h \in groups, a \in Range(h) PROVE h = g
    <3>1. PICK e : h \in GroupsOf(e)
      BY <1>6
    <3>2. e = entity[a]
      BY <1>5, <2>3, <3>1
    <3>3. Apart(a, a) = 0 /\ 0 \in -Window .. Window
      BY <1>1, EscalationAssumption DEF Apart, Time
    <3> QED
      BY <1>2, <2>1, <2>3, <3>1, <3>2, <3>3 DEF AreChains
  <2>4. {h \in groups : a \in Range(h)} = {g}
    BY <2>1, <2>2, <2>3
  <2> QED
    BY <2>4, FS_Singleton
<1>8. ASSUME NEW g \in groups, NEW i \in DOMAIN g, i > 1
      PROVE  entity[g[i]] = entity[g[1]] /\ Apart(g[i - 1], g[i]) \in 0 .. Window
  <2>1. PICK e : g \in GroupsOf(e)
    BY <1>6
  <2>2. 1 \in DOMAIN g
    BY <1>5, <2>1
  <2> QED
    BY <1>5, <1>8, <2>1, <2>2
<1>9. ASSUME NEW g \in groups, NEW h \in groups, g # h, entity[g[1]] = entity[h[1]],
             NEW a \in Range(g), NEW b \in Range(h)
      PROVE  Apart(a, b) \notin -Window .. Window
  <2>1. PICK e : g \in GroupsOf(e)
    BY <1>6
  <2>2. PICK f : h \in GroupsOf(f)
    BY <1>6
  <2>3. 1 \in DOMAIN g /\ 1 \in DOMAIN h
    BY <1>5, <2>1, <2>2
  <2>4. e = f
    BY <1>5, <1>9, <2>1, <2>2, <2>3
  <2> QED
    BY <1>2, <1>9, <2>1, <2>2, <2>4 DEF AreChains
<1> QED
  BY <1>7, <1>8, <1>9 DEF groups

\* The escalation of alerts, at any time.
THEOREM AlertsFollow == EscalationSpec => []AlertsFollowTime
<1>1. EscalationInv => EscalationOnlyClimbs
  BY InvClimbs
<1>2. EscalationInv => AlertsFollowTime
  BY <1>1, SlaFigures, ChainsOfAll, QuietHoursAreAnInterval, OnCallIsShared DEF AlertsFollowTime
<1> QED
  BY <1>2, EscalationStart, EscalationStep, PTL DEF EscalationSpec

------------------------------------------------------------------------------
(* Context assembly. *)

\* A text has a whole number of tokens.
LEMMA TokensAreCounted ==
    ASSUME NEW text \in Nat
    PROVE  TokensIn(text) \in Nat
BY DEF TokensIn

\* What the loop of KeptWithin has done after its first k turns, with the tokens it has seen.
Pruned(items, budget, acc, k, s) ==
    \E m \in 0 .. k :
        /\ s.kept = SubSeq(items, 1, m) /\ s.room = budget - acc[m] /\ s.room >= 0
        /\ s.open => m = k
        /\ ~s.open => m < k /\ TokensIn(items[m + 1].text) > s.room

\* The record of the loop.
Room(S) == [kept : Seq(S), room : Int, open : BOOLEAN]

\* One turn of the loop of KeptWithin.
LEMMA PrunedStep ==
    ASSUME NEW S, \A x \in S : x.text \in Nat, NEW items \in Seq(S), NEW budget \in Nat,
           NEW acc \in [0 .. Len(items) -> Int], NEW k \in 1 .. Len(items),
           acc[k] = acc[k - 1] + TokensIn(items[k].text),
           NEW s \in Room(S), Pruned(items, budget, acc, k - 1, s), NEW t,
           t = IF s.open /\ Fits(items[k], s.room)
                 THEN [kept |-> Append(s.kept, items[k]), room |-> s.room - TokensIn(items[k].text), open |-> s.open]
                 ELSE [kept |-> s.kept, room |-> s.room, open |-> FALSE]
    PROVE  Pruned(items, budget, acc, k, t)
<1>1. PICK m \in 0 .. k - 1 :
        /\ s.kept = SubSeq(items, 1, m) /\ s.room = budget - acc[m] /\ s.room >= 0
        /\ s.open => m = k - 1
        /\ ~s.open => m < k - 1 /\ TokensIn(items[m + 1].text) > s.room
  BY DEF Pruned
<1>2. /\ s.room \in Int /\ s.open \in BOOLEAN /\ Len(items) \in Nat /\ k \in Nat
      /\ items[k] \in S /\ TokensIn(items[k].text) \in Nat
      /\ acc[k] \in Int /\ acc[k - 1] \in Int
  <2>1. Len(items) \in Nat /\ k \in Nat /\ items[k] \in S
    OBVIOUS
  <2>2. TokensIn(items[k].text) \in Nat
    BY <2>1, TokensAreCounted
  <2>3. acc[k] \in Int /\ acc[k - 1] \in Int
    BY <2>1
  <2> QED
    BY <2>1, <2>2, <2>3 DEF Room
<1>3. CASE s.open /\ Fits(items[k], s.room)
  <2>1. /\ t.kept = Append(s.kept, items[k]) /\ t.room = s.room - TokensIn(items[k].text)
        /\ t.open
    BY <1>3
  <2>2. m = k - 1
    BY <1>1, <1>3
  <2>3. t.kept = SubSeq(items, 1, k)
    <3>1. Append(SubSeq(items, 1, k - 1), items[k]) = SubSeq(items, 1, k)
      BY <1>2
    <3> QED
      BY <1>1, <2>1, <2>2, <3>1
  <2>4. t.room = budget - acc[k]
    BY <1>1, <1>2, <2>1, <2>2
  <2>5. t.room >= 0
    BY <1>2, <1>3, <2>1 DEF Fits
  <2>6. k \in 0 .. k
    BY <1>2
  <2> QED
    BY <2>1, <2>3, <2>4, <2>5, <2>6 DEF Pruned
<1>4. CASE ~(s.open /\ Fits(items[k], s.room))
  <2>1. t.kept = s.kept /\ t.room = s.room /\ t.open = FALSE
    BY <1>4
  <2>2. m \in 0 .. k /\ m < k
    BY <1>2
  <2>3. TokensIn(items[m + 1].text) > s.room
    <3>1. CASE s.open
      <4>1. m + 1 = k
        BY <1>1, <1>2, <3>1
      <4>2. ~(TokensIn(items[k].text) <= s.room)
        BY <1>4, <3>1 DEF Fits
      <4> QED
        BY <1>2, <4>1, <4>2
    <3>2. CASE ~s.open
      BY <1>1, <3>2
    <3> QED
      BY <3>1, <3>2
  <2> QED
    BY <1>1, <2>1, <2>2, <2>3 DEF Pruned
<1> QED
  BY <1>3, <1>4

\* All its turns.
LEMMA KeptRuns ==
    ASSUME NEW S, \A x \in S : x.text \in Nat, NEW items \in Seq(S), NEW budget \in Nat,
           NEW acc \in [0 .. Len(items) -> Int], acc[0] = 0,
           \A k \in 1 .. Len(items) : acc[k] = acc[k - 1] + TokensIn(items[k].text)
    PROVE  \E s : KeptWithin(items, budget) = s.kept /\ Pruned(items, budget, acc, Len(items), s)
<1> DEFINE n == Len(items)
           V == Room(S)
           Turn(s, k) ==
             IF s.open /\ Fits(items[k], s.room)
               THEN [kept |-> Append(s.kept, items[k]), room |-> s.room - TokensIn(items[k].text), open |-> s.open]
               ELSE [kept |-> s.kept, room |-> s.room, open |-> FALSE]
           step == [p \in (1 .. n) \X V |-> Turn(p[2], p[1])]
           base == [kept |-> <<>>, room |-> budget, open |-> TRUE]
<1>1. n \in Nat /\ DOMAIN items = 1 .. n /\ \A k \in 1 .. n : items[k] \in S /\ TokensIn(items[k].text) \in Nat
  <2>1. n \in Nat /\ DOMAIN items = 1 .. n /\ \A k \in 1 .. n : items[k] \in S
    OBVIOUS
  <2>2. ASSUME NEW k \in 1 .. n PROVE TokensIn(items[k].text) \in Nat
    BY <2>1, TokensAreCounted
  <2> QED
    BY <2>1, <2>2
<1>2. ASSUME NEW s \in V, NEW k \in 1 .. n PROVE Turn(s, k) \in V
  BY <1>1 DEF Room
<1>3. ASSUME NEW s \in V, NEW k \in 1 .. n
      PROVE  Turn(s, k) = IF s.open /\ Fits(items[k], s.room)
                THEN [s EXCEPT !.kept = Append(@, items[k]), !.room = @ - TokensIn(items[k].text)]
                ELSE [s EXCEPT !.open = FALSE]
  BY DEF Room
<1> HIDE DEF Turn
<1>4. StepFunction(n, V, step) /\ \A k \in 1 .. n, s \in V : step[<<k, s>>] = Turn(s, k)
  BY <1>2 DEF StepFunction
<1>5. base \in V
  BY DEF Room
<1> HIDE DEF n, step, V
<1>6. PICK g : FoldOver(n, V, base, step, g)
  <2> HIDE DEF base
  <2> QED
    BY <1>1, <1>4, <1>5, FoldExists
<1> DEFINE Next2(s, k) ==
      IF s.open /\ Fits(items[k], s.room)
        THEN [s EXCEPT !.kept = Append(@, items[k]), !.room = @ - TokensIn(items[k].text)]
        ELSE [s EXCEPT !.open = FALSE]
<1>7. g = [s \in SUBSET (1 .. n) |-> IF s = {} THEN base ELSE Next2(g[s \ {Max(s)}], Max(s))]
  <2> HIDE DEF base, Next2
  <2>1. ASSUME NEW s \in SUBSET (1 .. n), s # {} PROVE g[s] = Next2(g[s \ {Max(s)}], Max(s))
    <3>1. Max(s) \in 1 .. n /\ g[s \ {Max(s)}] \in V
      BY <1>1, <1>6, <2>1, MaxFacts DEF FoldOver
    <3>2. g[s] = Turn(g[s \ {Max(s)}], Max(s))
      BY <1>4, <1>6, <2>1, <3>1 DEF FoldOver
    <3> QED
      BY <1>3, <3>1, <3>2 DEF Next2
  <2> QED
    BY <1>6, <2>1 DEF FoldOver
<1>8. PICK it : /\ it = [s \in SUBSET (1 .. n) |-> IF s = {} THEN base ELSE Next2(it[s \ {Max(s)}], Max(s))]
                /\ KeptWithin(items, budget) = it[1 .. n].kept
  BY <1>1, <1>7 DEF KeptWithin, FoldLeft, MapThenFoldSet
<1>9. it[1 .. 0] = base
  <2>1. 1 .. 0 = {} /\ {} \in SUBSET (1 .. n)
    OBVIOUS
  <2> HIDE DEF base, Next2
  <2> QED
    BY <1>8, <2>1
<1>10. ASSUME NEW k \in 1 .. n PROVE it[1 .. k] = Next2(it[1 .. k - 1], k)
  <2>1. 1 .. k \in SUBSET (1 .. n) /\ 1 .. k # {}
    <3>1. k \in 1 .. k /\ \A m \in 1 .. k : m \in 1 .. n
      BY <1>1
    <3> QED
      BY <3>1
  <2>2. Max(1 .. k) = k /\ (1 .. k) \ {k} = 1 .. k - 1
    BY <1>1, MaxUpTo
  <2> HIDE DEF base, Next2
  <2> QED
    BY <1>8, <2>1, <2>2
<1> DEFINE G == {k \in 0 .. n : it[1 .. k] \in V /\ Pruned(items, budget, acc, k, it[1 .. k])}
<1>11. 0 \in G
  <2>1. base.kept = SubSeq(items, 1, 0) /\ base.room = budget - acc[0] /\ base.room >= 0 /\ base.open
    BY <1>1
  <2>2. Pruned(items, budget, acc, 0, base)
    <3> HIDE DEF base
    <3>1. 0 \in 0 .. 0
      OBVIOUS
    <3> QED
      BY <2>1, <3>1 DEF Pruned
  <2> HIDE DEF base
  <2> QED
    BY <1>1, <1>5, <1>9, <2>2
<1>12. ASSUME NEW k \in 1 .. n, k - 1 \in G PROVE k \in G
  <2> DEFINE s == it[1 .. k - 1]
             t == it[1 .. k]
  <2>1. s \in V /\ Pruned(items, budget, acc, k - 1, s)
    BY <1>12
  <2>2. t = Next2(s, k)
    BY <1>10
  <2> HIDE DEF s, t
  <2>3. t = Turn(s, k) /\ t \in V
    <3>1. t = Turn(s, k)
      BY <1>3, <2>1, <2>2
    <3>2. Turn(s, k) \in V
      BY <1>2, <2>1
    <3> QED
      BY <3>1, <3>2
  <2>4. s \in Room(S) /\ k \in 1 .. Len(items)
    BY <2>1 DEF V, n
  <2>5. Pruned(items, budget, acc, k, t)
    BY <2>1, <2>3, <2>4, PrunedStep DEF Turn
  <2> QED
    BY <2>3, <2>5 DEF t
<1>13. \A k \in 0 .. n : k \in G
  <2> HIDE DEF G
  <2> QED
    BY <1>1, <1>11, <1>12, UpTo
<1>14. n \in 0 .. n
  BY <1>1
<1> QED
  BY <1>8, <1>13, <1>14 DEF n

\* _prune_conversation_history and _rank_and_truncate_knowledge, for any list and any budget: the
\* loop keeps the beginning of the list, never spends more than its room, and stops only at an
\* item that does not fit.
THEOREM PruningKeepsToItsRoom ==
    ASSUME NEW S, \A x \in S : x.text \in Nat, NEW items \in Seq(S), NEW budget \in Nat
    PROVE  \E m \in 0 .. Len(items) :
              /\ KeptWithin(items, budget) = SubSeq(items, 1, m)
              /\ TokensOf(KeptWithin(items, budget)) <= budget
              /\ m < Len(items) => TokensOf(KeptWithin(items, budget)) + TokensIn(items[m + 1].text) > budget
<1> DEFINE n == Len(items)
           list == [i \in 1 .. n |-> TokensIn(items[i].text)]
<1>1. n \in Nat /\ DOMAIN items = 1 .. n /\ \A i \in 1 .. n : items[i] \in S
  OBVIOUS
<1>2. ASSUME NEW i \in 1 .. n PROVE TokensIn(items[i].text) \in Int
  <2>1. PICK text \in Nat : text = items[i].text
    BY <1>1
  <2>2. TokensIn(text) \in Nat
    BY TokensAreCounted
  <2> QED
    BY <2>1, <2>2
<1>3. list \in Seq(Int) /\ Len(list) = n /\ \A i \in 1 .. n : list[i] = TokensIn(items[i].text)
  BY <1>1, <1>2
<1> HIDE DEF list
<1>4. PICK acc : Running(list, acc)
  BY <1>3, SumRuns
<1>5. acc \in [0 .. n -> Int] /\ acc[0] = 0 /\ \A k \in 1 .. n : acc[k] = acc[k - 1] + TokensIn(items[k].text)
  BY <1>3, <1>4 DEF Running
<1>6. PICK s : KeptWithin(items, budget) = s.kept /\ Pruned(items, budget, acc, n, s)
  BY <1>5, KeptRuns
<1>7. PICK m \in 0 .. n :
        /\ s.kept = SubSeq(items, 1, m) /\ s.room = budget - acc[m] /\ s.room >= 0
        /\ s.open => m = n
        /\ ~s.open => m < n /\ TokensIn(items[m + 1].text) > s.room
  BY <1>6 DEF Pruned
<1> DEFINE pre == [i \in DOMAIN SubSeq(items, 1, m) |-> TokensIn(SubSeq(items, 1, m)[i].text)]
<1>8. /\ DOMAIN SubSeq(items, 1, m) = 1 .. m
      /\ \A i \in 1 .. m : i \in 1 .. n /\ SubSeq(items, 1, m)[i] = items[i]
  BY <1>1
<1>9. pre \in Seq(Int) /\ Len(pre) = m /\ \A i \in 1 .. m : pre[i] = list[i]
  BY <1>1, <1>2, <1>3, <1>8
<1>10. Sum(pre) = acc[m]
  <2> HIDE DEF pre, n
  <2> QED
    BY <1>3, <1>4, <1>9, SumOfPrefix
<1>11. TokensOf(KeptWithin(items, budget)) = acc[m]
  BY <1>6, <1>7, <1>10 DEF TokensOf
<1>12. acc[m] \in Int /\ budget \in Int
  BY <1>5
<1>13. acc[m] <= budget
  BY <1>7, <1>12
<1>14. m < n => acc[m] + TokensIn(items[m + 1].text) > budget
  <2> SUFFICES ASSUME m < n PROVE acc[m] + TokensIn(items[m + 1].text) > budget
    OBVIOUS
  <2>1. m \in Int /\ n \in Int /\ m + 1 \in 1 .. n /\ m # n
    BY <1>1
  <2>2. TokensIn(items[m + 1].text) \in Int
    BY <1>2, <2>1
  <2>3. TokensIn(items[m + 1].text) > budget - acc[m]
    BY <1>7, <2>1
  <2> QED
    BY <1>12, <2>2, <2>3
<1> QED
  BY <1>6, <1>7, <1>11, <1>13, <1>14

\* A list of one number.
LEMMA SumConstant ==
    ASSUME NEW n \in Nat, NEW c \in Int, NEW list \in Seq(Int), Len(list) = n, \A i \in 1 .. n : list[i] = c
    PROVE  Sum(list) = c * n
<1> DEFINE acc == [k \in 0 .. n |-> c * k]
<1>1. acc \in [0 .. n -> Int] /\ acc[0] = 0
  OBVIOUS
<1>2. ASSUME NEW k \in 1 .. n PROVE acc[k] = acc[k - 1] + list[k]
  <2>1. k \in 0 .. n /\ k - 1 \in 0 .. n
    OBVIOUS
  <2>2. c * k = c * (k - 1) + c
    OBVIOUS
  <2> QED
    BY <2>1, <2>2
<1>3. acc[n] = c * n
  OBVIOUS
<1> HIDE DEF acc
<1>4. Running(list, acc)
  BY <1>1, <1>2 DEF Running
<1> QED
  BY <1>3, <1>4, SumIs

Tokens(items) == [i \in DOMAIN items |-> TokensIn(items[i].text)]

\* What has a text.
Written(S) == \A x \in S : x.text \in Nat

\* The tokens of a list are the sum of those of its texts.
LEMMA TokensList ==
    ASSUME NEW S, Written(S), NEW items \in Seq(S)
    PROVE  /\ Tokens(items) \in Seq(Nat) /\ Tokens(items) \in Seq(Int) /\ Len(Tokens(items)) = Len(items)
           /\ \A i \in 1 .. Len(items) : Tokens(items)[i] = TokensIn(items[i].text)
           /\ TokensOf(items) = Sum(Tokens(items)) /\ TokensOf(items) \in Nat
<1>1. Len(items) \in Nat /\ DOMAIN items = 1 .. Len(items) /\ \A i \in 1 .. Len(items) : items[i] \in S
  OBVIOUS
<1>2. \A i \in 1 .. Len(items) : TokensIn(items[i].text) \in Nat
  BY <1>1, TokensAreCounted DEF Written
<1> DEFINE t == [i \in 1 .. Len(items) |-> TokensIn(items[i].text)]
<1>3. Tokens(items) = t
  BY <1>1 DEF Tokens
<1>4. t \in Seq(Nat) /\ Len(t) = Len(items) /\ \A i \in 1 .. Len(items) : t[i] = TokensIn(items[i].text)
  BY <1>1, <1>2
<1> HIDE DEF t
<1>5. t \in Seq(Int)
  BY <1>4
<1>6. Sum(t) \in Nat
  BY <1>4, SumIsNatural
<1>7. TokensOf(items) = Sum(Tokens(items))
  BY DEF TokensOf, Tokens
<1> QED
  BY <1>3, <1>4, <1>5, <1>6, <1>7

\* Two lists one after the other, and a list read from its end.
LEMMA TokensAdd ==
    ASSUME NEW S, Written(S), NEW a \in Seq(S), NEW b \in Seq(S)
    PROVE  TokensOf(a \o b) = TokensOf(a) + TokensOf(b)
<1> DEFINE n == Len(a)
           m == Len(b)
           ab == a \o b
<1>1. n \in Nat /\ m \in Nat
  OBVIOUS
<1>2. ab \in Seq(S) /\ Len(ab) = n + m
      /\ \A i \in 1 .. n + m : ab[i] = IF i <= n THEN a[i] ELSE b[i - n]
  BY ConcatProperties
<1> HIDE DEF ab
<1>3. /\ Tokens(a) \in Seq(Int) /\ Len(Tokens(a)) = n /\ TokensOf(a) = Sum(Tokens(a))
      /\ \A i \in 1 .. n : Tokens(a)[i] = TokensIn(a[i].text)
  BY TokensList
<1>4. /\ Tokens(b) \in Seq(Int) /\ Len(Tokens(b)) = m /\ TokensOf(b) = Sum(Tokens(b))
      /\ \A i \in 1 .. m : Tokens(b)[i] = TokensIn(b[i].text)
  BY TokensList
<1>5. /\ Tokens(ab) \in Seq(Int) /\ Len(Tokens(ab)) = n + m /\ TokensOf(ab) = Sum(Tokens(ab))
      /\ \A i \in 1 .. n + m : Tokens(ab)[i] = TokensIn(ab[i].text)
  BY <1>2, TokensList
<1> DEFINE x == Tokens(a)
           y == Tokens(b)
           z == x \o y
<1> HIDE DEF x, y, n, m
<1>6. z \in Seq(Int) /\ Len(z) = n + m /\ \A i \in 1 .. n + m : z[i] = IF i <= n THEN x[i] ELSE y[i - n]
  BY <1>3, <1>4, ConcatProperties DEF x, y
<1>7. Sum(z) = Sum(x) + Sum(y)
  BY <1>3, <1>4, SumConcat DEF x, y
<1> HIDE DEF z
<1>8. z = Tokens(ab)
  <2>1. ASSUME NEW i \in 1 .. n + m PROVE z[i] = Tokens(ab)[i]
    <3>1. CASE i <= n
      <4>1. i \in 1 .. n
        BY <1>1, <3>1
      <4> QED
        BY <1>2, <1>3, <1>5, <1>6, <3>1, <4>1 DEF x
    <3>2. CASE ~(i <= n)
      <4>1. i - n \in 1 .. m
        BY <1>1, <3>2
      <4> QED
        BY <1>2, <1>4, <1>5, <1>6, <3>2, <4>1 DEF y
    <3> QED
      BY <3>1, <3>2
  <2>2. z \in Seq(Int) /\ Tokens(ab) \in Seq(Int) /\ Len(z) = Len(Tokens(ab)) /\ Len(z) = n + m
    BY <1>5, <1>6
  <2> QED
    BY <2>1, <2>2, SeqEqual
<1> QED
  BY <1>3, <1>4, <1>5, <1>7, <1>8 DEF ab, x, y

\* A list has as many tokens read backward.
LEMMA TokensBackward ==
    ASSUME NEW S, Written(S), NEW a \in Seq(S)
    PROVE  TokensOf(Reverse(a)) = TokensOf(a)
<1> DEFINE n == Len(a)
           r == Reverse(a)
           x == Tokens(a)
           y == Tokens(r)
           z == Reverse(x)
<1>1. n \in Nat
  OBVIOUS
<1>2. r \in Seq(S) /\ Len(r) = n /\ \A i \in 1 .. n : n - i + 1 \in 1 .. n /\ r[i] = a[n - i + 1]
  BY ReverseFacts
<1> HIDE DEF r
<1>3. x \in Seq(Int) /\ Len(x) = n /\ TokensOf(a) = Sum(x) /\ \A i \in 1 .. n : x[i] = TokensIn(a[i].text)
  BY TokensList
<1>4. y \in Seq(Int) /\ Len(y) = n /\ TokensOf(r) = Sum(y) /\ \A i \in 1 .. n : y[i] = TokensIn(r[i].text)
  BY <1>2, TokensList
<1> HIDE DEF x, y, n
<1>5. z \in Seq(Int) /\ Len(z) = n /\ \A i \in 1 .. n : z[i] = x[n - i + 1]
  BY <1>3, ReverseFacts
<1>6. Sum(z) = Sum(x)
  BY <1>3, SumReverse
<1> HIDE DEF z
<1>7. z = y
  <2>1. ASSUME NEW i \in 1 .. n PROVE z[i] = y[i]
    <3>1. z[i] = x[n - i + 1] /\ n - i + 1 \in 1 .. n
      BY <1>2, <1>5 DEF n
    <3>2. x[n - i + 1] = TokensIn(a[n - i + 1].text)
      BY <1>3, <3>1
    <3>3. y[i] = TokensIn(a[n - i + 1].text)
      BY <1>2, <1>4 DEF n
    <3> QED
      BY <3>1, <3>2, <3>3
  <2> QED
    BY <1>4, <1>5, <2>1, SeqEqual
<1> QED
  BY <1>3, <1>4, <1>6, <1>7 DEF r

\* The last elements of a list are the first ones read from its end.
LEMMA NewestFacts ==
    ASSUME NEW S, NEW list \in Seq(S), NEW n \in 0 .. Len(list)
    PROVE  /\ Newest(list, n) \in Seq(S) /\ Len(Newest(list, n)) = n
           /\ \A i \in 1 .. n : Newest(list, n)[i] = list[Len(list) - n + i]
           /\ Reverse(SubSeq(Reverse(list), 1, n)) = Newest(list, n)
<1> DEFINE l == Len(list)
           r == Reverse(list)
           f == SubSeq(r, 1, n)
           b == Reverse(f)
           w == Newest(list, n)
<1>1. l \in Nat /\ n \in Nat /\ n <= l
  OBVIOUS
<1>2. r \in Seq(S) /\ Len(r) = l /\ \A i \in 1 .. l : r[i] = list[l - i + 1]
  BY ReverseFacts
<1>3. w \in Seq(S) /\ Len(w) = n /\ \A i \in 1 .. n : w[i] = list[l - n + i]
  <2> DEFINE v == SubSeq(list, l - n + 1, l)
  <2>1. CASE n = 0
    <3>1. v = <<>>
      BY <1>1, <2>1
    <3> QED
      BY <2>1, <3>1 DEF Newest
  <2>2. CASE n > 0
    <3>1. l - n + 1 \in 1 .. l /\ l \in 1 .. l /\ l - n + 1 <= l /\ l - (l - n + 1) + 1 = n
      BY <1>1, <2>2
    <3>2. v \in Seq(S) /\ Len(v) = l - (l - n + 1) + 1 /\ \A i \in 1 .. l - (l - n + 1) + 1 : v[i] = list[l - n + 1 + i - 1]
      <4>1. PICK m \in Int : m = l - n + 1 /\ m >= 1 /\ m <= l
        BY <1>1, <3>1
      <4>2. \A i \in m .. l : list[i] \in S
        BY <1>1, <4>1
      <4>3. /\ SubSeq(list, m, l) \in Seq(S) /\ Len(SubSeq(list, m, l)) = l - m + 1
            /\ \A i \in 1 .. l - m + 1 : SubSeq(list, m, l)[i] = list[m + i - 1]
        BY <1>1, <4>1, <4>2, SubSeqProperties
      <4> QED
        BY <4>1, <4>3
    <3>3. \A i \in 1 .. n : l - n + 1 + i - 1 = l - n + i
      BY <1>1
    <3>4. w = v
      BY DEF Newest
    <3> HIDE DEF v, w, l
    <3> QED
      BY <3>1, <3>2, <3>3, <3>4
  <2> QED
    BY <1>1, <2>1, <2>2
<1> HIDE DEF r, w, l
<1>4. f \in Seq(S) /\ Len(f) = n /\ \A i \in 1 .. n : f[i] = r[i]
  BY <1>1, <1>2
<1> HIDE DEF f
<1>5. b \in Seq(S) /\ Len(b) = n /\ \A i \in 1 .. n : n - i + 1 \in 1 .. n /\ b[i] = f[n - i + 1]
  BY <1>4, ReverseFacts
<1> HIDE DEF b
<1>6. b = w
  <2>1. ASSUME NEW i \in 1 .. n PROVE b[i] = w[i]
    <3>1. n - i + 1 \in 1 .. n /\ n - i + 1 \in 1 .. l /\ l - (n - i + 1) + 1 = l - n + i
      BY <1>1
    <3>2. f[n - i + 1] = r[n - i + 1] /\ r[n - i + 1] = list[l - (n - i + 1) + 1]
      BY <1>2, <1>4, <3>1
    <3> QED
      BY <1>3, <1>5, <3>1, <3>2
  <2> QED
    BY <1>3, <1>5, <2>1, SeqEqual
<1> QED
  BY <1>3, <1>6 DEF b, f, r, w, l

\* A strictly ascending list of all the numbers of an interval is as long as it.
LEMMA KeptLength ==
    ASSUME NEW n \in Nat, NEW m \in Nat, NEW order \in Seq(n + 1 .. n + m), Range(order) = n + 1 .. n + m,
           \A i, j \in DOMAIN order : i < j => order[i] < order[j]
    PROVE  Len(order) = m
<1> DEFINE k == Len(order)
           T == n + 1 .. n + m
<1>1. k \in Nat /\ DOMAIN order = 1 .. k
  OBVIOUS
<1>2. order \in [1 .. k -> T]
  BY <1>1
<1>3. ASSUME NEW i \in 1 .. k, NEW j \in 1 .. k, order[i] = order[j] PROVE i = j
  <2>1. order[i] \in Int /\ order[j] \in Int
    BY <1>2
  <2>2. ~(i < j) /\ ~(j < i)
    BY <1>1, <1>3, <2>1
  <2> QED
    BY <2>2
<1>4. \A t \in T : \E i \in 1 .. k : order[i] = t
  BY <1>1 DEF Range
<1>5. IsFiniteSet(1 .. k) /\ Cardinality(1 .. k) = k /\ IsFiniteSet(T) /\ Cardinality(T) = m
  <2>1. Cardinality(T) = IF n + 1 > n + m THEN 0 ELSE n + m - (n + 1) + 1
    BY FS_Interval
  <2>2. IsFiniteSet(T) /\ IsFiniteSet(1 .. k)
    BY <1>1, FS_Interval
  <2>4. Cardinality(T) = m
    BY <2>1
  <2>5. Cardinality(1 .. k) = k
    <3>1. k \in Nat
      BY <1>1
    <3> HIDE DEF k
    <3> QED
      BY <3>1, FS_Interval
  <2> QED
    BY <2>2, <2>4, <2>5
<1> HIDE DEF k, T
<1>6. order \in Bijection(1 .. k, T)
  BY <1>2, <1>3, <1>4 DEF Bijection, Injection, Surjection, IsInjective
<1>7. Cardinality(1 .. k) = Cardinality(T)
  BY <1>5, <1>6, FS_Bijection DEF ExistsBijection
<1> QED
  BY <1>5, <1>7 DEF k

\* The material of a call.
Message == [system : BOOLEAN, text : Nat]
Chunk == [relevance : Int, text : Nat]
MaterialOK(material) ==
    material \in [prompt : Nat, messages : Seq(Message), chunks : Seq(Chunk), tools : Seq(Nat)]

\* Messages and chunks have texts.
LEMMA AreWritten == Written(Message) /\ Written(Chunk)
BY DEF Written, Message, Chunk

\* _truncate_to_budget keeps to its budget.
LEMMA TruncatedFits ==
    ASSUME NEW text \in Nat, NEW budget \in Nat
    PROVE  /\ Truncated(text, budget) \in Nat /\ TokensIn(Truncated(text, budget)) \in Nat
           /\ TokensIn(Truncated(text, budget)) <= budget
           /\ text - Truncated(text, budget) = IF text <= 4 * budget THEN 0 ELSE text - 4 * budget
BY DEF Truncated, TokensIn

\* The budgets of the sections and the reserve fit in the budget of the context.
LEMMA BudgetsFit ==
    /\ PromptBudget \in Nat /\ HistoryBudget \in Nat /\ KnowledgeBudget \in Nat /\ ToolBudget \in Nat
    /\ Reserve \in Nat
    /\ PromptBudget + HistoryBudget + KnowledgeBudget + ToolBudget + Reserve <= MaxTokens
<1>1. MaxTokens \in Nat
  BY ContextAssumption
<1>2. ASSUME NEW p \in Nat PROVE Share(p) \in Nat /\ 100 * Share(p) <= MaxTokens * p
  <2>1. PICK x \in Nat : x = MaxTokens * p
    BY <1>1
  <2>2. x \div 100 \in Nat /\ 100 * (x \div 100) <= x
    OBVIOUS
  <2> QED
    BY <2>1, <2>2 DEF Share
<1>3. /\ Share(15) \in Nat /\ 100 * Share(15) <= MaxTokens * 15
      /\ Share(40) \in Nat /\ 100 * Share(40) <= MaxTokens * 40
      /\ Share(20) \in Nat /\ 100 * Share(20) <= MaxTokens * 20
      /\ Share(10) \in Nat /\ 100 * Share(10) <= MaxTokens * 10
  BY <1>2
<1>4. Share(15) + Share(15) + Share(40) + Share(20) + Share(10) <= MaxTokens
  BY <1>1, <1>3
<1> QED
  BY <1>3, <1>4 DEF PromptBudget, HistoryBudget, KnowledgeBudget, ToolBudget, Reserve

\* Texts joined by a separator have a length.
LEMMA JoinedType ==
    ASSUME NEW texts \in Seq(Nat), NEW separator \in Nat
    PROVE  Joined(texts, separator) \in Nat
<1>1. Sum(texts) \in Nat /\ Len(texts) \in Nat
  BY SumIsNatural
<1>2. texts # <<>> => Len(texts) - 1 \in Nat
  BY <1>1
<1>3. texts # <<>> => separator * (Len(texts) - 1) \in Nat
  BY <1>2
<1> QED
  BY <1>1, <1>3 DEF Joined

\* The messages of the system, and the others, of any history.
LEMMA PartsOfHistory ==
    ASSUME NEW messages \in Seq(Message)
    PROVE  /\ SystemOnly(messages) \in Seq(Message) /\ Spoken(messages) \in Seq(Message)
           /\ \A i \in DOMAIN SystemOnly(messages) : SystemOnly(messages)[i].system
           /\ \A i \in DOMAIN Spoken(messages) : ~Spoken(messages)[i].system
<1> DEFINE n == Len(messages)
           s == {i \in DOMAIN messages : messages[i].system}
           t == {i \in DOMAIN messages : ~messages[i].system}
<1>1. PICK order : KeepsAt(messages, s, order)
  BY KeptOrder
<1>2. PICK other : KeepsAt(messages, t, other)
  BY KeptOrder
<1>5. Kept(messages, s) \in Seq(Message) /\ Kept(messages, t) \in Seq(Message)
  BY KeptOrder
<1>3. ASSUME NEW i \in DOMAIN Kept(messages, s) PROVE Kept(messages, s)[i].system
  <2> HIDE DEF s
  <2>1. i \in 1 .. Len(order)
    BY <1>1, <1>5 DEF KeepsAt
  <2>2. order[i] \in s
    BY <1>1, <2>1 DEF KeepsAt
  <2> QED
    BY <1>1, <2>1, <2>2 DEF s, KeepsAt
<1>4. ASSUME NEW i \in DOMAIN Kept(messages, t) PROVE ~Kept(messages, t)[i].system
  <2> HIDE DEF t
  <2>1. i \in 1 .. Len(other)
    BY <1>2, <1>5 DEF KeepsAt
  <2>2. other[i] \in t
    BY <1>2, <2>1 DEF KeepsAt
  <2> QED
    BY <1>2, <2>1, <2>2 DEF t, KeepsAt
<1> HIDE DEF s, t
<1> QED
  BY <1>3, <1>4, <1>5 DEF SystemOnly, Spoken, s, t

\* The messages that are not the system's, of those of the system and then others.
LEMMA SpokenOfParts ==
    ASSUME NEW a \in Seq(Message), NEW b \in Seq(Message),
           \A i \in 1 .. Len(a) : a[i].system, \A i \in 1 .. Len(b) : ~b[i].system
    PROVE  Len(Spoken(a \o b)) = Len(b)
<1> DEFINE n == Len(a)
           m == Len(b)
           ab == a \o b
           t == {i \in DOMAIN ab : ~ab[i].system}
<1>1. n \in Nat /\ m \in Nat
  OBVIOUS
<1>2. /\ ab \in Seq(Message) /\ Len(ab) = n + m
      /\ \A i \in 1 .. n + m : ab[i] = IF i <= n THEN a[i] ELSE b[i - n]
  BY ConcatProperties
<1> HIDE DEF ab
<1>3. DOMAIN ab = 1 .. n + m
  BY <1>2
<1>4. ASSUME NEW i \in 1 .. n + m PROVE ~ab[i].system <=> i \in n + 1 .. n + m
  <2>1. CASE i <= n
    <3>1. i \in 1 .. n /\ i \notin n + 1 .. n + m
      BY <1>1, <2>1
    <3> QED
      BY <1>2, <2>1, <3>1
  <2>2. CASE ~(i <= n)
    <3>1. i - n \in 1 .. m /\ i \in n + 1 .. n + m
      BY <1>1, <2>2
    <3> QED
      BY <1>2, <2>2, <3>1
  <2> QED
    BY <2>1, <2>2
<1>5. \A i \in n + 1 .. n + m : i \in 1 .. n + m
  BY <1>1
<1>6. t = n + 1 .. n + m /\ (1 .. n + m) \cap t = n + 1 .. n + m
  BY <1>3, <1>4, <1>5
<1> HIDE DEF t, n, m
<1>7. PICK order : KeepsAt(ab, t, order)
  BY <1>2, KeptOrder
<1>8. /\ order \in Seq(n + 1 .. n + m) /\ Range(order) = n + 1 .. n + m
      /\ \A i, j \in DOMAIN order : i < j => order[i] < order[j]
      /\ Len(Kept(ab, t)) = Len(order)
  BY <1>2, <1>6, <1>7 DEF KeepsAt
<1>9. Len(order) = m
  BY <1>1, <1>8, KeptLength
<1> QED
  BY <1>8, <1>9 DEF Spoken, ab, t, m

\* _prune_conversation_history
LEMMA HistoryFacts ==
    ASSUME NEW messages \in Seq(Message)
    PROVE  /\ History(messages) \in Seq(Message)
           /\ TokensOf(History(messages)) <= HistoryBudget + Excess(messages)
           /\ Excess(messages) \in Nat
           /\ KeepsTheNewest(messages)
<1> DEFINE sys == SystemOnly(messages)
           spoken == Spoken(messages)
           used == TokensOf(sys)
           room == HistoryBudget - used
           l == Len(spoken)
<1>1. /\ sys \in Seq(Message) /\ spoken \in Seq(Message) /\ used \in Nat /\ HistoryBudget \in Nat
      /\ \A i \in DOMAIN sys : sys[i].system
      /\ \A i \in DOMAIN spoken : ~spoken[i].system
  BY PartsOfHistory, TokensList, AreWritten, BudgetsFit
<1>2. l \in Nat /\ \A i \in 1 .. Len(sys) : sys[i].system
  BY <1>1
<1>3. \A i \in 1 .. l : ~spoken[i].system
  BY <1>1
<1> HIDE DEF sys, spoken, used, l
<1>4. Excess(messages) = IF 0 < used - HistoryBudget THEN used - HistoryBudget ELSE 0
  BY DEF Excess, AtLeast, used, sys
<1>5. Excess(messages) \in Nat
  BY <1>1, <1>4
\* Any number of the newest messages goes well after those of the system.
<1>6. ASSUME NEW n \in 0 .. l
      PROVE  /\ sys \o Newest(spoken, n) \in Seq(Message) /\ Len(Spoken(sys \o Newest(spoken, n))) = n
             /\ Newest(spoken, n) \in Seq(Message) /\ Len(Newest(spoken, n)) = n
  <2> DEFINE w == Newest(spoken, n)
  <2>1. w \in Seq(Message) /\ Len(w) = n /\ \A i \in 1 .. n : w[i] = spoken[l - n + i]
    BY <1>1, NewestFacts DEF l
  <2> HIDE DEF w
  <2>2. ASSUME NEW i \in 1 .. Len(w) PROVE ~w[i].system
    <3>1. l - n + i \in 1 .. l
      BY <1>2, <2>1
    <3> QED
      BY <1>3, <2>1, <3>1
  <2>3. Len(Spoken(sys \o w)) = Len(w)
    BY <1>1, <1>2, <2>1, <2>2, SpokenOfParts
  <2>4. sys \o w \in Seq(Message)
    BY <1>1, <2>1
  <2> QED
    BY <2>1, <2>3, <2>4 DEF w
<1>7. CASE room <= 0
  <2>1. History(messages) = sys
    BY <1>7 DEF History, sys, used
  <2>2. Newest(spoken, 0) = <<>>
    <3>1. Newest(spoken, 0) \in Seq(Message) /\ Len(Newest(spoken, 0)) = 0
      BY <1>2, <1>6
    <3> QED
      BY <3>1
  <2>3. sys \o Newest(spoken, 0) = sys
    BY <1>1, <2>2
  <2>4. 0 \in 0 .. l
    BY <1>2
  <2>5. Len(Spoken(History(messages))) = 0
    BY <1>6, <2>1, <2>3, <2>4
  <2>6. KeepsTheNewest(messages)
    BY <1>7, <2>1, <2>3, <2>5 DEF KeepsTheNewest, spoken, sys, used
  <2>7. used <= HistoryBudget + Excess(messages)
    BY <1>1, <1>4
  <2> QED
    BY <1>1, <1>5, <2>1, <2>6, <2>7 DEF used
<1>8. CASE ~(room <= 0)
  <2> DEFINE r == Reverse(spoken)
  <2>1. r \in Seq(Message) /\ Len(r) = l /\ room \in Nat
    BY <1>1, <1>8, ReverseFacts DEF l
  <2> HIDE DEF r
  <2>2. PICK m \in 0 .. l :
          /\ KeptWithin(r, room) = SubSeq(r, 1, m) /\ TokensOf(KeptWithin(r, room)) <= room
          /\ m < l => TokensOf(KeptWithin(r, room)) + TokensIn(r[m + 1].text) > room
    <3> HIDE DEF room
    <3> QED
      BY <2>1, AreWritten, PruningKeepsToItsRoom DEF Written
  <2> DEFINE f == SubSeq(r, 1, m)
  <2>3. Newest(spoken, m) = Reverse(f)
    BY <1>1, NewestFacts DEF r, l
  <2>4. f \in Seq(Message)
    BY <1>2, <2>1
  <2> HIDE DEF f
  <2>5. TokensOf(Newest(spoken, m)) = TokensOf(f) /\ TokensOf(f) \in Nat
    BY <2>3, <2>4, AreWritten, TokensBackward, TokensList
  <2>6. History(messages) = sys \o Newest(spoken, m)
    <3>1. History(messages) = sys \o Reverse(KeptWithin(r, room))
      BY <1>8 DEF History, sys, used, r, spoken
    <3> QED
      BY <2>2, <2>3, <3>1 DEF f
  <2>7. TokensOf(History(messages)) = used + TokensOf(f)
    BY <1>1, <1>6, <2>5, <2>6, AreWritten, TokensAdd DEF used
  <2>8. TokensOf(f) <= room
    BY <2>2 DEF f
  <2>9. TokensOf(History(messages)) <= HistoryBudget + Excess(messages)
    BY <1>1, <1>4, <1>5, <2>5, <2>7, <2>8
  <2>10. History(messages) \in Seq(Message) /\ Len(Spoken(History(messages))) = m
    BY <1>6, <2>6
  <2>11. ASSUME m < l PROVE TokensOf(Newest(spoken, m + 1)) > room
    <3>1. m \in Nat /\ m + 1 \in 1 .. l /\ m + 1 \in 0 .. l
      BY <1>2, <2>11
    <3>2. r[m + 1] \in Message /\ <<r[m + 1]>> \in Seq(Message)
      BY <2>1, <3>1
    <3> DEFINE e == SubSeq(r, 1, m + 1)
    <3>3. e = f \o <<r[m + 1]>>
      <4>1. e = Append(f, r[m + 1])
        BY <2>1, <3>1, <3>2 DEF f
      <4> QED
        BY <2>4, <3>2, <4>1
    <3>4. Newest(spoken, m + 1) = Reverse(e) /\ e \in Seq(Message)
      <4>1. e \in Seq(Message)
        BY <2>1, <3>1
      <4> HIDE DEF e
      <4>2. PICK k \in 0 .. l : k = m + 1
        BY <3>1
      <4>3. Reverse(SubSeq(Reverse(spoken), 1, k)) = Newest(spoken, k)
        BY <1>1, NewestFacts DEF l
      <4> QED
        BY <4>1, <4>2, <4>3 DEF e, r
    <3> HIDE DEF e
    <3>5. TokensOf(Newest(spoken, m + 1)) = TokensOf(e)
      BY <3>4, AreWritten, TokensBackward
    <3>6. TokensOf(e) = TokensOf(f) + TokensOf(<<r[m + 1]>>)
      BY <2>4, <3>2, <3>3, AreWritten, TokensAdd
    <3>7. TokensOf(<<r[m + 1]>>) = TokensIn(r[m + 1].text)
      <4>1. PICK x \in Message : x = r[m + 1]
        BY <3>2
      <4>2. TokensIn(x.text) \in Nat
        BY TokensAreCounted DEF Message
      <4> DEFINE t == [i \in DOMAIN <<x>> |-> TokensIn(<<x>>[i].text)]
      <4>3. t = Append(<<>>, TokensIn(x.text))
        BY <4>2
      <4>4. TokensOf(<<x>>) = Sum(t)
        BY DEF TokensOf
      <4> HIDE DEF t
      <4>5. <<>> \in Seq(Int)
        OBVIOUS
      <4>6. Sum(Append(<<>>, TokensIn(x.text))) = Sum(<<>>) + TokensIn(x.text)
        <5>1. PICK i \in Int : i = TokensIn(x.text)
          BY <4>2
        <5>2. PICK none \in Seq(Int) : none = <<>>
          BY <4>5
        <5>3. Sum(Append(none, i)) = Sum(none) + i
          BY SumAppend
        <5> QED
          BY <5>1, <5>2, <5>3
      <4> QED
        BY <4>1, <4>2, <4>3, <4>4, <4>6, SumEmpty
    <3> QED
      BY <2>2, <2>11, <3>5, <3>6, <3>7 DEF f
  <2>12. KeepsTheNewest(messages)
    BY <2>6, <2>10, <2>11 DEF KeepsTheNewest, sys, spoken, used, l
  <2> QED
    BY <1>5, <2>9, <2>10, <2>12
<1> QED
  BY <1>7, <1>8

\* _rank_and_truncate_knowledge
LEMMA KnowledgeFacts ==
    ASSUME NEW chunks \in Seq(Chunk)
    PROVE  /\ Texts(Knowledge(chunks)) \in Seq(Nat)
           /\ KeepsTheBest(chunks)
<1> DEFINE n == Len(chunks)
           key == [i \in DOMAIN chunks |-> -chunks[i].relevance]
           ranked == Ranked(chunks)
           kept == Knowledge(chunks)
<1>1. n \in Nat /\ DOMAIN chunks = 1 .. n /\ \A i \in 1 .. n : chunks[i] \in Chunk
  OBVIOUS
<1>2. \A i \in 1 .. n : key[i] = -chunks[i].relevance /\ key[i] \in Int /\ chunks[i].relevance \in Int
  BY <1>1 DEF Chunk
<1> HIDE DEF key
<1>3. PICK order \in [1 .. n -> 1 .. n] :
         /\ IsOrder(n, key, order) /\ SortedBy(chunks, key) \in Seq(Chunk) /\ Len(SortedBy(chunks, key)) = n
         /\ \A k \in 1 .. n : SortedBy(chunks, key)[k] = chunks[order[k]]
  <2>1. \A i \in 1 .. Len(chunks) : key[i] \in Int
    BY <1>2
  <2>2. ComesSorted(Chunk, chunks, key, SortedBy(chunks, key))
    BY <2>1, SortedByFacts, Zenon
  <2> QED
    BY <2>2 DEF ComesSorted
<1>4. /\ ranked \in Seq(Chunk) /\ Len(ranked) = n
      /\ \A k \in 1 .. n : ranked[k] = chunks[order[k]] /\ order[k] \in 1 .. n
  BY <1>3 DEF Ranked, key
<1> HIDE DEF ranked
<1>5. ASSUME NEW i \in 1 .. n, NEW j \in 1 .. n, j < i PROVE ranked[i].relevance <= ranked[j].relevance
  <2>1. order[i] \in 1 .. n /\ order[j] \in 1 .. n
    BY <1>3
  <2>2. key[order[j]] < key[order[i]] \/ key[order[j]] = key[order[i]]
    BY <1>3, <1>5 DEF IsOrder
  <2>3. PICK a \in Int : a = chunks[order[i]].relevance
    BY <1>2, <2>1
  <2>4. PICK b \in Int : b = chunks[order[j]].relevance
    BY <1>2, <2>1
  <2>5. -b < -a \/ -b = -a
    BY <1>2, <2>1, <2>2, <2>3, <2>4
  <2>6. a <= b
    BY <2>5
  <2> QED
    BY <1>4, <2>3, <2>4, <2>6
<1>6. KnowledgeBudget \in Nat
  BY BudgetsFit
<1>7. PICK m \in 0 .. n :
         /\ kept = SubSeq(ranked, 1, m) /\ TokensOf(kept) <= KnowledgeBudget
  BY <1>4, <1>6, AreWritten, PruningKeepsToItsRoom DEF Written, Knowledge, ranked
<1>8. /\ kept \in Seq(Chunk) /\ Len(kept) = m /\ DOMAIN kept = 1 .. m
      /\ \A i \in 1 .. m : kept[i] = ranked[i] /\ i \in 1 .. n
  BY <1>1, <1>4, <1>7
<1> HIDE DEF kept, n
<1>9. m \in Nat /\ m <= n
  BY <1>1 DEF n
<1>10. IsPrefix(kept, ranked)
  <2>1. SubSeq(kept, 1, m) = kept /\ SubSeq(ranked, 1, m) = kept
    BY <1>7, <1>8
  <2> QED
    BY <1>4, <1>8, <1>9, <2>1 DEF IsPrefix
<1>11. ASSUME NEW i \in DOMAIN ranked, NEW j \in DOMAIN kept, i > Len(kept)
       PROVE  ranked[i].relevance <= kept[j].relevance
  <2>1. i \in 1 .. n /\ j \in 1 .. m /\ i > m
    BY <1>4, <1>8, <1>11
  <2>2. j \in 1 .. n /\ j < i
    BY <1>8, <2>1
  <2> QED
    BY <1>5, <1>8, <2>1, <2>2
<1> DEFINE texts == Texts(kept)
           t == Tokens(kept)
<1>12. ASSUME NEW i \in 1 .. m PROVE kept[i].text \in Nat
  <2>1. kept[i] \in Chunk
    BY <1>8
  <2> QED
    BY <2>1 DEF Chunk
<1>13. texts \in Seq(Nat) /\ Len(texts) = m /\ \A i \in 1 .. m : texts[i] = kept[i].text
  <2>1. texts = [i \in 1 .. m |-> kept[i].text]
    BY <1>8 DEF Texts
  <2> QED
    BY <1>9, <1>12, <2>1
<1>14. /\ t \in Seq(Int) /\ Len(t) = m /\ \A i \in 1 .. m : t[i] = TokensIn(kept[i].text)
       /\ TokensOf(kept) = Sum(t) /\ Sum(t) \in Nat
  BY <1>8, AreWritten, TokensList
<1> HIDE DEF texts, t
<1> DEFINE ones == [i \in 1 .. m |-> 1]
           over == [i \in 1 .. m |-> 4 * t[i] + 3 * ones[i]]
<1>15. ones \in Seq(Int) /\ Len(ones) = m /\ \A i \in 1 .. m : ones[i] = 1
  BY <1>9
<1> HIDE DEF ones
<1>16. Sum(ones) = 1 * m
  BY <1>9, <1>15, SumConstant
<1>17. \A i \in 1 .. m : t[i] \in Int /\ ones[i] \in Int
  BY <1>14, <1>15
<1>18. over \in Seq(Int) /\ Len(over) = m /\ \A i \in 1 .. m : over[i] = 4 * t[i] + 3 * ones[i]
  BY <1>9, <1>17
<1> HIDE DEF over
<1>19. Sum(over) = 4 * Sum(t) + 3 * Sum(ones)
  <2>1. Combines(m, t, ones, over, 4, 3)
    BY <1>9, <1>14, <1>15, <1>18 DEF Combines
  <2> QED
    BY <2>1, SumLinear
<1>20. ASSUME NEW i \in 1 .. m PROVE texts[i] <= over[i]
  <2>1. PICK x \in Nat : x = kept[i].text
    BY <1>12
  <2>2. x <= 4 * (x \div 4) + 3
    OBVIOUS
  <2>3. over[i] = 4 * (x \div 4) + 3 * 1
    BY <1>14, <1>15, <1>18, <2>1 DEF TokensIn
  <2> QED
    BY <1>13, <2>1, <2>2, <2>3
<1>21. Sum(texts) <= Sum(over)
  <2>1. texts \in Seq(Int)
    BY <1>13
  <2> QED
    BY <1>9, <1>13, <1>18, <1>20, <2>1, SumOrder
<1>22. Sum(texts) \in Nat
  BY <1>13, SumIsNatural
<1>23. Sum(texts) <= 4 * KnowledgeBudget + 3 * m
  <2>1. Sum(t) <= KnowledgeBudget
    BY <1>7, <1>14
  <2>2. PICK p \in Nat : p = Sum(t)
    BY <1>14
  <2>3. Sum(over) = 4 * p + 3 * (1 * m)
    BY <1>16, <1>19, <2>2
  <2> QED
    BY <1>6, <1>9, <1>21, <1>22, <2>1, <2>2, <2>3
<1>24. Joined(texts, 7) - Truncated(Joined(texts, 7), KnowledgeBudget) <= AtLeast(0, 10 * Len(kept) - 7)
  <2> DEFINE text == Joined(texts, 7)
  <2>1. text \in Nat
    BY <1>13, JoinedType
  <2>2. text - Truncated(text, KnowledgeBudget) = IF text <= 4 * KnowledgeBudget THEN 0 ELSE text - 4 * KnowledgeBudget
    BY <1>6, <2>1, TruncatedFits
  <2>3. CASE m = 0
    <3>1. texts = <<>>
      BY <1>13, <2>3
    <3>2. Sum(texts) = 0 /\ text = 0
      BY <3>1, SumEmpty DEF Joined
    <3> HIDE DEF text
    <3>3. text - Truncated(text, KnowledgeBudget) = 0
      BY <1>6, <2>2, <3>2
    <3>4. AtLeast(0, 10 * Len(kept) - 7) = 0
      BY <1>8, <2>3 DEF AtLeast
    <3> QED
      BY <3>3, <3>4 DEF text
  <2>4. CASE m # 0
    <3>1. texts # <<>>
      BY <1>13, <2>4
    <3>2. text = Sum(texts) + 7 * (m - 1)
      BY <1>13, <3>1 DEF Joined
    <3>3. AtLeast(0, 10 * Len(kept) - 7) = 10 * m - 7
      BY <1>8, <1>9, <2>4 DEF AtLeast
    <3> HIDE DEF text
    <3>4. text - Truncated(text, KnowledgeBudget) <= 10 * m - 7
      BY <1>6, <1>9, <1>22, <1>23, <2>1, <2>2, <2>4, <3>2
    <3> QED
      BY <3>3, <3>4 DEF text
  <2> QED
    BY <2>3, <2>4
<1>25. KeepsTheBest(chunks)
  BY <1>10, <1>11, <1>24 DEF KeepsTheBest, kept, ranked, texts
<1> QED
  BY <1>13, <1>25 DEF texts, kept

\* ContextAssembler.assemble, for any material and any budget: every section keeps to its share
\* and gives up the right part.
THEOREM EverySectionFits ==
    ASSUME NEW material, MaterialOK(material)
    PROVE  SectionsFit(material)
<1>1. /\ material.prompt \in Nat /\ material.messages \in Seq(Message)
      /\ material.chunks \in Seq(Chunk) /\ material.tools \in Seq(Nat)
  BY DEF MaterialOK
<1> DEFINE p == TokensIn(Truncated(material.prompt, PromptBudget))
           h == TokensOf(History(material.messages))
           k == TokensIn(Truncated(Joined(Texts(Knowledge(material.chunks)), 7), KnowledgeBudget))
           t == TokensIn(Truncated(Joined(material.tools, 2), ToolBudget))
<1>2. /\ PromptBudget \in Nat /\ HistoryBudget \in Nat /\ KnowledgeBudget \in Nat /\ ToolBudget \in Nat
      /\ Reserve \in Nat /\ MaxTokens \in Nat
      /\ PromptBudget + HistoryBudget + KnowledgeBudget + ToolBudget + Reserve <= MaxTokens
  BY BudgetsFit, ContextAssumption
<1>3. p \in Nat /\ p <= PromptBudget
  BY <1>1, <1>2, TruncatedFits
<1>4. h \in Nat /\ h <= HistoryBudget + Excess(material.messages) /\ Excess(material.messages) \in Nat
  BY <1>1, AreWritten, HistoryFacts, TokensList
<1>5. k \in Nat /\ k <= KnowledgeBudget
  <2>1. Joined(Texts(Knowledge(material.chunks)), 7) \in Nat
    BY <1>1, KnowledgeFacts, JoinedType
  <2> QED
    BY <1>2, <2>1, TruncatedFits
<1>6. t \in Nat /\ t <= ToolBudget
  <2>1. Joined(material.tools, 2) \in Nat
    BY <1>1, JoinedType
  <2> QED
    BY <1>2, <2>1, TruncatedFits
<1>7. TotalTokens(Assembled(material)) = p + h + k + t
  BY DEF TotalTokens, Assembled
<1> HIDE DEF p, h, k, t
<1>8. WithinBudget(material)
  BY <1>2, <1>3, <1>4, <1>5, <1>6, <1>7 DEF WithinBudget
<1> QED
  BY <1>1, <1>8, HistoryFacts, KnowledgeFacts DEF SectionsFit

------------------------------------------------------------------------------
(* Root causes. *)

\* Division rounds down, and keeps the order.
LEMMA DivisionBounds ==
    ASSUME NEW a \in Nat, NEW d \in Nat, d > 0
    PROVE  a \div d \in Nat /\ d * (a \div d) <= a /\ a < d * (a \div d) + d
<1>1. a \div d \in Int /\ a % d \in 0 .. d - 1 /\ a = d * (a \div d) + (a % d)
  OBVIOUS
<1>2. PICK q \in Int, r \in 0 .. d - 1 : q = a \div d /\ r = a % d /\ a = d * q + r
  BY <1>1
<1>3. q \in Nat
  <2>1. CASE q >= 0
    BY <2>1
  <2>2. CASE q <= -1
    <3>1. d * q <= d * (-1)
      BY <2>2
    <3>2. d * (-1) = -d
      OBVIOUS
    <3> QED
      BY <1>2, <3>1, <3>2
  <2> QED
    BY <2>1, <2>2
<1> QED
  BY <1>2, <1>3

\* A bound of a quotient.
LEMMA DivisionIsBounded ==
    ASSUME NEW a \in Nat, NEW d \in Nat, d > 0, NEW q \in Nat, a < d * q + d
    PROVE  a \div d <= q
<1>1. PICK p \in Nat : p = a \div d /\ d * p <= a
  BY DivisionBounds
<1>2. CASE p <= q
  BY <1>1, <1>2
<1>3. CASE p >= q + 1
  <2>1. d * p >= d * (q + 1)
    BY <1>3
  <2>2. d * (q + 1) = d * q + d
    OBVIOUS
  <2>3. d * p \in Int /\ d * q \in Int
    OBVIOUS
  <2> QED
    BY <1>1, <2>1, <2>2, <2>3
<1> QED
  BY <1>2, <1>3

\* A division of naturals keeps their order.
LEMMA DivisionOrder ==
    ASSUME NEW a \in Nat, NEW b \in Nat, NEW d \in Nat, d > 0, a <= b
    PROVE  a \div d <= b \div d
<1>1. PICK q \in Nat : q = b \div d /\ b < d * q + d
  BY DivisionBounds
<1>2. a < d * q + d
  <2>1. d * q + d \in Int
    OBVIOUS
  <2> QED
    BY <1>1, <2>1
<1> QED
  BY <1>1, <1>2, DivisionIsBounded

\* An event of the story.
Occurrence ==
    [entity : {k.entity : k \in EventKinds}, related : {k.related : k \in EventKinds},
     signals : SUBSET Signals, comparable : BOOLEAN, hour : Nat]

\* What holds of the readings at any time.
ReadingOK ==
    /\ clock \in 0 .. LastHour
    /\ story \in Seq(Occurrence) /\ Len(story) <= MaxStory
    /\ \A i \in DOMAIN story : story[i].hour <= clock
    /\ analysis \in {"loading", "loaded", "read", "reported", "failed", "not found"}
    /\ entityRead \in Seq(DOMAIN story)
    /\ \A p, q \in DOMAIN entityRead : p < q => entityRead[p] < entityRead[q]
    /\ \A i \in Range(entityRead) : story[i].entity = Affected
    /\ DOMAIN nearness \subseteq DOMAIN story
    /\ \A i \in DOMAIN nearness : nearness[i] \in 0 .. 1000

ReportOK == causes \in Seq(DOMAIN story) /\ Len(causes) <= Listed

\* What the second reading makes of the events.
NearnessFound ==
    /\ \A i \in Range(entityRead) \ DOMAIN nearness : story[i].hour < clock - Horizon
    /\ \A i, j \in DOMAIN nearness :
          story[i].hour = story[j].hour /\ story[i].entity = Affected => nearness[i] >= nearness[j]

\* What the report makes of the candidates.
CausesFound ==
    /\ Range(causes) \subseteq Candidates
    /\ \A i \in Candidates \ Range(causes), j \in Range(causes) : Confidence(i) <= Confidence(j)
    /\ Len(causes) < Listed => Range(causes) = Candidates

CausesInv == ReadingOK /\ ReportOK /\ (analysis = "reported" => NearnessFound /\ CausesFound)

\* How the confidence of an event is made up.
Parts10(i, n) == 4000 * PositionOf(i) + n * (3 * CorrelationOf(i) + 10 * SignalBonus(i))

\* A later event of the entity has an earlier place in what was read of it.
LEMMA PositionFacts ==
    ASSUME ReadingOK
    PROVE  /\ Len(entityRead) \in Nat
           /\ \A i \in Range(entityRead) : PositionOf(i) \in 1 .. Len(entityRead) /\ i \in DOMAIN story /\ i \in Nat
           /\ \A i, j \in Range(entityRead) : i <= j => PositionOf(i) >= PositionOf(j)
<1> DEFINE n == Len(entityRead)
           S == DOMAIN story
<1>7. \A i \in S : i \in Nat
  <2>1. story \in Seq(Occurrence)
    BY DEF ReadingOK
  <2> QED
    BY <2>1
<1>8. entityRead \in Seq(S)
  BY DEF ReadingOK
<1>9. \A p, q \in DOMAIN entityRead : p < q => entityRead[p] < entityRead[q]
  BY DEF ReadingOK
<1>1. /\ entityRead \in Seq(S) /\ \A p, q \in DOMAIN entityRead : p < q => entityRead[p] < entityRead[q]
      /\ \A i \in S : i \in Nat
  <2> HIDE DEF S
  <2> QED
    BY <1>7, <1>8, <1>9
<1>2. n \in Nat /\ DOMAIN entityRead = 1 .. n
  BY <1>1
<1> HIDE DEF S
<1>3. /\ NewestFirst \in Seq(S) /\ Len(NewestFirst) = n
      /\ \A p \in 1 .. n : n - p + 1 \in 1 .. n /\ NewestFirst[p] = entityRead[n - p + 1]
  BY <1>1, ReverseFacts DEF NewestFirst
<1>4. DOMAIN NewestFirst = 1 .. n
  BY <1>2, <1>3
<1>5. ASSUME NEW i \in Range(entityRead)
      PROVE  i \in S /\ PositionOf(i) \in 1 .. n /\ i = entityRead[n - PositionOf(i) + 1]
  <2>1. PICK q \in 1 .. n : entityRead[q] = i
    BY <1>2 DEF Range
  <2>2. n - q + 1 \in 1 .. n /\ n - (n - q + 1) + 1 = q
    BY <1>2
  <2>3. NewestFirst[n - q + 1] = i
    BY <1>3, <2>1, <2>2
  <2>4. PositionOf(i) \in 1 .. n /\ NewestFirst[PositionOf(i)] = i
    BY <1>4, <2>2, <2>3 DEF PositionOf
  <2>5. i \in S
    BY <1>1, <1>2, <2>1
  <2> QED
    BY <1>3, <2>4, <2>5
<1>6. ASSUME NEW i \in Range(entityRead), NEW j \in Range(entityRead), i <= j PROVE PositionOf(i) >= PositionOf(j)
  <2>1. PICK p \in 1 .. n : p = PositionOf(i) /\ i = entityRead[n - p + 1]
    BY <1>5
  <2>2. PICK q \in 1 .. n : q = PositionOf(j) /\ j = entityRead[n - q + 1]
    BY <1>5
  <2>3. n - p + 1 \in 1 .. n /\ n - q + 1 \in 1 .. n
    BY <1>2
  <2>4. i \in Nat /\ j \in Nat
    BY <1>1, <1>5
  <2>5. ~(n - q + 1 < n - p + 1)
    BY <1>1, <1>2, <1>6, <2>1, <2>2, <2>3, <2>4
  <2>6. p >= q
    BY <1>2, <2>5
  <2> QED
    BY <2>1, <2>2, <2>6
<1> QED
  BY <1>1, <1>2, <1>5, <1>6 DEF S

\* The parts of a confidence are naturals, and the confidence is their rounded sum, capped.
LEMMA ConfidenceFacts ==
    ASSUME ReadingOK, NEW i \in Range(entityRead)
    PROVE  /\ Len(entityRead) \in Nat /\ Len(entityRead) > 0 /\ Parts10(i, Len(entityRead)) \in Nat
           /\ CorrelationOf(i) \in 0 .. 1000 /\ SignalBonus(i) \in Nat
           /\ Confidence(i) = Capped((Parts10(i, Len(entityRead)) + 5 * Len(entityRead)) \div (10 * Len(entityRead)))
           /\ Confidence(i) \in Nat
<1>1. PICK n \in Nat : n = Len(entityRead)
  BY PositionFacts
<1>2. PositionOf(i) \in 1 .. n
  BY <1>1, PositionFacts
<1>3. CorrelationOf(i) \in 0 .. 1000
  <2>1. \A k \in DOMAIN nearness : nearness[k] \in 0 .. 1000
    BY DEF ReadingOK
  <2>2. 200 \in 0 .. 1000
    OBVIOUS
  <2> QED
    BY <2>1, <2>2 DEF CorrelationOf
<1>4. SignalBonus(i) \in Nat
  BY DEF SignalBonus
<1>5. Parts10(i, n) \in Nat
  <2>1. PICK c \in Nat : c = 3 * CorrelationOf(i) + 10 * SignalBonus(i)
    BY <1>3, <1>4
  <2>2. n * c \in Nat
    OBVIOUS
  <2> QED
    BY <1>2, <2>1, <2>2 DEF Parts10
<1>6. n > 0 /\ 10 * n \in Nat /\ 10 * n > 0 /\ Parts10(i, n) + 5 * n \in Nat
  BY <1>2, <1>5
<1>7. (Parts10(i, n) + 5 * n) \div (10 * n) \in Nat
  BY <1>6, DivisionBounds
<1>8. Confidence(i) = Capped((Parts10(i, n) + 5 * n) \div (10 * n))
  BY <1>1 DEF Confidence, Parts10
<1>9. Confidence(i) \in Nat
  BY <1>7, <1>8 DEF Capped
<1> QED
  BY <1>1, <1>3, <1>4, <1>5, <1>6, <1>8, <1>9

\* A larger sum of the parts makes no less confidence.
LEMMA PartsOrder ==
    ASSUME ReadingOK, NEW i \in Range(entityRead), NEW j \in Range(entityRead),
           Parts10(i, Len(entityRead)) >= Parts10(j, Len(entityRead))
    PROVE  Confidence(i) >= Confidence(j)
<1>1. PICK n \in Nat : n = Len(entityRead) /\ n > 0
  BY ConfidenceFacts
<1>2. PICK a \in Nat, b \in Nat : a = Parts10(i, n) /\ b = Parts10(j, n) /\ a >= b
  BY <1>1, ConfidenceFacts
<1> DEFINE u == a + 5 * n
           v == b + 5 * n
           d == 10 * n
<1>3. u \in Nat /\ v \in Nat /\ v <= u /\ d \in Nat /\ d > 0
  BY <1>1, <1>2
<1>4. Confidence(i) = Capped(u \div d) /\ Confidence(j) = Capped(v \div d)
  BY <1>1, <1>2, ConfidenceFacts
<1> HIDE DEF u, v, d
<1>5. v \div d <= u \div d /\ v \div d \in Nat /\ u \div d \in Nat
  BY <1>3, DivisionOrder, DivisionBounds
<1> QED
  BY <1>4, <1>5 DEF Capped

\* The place and the nearness are weighed against each other.
LEMMA ConfidenceTrade ==
    ASSUME ReadingOK, NEW i \in Range(entityRead), NEW j \in Range(entityRead),
           SignalBonus(i) >= SignalBonus(j), PlaceOutweighs(i, j)
    PROVE  Confidence(i) >= Confidence(j)
<1>1. PICK n \in Nat : n = Len(entityRead) /\ n > 0
  BY ConfidenceFacts
<1>2. PICK p \in Nat, q \in Nat : p = PositionOf(i) /\ q = PositionOf(j)
  <2>1. PositionOf(i) \in 1 .. n /\ PositionOf(j) \in 1 .. n
    BY <1>1, PositionFacts
  <2> QED
    BY <1>1, <2>1
<1>3. PICK c \in Nat, e \in Nat : c = CorrelationOf(i) /\ e = CorrelationOf(j)
  <2>1. CorrelationOf(i) \in 0 .. 1000 /\ CorrelationOf(j) \in 0 .. 1000
    BY ConfidenceFacts
  <2>2. CorrelationOf(i) \in Nat /\ CorrelationOf(j) \in Nat
    BY ONLY <2>1
  <2> QED
    BY <2>2, Zenon
<1>4. PICK s \in Nat, t \in Nat : s = SignalBonus(i) /\ t = SignalBonus(j) /\ s >= t
  BY ConfidenceFacts
<1>5. 3 * n * (e - c) <= 4000 * (p - q)
  BY <1>1, <1>2, <1>3 DEF PlaceOutweighs
<1>6. PICK nc \in Nat, ne \in Nat, ns \in Nat, nt \in Nat :
        nc = n * c /\ ne = n * e /\ ns = n * s /\ nt = n * t /\ ns >= nt
  <2>1. n * c \in Nat /\ n * e \in Nat /\ n * s \in Nat /\ n * t \in Nat /\ n * s >= n * t
    BY <1>1, <1>4
  <2> QED
    BY <2>1
<1>7. 3 * n * (e - c) = 3 * ne - 3 * nc
  BY <1>6
<1>8. /\ Parts10(i, n) = 4000 * p + 3 * nc + 10 * ns
      /\ Parts10(j, n) = 4000 * q + 3 * ne + 10 * nt
  <2>1. n * (3 * c + 10 * s) = 3 * nc + 10 * ns /\ n * (3 * e + 10 * t) = 3 * ne + 10 * nt
    BY <1>6
  <2>2. /\ Parts10(i, n) = 4000 * p + n * (3 * c + 10 * s)
        /\ Parts10(j, n) = 4000 * q + n * (3 * e + 10 * t)
    BY <1>2, <1>3, <1>4 DEF Parts10
  <2>3. PICK x \in Nat, y \in Nat : x = n * (3 * c + 10 * s) /\ y = n * (3 * e + 10 * t)
    BY <1>1
  <2> QED
    BY <2>1, <2>2, <2>3
<1>9. Parts10(i, n) >= Parts10(j, n)
  <2>1. 3 * ne - 3 * nc <= 4000 * (p - q)
    BY <1>5, <1>7
  <2> QED
    BY <1>6, <1>8, <2>1
<1> QED
  BY <1>1, <1>9, PartsOrder

\* More of each part makes no less confidence.
LEMMA ConfidenceOrder ==
    ASSUME ReadingOK, NEW i \in Range(entityRead), NEW j \in Range(entityRead),
           i <= j, CorrelationOf(i) >= CorrelationOf(j), SignalBonus(i) >= SignalBonus(j)
    PROVE  Confidence(i) >= Confidence(j)
<1>1. PICK n \in Nat : n = Len(entityRead) /\ n > 0
  BY ConfidenceFacts
<1>2. PICK p \in Nat, q \in Nat : p = PositionOf(i) /\ q = PositionOf(j) /\ p >= q
  BY PositionFacts
<1>3. PICK c \in Nat, e \in Nat : c = CorrelationOf(i) /\ e = CorrelationOf(j) /\ c >= e
  <2>1. CorrelationOf(i) \in 0 .. 1000 /\ CorrelationOf(j) \in 0 .. 1000
    BY ConfidenceFacts
  <2>2. CorrelationOf(i) \in Nat /\ CorrelationOf(j) \in Nat
    BY ONLY <2>1
  <2> QED
    BY <2>2, Zenon
<1>4. 3 * n * (e - c) <= 4000 * (p - q)
  <2>1. 3 * n >= 0 /\ e - c <= 0 /\ 4000 * (p - q) >= 0
    BY <1>1, <1>2, <1>3
  <2>2. 3 * n * (e - c) <= 0
    BY <1>1, <1>3, <2>1
  <2> QED
    BY <1>1, <1>2, <1>3, <2>1, <2>2
<1> QED
  <2>1. PlaceOutweighs(i, j)
    BY <1>1, <1>2, <1>3, <1>4 DEF PlaceOutweighs
  <2> QED
    BY <2>1, ConfidenceTrade

\* What a place makes up for is clear either way, and when it is enough.
LEMMA PlacesAreWeighed ==
    ASSUME ReadingOK, NEW i \in Range(entityRead), NEW j \in Range(entityRead), i <= j
    PROVE  /\ ~PlaceOutweighs(i, j) => PlaceOutweighs(j, i)
           /\ 4 * (PositionOf(i) - PositionOf(j)) >= 3 * Len(entityRead) => PlaceOutweighs(i, j)
           /\ CorrelationOf(i) = CorrelationOf(j) => PlaceOutweighs(i, j)
<1>1. PICK n \in Nat : n = Len(entityRead) /\ n > 0
  BY ConfidenceFacts
<1>2. PICK p \in Nat, q \in Nat : p = PositionOf(i) /\ q = PositionOf(j) /\ p >= q
  <2>1. PositionOf(i) \in 1 .. n /\ PositionOf(j) \in 1 .. n /\ PositionOf(i) >= PositionOf(j)
    BY <1>1, PositionFacts
  <2> QED
    BY <1>1, <2>1
<1>3. PICK c \in Nat, e \in Nat : c = CorrelationOf(i) /\ e = CorrelationOf(j) /\ c <= 1000 /\ e <= 1000
  <2>1. CorrelationOf(i) \in 0 .. 1000 /\ CorrelationOf(j) \in 0 .. 1000
    BY ConfidenceFacts
  <2>2. /\ CorrelationOf(i) \in Nat /\ CorrelationOf(i) <= 1000
        /\ CorrelationOf(j) \in Nat /\ CorrelationOf(j) <= 1000
    BY ONLY <2>1
  <2> QED
    BY <2>2, Zenon
<1>4. /\ PlaceOutweighs(i, j) <=> 3 * n * (e - c) <= 4000 * (p - q)
      /\ PlaceOutweighs(j, i) <=> 3 * n * (c - e) <= 4000 * (q - p)
  BY <1>1, <1>2, <1>3 DEF PlaceOutweighs
<1>5. PICK w \in Int : w = n * (e - c) /\ w <= n * 1000
  <2>1. e - c \in Int /\ e - c <= 1000
    BY <1>3
  <2>2. n * (e - c) \in Int /\ n * (e - c) <= n * 1000
    <3>1. PICK y \in Int : y = e - c /\ y <= 1000
      BY <2>1
    <3>2. n * y \in Int /\ n * y <= n * 1000
      BY <1>1, <3>1
    <3> QED
      BY <3>1, <3>2
  <2> QED
    BY <2>2
<1>6. 3 * n * (e - c) = 3 * w /\ 3 * n * (c - e) = -(3 * w)
  <2>1. PICK x \in Nat, y \in Nat : x = n * c /\ y = n * e
    BY <1>1, <1>3
  <2>2. w = y - x
    <3>1. n * (e - c) = n * e - n * c
      BY ONLY n \in Nat, c \in Nat, e \in Nat
    <3> QED
      BY <1>5, <2>1, <3>1
  <2>3. 3 * n * (e - c) = 3 * y - 3 * x /\ 3 * n * (c - e) = 3 * x - 3 * y
    BY <1>1, <1>3, <2>1
  <2> QED
    BY <2>1, <2>2, <2>3
<1>7. ~PlaceOutweighs(i, j) => PlaceOutweighs(j, i)
  <2>1. 3 * w <= 4000 * (p - q) \/ -(3 * w) <= 4000 * (q - p)
    BY <1>2, <1>5
  <2> QED
    BY <1>4, <1>6, <2>1
<1>8. ASSUME 4 * (p - q) >= 3 * n PROVE PlaceOutweighs(i, j)
  <2>1. 3 * w <= 4000 * (p - q)
    BY <1>1, <1>2, <1>5, <1>8
  <2> QED
    BY <1>4, <1>6, <2>1
<1>9. ASSUME c = e PROVE PlaceOutweighs(i, j)
  <2>1. w = 0
    BY <1>1, <1>3, <1>5, <1>9
  <2>2. 3 * w <= 4000 * (p - q)
    BY <1>2, <2>1
  <2> QED
    BY <1>4, <1>6, <2>2
<1> QED
  BY <1>1, <1>2, <1>3, <1>7, <1>8, <1>9

\* _identify_probable_causes, for any events: what makes an event likelier.
LEMMA ConfidenceIsSound == ReadingOK => UpstreamCounts /\ SignalsOutweighStatus
<1> SUFFICES ASSUME ReadingOK PROVE UpstreamCounts /\ SignalsOutweighStatus
  OBVIOUS
<1>1. ASSUME NEW i \in Candidates, NEW j \in Candidates, Alike(i, j), PlaceOutweighs(i, j)
      PROVE  Confidence(i) >= Confidence(j)
  <2>1. i \in Range(entityRead) /\ j \in Range(entityRead)
    BY DEF Candidates
  <2>2. SignalBonus(i) = SignalBonus(j) /\ SignalBonus(i) \in Nat
    BY <1>1 DEF Alike, SignalBonus, IsError, HasAnomaly
  <2>3. SignalBonus(i) >= SignalBonus(j)
    BY <2>2
  <2> QED
    BY <1>1, <2>1, <2>3, ConfidenceTrade
<1>2. ASSUME NEW j \in Candidates, story[j].signals = {"status"}
      PROVE  SignalBonus(j) = 0 /\ Confidence(j) <= 700
  <2>1. j \in Range(entityRead)
    BY DEF Candidates
  <2>2. SignalBonus(j) = 0
    BY <1>2 DEF SignalBonus, IsError, HasAnomaly
  <2>3. PICK n \in Nat : n = Len(entityRead) /\ n > 0
    BY <2>1, ConfidenceFacts
  <2>4. PICK p \in Nat, c \in Nat : p = PositionOf(j) /\ p <= n /\ c = CorrelationOf(j) /\ c <= 1000
    <3>1. CorrelationOf(j) \in 0 .. 1000 /\ PositionOf(j) \in 1 .. n
      BY <2>1, <2>3, ConfidenceFacts, PositionFacts
    <3> QED
      BY <3>1
  <2>5. n * (3 * c + 10 * 0) <= n * 3000
    <3>1. 3 * c + 10 * 0 \in Nat /\ 3 * c + 10 * 0 <= 3000
      BY <2>4
    <3> QED
      BY <3>1
  <2>6. Parts10(j, n) = 4000 * p + n * (3 * c + 10 * 0)
    BY <2>2, <2>4 DEF Parts10
  <2>7. Parts10(j, n) <= 7000 * n /\ Parts10(j, n) \in Nat
    <3>1. PICK x \in Int : x = n * (3 * c + 10 * 0) /\ x <= n * 3000
      BY <2>5
    <3>2. Parts10(j, n) \in Nat
      BY <2>1, <2>3, ConfidenceFacts
    <3> QED
      BY <2>4, <2>6, <3>1, <3>2
  <2> DEFINE u == Parts10(j, n) + 5 * n
             d == 10 * n
  <2>8. u \in Nat /\ d \in Nat /\ d > 0 /\ u < d * 700 + d
    BY <2>3, <2>7
  <2> HIDE DEF u, d
  <2>9. u \div d <= 700 /\ u \div d \in Nat
    BY <2>8, DivisionIsBounded, DivisionBounds
  <2>10. Confidence(j) = Capped(u \div d)
    BY <2>1, <2>3, ConfidenceFacts DEF u, d
  <2> QED
    BY <2>2, <2>9, <2>10 DEF Capped
<1>3. ASSUME NEW i \in Candidates, NEW j \in Candidates, story[j].signals = {"status"}, i <= j,
             CorrelationOf(i) >= CorrelationOf(j)
      PROVE  Confidence(i) >= Confidence(j)
  <2>1. i \in Range(entityRead) /\ j \in Range(entityRead)
    BY DEF Candidates
  <2>2. SignalBonus(j) = 0 /\ SignalBonus(i) \in Nat
    BY <1>2, <1>3, <2>1, ConfidenceFacts
  <2>3. SignalBonus(i) >= SignalBonus(j)
    BY <2>2
  <2> QED
    BY <1>3, <2>1, <2>3, ConfidenceOrder
<1>4. UpstreamCounts
  <2>1. ASSUME NEW i \in Candidates, NEW j \in Candidates, i < j, Alike(i, j)
        PROVE  /\ PlaceOutweighs(i, j) => Confidence(i) >= Confidence(j)
               /\ ~PlaceOutweighs(i, j) => Confidence(j) >= Confidence(i)
               /\ 4 * (PositionOf(i) - PositionOf(j)) >= 3 * Len(entityRead) => PlaceOutweighs(i, j)
               /\ CorrelationOf(i) = CorrelationOf(j) => PlaceOutweighs(i, j)
    <3>1. i \in Range(entityRead) /\ j \in Range(entityRead)
      BY DEF Candidates
    <3>2. i <= j
      BY <2>1, <3>1, PositionFacts
    <3>3. Alike(j, i)
      BY <2>1 DEF Alike
    <3>4. /\ ~PlaceOutweighs(i, j) => PlaceOutweighs(j, i)
          /\ 4 * (PositionOf(i) - PositionOf(j)) >= 3 * Len(entityRead) => PlaceOutweighs(i, j)
          /\ CorrelationOf(i) = CorrelationOf(j) => PlaceOutweighs(i, j)
      BY <3>1, <3>2, PlacesAreWeighed
    <3>5. PlaceOutweighs(i, j) => Confidence(i) >= Confidence(j)
      BY ONLY <1>1, <2>1, Zenon
    <3>6. ~PlaceOutweighs(i, j) => Confidence(j) >= Confidence(i)
      BY ONLY <1>1, <3>3, <3>4, Zenon
    <3> QED
      BY ONLY <3>4, <3>5, <3>6, Zenon
  <2> QED
    BY ONLY <2>1, Zenon DEF UpstreamCounts
<1>5. SignalsOutweighStatus
  BY <1>2, <1>3 DEF SignalsOutweighStatus
<1> QED
  BY <1>4, <1>5

\* The types of the events and of the time they are read at.
LEMMA StoryFacts ==
    ASSUME ReadingOK
    PROVE  /\ Len(story) \in Nat /\ DOMAIN story = 1 .. Len(story) /\ clock \in Nat /\ Horizon \in Nat
           /\ \A i \in DOMAIN story :
                 /\ story[i].hour \in Nat /\ story[i].hour <= clock
                 /\ story[i].signals \in SUBSET Signals
<1>1. story \in Seq(Occurrence) /\ clock \in 0 .. LastHour /\ \A i \in DOMAIN story : story[i].hour <= clock
  BY DEF ReadingOK
<1>2. Decay \in Seq(0 .. 1000) /\ Decay # <<>> /\ LastHour \in Nat
  BY RootCauseAssumption
<1>3. Horizon \in Nat
  BY <1>2 DEF Horizon
<1>4. ASSUME NEW i \in DOMAIN story PROVE story[i].hour \in Nat /\ story[i].signals \in SUBSET Signals
  <2>1. story[i] \in Occurrence
    BY <1>1
  <2> QED
    BY <2>1 DEF Occurrence
<1>5. Len(story) \in Nat /\ DOMAIN story = 1 .. Len(story) /\ clock \in Nat
  BY <1>1, <1>2
<1> QED
  BY <1>1, <1>3, <1>4, <1>5

\* A reading of the events of some entities.
LEMMA OfFacts ==
    ASSUME ReadingOK, NEW E
    PROVE  /\ Of(E) \in Seq(DOMAIN story)
           /\ Range(Of(E)) = {i \in DOMAIN story : story[i].entity \in E /\ story[i].hour >= clock - Horizon}
           /\ \A p, q \in DOMAIN Of(E) : p < q => Of(E)[p] < Of(E)[q]
<1> DEFINE S == {i \in DOMAIN story : story[i].entity \in E /\ story[i].hour >= clock - Horizon}
           n == Len(story)
           list == Ascending(n, S)
<1>1. n \in Nat /\ DOMAIN story = 1 .. n
  BY StoryFacts
<1> HIDE DEF n
<1>2. (1 .. n) \cap S = S
  BY <1>1
<1> HIDE DEF S
<1>3. list \in Seq((1 .. n) \cap S) /\ Range(list) = (1 .. n) \cap S
      /\ \A i, j \in DOMAIN list : i < j => list[i] < list[j]
  BY <1>1, AscendingFacts
<1> HIDE DEF list
<1>4. list \in Seq(1 .. n) /\ Range(list) = S
  <2>1. (1 .. n) \cap S \subseteq 1 .. n
    OBVIOUS
  <2>3. list \in Seq(1 .. n)
    BY <1>3, <2>1, WiderList
  <2> QED
    BY <1>2, <1>3, <2>3
<1>5. Of(E) = list
  BY DEF Of, list, S, n
<1> QED
  BY <1>1, <1>3, <1>4, <1>5 DEF S

\* find_correlated_events: the point of reference is in the window, and so are the events.
LEMMA ScoresFound ==
    ASSUME ReadingOK
    PROVE  /\ \A i \in Correlated : i \in DOMAIN story /\ Correlation(i) \in 0 .. 1000
           /\ \A i \in Range(entityRead) \ Correlated : story[i].hour < clock - Horizon
           /\ \A i, j \in Correlated :
                 story[i].hour = story[j].hour /\ story[i].entity = Affected => Correlation(i) >= Correlation(j)
<1> DEFINE E == {Affected} \cup RelatedEntities
<1>1. Correlated = {i \in DOMAIN story : story[i].entity \in E /\ story[i].hour >= clock - Horizon}
  BY OfFacts DEF Correlated
<1>2. /\ clock \in Nat /\ Horizon \in Nat
      /\ \A i \in DOMAIN story : story[i].hour \in Nat /\ story[i].hour <= clock
  BY StoryFacts
<1>3. Reference \in Int /\ clock - Horizon <= Reference /\ Reference <= clock
  <2>1. CASE Of({Affected}) = <<>>
    BY <1>2, <2>1 DEF Reference
  <2>2. CASE Of({Affected}) # <<>>
    <3> DEFINE r == Of({Affected})
    <3>1. /\ r \in Seq(DOMAIN story)
          /\ Range(r) = {i \in DOMAIN story : story[i].entity \in {Affected} /\ story[i].hour >= clock - Horizon}
      BY OfFacts
    <3>2. r # <<>>
      BY <2>2
    <3>3. Reference = story[r[Len(r)]].hour
      BY <2>2 DEF Reference, Last
    <3> HIDE DEF r
    <3>4. Len(r) \in DOMAIN r
      BY <3>1, <3>2
    <3>5. r[Len(r)] \in Range(r)
      BY <3>4 DEF Range
    <3> QED
      BY <1>2, <3>1, <3>3, <3>5
  <2> QED
    BY <2>1, <2>2
<1>4. ASSUME NEW i \in Correlated
      PROVE  /\ i \in DOMAIN story /\ Decay[Distance(i) + 1] \in 0 .. 1000
             /\ Bonus(i) \in {100, 300}
  <2>1. i \in DOMAIN story /\ story[i].hour >= clock - Horizon
    BY <1>1
  <2>2. PICK h \in Nat : h = story[i].hour /\ h <= clock /\ h >= clock - Horizon
    BY <1>2, <2>1
  <2>3. Distance(i) = IF h < Reference THEN Reference - h ELSE h - Reference
    BY <2>2 DEF Distance
  <2>4. Distance(i) \in 0 .. Horizon
    BY <1>2, <1>3, <2>2, <2>3
  <2>5. Decay \in Seq(0 .. 1000)
    BY RootCauseAssumption
  <2>6. Distance(i) + 1 \in 1 .. Len(Decay)
    BY <1>2, <2>4, <2>5 DEF Horizon
  <2>7. Decay[Distance(i) + 1] \in 0 .. 1000
    <3>1. PICK A : A = 0 .. 1000
      OBVIOUS
    <3>2. Decay \in Seq(A)
      BY ONLY <2>5, <3>1
    <3>3. Decay[Distance(i) + 1] \in A
      BY ONLY <2>6, <3>2, ItemOfList, Zenon
    <3> QED
      BY ONLY <3>1, <3>3
  <2> QED
    BY <2>1, <2>7 DEF Bonus
<1>5. ASSUME NEW i \in Correlated PROVE Correlation(i) \in 0 .. 1000
  <2>1. PICK d \in 0 .. 1000 : d = Decay[Distance(i) + 1]
    BY <1>4
  <2>2. PICK b \in Nat : b = Bonus(i)
    BY <1>4
  <2>3. Capped(d + b) \in 0 .. 1000
    BY DEF Capped
  <2> QED
    BY <2>1, <2>2, <2>3 DEF Correlation
<1>6. ASSUME NEW i \in Range(entityRead) \ Correlated PROVE story[i].hour < clock - Horizon
  <2>1. entityRead \in Seq(DOMAIN story) /\ story[i].entity = Affected
    BY DEF ReadingOK
  <2>2. i \in DOMAIN story
    BY <2>1 DEF Range
  <2>3. ~(story[i].hour >= clock - Horizon)
    BY <1>1, <1>6, <2>1, <2>2
  <2> QED
    BY <1>2, <2>2, <2>3
<1>7. ASSUME NEW i \in Correlated, NEW j \in Correlated, story[i].hour = story[j].hour, story[i].entity = Affected
      PROVE  Correlation(i) >= Correlation(j)
  <2>1. Distance(i) = Distance(j)
    BY <1>7 DEF Distance
  <2>2. Bonus(i) = 300 /\ Bonus(j) \in {100, 300}
    BY <1>7 DEF Bonus
  <2>3. PICK d \in 0 .. 1000 : d = Decay[Distance(i) + 1]
    BY <1>4
  <2>4. Correlation(i) = Capped(d + 300) /\ Correlation(j) = Capped(d + Bonus(j))
    BY <2>1, <2>2, <2>3 DEF Correlation
  <2>5. Capped(d + 300) >= Capped(d + Bonus(j))
    BY <2>2, <2>3 DEF Capped
  <2> QED
    BY <2>4, <2>5
<1> QED
  BY <1>4, <1>5, <1>6, <1>7

\* _identify_probable_causes: the likeliest candidates are those reported.
LEMMA ReportFound == ReadingOK /\ causes = ProbableCauses => ReportOK /\ CausesFound
<1> SUFFICES ASSUME ReadingOK, causes = ProbableCauses PROVE ReportOK /\ CausesFound
  OBVIOUS
<1> DEFINE C == Candidates
           key == [i \in {i \in Range(entityRead) : IsCandidate(i)} |-> <<-Confidence(i), -i>>]
           a == ByConfidence
           n == Len(a)
           m == IF n < Listed THEN n ELSE Listed
<1>1. C \subseteq DOMAIN story /\ C \subseteq Nat /\ \A i \in C : Confidence(i) \in Nat
  BY PositionFacts, ConfidenceFacts DEF Candidates
<1>2. DOMAIN key = C /\ \A i \in C : key[i] = <<-Confidence(i), -i>>
  BY DEF Candidates
<1> HIDE DEF key
<1>3. AreKeys(key)
  <2>1. IsFiniteSet(C)
    <3>1. IsFiniteSet(1 .. Len(story)) /\ DOMAIN story = 1 .. Len(story)
      BY StoryFacts, FS_Interval
    <3> QED
      BY <1>1, <3>1, FS_Subset
  <2>2. ASSUME NEW i \in C PROVE key[i] \in Int \X Int
    <3>1. -Confidence(i) \in Int /\ -i \in Int
      BY <1>1
    <3> QED
      BY <1>2, <3>1
  <2>3. ASSUME NEW i \in C, NEW j \in C, key[i] = key[j] PROVE i = j
    <3>1. -i = -j /\ i \in Nat /\ j \in Nat
      BY <1>1, <1>2, <2>3
    <3> QED
      BY <3>1
  <2> QED
    BY <1>2, <2>1, <2>2, <2>3 DEF AreKeys
<1>4. /\ a \in Seq(C) /\ Range(a) = C
      /\ \A i, j \in 1 .. n : i < j => Precedes(key[a[i]], key[a[j]])
  BY <1>2, <1>3, ArrangedFacts DEF Arranges, ByConfidence, key
<1> HIDE DEF a
<1>5. n \in Nat /\ Listed \in Nat
  BY <1>4, RootCauseAssumption
<1>6. causes = SubSeq(a, 1, m)
  BY DEF ProbableCauses, a
<1> HIDE DEF C, n
<1>7. m \in 0 .. n /\ m <= Listed /\ (m < Listed => m = n)
  BY <1>5
<1> HIDE DEF m
<1>8. causes \in Seq(C) /\ Len(causes) = m /\ \A i \in 1 .. m : i \in 1 .. n /\ causes[i] = a[i]
  BY <1>4, <1>5, <1>6, <1>7 DEF n
<1>9. DOMAIN causes = 1 .. m /\ Range(causes) \subseteq C
  BY <1>8 DEF Range
<1>10. ReportOK
  BY <1>1, <1>7, <1>8 DEF ReportOK
<1>11. ASSUME NEW i \in C \ Range(causes), NEW j \in Range(causes) PROVE Confidence(i) <= Confidence(j)
  <2>1. PICK p \in 1 .. n : a[p] = i
    BY <1>4 DEF Range, n
  <2>2. PICK q \in 1 .. m : causes[q] = j
    BY <1>9 DEF Range
  <2>3. p \notin 1 .. m
    BY <1>8, <1>9, <1>11, <2>1 DEF Range
  <2>4. q < p /\ q \in 1 .. n /\ a[q] = j
    BY <1>5, <1>7, <1>8, <2>2, <2>3
  <2>5. Precedes(key[j], key[i]) /\ i \in C /\ j \in C
    BY <1>4, <1>9, <2>1, <2>4
  <2>6. key[i] = <<-Confidence(i), -i>> /\ key[j] = <<-Confidence(j), -j>>
    BY <1>2, <2>5
  <2>7. -Confidence(j) <= -Confidence(i)
    BY <1>1, <2>5, <2>6 DEF Precedes
  <2> QED
    BY <1>1, <2>5, <2>7
<1>12. ASSUME Len(causes) < Listed PROVE Range(causes) = C
  <2>1. m = n
    BY <1>7, <1>8, <1>12
  <2>2. \A p \in 1 .. n : a[p] = causes[p]
    BY <1>8, <2>1
  <2>3. Range(a) = {a[p] : p \in 1 .. n}
    BY <1>4 DEF Range, n
  <2>4. Range(causes) = {causes[p] : p \in 1 .. n}
    BY <1>9, <2>1 DEF Range
  <2> QED
    BY <1>4, <2>2, <2>3, <2>4
<1> QED
  BY <1>9, <1>10, <1>11, <1>12 DEF CausesFound, C

\* Before the first event the invariant holds.
LEMMA CausesStart == CausesInit => CausesInv
<1> SUFFICES ASSUME CausesInit PROVE CausesInv
  OBVIOUS
<1>1. clock = 0 /\ story = <<>> /\ analysis = "loading" /\ entityRead = <<>> /\ nearness = <<>> /\ causes = <<>>
  BY DEF CausesInit
<1>2. LastHour \in Nat /\ MaxStory \in Nat /\ Listed \in Nat
  BY RootCauseAssumption
<1>3. DOMAIN nearness = {} /\ DOMAIN story = {} /\ DOMAIN entityRead = {} /\ Len(story) = 0 /\ Len(causes) = 0
  BY <1>1
<1>4. Range(entityRead) = {} /\ entityRead \in Seq(DOMAIN story) /\ causes \in Seq(DOMAIN story) /\ story \in Seq(Occurrence)
  BY <1>1, <1>3 DEF Range
<1>5. clock \in 0 .. LastHour
  BY <1>1, <1>2
<1>6. ReadingOK
  BY <1>1, <1>2, <1>3, <1>4, <1>5 DEF ReadingOK
<1>7. ReportOK
  BY <1>2, <1>3, <1>4 DEF ReportOK
<1> QED
  BY <1>1, <1>6, <1>7 DEF CausesInv

\* An event that comes in changes nothing for the ones before it.
LEMMA EventsKept ==
    ASSUME ReadingOK, NEW kind \in EventKinds, EventOccurs(kind)
    PROVE  /\ ReadingOK'
           /\ \A i \in DOMAIN story : i \in DOMAIN story' /\ story'[i] = story[i]
<1> DEFINE e == [entity |-> kind.entity, related |-> kind.related, signals |-> kind.signals,
                 comparable |-> kind.comparable, hour |-> clock]
           n == Len(story)
<1>1. /\ Len(story) < MaxStory /\ story' = Append(story, e)
      /\ UNCHANGED <<clock, analysis, entityRead, nearness, causes>>
  BY DEF EventOccurs
<1>2. n \in Nat /\ DOMAIN story = 1 .. n /\ clock \in Nat /\ MaxStory \in Nat
  BY StoryFacts, RootCauseAssumption
<1>3. e \in Occurrence
  BY <1>2, RootCauseAssumption DEF Occurrence
<1>4. e.hour = clock
  OBVIOUS
<1> HIDE DEF e
<1>5. story \in Seq(Occurrence) /\ \A i \in DOMAIN story : story[i].hour <= clock
  BY DEF ReadingOK
<1>6. /\ story' \in Seq(Occurrence) /\ Len(story') = n + 1 /\ DOMAIN story' = 1 .. n + 1
      /\ story'[n + 1] = e /\ \A i \in 1 .. n : story'[i] = story[i]
  BY <1>1, <1>3, <1>5
<1> HIDE DEF n
<1>7. \A i \in DOMAIN story : i \in DOMAIN story' /\ story'[i] = story[i]
  BY <1>2, <1>6
<1>8. ASSUME NEW i \in DOMAIN story' PROVE story'[i].hour <= clock'
  <2>1. i \in 1 .. n \/ i = n + 1
    BY <1>2, <1>6
  <2>2. i \in 1 .. n => story'[i].hour <= clock
    BY <1>2, <1>5, <1>6
  <2>3. i = n + 1 => story'[i].hour <= clock
    BY <1>2, <1>4, <1>6
  <2> QED
    BY <1>1, <2>1, <2>2, <2>3
<1>9. Len(story') <= MaxStory
  BY <1>1, <1>2, <1>6 DEF n
<1>10. DOMAIN story \subseteq DOMAIN story'
  BY <1>7
<1>11. entityRead' \in Seq(DOMAIN story')
  <2>1. entityRead \in Seq(DOMAIN story)
    BY DEF ReadingOK
  <2> QED
    BY <1>1, <1>10, <2>1, WiderList
<1>12. ASSUME NEW i \in Range(entityRead') PROVE story'[i].entity = Affected
  <2>1. i \in Range(entityRead)
    BY <1>1
  <2>2. i \in DOMAIN story /\ story[i].entity = Affected
    BY <2>1, PositionFacts DEF ReadingOK
  <2> QED
    BY <1>7, <2>2
<1>13. DOMAIN nearness' \subseteq DOMAIN story'
  BY <1>1, <1>10 DEF ReadingOK
<1>14. ReadingOK'
  <2>1. /\ clock' \in 0 .. LastHour
        /\ analysis' \in {"loading", "loaded", "read", "reported", "failed", "not found"}
        /\ \A i \in DOMAIN nearness' : nearness'[i] \in 0 .. 1000
    <3>1. clock' \in 0 .. LastHour
      BY <1>1 DEF ReadingOK
    <3>2. analysis' \in {"loading", "loaded", "read", "reported", "failed", "not found"}
      BY <1>1 DEF ReadingOK
    <3>3. \A i \in DOMAIN nearness' : nearness'[i] \in 0 .. 1000
      BY <1>1 DEF ReadingOK
    <3> QED
      BY ONLY <3>1, <3>2, <3>3
  <2>2. \A p, q \in DOMAIN entityRead' : p < q => entityRead'[p] < entityRead'[q]
    BY <1>1 DEF ReadingOK
  <2>3. /\ story' \in Seq(Occurrence) /\ Len(story') <= MaxStory
        /\ \A i \in DOMAIN story' : story'[i].hour <= clock'
    BY <1>1, <1>6, <1>8, <1>9
  <2>4. \A i \in Range(entityRead') : story'[i].entity = Affected
    BY <1>12
  <2> QED
    BY ONLY <1>11, <1>13, <2>1, <2>2, <2>3, <2>4 DEF ReadingOK
<1> QED
  BY <1>7, <1>14

\* A step that leaves the story alone keeps what was read of it.
LEMMA ReadingStays ==
    ASSUME ReadingOK, story' = story, nearness' = nearness,
           clock' \in 0 .. LastHour, \A i \in DOMAIN story : story[i].hour <= clock',
           analysis' \in {"loading", "loaded", "read", "reported", "failed", "not found"},
           entityRead' \in Seq(DOMAIN story),
           \A p, q \in DOMAIN entityRead' : p < q => entityRead'[p] < entityRead'[q],
           \A i \in Range(entityRead') : story[i].entity = Affected
    PROVE  ReadingOK'
<1>1. /\ story \in Seq(Occurrence) /\ Len(story) <= MaxStory
      /\ DOMAIN nearness \subseteq DOMAIN story
      /\ \A i \in DOMAIN nearness : nearness[i] \in 0 .. 1000
  BY DEF ReadingOK
<1>2. story' = story /\ nearness' = nearness
  OBVIOUS
<1>3. story' \in Seq(Occurrence) /\ Len(story') <= MaxStory
  BY ONLY <1>1, <1>2
<1>4. DOMAIN nearness' \subseteq DOMAIN story' /\ \A i \in DOMAIN nearness' : nearness'[i] \in 0 .. 1000
  BY ONLY <1>1, <1>2
<1>5. /\ clock' \in 0 .. LastHour
      /\ analysis' \in {"loading", "loaded", "read", "reported", "failed", "not found"}
      /\ \A p, q \in DOMAIN entityRead' : p < q => entityRead'[p] < entityRead'[q]
  OBVIOUS
<1>6. \A i \in DOMAIN story' : story'[i].hour <= clock'
  BY <1>2
<1>7. entityRead' \in Seq(DOMAIN story')
  BY <1>2
<1>8. \A i \in Range(entityRead') : story'[i].entity = Affected
  BY <1>2
<1> QED
  BY ONLY <1>3, <1>4, <1>5, <1>6, <1>7, <1>8 DEF ReadingOK

\* What was read, as the steps that do not read find it.
LEMMA ReadingParts ==
    ASSUME ReadingOK
    PROVE  /\ clock \in 0 .. LastHour
           /\ \A i \in DOMAIN story : story[i].hour <= clock
           /\ analysis \in {"loading", "loaded", "read", "reported", "failed", "not found"}
           /\ entityRead \in Seq(DOMAIN story)
           /\ \A p, q \in DOMAIN entityRead : p < q => entityRead[p] < entityRead[q]
           /\ \A i \in Range(entityRead) : story[i].entity = Affected
  BY DEF ReadingOK

\* A step that changes nothing but the state of the analysis keeps what was read.
LEMMA ReadingUntouched ==
    ASSUME ReadingOK, story' = story, nearness' = nearness, entityRead' = entityRead, clock' = clock,
           analysis' \in {"loading", "loaded", "read", "reported", "failed", "not found"}
    PROVE  ReadingOK'
<1>1. /\ clock' \in 0 .. LastHour
      /\ \A i \in DOMAIN story : story[i].hour <= clock'
  BY ReadingParts
<1>2. entityRead' \in Seq(DOMAIN story)
  BY ReadingParts
<1>3. \A p, q \in DOMAIN entityRead' : p < q => entityRead'[p] < entityRead'[q]
  BY ReadingParts
<1>4. \A i \in Range(entityRead') : story[i].entity = Affected
  BY ReadingParts
<1> QED
  BY <1>1, <1>2, <1>3, <1>4, ReadingStays

\* Every step of the analysis keeps the invariant.
LEMMA CausesStep == CausesInv /\ [CausesNext]_causesVars => CausesInv'
<1> SUFFICES ASSUME CausesInv, [CausesNext]_causesVars PROVE CausesInv'
  OBVIOUS
<1>0. ReadingOK /\ ReportOK /\ (analysis = "reported" => NearnessFound /\ CausesFound)
  BY DEF CausesInv
\* The report depends on nothing else.
<1>7. ASSUME UNCHANGED <<story, entityRead, nearness, causes>>, CausesFound PROVE CausesFound'
  <2>1. Candidates' = Candidates
    BY <1>7 DEF Candidates, IsCandidate
  <2>2. ASSUME NEW i \in Candidates PROVE Confidence(i)' = Confidence(i)
    <3>1. SignalBonus(i)' = SignalBonus(i)
      BY <1>7 DEF SignalBonus, IsError, HasAnomaly
    <3>2. PositionOf(i)' = PositionOf(i)
      BY <1>7 DEF PositionOf, NewestFirst
    <3>3. CorrelationOf(i)' = CorrelationOf(i)
      BY <1>7 DEF CorrelationOf
    <3> QED
      BY <1>7, <3>1, <3>2, <3>3 DEF Confidence
  <2>3. Range(causes) \subseteq Candidates
    BY <1>7 DEF CausesFound
  <2> QED
    BY <1>7, <2>1, <2>2, <2>3 DEF CausesFound
<1>1. ASSUME NEW kind \in EventKinds, EventOccurs(kind) PROVE CausesInv'
  <2>1. ReadingOK' /\ \A i \in DOMAIN story : i \in DOMAIN story' /\ story'[i] = story[i]
    BY <1>0, <1>1, EventsKept
  <2>2. UNCHANGED <<clock, analysis, entityRead, nearness, causes>>
    BY <1>1 DEF EventOccurs
  <2>3. ReportOK'
    BY <1>0, <2>1, <2>2, WiderList DEF ReportOK
  <2>4. \A i \in Range(entityRead) : i \in DOMAIN story
    BY <1>0, PositionFacts
  <2>5. \A i \in DOMAIN nearness : i \in DOMAIN story
    BY <1>0 DEF ReadingOK
  <2>6. ASSUME NearnessFound PROVE NearnessFound'
    <3>1. Horizon' = Horizon
      BY DEF Horizon
    <3>2. ASSUME NEW i \in Range(entityRead) \ DOMAIN nearness PROVE story'[i].hour < clock - Horizon
      BY <2>1, <2>4, <2>6 DEF NearnessFound
    <3>3. ASSUME NEW i \in DOMAIN nearness, NEW j \in DOMAIN nearness,
                 story'[i].hour = story'[j].hour, story'[i].entity = Affected
          PROVE  nearness[i] >= nearness[j]
      BY <2>1, <2>5, <2>6, <3>3 DEF NearnessFound
    <3> QED
      BY <2>2, <3>1, <3>2, <3>3 DEF NearnessFound
  <2>7. ASSUME CausesFound PROVE CausesFound'
    <3>1. ASSUME NEW i \in Range(entityRead) PROVE IsCandidate(i)' <=> IsCandidate(i)
      BY <2>1, <2>4 DEF IsCandidate
    <3>2. Candidates' = Candidates
      BY <2>2, <3>1 DEF Candidates
    <3>3. ASSUME NEW i \in Candidates PROVE Confidence(i)' = Confidence(i)
      <4>1. story'[i] = story[i]
        BY <2>1, <2>4 DEF Candidates
      <4>2. SignalBonus(i)' = SignalBonus(i)
        BY <4>1 DEF SignalBonus, IsError, HasAnomaly
      <4>3. PositionOf(i)' = PositionOf(i)
        BY <2>2 DEF PositionOf, NewestFirst
      <4>4. CorrelationOf(i)' = CorrelationOf(i)
        BY <2>2 DEF CorrelationOf
      <4> QED
        BY <2>2, <4>2, <4>3, <4>4 DEF Confidence
    <3>4. Range(causes) \subseteq Candidates
      BY <2>7 DEF CausesFound
    <3> QED
      BY <2>2, <2>7, <3>2, <3>3, <3>4 DEF CausesFound
  <2> QED
    BY <1>0, <2>1, <2>2, <2>3, <2>6, <2>7 DEF CausesInv
<1>2. ASSUME HourPasses PROVE CausesInv'
  <2>1. clock < LastHour /\ clock' = clock + 1 /\ UNCHANGED <<story, analysis, entityRead, nearness, causes>>
    BY <1>2 DEF HourPasses
  <2>2. /\ clock \in Nat /\ Horizon \in Nat /\ LastHour \in Nat
        /\ \A i \in DOMAIN story : story[i].hour \in Nat /\ story[i].hour <= clock
    BY <1>0, StoryFacts, RootCauseAssumption
  <2>3. clock' \in 0 .. LastHour /\ \A i \in DOMAIN story : story[i].hour <= clock'
    BY <2>1, <2>2
  <2>4. ReadingOK'
    <3>1. /\ story' = story /\ analysis' = analysis /\ entityRead' = entityRead /\ nearness' = nearness
      BY <2>1
    <3>2. entityRead' \in Seq(DOMAIN story) /\ analysis' \in {"loading", "loaded", "read", "reported", "failed", "not found"}
      BY <1>0, <3>1, ReadingParts
    <3>3. \A p, q \in DOMAIN entityRead' : p < q => entityRead'[p] < entityRead'[q]
      BY <1>0, <3>1, ReadingParts
    <3>4. \A i \in Range(entityRead') : story[i].entity = Affected
      BY <1>0, <3>1, ReadingParts
    <3> QED
      BY <1>0, <2>3, <3>1, <3>2, <3>3, <3>4, ReadingStays
  <2>5. ReportOK'
    BY <1>0, <2>1 DEF ReportOK
  <2>6. ASSUME NearnessFound PROVE NearnessFound'
    <3>1. Horizon' = Horizon
      BY DEF Horizon
    <3>2. ASSUME NEW i \in Range(entityRead) \ DOMAIN nearness PROVE story[i].hour < clock' - Horizon
      <4>1. i \in DOMAIN story
        BY <1>0, PositionFacts
      <4>2. story[i].hour < clock - Horizon
        BY <2>6 DEF NearnessFound
      <4> QED
        BY <2>1, <2>2, <4>1, <4>2
    <3> QED
      BY <2>1, <2>6, <3>1, <3>2 DEF NearnessFound
  <2>7. ASSUME CausesFound PROVE CausesFound'
    BY <1>7, <2>1, <2>7
  <2> QED
    BY <1>0, <2>1, <2>4, <2>5, <2>6, <2>7 DEF CausesInv
<1>3. ASSUME LoadAlert PROVE CausesInv'
  <2>1. analysis' \in {"loaded", "not found"} /\ UNCHANGED <<clock, story, entityRead, nearness, causes>>
    BY <1>3 DEF LoadAlert
  <2>2. ReadingOK'
    <3>1. analysis' \in {"loading", "loaded", "read", "reported", "failed", "not found"}
      BY <2>1
    <3> QED
      BY <1>0, <2>1, <3>1, ReadingUntouched
  <2>3. ReportOK'
    BY <1>0, <2>1 DEF ReportOK
  <2> QED
    BY <2>1, <2>2, <2>3 DEF CausesInv
<1>4. ASSUME ReadEntityEvents PROVE CausesInv'
  <2>1. analysis' = "read" /\ entityRead' = Of({Affected}) /\ UNCHANGED <<clock, story, nearness, causes>>
    BY <1>4 DEF ReadEntityEvents
  <2>2. /\ entityRead' \in Seq(DOMAIN story)
        /\ \A i \in Range(entityRead') : story[i].entity = Affected
        /\ \A p, q \in DOMAIN entityRead' : p < q => entityRead'[p] < entityRead'[q]
    BY <1>0, <2>1, OfFacts
  <2>3. ReadingOK'
    <3>1. /\ clock' \in 0 .. LastHour
          /\ \A i \in DOMAIN story : story[i].hour <= clock'
      BY <1>0, <2>1, ReadingParts
    <3>2. analysis' \in {"loading", "loaded", "read", "reported", "failed", "not found"}
      BY <2>1
    <3> QED
      BY <1>0, <2>1, <2>2, <3>1, <3>2, ReadingStays
  <2>4. ReportOK'
    BY <1>0, <2>1 DEF ReportOK
  <2> QED
    BY <2>1, <2>3, <2>4 DEF CausesInv
<1>5. ASSUME Correlate PROVE CausesInv'
  <2>1. /\ UNCHANGED <<clock, story, entityRead>> /\ nearness' = [i \in Correlated |-> Correlation(i)]
        /\ \/ analysis' = "failed" /\ causes' = causes
           \/ analysis' = "reported" /\ causes' = ProbableCauses'
    BY <1>5 DEF Correlate
  <2>2. /\ \A i \in Correlated : i \in DOMAIN story /\ Correlation(i) \in 0 .. 1000
        /\ \A i \in Range(entityRead) \ Correlated : story[i].hour < clock - Horizon
        /\ \A i, j \in Correlated :
              story[i].hour = story[j].hour /\ story[i].entity = Affected => Correlation(i) >= Correlation(j)
    BY <1>0, ScoresFound
  <2> DEFINE S == Correlated
             score == [i \in S |-> Correlation(i)]
  <2>3. DOMAIN score = S /\ \A i \in S : score[i] = Correlation(i)
    OBVIOUS
  <2>4. nearness' = score
    BY <2>1
  <2> HIDE DEF score
  <2>5. DOMAIN nearness' = S /\ \A i \in S : nearness'[i] = Correlation(i)
    BY <2>3, <2>4
  <2>6. DOMAIN nearness' \subseteq DOMAIN story /\ \A i \in DOMAIN nearness' : nearness'[i] \in 0 .. 1000
    BY <2>2, <2>5
  <2>11. analysis' \in {"loading", "loaded", "read", "reported", "failed", "not found"}
    BY <2>1
  <2>12. clock' = clock /\ story' = story /\ entityRead' = entityRead
    BY <2>1
  <2> HIDE DEF S
  <2>7. ReadingOK'
    <3>1. /\ clock \in 0 .. LastHour
          /\ story \in Seq(Occurrence) /\ Len(story) <= MaxStory
          /\ \A i \in DOMAIN story : story[i].hour <= clock
          /\ entityRead \in Seq(DOMAIN story)
          /\ \A p, q \in DOMAIN entityRead : p < q => entityRead[p] < entityRead[q]
          /\ \A i \in Range(entityRead) : story[i].entity = Affected
      BY <1>0 DEF ReadingOK
    <3>2. clock' \in 0 .. LastHour
      BY ONLY <2>12, <3>1
    <3>3. story' \in Seq(Occurrence) /\ Len(story') <= MaxStory
      BY ONLY <2>12, <3>1
    <3>4. \A i \in DOMAIN story' : story'[i].hour <= clock'
      BY ONLY <2>12, <3>1
    <3>5. entityRead' \in Seq(DOMAIN story')
      BY ONLY <2>12, <3>1
    <3>6. \A p, q \in DOMAIN entityRead' : p < q => entityRead'[p] < entityRead'[q]
      BY ONLY <2>12, <3>1
    <3>7. \A i \in Range(entityRead') : story'[i].entity = Affected
      BY ONLY <2>12, <3>1
    <3>8. DOMAIN nearness' \subseteq DOMAIN story' /\ \A i \in DOMAIN nearness' : nearness'[i] \in 0 .. 1000
      BY ONLY <2>6, <2>12
    <3> QED
      BY ONLY <2>11, <3>2, <3>3, <3>4, <3>5, <3>6, <3>7, <3>8 DEF ReadingOK
  <2>8. NearnessFound'
    <3>1. Horizon' = Horizon
      BY DEF Horizon
    <3> HIDE DEF S
    <3>2. \A i \in Range(entityRead) \ DOMAIN nearness' : story[i].hour < clock - Horizon
      BY <2>2, <2>5 DEF S
    <3>3. \A i, j \in DOMAIN nearness' :
             story[i].hour = story[j].hour /\ story[i].entity = Affected => nearness'[i] >= nearness'[j]
      BY <2>2, <2>5 DEF S
    <3> QED
      BY <2>1, <3>1, <3>2, <3>3 DEF NearnessFound
  <2>9. CASE analysis' = "failed" /\ causes' = causes
    <3>1. ReportOK'
      BY <1>0, <2>1, <2>9 DEF ReportOK
    <3> QED
      BY <2>7, <2>9, <3>1 DEF CausesInv
  <2>10. CASE analysis' = "reported" /\ causes' = ProbableCauses'
    <3>1. (ReadingOK /\ causes = ProbableCauses)' => (ReportOK /\ CausesFound)'
      BY ReportFound, PTL
    <3>2. ReportOK' /\ CausesFound'
      BY <2>7, <2>10, <3>1
    <3> QED
      BY <2>7, <2>8, <3>2 DEF CausesInv
  <2> QED
    BY <2>1, <2>9, <2>10
<1>6. CASE UNCHANGED causesVars
  <2>1. UNCHANGED <<clock, story, analysis, entityRead, nearness, causes>>
    BY <1>6 DEF causesVars
  <2>2. ReadingOK'
    <3>1. analysis' \in {"loading", "loaded", "read", "reported", "failed", "not found"}
      BY <1>0, <2>1, ReadingParts
    <3> QED
      BY <1>0, <2>1, <3>1, ReadingUntouched
  <2>3. ReportOK'
    BY <1>0, <2>1 DEF ReportOK
  <2>4. ASSUME NearnessFound PROVE NearnessFound'
    BY <2>1, <2>4 DEF NearnessFound, Horizon
  <2> QED
    BY <1>0, <1>7, <2>1, <2>2, <2>3, <2>4 DEF CausesInv
<1> QED
  BY <1>1, <1>2, <1>3, <1>4, <1>5, <1>6 DEF CausesNext

\* What the invariant says of a report.
LEMMA CausesSound == CausesInv => CausesTypeOK /\ CausesAreSound
<1> SUFFICES ASSUME CausesInv PROVE CausesTypeOK /\ CausesAreSound
  OBVIOUS
<1>1. ReadingOK /\ ReportOK /\ (analysis = "reported" => NearnessFound /\ CausesFound)
  BY DEF CausesInv
<1>2. CausesTypeOK
  <2>1. \A i \in Range(entityRead) : i \in DOMAIN story
    BY <1>1, PositionFacts
  <2>2. Range(nearness) \subseteq 0 .. 1000
    <3>1. \A i \in DOMAIN nearness : nearness[i] \in 0 .. 1000
      BY <1>1 DEF ReadingOK
    <3> QED
      BY <3>1 DEF Range
  <2>3. Range(causes) \subseteq DOMAIN story /\ Len(causes) <= Listed
    BY <1>1 DEF ReportOK, Range
  <2> QED
    BY <1>1, <2>1, <2>2, <2>3 DEF CausesTypeOK, ReadingOK
<1>3. CausesAreSound
  <2> SUFFICES ASSUME analysis = "reported" PROVE UpstreamCounts /\ SignalsOutweighStatus /\ ReadingsAgree /\ NoLikelierLeftOut
    BY DEF CausesAreSound
  <2>1. UpstreamCounts /\ SignalsOutweighStatus
    BY <1>1, ConfidenceIsSound
  <2>2. ReadingsAgree
    BY <1>1 DEF ReadingsAgree, NearnessFound, CausesFound
  <2>3. NoLikelierLeftOut
    BY <1>1 DEF NoLikelierLeftOut, CausesFound
  <2> QED
    BY <2>1, <2>2, <2>3
<1> QED
  BY <1>2, <1>3

\* RootCauseAnalyzer.analyze, for any events, any decay of the scores, any length of the report and
\* whatever happens between the two readings: what it reports follows from the first.
THEOREM CausesFollow == CausesSpec => []CausesAreSound
  BY CausesStart, CausesStep, CausesSound, PTL DEF CausesSpec

------------------------------------------------------------------------------
(* Anomalies: the arithmetic. *)

\* Products and squares keep the order.
LEMMA MultiplyOrder ==
    ASSUME NEW a \in Int, NEW b \in Int, NEW c \in Nat, a <= b
    PROVE  a * c <= b * c
BY SMTT(30)

\* The square of a number farther from 0 is not smaller.
LEMMA SquareOrder ==
    ASSUME NEW a \in Int, NEW b \in Int, (0 <= a /\ a <= b) \/ (b <= a /\ a <= 0)
    PROVE  a * a <= b * b
BY SMTT(30)

\* detect_volume_anomaly, for any window, any rate and any lookback of more than two windows: events
\* that come at an even rate are neither spike nor drop.
THEOREM EvenRateIsQuiet ==
    ASSUME NEW r \in Nat \ {0}, NEW w \in Nat \ {0}, NEW l \in Nat, l > 2 * w
    PROVE VolumeAnomaly(r * w, r * (l - w), w, l) = "none"
<1> DEFINE m == l - w
<1>1. m \in Nat \ {0} /\ m > w
  OBVIOUS
<1> HIDE DEF m
<1>2. Windows(w, l) = <<m, w>>
  BY <1>1 DEF Windows, m
<1>3. (r * w) * m - (r * m) * w = 0
  BY <1>1
<1>4. r * m # 0 /\ r * m > 0 /\ r * m \in Nat
  BY <1>1
<1>5. (r * m) * w \in Nat
  BY <1>4
<1>6. VolumeAnomaly(r * w, r * m, w, l) = "none"
  <2> DEFINE e == r * m
             ew == 2 * e * w
             x == (r * w) * m - e * w
  <2>1. ew \in Nat /\ x = 0 /\ e # 0
    BY <1>3, <1>4, <1>5
  <2>2. ~(x * 5 > ew) /\ ~(-x * 5 > ew)
    BY <2>1
  <2> QED BY <1>2, <2>1, <2>2 DEF VolumeAnomaly
<1> QED BY <1>6 DEF m

\* detect_volume_anomaly, for any window and lookback: where there were events before, a window
\* without any is a drop, and where there were none nothing is an anomaly.
THEOREM SilenceIsFound ==
    ASSUME NEW e \in Nat, NEW w \in Nat \ {0}, NEW l \in Nat
    PROVE VolumeAnomaly(0, e, w, l) = IF e = 0 THEN "none" ELSE "drop"
<1>1. PICK a \in Nat \ {0}, b \in Nat \ {0} : Windows(w, l) = <<a, b>>
  BY DEF Windows
<1> DEFINE expected == e * b
<1>2. expected \in Nat /\ (e # 0 => expected > 0) /\ 2 * e * b = 2 * expected /\ 0 * a = 0
  BY <1>1
<1>3. VolumeAnomaly(0, e, w, l) =
        IF e = 0 THEN "none"
        ELSE IF (0 - expected) * 5 > 2 * expected THEN "spike"
        ELSE IF -(0 - expected) * 5 > 2 * expected THEN "drop" ELSE "none"
  BY <1>1, <1>2 DEF VolumeAnomaly
<1> HIDE DEF expected
<1> QED BY <1>2, <1>3

\* _severity_from_deviation, for any baseline and any readings: of two readings on one side of the
\* mean, the farther is beyond every threshold the nearer is beyond.
THEOREM FartherIsNotLessSevere ==
    ASSUME NEW p, p.count \in Nat \ {0}, p.sum \in Int, p.squares \in Int,
           NEW v \in Int, NEW w \in Int,
           (p.count * v >= p.sum /\ w >= v) \/ (p.count * v <= p.sum /\ w <= v),
           NEW halves \in Nat, Beyond(halves, v, p)
    PROVE Beyond(halves, w, p)
<1> DEFINE n == p.count
           near == n * v - p.sum
           far == n * w - p.sum
           bound == halves * halves * n * Spread(p)
<1>1. n \in Nat \ {0} /\ near \in Int /\ far \in Int /\ bound \in Int
  BY DEF Spread
<1>2. (0 <= near /\ near <= far) \/ (far <= near /\ near <= 0)
  <2>1. CASE n * v >= p.sum /\ w >= v
    <3>1. n * w >= n * v BY <2>1, <1>1, MultiplyOrder
    <3> QED BY <3>1, <2>1, <1>1
  <2>2. CASE n * v <= p.sum /\ w <= v
    <3>1. n * w <= n * v BY <2>2, <1>1, MultiplyOrder
    <3> QED BY <3>1, <2>2, <1>1
  <2> QED BY <2>1, <2>2
<1>3. Beyond(halves, v, p) <=> 4 * near * near * (n - 1) > bound
  BY DEF Beyond
<1>4. Beyond(halves, w, p) <=> 4 * far * far * (n - 1) > bound
  BY DEF Beyond
<1> HIDE DEF n, near, far, bound
<1>5. near * near <= far * far
  BY <1>1, <1>2, SquareOrder
<1>6. 4 * near * near * (n - 1) <= 4 * far * far * (n - 1)
  <2>1. near * near \in Int /\ far * far \in Int /\ n - 1 \in Nat
    BY <1>1
  <2>2. 4 * near * near \in Int /\ 4 * far * far \in Int /\ 4 * near * near <= 4 * far * far
    BY <1>1, <1>5, <2>1
  <2> QED BY <2>1, <2>2, MultiplyOrder
<1> QED BY <1>1, <1>3, <1>4, <1>6

\* The inequality of Cauchy and Schwarz, for one number more.
LEMMA SquareStep ==
    ASSUME NEW n \in Nat, NEW q \in Nat, NEW s \in Int, NEW x \in Int, s * s <= n * q
    PROVE  (s + x) * (s + x) <= (n + 1) * (q + x * x)
<1>1. CASE n = 0
  <2>1. s * s <= 0
    BY <1>1
  <2>2. s = 0
    BY <2>1
  <2>3. (s + x) * (s + x) = x * x /\ (n + 1) * (q + x * x) = q + x * x
    BY <1>1, <2>2
  <2> QED
    BY <2>3
<1>2. CASE n > 0
  <2> DEFINE d == n * x - s
             e == q + n * x * x - 2 * s * x
  <2>1. d \in Int /\ e \in Int
    OBVIOUS
  <2>2. d * d >= 0
    BY <2>1
  <2>3. d * d = n * n * x * x - 2 * n * s * x + s * s
    OBVIOUS
  <2>4. n * e = n * q + n * n * x * x - 2 * n * s * x
    OBVIOUS
  <2>5. n * e >= 0
    BY <2>2, <2>3, <2>4
  <2>6. e >= 0
    <3> HIDE DEF e
    <3> QED
      BY <1>2, <2>1, <2>5
  <2>7. (n + 1) * (q + x * x) = n * q + n * x * x + q + x * x
    OBVIOUS
  <2>8. (s + x) * (s + x) = s * s + 2 * s * x + x * x
    OBVIOUS
  <2>9. (n + 1) * (q + x * x) - (s + x) * (s + x) = (n * q - s * s) + e
    BY <2>7, <2>8
  <2> QED
    BY <2>1, <2>6, <2>9
<1> QED
  BY <1>1, <1>2

\* The squares of a list of numbers.
AreSquares(f, g) ==
    /\ f \in Seq(Int) /\ g \in Seq(Int) /\ Len(g) = Len(f)
    /\ \A i \in 1 .. Len(f) : g[i] = f[i] * f[i]

\* The inequality of Cauchy and Schwarz for a list without one of its numbers.
LEMMA OthersSpread ==
    ASSUME NEW f, NEW g, AreSquares(f, g), NEW k \in 1 .. Len(f)
    PROVE  /\ (Sum(f) - f[k]) * (Sum(f) - f[k]) <= (Len(f) - 1) * (Sum(g) - f[k] * f[k])
           /\ Sum(g) - f[k] * f[k] \in Nat
<1> DEFINE n == Len(f)
<1>0. n \in Nat /\ f \in Seq(Int) /\ g \in Seq(Int) /\ Len(g) = n /\ \A i \in 1 .. n : g[i] = f[i] * f[i]
  BY DEF AreSquares
<1>1. PICK a : Running(f, a) /\ Sum(f) = a[n]
  BY <1>0, SumRuns
<1>2. PICK b : Running(g, b) /\ Sum(g) = b[n]
  BY <1>0, SumRuns
<1>3. /\ a \in [0 .. n -> Int] /\ a[0] = 0 /\ \A m \in 1 .. n : a[m] = a[m - 1] + f[m]
      /\ b \in [0 .. n -> Int] /\ b[0] = 0 /\ \A m \in 1 .. n : b[m] = b[m - 1] + g[m]
  BY <1>0, <1>1, <1>2 DEF Running
<1>4. \A i \in 1 .. n : f[i] \in Int
  BY <1>0
<1> HIDE DEF n
<1>5. PICK v \in Int : v = f[k]
  BY <1>4 DEF n
<1> DEFINE G == {m \in 0 .. n : IF m < k THEN b[m] \in Nat /\ a[m] * a[m] <= m * b[m]
                                ELSE b[m] - v * v \in Nat /\ (a[m] - v) * (a[m] - v) <= (m - 1) * (b[m] - v * v)}
<1>6. k \in 1 .. n
  BY DEF n
<1>7. 0 \in G
  <2>1. 0 \in 0 .. n /\ 0 < k /\ b[0] \in Nat /\ a[0] * a[0] = 0 /\ 0 * b[0] = 0
    BY <1>0, <1>3, <1>6
  <2> QED
    BY <2>1
<1>8. ASSUME NEW m \in 1 .. n, m - 1 \in G PROVE m \in G
  <2>1. m - 1 \in 0 .. n /\ m \in 0 .. n
    BY <1>0
  <2>2. PICK x \in Int : x = f[m]
    BY <1>4
  <2>3. PICK s \in Int : s = a[m - 1]
    BY <1>3, <2>1
  <2>4. PICK q \in Int : q = b[m - 1]
    BY <1>3, <2>1
  <2>5. a[m] = s + x /\ b[m] = q + x * x
    BY <1>0, <1>3, <2>2, <2>3, <2>4
  <2>6. x * x \in Nat
    BY <2>2
  <2>7. CASE m < k
    <3>1. q \in Nat /\ s * s <= (m - 1) * q
      BY <1>8, <1>6, <2>1, <2>7, <2>3, <2>4
    <3>2. (s + x) * (s + x) <= (m - 1 + 1) * (q + x * x)
      <4>1. m - 1 \in Nat /\ x \in Int /\ s \in Int
        BY <2>1
      <4> QED
        BY ONLY <3>1, <4>1, SquareStep
    <3>3. m - 1 + 1 = m
      OBVIOUS
    <3>4. q + x * x \in Nat
      BY <2>6, <3>1
    <3>5. b[m] \in Nat /\ a[m] * a[m] <= m * b[m]
      BY <2>5, <3>2, <3>3, <3>4
    <3> QED
      BY <2>1, <2>7, <3>5
  <2>8. CASE m = k
    <3>1. q \in Nat /\ s * s <= (m - 1) * q
      BY <1>8, <1>6, <2>1, <2>8, <2>3, <2>4
    <3>2. x = v
      BY <1>5, <2>2, <2>8
    <3>3. b[m] - v * v = q /\ a[m] - v = s
      <4>1. PICK xx \in Int : xx = x * x
        OBVIOUS
      <4>2. b[m] = q + xx /\ v * v = xx /\ a[m] = s + v
        BY <2>5, <3>2, <4>1
      <4> QED
        BY <4>2
    <3>4. b[m] - v * v \in Nat /\ (a[m] - v) * (a[m] - v) <= (m - 1) * (b[m] - v * v)
      BY <3>1, <3>3
    <3> QED
      BY <2>1, <2>8, <3>4
  <2>9. CASE m > k
    <3> DEFINE w == q - v * v
               t == s - v
    <3>1. w \in Nat /\ t * t <= (m - 2) * w
      <4>1. ~(m - 1 < k)
        BY <1>6, <2>9
      <4>2. b[m - 1] - v * v \in Nat /\ (a[m - 1] - v) * (a[m - 1] - v) <= (m - 1 - 1) * (b[m - 1] - v * v)
        BY <1>8, <4>1
      <4>3. m - 1 - 1 = m - 2
        OBVIOUS
      <4> QED
        BY <4>2, <4>3, <2>3, <2>4
    <3>2. t \in Int /\ m - 2 \in Nat /\ m - 2 + 1 = m - 1
      BY <1>6, <2>9, <2>3, <1>5
    <3> HIDE DEF w, t
    <3>3. (t + x) * (t + x) <= (m - 2 + 1) * (w + x * x)
      BY <2>2, <3>1, <3>2, SquareStep
    <3>4. b[m] - v * v = w + x * x /\ a[m] - v = t + x
      <4>1. PICK xx \in Int : xx = x * x
        OBVIOUS
      <4>2. PICK vv \in Int : vv = v * v
        OBVIOUS
      <4>3. b[m] = q + xx /\ a[m] = s + x /\ w = q - vv /\ t = s - v
        BY <2>5, <4>1, <4>2 DEF w, t
      <4>4. b[m] - vv = w + xx /\ a[m] - v = t + x
        BY <4>3
      <4> QED
        BY <4>1, <4>2, <4>4
    <3>5. w + x * x \in Nat
      BY <3>1, <2>6
    <3>6. b[m] - v * v \in Nat /\ (a[m] - v) * (a[m] - v) <= (m - 1) * (b[m] - v * v)
      BY <3>2, <3>3, <3>4, <3>5
    <3>7. ~(m < k)
      BY <1>6, <2>9
    <3> QED
      BY <2>1, <3>6, <3>7
  <2> QED
    BY <1>6, <2>7, <2>8, <2>9
<1> HIDE DEF G
<1>9. \A m \in 0 .. n : m \in G
  BY <1>0, <1>7, <1>8, UpTo
<1>10. n \in G /\ ~(n < k)
  BY <1>0, <1>6, <1>9
<1>11. (a[n] - v) * (a[n] - v) <= (n - 1) * (b[n] - v * v) /\ b[n] - v * v \in Nat
  BY <1>10 DEF G
<1> QED
  BY <1>1, <1>2, <1>5, <1>11 DEF n

\* Samuelson's inequality: how far one of n numbers can be from their mean.
LEMMA NoneIsFar ==
    ASSUME NEW n \in Nat, n > 0, NEW s \in Int, NEW q \in Int, NEW v \in Int,
           (s - v) * (s - v) <= (n - 1) * (q - v * v)
    PROVE  (n * v - s) * (n * v - s) <= (n - 1) * (n * q - s * s)
<1> DEFINE d == (n - 1) * (q - v * v) - (s - v) * (s - v)
<1>1. d \in Int /\ d >= 0
  OBVIOUS
<1>2. (n - 1) * (n * q - s * s) - (n * v - s) * (n * v - s) = n * d
  OBVIOUS
<1>3. n * d >= 0
  <2> HIDE DEF d
  <2> QED
    BY <1>1
<1> QED
  BY <1>2, <1>3

\* A baseline is the number, the sum and the sum of the squares of its figures.
LEMMA ProfileFacts ==
    ASSUME NEW f \in Seq(Int)
    PROVE  /\ Profile(f).count = Len(f) /\ Profile(f).sum = Sum(f) /\ Sum(f) \in Int
           /\ Profile(f) \in [count : Nat, sum : Int, squares : Nat]
           /\ \E g : AreSquares(f, g) /\ Profile(f).squares = Sum(g)
<1> DEFINE n == Len(f)
           g == [i \in 1 .. n |-> f[i] * f[i]]
<1>1. n \in Nat /\ DOMAIN f = 1 .. n /\ \A i \in 1 .. n : f[i] \in Int
  OBVIOUS
<1>2. \A i \in 1 .. n : f[i] * f[i] \in Nat /\ f[i] * f[i] \in Int
  <2> TAKE i \in 1 .. n
  <2>1. PICK x \in Int : x = f[i]
    BY <1>1
  <2>2. x * x \in Nat
    OBVIOUS
  <2> QED
    BY <2>1, <2>2
<1>3. g \in Seq(Nat) /\ Len(g) = n /\ \A i \in 1 .. n : g[i] = f[i] * f[i]
  BY <1>1, <1>2
<1>4. Profile(f) = [count |-> n, sum |-> Sum(f), squares |-> Sum(g)]
  BY <1>1 DEF Profile
<1> HIDE DEF g, n
<1>5. g \in Seq(Int)
  BY <1>3, WiderList
<1>6. AreSquares(f, g)
  BY <1>3, <1>5 DEF AreSquares, n
<1>7. Sum(f) \in Int /\ Sum(g) \in Nat
  BY <1>3, SumType, SumIsNatural
<1> QED
  BY <1>1, <1>4, <1>6, <1>7 DEF n

\* None of the readings a baseline was learned from is far from its mean.
LEMMA HowFarItsOwn ==
    ASSUME NEW f \in Seq(Int), NEW k \in 1 .. Len(f), NEW halves \in Nat, Beyond(halves, f[k], Profile(f))
    PROVE  halves * halves * Len(f) < 4 * (Len(f) - 1) * (Len(f) - 1)
<1>1. PICK g : AreSquares(f, g) /\ Profile(f).squares = Sum(g)
  BY ProfileFacts
<1>2. PICK n \in Nat : n = Len(f) /\ n > 0
  OBVIOUS
<1>3. PICK v \in Int : v = f[k]
  BY ItemOfList
<1>4. PICK s \in Int : s = Sum(f)
  BY ProfileFacts
<1>5. PICK q \in Nat : q = Sum(g)
  BY <1>1, ProfileFacts
<1>6. (s - v) * (s - v) <= (n - 1) * (q - v * v) /\ q - v * v \in Nat
  BY <1>1, <1>2, <1>3, <1>4, <1>5, OthersSpread
<1>7. (n * v - s) * (n * v - s) <= (n - 1) * (n * q - s * s)
  <2>1. q \in Int
    OBVIOUS
  <2> QED
    BY <1>2, <1>6, <2>1, NoneIsFar
<1> DEFINE d == n * v - s
           spread == n * q - s * s
<1>8. 4 * d * d * (n - 1) > halves * halves * n * spread
  <2>1. Profile(f).count = n /\ Profile(f).sum = s /\ Profile(f).squares = q
    BY <1>1, <1>2, <1>4, <1>5, ProfileFacts
  <2> QED
    BY <1>3, <2>1 DEF Beyond, Spread
<1>9. d \in Int /\ spread \in Int /\ d * d \in Nat
  <2>1. d \in Int /\ spread \in Int
    OBVIOUS
  <2> HIDE DEF d
  <2> QED
    BY <2>1
<1>10. spread >= 0
  <2>1. CASE n = 1
    <3>1. (s - v) * (s - v) <= 0
      BY <1>6, <2>1
    <3>2. s = v
      <4>1. PICK x \in Int : x = s - v
        OBVIOUS
      <4>2. x * x <= 0
        BY <3>1, <4>1
      <4>3. x = 0
        BY <4>2
      <4> QED
        BY <4>1, <4>3
    <3>3. spread = q - v * v
      BY <2>1, <3>2
    <3> QED
      BY <3>3, <1>6
  <2>2. CASE n > 1
    <3>1. d * d <= (n - 1) * spread
      BY <1>7
    <3> HIDE DEF d, spread
    <3>2. 0 <= (n - 1) * spread
      BY <3>1, <1>9
    <3> QED
      BY <3>2, <2>2, <1>9
  <2> QED
    BY <1>2, <2>1, <2>2
<1>11. d * d <= (n - 1) * spread
  BY <1>7
<1> HIDE DEF d, spread
<1>12. PICK c \in Nat : c = n - 1
  BY <1>2
<1>13. PICK dd \in Nat : dd = d * d
  BY <1>9
<1>14. PICK u \in Nat : u = spread
  BY <1>9, <1>10
<1>15. dd <= c * u
  BY <1>11, <1>12, <1>13, <1>14
<1>16. 4 * dd * c > halves * halves * n * u
  <2>1. 4 * d * d * c = 4 * dd * c
    BY <1>9, <1>13
  <2> QED
    BY <1>8, <1>12, <1>14, <2>1
<1>17. 4 * dd * c <= 4 * (c * u) * c
  <2>1. c * u \in Nat
    OBVIOUS
  <2>2. PICK w \in Nat : w = c * u
    BY <2>1
  <2>3. dd * c <= w * c
    BY <1>15, <2>2, MultiplyOrder
  <2> QED
    BY <2>2, <2>3
<1>18. PICK h \in Nat : h = halves * halves * n
  <2>1. halves * halves \in Nat
    OBVIOUS
  <2> QED
    BY <2>1
<1>19. 4 * (c * u) * c = (4 * c * c) * u
  OBVIOUS
<1>20. PICK z \in Nat : z = 4 * c * c
  <2>1. c * c \in Nat
    OBVIOUS
  <2> QED
    BY <2>1
<1>21. h * u < z * u
  <2>1. h * u < 4 * dd * c
    BY <1>16, <1>18
  <2>2. 4 * dd * c <= z * u
    BY <1>17, <1>19, <1>20
  <2>3. 4 * dd * c \in Nat /\ h * u \in Nat /\ z * u \in Nat
    <3>1. 4 * dd \in Nat
      OBVIOUS
    <3> QED
      BY <3>1
  <2> QED
    BY <2>1, <2>2, <2>3
<1>22. h < z
  <2>1. SUFFICES ASSUME z <= h PROVE FALSE
    OBVIOUS
  <2>2. z * u <= h * u
    BY <2>1, MultiplyOrder
  <2> QED
    BY <2>2, <1>21
<1> QED
  BY <1>2, <1>12, <1>18, <1>20, <1>22

\* A list of one number has no spread.
LEMMA OneHasNoSpread ==
    ASSUME NEW f \in Seq(Int), Len(f) = 1
    PROVE  Spread(Profile(f)) = 0
<1>1. PICK g : AreSquares(f, g) /\ Profile(f).squares = Sum(g)
  BY ProfileFacts
<1>2. PICK v \in Int : v = f[1]
  BY ItemOfList
<1>8. 1 \in Nat /\ \A i \in 1 .. 1 : f[i] = v
  BY <1>2
<1>3. Sum(f) = v * 1
  BY <1>8, SumConstant
<1>4. g \in Seq(Int) /\ Len(g) = 1 /\ \A i \in 1 .. 1 : g[i] = v * v
  BY <1>1, <1>2 DEF AreSquares
<1>5. v * v \in Int
  OBVIOUS
<1>6. Sum(g) = (v * v) * 1
  BY <1>4, <1>5, <1>8, SumConstant
<1>9. v * 1 = v /\ (v * v) * 1 = v * v
  BY <1>5
<1>7. Profile(f).count = 1 /\ Profile(f).sum = v /\ Profile(f).squares = v * v
  <2>1. Profile(f).count = Len(f) /\ Profile(f).sum = Sum(f)
    BY ProfileFacts
  <2> QED
    BY <1>1, <1>3, <1>6, <1>9, <2>1
<1> QED
  BY <1>5, <1>7 DEF Spread

\* A list that keeps some places of n has no more than n elements.
LEMMA NoneTwice ==
    ASSUME NEW n \in Nat, NEW order \in Seq(1 .. n),
           \A i, j \in DOMAIN order : i < j => order[i] < order[j]
    PROVE  Len(order) <= n
<1>1. PICK m \in Nat : m = Len(order) /\ DOMAIN order = 1 .. m
  OBVIOUS
<1>2. \A k \in 1 .. m : order[k] \in 1 .. n
  BY <1>1
<1> DEFINE G == {k \in 0 .. m : k = 0 \/ order[k] >= k}
<1>3. 0 \in G
  BY <1>1
<1>4. ASSUME NEW k \in 1 .. m, k - 1 \in G PROVE k \in G
  <2>1. CASE k = 1
    <3>1. order[k] \in 1 .. n
      BY <1>2
    <3>2. order[k] >= k /\ k \in 0 .. m
      BY <2>1, <3>1
    <3> QED
      BY <3>2
  <2>2. CASE k > 1
    <3>1. k - 1 \in 1 .. m /\ k - 1 < k /\ k \in 0 .. m /\ k - 1 # 0
      BY <2>2
    <3>2. order[k - 1] < order[k]
      BY <1>1, <3>1
    <3>3. order[k - 1] >= k - 1
      BY <1>4, <3>1
    <3>4. order[k] \in 1 .. n /\ order[k - 1] \in 1 .. n
      BY <1>2, <3>1
    <3>5. order[k] >= k
      BY <3>2, <3>3, <3>4
    <3> QED
      BY <3>1, <3>5
  <2> QED
    BY <2>1, <2>2
<1> HIDE DEF G
<1>5. \A k \in 0 .. m : k \in G
  BY <1>3, <1>4, UpTo
<1>6. m \in G
  BY <1>5
<1>7. m = 0 \/ order[m] >= m
  BY <1>6 DEF G
<1>8. CASE m = 0
  BY <1>1, <1>8
<1>9. CASE m > 0
  <2>1. order[m] \in 1 .. n
    BY <1>2, <1>9
  <2> QED
    BY <1>1, <1>7, <1>9, <2>1
<1> QED
  BY <1>8, <1>9

\* A reading: the value is one or none.
Reading == [day : Nat, value : SUBSET Values]

ReadingsOK ==
    /\ today \in 0 .. LastDay
    /\ readings \in Seq(Reading) /\ Len(readings) <= MaxReadings
    /\ \A i \in DOMAIN readings : readings[i].day <= today
    /\ \A i \in DOMAIN readings : \A v, w \in readings[i].value : v = w

\* The types of the readings and of the day.
LEMMA ReadingFacts ==
    ASSUME ReadingsOK
    PROVE  /\ today \in Nat /\ Len(readings) \in Nat /\ DOMAIN readings = 1 .. Len(readings)
           /\ \A i \in DOMAIN readings :
                 readings[i].day \in Nat /\ readings[i].day <= today /\ readings[i].value \in SUBSET Values
<1>1. readings \in Seq(Reading) /\ today \in Nat
  BY AnomaliesAssumption DEF ReadingsOK
<1>2. \A i \in DOMAIN readings : readings[i] \in Reading
  BY <1>1
<1>3. Len(readings) \in Nat /\ DOMAIN readings = 1 .. Len(readings)
  BY <1>1
<1> QED
  BY <1>1, <1>2, <1>3 DEF ReadingsOK, Reading

\* The figures of a baseline are those that were read since.
LEMMA FiguresFacts ==
    ASSUME ReadingsOK, NEW since \in Int
    PROVE  /\ Figures(since) \in Seq(Values) /\ Len(Figures(since)) <= MaxReadings
           /\ \A i \in DOMAIN readings : readings[i].day >= since =>
                 \A v \in readings[i].value : \E k \in 1 .. Len(Figures(since)) : Figures(since)[k] = v
<1> DEFINE n == Len(readings)
           places == {i \in DOMAIN readings : readings[i].day >= since /\ readings[i].value # {}}
           counted == Kept(readings, places)
<1>1. /\ n \in Nat /\ DOMAIN readings = 1 .. n /\ n <= MaxReadings /\ MaxReadings \in Nat
      /\ \A i \in 1 .. n : readings[i].day \in Nat /\ readings[i].value \in SUBSET Values
  BY ReadingFacts, AnomaliesAssumption DEF ReadingsOK
<1>2. readings \in Seq(Reading)
  BY DEF ReadingsOK
<1>3. places \subseteq 1 .. n /\ \A i \in places : readings[i].day >= since /\ readings[i].value # {}
  BY <1>1
<1>4. ASSUME NEW i \in DOMAIN readings, readings[i].day >= since, NEW v \in readings[i].value PROVE i \in places
  BY <1>4
<1>10. Figures(since) = [i \in DOMAIN counted |-> CHOOSE v \in counted[i].value : TRUE]
  BY DEF Figures
<1> HIDE DEF places, n
<1>5. counted \in Seq(Reading)
  BY <1>2, KeptOrder
<1>6. PICK order : KeepsAt(readings, places, order)
  BY <1>2, KeptOrder
<1>7. /\ order \in Seq((1 .. n) \cap places) /\ Range(order) = (1 .. n) \cap places
      /\ \A i, j \in DOMAIN order : i < j => order[i] < order[j]
      /\ Len(counted) = Len(order)
      /\ \A k \in 1 .. Len(order) : order[k] \in 1 .. n /\ counted[k] = readings[order[k]]
  BY <1>6 DEF KeepsAt, n
<1> HIDE DEF counted
<1>8. order \in Seq(1 .. n)
  BY <1>7, WiderList
<1>9. PICK m \in Nat : m = Len(order) /\ DOMAIN order = 1 .. m
  BY <1>8
<1>11. m <= n
  BY <1>1, <1>7, <1>8, <1>9, NoneTwice
<1>12. \A k \in 1 .. m : order[k] \in places
  BY <1>7, <1>9
<1>13. DOMAIN counted = 1 .. m
  BY <1>5, <1>7, <1>9
<1> DEFINE figures == [i \in 1 .. m |-> CHOOSE v \in counted[i].value : TRUE]
<1>14. Figures(since) = figures
  BY <1>10, <1>13
<1>15. ASSUME NEW k \in 1 .. m
       PROVE  figures[k] \in Values /\ figures[k] \in readings[order[k]].value
  <2>1. counted[k] = readings[order[k]] /\ order[k] \in 1 .. n
    BY <1>7, <1>9
  <2>2. readings[order[k]].value # {}
    BY <1>3, <1>12
  <2>3. readings[order[k]].value \in SUBSET Values
    BY <1>1, <2>1
  <2>4. figures[k] = CHOOSE v \in readings[order[k]].value : TRUE
    BY <2>1
  <2>5. (CHOOSE v \in readings[order[k]].value : TRUE) \in readings[order[k]].value
    BY <2>2
  <2> HIDE DEF figures
  <2> QED
    BY <2>3, <2>4, <2>5
<1>16. figures \in Seq(Values) /\ Len(figures) = m
  BY <1>15
<1> HIDE DEF figures
<1>17. ASSUME NEW i \in DOMAIN readings, readings[i].day >= since, NEW v \in readings[i].value
       PROVE  \E k \in 1 .. m : figures[k] = v
  <2>1. i \in (1 .. n) \cap places
    BY <1>1, <1>4, <1>17
  <2>2. i \in Range(order)
    BY <1>7, <2>1
  <2>3. PICK k \in 1 .. m : order[k] = i
    BY <1>9, <2>2 DEF Range
  <2>4. figures[k] \in readings[i].value
    BY <1>15, <2>3
  <2>5. figures[k] = v
    BY <2>4 DEF ReadingsOK
  <2> QED
    BY <2>5
<1>18. Len(figures) <= MaxReadings
  BY <1>1, <1>11, <1>16
<1> QED
  BY <1>14, <1>16, <1>17, <1>18

\* What a baseline was learned from.
LearnedFrom(f) ==
    /\ f \in Seq(Values) /\ Len(f) <= MaxReadings
    /\ \A i \in 1 .. learnedTo : readings[i].day >= today - Lookback =>
          \A v \in readings[i].value : \E k \in 1 .. Len(f) : f[k] = v

BaselineOK == \A p \in baseline : \E f : LearnedFrom(f) /\ p = Profile(f)

AnomalyReport == [reading : 1 .. Len(readings), severity : {"low", "medium", "high", "critical"}]

AnomaliesInv ==
    /\ ReadingsOK
    /\ learnedTo \in 0 .. Len(readings)
    /\ BaselineOK
    /\ detecting \in BOOLEAN /\ (detecting => \A p \in baseline : Usable(p))
    /\ anomalies \subseteq AnomalyReport

\* The types of the constants.
LEMMA LookbackFacts == Lookback \in Nat /\ RecentDays \in Nat /\ Values \subseteq Int /\ MaxReadings \in Nat
BY AnomaliesAssumption

\* What is found is a reading, and far from the mean.
LEMMA FoundFacts ==
    ASSUME ReadingsOK, NEW p, NEW a \in Found(p)
    PROVE  /\ a \in AnomalyReport
           /\ \E i \in DOMAIN readings : \E v \in readings[i].value :
                 a.reading = i /\ a.severity = Severity(v, p) /\ Beyond(4, v, p)
<1>1. PICK f \in Recent \X Values :
         /\ f[2] \in readings[f[1]].value /\ Beyond(4, f[2], p)
         /\ a = [reading |-> f[1], severity |-> Severity(f[2], p)]
  BY DEF Found
<1>2. f[1] \in DOMAIN readings /\ f[1] \in 1 .. Len(readings)
  BY <1>1, ReadingFacts DEF Recent
<1>3. Severity(f[2], p) \in {"low", "medium", "high", "critical"}
  BY DEF Severity
<1> QED
  BY <1>1, <1>2, <1>3 DEF AnomalyReport

\* Before the first reading the invariant holds.
LEMMA AnomaliesStart == AnomaliesInit => AnomaliesInv
<1> SUFFICES ASSUME AnomaliesInit PROVE AnomaliesInv
  OBVIOUS
<1>1. today = 0 /\ readings = <<>> /\ baseline = {} /\ learnedTo = 0 /\ detecting = FALSE /\ anomalies = {}
  BY DEF AnomaliesInit
<1>2. DOMAIN readings = {} /\ Len(readings) = 0 /\ readings \in Seq(Reading)
  BY <1>1
<1>3. ReadingsOK
  BY <1>1, <1>2, AnomaliesAssumption DEF ReadingsOK
<1>4. BaselineOK
  BY <1>1 DEF BaselineOK
<1>5. learnedTo \in 0 .. Len(readings) /\ anomalies \subseteq AnomalyReport
  BY <1>1, <1>2
<1> QED
  BY <1>1, <1>3, <1>4, <1>5 DEF AnomaliesInv

\* A reading that comes in is of the day.
LEMMA ReadingsKept ==
    ASSUME ReadingsOK, NEW value \in {{}} \cup {{v} : v \in Values}, Reads(value)
    PROVE  /\ ReadingsOK' /\ Len(readings') = Len(readings) + 1
           /\ \A i \in DOMAIN readings : readings'[i] = readings[i]
<1> DEFINE r == [day |-> today, value |-> value]
           n == Len(readings)
<1>1. n < MaxReadings /\ readings' = Append(readings, r) /\ today' = today
  BY DEF Reads
<1>2. /\ n \in Nat /\ DOMAIN readings = 1 .. n /\ today \in Nat /\ MaxReadings \in Nat
  BY ReadingFacts, AnomaliesAssumption
<1>3. r \in Reading /\ r.day = today /\ (\A v, w \in r.value : v = w)
  BY <1>2 DEF Reading
<1>4. /\ readings \in Seq(Reading) /\ today \in 0 .. LastDay
      /\ \A i \in DOMAIN readings : readings[i].day <= today
      /\ \A i \in DOMAIN readings : \A v, w \in readings[i].value : v = w
  BY DEF ReadingsOK
<1> HIDE DEF r
<1>5. /\ readings' \in Seq(Reading) /\ Len(readings') = n + 1 /\ DOMAIN readings' = 1 .. n + 1
      /\ readings'[n + 1] = r /\ \A i \in 1 .. n : readings'[i] = readings[i]
  BY <1>1, <1>3, <1>4
<1> HIDE DEF n
<1>6. ASSUME NEW i \in DOMAIN readings'
      PROVE  readings'[i].day <= today /\ \A v, w \in readings'[i].value : v = w
  <2>1. i \in 1 .. n \/ i = n + 1
    BY <1>2, <1>5
  <2>2. CASE i \in 1 .. n
    BY <1>2, <1>4, <1>5, <2>2
  <2>3. CASE i = n + 1
    BY <1>2, <1>3, <1>5, <2>3
  <2> QED
    BY <2>1, <2>2, <2>3
<1>7. Len(readings') <= MaxReadings
  BY <1>1, <1>2, <1>5
<1>8. ReadingsOK'
  BY <1>1, <1>4, <1>5, <1>6, <1>7 DEF ReadingsOK
<1> QED
  BY <1>2, <1>5, <1>8 DEF n

\* The baseline that is learned is of what was read.
LEMMA BaselineLearned ==
    ASSUME ReadingsOK, Learns, UNCHANGED <<today, readings>>
    PROVE  BaselineOK' /\ learnedTo' \in 0 .. Len(readings)
<1> DEFINE since == today - Lookback
<1>1. baseline' = {Profile(Figures(since))} /\ learnedTo' = Len(readings)
  BY DEF Learns
<1>2. since \in Int /\ Len(readings) \in Nat /\ DOMAIN readings = 1 .. Len(readings)
  BY ReadingFacts, LookbackFacts
<1> HIDE DEF since
<1>3. PICK f : f = Figures(since)
  OBVIOUS
<1>4. /\ f \in Seq(Values) /\ Len(f) <= MaxReadings
      /\ \A i \in DOMAIN readings : readings[i].day >= since =>
            \A v \in readings[i].value : \E k \in 1 .. Len(f) : f[k] = v
  BY <1>2, <1>3, FiguresFacts
<1>5. LearnedFrom(f)'
  BY <1>1, <1>2, <1>4 DEF LearnedFrom, since
<1>6. Profile(f)' = Profile(f)
  BY DEF Profile
<1>7. BaselineOK'
  BY <1>1, <1>3, <1>5, <1>6 DEF BaselineOK
<1> QED
  BY <1>1, <1>2, <1>7

\* It stays one as the days pass and as more is read.
LEMMA BaselineKept ==
    ASSUME ReadingsOK, BaselineOK, learnedTo \in 0 .. Len(readings), UNCHANGED <<baseline, learnedTo>>,
           today' \in Nat, today' >= today, \A i \in DOMAIN readings : readings'[i] = readings[i]
    PROVE  BaselineOK'
<1>1. /\ today \in Nat /\ Len(readings) \in Nat /\ DOMAIN readings = 1 .. Len(readings) /\ Lookback \in Nat
      /\ \A i \in DOMAIN readings : readings[i].day \in Nat
  BY ReadingFacts, LookbackFacts
<1>2. ASSUME NEW f, LearnedFrom(f) PROVE LearnedFrom(f)'
  <2>1. ASSUME NEW i \in 1 .. learnedTo, readings'[i].day >= today' - Lookback, NEW v \in readings'[i].value
        PROVE  \E k \in 1 .. Len(f) : f[k] = v
    <3>1. i \in DOMAIN readings /\ readings'[i] = readings[i]
      BY <1>1
    <3>2. readings[i].day >= today - Lookback
      BY <1>1, <2>1, <3>1
    <3> QED
      BY <1>2, <3>1, <3>2 DEF LearnedFrom
  <2> QED
    BY <1>2, <2>1 DEF LearnedFrom
<1>3. \A f : Profile(f)' = Profile(f)
  BY DEF Profile
<1> QED
  BY <1>2, <1>3 DEF BaselineOK

\* Every step of the detector keeps the invariant.
LEMMA AnomaliesStep == AnomaliesInv /\ [AnomaliesNext]_anomaliesVars => AnomaliesInv'
<1> SUFFICES ASSUME AnomaliesInv, [AnomaliesNext]_anomaliesVars PROVE AnomaliesInv'
  OBVIOUS
<1>0. /\ ReadingsOK /\ learnedTo \in 0 .. Len(readings) /\ BaselineOK /\ detecting \in BOOLEAN
      /\ (detecting => \A p \in baseline : Usable(p)) /\ anomalies \subseteq AnomalyReport
  BY DEF AnomaliesInv
<1>7. /\ today \in Nat /\ Len(readings) \in Nat /\ DOMAIN readings = 1 .. Len(readings)
  BY <1>0, ReadingFacts
<1>8. \A p : Usable(p)' <=> Usable(p)
  BY DEF Usable, Spread
<1>9. ASSUME UNCHANGED readings PROVE AnomalyReport' = AnomalyReport
  BY <1>9 DEF AnomalyReport
<1>1. ASSUME NEW value \in {{}} \cup {{v} : v \in Values}, Reads(value) PROVE AnomaliesInv'
  <2>1. UNCHANGED <<today, baseline, learnedTo, detecting, anomalies>>
    BY <1>1 DEF Reads
  <2>2. ReadingsOK' /\ Len(readings') = Len(readings) + 1 /\ \A i \in DOMAIN readings : readings'[i] = readings[i]
    BY <1>0, <1>1, ReadingsKept
  <2>3. BaselineOK'
    BY <1>0, <1>7, <2>1, <2>2, BaselineKept
  <2>4. learnedTo' \in 0 .. Len(readings')
    BY <1>0, <1>7, <2>1, <2>2
  <2>5. 1 .. Len(readings) \subseteq 1 .. Len(readings')
    BY <1>7, <2>2
  <2>6. anomalies' \subseteq AnomalyReport'
    BY <1>0, <2>1, <2>5 DEF AnomalyReport
  <2> QED
    BY <1>0, <1>8, <2>1, <2>2, <2>3, <2>4, <2>6 DEF AnomaliesInv
<1>2. ASSUME DayPasses PROVE AnomaliesInv'
  <2>1. today < LastDay /\ today' = today + 1 /\ UNCHANGED <<readings, baseline, learnedTo, detecting, anomalies>>
    BY <1>2 DEF DayPasses
  <2>2. LastDay \in Nat
    BY AnomaliesAssumption
  <2>3. /\ readings \in Seq(Reading) /\ Len(readings) <= MaxReadings
        /\ \A i \in DOMAIN readings : \A v, w \in readings[i].value : v = w
    BY <1>0 DEF ReadingsOK
  <2>4. \A i \in DOMAIN readings : readings[i].day <= today'
    BY <1>0, <1>7, <2>1, ReadingFacts
  <2>5. today' \in 0 .. LastDay
    BY <1>7, <2>1, <2>2
  <2>6. ReadingsOK'
    BY <2>1, <2>3, <2>4, <2>5 DEF ReadingsOK
  <2>7. BaselineOK'
    <3>1. today' \in Nat /\ today' >= today
      BY <1>7, <2>1
    <3> QED
      BY <1>0, <2>1, <3>1, BaselineKept
  <2> QED
    BY <1>0, <1>8, <1>9, <2>1, <2>6, <2>7 DEF AnomaliesInv
<1>3. ASSUME LearnBaseline PROVE AnomaliesInv'
  <2>1. ~detecting /\ Learns /\ UNCHANGED <<today, readings, detecting, anomalies>>
    BY <1>3 DEF LearnBaseline
  <2>2. BaselineOK' /\ learnedTo' \in 0 .. Len(readings)
    BY <1>0, <2>1, BaselineLearned
  <2>3. ReadingsOK'
    BY <1>0, <2>1 DEF ReadingsOK
  <2> QED
    BY <1>0, <1>9, <2>1, <2>2, <2>3 DEF AnomaliesInv
<1>4. ASSUME DetectAnomalies PROVE AnomaliesInv'
  <2>1. /\ UNCHANGED <<today, readings>>
        /\ \/ Learns
           \/ UNCHANGED <<baseline, learnedTo>>
    BY <1>4 DEF DetectAnomalies
  <2>2. BaselineOK' /\ learnedTo' \in 0 .. Len(readings)
    <3>1. CASE Learns
      BY <1>0, <2>1, <3>1, BaselineLearned
    <3>2. CASE UNCHANGED <<baseline, learnedTo>>
      <4>1. today' \in Nat /\ today' >= today
        BY <1>7, <2>1
      <4> QED
        BY <1>0, <2>1, <3>2, <4>1, BaselineKept
    <3> QED
      BY <2>1, <3>1, <3>2
  <2>3. ReadingsOK'
    BY <1>0, <2>1 DEF ReadingsOK
  <2>4. /\ detecting' = ~(\E p \in baseline' : ~Usable(p))
        /\ anomalies' = {} \/ anomalies' = anomalies
    BY <1>4 DEF DetectAnomalies
  <2>5. detecting' \in BOOLEAN /\ (detecting' => \A p \in baseline' : Usable(p)')
    BY <1>8, <2>4
  <2> QED
    BY <1>0, <1>9, <2>1, <2>2, <2>3, <2>4, <2>5 DEF AnomaliesInv
<1>5. ASSUME DetectReturns PROVE AnomaliesInv'
  <2>1. /\ detecting' = FALSE /\ anomalies' = UNION {Found(p) : p \in baseline}
        /\ UNCHANGED <<today, readings, baseline, learnedTo>>
    BY <1>5 DEF DetectReturns
  <2>2. anomalies' \subseteq AnomalyReport
    BY <1>0, <2>1, FoundFacts
  <2>3. ReadingsOK'
    BY <1>0, <2>1 DEF ReadingsOK
  <2>4. BaselineOK'
    <3>1. today' \in Nat /\ today' >= today
      BY <1>7, <2>1
    <3> QED
      BY <1>0, <2>1, <3>1, BaselineKept
  <2> QED
    BY <1>0, <1>9, <2>1, <2>2, <2>3, <2>4 DEF AnomaliesInv
<1>6. CASE UNCHANGED anomaliesVars
  <2>1. UNCHANGED <<today, readings, baseline, learnedTo, detecting, anomalies>>
    BY <1>6 DEF anomaliesVars
  <2>2. ReadingsOK'
    BY <1>0, <2>1 DEF ReadingsOK
  <2>3. BaselineOK'
    <3>1. today' \in Nat /\ today' >= today
      BY <1>7, <2>1
    <3> QED
      BY <1>0, <2>1, <3>1, BaselineKept
  <2> QED
    BY <1>0, <1>8, <1>9, <2>1, <2>2, <2>3 DEF AnomaliesInv
<1> QED
  BY <1>1, <1>2, <1>3, <1>4, <1>5, <1>6 DEF AnomaliesNext

\* What the profile of a baseline is.
LEMMA BaselineFacts ==
    ASSUME NEW f, LearnedFrom(f)
    PROVE  /\ f \in Seq(Int) /\ Profile(f) \in [count : 0 .. MaxReadings, sum : Int, squares : Nat]
           /\ Profile(f).count = Len(f)
<1>1. f \in Seq(Values) /\ Len(f) <= MaxReadings /\ Values \subseteq Int /\ MaxReadings \in Nat
  BY LookbackFacts DEF LearnedFrom
<1>2. f \in Seq(Int)
  BY <1>1, WiderList
<1>3. Profile(f) \in [count : Nat, sum : Int, squares : Nat] /\ Profile(f).count = Len(f)
  BY <1>2, ProfileFacts
<1> QED
  BY <1>1, <1>2, <1>3

\* A value learned from is not far from its baseline, for want of figures.
LEMMA HidesItsOwn == AnomaliesInv => BaselineHidesItsOwn
<1> SUFFICES ASSUME AnomaliesInv, NEW p \in baseline, NEW a \in Found(p),
                    a.reading <= learnedTo, readings[a.reading].day >= today - Lookback
             PROVE  \/ p.count >= 6 /\ a.severity = "low"
                    \/ p.count >= 9 /\ a.severity = "medium"
                    \/ p.count >= 11
  BY DEF BaselineHidesItsOwn
<1>1. PICK f : LearnedFrom(f) /\ p = Profile(f)
  BY DEF AnomaliesInv, BaselineOK
<1>2. PICK i \in DOMAIN readings : \E v \in readings[i].value :
         a.reading = i /\ a.severity = Severity(v, p) /\ Beyond(4, v, p)
  BY FoundFacts DEF AnomaliesInv
<1>3. PICK v \in readings[i].value : a.reading = i /\ a.severity = Severity(v, p) /\ Beyond(4, v, p)
  BY <1>2
<1>4. i \in 1 .. learnedTo
  BY <1>3, ReadingFacts DEF AnomaliesInv
<1>5. PICK k \in 1 .. Len(f) : f[k] = v
  BY <1>1, <1>3, <1>4 DEF LearnedFrom
<1>6. f \in Seq(Int) /\ p.count = Len(f)
  BY <1>1, BaselineFacts
<1>7. PICK n \in Nat : n = Len(f) /\ n > 0
  BY <1>5, <1>6
<1>8. ASSUME NEW halves \in Nat, Beyond(halves, v, p)
      PROVE  halves * halves * n < 4 * (n - 1) * (n - 1)
  BY <1>1, <1>5, <1>6, <1>7, <1>8, HowFarItsOwn
<1>9. n >= 6
  <2>1. 4 * 4 * n < 4 * (n - 1) * (n - 1)
    BY <1>3, <1>8
  <2>2. n \in {1, 2, 3, 4, 5} \/ n >= 6
    BY <1>7
  <2> QED
    BY <2>1, <2>2
<1>10. ASSUME Beyond(5, v, p) PROVE n >= 9
  <2>1. 5 * 5 * n < 4 * (n - 1) * (n - 1)
    BY <1>8, <1>10
  <2>2. PICK c \in Nat : c = n - 1
    BY <1>7
  <2>3. c <= 7 => c * c <= 7 * c
    BY MultiplyOrder
  <2>4. 25 * n < 4 * (c * c)
    BY <2>1, <2>2
  <2> QED
    BY <2>2, <2>3, <2>4
<1>11. ASSUME NEW halves \in {6, 8}, Beyond(halves, v, p) PROVE n >= 11
  <2>1. halves * halves * n < 4 * (n - 1) * (n - 1)
    BY <1>8, <1>11
  <2>2. PICK c \in Nat : c = n - 1
    BY <1>7
  <2>3. c <= 9 => c * c <= 9 * c
    BY MultiplyOrder
  <2>4. 36 * n < 4 * (c * c)
    <3>1. CASE halves = 6
      BY <2>1, <2>2, <3>1
    <3>2. CASE halves = 8
      BY <2>1, <2>2, <3>2
    <3> QED
      BY <3>1, <3>2
  <2> QED
    BY <2>2, <2>3, <2>4
<1>12. a.severity = IF Beyond(8, v, p) THEN "critical" ELSE IF Beyond(6, v, p) THEN "high"
                    ELSE IF Beyond(5, v, p) THEN "medium" ELSE "low"
  BY <1>3 DEF Severity
<1> QED
  BY <1>6, <1>7, <1>9, <1>10, <1>11, <1>12

\* A baseline without spread finds nothing.
LEMMA BlindIsSilent == AnomaliesInv => BlindBaselineIsSilent
<1> SUFFICES ASSUME AnomaliesInv, detecting, NEW p \in baseline PROVE Usable(p) /\ p.count >= 2
  BY DEF BlindBaselineIsSilent
<1>1. Usable(p)
  BY DEF AnomaliesInv
<1>2. PICK f : LearnedFrom(f) /\ p = Profile(f)
  BY DEF AnomaliesInv, BaselineOK
<1>3. f \in Seq(Int) /\ p.count = Len(f)
  BY <1>2, BaselineFacts
<1>4. Len(f) # 1
  BY <1>1, <1>2, <1>3, OneHasNoSpread DEF Usable
<1>5. Len(f) # 0 /\ Len(f) \in Nat
  BY <1>1, <1>3 DEF Usable
<1> QED
  <2>1. PICK n \in Nat : n = Len(f)
    BY <1>5
  <2>2. n >= 2
    BY <1>4, <1>5, <2>1
  <2> QED
    BY <1>1, <1>3, <2>1, <2>2

\* A value farther out on the same side is found too, and is not less severe.
LEMMA FartherIsWorse == AnomaliesInv => SeverityFollowsDistance
<1> SUFFICES ASSUME AnomaliesInv, NEW p \in baseline, Usable(p), NEW v \in Values, NEW w \in Values,
                    (p.count * v >= p.sum /\ w >= v) \/ (p.count * v <= p.sum /\ w <= v),
                    NEW halves \in {4, 5, 6, 8}, Beyond(halves, v, p)
             PROVE  Beyond(halves, w, p)
  BY DEF SeverityFollowsDistance
<1>1. PICK f : LearnedFrom(f) /\ p = Profile(f)
  BY DEF AnomaliesInv, BaselineOK
<1>2. p \in [count : 0 .. MaxReadings, sum : Int, squares : Nat]
  BY <1>1, BaselineFacts
<1>3. p.count \in Nat \ {0} /\ p.sum \in Int /\ p.squares \in Int
  BY <1>2, LookbackFacts DEF Usable
<1>4. v \in Int /\ w \in Int /\ halves \in Nat
  BY LookbackFacts
<1> QED
  BY <1>3, <1>4, FartherIsNotLessSevere

\* What the comparison of volumes finds.
LEMMA VolumesAreSound == SteadyVolumeIsQuiet /\ SilenceIsADrop
<1>1. ASSUME NEW window \in 1 .. 12, NEW rate \in 1 .. 3, NEW lookback \in 1 .. 30, lookback > 2 * window
      PROVE  VolumeAnomaly(rate * window, rate * (lookback - window), window, lookback) = "none"
  <2>1. rate \in Nat \ {0} /\ window \in Nat \ {0} /\ lookback \in Nat
    OBVIOUS
  <2> QED
    BY <1>1, <2>1, EvenRateIsQuiet
<1>2. ASSUME NEW window \in 1 .. 12, NEW earlier \in 0 .. 5
      PROVE  VolumeAnomaly(0, earlier, window, 30) = IF earlier = 0 THEN "none" ELSE "drop"
  <2>1. earlier \in Nat /\ window \in Nat \ {0} /\ 30 \in Nat
    OBVIOUS
  <2> QED
    BY <2>1, SilenceIsFound
<1> QED
  BY <1>1, <1>2 DEF SteadyVolumeIsQuiet, SilenceIsADrop

\* What the invariant says of the anomalies.
LEMMA AnomaliesSound == AnomaliesInv => AnomaliesTypeOK /\ AnomaliesAreSound
<1> SUFFICES ASSUME AnomaliesInv PROVE AnomaliesTypeOK /\ AnomaliesAreSound
  OBVIOUS
<1>1. ReadingsOK /\ learnedTo \in 0 .. Len(readings) /\ BaselineOK /\ detecting \in BOOLEAN /\ anomalies \subseteq AnomalyReport
  BY DEF AnomaliesInv
<1>2. ASSUME NEW i \in DOMAIN readings PROVE readings[i].day \in 0 .. today /\ readings[i].value \subseteq Values
  BY <1>1, ReadingFacts
<1>3. baseline \subseteq [count : 0 .. MaxReadings, sum : Int, squares : Nat]
  <2> SUFFICES ASSUME NEW p \in baseline PROVE p \in [count : 0 .. MaxReadings, sum : Int, squares : Nat]
    OBVIOUS
  <2>1. PICK f : LearnedFrom(f) /\ p = Profile(f)
    BY <1>1 DEF BaselineOK
  <2> QED
    BY <2>1, BaselineFacts
<1>4. today \in 0 .. LastDay
  BY <1>1 DEF ReadingsOK
<1>5. AnomaliesTypeOK
  BY <1>1, <1>2, <1>3, <1>4 DEF AnomaliesTypeOK, AnomalyReport
<1> QED
  BY <1>5, HidesItsOwn, BlindIsSilent, FartherIsWorse, VolumesAreSound DEF AnomaliesAreSound

\* AnomalyDetector, for any readings in any number, any lookback and any window: whatever was
\* read, learned and looked at in whatever order, the properties of what it reports hold.
THEOREM AnomaliesFollow == AnomaliesSpec => []AnomaliesAreSound
  BY AnomaliesStart, AnomaliesStep, AnomaliesSound, PTL DEF AnomaliesSpec

------------------------------------------------------------------------------
(* Predictions. *)

\* Points from left to right.
Points == [x : Nat, y : Int]

Rightward(points) ==
    /\ points \in Seq(Points)
    /\ \A i, j \in 1 .. Len(points) : i < j => points[i].x < points[j].x

Xs(points)  == [i \in DOMAIN points |-> points[i].x]
Ys(points)  == [i \in DOMAIN points |-> points[i].y]
XYs(points) == [i \in DOMAIN points |-> points[i].x * points[i].y]
XXs(points) == [i \in DOMAIN points |-> points[i].x * points[i].x]

\* The types of points.
LEMMA PointFacts ==
    ASSUME NEW points, Rightward(points)
    PROVE  /\ Len(points) \in Nat /\ DOMAIN points = 1 .. Len(points)
           /\ \A i \in 1 .. Len(points) : points[i].x \in Nat /\ points[i].y \in Int
<1>1. points \in Seq(Points)
  BY DEF Rightward
<1>2. \A i \in 1 .. Len(points) : points[i] \in Points
  BY <1>1
<1> QED
  BY <1>1, <1>2 DEF Points

\* The coordinates of points as lists.
Coordinates(points, n) ==
    /\ n \in Nat /\ n = Len(points) /\ DOMAIN points = 1 .. n
    /\ Xs(points) \in Seq(Int) /\ Len(Xs(points)) = n /\ \A i \in 1 .. n : Xs(points)[i] = points[i].x
    /\ Ys(points) \in Seq(Int) /\ Len(Ys(points)) = n /\ \A i \in 1 .. n : Ys(points)[i] = points[i].y
    /\ XYs(points) \in Seq(Int) /\ Len(XYs(points)) = n
    /\ \A i \in 1 .. n : XYs(points)[i] = points[i].x * points[i].y
    /\ XXs(points) \in Seq(Int) /\ Len(XXs(points)) = n
    /\ \A i \in 1 .. n : XXs(points)[i] = points[i].x * points[i].x
    /\ \A i \in 1 .. n : points[i].x \in Nat /\ points[i].y \in Int

\* The coordinates of points are lists of as many numbers.
LEMMA ListFacts ==
    ASSUME NEW points, Rightward(points)
    PROVE  Coordinates(points, Len(points))
<1> DEFINE n == Len(points)
<1>1. n \in Nat /\ DOMAIN points = 1 .. n /\ \A i \in 1 .. n : points[i].x \in Nat /\ points[i].y \in Int
  BY PointFacts
<1> HIDE DEF n
<1>2. \A i \in 1 .. n : points[i].x * points[i].y \in Int /\ points[i].x * points[i].x \in Int /\ points[i].x \in Int
  <2> TAKE i \in 1 .. n
  <2>1. PICK x \in Int : x = points[i].x
    BY <1>1
  <2>2. PICK y \in Int : y = points[i].y
    BY <1>1
  <2> QED
    BY <2>1, <2>2
<1>3. Xs(points) \in Seq(Int) /\ Len(Xs(points)) = n /\ \A i \in 1 .. n : Xs(points)[i] = points[i].x
  BY <1>1, <1>2 DEF Xs
<1>4. Ys(points) \in Seq(Int) /\ Len(Ys(points)) = n /\ \A i \in 1 .. n : Ys(points)[i] = points[i].y
  BY <1>1 DEF Ys
<1>5. XYs(points) \in Seq(Int) /\ Len(XYs(points)) = n /\ \A i \in 1 .. n : XYs(points)[i] = points[i].x * points[i].y
  BY <1>1, <1>2 DEF XYs
<1>6. XXs(points) \in Seq(Int) /\ Len(XXs(points)) = n /\ \A i \in 1 .. n : XXs(points)[i] = points[i].x * points[i].x
  BY <1>1, <1>2 DEF XXs
<1> QED
  BY <1>1, <1>3, <1>4, <1>5, <1>6 DEF Coordinates, n

\* What the fit is made of.
IsFit(points, fit, sx, sy, sxy, sxx) ==
    /\ sx \in Int /\ sx = Sum(Xs(points)) /\ sy \in Int /\ sy = Sum(Ys(points))
    /\ sxy \in Int /\ sxy = Sum(XYs(points)) /\ sxx \in Int /\ sxx = Sum(XXs(points))
    /\ fit.n = Len(points) /\ fit.sx = sx /\ fit.sy = sy
    /\ fit.rise = Len(points) * sxy - sx * sy /\ fit.run = Len(points) * sxx - sx * sx
    /\ fit.n \in Nat /\ fit.rise \in Int /\ fit.run \in Int

\* The fit of points is the one of their sums.
LEMMA FitFacts ==
    ASSUME NEW points, Rightward(points)
    PROVE  \E sx, sy, sxy, sxx \in Int : IsFit(points, Fit(points), sx, sy, sxy, sxx)
<1>1. Coordinates(points, Len(points))
  BY ListFacts
<1>2. Sum(Xs(points)) \in Int /\ Sum(Ys(points)) \in Int /\ Sum(XYs(points)) \in Int /\ Sum(XXs(points)) \in Int
  BY <1>1, SumType DEF Coordinates
<1>3. Fit(points) =
         [n |-> Len(points), sx |-> Sum(Xs(points)), sy |-> Sum(Ys(points)),
          rise |-> Len(points) * Sum(XYs(points)) - Sum(Xs(points)) * Sum(Ys(points)),
          run |-> Len(points) * Sum(XXs(points)) - Sum(Xs(points)) * Sum(Xs(points))]
  BY DEF Fit, Tally, Xs, Ys, XYs, XXs
<1>4. PICK n \in Nat : n = Len(points)
  BY <1>1 DEF Coordinates
<1>5. PICK sx \in Int : sx = Sum(Xs(points))
  BY <1>2
<1>6. PICK sy \in Int : sy = Sum(Ys(points))
  BY <1>2
<1>7. PICK sxy \in Int : sxy = Sum(XYs(points))
  BY <1>2
<1>8. PICK sxx \in Int : sxx = Sum(XXs(points))
  BY <1>2
<1>9. n * sxy - sx * sy \in Int /\ n * sxx - sx * sx \in Int
  OBVIOUS
<1>10. IsFit(points, Fit(points), sx, sy, sxy, sxx)
  BY <1>3, <1>4, <1>5, <1>6, <1>7, <1>8, <1>9 DEF IsFit
<1> QED
  BY <1>10

\* Points one to the right of the other have a line: the run is not 0.
LEMMA LineHasARun ==
    ASSUME NEW points, Rightward(points), Len(points) >= 2
    PROVE  Fit(points).run > 0
<1>1. Coordinates(points, Len(points))
  BY ListFacts
<1>2. PICK n \in Nat : n = Len(points) /\ n >= 2
  BY <1>1 DEF Coordinates
<1>18. 1 \in 1 .. n /\ n \in 1 .. n /\ 1 < n
  BY <1>2
<1>3. AreSquares(Xs(points), XXs(points)) /\ Len(Xs(points)) = n
  BY <1>1, <1>2 DEF Coordinates, AreSquares
<1>4. PICK s \in Int, q \in Int : s = Sum(Xs(points)) /\ q = Sum(XXs(points)) /\ Fit(points).run = n * q - s * s
  BY <1>2, FitFacts DEF IsFit
<1>5. PICK v \in Int : v = points[1].x /\ v = Xs(points)[1]
  <2>1. points[1].x \in Nat /\ Xs(points)[1] = points[1].x
    BY <1>1, <1>2, <1>18 DEF Coordinates
  <2> QED
    BY <2>1
<1>6. PICK w \in Int : w = points[n].x /\ w = Xs(points)[n]
  <2>1. points[n].x \in Nat /\ Xs(points)[n] = points[n].x
    BY <1>1, <1>2, <1>18 DEF Coordinates
  <2> QED
    BY <2>1
<1>7. v < w
  BY <1>2, <1>18, <1>5, <1>6 DEF Rightward
<1>8. (n * v - s) * (n * v - s) <= (n - 1) * (n * q - s * s)
  <2>1. 1 \in 1 .. Len(Xs(points))
    BY <1>2, <1>3
  <2>2. (s - v) * (s - v) <= (n - 1) * (q - v * v)
    BY <1>3, <1>4, <1>5, <2>1, OthersSpread
  <2>3. n > 0
    BY <1>2
  <2> QED
    BY ONLY n \in Nat, s \in Int, q \in Int, v \in Int, <2>2, <2>3, NoneIsFar
<1>9. (n * w - s) * (n * w - s) <= (n - 1) * (n * q - s * s)
  <2>1. n \in 1 .. Len(Xs(points))
    BY <1>2, <1>3
  <2>2. (s - w) * (s - w) <= (n - 1) * (q - w * w)
    BY <1>3, <1>4, <1>6, <2>1, OthersSpread
  <2>3. n > 0
    BY <1>2
  <2> QED
    BY ONLY n \in Nat, s \in Int, q \in Int, w \in Int, <2>2, <2>3, NoneIsFar
<1>10. PICK r \in Int : r = n * q - s * s
  OBVIOUS
<1>11. PICK a \in Int : a = n * v - s
  OBVIOUS
<1>12. PICK b \in Int : b = n * w - s
  OBVIOUS
<1>13. a # 0 \/ b # 0
  <2>1. n * w - n * v = n * (w - v)
    OBVIOUS
  <2>2. n * (w - v) > 0
    BY <1>2, <1>7
  <2>3. b - a = n * w - n * v
    BY <1>11, <1>12
  <2> QED
    BY <2>1, <2>2, <2>3
<1>14. a * a <= (n - 1) * r /\ b * b <= (n - 1) * r
  BY <1>8, <1>9, <1>10, <1>11, <1>12
<1>15. (a # 0 => a * a > 0) /\ (b # 0 => b * b > 0) /\ a * a \in Int /\ b * b \in Int /\ (n - 1) * r \in Int
  OBVIOUS
<1>16. (n - 1) * r > 0
  BY <1>13, <1>14, <1>15
<1>17. r > 0
  BY <1>2, <1>16
<1> QED
  BY <1>4, <1>10, <1>17

\* The line through the first two points: d * y = e * x + c.
IsLine(points, d, e, c) ==
    /\ d \in Int /\ e \in Int /\ c \in Int /\ d > 0
    /\ \A i \in 1 .. Len(points) : d * points[i].y = e * points[i].x + c

\* Points on a line have one with integer coefficients.
LEMMA LineFound ==
    ASSUME NEW points, Rightward(points), Len(points) >= 2, OnALine(points)
    PROVE  \E d, e, c \in Int : IsLine(points, d, e, c)
<1>1. /\ Len(points) \in Nat /\ DOMAIN points = 1 .. Len(points)
      /\ \A i \in 1 .. Len(points) : points[i].x \in Nat /\ points[i].y \in Int
  BY PointFacts
<1>2. 1 \in 1 .. Len(points) /\ 2 \in 1 .. Len(points)
  BY <1>1
<1>3. PICK x1 \in Nat : x1 = points[1].x
  BY <1>1, <1>2
<1>4. PICK y1 \in Int : y1 = points[1].y
  BY <1>1, <1>2
<1>5. PICK x2 \in Nat : x2 = points[2].x
  BY <1>1, <1>2
<1>6. PICK y2 \in Int : y2 = points[2].y
  BY <1>1, <1>2
<1>7. x1 < x2
  BY <1>2, <1>3, <1>5 DEF Rightward
<1>8. PICK d \in Int : d = x2 - x1
  OBVIOUS
<1>9. PICK e \in Int : e = y2 - y1
  OBVIOUS
<1>10. PICK c \in Int : c = d * y1 - e * x1
  OBVIOUS
<1>11. ASSUME NEW i \in 1 .. Len(points) PROVE d * points[i].y = e * points[i].x + c
  <2>1. PICK x \in Int : x = points[i].x
    BY <1>1
  <2>2. PICK y \in Int : y = points[i].y
    BY <1>1
  <2>3. CASE i = 1
    <3>1. x = x1 /\ y = y1
      BY <1>3, <1>4, <2>1, <2>2, <2>3
    <3> QED
      BY <1>10, <2>1, <2>2, <3>1
  <2>4. CASE i = 2
    <3>1. x = x1 + d /\ y = y1 + e
      BY <1>5, <1>6, <1>8, <1>9, <2>1, <2>2, <2>4
    <3>2. d * (y1 + e) = e * (x1 + d) + (d * y1 - e * x1)
      OBVIOUS
    <3> QED
      BY <1>10, <2>1, <2>2, <3>1, <3>2
  <2>5. CASE i > 2
    <3>1. (y - y1) * d = e * (x - x1)
      BY <1>1, <1>3, <1>4, <1>5, <1>6, <1>8, <1>9, <2>1, <2>2, <2>5 DEF OnALine
    <3>2. d * y = e * x + (d * y1 - e * x1)
      BY <3>1
    <3> QED
      BY <1>10, <2>1, <2>2, <3>2
  <2> QED
    BY <1>1, <2>3, <2>4, <2>5
<1>12. d > 0
  BY <1>7, <1>8
<1>13. IsLine(points, d, e, c)
  BY <1>11, <1>12 DEF IsLine
<1> QED
  BY <1>13

\* The fit of points on a line is the line.
LEMMA FitOnLine ==
    ASSUME NEW points, Rightward(points), NEW d, NEW e, NEW c, IsLine(points, d, e, c)
    PROVE  /\ d * Fit(points).rise = e * Fit(points).run
           /\ d * Fit(points).sy = e * Fit(points).sx + c * Fit(points).n
<1>1. Coordinates(points, Len(points))
  BY ListFacts
<1>2. PICK sx, sy, sxy, sxx \in Int : IsFit(points, Fit(points), sx, sy, sxy, sxx)
  BY FitFacts
<1>3. PICK n \in Nat : n = Len(points)
  BY <1>1 DEF Coordinates
<1>4. d \in Int /\ e \in Int /\ c \in Int /\ \A i \in 1 .. n : d * points[i].y = e * points[i].x + c
  BY <1>3 DEF IsLine
<1>5. \A i \in 1 .. n : points[i].x \in Nat /\ points[i].y \in Int
  BY <1>1, <1>3 DEF Coordinates
<1> DEFINE ones == [i \in 1 .. n |-> 1]
           dy == [i \in 1 .. n |-> d * points[i].y]
           dxy == [i \in 1 .. n |-> d * (points[i].x * points[i].y)]
<1>6. ones \in Seq(Int) /\ Len(ones) = n /\ \A i \in 1 .. n : ones[i] = 1
  OBVIOUS
<1>7. \A i \in 1 .. n : d * points[i].y \in Int /\ d * (points[i].x * points[i].y) \in Int
  <2> TAKE i \in 1 .. n
  <2>1. PICK x \in Int : x = points[i].x
    BY <1>5
  <2>2. PICK y \in Int : y = points[i].y
    BY <1>5
  <2>3. d * y \in Int /\ d * (x * y) \in Int
    BY <1>4
  <2> QED
    BY <2>1, <2>2, <2>3
<1>8. dy \in Seq(Int) /\ Len(dy) = n /\ \A i \in 1 .. n : dy[i] = d * points[i].y
  BY <1>7
<1>9. dxy \in Seq(Int) /\ Len(dxy) = n /\ \A i \in 1 .. n : dxy[i] = d * (points[i].x * points[i].y)
  BY <1>7
<1> HIDE DEF ones, dy, dxy
<1>10. Sum(ones) = n
  <2>1. Sum(ones) = 1 * n
    BY <1>6, SumConstant
  <2> QED
    BY <2>1
<1>11. Combines(n, Ys(points), Ys(points), dy, d, 0)
  <2>1. ASSUME NEW i \in 1 .. n PROVE dy[i] = d * Ys(points)[i] + 0 * Ys(points)[i]
    <3>1. PICK y \in Int : y = points[i].y
      BY <1>5
    <3>2. Ys(points)[i] = y /\ dy[i] = d * y
      BY <1>1, <1>3, <1>8, <3>1 DEF Coordinates
    <3>3. d * y = d * y + 0 * y
      BY <1>4
    <3> QED
      BY <3>2, <3>3
  <2> QED
    BY <1>1, <1>3, <1>4, <1>8, <2>1 DEF Combines, Coordinates
<1>12. Combines(n, Xs(points), ones, dy, e, c)
  <2>1. ASSUME NEW i \in 1 .. n PROVE dy[i] = e * Xs(points)[i] + c * ones[i]
    <3>1. PICK x \in Int : x = points[i].x
      BY <1>5
    <3>2. Xs(points)[i] = x /\ dy[i] = e * x + c /\ ones[i] = 1
      BY <1>1, <1>3, <1>4, <1>6, <1>8, <3>1 DEF Coordinates
    <3>3. c * 1 = c
      BY <1>4
    <3> QED
      BY <3>2, <3>3
  <2> QED
    BY <1>1, <1>3, <1>4, <1>6, <1>8, <2>1 DEF Combines, Coordinates
<1>13. Combines(n, XYs(points), XYs(points), dxy, d, 0)
  <2>1. ASSUME NEW i \in 1 .. n PROVE dxy[i] = d * XYs(points)[i] + 0 * XYs(points)[i]
    <3>1. PICK x \in Int : x = points[i].x
      BY <1>5
    <3>2. PICK y \in Int : y = points[i].y
      BY <1>5
    <3>3. PICK z \in Int : z = x * y
      OBVIOUS
    <3>4. XYs(points)[i] = z /\ dxy[i] = d * z
      BY <1>1, <1>3, <1>9, <3>1, <3>2, <3>3 DEF Coordinates
    <3>5. d * z = d * z + 0 * z
      BY <1>4
    <3> QED
      BY <3>4, <3>5
  <2> QED
    BY <1>1, <1>3, <1>4, <1>9, <2>1 DEF Combines, Coordinates
<1>14. Combines(n, XXs(points), Xs(points), dxy, e, c)
  <2>1. ASSUME NEW i \in 1 .. n PROVE dxy[i] = e * XXs(points)[i] + c * Xs(points)[i]
    <3>1. PICK x \in Int : x = points[i].x
      BY <1>5
    <3>2. PICK y \in Int : y = points[i].y
      BY <1>5
    <3>3. XXs(points)[i] = x * x /\ Xs(points)[i] = x /\ dxy[i] = d * (x * y) /\ d * y = e * x + c
      BY <1>1, <1>3, <1>4, <1>9, <3>1, <3>2 DEF Coordinates
    <3>4. d * (x * y) = x * (d * y)
      BY <1>4
    <3>5. x * (e * x + c) = e * (x * x) + c * x
      BY <1>4
    <3> QED
      BY <3>3, <3>4, <3>5
  <2> QED
    BY <1>1, <1>3, <1>4, <1>9, <2>1 DEF Combines, Coordinates
<1>15. d * sy + 0 * sy = e * sx + c * n
  <2>1. Sum(dy) = d * Sum(Ys(points)) + 0 * Sum(Ys(points))
    BY <1>11, SumLinear
  <2>2. Sum(dy) = e * Sum(Xs(points)) + c * Sum(ones)
    BY <1>12, SumLinear
  <2> QED
    BY <1>2, <1>10, <2>1, <2>2 DEF IsFit
<1>16. d * sxy + 0 * sxy = e * sxx + c * sx
  <2>1. Sum(dxy) = d * Sum(XYs(points)) + 0 * Sum(XYs(points))
    BY <1>13, SumLinear
  <2>2. Sum(dxy) = e * Sum(XXs(points)) + c * Sum(Xs(points))
    BY <1>14, SumLinear
  <2> QED
    BY <1>2, <2>1, <2>2 DEF IsFit
<1>17. d * sy = e * sx + c * n
  BY <1>4, <1>15
<1>18. d * sxy = e * sxx + c * sx
  BY <1>4, <1>16
<1>19. d * (n * sxy - sx * sy) = e * (n * sxx - sx * sx)
  <2>1. d * (n * sxy - sx * sy) = n * (d * sxy) - sx * (d * sy)
    BY <1>4
  <2>2. n * (e * sxx + c * sx) - sx * (e * sx + c * n) = e * (n * sxx - sx * sx)
    BY <1>4
  <2> QED
    BY <1>17, <1>18, <2>1, <2>2
<1> QED
  BY <1>2, <1>3, <1>17, <1>19 DEF IsFit

\* So are its values.
IsLevel(fit, d, e, c, x) ==
    /\ Level(fit, x) \in Int
    /\ d * Level(fit, x) = (fit.n * fit.run) * (e * x + c)

\* The fit of points on a line passes where the line does.
LEMMA LevelOnLine ==
    ASSUME NEW points, Rightward(points), NEW d \in Int, NEW e \in Int, NEW c \in Int, IsLine(points, d, e, c), NEW x \in Int
    PROVE  IsLevel(Fit(points), d, e, c, x)
<1>1. PICK sx, sy, sxy, sxx \in Int : IsFit(points, Fit(points), sx, sy, sxy, sxx)
  BY FitFacts
<1>2. PICK n \in Nat : n = Fit(points).n
  BY <1>1 DEF IsFit
<1>3. PICK rise \in Int : rise = Fit(points).rise
  BY <1>1 DEF IsFit
<1>4. PICK run \in Int : run = Fit(points).run
  BY <1>1 DEF IsFit
<1>5. Fit(points).sx = sx /\ Fit(points).sy = sy
  BY <1>1 DEF IsFit
<1>6. d \in Int /\ e \in Int /\ c \in Int
  BY DEF IsLine
<1>7. d * rise = e * run /\ d * sy = e * sx + c * n
  BY <1>2, <1>3, <1>4, <1>5, FitOnLine
<1>8. Level(Fit(points), x) = sy * run + rise * (n * x - sx)
  BY <1>2, <1>3, <1>4, <1>5 DEF Level
<1>9. d * (sy * run + rise * (n * x - sx)) = (d * sy) * run + (d * rise) * (n * x - sx)
  BY <1>6
<1>10. (e * sx + c * n) * run + (e * run) * (n * x - sx) = (n * run) * (e * x + c)
  BY <1>6
<1> QED
  BY <1>2, <1>4, <1>7, <1>8, <1>9, <1>10 DEF IsLevel

\* A factor above 0 cancels from a comparison.
LEMMA Cancels ==
    ASSUME NEW k \in Int, k > 0, NEW a \in Int, NEW b \in Int
    PROVE  (k * a > k * b <=> a > b) /\ (k * a < k * b <=> a < b)
<1>1. (a > b => k * a > k * b) /\ (a < b => k * a < k * b)
  OBVIOUS
<1>2. (a <= b => k * a <= k * b) /\ (a >= b => k * a >= k * b)
  <2>1. k \in Nat /\ (a <= b => a * k <= b * k) /\ (b <= a => b * k <= a * k)
    BY MultiplyOrder
  <2> QED
    BY <2>1
<1>3. k * a \in Int /\ k * b \in Int
  OBVIOUS
<1> QED
  BY <1>1, <1>2, <1>3

\* a and b, d times as much, are u and v, k times as much.
Scaled(d, k, a, b, u, v) ==
    /\ d \in Int /\ d > 0 /\ k \in Int /\ k > 0
    /\ a \in Int /\ b \in Int /\ u \in Int /\ v \in Int
    /\ d * a = k * u /\ d * b = k * v

SameSides(a, b, u, v) == (a > b <=> u > v) /\ (a < b <=> u < v)

\* Figures that are the same multiples of others compare as they do.
LEMMA SameOrder ==
    ASSUME NEW d, NEW k, NEW a, NEW b, NEW u, NEW v, Scaled(d, k, a, b, u, v)
    PROVE  SameSides(a, b, u, v)
<1>3. /\ d \in Int /\ d > 0 /\ k \in Int /\ k > 0
      /\ a \in Int /\ b \in Int /\ u \in Int /\ v \in Int
      /\ d * a = k * u /\ d * b = k * v
  BY DEF Scaled
<1>1. (d * a > d * b <=> a > b) /\ (d * a < d * b <=> a < b)
  BY <1>3, Cancels
<1>2. (k * u > k * v <=> u > v) /\ (k * u < k * v <=> u < v)
  BY <1>3, Cancels
<1> QED
  BY <1>1, <1>2, <1>3 DEF SameSides

\* The ends of a line: the last point and how far it is from the first.
EndsOf(points, d, e, c, x, y, rise, span) ==
    /\ x \in Int /\ y \in Int /\ rise \in Int /\ span \in Int
    /\ x = Last(points).x /\ y = Last(points).y /\ rise = Rise(points) /\ span = Span(points)
    /\ span > 0 /\ d * y = e * x + c /\ d * rise = e * span

\* The first and the last of the points on a line.
LEMMA EndFacts ==
    ASSUME NEW points, Rightward(points), Len(points) >= 2, NEW d, NEW e, NEW c, IsLine(points, d, e, c)
    PROVE  \E x, y, rise, span \in Int : EndsOf(points, d, e, c, x, y, rise, span)
<1>1. /\ Len(points) \in Nat
      /\ \A i \in 1 .. Len(points) : points[i].x \in Nat /\ points[i].y \in Int
  BY PointFacts
<1>2. PICK n \in Nat : n = Len(points) /\ n >= 2 /\ 1 \in 1 .. n /\ n \in 1 .. n
  BY <1>1
<1>3. PICK x1 \in Nat : x1 = points[1].x
  BY <1>1, <1>2
<1>4. PICK y1 \in Int : y1 = points[1].y
  BY <1>1, <1>2
<1>5. PICK x \in Nat : x = points[n].x
  BY <1>1, <1>2
<1>6. PICK y \in Int : y = points[n].y
  BY <1>1, <1>2
<1>7. Last(points) = points[n]
  BY <1>2 DEF Last
<1>8. x1 < x
  BY <1>2, <1>3, <1>5 DEF Rightward
<1>9. d \in Int /\ e \in Int /\ c \in Int /\ d * y1 = e * x1 + c /\ d * y = e * x + c
  BY <1>2, <1>3, <1>4, <1>5, <1>6 DEF IsLine
<1>10. PICK rise \in Int : rise = y - y1
  OBVIOUS
<1>11. PICK span \in Int : span = x - x1
  OBVIOUS
<1>12. rise = Rise(points) /\ span = Span(points)
  BY <1>3, <1>4, <1>5, <1>6, <1>7, <1>10, <1>11 DEF Rise, Span
<1>13. d * rise = e * span
  <2>1. d * (y - y1) = d * y - d * y1 /\ e * (x - x1) = e * x - e * x1
    BY <1>9
  <2>2. d * y \in Int /\ d * y1 \in Int /\ e * x \in Int /\ e * x1 \in Int
    BY <1>9
  <2>3. d * y - d * y1 = e * x - e * x1
    BY <1>9, <2>2
  <2> QED
    BY <1>10, <1>11, <2>1, <2>3
<1>14. span > 0 /\ x \in Int
  BY <1>8, <1>11
<1>15. EndsOf(points, d, e, c, x, y, rise, span)
  BY <1>5, <1>6, <1>7, <1>9, <1>12, <1>13, <1>14 DEF EndsOf
<1> QED
  BY <1>15

\* What a comparison with the value of the line comes to.
LEMMA RisesOnLine ==
    ASSUME NEW d \in Int, d > 0, NEW run \in Int, run > 0, NEW span \in Int, span > 0, NEW e \in Int,
           NEW slope \in Int, d * slope = e * run, NEW rise \in Int, d * rise = e * span
    PROVE  (slope > 0 <=> rise > 0) /\ (slope < 0 <=> rise < 0)
<1>1. d * 0 = run * 0 /\ d * 0 = span * 0 /\ d * slope = run * e /\ d * rise = span * e /\ 0 \in Int
  OBVIOUS
<1>2. Scaled(d, run, slope, 0, e, 0) /\ Scaled(d, span, rise, 0, e, 0)
  BY <1>1 DEF Scaled
<1>3. SameSides(slope, 0, e, 0) /\ SameSides(rise, 0, e, 0)
  BY ONLY <1>2, SameOrder, Zenon
<1> QED
  BY <1>3 DEF SameSides

\* What a trend on a line is compared with: a against 0, b against c.
IsTrend(points, a, b, c, ahead, needed) ==
    /\ a = Fit(points).rise
    /\ b = 2 * Level(Fit(points), Last(points).x + DelayLookback)
    /\ c = 3 * Last(points).y * Fit(points).n * Fit(points).run
    /\ ahead = 2 * DelayLookback * Rise(points) /\ needed = Last(points).y * Span(points)
    /\ a > 0 <=> Rise(points) > 0
    /\ a < 0 <=> Rise(points) < 0
    /\ b > c <=> ahead > needed
    /\ b < c <=> ahead < needed

\* A trend on a line is increasing when the line rises far enough.
LEMMA DelayOnLine ==
    ASSUME NEW points, Rightward(points), Len(points) >= 2, OnALine(points)
    PROVE  \E a, b, c, ahead, needed \in Int : IsTrend(points, a, b, c, ahead, needed)
<1>1. PICK d, e, c \in Int : IsLine(points, d, e, c)
  BY LineFound
<1>2. PICK x, y, rise, span \in Int : EndsOf(points, d, e, c, x, y, rise, span)
  BY <1>1, EndFacts
<1>3. d \in Int /\ e \in Int /\ c \in Int /\ d > 0
  BY <1>1 DEF IsLine
<1>4. /\ x \in Int /\ y \in Int /\ rise \in Int /\ span \in Int
      /\ x = Last(points).x /\ y = Last(points).y /\ rise = Rise(points) /\ span = Span(points)
      /\ span > 0 /\ d * y = e * x + c /\ d * rise = e * span
  BY <1>2 DEF EndsOf
<1>26. span > 0 /\ d * y = e * x + c /\ d * rise = e * span
  BY <1>4
<1>5. PICK l \in Nat : l = DelayLookback
  BY PredictionsAssumption
<1>6. PICK run \in Int : run = Fit(points).run /\ run > 0
  BY FitFacts, LineHasARun DEF IsFit
<1>7. PICK slope \in Int : slope = Fit(points).rise
  BY FitFacts DEF IsFit
<1>8. PICK n \in Nat : n = Fit(points).n /\ n >= 2
  BY FitFacts DEF IsFit
<1>9. PICK level \in Int :
         level = Level(Fit(points), x + l) /\ d * level = (n * run) * (e * (x + l) + c)
  <2>1. x + l \in Int
    BY <1>26
  <2>2. IsLevel(Fit(points), d, e, c, x + l)
    BY <1>1, <2>1, LevelOnLine
  <2> QED
    BY <1>6, <1>8, <2>2 DEF IsLevel
<1>10. d * slope = e * run
  BY <1>1, <1>6, <1>7, FitOnLine
<1>12. (slope > 0 <=> rise > 0) /\ (slope < 0 <=> rise < 0)
  <2>1. d \in Int /\ d > 0 /\ e \in Int /\ span \in Int /\ span > 0 /\ rise \in Int /\ d * rise = e * span
    BY <1>3, <1>26
  <2>2. run \in Int /\ run > 0 /\ slope \in Int
    BY <1>6
  <2> QED
    BY ONLY <1>10, <2>1, <2>2, RisesOnLine
<1>13. PICK nr \in Int : nr = n * run /\ nr > 0
  BY <1>6, <1>8
<1>14. PICK dy \in Int : dy = d * y
  BY <1>3, <1>26
<1>15. PICK el \in Int : el = e * l
  BY <1>3
<1>16. d * level = nr * (dy + el)
  <2>1. e * (x + l) + c = (e * x + c) + e * l
    BY <1>3, <1>26
  <2>2. e * (x + l) + c = dy + el
    BY <1>26, <1>14, <1>15, <2>1
  <2> QED
    BY <1>9, <1>13, <2>2
<1>27. PICK b \in Int : b = 2 * level
  OBVIOUS
<1>28. PICK t \in Int : t = 3 * y * n * run
  OBVIOUS
<1>17. (b > t <=> 2 * el > dy) /\ (b < t <=> 2 * el < dy)
  <2>1. t = 3 * y * nr
    BY <1>26, <1>13, <1>28
  <2>3. d * b = nr * (2 * dy + 2 * el)
    <3>1. d * (2 * level) = 2 * (d * level)
      BY <1>3
    <3>2. 2 * (nr * (dy + el)) = nr * (2 * dy + 2 * el)
      OBVIOUS
    <3> QED
      BY <1>16, <1>27, <3>1, <3>2
  <2>4. d * t = nr * (3 * dy)
    <3>1. d * (3 * y * nr) = nr * (3 * (d * y))
      <4>1. PICK k \in Int : k = y * nr
        OBVIOUS
      <4>2. 3 * y * nr = 3 * k /\ nr * (3 * (d * y)) = 3 * (d * k) /\ d * (3 * k) = 3 * (d * k)
        BY <4>1
      <4> QED
        BY <4>2
    <3> QED
      BY <1>14, <2>1, <3>1
  <2>5. PICK u \in Int : u = 2 * dy + 2 * el
    OBVIOUS
  <2>6. PICK v \in Int : v = 3 * dy
    OBVIOUS
  <2>7. d \in Int /\ d > 0 /\ d * b = nr * u /\ d * t = nr * v /\ nr > 0
    BY <1>3, <1>13, <2>3, <2>4, <2>5, <2>6
  <2>8. Scaled(d, nr, b, t, u, v)
    BY ONLY <2>7, nr \in Int, b \in Int, t \in Int, u \in Int, v \in Int DEF Scaled
  <2>9. SameSides(b, t, u, v)
    BY ONLY <2>8, SameOrder, Zenon
  <2> QED
    BY <2>5, <2>6, <2>9 DEF SameSides
<1>29. PICK ahead \in Int : ahead = 2 * l * rise
  BY <1>26
<1>30. PICK needed \in Int : needed = y * span
  BY <1>26
<1>18. (ahead > needed <=> 2 * el > dy) /\ (ahead < needed <=> 2 * el < dy)
  <2>1. PICK u \in Int : u = 2 * el
    OBVIOUS
  <2>2. d * ahead = span * u
    <3>1. d * (2 * l * rise) = 2 * l * (d * rise)
      BY <1>3, <1>26
    <3>2. 2 * l * (e * span) = span * (2 * (e * l))
      BY <1>3, <1>26
    <3> QED
      BY <1>26, <1>15, <1>29, <2>1, <3>1, <3>2
  <2>3. d * needed = span * dy
    <3>1. d * (y * span) = span * (d * y)
      BY <1>3, <1>26
    <3> QED
      BY <1>14, <1>30, <3>1
  <2>4. d \in Int /\ d > 0 /\ span \in Int /\ span > 0
    BY <1>3, <1>26
  <2>5. Scaled(d, span, ahead, needed, u, dy)
    BY ONLY <2>2, <2>3, <2>4, ahead \in Int, needed \in Int, u \in Int, dy \in Int DEF Scaled
  <2>6. SameSides(ahead, needed, u, dy)
    BY ONLY <2>5, SameOrder, Zenon
  <2> QED
    BY <2>1, <2>6 DEF SameSides
<1>19. slope = Fit(points).rise /\ b = 2 * Level(Fit(points), Last(points).x + DelayLookback)
  BY <1>4, <1>5, <1>7, <1>9, <1>27
<1>20. t = 3 * Last(points).y * Fit(points).n * Fit(points).run
  BY <1>4, <1>6, <1>8, <1>28
<1>21. ahead = 2 * DelayLookback * Rise(points) /\ needed = Last(points).y * Span(points)
  BY <1>4, <1>5, <1>29, <1>30
<1>22. (slope > 0 <=> Rise(points) > 0) /\ (slope < 0 <=> Rise(points) < 0)
  BY <1>4, <1>12
<1>23. (b > t <=> ahead > needed) /\ (b < t <=> ahead < needed)
  BY <1>17, <1>18
<1>24. IsTrend(points, slope, b, t, ahead, needed)
  BY <1>19, <1>20, <1>21, <1>22, <1>23 DEF IsTrend
<1> QED
  BY <1>24

\* What the progress on a line is compared with: what is missing and where it is at a time, by the
\* fit and by the line.
IsCourse(points, left, missing, reach, needed, ahead) ==
    /\ missing = 100 * Fit(points).n * Fit(points).run - Level(Fit(points), Last(points).x)
    /\ reach = left * Fit(points).n * Fit(points).rise
    /\ needed = (100 - Last(points).y) * Span(points) /\ ahead = left * Rise(points)
    /\ missing >= 0 /\ needed >= 0
    /\ missing > reach <=> needed > ahead
    /\ missing < reach <=> needed < ahead

\* A time is missed by a fit to a line when the line misses it.
LEMMA LateOnLine ==
    ASSUME NEW points, Rightward(points), Len(points) >= 2, OnALine(points), Last(points).y <= 100, NEW left \in Int
    PROVE  \E missing, reach, needed, ahead \in Int : IsCourse(points, left, missing, reach, needed, ahead)
<1>1. PICK d, e, c \in Int : IsLine(points, d, e, c)
  BY LineFound
<1>2. PICK x, y, rise, span \in Int : EndsOf(points, d, e, c, x, y, rise, span)
  BY <1>1, EndFacts
<1>3. d \in Int /\ e \in Int /\ c \in Int /\ d > 0
  BY <1>1 DEF IsLine
<1>4. /\ x \in Int /\ y \in Int /\ rise \in Int /\ span \in Int
      /\ x = Last(points).x /\ y = Last(points).y /\ rise = Rise(points) /\ span = Span(points)
      /\ span > 0 /\ d * y = e * x + c /\ d * rise = e * span
  BY <1>2 DEF EndsOf
<1>26. span > 0 /\ d * y = e * x + c /\ d * rise = e * span
  BY <1>4
<1>27. y <= 100
  BY <1>4
<1>6. PICK run \in Int : run = Fit(points).run /\ run > 0
  BY FitFacts, LineHasARun DEF IsFit
<1>7. PICK slope \in Int : slope = Fit(points).rise
  BY FitFacts DEF IsFit
<1>8. PICK n \in Nat : n = Fit(points).n /\ n >= 2
  BY FitFacts DEF IsFit
<1>9. PICK level \in Int :
         level = Level(Fit(points), x) /\ d * level = (n * run) * (e * x + c)
  <2>1. IsLevel(Fit(points), d, e, c, x)
    BY <1>1, LevelOnLine
  <2> QED
    BY <1>6, <1>8, <2>1 DEF IsLevel
<1>10. d * slope = e * run
  BY <1>1, <1>6, <1>7, FitOnLine
<1>13. PICK nr \in Int : nr = n * run /\ nr > 0
  BY <1>6, <1>8
<1>14. PICK r \in Int : r = 100 - y /\ r >= 0
  BY <1>27
<1>15. level = nr * y
  <2>1. d * level = d * (nr * y)
    <3>1. d * level = nr * (d * y)
      BY <1>26, <1>9, <1>13
    <3>2. nr * (d * y) = d * (nr * y)
      BY <1>3, <1>26
    <3> QED
      BY <3>1, <3>2
  <2>2. PICK z \in Int : z = nr * y
    BY <1>26
  <2>3. ~(level > z) /\ ~(z > level)
    <3>1. d \in Int /\ d > 0 /\ level \in Int /\ z \in Int /\ d * level = d * z
      BY <1>3, <2>1, <2>2
    <3>2. (d * level > d * z <=> level > z) /\ (d * z > d * level <=> z > level)
      BY <3>1, Cancels
    <3>3. d * z \in Int
      BY <3>1
    <3> QED
      BY <3>1, <3>2, <3>3
  <2> QED
    BY <2>2, <2>3
<1>16. PICK missing \in Int : missing = 100 * n * run - level
  <2>1. 100 * n * run - level \in Int
    OBVIOUS
  <2> QED
    BY <2>1
<1>17. missing = n * (run * r) /\ missing >= 0
  <2>1. 100 * n * run = 100 * nr
    BY <1>13
  <2>2. 100 * nr - nr * y = nr * r
    BY <1>26, <1>14
  <2>3. nr * r \in Int /\ nr * r >= 0
    BY <1>13, <1>14
  <2>4. nr * r = n * (run * r)
    BY <1>13, <1>14
  <2> QED
    BY <1>15, <1>16, <2>1, <2>2, <2>3, <2>4
<1>18. PICK ls \in Int : ls = left * slope
  OBVIOUS
<1>19. PICK reach \in Int : reach = left * n * slope /\ reach = n * ls
  BY <1>18
<1>20. PICK rr \in Int : rr = run * r
  OBVIOUS
<1>28. PICK dr \in Int : dr = d * r
  BY <1>3
<1>22. PICK le \in Int : le = left * e
  BY <1>3
<1>21. (missing > reach <=> rr > ls) /\ (missing < reach <=> rr < ls)
  <2>1. n \in Int /\ n > 0 /\ missing = n * rr
    BY <1>8, <1>17, <1>20
  <2>2. (n * rr > n * ls <=> rr > ls) /\ (n * rr < n * ls <=> rr < ls)
    BY ONLY <2>1, rr \in Int, ls \in Int, Cancels, Zenon
  <2> QED
    BY <1>19, <2>1, <2>2
<1>23. (rr > ls <=> dr > le) /\ (rr < ls <=> dr < le)
  <2>1. d * rr = run * dr
    BY <1>3, <1>20, <1>28
  <2>2. d * ls = run * le
    <3>1. d * (left * slope) = left * (d * slope)
      BY <1>3
    <3>2. left * (e * run) = run * (left * e)
      BY <1>3
    <3> QED
      BY <1>10, <1>18, <1>22, <3>1, <3>2
  <2>3. d \in Int /\ d > 0 /\ run \in Int /\ run > 0
    BY <1>3, <1>6
  <2> QED
    <3>1. Scaled(d, run, rr, ls, dr, le)
      BY ONLY <2>1, <2>2, <2>3, rr \in Int, ls \in Int, dr \in Int, le \in Int DEF Scaled
    <3>2. SameSides(rr, ls, dr, le)
      BY ONLY <3>1, SameOrder, Zenon
    <3> QED
      BY <3>2 DEF SameSides
<1>29. PICK needed \in Int : needed = r * span /\ needed >= 0
  BY <1>14, <1>26
<1>30. PICK ahead \in Int : ahead = left * rise
  BY <1>26
<1>24. (needed > ahead <=> dr > le) /\ (needed < ahead <=> dr < le)
  <2>1. d * needed = span * dr
    BY <1>3, <1>26, <1>28, <1>29
  <2>2. d * ahead = span * le
    <3>1. d * (left * rise) = left * (d * rise)
      BY <1>3, <1>26
    <3>2. left * (e * span) = span * (left * e)
      BY <1>3, <1>26
    <3> QED
      BY <1>26, <1>22, <1>30, <3>1, <3>2
  <2>3. d \in Int /\ d > 0 /\ span \in Int /\ span > 0
    BY <1>3, <1>26
  <2> QED
    <3>1. Scaled(d, span, needed, ahead, dr, le)
      BY ONLY <2>1, <2>2, <2>3, needed \in Int, ahead \in Int, dr \in Int, le \in Int DEF Scaled
    <3>2. SameSides(needed, ahead, dr, le)
      BY ONLY <3>1, SameOrder, Zenon
    <3> QED
      BY <3>2 DEF SameSides
<1>25. (missing > reach <=> needed > ahead) /\ (missing < reach <=> needed < ahead)
  BY <1>21, <1>23, <1>24
<1>31. missing = 100 * Fit(points).n * Fit(points).run - Level(Fit(points), Last(points).x)
  BY <1>4, <1>6, <1>8, <1>9, <1>16
<1>32. reach = left * Fit(points).n * Fit(points).rise
  BY <1>7, <1>8, <1>19
<1>33. needed = (100 - Last(points).y) * Span(points) /\ ahead = left * Rise(points)
  BY <1>4, <1>14, <1>29, <1>30
<1>34. IsCourse(points, left, missing, reach, needed, ahead)
  BY <1>17, <1>25, <1>29, <1>31, <1>32, <1>33 DEF IsCourse
<1> QED
  BY <1>34

------------------------------------------------------------------------------
(* Readings that never rise. *)

\* Readings that never rise are in falling order.
LEMMA FallsFromStart ==
    ASSUME NEW points, Rightward(points), NeverRises(points)
    PROVE  \A i, j \in 1 .. Len(points) : i <= j => points[i].y >= points[j].y
<1>1. /\ Len(points) \in Nat
      /\ \A i \in 1 .. Len(points) : points[i].x \in Nat /\ points[i].y \in Int
  BY PointFacts
<1>2. PICK n \in Nat : n = Len(points)
  BY <1>1
<1> DEFINE G == {k \in 0 .. n : \A i \in 1 .. k : points[i].y >= points[k].y}
<1>3. 0 \in G
  OBVIOUS
<1>4. ASSUME NEW k \in 1 .. n, k - 1 \in G PROVE k \in G
  <2>1. ASSUME NEW i \in 1 .. k PROVE points[i].y >= points[k].y
    <3>1. CASE i = k
      <4>1. points[i].y \in Int
        BY <1>1, <1>2, <3>1
      <4> QED
        BY <3>1, <4>1
    <3>2. CASE i < k
      <4>1. k - 1 \in 1 .. n /\ i \in 1 .. k - 1 /\ k \in 2 .. n /\ i \in 1 .. n
        BY <3>2
      <4>2. points[k - 1].y >= points[k].y
        BY <1>2, <4>1 DEF NeverRises
      <4>3. points[i].y >= points[k - 1].y
        BY <1>4, <4>1
      <4>4. points[i].y \in Int /\ points[k - 1].y \in Int /\ points[k].y \in Int
        BY <1>1, <1>2, <4>1
      <4> QED
        BY <4>2, <4>3, <4>4
    <3> QED
      BY <3>1, <3>2
  <2>2. k \in 0 .. n
    OBVIOUS
  <2> QED
    BY <2>1, <2>2
<1> HIDE DEF G
<1>5. \A k \in 0 .. n : k \in G
  BY <1>3, <1>4, UpTo
<1>6. ASSUME NEW i \in 1 .. n, NEW j \in 1 .. n, i <= j PROVE points[i].y >= points[j].y
  <2>1. j \in G /\ i \in 1 .. j
    BY <1>5, <1>6
  <2> QED
    BY <2>1 DEF G
<1> QED
  BY <1>2, <1>6

\* A factor at most 0 and one at least 0.
LEMMA Opposite ==
    ASSUME NEW a \in Int, NEW b \in Int, a <= 0, b >= 0
    PROVE  a * b <= 0 /\ (a < 0 /\ b > 0 => a * b < 0)
<1>1. PICK m \in Nat : m = 0 - a
  OBVIOUS
<1>2. m * b >= 0 /\ (m > 0 /\ b > 0 => m * b > 0)
  OBVIOUS
<1>3. a * b = -(m * b) /\ m * b \in Int /\ (a < 0 <=> m > 0)
  BY <1>1
<1> QED
  BY <1>2, <1>3

\* Chebyshev's inequality, one point more: x and y of it, and the sums of those before.
LEMMA OthersAbove ==
    ASSUME NEW m \in Nat, NEW xs \in Seq(Int), NEW ys \in Seq(Int), NEW zs \in Seq(Int),
           Len(xs) >= m, Len(ys) = Len(xs), Len(zs) = Len(xs),
           \A i \in 1 .. m : zs[i] = xs[i] * ys[i],
           NEW x \in Int, NEW y \in Int, \A i \in 1 .. m : xs[i] <= x /\ ys[i] >= y,
           NEW a, NEW b, NEW p, Running(xs, a), Running(ys, b), Running(zs, p)
    PROVE  /\ p[m] + m * (x * y) - a[m] * y - x * b[m] <= 0
           /\ m >= 1 => p[m] + m * (x * y) - a[m] * y - x * b[m] <= (xs[1] - x) * (ys[1] - y)
<1>1. PICK n \in Nat : n = Len(xs) /\ m <= n
  OBVIOUS
<1>2. /\ a \in [0 .. n -> Int] /\ a[0] = 0 /\ \A k \in 1 .. n : a[k] = a[k - 1] + xs[k]
      /\ b \in [0 .. n -> Int] /\ b[0] = 0 /\ \A k \in 1 .. n : b[k] = b[k - 1] + ys[k]
      /\ p \in [0 .. n -> Int] /\ p[0] = 0 /\ \A k \in 1 .. n : p[k] = p[k - 1] + zs[k]
  BY <1>1 DEF Running
<1>3. \A i \in 1 .. n : xs[i] \in Int /\ ys[i] \in Int /\ zs[i] \in Int
  BY <1>1
<1>8. PICK xy \in Int : xy = x * y
  OBVIOUS
<1>9. PICK c : c = (xs[1] - x) * (ys[1] - y)
  OBVIOUS
<1> DEFINE below(k) == p[k] + k * xy - a[k] * y - x * b[k]
<1> DEFINE G == {k \in 0 .. m : below(k) <= 0 /\ (k >= 1 => below(k) <= c)}
<1> HIDE DEF below
<1>4. 0 \in G
  <2>1. 0 * xy = 0 /\ 0 * y = 0 /\ x * 0 = 0 /\ 0 \in 0 .. m
    OBVIOUS
  <2>2. below(0) = 0
    BY <1>2, <2>1 DEF below
  <2> QED
    BY <2>1, <2>2
<1>5. ASSUME NEW k \in 1 .. m, k - 1 \in G PROVE k \in G
  <2>1. k - 1 \in 0 .. n /\ k \in 1 .. n /\ k \in 0 .. m
    BY <1>1
  <2>2. PICK v \in Int : v = xs[k]
    BY <1>3, <2>1
  <2>3. PICK w \in Int : w = ys[k]
    BY <1>3, <2>1
  <2>16. xs[k] <= x /\ ys[k] >= y
    OBVIOUS
  <2>17. v <= x /\ w >= y
    BY <2>2, <2>3, <2>16
  <2>4. v - x <= 0 /\ w - y >= 0 /\ v - x \in Int /\ w - y \in Int
    BY <2>17
  <2>5. (v - x) * (w - y) <= 0
    BY ONLY <2>4, Opposite, Zenon
  <2>6. PICK aa \in Int : aa = a[k - 1]
    BY <1>2, <2>1
  <2>7. PICK bb \in Int : bb = b[k - 1]
    BY <1>2, <2>1
  <2>8. PICK pp \in Int : pp = p[k - 1]
    BY <1>2, <2>1
  <2>9. zs[k] = v * w
    BY <2>2, <2>3
  <2>10. a[k] = aa + v /\ b[k] = bb + w /\ p[k] = pp + v * w
    BY <1>2, <2>1, <2>2, <2>3, <2>6, <2>7, <2>8, <2>9
  <2>11. /\ pp + (k - 1) * xy - aa * y - x * bb <= 0
         /\ k - 1 >= 1 => pp + (k - 1) * xy - aa * y - x * bb <= c
    <3>1. below(k - 1) <= 0 /\ (k - 1 >= 1 => below(k - 1) <= c)
      BY <1>5, Zenon
    <3>2. below(k - 1) = pp + (k - 1) * xy - aa * y - x * bb
      BY <2>6, <2>7, <2>8 DEF below
    <3> QED
      BY <3>1, <3>2
  <2>18. k = 1 => pp + (k - 1) * xy - aa * y - x * bb = 0 /\ (v - x) * (w - y) = c
    <3>1. k = 1 => pp = 0 /\ aa = 0 /\ bb = 0
      BY <1>2, <2>6, <2>7, <2>8
    <3>2. 0 + (1 - 1) * xy - 0 * y - x * 0 = 0
      OBVIOUS
    <3> QED
      BY <1>9, <2>2, <2>3, <3>1, <3>2
  <2>12. (pp + v * w) + k * xy - (aa + v) * y - x * (bb + w)
         = (pp + (k - 1) * xy - aa * y - x * bb) + (v - x) * (w - y)
    <3>1. (pp + v * w) + k * (x * y) - (aa + v) * y - x * (bb + w)
          = (pp + (k - 1) * (x * y) - aa * y - x * bb) + (v - x) * (w - y)
      OBVIOUS
    <3> QED
      BY <1>8, <3>1
  <2>13. /\ pp + (k - 1) * xy - aa * y - x * bb \in Int
         /\ (v - x) * (w - y) \in Int
    OBVIOUS
  <2>14. /\ (pp + v * w) + k * xy - (aa + v) * y - x * (bb + w) <= 0
         /\ (pp + v * w) + k * xy - (aa + v) * y - x * (bb + w) <= c
    <3>5. c \in Int
      <4>1. 1 \in 1 .. n
        BY <1>1
      <4>2. xs[1] \in Int /\ ys[1] \in Int
        BY <1>3, <4>1
      <4> QED
        BY <1>9, <4>2
    <3>1. PICK u \in Int : u = pp + (k - 1) * xy - aa * y - x * bb
      BY <2>13
    <3>2. PICK t \in Int : t = (v - x) * (w - y)
      BY <2>13
    <3>3. u <= 0 /\ t <= 0
      BY <2>5, <2>11, <3>1, <3>2
    <3>4. u + t <= 0
      BY <3>3
    <3>6. u + t <= c
      <4>1. CASE k = 1
        BY <2>18, <3>1, <3>2, <3>5, <4>1
      <4>2. CASE k # 1
        <5>1. u <= c
          BY <2>11, <3>1, <4>2
        <5> QED
          BY <3>3, <3>5, <5>1
      <4> QED
        BY <4>1, <4>2
    <3> QED
      BY <2>12, <3>1, <3>2, <3>4, <3>6
  <2>15. below(k) <= 0 /\ below(k) <= c
    BY <2>10, <2>14 DEF below
  <2> QED
    BY <2>1, <2>15
<1> HIDE DEF G
<1>6. \A k \in 0 .. m : k \in G
  BY <1>4, <1>5, UpTo
<1>7. m \in G
  BY <1>6
<1>10. /\ p[m] + m * xy - a[m] * y - x * b[m] <= 0
       /\ m >= 1 => p[m] + m * xy - a[m] * y - x * b[m] <= c
  BY <1>7 DEF G, below
<1> QED
  BY <1>8, <1>9, <1>10

\* Chebyshev's inequality: readings that never rise have a line that does not, and that falls if
\* the last is below the first.
LEMMA NoRiseFound ==
    ASSUME NEW points, Rightward(points), NeverRises(points), Len(points) >= 2
    PROVE  Fit(points).rise <= 0 /\ (Rise(points) < 0 => Fit(points).rise < 0)
<1>1. Coordinates(points, Len(points))
  BY ListFacts
<1>2. PICK sx, sy, sxy, sxx \in Int : IsFit(points, Fit(points), sx, sy, sxy, sxx)
  BY FitFacts
<1>3. PICK n \in Nat : n = Len(points)
  BY <1>1 DEF Coordinates
<1>4. PICK xs : xs = Xs(points)
  OBVIOUS
<1>5. PICK ys : ys = Ys(points)
  OBVIOUS
<1>6. PICK zs : zs = XYs(points)
  OBVIOUS
<1>7. /\ xs \in Seq(Int) /\ Len(xs) = n /\ ys \in Seq(Int) /\ Len(ys) = n /\ zs \in Seq(Int) /\ Len(zs) = n
      /\ \A i \in 1 .. n : xs[i] = points[i].x /\ ys[i] = points[i].y /\ zs[i] = points[i].x * points[i].y
  BY <1>1, <1>3, <1>4, <1>5, <1>6 DEF Coordinates
<1>8. PICK a : Running(xs, a) /\ Sum(xs) = a[Len(xs)]
  BY <1>7, SumRuns
<1>9. PICK b : Running(ys, b) /\ Sum(ys) = b[Len(ys)]
  BY <1>7, SumRuns
<1>10. PICK p : Running(zs, p) /\ Sum(zs) = p[Len(zs)]
  BY <1>7, SumRuns
<1>11. /\ a \in [0 .. n -> Int] /\ a[0] = 0 /\ \A k \in 1 .. n : a[k] = a[k - 1] + xs[k]
       /\ b \in [0 .. n -> Int] /\ b[0] = 0 /\ \A k \in 1 .. n : b[k] = b[k - 1] + ys[k]
       /\ p \in [0 .. n -> Int] /\ p[0] = 0 /\ \A k \in 1 .. n : p[k] = p[k - 1] + zs[k]
  BY <1>7, <1>8, <1>9, <1>10 DEF Running
<1>12. \A i \in 1 .. n : xs[i] \in Int /\ ys[i] \in Int
  BY <1>7
<1>13. \A i, j \in 1 .. n : i < j => xs[i] <= xs[j] /\ xs[i] < xs[j] /\ ys[i] >= ys[j]
  <2> SUFFICES ASSUME NEW i \in 1 .. n, NEW j \in 1 .. n, i < j
               PROVE  xs[i] <= xs[j] /\ xs[i] < xs[j] /\ ys[i] >= ys[j]
    OBVIOUS
  <2>1. points[i].x < points[j].x
    BY <1>3 DEF Rightward
  <2>2. points[i].y >= points[j].y
    BY <1>3, FallsFromStart
  <2>3. xs[i] < xs[j] /\ ys[i] >= ys[j]
    BY <1>7, <2>1, <2>2
  <2> QED
    BY <1>12, <2>3
<1> DEFINE below(m) == (xs[1] - xs[m]) * (ys[1] - ys[m])
           G == {m \in 0 .. n : m * p[m] <= a[m] * b[m] /\ (m >= 2 => m * p[m] <= a[m] * b[m] + below(m))}
<1>14. 0 \in G
  <2>1. 0 * p[0] = 0 /\ a[0] * b[0] = 0 /\ 0 \in 0 .. n /\ ~(0 >= 2)
    BY <1>11
  <2> QED
    BY <2>1
<1>15. ASSUME NEW m \in 1 .. n, m - 1 \in G PROVE m \in G
  <2>1. m - 1 \in 0 .. n /\ m \in 0 .. n /\ m - 1 \in Nat
    OBVIOUS
  <2>2. PICK x \in Int : x = xs[m]
    BY <1>12
  <2>3. PICK y \in Int : y = ys[m]
    BY <1>12
  <2>4. PICK s \in Int : s = a[m - 1]
    BY <1>11, <2>1
  <2>5. PICK t \in Int : t = b[m - 1]
    BY <1>11, <2>1
  <2>6. PICK q \in Int : q = p[m - 1]
    BY <1>11, <2>1
  <2>7. zs[m] = x * y
    BY <1>7, <2>2, <2>3
  <2>8. a[m] = s + x /\ b[m] = t + y /\ p[m] = q + x * y
    BY <1>11, <2>2, <2>3, <2>4, <2>5, <2>6, <2>7
  <2>9. /\ q + (m - 1) * (x * y) - s * y - x * t <= 0
        /\ m >= 2 => q + (m - 1) * (x * y) - s * y - x * t <= below(m)
    <3>1. \A i \in 1 .. m - 1 : xs[i] <= x /\ ys[i] >= y
      BY <1>13, <2>2, <2>3
    <3>2. \A i \in 1 .. m - 1 : zs[i] = xs[i] * ys[i]
      <4> TAKE i \in 1 .. m - 1
      <4>1. i \in 1 .. n
        OBVIOUS
      <4>2. xs[i] = points[i].x /\ ys[i] = points[i].y /\ zs[i] = points[i].x * points[i].y
        BY <1>7, <4>1
      <4> QED
        BY <4>2
    <3>3. /\ p[m - 1] + (m - 1) * (x * y) - a[m - 1] * y - x * b[m - 1] <= 0
          /\ m - 1 >= 1 => p[m - 1] + (m - 1) * (x * y) - a[m - 1] * y - x * b[m - 1] <= (xs[1] - x) * (ys[1] - y)
      <4>1. PICK k \in Nat : k = m - 1
        OBVIOUS
      <4>2. Len(xs) >= k /\ Len(ys) = Len(xs) /\ Len(zs) = Len(xs)
        BY <1>7, <4>1
      <4>3. /\ p[k] + k * (x * y) - a[k] * y - x * b[k] <= 0
            /\ k >= 1 => p[k] + k * (x * y) - a[k] * y - x * b[k] <= (xs[1] - x) * (ys[1] - y)
        BY <1>7, <1>8, <1>9, <1>10, <3>1, <3>2, <4>1, <4>2, OthersAbove
      <4> QED
        BY <4>1, <4>3
    <3> QED
      BY <2>2, <2>3, <2>4, <2>5, <2>6, <3>3
  <2>10. (m - 1) * q <= s * t
    BY <1>15, <2>4, <2>5, <2>6
  <2>11. m * (q + x * y) - (s + x) * (t + y) = ((m - 1) * q - s * t) + (q + (m - 1) * (x * y) - s * y - x * t)
    OBVIOUS
  <2>12. PICK u \in Int : u = (m - 1) * q - s * t
    OBVIOUS
  <2>13. PICK v \in Int : v = q + (m - 1) * (x * y) - s * y - x * t
    OBVIOUS
  <2>14. PICK l \in Int : l = m * (q + x * y)
    OBVIOUS
  <2>15. PICK r \in Int : r = (s + x) * (t + y)
    OBVIOUS
  <2>16. u <= 0
    <3>1. (m - 1) * q \in Int /\ s * t \in Int
      OBVIOUS
    <3> QED
      BY <2>10, <2>12, <3>1
  <2>17. l <= r
    BY <2>9, <2>11, <2>12, <2>13, <2>14, <2>15, <2>16
  <2>18. m * p[m] <= a[m] * b[m]
    BY <2>8, <2>14, <2>15, <2>17
  <2>19. ASSUME m >= 2 PROVE m * p[m] <= a[m] * b[m] + below(m)
    <3>1. below(m) \in Int
      <4>1. 1 \in 1 .. n
        OBVIOUS
      <4>2. xs[1] \in Int /\ ys[1] \in Int
        BY <1>12, <4>1
      <4> QED
        BY <2>2, <2>3, <4>2
    <3>2. PICK z \in Int : z = below(m)
      BY <3>1
    <3>3. v <= z
      BY <2>9, <2>13, <2>19, <3>2
    <3>4. l - r = u + v
      BY <2>11, <2>12, <2>13, <2>14, <2>15
    <3>5. l <= r + z
      BY <2>16, <3>3, <3>4
    <3> QED
      BY <2>8, <2>14, <2>15, <3>2, <3>5
  <2> QED
    BY <2>1, <2>18, <2>19
<1> HIDE DEF G
<1>16. \A m \in 0 .. n : m \in G
  BY <1>14, <1>15, UpTo
<1>17. n \in G
  BY <1>16
<1>22. n >= 2 /\ 1 \in 1 .. n /\ n \in 1 .. n /\ 1 < n
  BY <1>3
<1>18. n * p[n] <= a[n] * b[n] /\ n * p[n] <= a[n] * b[n] + below(n)
  BY <1>17, <1>22 DEF G
<1>19. sx = a[n] /\ sy = b[n] /\ sxy = p[n]
  BY <1>2, <1>4, <1>5, <1>6, <1>7, <1>8, <1>9, <1>10 DEF IsFit
<1>20. n * sxy <= sx * sy
  BY <1>18, <1>19
<1>21. n * sxy - sx * sy <= 0
  <2>1. n * sxy \in Int /\ sx * sy \in Int
    OBVIOUS
  <2> QED
    BY <1>20, <2>1
<1>23. ASSUME Rise(points) < 0 PROVE n * sxy - sx * sy < 0
  <2>1. PICK v \in Int : v = xs[1] - xs[n]
    BY <1>12, <1>22
  <2>2. PICK w \in Int : w = ys[1] - ys[n]
    BY <1>12, <1>22
  <2>3. v < 0
    <3>1. xs[1] \in Int /\ xs[n] \in Int /\ xs[1] < xs[n]
      BY <1>12, <1>13, <1>22
    <3> QED
      BY <2>1, <3>1
  <2>4. w > 0
    <3>1. Last(points) = points[n]
      BY <1>3 DEF Last
    <3>2. ys[1] \in Int /\ ys[n] \in Int /\ points[1].y = ys[1] /\ points[n].y = ys[n]
      BY <1>7, <1>12, <1>22
    <3>3. ys[n] - ys[1] < 0
      BY <1>23, <3>1, <3>2 DEF Rise
    <3> QED
      BY <2>2, <3>2, <3>3
  <2>5. v * w < 0 /\ v * w \in Int
    <3>1. v <= 0 /\ w >= 0
      BY <2>3, <2>4
    <3> QED
      BY <2>3, <2>4, <3>1, Opposite
  <2>6. PICK z \in Int : z = v * w
    OBVIOUS
  <2>7. PICK l \in Int : l = n * sxy
    OBVIOUS
  <2>8. PICK r \in Int : r = sx * sy
    OBVIOUS
  <2>9. l <= r + z
    BY <1>18, <1>19, <2>1, <2>2, <2>6, <2>7, <2>8
  <2> QED
    BY <2>5, <2>6, <2>7, <2>8, <2>9
<1> QED
  BY <1>2, <1>3, <1>21, <1>23 DEF IsFit

------------------------------------------------------------------------------
(* The readings of an entity. *)

IsLog(log) ==
    /\ Len(log) \in Nat /\ DOMAIN log = 1 .. Len(log)
    /\ \A i \in DOMAIN log : EventOfLog(log[i])

PlacesOf(log, e, field) == {i \in DOMAIN log : log[i].entity = e /\ log[i][field] # {}}

\* The readings of an entity are points from left to right.
LEMMA ReadingsRunRightward ==
    ASSUME NEW log, IsLog(log), NEW e, NEW field \in {"delay", "progress"}
    PROVE  Rightward(PointsOf(log, e, field))
<1> DEFINE n == Len(log)
           set == PlacesOf(log, e, field)
           places == Ascending(n, set)
           points == [k \in DOMAIN places |-> [x |-> places[k], y |-> CHOOSE v \in log[places[k]][field] : TRUE]]
<1>1. n \in Nat /\ DOMAIN log = 1 .. n /\ \A i \in 1 .. n : EventOfLog(log[i])
  BY DEF IsLog
<1>2. PointsOf(log, e, field) = points
  BY DEF PointsOf, PlacesOf
<1>3. \A i \in set : log[i][field] # {} /\ i \in 1 .. n
  BY <1>1 DEF PlacesOf
<1>4. \A i \in 1 .. n : log[i][field] \subseteq Int
  BY <1>1 DEF EventOfLog
<1> HIDE DEF n, set
<1>5. places \in Seq((1 .. n) \cap set) /\ \A i, j \in DOMAIN places : i < j => places[i] < places[j]
  BY <1>1, AscendingFacts
<1> HIDE DEF places
<1>6. PICK m \in Nat : m = Len(places) /\ DOMAIN places = 1 .. m
  BY <1>5
<1>7. \A k \in 1 .. m : places[k] \in (1 .. n) \cap set
  BY <1>5, <1>6
<1>8. ASSUME NEW k \in 1 .. m
      PROVE  [x |-> places[k], y |-> CHOOSE v \in log[places[k]][field] : TRUE] \in Points
  <2>1. places[k] \in Nat
    BY <1>7
  <2>2. log[places[k]][field] # {} /\ log[places[k]][field] \subseteq Int
    BY <1>3, <1>4, <1>7
  <2>3. (CHOOSE v \in log[places[k]][field] : TRUE) \in Int
    BY <2>2
  <2> QED
    BY <2>1, <2>3 DEF Points
<1>9. points \in Seq(Points) /\ Len(points) = m /\ \A k \in 1 .. m : points[k].x = places[k]
  BY <1>6, <1>8
<1> HIDE DEF points
<1>10. \A i, j \in 1 .. m : i < j => points[i].x < points[j].x
  BY <1>5, <1>6, <1>9
<1>11. Rightward(points)
  BY <1>9, <1>10 DEF Rightward
<1> QED
  BY <1>2, <1>11

\* An entity has one deadline or none, and that before the last of dates.
LEMMA DeadlineFacts ==
    ASSUME NEW log, IsLog(log), NEW e
    PROVE  /\ SlaDeadline(log, e) \subseteq Int /\ \A d, f \in SlaDeadline(log, e) : d = f
           /\ \A d \in SlaDeadline(log, e) : d <= EndOfTime
<1>1. /\ DOMAIN log = 1 .. Len(log) /\ Len(log) \in Nat
      /\ \A i \in DOMAIN log : /\ log[i].deadline \subseteq Int /\ \A d, f \in log[i].deadline : d = f
                              /\ \A d \in log[i].deadline : d <= EndOfTime
  <2>1. Len(log) \in Nat /\ DOMAIN log = 1 .. Len(log) /\ \A i \in DOMAIN log : EventOfLog(log[i])
    BY DEF IsLog
  <2>2. ASSUME NEW i \in DOMAIN log
        PROVE  /\ log[i].deadline \subseteq Int /\ \A d, f \in log[i].deadline : d = f
               /\ \A d \in log[i].deadline : d <= EndOfTime
    <3>1. EventOfLog(log[i])
      BY <2>1
    <3>2. PICK event : event = log[i]
      OBVIOUS
    <3>3. EventOfLog(event) /\ log[i].deadline = event["deadline"] /\ event.deadline = event["deadline"]
      BY <3>1, <3>2
    <3>4. /\ event["deadline"] \subseteq Int /\ \A d, f \in event["deadline"] : d = f
          /\ \A d \in event.deadline : d <= EndOfTime
      BY <3>3 DEF EventOfLog
    <3> QED
      BY <3>3, <3>4
  <2> QED
    BY <2>1, <2>2
<1> DEFINE W == WithDeadline(log, e)
           first == FirstWithDeadline(log, e)
<1>2. W \subseteq DOMAIN log
  BY DEF WithDeadline
<1>3. SlaDeadline(log, e) = UNION {log[i].deadline : i \in first}
  BY DEF SlaDeadline
<1>4. \A i, j \in first : i <= j /\ j <= i /\ i \in Nat /\ j \in Nat
  BY <1>1, <1>2 DEF FirstWithDeadline
<1>5. \A i, j \in first : i = j
  BY <1>4
<1>6. first \subseteq DOMAIN log
  BY <1>2 DEF FirstWithDeadline
<1> HIDE DEF W, first
<1> QED
  BY <1>1, <1>3, <1>5, <1>6

\* Readings other than 0.
Rounded(points) == \E i \in DOMAIN points : points[i].y # 0

\* What a comparison may say.
Compares(answers, a, b, rounded) ==
    /\ answers \subseteq BOOLEAN
    /\ TRUE \in answers <=> a > b \/ (a = b /\ rounded)
    /\ FALSE \in answers <=> a <= b

\* A comparison of the line says what the fractions say, unless they are equal.
LEMMA Comparison ==
    ASSUME NEW points, NEW a \in Int, NEW b \in Int
    PROVE  Compares(Exceeds(points, a, b), a, b, Rounded(points))
<1>1. PICK answers : answers = Exceeds(points, a, b)
  OBVIOUS
<1>2. answers = {answer \in BOOLEAN : (answer <=> a > b) \/ (a = b /\ Rounded(points))}
  BY <1>1 DEF Exceeds, Rounded
<1>3. (~(a > b) <=> a <= b) /\ (a = b => a <= b)
  OBVIOUS
<1>4. answers \subseteq BOOLEAN
  BY <1>2, Zenon
<1>5. TRUE \in answers <=> a > b \/ (a = b /\ Rounded(points))
  BY <1>2, Zenon
<1>6. FALSE \in answers <=> a <= b
  BY <1>2, <1>3, Zenon
<1> QED
  BY <1>1, <1>4, <1>5, <1>6, Zenon DEF Compares

\* What two answers together may say.
Both(ups, overs) == {answer \in BOOLEAN : \E up \in ups, over \in overs : answer <=> up /\ over}

\* Two comparisons of which both must be so.
LEMMA BothFacts ==
    ASSUME NEW ups, NEW overs, ups \subseteq BOOLEAN, overs \subseteq BOOLEAN
    PROVE  /\ TRUE \in Both(ups, overs) <=> TRUE \in ups /\ TRUE \in overs
           /\ TRUE \in ups /\ FALSE \notin ups => (FALSE \in Both(ups, overs) <=> FALSE \in overs)
<1>1. ASSUME TRUE \in ups, TRUE \in overs PROVE TRUE \in Both(ups, overs)
  BY <1>1, Zenon DEF Both
<1>2. ASSUME TRUE \in Both(ups, overs) PROVE TRUE \in ups /\ TRUE \in overs
  <2>1. PICK up \in ups, over \in overs : up /\ over
    BY <1>2, Zenon DEF Both
  <2>2. (up = TRUE \/ up = FALSE) /\ (over = TRUE \/ over = FALSE)
    BY <2>1
  <2>3. up = TRUE /\ over = TRUE
    BY <2>1, <2>2
  <2> QED
    BY <2>1, <2>3
<1>3. ASSUME TRUE \in ups, FALSE \in overs PROVE FALSE \in Both(ups, overs)
  BY <1>3, Zenon DEF Both
<1>4. ASSUME FALSE \notin ups, FALSE \in Both(ups, overs) PROVE FALSE \in overs
  <2>1. PICK up \in ups, over \in overs : ~(up /\ over)
    BY <1>4, Zenon DEF Both
  <2>2. up = TRUE /\ (over = TRUE \/ over = FALSE)
    BY <1>4, <2>1
  <2>3. over = FALSE
    BY <2>1, <2>2
  <2> QED
    BY <2>1, <2>3
<1> QED
  BY <1>1, <1>2, <1>3, <1>4

\* Where readings that never rise end.
LEMMA NeverRisesFacts ==
    ASSUME NEW points, Rightward(points), NeverRises(points), Len(points) >= 2
    PROVE  /\ Rise(points) \in Int /\ Rise(points) <= 0
           /\ Rise(points) = 0 => OnALine(points) /\ \A i \in DOMAIN points : points[i].y = Last(points).y
<1>1. PICK n \in Nat : n = Len(points) /\ n >= 2 /\ 1 \in 1 .. n /\ n \in 1 .. n
  BY PointFacts
<1>2. DOMAIN points = 1 .. n /\ \A i \in 1 .. n : points[i].x \in Nat /\ points[i].y \in Int
  BY <1>1, PointFacts
<1>3. Last(points) = points[n]
  BY <1>1 DEF Last
<1>4. PICK first \in Int : first = points[1].y
  BY <1>1, <1>2
<1>5. PICK last \in Int : last = points[n].y
  BY <1>1, <1>2
<1>6. first >= last
  BY <1>1, <1>4, <1>5, FallsFromStart
<1>7. Rise(points) = last - first
  BY <1>3, <1>4, <1>5 DEF Rise
<1>8. ASSUME Rise(points) = 0 PROVE OnALine(points) /\ \A i \in DOMAIN points : points[i].y = Last(points).y
  <2>1. first = last
    BY <1>7, <1>8
  <2>2. ASSUME NEW i \in 1 .. n PROVE points[i].y = last
    <3>1. points[1].y >= points[i].y /\ points[i].y >= points[n].y
      BY <1>1, FallsFromStart
    <3>2. PICK y \in Int : y = points[i].y
      BY <1>2
    <3> QED
      BY <1>4, <1>5, <2>1, <3>1, <3>2
  <2>3. OnALine(points)
    <3>1. ASSUME NEW i \in 1 .. n
          PROVE  (points[i].y - points[1].y) * (points[2].x - points[1].x)
                 = (points[2].y - points[1].y) * (points[i].x - points[1].x)
      <4>1. 2 \in 1 .. n
        BY <1>1
      <4>2. points[i].y = last /\ points[1].y = last /\ points[2].y = last
        BY <1>1, <2>2, <4>1
      <4>3. PICK v \in Int : v = points[2].x - points[1].x
        BY <1>1, <1>2, <4>1
      <4>4. PICK w \in Int : w = points[i].x - points[1].x
        BY <1>1, <1>2
      <4>5. last - last = 0 /\ 0 * v = 0 * w
        OBVIOUS
      <4> QED
        BY <4>2, <4>3, <4>4, <4>5
    <3> QED
      BY <1>2, <3>1 DEF OnALine
  <2> QED
    BY <1>2, <1>3, <1>5, <2>2, <2>3
<1> QED
  BY <1>6, <1>7, <1>8

\* Of readings that end above their start some are not 0.
LEMMA RisesFromZero ==
    ASSUME NEW points, Rightward(points), Len(points) >= 2, Rise(points) > 0
    PROVE  Rounded(points)
<1>1. PICK n \in Nat : n = Len(points) /\ DOMAIN points = 1 .. n /\ 1 \in 1 .. n /\ n \in 1 .. n
  BY PointFacts
<1>2. Last(points) = points[n]
  BY <1>1 DEF Last
<1>3. PICK v \in Int : v = points[1].y
  BY <1>1, PointFacts
<1>4. PICK w \in Int : w = points[n].y
  BY <1>1, PointFacts
<1>5. w - v > 0
  BY <1>2, <1>3, <1>4 DEF Rise
<1>6. v # 0 \/ w # 0
  BY <1>5
<1> QED
  BY <1>1, <1>3, <1>4, <1>6 DEF Rounded

\* predict_delay of the readings of an entity.
LEMMA DelaysFound ==
    ASSUME NEW points, Rightward(points), Len(points) >= 2
    PROVE  DelaysOnLine(points, TrendIsIncreasing(points)) /\ DelaysThatFall(points, TrendIsIncreasing(points))
<1>1. ASSUME NEW a \in Int, NEW b \in Int, NEW c \in Int, NEW ahead, NEW needed, IsTrend(points, a, b, c, ahead, needed)
      PROVE  \E ups, overs \in SUBSET BOOLEAN :
                /\ TrendIsIncreasing(points) = Both(ups, overs)
                /\ Compares(ups, a, 0, Rounded(points)) /\ Compares(overs, b, c, Rounded(points))
  <2>1. Compares(Exceeds(points, a, 0), a, 0, Rounded(points)) /\ Compares(Exceeds(points, b, c), b, c, Rounded(points))
    BY Comparison
  <2>2. TrendIsIncreasing(points) = Both(Exceeds(points, a, 0), Exceeds(points, b, c))
    BY <1>1 DEF TrendIsIncreasing, IsTrend, Both
  <2>3. Exceeds(points, a, 0) \in SUBSET BOOLEAN /\ Exceeds(points, b, c) \in SUBSET BOOLEAN
    BY <2>1 DEF Compares
  <2> QED
    BY <2>1, <2>2, <2>3
<1>2. PICK last \in Int : last = Last(points).y
  <2>1. Len(points) \in Nat /\ Len(points) \in 1 .. Len(points)
    BY PointFacts
  <2>2. points[Len(points)].y \in Int
    BY <2>1, PointFacts
  <2> QED
    BY <2>2 DEF Last
<1> DEFINE answers == TrendIsIncreasing(points)
<1>3. ASSUME OnALine(points), Rise(points) > 0
      PROVE  LET ahead == 2 * DelayLookback * Rise(points)
                 needed == Last(points).y * Span(points)
             IN  /\ TRUE \in answers <=> ahead >= needed
                 /\ FALSE \in answers <=> ahead <= needed
  <2>1. PICK a, b, c, ahead, needed \in Int : IsTrend(points, a, b, c, ahead, needed)
    BY <1>3, DelayOnLine
  <2>2. PICK ups, overs \in SUBSET BOOLEAN :
                /\ answers = Both(ups, overs)
                /\ Compares(ups, a, 0, Rounded(points)) /\ Compares(overs, b, c, Rounded(points))
    BY <1>1, <2>1
  <2>3. /\ a > 0
        /\ ahead = 2 * DelayLookback * Rise(points) /\ needed = Last(points).y * Span(points)
        /\ (b > c <=> ahead > needed) /\ (b < c <=> ahead < needed)
    BY <1>3, <2>1 DEF IsTrend
  <2>4. TRUE \in ups /\ FALSE \notin ups
    <3>1. ~(a <= 0)
      BY <2>3
    <3> QED
      BY <2>2, <2>3, <3>1, Zenon DEF Compares
  <2>5. (TRUE \in answers <=> TRUE \in overs) /\ (FALSE \in answers <=> FALSE \in overs)
    <3>1. ups \subseteq BOOLEAN /\ overs \subseteq BOOLEAN
      OBVIOUS
    <3>2. /\ TRUE \in Both(ups, overs) <=> TRUE \in overs
          /\ FALSE \in Both(ups, overs) <=> FALSE \in overs
      BY ONLY <2>4, <3>1, BothFacts, Zenon
    <3> HIDE DEF answers
    <3> QED
      BY ONLY <2>2, <3>2, Zenon
  <2>6. Rounded(points)
    BY <1>3, RisesFromZero
  <2>7. (TRUE \in overs <=> b > c \/ b = c) /\ (FALSE \in overs <=> b <= c)
    BY <2>2, <2>6, Zenon DEF Compares
  <2>8. (b > c \/ b = c <=> ahead >= needed) /\ (b <= c <=> ahead <= needed)
    BY <2>3
  <2> HIDE DEF answers
  <2>9. (TRUE \in answers <=> ahead >= needed) /\ (FALSE \in answers <=> ahead <= needed)
    BY <2>5, <2>7, <2>8, Zenon
  <2> QED
    BY <2>3, <2>9, Zenon
<1>4. ASSUME NeverRises(points), TRUE \in answers PROVE Rise(points) = 0 /\ last < 0
  <2>1. PICK rise \in Int : rise = Rise(points) /\ rise <= 0
    BY <1>4, NeverRisesFacts
  <2>2. PICK slope \in Int : slope = Fit(points).rise
    BY FitFacts DEF IsFit
  <2>3. ~(slope < 0)
    <3>1. Compares(Exceeds(points, slope, 0), slope, 0, Rounded(points))
      BY Comparison
    <3>2. PICK overs : answers = Both(Exceeds(points, slope, 0), overs) /\ overs \subseteq BOOLEAN
      <4>1. PICK overs : overs = Exceeds(points, 2 * Level(Fit(points), Last(points).x + DelayLookback),
                                          3 * Last(points).y * Fit(points).n * Fit(points).run)
        OBVIOUS
      <4>2. answers = Both(Exceeds(points, slope, 0), overs)
        BY <2>2, <4>1 DEF TrendIsIncreasing, Both
      <4>3. overs \subseteq BOOLEAN
        BY <4>1, Zenon DEF Exceeds
      <4> QED
        BY <4>2, <4>3
    <3>3. TRUE \in Exceeds(points, slope, 0)
      <4>1. Exceeds(points, slope, 0) \subseteq BOOLEAN
        BY <3>1, Zenon DEF Compares
      <4> QED
        BY <1>4, <3>2, <4>1, BothFacts, Zenon
    <3>4. slope > 0 \/ slope = 0
      BY <3>1, <3>3, Zenon DEF Compares
    <3> QED
      BY <3>4
  <2>4. rise = 0
    <3>1. ~(rise < 0)
      BY <1>4, <2>1, <2>2, <2>3, NoRiseFound
    <3> QED
      BY <2>1, <3>1
  <2>5. OnALine(points) /\ \A i \in DOMAIN points : points[i].y = last
    BY <1>2, <1>4, <2>1, <2>4, NeverRisesFacts
  <2>6. PICK a, b, c, ahead, needed \in Int : IsTrend(points, a, b, c, ahead, needed)
    BY <2>5, DelayOnLine
  <2>7. PICK ups, overs \in SUBSET BOOLEAN :
                /\ answers = Both(ups, overs)
                /\ Compares(ups, a, 0, Rounded(points)) /\ Compares(overs, b, c, Rounded(points))
    BY <1>1, <2>6
  <2>8. TRUE \in ups /\ TRUE \in overs
    BY <1>4, <2>7, BothFacts, Zenon
  <2>9. /\ (a > 0 <=> rise > 0) /\ (a < 0 <=> rise < 0)
        /\ ahead = 2 * DelayLookback * rise /\ needed = last * Span(points)
        /\ (b > c <=> ahead > needed) /\ (b < c <=> ahead < needed)
    BY <1>2, <2>1, <2>6 DEF IsTrend
  <2>10. a = 0 /\ ~(a > 0)
    BY <2>4, <2>9
  <2>11. Rounded(points)
    BY <2>7, <2>8, <2>10, Zenon DEF Compares
  <2>12. last # 0
    BY <2>5, <2>11, Zenon DEF Rounded
  <2>13. ~(b < c)
    <3>1. b > c \/ b = c
      BY <2>7, <2>8, Zenon DEF Compares
    <3> QED
      BY <3>1
  <2>14. ahead = 0
    <3>1. DelayLookback \in Nat
      BY PredictionsAssumption
    <3>2. 2 * DelayLookback * 0 = 0
      BY <3>1
    <3> QED
      BY <2>4, <2>9, <3>2
  <2>15. PICK d, e, f \in Int : IsLine(points, d, e, f)
    BY <2>5, LineFound
  <2>16. PICK x, y, r, span \in Int : EndsOf(points, d, e, f, x, y, r, span)
    BY <2>15, EndFacts
  <2>17. span = Span(points) /\ span > 0
    BY <2>16 DEF EndsOf
  <2>18. last * span <= 0
    BY <2>9, <2>13, <2>14, <2>17
  <2>19. last > 0 => last * span > 0
    BY <2>17
  <2>20. last < 0
    BY <2>12, <2>18, <2>19
  <2> QED
    BY <2>1, <2>4, <2>20
<1> HIDE DEF answers
<1>5. DelaysOnLine(points, answers)
  BY <1>3, Zenon DEF DelaysOnLine
<1>6. DelaysThatFall(points, answers)
  BY <1>2, <1>4, Zenon DEF DelaysThatFall
<1> QED
  BY <1>5, <1>6, Zenon DEF answers

\* predict_delay of an entity.
LEMMA DelaysExtended ==
    ASSUME NEW log, IsLog(log), NEW e
    PROVE  DelaysAreExtended(log, e)
<1> DEFINE delays == Delays(log, e)
<1>1. Rightward(delays)
  BY ReadingsRunRightward DEF Delays
<1>2. ASSUME Len(delays) >= 2
      PROVE  DelaysOnLine(delays, DelayAnswers(log, e)) /\ DelaysThatFall(delays, DelayAnswers(log, e))
  <2>1. PICK n \in Nat : n = Len(delays) /\ n >= 2
    BY <1>1, <1>2, PointFacts
  <2>3. ~(Len(delays) < 2)
    BY <2>1
  <2>2. DelayAnswers(log, e) = TrendIsIncreasing(delays)
    BY <2>3, Zenon DEF DelayAnswers
  <2> QED
    BY <1>1, <1>2, <2>2, DelaysFound
<1> HIDE DEF delays
<1>3. Len(delays) >= 2 =>
        DelaysOnLine(delays, DelayAnswers(log, e)) /\ DelaysThatFall(delays, DelayAnswers(log, e))
  BY <1>2
<1> QED
  BY <1>3 DEF DelaysAreExtended, delays

\* Whether a completion is past a time, for progress on a line: what is needed against how far the
\* line comes.
IsPast(points, now0, time, needed, ahead) ==
    /\ needed = (100 - Last(points).y) * Span(points) /\ ahead = (time - now0) * Rise(points)
    /\ Past(points, now0, time) \subseteq BOOLEAN
    /\ TRUE \in Past(points, now0, time) <=> needed >= ahead
    /\ FALSE \in Past(points, now0, time) <=> needed <= ahead

\* A completion of progress that rises is past a time if the line is.
LEMMA PastOnLine ==
    ASSUME NEW points, Rightward(points), Len(points) >= 2, OnALine(points), Last(points).y <= 100, Rise(points) > 0,
           NEW now0 \in Int, NEW time \in Int
    PROVE  \E needed, ahead \in Int : IsPast(points, now0, time, needed, ahead)
<1>1. PICK left \in Int : left = time - now0
  OBVIOUS
<1>2. PICK missing, reach, needed, ahead \in Int : IsCourse(points, left, missing, reach, needed, ahead)
  BY LateOnLine
<1>3. /\ missing = 100 * Fit(points).n * Fit(points).run - Level(Fit(points), Last(points).x)
      /\ reach = left * Fit(points).n * Fit(points).rise
      /\ needed = (100 - Last(points).y) * Span(points) /\ ahead = left * Rise(points)
      /\ missing >= 0 /\ needed >= 0
      /\ (missing > reach <=> needed > ahead) /\ (missing < reach <=> needed < ahead)
  BY <1>2 DEF IsCourse
<1>4. PICK says : says = Past(points, now0, time)
  OBVIOUS
<1>5. says = IF missing < 0 \/ time < now0 THEN {now0 > time} ELSE Exceeds(points, missing, reach)
  BY <1>1, <1>3, <1>4 DEF Past
<1>6. /\ says \subseteq BOOLEAN
      /\ TRUE \in says <=> needed >= ahead
      /\ FALSE \in says <=> needed <= ahead
  <2>1. CASE time < now0
    <3>1. says = {TRUE}
      <4>1. (now0 > time) = TRUE
        BY <2>1
      <4> QED
        BY <1>5, <2>1, <4>1
    <3>2. PICK rise \in Int : rise = Rise(points) /\ rise > 0
      <4>1. PICK d, e, c \in Int : IsLine(points, d, e, c)
        BY LineFound
      <4> QED
        BY <4>1, EndFacts DEF EndsOf
    <3>3. left * rise < 0
      <4>1. left <= 0 /\ rise >= 0 /\ left < 0
        BY <1>1, <2>1, <3>2
      <4> QED
        BY <3>2, <4>1, Opposite
    <3>4. needed >= ahead /\ ~(needed <= ahead)
      BY <1>3, <3>2, <3>3
    <3> QED
      BY <3>1, <3>4
  <2>2. CASE ~(time < now0)
    <3>1. ~(missing < 0)
      BY <1>3
    <3>2. Compares(says, missing, reach, Rounded(points))
      <4>1. says = Exceeds(points, missing, reach)
        BY <1>5, <2>2, <3>1
      <4> QED
        BY <4>1, Comparison
    <3>3. Rounded(points)
      BY RisesFromZero
    <3>4. says \subseteq BOOLEAN /\ (TRUE \in says <=> missing > reach \/ missing = reach) /\ (FALSE \in says <=> missing <= reach)
      BY ONLY <3>2, <3>3, Zenon DEF Compares
    <3>5. (missing > reach \/ missing = reach <=> needed >= ahead) /\ (missing <= reach <=> needed <= ahead)
      BY <1>3
    <3> QED
      BY ONLY <3>4, <3>5, Zenon
  <2> QED
    BY <2>1, <2>2
<1>7. ahead = (time - now0) * Rise(points)
  BY <1>1, <1>3
<1>8. IsPast(points, now0, time, needed, ahead)
  BY ONLY <1>3, <1>4, <1>6, <1>7, Zenon DEF IsPast
<1> QED
  BY <1>8

\* A completion of progress that stands still below 100 % is past any time.
LEMMA PastOfStill ==
    ASSUME NEW points, Rightward(points), Len(points) >= 2, OnALine(points), Last(points).y < 100, Rise(points) = 0,
           NEW now0 \in Int, NEW time \in Int
    PROVE  Past(points, now0, time) \subseteq {TRUE}
<1>1. PICK left \in Int : left = time - now0
  OBVIOUS
<1>9. PICK d, e, c \in Int : IsLine(points, d, e, c)
  BY LineFound
<1>10. PICK x, y, rise, span \in Int : EndsOf(points, d, e, c, x, y, rise, span)
  BY <1>9, EndFacts
<1>11. y = Last(points).y /\ span = Span(points) /\ span > 0 /\ y < 100 /\ Last(points).y <= 100
  BY <1>10 DEF EndsOf
<1>2. PICK missing, reach, needed, ahead \in Int : IsCourse(points, left, missing, reach, needed, ahead)
  BY <1>11, LateOnLine
<1>3. /\ missing = 100 * Fit(points).n * Fit(points).run - Level(Fit(points), Last(points).x)
      /\ reach = left * Fit(points).n * Fit(points).rise
      /\ needed = (100 - Last(points).y) * Span(points) /\ ahead = left * Rise(points)
      /\ missing >= 0
      /\ missing > reach <=> needed > ahead
  BY <1>2 DEF IsCourse
<1>4. PICK says : says = Past(points, now0, time)
  OBVIOUS
<1>5. says = IF missing < 0 \/ time < now0 THEN {now0 > time} ELSE Exceeds(points, missing, reach)
  BY <1>1, <1>3, <1>4 DEF Past
<1>6. missing > reach
  <2>1. ahead = 0
    BY <1>3
  <2>2. PICK r \in Int : r = 100 - y /\ r > 0
    BY <1>11
  <2>3. r * span > 0
    BY <1>11, <2>2
  <2>4. needed > ahead
    BY <1>3, <1>11, <2>1, <2>2, <2>3
  <2> QED
    BY <1>3, <2>4
<1>7. says \subseteq {TRUE}
  <2>1. CASE time < now0
    <3>1. (now0 > time) = TRUE
      BY <2>1
    <3> QED
      BY <1>5, <2>1, <3>1
  <2>2. CASE ~(time < now0)
    <3>1. ~(missing < 0) /\ ~(missing <= reach)
      BY <1>3, <1>6
    <3>2. says = Exceeds(points, missing, reach)
      BY <1>5, <2>2, <3>1
    <3>3. Compares(says, missing, reach, Rounded(points))
      BY <3>2, Comparison
    <3> QED
      BY ONLY <3>1, <3>3, Zenon DEF Compares
  <2> QED
    BY <2>1, <2>2
<1> QED
  BY <1>4, <1>7

\* What predict_sla_breach says of a line that rises: p and q are whether the completion is past
\* the last of dates and past the deadline.
Outlook(p, q, zoned) ==
    {answer \in {"raised", "late", "none"} :
        \E overflow \in p, late0 \in q :
            answer = IF overflow \/ ~zoned THEN "raised" ELSE IF late0 THEN "late" ELSE "none"}

\* What each answer takes.
LEMMA OutlookFacts ==
    ASSUME NEW p, NEW q, p \subseteq BOOLEAN, q \subseteq BOOLEAN, p # {}, q # {}, NEW zoned \in BOOLEAN
    PROVE  /\ "raised" \in Outlook(p, q, zoned) <=> TRUE \in p \/ ~zoned
           /\ "late" \in Outlook(p, q, zoned) <=> FALSE \in p /\ TRUE \in q /\ zoned
           /\ "none" \in Outlook(p, q, zoned) <=> FALSE \in p /\ FALSE \in q /\ zoned
           /\ Outlook(p, q, zoned) \subseteq {"raised", "late", "none"}
<1>1. "raised" # "late" /\ "raised" # "none" /\ "late" # "none"
  OBVIOUS
<1>2. \A overflow \in p : (overflow = TRUE \/ overflow = FALSE)
  OBVIOUS
<1>3. \A late0 \in q : (late0 = TRUE \/ late0 = FALSE)
  OBVIOUS
<1>4. ASSUME NEW answer \in {"raised", "late", "none"}
      PROVE  answer \in Outlook(p, q, zoned) <=>
                \E overflow \in p, late0 \in q :
                    \/ (overflow \/ ~zoned) /\ answer = "raised"
                    \/ ~overflow /\ zoned /\ late0 /\ answer = "late"
                    \/ ~overflow /\ zoned /\ ~late0 /\ answer = "none"
  BY <1>1 DEF Outlook
<1>5. "raised" \in Outlook(p, q, zoned) <=> \E overflow \in p, late0 \in q : overflow \/ ~zoned
  BY <1>1, <1>4, Zenon
<1>6. "late" \in Outlook(p, q, zoned) <=> \E overflow \in p, late0 \in q : ~overflow /\ zoned /\ late0
  BY <1>1, <1>4, Zenon
<1>7. "none" \in Outlook(p, q, zoned) <=> \E overflow \in p, late0 \in q : ~overflow /\ zoned /\ ~late0
  BY <1>1, <1>4, Zenon
<1>8. PICK o \in p, l \in q : TRUE
  OBVIOUS
<1>9. "raised" \in Outlook(p, q, zoned) <=> TRUE \in p \/ ~zoned
  BY <1>2, <1>5, <1>8, Zenon
<1>10. "late" \in Outlook(p, q, zoned) <=> FALSE \in p /\ TRUE \in q /\ zoned
  BY <1>2, <1>3, <1>6, Zenon
<1>11. "none" \in Outlook(p, q, zoned) <=> FALSE \in p /\ FALSE \in q /\ zoned
  BY <1>2, <1>3, <1>7, Zenon
<1>12. Outlook(p, q, zoned) \subseteq {"raised", "late", "none"}
  BY DEF Outlook
<1> QED
  BY <1>9, <1>10, <1>11, <1>12, Zenon

\* What predict_sla_breach may say, the outlook and whether the slope is above 0 being known.
Answers(outlook, up) == {answer \in outlook : TRUE \in up} \cup {answer \in {"stalled"} : FALSE \in up}

\* predict_sla_breach of progress that rises.
LEMMA ProgressFound ==
    ASSUME NEW points, Rightward(points), Len(points) >= 2, NEW now0 \in Int, NEW d \in Int, d <= EndOfTime,
           NEW zoned \in BOOLEAN, NEW answers,
           answers = Answers(Outlook(Past(points, now0, EndOfTime), Past(points, now0, d), zoned),
                             Exceeds(points, Fit(points).rise, 0))
    PROVE  ProgressOnLine(points, answers, now0, d, zoned)
<1> SUFFICES ASSUME OnALine(points), Rise(points) > 0, Last(points).y <= 100
             PROVE  ProgressOnLine(points, answers, now0, d, zoned)
  BY DEF ProgressOnLine
<1> DEFINE p == Past(points, now0, EndOfTime)
           q == Past(points, now0, d)
           up == Exceeds(points, Fit(points).rise, 0)
<1>1. EndOfTime \in Int
  BY PredictionsAssumption
<1>2. PICK needed, far \in Int : IsPast(points, now0, EndOfTime, needed, far)
  BY <1>1, PastOnLine
<1>3. PICK needs, near \in Int : IsPast(points, now0, d, needs, near)
  BY PastOnLine
<1>4. /\ needed = (100 - Last(points).y) * Span(points) /\ far = (EndOfTime - now0) * Rise(points)
      /\ p \subseteq BOOLEAN /\ (TRUE \in p <=> needed >= far) /\ (FALSE \in p <=> needed <= far)
  BY ONLY <1>2, Zenon DEF IsPast
<1>5. /\ needs = (100 - Last(points).y) * Span(points) /\ near = (d - now0) * Rise(points)
      /\ q \subseteq BOOLEAN /\ (TRUE \in q <=> needs >= near) /\ (FALSE \in q <=> needs <= near)
  BY ONLY <1>3, Zenon DEF IsPast
<1>6. needs = needed
  BY <1>4, <1>5
<1>7. PICK rise \in Int : rise = Rise(points) /\ rise > 0
  <2>1. PICK d1, e1, c1 \in Int : IsLine(points, d1, e1, c1)
    BY LineFound
  <2> QED
    BY <2>1, EndFacts DEF EndsOf
<1>8. near <= far
  <2>1. PICK v \in Int : v = d - now0
    OBVIOUS
  <2>2. PICK w \in Int : w = EndOfTime - now0
    BY <1>1
  <2>3. v <= w
    BY <1>1, <2>1, <2>2
  <2>4. v * rise <= w * rise
    <3>1. rise \in Nat
      BY <1>7
    <3> QED
      BY <2>3, <3>1, MultiplyOrder
  <2> QED
    BY <1>4, <1>5, <1>7, <2>1, <2>2, <2>4
<1>9. TRUE \in up /\ FALSE \notin up
  <2>1. PICK slope \in Int : slope = Fit(points).rise
    BY FitFacts DEF IsFit
  <2>2. slope > 0
    <3>1. PICK a, b, c, ahead, behind \in Int : IsTrend(points, a, b, c, ahead, behind)
      BY DelayOnLine
    <3> QED
      BY <2>1, <3>1 DEF IsTrend
  <2>3. Compares(up, slope, 0, Rounded(points)) /\ ~(slope <= 0)
    BY <2>1, <2>2, Comparison
  <2> QED
    BY ONLY <2>2, <2>3, Zenon DEF Compares
<1> HIDE DEF p, q, up
<1>10. p # {} /\ q # {}
  <2>1. (needed >= far \/ needed <= far) /\ (needs >= near \/ needs <= near)
    OBVIOUS
  <2> QED
    BY ONLY <1>4, <1>5, <2>1, Zenon
<1>11. answers = Answers(Outlook(p, q, zoned), up)
  BY DEF p, q, up
<1>12. \A answer : answer \in answers <=> answer \in Outlook(p, q, zoned)
  BY ONLY <1>9, <1>11, Zenon DEF Answers
<1>13. /\ "raised" \in Outlook(p, q, zoned) <=> TRUE \in p \/ ~zoned
       /\ "late" \in Outlook(p, q, zoned) <=> FALSE \in p /\ TRUE \in q /\ zoned
       /\ "none" \in Outlook(p, q, zoned) <=> FALSE \in p /\ FALSE \in q /\ zoned
       /\ Outlook(p, q, zoned) \subseteq {"raised", "late", "none"}
  BY ONLY <1>4, <1>5, <1>10, zoned \in BOOLEAN, OutlookFacts, Zenon
<1>14. needed <= near => needed <= far
  BY <1>8
<1>15. "raised" \in answers <=> needed >= far \/ ~zoned
  BY ONLY <1>4, <1>12, <1>13, Zenon
<1>16. "late" \in answers <=> needed >= near /\ needed <= far /\ zoned
  BY ONLY <1>4, <1>5, <1>6, <1>12, <1>13, Zenon
<1>17. "none" \in answers <=> needed <= near /\ zoned
  BY ONLY <1>4, <1>5, <1>6, <1>12, <1>13, <1>14, Zenon
<1>18. "stalled" \notin answers
  <2>1. "stalled" \notin {"raised", "late", "none"}
    OBVIOUS
  <2> QED
    BY ONLY <1>12, <1>13, <2>1, Zenon
<1> QED
  BY ONLY <1>4, <1>5, <1>6, <1>15, <1>16, <1>17, <1>18, Zenon DEF ProgressOnLine

\* predict_sla_breach of progress that never rises.
LEMMA StillFound ==
    ASSUME NEW points, Rightward(points), Len(points) >= 2, NEW now0 \in Int, NEW d \in Int, NEW zoned \in BOOLEAN,
           NEW answers,
           answers = Answers(Outlook(Past(points, now0, EndOfTime), Past(points, now0, d), zoned),
                             Exceeds(points, Fit(points).rise, 0))
    PROVE  ProgressThatFalls(points, answers)
<1> SUFFICES ASSUME NeverRises(points) PROVE ProgressThatFalls(points, answers)
  BY DEF ProgressThatFalls
<1> DEFINE p == Past(points, now0, EndOfTime)
           q == Past(points, now0, d)
           up == Exceeds(points, Fit(points).rise, 0)
<1>1. PICK rise \in Int : rise = Rise(points) /\ rise <= 0
  BY NeverRisesFacts
<1>2. PICK slope \in Int : slope = Fit(points).rise /\ slope <= 0 /\ (rise < 0 => slope < 0)
  BY <1>1, NoRiseFound, FitFacts DEF IsFit
<1>3. Compares(up, slope, 0, Rounded(points))
  BY <1>2, Comparison
<1>4. FALSE \in up
  BY ONLY <1>2, <1>3, Zenon DEF Compares
<1>5. ASSUME TRUE \in up PROVE rise = 0 /\ Rounded(points)
  <2>1. slope > 0 \/ (slope = 0 /\ Rounded(points))
    BY ONLY <1>3, <1>5, Zenon DEF Compares
  <2> QED
    BY <1>1, <1>2, <2>1
<1>6. "stalled" \in answers
  BY ONLY <1>4, answers = Answers(Outlook(p, q, zoned), up), Zenon DEF Answers
<1>7. TRUE \notin up => answers = {"stalled"}
  <2>1. answers = Answers(Outlook(p, q, zoned), up)
    OBVIOUS
  <2> HIDE DEF p, q, up
  <2>2. ASSUME TRUE \notin up PROVE \A answer : answer \in answers <=> answer = "stalled"
    BY ONLY <1>4, <2>1, <2>2, Zenon DEF Answers
  <2> QED
    BY ONLY <2>2
<1>8. rise = 0 => OnALine(points) /\ \A i \in DOMAIN points : points[i].y = Last(points).y
  BY <1>1, NeverRisesFacts
<1>9. ASSUME TRUE \in up PROVE Rise(points) = 0 /\ Last(points).y # 0
  <2>1. rise = 0 /\ Rounded(points)
    BY <1>5, <1>9
  <2> QED
    BY <1>1, <1>8, <2>1 DEF Rounded
<1>10. ASSUME TRUE \in up, Last(points).y < 100 PROVE answers \subseteq {"stalled", "raised"}
  <2>1. OnALine(points) /\ Rise(points) = 0
    BY <1>1, <1>5, <1>8, <1>10
  <2>2. EndOfTime \in Int
    BY PredictionsAssumption
  <2>3. p \subseteq {TRUE}
    BY <1>10, <2>1, <2>2, PastOfStill
  <2>4. answers = Answers(Outlook(p, q, zoned), up)
    OBVIOUS
  <2> HIDE DEF p, q, up
  <2>5. ASSUME NEW answer \in Outlook(p, q, zoned) PROVE answer = "raised"
    <3>1. PICK overflow \in p, late0 \in q :
             answer = IF overflow \/ ~zoned THEN "raised" ELSE IF late0 THEN "late" ELSE "none"
      BY ONLY <2>5, Zenon DEF Outlook
    <3>2. overflow = TRUE
      BY <2>3, <3>1
    <3> QED
      BY ONLY <3>1, <3>2
  <2>6. \A answer \in answers : answer = "stalled" \/ answer = "raised"
    BY ONLY <2>4, <2>5, Zenon DEF Answers
  <2> QED
    BY <2>6
<1> HIDE DEF up
<1>11. answers # {"stalled"} => Rise(points) = 0 /\ Last(points).y # 0
  BY ONLY <1>7, <1>9, Zenon
<1>12. Last(points).y < 100 => answers \subseteq {"stalled", "raised"}
  <2>1. {"stalled"} \subseteq {"stalled", "raised"}
    OBVIOUS
  <2> QED
    BY ONLY <1>7, <1>10, <2>1, Zenon
<1> QED
  BY ONLY <1>6, <1>11, <1>12, Zenon DEF ProgressThatFalls

\* predict_sla_breach of an entity.
LEMMA ProgressExtended ==
    ASSUME NEW log, IsLog(log), NEW e
    PROVE  ProgressIsExtended(log, e)
<1> DEFINE steps == Progress(log, e)
           zoned == Zoned(log, e)
           up == Exceeds(steps, Fit(steps).rise, 0)
<1>1. Rightward(steps)
  BY ReadingsRunRightward DEF Progress
<1>2. ASSUME Len(steps) >= 2, NEW d \in SlaDeadline(log, e)
      PROVE  /\ ProgressOnLine(steps, SlaAnswers(log, e), Len(log), d, zoned)
             /\ ProgressThatFalls(steps, SlaAnswers(log, e))
  <2>1. SlaDeadline(log, e) = {d} /\ d \in Int /\ d <= EndOfTime
    BY <1>2, DeadlineFacts
  <2>2. ~(Len(steps) < 2) /\ SlaDeadline(log, e) # {}
    <3>1. PICK n \in Nat : n = Len(steps)
      BY <1>1, PointFacts
    <3>2. ~(n < 2)
      BY <1>2, <3>1
    <3> QED
      BY <1>2, <3>1, <3>2
  <2>3. PICK now0 \in Int : now0 = Len(log)
    <3>1. PICK n \in Nat : n = Len(log)
      BY Zenon DEF IsLog
    <3>2. n \in Int
      OBVIOUS
    <3> QED
      BY <3>1, <3>2, Zenon
  <2>4. PICK p : p = Past(steps, now0, EndOfTime)
    OBVIOUS
  <2>5. PICK q : q = Past(steps, now0, d)
    OBVIOUS
  <2>6. UNION {Past(steps, now0, f) : f \in SlaDeadline(log, e)} = q
    BY <2>1, <2>5
  <2>7. zoned \in BOOLEAN
    BY DEF Zoned
  <2>8. Completion(log, e) = Outlook(p, q, zoned)
    <3>1. Completion(log, e) =
            {answer \in {"raised", "late", "none"} :
                \E overflow \in p, late0 \in UNION {Past(steps, now0, f) : f \in SlaDeadline(log, e)} :
                    answer = IF overflow \/ ~zoned THEN "raised" ELSE IF late0 THEN "late" ELSE "none"}
      BY <2>3, <2>4 DEF Completion
    <3> HIDE DEF zoned, steps
    <3> QED
      BY ONLY <2>6, <3>1, Zenon DEF Outlook
  <2>9. SlaAnswers(log, e) = Answers(Completion(log, e), up)
    BY <2>2 DEF SlaAnswers, Answers
  <2>10. PICK answers : answers = SlaAnswers(log, e)
    OBVIOUS
  <2>11. answers = Answers(Outlook(Past(steps, now0, EndOfTime), Past(steps, now0, d), zoned),
                           Exceeds(steps, Fit(steps).rise, 0))
    BY <2>4, <2>5, <2>8, <2>9, <2>10
  <2> HIDE DEF steps, zoned, up
  <2>12. ProgressOnLine(steps, answers, now0, d, zoned)
    BY <1>1, <1>2, <2>1, <2>7, <2>11, ProgressFound
  <2>13. ProgressThatFalls(steps, answers)
    BY <1>1, <1>2, <2>1, <2>7, <2>11, StillFound
  <2> QED
    BY <2>3, <2>10, <2>12, <2>13
<1>3. Len(steps) >= 2 =>
        \A d \in SlaDeadline(log, e) :
            /\ ProgressOnLine(steps, SlaAnswers(log, e), Len(log), d, zoned)
            /\ ProgressThatFalls(steps, SlaAnswers(log, e))
  BY <1>2
<1> QED
  BY <1>3 DEF ProgressIsExtended, steps, zoned

\* A division rounds down, below 0 too.
LEMMA DivisionRounds ==
    ASSUME NEW a \in Int, NEW d \in Nat, d > 0
    PROVE  a \div d \in Int /\ d * (a \div d) <= a /\ a < d * (a \div d) + d
<1>1. a \div d \in Int /\ a % d \in 0 .. d - 1 /\ a = d * (a \div d) + (a % d)
  OBVIOUS
<1>2. PICK q \in Int, r \in 0 .. d - 1 : q = a \div d /\ r = a % d /\ a = d * q + r
  BY <1>1
<1>3. d * q \in Int
  OBVIOUS
<1>4. d * q <= a /\ a < d * q + d
  BY <1>2, <1>3
<1> QED
  BY <1>2, <1>4

\* What is at least q times the divisor gives at least q.
LEMMA DivisionReaches ==
    ASSUME NEW a \in Int, NEW d \in Nat, d > 0, NEW q \in Int, d * q <= a
    PROVE  q <= a \div d
<1>1. PICK p \in Int : p = a \div d /\ a < d * p + d
  BY DivisionRounds
<1>2. CASE q <= p
  BY <1>1, <1>2
<1>3. CASE q >= p + 1
  <2>1. d * q >= d * (p + 1)
    <3>1. (p + 1) * d <= q * d
      BY <1>3, MultiplyOrder
    <3> QED
      BY <3>1
  <2>2. d * (p + 1) = d * p + d
    OBVIOUS
  <2>3. d * p \in Int /\ d * q \in Int
    OBVIOUS
  <2> QED
    BY <1>1, <2>1, <2>2, <2>3
<1> QED
  BY <1>2, <1>3

\* A division keeps the order, below 0 too.
LEMMA DivisionKeepsOrder ==
    ASSUME NEW a \in Int, NEW b \in Int, NEW d \in Nat, d > 0, a <= b
    PROVE  a \div d <= b \div d
<1>1. PICK q \in Int : q = a \div d /\ d * q <= a
  BY DivisionRounds
<1>2. d * q <= b
  <2>1. d * q \in Int
    OBVIOUS
  <2> QED
    BY <1>1, <2>1
<1> QED
  BY <1>1, <1>2, DivisionReaches

\* Rounding to the nearest keeps the order, and does not go below an integer already reached.
LEMMA NearestFacts ==
    ASSUME NEW d \in Nat, d > 0, NEW a \in Int
    PROVE  /\ Nearest(a, d) \in Int
           /\ \A b \in Int : a <= b => Nearest(a, d) <= Nearest(b, d)
           /\ \A q \in Int : q * d <= a => q <= Nearest(a, d)
<1>1. PICK k \in Nat : k = 2 * d /\ k > 0
  OBVIOUS
<1>2. \A b \in Int : 2 * b + d \in Int /\ Nearest(b, d) = (2 * b + d) \div k
  BY <1>1 DEF Nearest
<1>3. Nearest(a, d) \in Int
  BY <1>1, <1>2, DivisionRounds
<1>4. ASSUME NEW b \in Int, a <= b PROVE Nearest(a, d) <= Nearest(b, d)
  <2>1. PICK u \in Int : u = 2 * a + d
    OBVIOUS
  <2>2. PICK v \in Int : v = 2 * b + d /\ u <= v
    BY <1>4, <2>1
  <2>3. u \div k <= v \div k
    BY <1>1, <2>2, DivisionKeepsOrder
  <2> QED
    BY <1>2, <2>1, <2>2, <2>3
<1>5. ASSUME NEW q \in Int, q * d <= a PROVE q <= Nearest(a, d)
  <2>1. PICK u \in Int : u = 2 * a + d
    OBVIOUS
  <2>2. k * q = 2 * (q * d)
    BY <1>1
  <2>3. k * q <= u
    <3>1. PICK w \in Int : w = q * d
      OBVIOUS
    <3> QED
      BY <1>5, <2>1, <2>2, <3>1
  <2>4. q <= u \div k
    BY <1>1, <2>3, DivisionReaches
  <2> QED
    BY <1>2, <2>1, <2>4
<1> QED
  BY <1>3, <1>4, <1>5

\* The score of the signs, and n delays that come to a total.
ScoreOf(signs, n, total) == Lesser(Nearest(signs * n + Lesser(5 * total, 300 * n), n), 1000)

\* A score is at most 1000, grows with the signs and is not below them without early arrivals.
LEMMA ScoreFacts ==
    ASSUME NEW n \in Nat, n > 0, NEW total \in Int, NEW signs \in Nat
    PROVE  /\ ScoreOf(signs, n, total) \in Int /\ ScoreOf(signs, n, total) <= 1000
           /\ \A more \in Nat : signs <= more => ScoreOf(signs, n, total) <= ScoreOf(more, n, total)
           /\ total >= 0 => ScoreOf(signs, n, total) >= Lesser(signs, 1000)
<1>1. PICK lateness \in Int : lateness = Lesser(5 * total, 300 * n) /\ (total >= 0 => lateness >= 0)
  BY DEF Lesser
<1>2. \A s \in Nat : s * n \in Int /\ s * n + lateness \in Int
  OBVIOUS
<1>3. \A s \in Nat : ScoreOf(s, n, total) = Lesser(Nearest(s * n + lateness, n), 1000)
  BY <1>1 DEF ScoreOf
<1>4. \A s \in Nat : Nearest(s * n + lateness, n) \in Int
  BY <1>2, NearestFacts
<1>5. ScoreOf(signs, n, total) \in Int /\ ScoreOf(signs, n, total) <= 1000
  BY <1>3, <1>4 DEF Lesser
<1>6. ASSUME NEW more \in Nat, signs <= more PROVE ScoreOf(signs, n, total) <= ScoreOf(more, n, total)
  <2>1. signs * n <= more * n
    BY <1>6, MultiplyOrder
  <2>2. PICK u \in Int : u = signs * n + lateness
    BY <1>2
  <2>3. PICK v \in Int : v = more * n + lateness
    BY <1>2
  <2>4. u <= v
    BY <1>2, <2>1, <2>2, <2>3
  <2>5. Nearest(u, n) <= Nearest(v, n)
    BY <2>4, NearestFacts
  <2>6. PICK x \in Int : x = Nearest(u, n)
    BY <1>4, <2>2
  <2>7. PICK y \in Int : y = Nearest(v, n)
    BY <1>4, <2>3
  <2>8. Lesser(x, 1000) <= Lesser(y, 1000)
    BY <2>5, <2>6, <2>7 DEF Lesser
  <2> QED
    BY <1>3, <2>2, <2>3, <2>6, <2>7, <2>8
<1>7. ASSUME total >= 0 PROVE ScoreOf(signs, n, total) >= Lesser(signs, 1000)
  <2>1. PICK u \in Int : u = signs * n + lateness
    BY <1>2
  <2>2. signs * n <= u
    BY <1>1, <1>2, <1>7, <2>1
  <2>3. signs <= Nearest(u, n)
    BY <2>2, NearestFacts
  <2>4. PICK x \in Int : x = Nearest(u, n)
    BY <1>4, <2>1
  <2>5. Lesser(x, 1000) >= Lesser(signs, 1000)
    BY <2>3, <2>4 DEF Lesser
  <2> QED
    BY <1>3, <2>1, <2>4, <2>5
<1> QED
  BY <1>5, <1>6, <1>7

\* The signs other than delays.
Signs(log, active, e) == Lesser(100 * active[e], 400) + Lesser(60 * FlaggedOf(log, e), 300)

FlaggedPlaces(log, e) == {i \in DOMAIN log : log[i].entity = e /\ log[i].flagged}

\* Flagged events are counted by the number of their places.
LEMMA FlaggedFacts ==
    ASSUME NEW log, IsLog(log), NEW e
    PROVE  IsFiniteSet(FlaggedPlaces(log, e)) /\ FlaggedOf(log, e) = Cardinality(FlaggedPlaces(log, e)) /\ FlaggedOf(log, e) \in Nat
<1>1. IsFiniteSet(DOMAIN log)
  BY FS_Interval DEF IsLog
<1>2. FlaggedPlaces(log, e) \subseteq DOMAIN log
  BY DEF FlaggedPlaces
<1>3. IsFiniteSet(FlaggedPlaces(log, e))
  BY <1>1, <1>2, FS_Subset
<1>4. FlaggedOf(log, e) = Cardinality(FlaggedPlaces(log, e))
  BY DEF FlaggedOf, FlaggedPlaces
<1> QED
  BY <1>3, <1>4, FS_CardinalityType

\* The signs are worth between those of the active alerts and 700.
LEMMA SignsFacts ==
    ASSUME NEW log, IsLog(log), NEW e, NEW active, active[e] \in Nat
    PROVE  /\ Signs(log, active, e) \in 0 .. 700
           /\ Signs(log, active, e) >= Lesser(100 * active[e], 400) /\ Lesser(100 * active[e], 400) \in 0 .. 400
<1>1. PICK a \in Nat : a = active[e]
  OBVIOUS
<1>2. PICK f \in Nat : f = FlaggedOf(log, e)
  BY FlaggedFacts
<1> QED
  BY <1>1, <1>2 DEF Signs, Lesser

\* The score of an entity.
LEMMA RiskIs ==
    ASSUME NEW log, IsLog(log), NEW e, NEW active, active[e] \in Nat
    PROVE  /\ Delays(log, e) \in Seq(Points) /\ Rightward(Delays(log, e))
           /\ Tally(Delays(log, e), LAMBDA p : p.y) \in Int
           /\ RiskScore(log, active, e) =
                 IF Delays(log, e) = <<>> THEN Signs(log, active, e)
                 ELSE ScoreOf(Signs(log, active, e), Len(Delays(log, e)), Tally(Delays(log, e), LAMBDA p : p.y))
<1>1. Rightward(Delays(log, e))
  BY ReadingsRunRightward DEF Delays
<1>2. Delays(log, e) \in Seq(Points)
  BY <1>1 DEF Rightward
<1>3. Tally(Delays(log, e), LAMBDA p : p.y) \in Int
  <2>1. Coordinates(Delays(log, e), Len(Delays(log, e)))
    BY <1>1, ListFacts
  <2>2. Sum(Ys(Delays(log, e))) \in Int
    BY <2>1, SumType DEF Coordinates
  <2> QED
    BY <2>2 DEF Tally, Ys
<1> QED
  BY <1>1, <1>2, <1>3 DEF RiskScore, Signs, ScoreOf

\* The log before its last event.
IsFront(log, front) ==
    /\ IsLog(log) /\ IsLog(front) /\ Len(log) = Len(front) + 1
    /\ \A i \in 1 .. Len(front) : front[i] = log[i]

\* A log and what it was before its last event.
LEMMA FrontFacts ==
    ASSUME NEW E, \A event \in E : EventOfLog(event), NEW log \in Seq(E)
    PROVE  IsLog(log) /\ (log # <<>> => IsFront(log, Front(log)) /\ Last(log) = log[Len(log)])
<1>1. IsLog(log)
  <2>1. Len(log) \in Nat /\ DOMAIN log = 1 .. Len(log) /\ \A i \in 1 .. Len(log) : log[i] \in E
    OBVIOUS
  <2>2. \A i \in 1 .. Len(log) : EventOfLog(log[i])
    BY <2>1
  <2> QED
    BY <2>1, <2>2 DEF IsLog
<1>2. ASSUME log # <<>> PROVE IsFront(log, Front(log)) /\ Last(log) = log[Len(log)]
  <2>1. PICK n \in Nat : n = Len(log) /\ n > 0
    BY <1>2
  <2>2. PICK front : front = Front(log)
    OBVIOUS
  <2>3. front = SubSeq(log, 1, n - 1)
    BY <2>1, <2>2 DEF Front
  <2>4. /\ Len(front) = n - 1 /\ DOMAIN front = 1 .. n - 1 /\ \A i \in 1 .. n - 1 : front[i] = log[i]
    BY <2>1, <2>3
  <2>5. ASSUME NEW i \in DOMAIN front PROVE EventOfLog(front[i])
    <3>1. i \in DOMAIN log /\ front[i] = log[i]
      BY <2>1, <2>4
    <3> QED
      BY <1>1, <3>1 DEF IsLog
  <2>6. IsLog(front)
    BY <2>1, <2>4, <2>5 DEF IsLog
  <2>7. IsFront(log, front)
    BY <1>1, <2>1, <2>4, <2>6 DEF IsFront
  <2> QED
    BY <2>2, <2>7 DEF Last
<1> QED
  BY <1>1, <1>2

\* An event without a reading of the entity leaves its readings as they were.
LEMMA SamePoints ==
    ASSUME NEW log, NEW front, IsFront(log, front), NEW e, NEW field \in {"delay", "progress"},
           log[Len(log)].entity # e \/ log[Len(log)][field] = {}
    PROVE  PointsOf(log, e, field) = PointsOf(front, e, field)
<1>1. PICK m \in Nat : m = Len(front) /\ DOMAIN front = 1 .. m
  BY DEF IsFront, IsLog
<1>2. PICK n \in Nat : n = Len(log) /\ DOMAIN log = 1 .. n /\ n = m + 1
  BY <1>1 DEF IsFront, IsLog
<1>3. \A i \in 1 .. m : front[i] = log[i] /\ i \in 1 .. n
  BY <1>1, <1>2 DEF IsFront
<1> DEFINE set == PlacesOf(log, e, field)
           other == PlacesOf(front, e, field)
<1>4. \A i \in 1 .. m : i \in set <=> i \in other
  BY <1>1, <1>2, <1>3 DEF PlacesOf
<1>5. n \notin set
  BY <1>2 DEF PlacesOf
<1> HIDE DEF set, other
<1>6. Ascending(n, set) = Ascending(m, other)
  <2>1. m \in 0 .. n
    BY <1>2
  <2> QED
    BY <1>2, <1>4, <1>5, <2>1, AscendingNext
<1>7. PICK places : places = Ascending(m, other)
  OBVIOUS
<1>8. \A k \in DOMAIN places : places[k] \in 1 .. m
  <2>1. places \in Seq((1 .. m) \cap other)
    BY <1>7, AscendingFacts
  <2>2. \A k \in DOMAIN places : places[k] \in (1 .. m) \cap other
    BY <2>1
  <2> QED
    BY <2>2
<1>9. PointsOf(log, e, field)
        = [k \in DOMAIN places |-> [x |-> places[k], y |-> CHOOSE v \in log[places[k]][field] : TRUE]]
  BY <1>2, <1>6, <1>7 DEF PointsOf, PlacesOf, set
<1>10. PointsOf(front, e, field)
        = [k \in DOMAIN places |-> [x |-> places[k], y |-> CHOOSE v \in front[places[k]][field] : TRUE]]
  BY <1>1, <1>7 DEF PointsOf, PlacesOf, other
<1>11. \A k \in DOMAIN places : log[places[k]] = front[places[k]]
  BY <1>3, <1>8
<1> QED
  BY <1>9, <1>10, <1>11, ZenonT(60)

\* Flagged events are never fewer, and more only with a flagged event of the entity.
LEMMA FlaggedGrow ==
    ASSUME NEW log, NEW front, IsFront(log, front), NEW e
    PROVE  /\ FlaggedOf(log, e) >= FlaggedOf(front, e)
           /\ log[Len(log)].entity # e \/ ~log[Len(log)].flagged => FlaggedOf(log, e) = FlaggedOf(front, e)
<1>1. PICK m \in Nat : m = Len(front) /\ DOMAIN front = 1 .. m
  BY DEF IsFront, IsLog
<1>2. PICK n \in Nat : n = Len(log) /\ DOMAIN log = 1 .. n /\ n = m + 1
  BY <1>1 DEF IsFront, IsLog
<1>3. \A i \in 1 .. m : front[i] = log[i] /\ i \in 1 .. n
  BY <1>1, <1>2 DEF IsFront
<1>4. FlaggedPlaces(front, e) \subseteq FlaggedPlaces(log, e)
  BY <1>1, <1>2, <1>3 DEF FlaggedPlaces
<1>5. /\ IsFiniteSet(FlaggedPlaces(log, e)) /\ FlaggedOf(log, e) = Cardinality(FlaggedPlaces(log, e))
      /\ FlaggedOf(front, e) = Cardinality(FlaggedPlaces(front, e))
  BY FlaggedFacts DEF IsFront
<1>6. Cardinality(FlaggedPlaces(front, e)) <= Cardinality(FlaggedPlaces(log, e))
  BY <1>4, <1>5, FS_Subset
<1>7. FlaggedOf(log, e) \in Nat /\ FlaggedOf(front, e) \in Nat
  BY FlaggedFacts DEF IsFront
<1>8. ASSUME log[n].entity # e \/ ~log[n].flagged PROVE FlaggedPlaces(log, e) \subseteq FlaggedPlaces(front, e)
  <2> SUFFICES ASSUME NEW i \in FlaggedPlaces(log, e) PROVE i \in FlaggedPlaces(front, e)
    OBVIOUS
  <2>1. i \in 1 .. n /\ log[i].entity = e /\ log[i].flagged
    BY <1>2 DEF FlaggedPlaces
  <2>2. i # n
    BY <1>8, <2>1
  <2>3. i \in 1 .. m
    BY <1>2, <2>1, <2>2
  <2> QED
    BY <1>1, <1>3, <2>1, <2>3 DEF FlaggedPlaces
<1>9. ASSUME log[n].entity # e \/ ~log[n].flagged PROVE FlaggedPlaces(log, e) = FlaggedPlaces(front, e)
  BY <1>4, <1>8, <1>9
<1> QED
  BY <1>2, <1>5, <1>6, <1>7, <1>9

\* What one event more does to the score of an entity.
LEMMA NextScore ==
    ASSUME NEW log, NEW front, IsFront(log, front), NEW e, NEW active, active[e] \in Nat
    PROVE  LET final == log[Len(log)] IN
              /\ final.entity # e \/ (~final.flagged /\ final.delay = {}) =>
                    RiskScore(log, active, e) = RiskScore(front, active, e)
              /\ final.flagged /\ final.delay = {} => RiskScore(log, active, e) >= RiskScore(front, active, e)
<1> DEFINE final == log[Len(log)]
<1>1. IsLog(log) /\ IsLog(front)
  BY DEF IsFront
<1>2. ASSUME final.entity # e \/ final.delay = {} PROVE Delays(log, e) = Delays(front, e)
  BY <1>2, SamePoints DEF Delays
<1>3. /\ FlaggedOf(log, e) >= FlaggedOf(front, e)
      /\ final.entity # e \/ ~final.flagged => FlaggedOf(log, e) = FlaggedOf(front, e)
  BY FlaggedGrow
<1>4. FlaggedOf(log, e) \in Nat /\ FlaggedOf(front, e) \in Nat
  BY <1>1, FlaggedFacts
<1> HIDE DEF final
<1>5. PICK s \in Nat : s = Signs(front, active, e)
  BY <1>1, SignsFacts
<1>6. PICK t \in Nat : t = Signs(log, active, e)
  BY <1>1, SignsFacts
<1>7. s <= t
  <2>1. PICK a \in Nat : a = active[e]
    OBVIOUS
  <2>2. PICK f \in Nat : f = FlaggedOf(front, e)
    BY <1>4
  <2>3. PICK g \in Nat : g = FlaggedOf(log, e) /\ f <= g
    BY <1>3, <1>4, <2>2
  <2> QED
    BY <1>5, <1>6, <2>1, <2>2, <2>3 DEF Signs, Lesser
<1>8. ASSUME final.entity # e \/ (~final.flagged /\ final.delay = {})
      PROVE  RiskScore(log, active, e) = RiskScore(front, active, e)
  <2>1. Delays(log, e) = Delays(front, e) /\ FlaggedOf(log, e) = FlaggedOf(front, e)
    BY <1>2, <1>3, <1>8
  <2> QED
    BY <2>1 DEF RiskScore
<1>9. ASSUME final.flagged, final.delay = {} PROVE RiskScore(log, active, e) >= RiskScore(front, active, e)
  <2>1. Delays(log, e) = Delays(front, e)
    BY <1>2, <1>9
  <2>8. Delays(front, e) \in Seq(Points)
    BY <1>1, RiskIs
  <2>2. PICK n \in Nat : n = Len(Delays(front, e))
    BY <2>8
  <2>3. PICK total \in Int : total = Tally(Delays(front, e), LAMBDA p : p.y)
    BY <1>1, RiskIs
  <2>4. RiskScore(log, active, e) = IF Delays(front, e) = <<>> THEN t ELSE ScoreOf(t, n, total)
    BY <1>1, <1>6, <2>1, <2>2, <2>3, RiskIs
  <2>5. RiskScore(front, active, e) = IF Delays(front, e) = <<>> THEN s ELSE ScoreOf(s, n, total)
    BY <1>1, <1>5, <2>2, <2>3, RiskIs
  <2>6. CASE Delays(front, e) = <<>>
    BY <1>7, <2>4, <2>5, <2>6
  <2>7. CASE Delays(front, e) # <<>>
    <3>1. n > 0
      <4>1. Delays(front, e) \in Seq(Points)
        BY <1>1, RiskIs
      <4> QED
        BY <2>2, <2>7, <4>1
    <3>5. \A q \in Nat : ScoreOf(q, n, total) \in Int
      <4> SUFFICES ASSUME NEW q \in Nat PROVE ScoreOf(q, n, total) \in Int
        OBVIOUS
      <4> QED
        BY <3>1, ScoreFacts
    <3>2. PICK x \in Int : x = ScoreOf(s, n, total)
      BY <3>5
    <3>3. PICK y \in Int : y = ScoreOf(t, n, total)
      BY <3>5
    <3>4. x <= y
      BY <1>7, <3>1, <3>2, <3>3, ScoreFacts
    <3> QED
      BY <2>4, <2>5, <2>7, <3>2, <3>3, <3>4
  <2> QED
    BY <2>6, <2>7
<1> QED
  BY <1>8, <1>9 DEF final

\* An entity is in the log from its first event on.
LEMMA FirstEventFacts ==
    ASSUME NEW log, IsLog(log), NEW e \in EntitiesOf(log)
    PROVE  FirstEvent(log, e) \in DOMAIN log /\ log[FirstEvent(log, e)].entity = e
<1>1. PICK n \in Nat : n = Len(log) /\ DOMAIN log = 1 .. n
  BY DEF IsLog
<1> DEFINE T == {k \in 0 .. n : n - k \in 1 .. n /\ log[n - k].entity = e}
<1>2. T # {} /\ T \subseteq 0 .. n
  <2>1. PICK i \in 1 .. n : log[i].entity = e
    BY <1>1 DEF EntitiesOf
  <2>2. PICK k \in 0 .. n : k = n - i
    OBVIOUS
  <2>3. n - k = i
    BY <2>2
  <2>4. k \in T
    BY <2>1, <2>3
  <2> QED
    BY <2>4
<1>3. \A k \in 0 .. n : k \in T <=> n - k \in 1 .. n /\ log[n - k].entity = e
  OBVIOUS
<1> HIDE DEF T
<1>4. PICK k \in T : \A y \in T : y <= k
  <2>1. T \in SUBSET (0 .. n)
    BY <1>2
  <2> QED
    BY <1>2, <2>1, GreatestExists
<1>5. PICK i \in 1 .. n : i = n - k
  BY <1>2, <1>3, <1>4
<1>6. log[i].entity = e
  BY <1>2, <1>3, <1>5
<1>7. ASSUME NEW j \in 1 .. i - 1 PROVE log[j].entity # e
  <2>1. SUFFICES ASSUME log[j].entity = e PROVE FALSE
    OBVIOUS
  <2>2. PICK m \in 0 .. n : m = n - j /\ m > k
    BY <1>2, <1>5
  <2>3. n - m = j /\ j \in 1 .. n
    BY <2>2
  <2>4. m \in T
    BY <1>3, <2>1, <2>3
  <2> QED
    BY <1>2, <1>4, <2>2, <2>4
<1>8. \E first \in DOMAIN log : log[first].entity = e /\ \A j \in 1 .. first - 1 : log[j].entity # e
  BY <1>1, <1>6, <1>7
<1> QED
  BY <1>8 DEF FirstEvent

\* Scores are integers of at most 1000.
LEMMA ScoresAreIntegers ==
    ASSUME NEW log, IsLog(log), NEW e, NEW active, active[e] \in Nat
    PROVE  RiskScore(log, active, e) \in Int /\ RiskScore(log, active, e) <= 1000
<1>1. PICK s \in Nat : s = Signs(log, active, e) /\ s <= 700
  BY SignsFacts
<1>2. Delays(log, e) \in Seq(Points)
  BY RiskIs
<1>3. PICK n \in Nat : n = Len(Delays(log, e))
  BY <1>2
<1>4. PICK total \in Int : total = Tally(Delays(log, e), LAMBDA p : p.y)
  BY RiskIs
<1>5. RiskScore(log, active, e) = IF Delays(log, e) = <<>> THEN s ELSE ScoreOf(s, n, total)
  BY <1>1, <1>3, <1>4, RiskIs
<1>6. CASE Delays(log, e) = <<>>
  BY <1>1, <1>5, <1>6
<1>7. CASE Delays(log, e) # <<>>
  <2>1. n > 0
    BY <1>2, <1>3, <1>7
  <2>2. ScoreOf(s, n, total) \in Int /\ ScoreOf(s, n, total) <= 1000
    BY <2>1, ScoreFacts
  <2> QED
    BY <1>5, <1>7, <2>2
<1> QED
  BY <1>6, <1>7

\* Only delays that come to less than nothing lower a score.
LEMMA EarlyLowers ==
    ASSUME NEW log, IsLog(log), NEW e, NEW active, active[e] \in Nat,
           Tally(Delays(log, e), LAMBDA p : p.y) >= 0
    PROVE  RiskScore(log, active, e) >= Lesser(100 * active[e], 400)
<1>1. PICK s \in Nat : s = Signs(log, active, e) /\ s <= 700
  BY SignsFacts
<1>8. PICK l \in Nat : l = Lesser(100 * active[e], 400) /\ l <= s
  BY <1>1, SignsFacts
<1>2. Delays(log, e) \in Seq(Points)
  BY RiskIs
<1>3. PICK n \in Nat : n = Len(Delays(log, e))
  BY <1>2
<1>4. PICK total \in Int : total = Tally(Delays(log, e), LAMBDA p : p.y) /\ total >= 0
  BY RiskIs
<1>5. RiskScore(log, active, e) = IF Delays(log, e) = <<>> THEN s ELSE ScoreOf(s, n, total)
  BY <1>1, <1>3, <1>4, RiskIs
<1>6. CASE Delays(log, e) = <<>>
  BY <1>5, <1>6, <1>8
<1>7. CASE Delays(log, e) # <<>>
  <2>1. n > 0
    BY <1>2, <1>3, <1>7
  <2>2. ScoreOf(s, n, total) \in Int /\ ScoreOf(s, n, total) >= Lesser(s, 1000)
    BY <1>4, <2>1, ScoreFacts
  <2>3. PICK x \in Int : x = ScoreOf(s, n, total)
    BY <2>2
  <2>4. x >= s
    BY <1>1, <2>2, <2>3 DEF Lesser
  <2>5. x >= l
    BY <1>8, <2>4
  <2> QED
    BY <1>5, <1>7, <1>8, <2>3, <2>5
<1> QED
  BY <1>6, <1>7

\* The list of scores is complete and in order.
LEMMA ListInOrder ==
    ASSUME NEW log, IsLog(log), NEW active, \A e \in EntitiesOf(log) : active[e] \in Nat
    PROVE  LET list == RiskScores(log, active) IN
              /\ Range(list) = EntitiesOf(log)
              /\ \A i, j \in DOMAIN list : i < j =>
                    /\ list[i] # list[j]
                    /\ RiskScore(log, active, list[i]) >= RiskScore(log, active, list[j])
<1> DEFINE S == EntitiesOf(log)
           key == [e \in S |-> <<-RiskScore(log, active, e), FirstEvent(log, e)>>]
<1>1. PICK n \in Nat : n = Len(log) /\ DOMAIN log = 1 .. n
  BY DEF IsLog
<1>2. IsFiniteSet(S)
  <2> DEFINE f == [i \in 1 .. n |-> log[i].entity]
  <2>1. IsFiniteSet(1 .. n)
    BY FS_Interval
  <2>2. f \in Surjection(1 .. n, S)
    BY <1>1 DEF EntitiesOf, Surjection
  <2> QED
    BY <2>1, <2>2, FS_Surjection
<1>3. RiskScores(log, active) = Arranged(key)
  BY DEF RiskScores
<1>4. \A e \in S : RiskScore(log, active, e) \in Int
  BY ScoresAreIntegers
<1>5. \A e \in S : FirstEvent(log, e) \in 1 .. n /\ log[FirstEvent(log, e)].entity = e
  BY <1>1, FirstEventFacts
<1> HIDE DEF S
<1>6. DOMAIN key = S /\ \A e \in S : key[e] = <<-RiskScore(log, active, e), FirstEvent(log, e)>>
  OBVIOUS
<1> HIDE DEF key
<1>7. \A e \in S : key[e] \in Int \X Int
  <2> TAKE e \in S
  <2>1. PICK s \in Int : s = RiskScore(log, active, e)
    BY <1>4
  <2>2. PICK m \in 1 .. n : m = FirstEvent(log, e)
    BY <1>5
  <2>3. <<-s, m>> \in Int \X Int
    OBVIOUS
  <2> QED
    BY <1>6, <2>1, <2>2, <2>3
<1>8. \A e, f \in S : key[e] = key[f] => e = f
  <2> SUFFICES ASSUME NEW e \in S, NEW f \in S, key[e] = key[f] PROVE e = f
    OBVIOUS
  <2>1. FirstEvent(log, e) = FirstEvent(log, f)
    BY <1>6
  <2> QED
    BY <1>5, <2>1
<1>9. AreKeys(key)
  BY <1>2, <1>6, <1>7, <1>8 DEF AreKeys
<1>10. PICK list : list = RiskScores(log, active)
  OBVIOUS
<1>11. /\ list \in Seq(S) /\ Range(list) = S
       /\ \A i, j \in 1 .. Len(list) : i < j => Precedes(key[list[i]], key[list[j]])
       /\ \A i, j \in 1 .. Len(list) : i # j => list[i] # list[j]
  BY <1>3, <1>6, <1>9, <1>10, ArrangedFacts DEF Arranges
<1>12. PICK k \in Nat : k = Len(list) /\ DOMAIN list = 1 .. k
  BY <1>11
<1>13. ASSUME NEW i \in 1 .. k, NEW j \in 1 .. k, i < j
       PROVE  list[i] # list[j] /\ RiskScore(log, active, list[i]) >= RiskScore(log, active, list[j])
  <2>1. list[i] \in S /\ list[j] \in S /\ list[i] # list[j]
    BY <1>11, <1>12, <1>13
  <2>2. Precedes(key[list[i]], key[list[j]])
    BY <1>11, <1>12, <1>13
  <2>3. PICK s \in Int : s = RiskScore(log, active, list[i])
    BY <1>4, <2>1
  <2>4. PICK t \in Int : t = RiskScore(log, active, list[j])
    BY <1>4, <2>1
  <2>5. key[list[i]][1] = -s /\ key[list[j]][1] = -t
    BY <1>6, <2>1, <2>3, <2>4
  <2>6. -s <= -t
    BY <2>2, <2>5 DEF Precedes
  <2>7. s >= t
    BY <2>6
  <2> QED
    BY <2>1, <2>3, <2>4, <2>7
<1> QED
  BY <1>10, <1>11, <1>12, <1>13 DEF S

\* PredictiveEngine, for any events: what predict_sla_breach, predict_delay and get_risk_scores say
\* follows from the readings, the deadlines and the signs.
THEOREM PredictionsFollow ==
    ASSUME NEW E, \A event \in E : EventOfLog(event), NEW log \in Seq(E),
           NEW active, \A event \in E : active[event.entity] \in Nat
    PROVE  PredictionsAreSound(log, active)
<1>1. IsLog(log) /\ (log # <<>> => IsFront(log, Front(log)) /\ Last(log) = log[Len(log)])
  BY FrontFacts
<1>2. \A e \in EntitiesOf(log) : active[e] \in Nat
  <2>1. \A i \in DOMAIN log : log[i] \in E
    OBVIOUS
  <2> QED
    BY <2>1 DEF EntitiesOf
<1>3. \A e \in EntitiesOf(log) : LinesAreExtended(log, e)
  BY <1>1, DelaysExtended, ProgressExtended DEF LinesAreExtended
<1>4. ASSUME log # <<>>, NEW e \in EntitiesOf(Front(log))
      PROVE  LET final == Last(log) IN
                /\ final.entity # e \/ (~final.flagged /\ final.delay = {}) =>
                      RiskScore(log, active, e) = RiskScore(Front(log), active, e)
                /\ final.flagged /\ final.delay = {} => RiskScore(log, active, e) >= RiskScore(Front(log), active, e)
  <2>1. IsFront(log, Front(log)) /\ Last(log) = log[Len(log)]
    BY <1>1, <1>4
  <2>2. e \in EntitiesOf(log)
    <3>1. \A i \in DOMAIN Front(log) : i \in DOMAIN log /\ Front(log)[i] = log[i]
      BY <2>1 DEF IsFront, IsLog
    <3> QED
      BY <3>1 DEF EntitiesOf
  <2>3. active[e] \in Nat
    BY <1>2, <2>2
  <2> QED
    BY <2>1, <2>3, NextScore
<1>5. ASSUME NEW e \in EntitiesOf(log)
      PROVE  /\ RiskScore(log, active, e) <= 1000
             /\ RiskScore(log, active, e) < Lesser(100 * active[e], 400) =>
                   Tally(Delays(log, e), LAMBDA p : p.y) < 0
  <2>1. active[e] \in Nat
    BY <1>2
  <2>2. PICK score \in Int : score = RiskScore(log, active, e) /\ score <= 1000
    BY <1>1, <2>1, ScoresAreIntegers
  <2>3. PICK total \in Int : total = Tally(Delays(log, e), LAMBDA p : p.y)
    BY <1>1, <2>1, RiskIs
  <2>4. PICK l \in Int : l = Lesser(100 * active[e], 400)
    <3>1. PICK a \in Nat : a = active[e]
      BY <2>1
    <3>2. Lesser(100 * a, 400) \in Int
      BY DEF Lesser
    <3> QED
      BY <3>1, <3>2
  <2>5. total >= 0 => score >= l
    BY <1>1, <2>1, <2>2, <2>3, <2>4, EarlyLowers
  <2>6. score < l => total < 0
    BY <2>5
  <2> QED
    BY <2>2, <2>3, <2>4, <2>6
<1>6. LET list == RiskScores(log, active) IN
         /\ Range(list) = EntitiesOf(log)
         /\ \A i, j \in DOMAIN list : i < j =>
               /\ list[i] # list[j]
               /\ RiskScore(log, active, list[i]) >= RiskScore(log, active, list[j])
  BY <1>1, <1>2, ListInOrder
<1>7. RiskFollowsSigns(log, active)
  BY <1>4, <1>5, <1>6 DEF RiskFollowsSigns
<1> QED
  BY <1>3, <1>7 DEF PredictionsAreSound
================================================================================
