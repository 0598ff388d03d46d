----------------------------- MODULE Lists_proofs -----------------------------
(***************************************************************************)
(* Facts about lists, for lists of any length.  They rest on induction in  *)
(* the form of a set: a set of numbers that holds 0 and the successors of  *)
(* its elements holds all of them.                                         *)
(***************************************************************************)
EXTENDS Lists, FiniteSetTheorems, SequenceTheorems, TLAPS

-----------------------------------------------------------------------------
(* Induction                                                               *)

\* A set of numbers has a least one: the intervals below them are finite sets,
\* which inclusion orders well.
LEMMA LeastNumber ==
  ASSUME NEW T \in SUBSET Nat, T # {}
  PROVE  \E n \in T : \A m \in T : n <= m
<1> DEFINE U == {1..n : n \in T}
<1>1. U \subseteq FiniteSubsetsOf(Nat)
  BY FS_Interval DEF FiniteSubsetsOf
<1>2. PICK x \in U : \A y \in U : ~ (<<y, x>> \in StrictSubsetOrdering(Nat))
  <2>1. U # {}
    OBVIOUS
  <2> HIDE DEF U
  <2> QED
    BY <1>1, <2>1, FS_StrictSubsetOrderingWellFounded, WFMin
<1>3. PICK n \in T : x = 1..n
  BY <1>2
<1>4. SUFFICES ASSUME NEW m \in T, m < n
               PROVE  FALSE
  BY <1>3
<1>5. 1..m \in U /\ 1..m \subseteq Nat /\ 1..n \subseteq Nat /\ 1..m \subseteq 1..n
  BY <1>4
<1>6. n \in 1..n /\ n \notin 1..m
  BY <1>4
<1>7. <<1..m, 1..n>> \in StrictSubsetOrdering(Nat)
  BY <1>5, <1>6 DEF StrictSubsetOrdering
<1> QED
  BY <1>2, <1>3, <1>5, <1>7

LEMMA LeastIs ==
  ASSUME NEW T \in SUBSET Nat, T # {}
  PROVE  Min(T) \in T /\ \A m \in T : Min(T) <= m
<1>1. \E n \in T : \A m \in T : n <= m
  BY LeastNumber
<1> QED
  BY <1>1 DEF Min

\* There is only one.
LEMMA LeastOnly ==
  ASSUME NEW T \in SUBSET Nat, NEW n \in T, \A m \in T : n <= m
  PROVE  Min(T) = n
<1>1. Min(T) \in T /\ \A m \in T : Min(T) <= m
  BY LeastIs
<1>2. Min(T) <= n /\ n <= Min(T) /\ n \in Nat /\ Min(T) \in Nat
  BY <1>1
<1> QED
  BY <1>2

\* Induction up to n.
LEMMA IntervalInduction ==
  ASSUME NEW n \in Nat, NEW S, 0 \in S,
         \A i \in 0..(n - 1) : i \in S => i + 1 \in S
  PROVE  0..n \subseteq S
<1>1. SUFFICES ASSUME (0..n) \ S # {}
               PROVE  FALSE
  OBVIOUS
<1>2. PICK k \in (0..n) \ S : \A m \in (0..n) \ S : k <= m
  <2> DEFINE T == (0..n) \ S
  <2>1. T \in SUBSET Nat /\ T # {}
    BY <1>1
  <2> HIDE DEF T
  <2>2. \E k \in T : \A m \in T : k <= m
    BY <2>1, LeastNumber
  <2> QED
    BY <2>2 DEF T
<1>3. k - 1 \in 0..(n - 1) /\ (k - 1) + 1 = k
  BY <1>2
<1>4. k - 1 \in S
  BY <1>2, <1>3
<1> QED
  BY <1>2, <1>3, <1>4

\* f begins with base and goes on by g.
IsLoop(f, n, Y, base, g) ==
    /\ f \in [0..n -> Y]
    /\ f = [i \in 0..n |-> IF i = 0 THEN base ELSE g[i][f[i - 1]]]

\* A loop of n steps has a result.
LEMMA LoopExists ==
  ASSUME NEW n \in Nat, NEW Y, NEW base \in Y, NEW g \in [1..n -> [Y -> Y]]
  PROVE  \E f : IsLoop(f, n, Y, base, g)
<1> DEFINE Upto(k) == \E f \in [0..k -> Y] :
                         f = [i \in 0..k |-> IF i = 0 THEN base ELSE g[i][f[i - 1]]]
           S == {k \in 0..n : Upto(k)}
<1>1. 0 \in S
  <2>1. Upto(0)
    <3> DEFINE f == [i \in 0..0 |-> base]
    <3>1. f \in [0..0 -> Y] /\ f = [i \in 0..0 |-> IF i = 0 THEN base ELSE g[i][f[i - 1]]]
      OBVIOUS
    <3> QED
      BY <3>1
  <2> QED
    BY <2>1
<1>2. ASSUME NEW k \in 0..(n - 1), k \in S
      PROVE  k + 1 \in S
  <2>1. PICK f \in [0..k -> Y] :
           f = [i \in 0..k |-> IF i = 0 THEN base ELSE g[i][f[i - 1]]]
    BY <1>2
  <2> DEFINE h == [i \in 0..(k + 1) |-> IF i = k + 1 THEN g[i][f[k]] ELSE f[i]]
  <2>2. g[k + 1] \in [Y -> Y] /\ f[k] \in Y /\ k \in Nat
    BY <1>2
  <2>3. h \in [0..(k + 1) -> Y]
    BY <2>2
  <2>4. ASSUME NEW i \in 0..(k + 1)
        PROVE  h[i] = IF i = 0 THEN base ELSE g[i][h[i - 1]]
    <3>1. CASE i = k + 1
      <4>1. h[i - 1] = f[k] /\ i # 0
        BY <2>2, <3>1
      <4> QED
        BY <3>1, <4>1
    <3>2. CASE i # k + 1
      <4>1. i \in 0..k /\ h[i] = f[i]
        BY <2>2, <3>2
      <4>2. i # 0 => i - 1 \in 0..(k + 1) /\ i - 1 # k + 1
        BY <2>2, <4>1
      <4> QED
        BY <2>1, <4>1, <4>2
    <3> QED
      BY <3>1, <3>2
  <2>5. h = [i \in 0..(k + 1) |-> IF i = 0 THEN base ELSE g[i][h[i - 1]]]
    <3>1. h = [i \in 0..(k + 1) |-> h[i]]
      OBVIOUS
    <3> HIDE DEF h
    <3> QED
      BY <2>4, <3>1
  <2>6. Upto(k + 1)
    BY <2>3, <2>5
  <2>7. k + 1 \in 0..n
    OBVIOUS
  <2> HIDE DEF Upto
  <2> QED
    BY <2>6, <2>7
<1>3. 0..n \subseteq S
  <2> HIDE DEF S
  <2> QED
    BY <1>1, <1>2, IntervalInduction
<1> QED
  BY <1>3 DEF IsLoop

-----------------------------------------------------------------------------
(* The elements of a list                                                  *)

LEMMA ToSetType ==
  ASSUME NEW X, NEW l \in Seq(X)
  PROVE  /\ ToSet(l) \subseteq X
         /\ Len(l) \in Nat /\ DOMAIN l = 1..Len(l)
         /\ \A i \in 1..Len(l) : l[i] \in X /\ l[i] \in ToSet(l)
         /\ \A e \in ToSet(l) : \E i \in 1..Len(l) : l[i] = e
         /\ \A e : Contains(l, e) <=> e \in ToSet(l)
BY DEF ToSet, Contains

LEMMA ConcatSet ==
  ASSUME NEW X, NEW a \in Seq(X), NEW b \in Seq(X)
  PROVE  /\ a \o b \in Seq(X)
         /\ ToSet(a \o b) = ToSet(a) \cup ToSet(b)
         /\ Len(a \o b) = Len(a) + Len(b)
         /\ \A i \in 1..Len(a) : (a \o b)[i] = a[i]
         /\ \A i \in 1..Len(b) : (a \o b)[Len(a) + i] = b[i]
<1>1. /\ a \o b \in Seq(X) /\ Len(a \o b) = Len(a) + Len(b)
      /\ \A i \in 1..Len(a) : (a \o b)[i] = a[i]
      /\ \A i \in 1..Len(b) : (a \o b)[Len(a) + i] = b[i]
  OBVIOUS
<1>2. ASSUME NEW i \in 1..Len(a \o b)
      PROVE  (a \o b)[i] \in ToSet(a) \cup ToSet(b)
  <2>1. CASE i \in 1..Len(a)
    BY <1>1, <2>1, ToSetType
  <2>2. CASE i \notin 1..Len(a)
    <3>1. i - Len(a) \in 1..Len(b) /\ Len(a) + (i - Len(a)) = i
      BY <1>1, <2>2
    <3>2. (a \o b)[i] = b[i - Len(a)]
      BY <1>1, <3>1
    <3> QED
      BY <3>1, <3>2, ToSetType
  <2> QED
    BY <2>1, <2>2
<1>3. ToSet(a) \subseteq ToSet(a \o b)
  <2> SUFFICES ASSUME NEW i \in 1..Len(a)
               PROVE  a[i] \in ToSet(a \o b)
    BY ToSetType
  <2>1. i \in 1..Len(a \o b)
    BY <1>1
  <2> QED
    BY <1>1, <2>1, ToSetType
<1>4. ToSet(b) \subseteq ToSet(a \o b)
  <2> SUFFICES ASSUME NEW i \in 1..Len(b)
               PROVE  b[i] \in ToSet(a \o b)
    BY ToSetType
  <2>1. Len(a) + i \in 1..Len(a \o b)
    BY <1>1
  <2> QED
    BY <1>1, <2>1, ToSetType
<1>5. ToSet(a \o b) \subseteq ToSet(a) \cup ToSet(b)
  <2> SUFFICES ASSUME NEW e \in ToSet(a \o b)
               PROVE  e \in ToSet(a) \cup ToSet(b)
    OBVIOUS
  <2>1. PICK i \in 1..Len(a \o b) : (a \o b)[i] = e
    BY <1>1, ToSetType
  <2> QED
    BY <1>2, <2>1
<1> QED
  BY <1>1, <1>3, <1>4, <1>5

\* Two lists without repetitions that have nothing in common make one.
LEMMA ConcatInjective ==
  ASSUME NEW X, NEW a \in Seq(X), NEW b \in Seq(X),
         IsInjective(a), IsInjective(b), ToSet(a) \cap ToSet(b) = {}
  PROVE  IsInjective(a \o b)
<1> DEFINE c == a \o b
<1>1. /\ c \in Seq(X) /\ Len(c) = Len(a) + Len(b)
      /\ \A i \in 1..Len(a) : c[i] = a[i] /\ a[i] \in ToSet(a)
      /\ \A i \in 1..Len(b) : c[Len(a) + i] = b[i] /\ b[i] \in ToSet(b)
  BY ConcatSet, ToSetType
<1>2. \A i \in 1..Len(c) : i \notin 1..Len(a) =>
         i - Len(a) \in 1..Len(b) /\ c[i] = b[i - Len(a)]
  <2> SUFFICES ASSUME NEW i \in 1..Len(c), i \notin 1..Len(a)
               PROVE  i - Len(a) \in 1..Len(b) /\ c[i] = b[i - Len(a)]
    OBVIOUS
  <2>1. i - Len(a) \in 1..Len(b) /\ Len(a) + (i - Len(a)) = i
    BY <1>1
  <2> QED
    BY <1>1, <2>1
<1>0. /\ \A i, j \in 1..Len(a) : a[i] = a[j] => i = j
      /\ \A i, j \in 1..Len(b) : b[i] = b[j] => i = j
  <2>1. DOMAIN a = 1..Len(a) /\ DOMAIN b = 1..Len(b)
    OBVIOUS
  <2> QED
    BY <2>1 DEF IsInjective
<1> HIDE DEF c
<1>3. ASSUME NEW i \in 1..Len(c), NEW j \in 1..Len(c), c[i] = c[j]
      PROVE  i = j
  <2>1. CASE i \in 1..Len(a) /\ j \in 1..Len(a)
    <3>1. c[i] = a[i] /\ c[j] = a[j]
      BY <1>1, <2>1
    <3> QED
      BY <1>0, <1>3, <2>1, <3>1
  <2>2. CASE i \notin 1..Len(a) /\ j \notin 1..Len(a)
    <3>1. /\ i - Len(a) \in 1..Len(b) /\ c[i] = b[i - Len(a)]
          /\ j - Len(a) \in 1..Len(b) /\ c[j] = b[j - Len(a)]
      BY <1>2, <2>2
    <3>2. i - Len(a) = j - Len(a)
      BY <1>0, <1>3, <3>1
    <3>3. i \in Int /\ j \in Int /\ Len(a) \in Int
      OBVIOUS
    <3> QED
      BY <3>2, <3>3
  <2>3. CASE i \in 1..Len(a) /\ j \notin 1..Len(a)
    BY <1>1, <1>2, <1>3, <2>3
  <2>4. CASE i \notin 1..Len(a) /\ j \in 1..Len(a)
    BY <1>1, <1>2, <1>3, <2>4
  <2> QED
    BY <2>1, <2>2, <2>3, <2>4
<1> QED
  BY <1>1, <1>3 DEF IsInjective, c

LEMMA AppendSet ==
  ASSUME NEW X, NEW l \in Seq(X), NEW e \in X
  PROVE  /\ Append(l, e) \in Seq(X)
         /\ ToSet(Append(l, e)) = ToSet(l) \cup {e}
         /\ Len(Append(l, e)) = Len(l) + 1
         /\ \A i \in 1..Len(l) : Append(l, e)[i] = l[i]
         /\ Append(l, e)[Len(l) + 1] = e
         /\ IsInjective(l) /\ e \notin ToSet(l) => IsInjective(Append(l, e))
<1> DEFINE b == <<e>>
<1>1. Append(l, e) = l \o b /\ b \in Seq(X) /\ Len(b) = 1 /\ b[1] = e
  OBVIOUS
<1>2. ToSet(b) = {e} /\ IsInjective(b)
  BY <1>1 DEF ToSet, IsInjective
<1>3. IsInjective(l) /\ e \notin ToSet(l) => IsInjective(l \o b)
  <2> HIDE DEF b
  <2> QED
    BY <1>1, <1>2, ConcatInjective
<1>4. /\ Append(l, e) \in Seq(X) /\ Len(Append(l, e)) = Len(l) + 1
      /\ \A i \in 1..Len(l) : Append(l, e)[i] = l[i]
      /\ Append(l, e)[Len(l) + 1] = e
  OBVIOUS
<1>5. ToSet(l \o b) = ToSet(l) \cup {e}
  <2> HIDE DEF b
  <2> QED
    BY <1>1, <1>2, ConcatSet
<1> QED
  BY <1>1, <1>3, <1>4, <1>5

\* What Keep keeps.
LEMMA KeepFacts ==
  ASSUME NEW X, NEW list \in Seq(X), NEW S
  PROVE  /\ Keep(list, S) \in Seq(X)
         /\ ToSet(Keep(list, S)) = ToSet(list) \cap S
         /\ IsInjective(list) => IsInjective(Keep(list, S))
<1> DEFINE n == Len(list)
           Step(y, i) == IF list[i] \in S THEN Append(y, list[i]) ELSE y
           g == [i \in 1..n |-> [y \in Seq(X) |-> Step(y, i)]]
           kept == CHOOSE f : f = [i \in 0..n |-> IF i = 0 THEN <<>> ELSE Step(f[i - 1], i)]
<1>1. n \in Nat /\ \A i \in 1..n : list[i] \in X
  BY ToSetType
<1>2. kept = [i \in 0..n |-> IF i = 0 THEN <<>> ELSE Step(kept[i - 1], i)]
  <2>1. g \in [1..n -> [Seq(X) -> Seq(X)]]
    BY <1>1
  <2>2. <<>> \in Seq(X)
    OBVIOUS
  <2>3. PICK f \in [0..n -> Seq(X)] :
           f = [i \in 0..n |-> IF i = 0 THEN <<>> ELSE g[i][f[i - 1]]]
    <3> DEFINE Y == Seq(X)
               base == <<>>
    <3>1. base \in Y /\ g \in [1..n -> [Y -> Y]] /\ n \in Nat
      BY <1>1, <2>1, <2>2
    <3> HIDE DEF g, n, Y, base
    <3>2. \E f : IsLoop(f, n, Y, base, g)
      BY <3>1, LoopExists
    <3> QED
      BY <3>2 DEF IsLoop, Y, base
  <2>4. ASSUME NEW i \in 1..n
        PROVE  g[i][f[i - 1]] = Step(f[i - 1], i)
    <3>1. f[i - 1] \in Seq(X)
      <4> HIDE DEF g, Step
      <4> QED
        BY <1>1
    <3>2. g[i] = [y \in Seq(X) |-> Step(y, i)]
      <4> HIDE DEF Step, n
      <4> QED
        BY <2>4
    <3> HIDE DEF g, Step
    <3> QED
      BY <3>1, <3>2
  <2>5. \A i \in 0..n : f[i] = IF i = 0 THEN <<>> ELSE Step(f[i - 1], i)
    <3> HIDE DEF g, Step, n
    <3>1. \A i \in 0..n : f[i] = IF i = 0 THEN <<>> ELSE g[i][f[i - 1]]
      BY <2>3
    <3>2. \A i \in 0..n : i # 0 => i \in 1..n
      BY <1>1
    <3> QED
      BY <2>4, <3>1, <3>2
  <2>6. f = [i \in 0..n |-> IF i = 0 THEN <<>> ELSE Step(f[i - 1], i)]
    <3> HIDE DEF g, Step
    <3> QED
      BY <2>3, <2>5
  <2> HIDE DEF Step, n
  <2> QED
    BY <2>6
<1>3. kept[0] = <<>> /\ \A i \in 1..n : kept[i] = Step(kept[i - 1], i)
  <2> HIDE DEF Step, kept
  <2> QED
    BY <1>1, <1>2
<1>4. Keep(list, S) = kept[n]
  BY DEF Keep
<1> DEFINE Upto(i) ==
             /\ kept[i] \in Seq(X)
             /\ ToSet(kept[i]) = {list[j] : j \in 1..i} \cap S
             /\ IsInjective(list) => IsInjective(kept[i])
           Good == {i \in 0..n : Upto(i)}
<1> HIDE DEF kept
<1>5. 0 \in Good
  <2>1. <<>> \in Seq(X) /\ ToSet(<<>>) = {} /\ IsInjective(<<>>)
    BY DEF ToSet, IsInjective
  <2>2. {list[j] : j \in 1..0} = {}
    OBVIOUS
  <2>3. Upto(0)
    BY <1>3, <2>1, <2>2
  <2> HIDE DEF Upto
  <2> QED
    BY <1>1, <2>3
<1>6. ASSUME NEW i \in 0..(n - 1), i \in Good
      PROVE  i + 1 \in Good
  <2>1. i + 1 \in 1..n /\ (i + 1) - 1 = i /\ i \in Nat /\ list[i + 1] \in X
    BY <1>1
  <2>2. kept[i + 1] = Step(kept[i], i + 1)
    <3> HIDE DEF Step
    <3> QED
      BY <1>3, <2>1
  <2>3. 1..(i + 1) = (1..i) \cup {i + 1}
    BY <2>1
  <2>4. {list[j] : j \in 1..(i + 1)} = {list[j] : j \in 1..i} \cup {list[i + 1]}
    <3> HIDE DEF n
    <3> QED
      BY <2>3
  <2>5. CASE list[i + 1] \in S
    <3>1. kept[i + 1] = Append(kept[i], list[i + 1])
      BY <2>2, <2>5
    <3>2. kept[i + 1] \in Seq(X) /\ ToSet(kept[i + 1]) = ToSet(kept[i]) \cup {list[i + 1]}
      BY <1>6, <2>1, <3>1, AppendSet
    <3>3. IsInjective(list) => list[i + 1] \notin ToSet(kept[i])
      <4>1. IsInjective(list) => \A j \in 1..i : list[j] # list[i + 1]
        BY <1>1, <2>1 DEF IsInjective
      <4> QED
        BY <1>6, <4>1
    <3>4. IsInjective(list) => IsInjective(kept[i + 1])
      BY <1>6, <2>1, <3>1, <3>3, AppendSet
    <3>5. ToSet(kept[i + 1]) = {list[j] : j \in 1..(i + 1)} \cap S
      BY <1>6, <2>4, <2>5, <3>2
    <3>6. Upto(i + 1)
      BY <3>2, <3>4, <3>5
    <3> HIDE DEF Upto
    <3> QED
      BY <1>1, <2>1, <3>6
  <2>6. CASE list[i + 1] \notin S
    <3>1. kept[i + 1] = kept[i]
      BY <2>2, <2>6
    <3>2. {list[j] : j \in 1..(i + 1)} \cap S = {list[j] : j \in 1..i} \cap S
      BY <2>4, <2>6
    <3>3. Upto(i + 1)
      BY <1>6, <3>1, <3>2
    <3> HIDE DEF Upto
    <3> QED
      BY <1>1, <2>1, <3>3
  <2> QED
    BY <2>5, <2>6
<1>7. 0..n \subseteq Good
  <2> HIDE DEF Good, n
  <2> QED
    BY <1>1, <1>5, <1>6, IntervalInduction
<1>8. Upto(n)
  <2> HIDE DEF Upto
  <2> QED
    BY <1>1, <1>7
<1>9. ToSet(list) = {list[j] : j \in 1..n}
  BY <1>1 DEF ToSet
<1> QED
  BY <1>4, <1>8, <1>9

LEMMA HeadTailSet ==
  ASSUME NEW X, NEW l \in Seq(X), l # <<>>
  PROVE  /\ Head(l) \in ToSet(l) /\ Tail(l) \in Seq(X)
         /\ ToSet(l) = {Head(l)} \cup ToSet(Tail(l))
         /\ IsInjective(l) => Head(l) \notin ToSet(Tail(l)) /\ IsInjective(Tail(l))
<1>1. Len(l) \in Nat /\ Len(l) > 0 /\ Head(l) = l[1] /\ DOMAIN l = 1..Len(l)
  OBVIOUS
<1>2. /\ Tail(l) \in Seq(X) /\ Len(Tail(l)) = Len(l) - 1
      /\ DOMAIN Tail(l) = 1..(Len(l) - 1)
      /\ \A i \in 1..(Len(l) - 1) : Tail(l)[i] = l[i + 1]
  BY <1>1
<1>3. \A i \in 1..(Len(l) - 1) : i + 1 \in 1..Len(l) /\ i + 1 # 1
  BY <1>1
<1>4. \A i \in 1..Len(l) : i # 1 => i - 1 \in 1..(Len(l) - 1) /\ (i - 1) + 1 = i
  BY <1>1
<1>5. Head(l) \in ToSet(l) /\ \A i \in 1..Len(l) : l[i] \in ToSet(l)
  BY <1>1, ToSetType
<1>6. ToSet(Tail(l)) \subseteq ToSet(l)
  <2> SUFFICES ASSUME NEW i \in 1..(Len(l) - 1)
               PROVE  Tail(l)[i] \in ToSet(l)
    BY <1>2 DEF ToSet
  <2> QED
    BY <1>2, <1>3, <1>5
<1>7. ToSet(l) \subseteq {Head(l)} \cup ToSet(Tail(l))
  <2> SUFFICES ASSUME NEW i \in 1..Len(l), i # 1
               PROVE  l[i] \in ToSet(Tail(l))
    BY <1>1 DEF ToSet
  <2>1. l[i] = Tail(l)[i - 1] /\ i - 1 \in DOMAIN Tail(l)
    BY <1>2, <1>4
  <2> QED
    BY <2>1 DEF ToSet
<1>8. IsInjective(l) => Head(l) \notin ToSet(Tail(l))
  BY <1>1, <1>2, <1>3 DEF IsInjective, ToSet
<1>9. IsInjective(l) => IsInjective(Tail(l))
  BY <1>1, <1>2, <1>3 DEF IsInjective
<1> QED
  BY <1>2, <1>5, <1>6, <1>7, <1>8, <1>9

LEMMA ReverseSet ==
  ASSUME NEW X, NEW l \in Seq(X)
  PROVE  /\ Reverse(l) \in Seq(X) /\ ToSet(Reverse(l)) = ToSet(l)
         /\ IsInjective(l) => IsInjective(Reverse(l))
<1> DEFINE n == Len(l)
           r == [i \in 1..n |-> l[(n - i) + 1]]
<1>1. n \in Nat /\ DOMAIN l = 1..n /\ \A i \in 1..n : l[i] \in X /\ (n - i) + 1 \in 1..n
  BY ToSetType
<1>2. r = Reverse(l)
  BY DEF Reverse
<1>3. r \in Seq(X) /\ DOMAIN r = 1..n /\ \A i \in 1..n : r[i] = l[(n - i) + 1]
  <2>1. r \in [1..n -> X]
    BY <1>1
  <2> QED
    BY <1>1, <2>1
<1> HIDE DEF n, r
<1>4. ToSet(r) = ToSet(l)
  <2>1. ToSet(r) \subseteq ToSet(l)
    BY <1>1, <1>3 DEF ToSet
  <2>2. ASSUME NEW i \in 1..n
        PROVE  l[i] \in ToSet(r)
    <3>1. (n - i) + 1 \in 1..n /\ (n - ((n - i) + 1)) + 1 = i
      BY <1>1
    <3>2. r[(n - i) + 1] = l[i]
      BY <1>3, <3>1
    <3> QED
      BY <1>3, <3>1, <3>2 DEF ToSet
  <2>3. ToSet(l) \subseteq ToSet(r)
    BY <1>1, <2>2 DEF ToSet
  <2> QED
    BY <2>1, <2>3
<1>5. IsInjective(l) => IsInjective(r)
  <2> SUFFICES ASSUME IsInjective(l), NEW i \in 1..n, NEW j \in 1..n, r[i] = r[j]
               PROVE  i = j
    BY <1>3 DEF IsInjective
  <2>1. (n - i) + 1 = (n - j) + 1
    BY <1>1, <1>3 DEF IsInjective
  <2> QED
    BY <1>1, <2>1
<1> QED
  BY <1>2, <1>3, <1>4, <1>5

LEMMA ToSetFinite ==
  ASSUME NEW X, NEW l \in Seq(X)
  PROVE  /\ IsFiniteSet(ToSet(l)) /\ Cardinality(ToSet(l)) \in Nat
         /\ IsInjective(l) => Cardinality(ToSet(l)) = Len(l)
<1> DEFINE D == 1..Len(l)
<1>1. Len(l) \in Nat /\ l \in [D -> ToSet(l)] /\ DOMAIN l = D
  BY ToSetType
<1>2. l \in Surjection(D, ToSet(l))
  BY <1>1 DEF Surjection, ToSet
<1>3. IsFiniteSet(D)
  BY <1>1, FS_Interval
<1>4. IsFiniteSet(ToSet(l)) /\ Cardinality(ToSet(l)) \in Nat
  BY <1>2, <1>3, FS_Surjection, FS_CardinalityType
<1>5. ASSUME IsInjective(l)
      PROVE  Cardinality(ToSet(l)) = Len(l)
  <2>1. l \in Bijection(D, ToSet(l))
    BY <1>1, <1>2, <1>5 DEF Bijection, Injection
  <2>2. ExistsBijection(D, ToSet(l))
    BY <2>1 DEF ExistsBijection
  <2> QED
    BY <1>1, <2>2, FS_CountingElements
<1> QED
  BY <1>4, <1>5

\* The lists of the elements of a list.
LEMMA ListsOfSet ==
  ASSUME NEW X, NEW list \in Seq(X), NEW l \in SetToSeqs(ToSet(list))
  PROVE  /\ l \in Seq(X) /\ ToSet(l) = ToSet(list) /\ IsInjective(l)
         /\ IsInjective(list) => Len(l) = Len(list)
<1> DEFINE S == ToSet(list)
           D == 1..Cardinality(S)
<1>1. IsFiniteSet(S) /\ Cardinality(S) \in Nat /\ S \subseteq X
  BY ToSetFinite, ToSetType
<1>2. l \in [D -> S] /\ \A i, j \in D : i # j => l[i] # l[j]
  BY DEF SetToSeqs
<1>3. l \in Seq(X) /\ Len(l) = Cardinality(S)
  BY <1>1, <1>2
<1>4. IsInjective(l) /\ l \in Injection(D, S)
  BY <1>2 DEF IsInjective, Injection
<1>5. IsFiniteSet(D) /\ Cardinality(D) = Cardinality(S)
  BY <1>1, FS_Interval
<1>6. l \in Surjection(D, S)
  BY <1>1, <1>4, <1>5, FS_Injection
<1>7. ToSet(l) = S
  <2> HIDE DEF S, D
  <2>1. DOMAIN l = D /\ \A i \in D : l[i] \in S
    BY <1>2
  <2>2. \A x \in S : \E i \in D : l[i] = x
    BY <1>6 DEF Surjection
  <2>3. ToSet(l) = {l[i] : i \in D}
    BY <2>1 DEF ToSet
  <2> QED
    BY <2>1, <2>2, <2>3
<1> QED
  BY <1>3, <1>4, <1>7, ToSetFinite

\* A finite set of numbers has a greatest one.
LEMMA GreatestNumber ==
  ASSUME NEW S \in SUBSET Nat, IsFiniteSet(S), S # {}
  PROVE  /\ Max(S) \in S
         /\ \A x \in S : x <= Max(S)
<1>1. PICK n \in Nat : ExistsBijection(1..n, S)
  BY FS_NatBijection
<1>2. PICK h \in Bijection(1..n, S) : TRUE
  BY <1>1 DEF ExistsBijection
<1>3. /\ h \in [1..n -> S]
      /\ \A x \in S : \E i \in 1..n : h[i] = x
  BY <1>2 DEF Bijection, Injection, Surjection
<1> DEFINE Bound(b, i) == \A j \in 1..i : h[j] <= b
           Bounded(i) == \E b \in Nat : Bound(b, i)
           G == {i \in 0..n : Bounded(i)}
<1>4. 0 \in G
  <2>1. Bound(0, 0)
    OBVIOUS
  <2>2. Bounded(0)
    BY <2>1
  <2> HIDE DEF Bounded
  <2> QED
    BY <2>2
<1>5. ASSUME NEW i \in 0..(n - 1), i \in G
      PROVE  i + 1 \in G
  <2>1. PICK b \in Nat : Bound(b, i)
    BY <1>5
  <2>2. i + 1 \in 1..n /\ h[i + 1] \in Nat
    <3>1. i + 1 \in 1..n
      OBVIOUS
    <3>2. h[i + 1] \in S
      BY <1>3, <3>1
    <3> QED
      BY <3>1, <3>2
  <2> DEFINE c == IF h[i + 1] <= b THEN b ELSE h[i + 1]
  <2>3. c \in Nat /\ b <= c /\ h[i + 1] <= c
    BY <2>2
  <2> HIDE DEF c
  <2>4. \A j \in 1..(i + 1) : j \in 1..n /\ (j \in 1..i \/ j = i + 1)
    BY <2>2
  <2>5. ASSUME NEW j \in 1..(i + 1)
        PROVE  h[j] <= c
    <3>1. h[j] \in Nat
      BY <1>3, <2>4
    <3> QED
      BY <2>1, <2>3, <2>4, <3>1
  <2>6. Bounded(i + 1)
    BY <2>3, <2>5
  <2> HIDE DEF Bounded
  <2> QED
    BY <2>2, <2>6
<1>6. Bounded(n)
  <2>1. 0..n \subseteq G
    <3> HIDE DEF G
    <3> QED
      BY <1>4, <1>5, IntervalInduction
  <2> HIDE DEF Bounded
  <2> QED
    BY <2>1
<1> DEFINE T == {b \in Nat : \A x \in S : x <= b}
<1>7. T # {}
  BY <1>3, <1>6
<1>8. PICK m \in T : \A b \in T : m <= b
  <2> HIDE DEF T
  <2>1. T \in SUBSET Nat
    BY DEF T
  <2> QED
    BY <1>7, <2>1, LeastNumber
<1>9. m \in S
  <2> SUFFICES ASSUME m \notin S
               PROVE  FALSE
    OBVIOUS
  <2>1. m # 0 /\ \A x \in S : x <= m - 1
    <3>1. PICK x \in S : TRUE
      OBVIOUS
    <3>2. \A y \in S : y \in Nat /\ y <= m /\ y # m
      BY <1>8
    <3> QED
      BY <3>1, <3>2
  <2>2. m - 1 \in T
    BY <1>8, <2>1
  <2> QED
    BY <1>8, <2>2
<1>10. \E x \in S : \A y \in S : x >= y
  BY <1>8, <1>9
<1>11. Max(S) \in S /\ \A y \in S : Max(S) >= y
  BY <1>10 DEF Max
<1> QED
  BY <1>11

-----------------------------------------------------------------------------
(* Lists of lists                                                          *)

\* What FlattenSeq computes is what a loop that appends one list after the
\* other leaves.
LEMMA FlattenIs ==
  ASSUME NEW X, NEW s \in Seq(Seq(X)), NEW F \in [0..Len(s) -> Seq(X)],
         F[0] = <<>>, \A i \in 1..Len(s) : F[i] = F[i - 1] \o s[i]
  PROVE  FlattenSeq(s) = F[Len(s)]
<1> DEFINE n == Len(s)
           flat == CHOOSE f : f = [i \in 1..n |-> IF i = 1 THEN s[i] ELSE f[i - 1] \o s[i]]
<1>1. /\ n \in Nat /\ \A i \in 1..n : s[i] \in Seq(X)
      /\ \A i \in 1..n : F[i] = F[i - 1] \o s[i]
      /\ 1 \in 1..n => F[1] = s[1]
  <2>1. n \in Nat /\ \A i \in 1..n : s[i] \in Seq(X)
    BY ToSetType
  <2>2. \A i \in 1..n : F[i] = F[i - 1] \o s[i]
    OBVIOUS
  <2>3. ASSUME 1 \in 1..n PROVE F[1] = s[1]
    <3>0. F[1] = F[1 - 1] \o s[1]
      <4> HIDE DEF n
      <4> QED
        BY <2>2, <2>3
    <3>1. F[1] = F[0] \o s[1]
      <4>1. 1 - 1 = 0
        OBVIOUS
      <4> QED
        BY <3>0, <4>1, Zenon
    <3>2. <<>> \o s[1] = s[1]
      BY <2>1, <2>3
    <3> QED
      BY <3>1, <3>2
  <2> QED
    BY <2>1, <2>2, <2>3
<1>2. CASE n = 0
  <2>1. s = <<>>
    BY <1>2
  <2> QED
    BY <1>2, <2>1 DEF FlattenSeq
<1>3. CASE n # 0
  <2> DEFINE G == [i \in 1..n |-> F[i]]
  <2>1. \A i \in 1..n : i - 1 \in 0..n /\ (i # 1 => i - 1 \in 1..n) /\ i \in 0..n
    BY <1>1
  <2>2. \A i \in 1..n : G[i] = IF i = 1 THEN s[i] ELSE G[i - 1] \o s[i]
    <3> SUFFICES ASSUME NEW i \in 1..n
                 PROVE  G[i] = IF i = 1 THEN s[i] ELSE G[i - 1] \o s[i]
      OBVIOUS
    <3>1. CASE i = 1
      BY <1>1, <3>1
    <3>2. CASE i # 1
      BY <1>1, <2>1, <3>2
    <3> QED
      BY <3>1, <3>2
  <2>3. G = [i \in 1..n |-> IF i = 1 THEN s[i] ELSE G[i - 1] \o s[i]]
    <3>1. G = [i \in 1..n |-> G[i]]
      OBVIOUS
    <3> HIDE DEF G
    <3> QED
      BY <2>2, <3>1
  <2>4. flat = [i \in 1..n |-> IF i = 1 THEN s[i] ELSE flat[i - 1] \o s[i]]
    <3> HIDE DEF G, n
    <3> QED
      BY <2>3
  <2> HIDE DEF flat
  <2>5. \A i \in 1..n : flat[i] = IF i = 1 THEN s[i] ELSE flat[i - 1] \o s[i]
    BY <2>4
  <2> DEFINE Same == {i \in 0..n : i = 0 \/ flat[i] = F[i]}
  <2>6. 0 \in Same
    BY <1>1
  <2>7. ASSUME NEW i \in 0..(n - 1), i \in Same
        PROVE  i + 1 \in Same
    <3>1. i + 1 \in 1..n /\ (i + 1) - 1 = i
      BY <1>1
    <3>2. i \in Nat /\ flat[i + 1] = IF i + 1 = 1 THEN s[i + 1] ELSE flat[(i + 1) - 1] \o s[i + 1]
      BY <1>1, <2>5, <3>1
    <3>3. F[i + 1] = F[i] \o s[i + 1]
      BY <1>1, <3>1
    <3>4. flat[i + 1] = F[i + 1]
      <4>1. CASE i = 0
        BY <1>1, <3>1, <3>2, <4>1
      <4>2. CASE i # 0
        <5>1. flat[i] = F[i] /\ i + 1 # 1
          BY <2>7, <3>2, <4>2
        <5> QED
          BY <3>1, <3>2, <3>3, <5>1
      <4> QED
        BY <4>1, <4>2
    <3> QED
      BY <1>1, <3>1, <3>4
  <2>8. 0..n \subseteq Same
    <3> HIDE DEF Same, n
    <3> QED
      BY <1>1, <2>6, <2>7, IntervalInduction
  <2>9. flat[n] = F[n]
    BY <1>1, <1>3, <2>8
  <2>10. FlattenSeq(s) = flat[n]
    BY <1>3 DEF FlattenSeq, flat
  <2> QED
    BY <2>9, <2>10
<1> QED
  BY <1>2, <1>3

\* One more list at a time.
LEMMA FlattenPrefix ==
  ASSUME NEW X, NEW s \in Seq(Seq(X))
  PROVE  /\ FlattenSeq(s) \in Seq(X)
         /\ \A k \in 0..Len(s) : FlattenSeq(SubSeq(s, 1, k)) \in Seq(X)
         /\ FlattenSeq(SubSeq(s, 1, 0)) = <<>>
         /\ \A k \in 1..Len(s) :
              FlattenSeq(SubSeq(s, 1, k)) = FlattenSeq(SubSeq(s, 1, k - 1)) \o s[k]
<1> DEFINE n == Len(s)
           Y == Seq(X)
           base == <<>>
           g == [i \in 1..n |-> [y \in Y |-> y \o s[i]]]
<1>1. n \in Nat /\ \A i \in 1..n : s[i] \in Seq(X)
  BY ToSetType
<1>2. PICK F : IsLoop(F, n, Y, base, g)
  <2>1. base \in Y /\ g \in [1..n -> [Y -> Y]]
    <3>1. \A i \in 1..n : [y \in Y |-> y \o s[i]] \in [Y -> Y]
      BY <1>1
    <3> HIDE DEF n
    <3> QED
      BY <3>1
  <2> HIDE DEF n, Y, base, g
  <2> QED
    BY <1>1, <2>1, LoopExists
<1>3. F \in [0..n -> Seq(X)] /\ F[0] = <<>> /\ \A i \in 1..n : F[i] = F[i - 1] \o s[i]
  <2>1. F \in [0..n -> Y] /\ F = [i \in 0..n |-> IF i = 0 THEN base ELSE g[i][F[i - 1]]]
    BY <1>2 DEF IsLoop
  <2>2. \A i \in 1..n : i \in 0..n /\ i - 1 \in 0..n /\ i # 0
    BY <1>1
  <2>3. F[0] = base /\ \A i \in 1..n : F[i] = g[i][F[i - 1]] /\ F[i - 1] \in Y
    <3> HIDE DEF n, Y, base, g
    <3> QED
      BY <1>1, <2>1, <2>2
  <2>4. \A i \in 1..n : g[i][F[i - 1]] = F[i - 1] \o s[i]
    <3> HIDE DEF n, Y
    <3> QED
      BY <2>3
  <2> QED
    BY <2>1, <2>3, <2>4
<1> HIDE DEF n, Y, base, g
<1>4. ASSUME NEW k \in 0..n
      PROVE  FlattenSeq(SubSeq(s, 1, k)) = F[k]
  <2> DEFINE t == SubSeq(s, 1, k)
             H == [i \in 0..k |-> F[i]]
  <2>1. t \in Seq(Seq(X)) /\ Len(t) = k /\ \A i \in 1..k : t[i] = s[i]
    BY <1>1 DEF n
  <2>2. \A i \in 1..k : i \in 1..n /\ i - 1 \in 0..k /\ i \in 0..k
    BY <1>1
  <2>3. H \in [0..k -> Seq(X)] /\ H[0] = <<>>
    BY <1>1, <1>3
  <2>4. \A i \in 1..k : H[i] = H[i - 1] \o t[i]
    BY <1>3, <2>1, <2>2
  <2>5. H[k] = F[k]
    BY <1>1
  <2> HIDE DEF t, H
  <2>6. FlattenSeq(t) = H[k]
    BY <2>1, <2>3, <2>4, FlattenIs
  <2> QED
    BY <2>5, <2>6 DEF t
<1>5. FlattenSeq(s) = F[n]
  <2>1. SubSeq(s, 1, n) = s
    BY DEF n
  <2>2. n \in 0..n
    BY <1>1
  <2> QED
    BY <1>4, <2>1, <2>2
<1>6. \A k \in 1..n : k \in 0..n /\ k - 1 \in 0..n
  BY <1>1
<1>7. n \in 0..n /\ 0 \in 0..n
  BY <1>1
<1>8. FlattenSeq(s) \in Seq(X) /\ \A k \in 0..n : FlattenSeq(SubSeq(s, 1, k)) \in Seq(X)
  BY <1>3, <1>4, <1>5, <1>7
<1>9. FlattenSeq(SubSeq(s, 1, 0)) = <<>>
  BY <1>3, <1>4, <1>7
<1>10. ASSUME NEW k \in 1..n
       PROVE  FlattenSeq(SubSeq(s, 1, k)) = FlattenSeq(SubSeq(s, 1, k - 1)) \o s[k]
  BY <1>3, <1>4, <1>6
<1> QED
  BY <1>8, <1>9, <1>10 DEF n

LEMMA FlattenEmpty ==
  FlattenSeq(<<>>) = <<>>
BY DEF FlattenSeq

LEMMA FlattenAppend ==
  ASSUME NEW X, NEW s \in Seq(Seq(X)), NEW e \in Seq(X)
  PROVE  FlattenSeq(Append(s, e)) = FlattenSeq(s) \o e
<1> DEFINE t == Append(s, e)
           k == Len(s) + 1
<1>1. /\ t \in Seq(Seq(X)) /\ Len(t) = k /\ k \in 1..Len(t) /\ t[k] = e
      /\ SubSeq(t, 1, k) = t /\ SubSeq(t, 1, k - 1) = s
  OBVIOUS
<1> HIDE DEF t, k
<1>2. FlattenSeq(SubSeq(t, 1, k)) = FlattenSeq(SubSeq(t, 1, k - 1)) \o t[k]
  BY <1>1, FlattenPrefix
<1> QED
  BY <1>1, <1>2 DEF t

LEMMA FlattenConcat ==
  ASSUME NEW X, NEW s \in Seq(Seq(X)), NEW t \in Seq(Seq(X))
  PROVE  FlattenSeq(s \o t) = FlattenSeq(s) \o FlattenSeq(t)
<1> DEFINE n == Len(t)
           Upto(k) == FlattenSeq(s \o SubSeq(t, 1, k)) = FlattenSeq(s) \o FlattenSeq(SubSeq(t, 1, k))
           G == {k \in 0..n : Upto(k)}
<1>1. n \in Nat /\ FlattenSeq(s) \in Seq(X) /\ FlattenSeq(SubSeq(t, 1, 0)) = <<>>
  <2>1. n \in Nat
    OBVIOUS
  <2> QED
    BY <2>1, FlattenPrefix
<1>2. 0 \in G
  <2>1. s \o SubSeq(t, 1, 0) = s /\ FlattenSeq(s) \o <<>> = FlattenSeq(s)
    BY <1>1
  <2>2. Upto(0)
    BY <1>1, <2>1
  <2> HIDE DEF Upto
  <2> QED
    BY <1>1, <2>2
<1>3. ASSUME NEW k \in 0..(n - 1), k \in G
      PROVE  k + 1 \in G
  <2> DEFINE a == SubSeq(t, 1, k)
             e == t[k + 1]
  <2>1. /\ k + 1 \in 1..n /\ (k + 1) - 1 = k /\ k \in 0..n
        /\ a \in Seq(Seq(X)) /\ e \in Seq(X)
        /\ s \o SubSeq(t, 1, k + 1) = Append(s \o a, e) /\ s \o a \in Seq(Seq(X))
    BY <1>1
  <2>2. FlattenSeq(SubSeq(t, 1, k + 1)) = FlattenSeq(a) \o e
    BY <2>1, FlattenPrefix
  <2>3. FlattenSeq(a) \in Seq(X)
    BY <2>1, FlattenPrefix
  <2> HIDE DEF a, e
  <2>4. FlattenSeq(Append(s \o a, e)) = FlattenSeq(s \o a) \o e
    BY <2>1, FlattenAppend
  <2>5. FlattenSeq(s \o a) = FlattenSeq(s) \o FlattenSeq(a)
    BY <1>3 DEF a
  <2>6. (FlattenSeq(s) \o FlattenSeq(a)) \o e = FlattenSeq(s) \o (FlattenSeq(a) \o e)
    <3>1. FlattenSeq(s) \in Seq(X) /\ FlattenSeq(a) \in Seq(X) /\ e \in Seq(X)
      BY <1>1, <2>1, <2>3
    <3> HIDE DEF n
    <3> QED
      BY <3>1, ConcatAssociative
  <2>7. Upto(k + 1)
    BY <2>1, <2>2, <2>4, <2>5, <2>6
  <2> HIDE DEF Upto
  <2> QED
    BY <1>1, <2>1, <2>7
<1>4. 0..n \subseteq G
  <2> HIDE DEF G, n
  <2> QED
    BY <1>1, <1>2, <1>3, IntervalInduction
<1>5. Upto(n)
  <2> HIDE DEF Upto
  <2> QED
    BY <1>1, <1>4
<1>6. SubSeq(t, 1, n) = t
  OBVIOUS
<1> QED
  BY <1>5, <1>6

LEMMA FlattenOne ==
  ASSUME NEW X, NEW e \in Seq(X)
  PROVE  FlattenSeq(<<e>>) = e
<1>1. <<e>> = Append(<<>>, e) /\ <<>> \in Seq(Seq(X)) /\ <<>> \o e = e
  OBVIOUS
<1>2. FlattenSeq(Append(<<>>, e)) = FlattenSeq(<<>>) \o e
  BY <1>1, FlattenAppend
<1> QED
  BY <1>1, <1>2, FlattenEmpty

\* One list less at the front.
LEMMA FlattenFrom ==
  ASSUME NEW X, NEW s \in Seq(Seq(X)), NEW p \in 1..Len(s)
  PROVE  FlattenSeq(SubSeq(s, p, Len(s))) = s[p] \o FlattenSeq(SubSeq(s, p + 1, Len(s)))
<1>1. Len(s) \in p..Len(s) /\ s[p] \in Seq(X)
  OBVIOUS
<1>2. SubSeq(s, p, Len(s)) = <<s[p]>> \o SubSeq(s, p + 1, Len(s))
  BY <1>1, SubSeqRecursiveFirst
<1> DEFINE a == <<s[p]>>
           b == SubSeq(s, p + 1, Len(s))
<1>3. a \in Seq(Seq(X)) /\ b \in Seq(Seq(X)) /\ FlattenSeq(a) = s[p]
  BY <1>1, FlattenOne
<1> HIDE DEF a, b
<1>4. FlattenSeq(a \o b) = FlattenSeq(a) \o FlattenSeq(b)
  BY <1>3, FlattenConcat
<1> QED
  BY <1>2, <1>3, <1>4 DEF a, b

\* Empty lists leave no trace.
LEMMA FlattenSkip ==
  ASSUME NEW X, NEW s \in Seq(Seq(X)), NEW p \in 1..(Len(s) + 1), NEW r \in p..(Len(s) + 1),
         \A q \in p..(r - 1) : s[q] = <<>>
  PROVE  FlattenSeq(SubSeq(s, p, Len(s))) = FlattenSeq(SubSeq(s, r, Len(s)))
<1> DEFINE From(q) == FlattenSeq(SubSeq(s, q, Len(s)))
           n == r - p
           G == {i \in 0..n : From(p) = From(p + i)}
<1>1. n \in Nat /\ p \in Nat /\ r = p + n /\ p + 0 = p
  OBVIOUS
<1>2. 0 \in G
  BY <1>1
<1>3. ASSUME NEW i \in 0..(n - 1), i \in G
      PROVE  i + 1 \in G
  <2> DEFINE q == p + i
  <2>1. q \in p..(r - 1) /\ q \in 1..Len(s) /\ q + 1 = p + (i + 1) /\ i + 1 \in 0..n
    BY <1>1
  <2>2. From(q) = s[q] \o From(q + 1)
    <3> HIDE DEF q
    <3> QED
      BY <2>1, FlattenFrom
  <2>3. From(q + 1) \in Seq(X)
    <3>1. SubSeq(s, q + 1, Len(s)) \in Seq(Seq(X))
      BY <2>1
    <3> QED
      BY <3>1, FlattenPrefix
  <2>4. s[q] = <<>>
    BY <2>1
  <2> HIDE DEF From, q
  <2>5. From(q) = From(q + 1)
    BY <2>2, <2>3, <2>4, ConcatEmptySeq
  <2> QED
    BY <1>3, <2>1, <2>5 DEF q
<1>4. 0..n \subseteq G
  <2> HIDE DEF n, G
  <2> QED
    BY <1>1, <1>2, <1>3, IntervalInduction
<1>5. n \in G
  <2> HIDE DEF G
  <2> QED
    BY <1>1, <1>4
<1> HIDE DEF From
<1>6. From(p) = From(r)
  BY <1>1, <1>5
<1> QED
  BY <1>6 DEF From

-----------------------------------------------------------------------------
(* A list for each element of a list                                       *)

\* Opaque below, so that the lemmas apply by matching.
List(A)    == Seq(A)
Maps(A, B) == [A -> Seq(B)]

FlatMap(f, s) == FlattenSeq([i \in DOMAIN s |-> f[s[i]]])

\* The list h makes of an element is what g makes of the list f makes of it.
Composed(A, f, g, h) == \A a \in A : h[a] = FlatMap(g, f[a])

\* The list f makes of an element is the element g makes of it.
Single(A, f, g) == \A a \in A : f[a] = <<g[a]>>

LEMMA FlatMapLists ==
  ASSUME NEW A, NEW B, NEW f \in Maps(A, B), NEW s \in List(A)
  PROVE  /\ [i \in DOMAIN s |-> f[s[i]]] \in Seq(Seq(B))
         /\ Len([i \in DOMAIN s |-> f[s[i]]]) = Len(s)
<1> DEFINE n == Len(s)
           Y == Seq(B)
           l == [i \in 1..n |-> f[s[i]]]
<1>1. n \in Nat /\ DOMAIN s = 1..n /\ f \in [A -> Y] /\ \A i \in 1..n : s[i] \in A
  BY DEF Maps, List
<1> HIDE DEF n, Y
<1>2. l \in [1..n -> Y]
  BY <1>1
<1>3. l \in Seq(Y) /\ Len(l) = n
  BY <1>1, <1>2
<1> QED
  BY <1>1, <1>3 DEF n, Y

LEMMA FlatMapType ==
  ASSUME NEW A, NEW B, NEW f \in Maps(A, B), NEW s \in List(A)
  PROVE  FlatMap(f, s) \in List(B)
<1> DEFINE l == [i \in DOMAIN s |-> f[s[i]]]
<1>1. l \in Seq(Seq(B))
  BY FlatMapLists
<1> HIDE DEF l
<1>2. FlattenSeq(l) \in Seq(B)
  BY <1>1, FlattenPrefix
<1> QED
  BY <1>2 DEF FlatMap, l, List

LEMMA FlatMapEmpty ==
  ASSUME NEW f
  PROVE  FlatMap(f, <<>>) = <<>>
<1>1. [i \in DOMAIN <<>> |-> f[<<>>[i]]] = <<>>
  OBVIOUS
<1> QED
  BY <1>1, FlattenEmpty DEF FlatMap

LEMMA ListConcat ==
  ASSUME NEW A, NEW s \in List(A), NEW t \in List(A)
  PROVE  s \o t \in List(A) /\ <<>> \o s = s /\ s \o <<>> = s
BY DEF List

LEMMA ListAssociative ==
  ASSUME NEW A, NEW s \in List(A), NEW t \in List(A), NEW u \in List(A)
  PROVE  (s \o t) \o u = s \o (t \o u)
BY ConcatAssociative DEF List

LEMMA ConcatAt ==
  ASSUME NEW X, NEW a \in Seq(X), NEW b \in Seq(X)
  PROVE  /\ a \o b \in Seq(X) /\ Len(a \o b) = Len(a) + Len(b)
         /\ \A i \in 1..Len(a) : (a \o b)[i] = a[i]
         /\ \A i \in Len(a) + 1 .. Len(a) + Len(b) : (a \o b)[i] = b[i - Len(a)]
OBVIOUS

LEMMA FlatMapConcat ==
  ASSUME NEW A, NEW B, NEW f \in Maps(A, B), NEW s \in List(A), NEW t \in List(A)
  PROVE  FlatMap(f, s \o t) = FlatMap(f, s) \o FlatMap(f, t)
<1> DEFINE L(l) == [i \in DOMAIN l |-> f[l[i]]]
           u == s \o t
<1>0. u \in List(A) /\ s \in Seq(A) /\ t \in Seq(A) /\ Len(u) = Len(s) + Len(t)
  BY DEF List
<1>1. L(s) \in Seq(Seq(B)) /\ L(t) \in Seq(Seq(B)) /\ Len(L(s)) = Len(s) /\ Len(L(t)) = Len(t)
  BY FlatMapLists
<1>2. L(u) \in Seq(Seq(B)) /\ Len(L(u)) = Len(u)
  <2>1. u \in List(A)
    BY <1>0
  <2> HIDE DEF u
  <2> QED
    BY <2>1, FlatMapLists
<1>3. /\ L(s) \o L(t) \in Seq(Seq(B)) /\ Len(L(s) \o L(t)) = Len(s) + Len(t)
      /\ \A i \in 1..Len(s) : (L(s) \o L(t))[i] = L(s)[i]
      /\ \A i \in Len(s) + 1 .. Len(s) + Len(t) : (L(s) \o L(t))[i] = L(t)[i - Len(s)]
  <2> DEFINE Y == Seq(B)
             a == L(s)
             b == L(t)
  <2>1. a \in Seq(Y) /\ b \in Seq(Y) /\ Len(a) = Len(s) /\ Len(b) = Len(t)
    BY <1>1
  <2> HIDE DEF Y, a, b
  <2>2. /\ a \o b \in Seq(Y) /\ Len(a \o b) = Len(a) + Len(b)
        /\ \A i \in 1..Len(a) : (a \o b)[i] = a[i]
        /\ \A i \in Len(a) + 1 .. Len(a) + Len(b) : (a \o b)[i] = b[i - Len(a)]
    BY <2>1, ConcatAt
  <2> QED
    BY <2>1, <2>2, Zenon DEF Y, a, b
<1>4. ASSUME NEW i \in 1..(Len(s) + Len(t))
      PROVE  L(u)[i] = (L(s) \o L(t))[i]
  <2>1. CASE i <= Len(s)
    <3>1. i \in 1..Len(s) /\ i \in DOMAIN s /\ i \in DOMAIN u /\ u[i] = s[i]
      BY <1>0, <2>1
    <3>2. L(u)[i] = L(s)[i]
      BY <3>1
    <3> QED
      <4> HIDE DEF L
      <4> QED
        BY <1>3, <3>1, <3>2
  <2>2. CASE i > Len(s)
    <3> DEFINE j == i - Len(s)
    <3>1. i \in Len(s) + 1 .. Len(s) + Len(t) /\ j \in DOMAIN t /\ i \in DOMAIN u /\ u[i] = t[j]
      BY <1>0, <2>2
    <3>2. L(u)[i] = L(t)[j]
      <4> HIDE DEF j
      <4> QED
        BY <3>1
    <3> QED
      <4> HIDE DEF L
      <4> QED
        BY <1>3, <3>1, <3>2
  <2> QED
    BY <1>0, <2>1, <2>2
<1> HIDE DEF L
<1>5. L(u) = L(s) \o L(t)
  <2> DEFINE Y == Seq(B)
             a == L(u)
             b == L(s) \o L(t)
             n == Len(s) + Len(t)
  <2>1. a \in Seq(Y) /\ b \in Seq(Y) /\ Len(a) = n /\ Len(b) = n /\ \A i \in 1..n : a[i] = b[i]
    BY <1>0, <1>2, <1>3, <1>4
  <2> HIDE DEF Y, a, b, n
  <2>2. a = b
    BY <2>1, SeqEqual
  <2> QED
    BY <2>2 DEF a, b
<1>6. FlattenSeq(L(s) \o L(t)) = FlattenSeq(L(s)) \o FlattenSeq(L(t))
  BY <1>1, FlattenConcat
<1> QED
  BY <1>5, <1>6 DEF FlatMap, L

LEMMA FlatMapOne ==
  ASSUME NEW A, NEW B, NEW f \in Maps(A, B), NEW a \in A
  PROVE  FlatMap(f, <<a>>) = f[a] /\ f[a] \in List(B)
<1>1. [i \in DOMAIN <<a>> |-> f[<<a>>[i]]] = <<f[a]>> /\ f[a] \in Seq(B)
  BY DEF Maps
<1> QED
  BY <1>1, FlattenOne DEF FlatMap, List

LEMMA FlatMapAppend ==
  ASSUME NEW A, NEW B, NEW f \in Maps(A, B), NEW s \in List(A), NEW a \in A
  PROVE  FlatMap(f, Append(s, a)) = FlatMap(f, s) \o f[a]
<1> DEFINE b == <<a>>
<1>1. Append(s, a) = s \o b /\ b \in List(A)
  BY DEF List
<1>2. FlatMap(f, b) = f[a]
  BY FlatMapOne
<1> HIDE DEF b
<1>3. FlatMap(f, s \o b) = FlatMap(f, s) \o FlatMap(f, b)
  BY <1>1, FlatMapConcat
<1> QED
  BY <1>1, <1>2, <1>3

LEMMA ListHead ==
  ASSUME NEW A, NEW s \in List(A), s # <<>>
  PROVE  /\ s = <<Head(s)>> \o Tail(s)
         /\ Head(s) \in A /\ <<Head(s)>> \in List(A) /\ Tail(s) \in List(A)
<1>1. /\ s \in Seq(A) /\ Len(s) \in 1..Len(s) /\ 1 \in 1..Len(s)
      /\ Head(s) = s[1] /\ Tail(s) = SubSeq(s, 2, Len(s))
  BY TailIsSubSeq DEF List
<1>2. SubSeq(s, 1, Len(s)) = <<s[1]>> \o SubSeq(s, 1 + 1, Len(s))
  BY <1>1, SubSeqRecursiveFirst
<1> QED
  BY <1>1, <1>2, SubSeqFull, HeadTailProperties DEF List

LEMMA FlatMapHead ==
  ASSUME NEW A, NEW B, NEW f \in Maps(A, B), NEW s \in List(A), s # <<>>
  PROVE  FlatMap(f, s) = f[Head(s)] \o FlatMap(f, Tail(s))
<1> DEFINE a == Head(s)
           b == <<a>>
           r == Tail(s)
<1>1. s = b \o r /\ a \in A /\ b \in List(A) /\ r \in List(A)
  BY ListHead
<1>2. FlatMap(f, b) = f[a]
  BY <1>1, FlatMapOne
<1> HIDE DEF b, r
<1>3. FlatMap(f, b \o r) = FlatMap(f, b) \o FlatMap(f, r)
  BY <1>1, FlatMapConcat
<1> QED
  BY <1>1, <1>2, <1>3 DEF r

\* One element at a time.
LEMMA FlatMapPrefix ==
  ASSUME NEW A, NEW B, NEW f \in Maps(A, B), NEW s \in List(A), NEW k \in 1..Len(s)
  PROVE  /\ FlatMap(f, SubSeq(s, 1, k)) = FlatMap(f, SubSeq(s, 1, k - 1)) \o f[s[k]]
         /\ SubSeq(s, 1, k - 1) \in List(A)
<1> DEFINE a == SubSeq(s, 1, k - 1)
           e == s[k]
<1>1. SubSeq(s, 1, k) = Append(a, e) /\ a \in List(A) /\ e \in A
  BY DEF List
<1> HIDE DEF a, e
<1>2. FlatMap(f, Append(a, e)) = FlatMap(f, a) \o f[e]
  BY <1>1, FlatMapAppend
<1> QED
  BY <1>1, <1>2 DEF a, e

\* A list for each element of the lists made for each element.
LEMMA FlatMapCompose ==
  ASSUME NEW A, NEW B, NEW C, NEW f \in Maps(A, B), NEW g \in Maps(B, C),
         NEW h \in Maps(A, C), Composed(A, f, g, h), NEW s \in List(A)
  PROVE  FlatMap(g, FlatMap(f, s)) = FlatMap(h, s)
<1> DEFINE n == Len(s)
           Upto(k) == FlatMap(g, FlatMap(f, SubSeq(s, 1, k))) = FlatMap(h, SubSeq(s, 1, k))
           G == {k \in 0..n : Upto(k)}
<1>1. n \in Nat /\ SubSeq(s, 1, 0) = <<>> /\ SubSeq(s, 1, n) = s
  BY DEF List
<1>2. 0 \in G
  <2>1. Upto(0)
    BY <1>1, FlatMapEmpty
  <2> HIDE DEF Upto
  <2> QED
    BY <1>1, <2>1
<1>3. ASSUME NEW k \in 0..(n - 1), k \in G
      PROVE  k + 1 \in G
  <2> DEFINE a == SubSeq(s, 1, k)
             e == s[k + 1]
             m == k + 1
  <2>1. m \in 1..n /\ m - 1 = k /\ a \in List(A) /\ e \in A
    BY <1>1 DEF List
  <2>2. /\ FlatMap(f, SubSeq(s, 1, m)) = FlatMap(f, SubSeq(s, 1, m - 1)) \o f[s[m]]
        /\ FlatMap(h, SubSeq(s, 1, m)) = FlatMap(h, SubSeq(s, 1, m - 1)) \o h[s[m]]
    <3> HIDE DEF m
    <3> QED
      BY <2>1, FlatMapPrefix
  <2>3. FlatMap(g, FlatMap(f, a)) = FlatMap(h, a)
    BY <1>3
  <2> HIDE DEF a, e
  <2>4. FlatMap(f, a) \in List(B) /\ f[e] \in List(B)
    BY <2>1, FlatMapType, FlatMapOne
  <2>5. FlatMap(g, FlatMap(f, a) \o f[e]) = FlatMap(g, FlatMap(f, a)) \o FlatMap(g, f[e])
    BY <2>4, FlatMapConcat
  <2>6. h[e] = FlatMap(g, f[e])
    BY <2>1 DEF Composed
  <2>7. Upto(k + 1)
    BY <2>1, <2>2, <2>3, <2>5, <2>6 DEF a, e
  <2> HIDE DEF Upto
  <2> QED
    BY <1>1, <2>1, <2>7
<1>4. 0..n \subseteq G
  <2> HIDE DEF G, n
  <2> QED
    BY <1>1, <1>2, <1>3, IntervalInduction
<1>5. Upto(n)
  <2> HIDE DEF Upto
  <2> QED
    BY <1>1, <1>4
<1> QED
  BY <1>1, <1>5

\* With a list of one element for each element, the elements remain apart.
LEMMA FlatMapSingles ==
  ASSUME NEW A, NEW B, NEW g \in [A -> B], NEW f \in Maps(A, B),
         Single(A, f, g), NEW s \in List(A)
  PROVE  FlatMap(f, s) = [i \in DOMAIN s |-> g[s[i]]]
<1> DEFINE n == Len(s)
           L(l) == [i \in DOMAIN l |-> g[l[i]]]
           Upto(k) == FlatMap(f, SubSeq(s, 1, k)) = L(SubSeq(s, 1, k))
           G == {k \in 0..n : Upto(k)}
<1>1. n \in Nat /\ SubSeq(s, 1, 0) = <<>> /\ SubSeq(s, 1, n) = s
  BY DEF List
<1>2. 0 \in G
  <2>1. L(<<>>) = <<>>
    OBVIOUS
  <2>2. Upto(0)
    BY <1>1, <2>1, FlatMapEmpty
  <2> HIDE DEF Upto
  <2> QED
    BY <1>1, <2>2
<1>3. ASSUME NEW k \in 0..(n - 1), k \in G
      PROVE  k + 1 \in G
  <2> DEFINE a == SubSeq(s, 1, k)
             e == s[k + 1]
             m == k + 1
  <2>1. m \in 1..n /\ m - 1 = k /\ a \in Seq(A) /\ e \in A
    BY <1>1 DEF List
  <2>2. FlatMap(f, SubSeq(s, 1, m)) = FlatMap(f, SubSeq(s, 1, m - 1)) \o f[s[m]]
    <3> HIDE DEF m
    <3> QED
      BY <2>1, FlatMapPrefix
  <2>3. SubSeq(s, 1, k + 1) = Append(a, e)
    BY <2>1
  <2>4. FlatMap(f, a) = L(a)
    BY <1>3
  <2> HIDE DEF a, e
  <2>5. L(Append(a, e)) = L(a) \o <<g[e]>> /\ f[e] = <<g[e]>>
    BY <2>1 DEF Single
  <2>6. Upto(k + 1)
    BY <2>1, <2>2, <2>3, <2>4, <2>5 DEF a, e
  <2> HIDE DEF Upto
  <2> QED
    BY <1>1, <2>1, <2>6
<1>4. 0..n \subseteq G
  <2> HIDE DEF G, n
  <2> QED
    BY <1>1, <1>2, <1>3, IntervalInduction
<1>5. Upto(n)
  <2> HIDE DEF Upto
  <2> QED
    BY <1>1, <1>4
<1> QED
  BY <1>1, <1>5
===============================================================================
