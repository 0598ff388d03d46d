-------------------------- MODULE ConfigDirs_proofs --------------------------
(***************************************************************************)
(* What holds of the registry and of the configuration directories for any *)
(* mount points, units, templates and rules, and any number of loads.      *)
(***************************************************************************)
EXTENDS ConfigDirs, Lists_proofs

-----------------------------------------------------------------------------
(* Names in lists                                                          *)

Uniq(l) == \A i, j \in DOMAIN l : l[i].name = l[j].name => i = j
OneOfAName(S) == \A a, b \in S : a.name = b.name => a = b
NamesOf(S) == {e.name : e \in S}

LEMMA UniqSet ==
  ASSUME NEW X, NEW l \in Seq(X)
  PROVE  Uniq(l) <=> IsInjective(l) /\ OneOfAName(ToSet(l))
<1>1. ASSUME Uniq(l)
      PROVE  IsInjective(l) /\ OneOfAName(ToSet(l))
  BY <1>1 DEF Uniq, IsInjective, OneOfAName, ToSet
<1>2. ASSUME IsInjective(l), OneOfAName(ToSet(l))
      PROVE  Uniq(l)
  BY <1>2 DEF Uniq, IsInjective, OneOfAName, ToSet
<1> QED
  BY <1>1, <1>2

\* What a directory holds, read for source.
LEMMA ParsedFacts ==
  ASSUME NEW in, NEW d, NEW source, NEW X, NEW N, loads \in Nat,
         d \in DOMAIN in => in[d] \in Seq(N),
         \A n \in N : [name |-> n, from |-> source, load |-> loads + 1] \in X
  PROVE  LET p == Parsed(in, d, source) IN
         /\ p \in Seq(X)
         /\ \A e \in ToSet(p) : e.from = source /\ e.load = loads + 1
         /\ ToSet(p) # {} => d \in DOMAIN in
         /\ d \in DOMAIN in => NamesOf(ToSet(p)) = Range(in[d])
         /\ d \in DOMAIN in /\ IsInjective(in[d]) => Uniq(p)
<1> DEFINE p == Parsed(in, d, source)
<1>1. CASE d \notin DOMAIN in
  <2>1. p = <<>>
    BY <1>1 DEF Parsed
  <2> QED
    BY <1>1, <2>1 DEF ToSet
<1>2. CASE d \in DOMAIN in
  <2> DEFINE D == DOMAIN in[d]
             entry(i) == [name |-> in[d][i], from |-> source, load |-> loads + 1]
  <2>1. p = [i \in D |-> entry(i)]
    BY <1>2 DEF Parsed
  <2>2. D = 1..Len(in[d]) /\ Len(in[d]) \in Nat /\ \A i \in D : in[d][i] \in N
    BY <1>2
  <2>3. \A i \in D : entry(i) \in X
    BY <2>2
  <2>4. p \in Seq(X) /\ DOMAIN p = D /\ \A i \in D : p[i] = entry(i)
    <3> HIDE DEF entry
    <3>1. p \in [1..Len(in[d]) -> X]
      BY <2>1, <2>2, <2>3
    <3> QED
      BY <2>1, <2>2, <3>1
  <2>5. \A i \in D : p[i].name = in[d][i] /\ p[i].from = source /\ p[i].load = loads + 1
    <3>1. \A i \in D : entry(i).name = in[d][i] /\ entry(i).from = source
                        /\ entry(i).load = loads + 1
      OBVIOUS
    <3> HIDE DEF p, entry, D
    <3> QED
      BY <2>4, <3>1
  <2> HIDE DEF p, entry
  <2>6. \A e \in ToSet(p) : e.from = source /\ e.load = loads + 1
    BY <2>4, <2>5 DEF ToSet
  <2>7. NamesOf(ToSet(p)) = Range(in[d])
    BY <2>4, <2>5 DEF ToSet, NamesOf, Range
  <2>8. IsInjective(in[d]) => Uniq(p)
    BY <2>4, <2>5 DEF IsInjective, Uniq
  <2> QED
    BY <1>2, <2>4, <2>6, <2>7, <2>8 DEF p
<1> QED
  BY <1>1, <1>2

\* What is merged: what there was, and what has names that were free.
LEMMA MergeFacts ==
  ASSUME NEW X, NEW list \in Seq(X), NEW extra \in Seq(X)
  PROVE  LET l == Merge(list, extra)
             S == {e \in ToSet(extra) : Named(list, e.name) = {}}
         IN
         /\ l \in Seq(X)
         /\ ToSet(l) = ToSet(list) \cup S
         /\ Len(list) \in Nat /\ Len(l) \in Nat /\ Len(list) <= Len(l)
         /\ \A i \in 1..Len(list) : l[i] = list[i]
         /\ NamesOf(ToSet(l)) = NamesOf(ToSet(list)) \cup NamesOf(ToSet(extra))
         /\ Uniq(list) /\ Uniq(extra) => Uniq(l)
<1> DEFINE S == {e \in ToSet(extra) : Named(list, e.name) = {}}
           k == Keep(extra, S)
           l == Merge(list, extra)
<1>1. k \in Seq(X) /\ ToSet(k) = S /\ (IsInjective(extra) => IsInjective(k))
  <2>1. ToSet(extra) \cap S = S
    OBVIOUS
  <2> HIDE DEF S
  <2> QED
    BY <2>1, KeepFacts
<1>2. l = list \o k
  BY DEF Merge
<1> HIDE DEF l
<1>3. /\ l \in Seq(X) /\ ToSet(l) = ToSet(list) \cup S /\ Len(l) = Len(list) + Len(k)
      /\ \A i \in 1..Len(list) : l[i] = list[i]
  <2> HIDE DEF k, S
  <2> QED
    BY <1>1, <1>2, ConcatSet
<1>4. Len(list) \in Nat /\ Len(l) \in Nat /\ Len(list) <= Len(l)
  BY <1>1, <1>3, ToSetType
<1>5. \A e \in S : e \notin ToSet(list)
  BY DEF Named
<1>6. NamesOf(ToSet(l)) = NamesOf(ToSet(list)) \cup NamesOf(ToSet(extra))
  BY <1>3 DEF NamesOf, Named
<1>7. ASSUME Uniq(list), Uniq(extra)
      PROVE  Uniq(l)
  <2>1. /\ IsInjective(list) /\ OneOfAName(ToSet(list))
        /\ IsInjective(extra) /\ OneOfAName(ToSet(extra))
    BY <1>7, UniqSet
  <2>2. IsInjective(l)
    <3>1. ToSet(list) \cap ToSet(k) = {}
      BY <1>1, <1>5
    <3> HIDE DEF k, S
    <3> QED
      BY <1>1, <1>2, <2>1, <3>1, ConcatInjective
  <2>3. OneOfAName(ToSet(l))
    BY <1>3, <2>1 DEF OneOfAName, Named
  <2> QED
    BY <1>3, <2>2, <2>3, UniqSet
<1> QED
  BY <1>3, <1>4, <1>6, <1>7 DEF l
\* e is what a loaded directory holds, read by the load under way.
Brought(e, in) ==
    /\ e.from \in ToSet(dirs) \cap DOMAIN in
    /\ e.name \in Range(in[e.from])
    /\ e.load = loads + 1

\* What all loaded directories add: names that were free, each of them once.
LEMMA MergeAllFacts ==
  ASSUME NEW in, NEW N, NEW X, NEW list \in Seq(X), loads \in Nat, dirs \in Seq(Mount),
         \A d \in DOMAIN in : in[d] \in Seq(N) /\ IsInjective(in[d]),
         \A m \in N, d \in Mount : [name |-> m, from |-> d, load |-> loads + 1] \in X
  PROVE  LET l == MergeAll(list, in) IN
         /\ l \in Seq(X)
         /\ \A e \in ToSet(l) : e \in ToSet(list) \/ Brought(e, in)
         /\ NamesOf(ToSet(list)) \subseteq NamesOf(ToSet(l))
         /\ \A m \in ToSet(dirs) \cap DOMAIN in : Range(in[m]) \subseteq NamesOf(ToSet(l))
         /\ Uniq(list) => Uniq(l)
<1> DEFINE n == Len(dirs)
           extra(i) == Parsed(in, dirs[i], dirs[i])
           Step(y, i) == Merge(y, extra(i))
           g == [i \in 1..n |-> [y \in Seq(X) |-> Step(y, i)]]
           loop == CHOOSE f : f = [i \in 0..n |-> IF i = 0 THEN list ELSE Step(f[i - 1], i)]
<1>1. n \in Nat /\ \A i \in 1..n : dirs[i] \in Mount /\ dirs[i] \in ToSet(dirs)
  BY ToSetType
<1>2. ASSUME NEW i \in 1..n
      PROVE  /\ extra(i) \in Seq(X)
             /\ \A e \in ToSet(extra(i)) : e.from = dirs[i] /\ e.load = loads + 1
             /\ ToSet(extra(i)) # {} => dirs[i] \in DOMAIN in
             /\ dirs[i] \in DOMAIN in => NamesOf(ToSet(extra(i))) = Range(in[dirs[i]])
             /\ Uniq(extra(i))
  <2> DEFINE d == dirs[i]
  <2>1. /\ d \in Mount
        /\ d \in DOMAIN in => in[d] \in Seq(N) /\ IsInjective(in[d])
        /\ \A m \in N : [name |-> m, from |-> d, load |-> loads + 1] \in X
    BY <1>1
  <2> HIDE DEF d
  <2>2. LET p == Parsed(in, d, d) IN
         /\ p \in Seq(X)
         /\ \A e \in ToSet(p) : e.from = d /\ e.load = loads + 1
         /\ ToSet(p) # {} => d \in DOMAIN in
         /\ d \in DOMAIN in => NamesOf(ToSet(p)) = Range(in[d])
         /\ d \in DOMAIN in /\ IsInjective(in[d]) => Uniq(p)
    BY <2>1, ParsedFacts
  <2>3. d \notin DOMAIN in => Uniq(Parsed(in, d, d))
    BY DEF Parsed, Uniq
  <2> QED
    BY <2>1, <2>2, <2>3 DEF d
<1> HIDE DEF extra
<1>3. loop[0] = list /\ \A i \in 1..n : loop[i] = Step(loop[i - 1], i)
  <2>1. \A i \in 1..n, y \in Seq(X) : Step(y, i) \in Seq(X)
    BY <1>2, MergeFacts
  <2>2. PICK f \in [0..n -> Seq(X)] :
           f = [i \in 0..n |-> IF i = 0 THEN list ELSE g[i][f[i - 1]]]
    <3> DEFINE Y == Seq(X)
    <3>1. list \in Y /\ g \in [1..n -> [Y -> Y]] /\ n \in Nat
      <4> HIDE DEF Step
      <4> QED
        BY <1>1, <2>1
    <3> HIDE DEF g, n, Y
    <3>2. \E f : IsLoop(f, n, Y, list, g)
      BY <3>1, LoopExists
    <3> QED
      BY <3>2 DEF IsLoop, Y
  <2>3. ASSUME NEW i \in 1..n
        PROVE  g[i][f[i - 1]] = Step(f[i - 1], i)
    <3>1. f[i - 1] \in Seq(X)
      BY <1>1
    <3> HIDE DEF Step
    <3> QED
      BY <3>1
  <2>4. \A i \in 0..n : f[i] = IF i = 0 THEN list ELSE Step(f[i - 1], i)
    <3>1. \A i \in 0..n : i # 0 => i \in 1..n
      BY <1>1
    <3> HIDE DEF g, Step, n
    <3> QED
      BY <2>2, <2>3, <3>1
  <2>5. f = [i \in 0..n |-> IF i = 0 THEN list ELSE Step(f[i - 1], i)]
    <3> HIDE DEF g, Step
    <3> QED
      BY <2>2, <2>4
  <2>6. loop = [i \in 0..n |-> IF i = 0 THEN list ELSE Step(loop[i - 1], i)]
    <3> HIDE DEF Step, n
    <3> QED
      BY <2>5
  <2>7. 0 \in 0..n /\ \A i \in 1..n : i \in 0..n /\ i # 0
    BY <1>1
  <2> HIDE DEF Step, loop, n
  <2> QED
    BY <2>6, <2>7
<1>4. MergeAll(list, in) = loop[n]
  BY DEF MergeAll, extra
<1> HIDE DEF loop
<1> DEFINE Upto(i) ==
             /\ loop[i] \in Seq(X)
             /\ \A e \in ToSet(loop[i]) : e \in ToSet(list) \/ Brought(e, in)
             /\ NamesOf(ToSet(list)) \subseteq NamesOf(ToSet(loop[i]))
             /\ \A j \in 1..i : dirs[j] \in DOMAIN in =>
                  Range(in[dirs[j]]) \subseteq NamesOf(ToSet(loop[i]))
             /\ Uniq(list) => Uniq(loop[i])
           Good == {i \in 0..n : Upto(i)}
<1>5. 0 \in Good
  BY <1>1, <1>3
<1>6. ASSUME NEW i \in 0..(n - 1), i \in Good
      PROVE  i + 1 \in Good
  <2> DEFINE a == loop[i]
             b == extra(i + 1)
             c == loop[i + 1]
             d == dirs[i + 1]
  <2>1. i + 1 \in 1..n /\ i + 1 \in 0..n /\ (i + 1) - 1 = i /\ i \in Nat
    BY <1>1
  <2>2. c = Merge(a, b)
    BY <1>3, <2>1
  <2>3. Upto(i)
    BY <1>6
  <2>4. /\ b \in Seq(X) /\ \A e \in ToSet(b) : e.from = d /\ e.load = loads + 1
        /\ ToSet(b) # {} => d \in DOMAIN in
        /\ d \in DOMAIN in => NamesOf(ToSet(b)) = Range(in[d])
        /\ Uniq(b) /\ d \in ToSet(dirs)
    BY <1>1, <1>2, <2>1
  <2>5. /\ c \in Seq(X) /\ ToSet(c) \subseteq ToSet(a) \cup ToSet(b)
        /\ NamesOf(ToSet(c)) = NamesOf(ToSet(a)) \cup NamesOf(ToSet(b))
        /\ Uniq(a) => Uniq(c)
    <3>1. a \in Seq(X)
      BY <2>3
    <3> HIDE DEF a, b, c
    <3> QED
      BY <2>2, <2>4, <3>1, MergeFacts
  <2>6. \A e \in ToSet(b) : Brought(e, in)
    <3> HIDE DEF b, d
    <3> QED
      BY <2>4 DEF Brought, NamesOf
  <2>7. \A j \in 1..(i + 1) : j = i + 1 \/ j \in 1..i
    BY <2>1
  <2>8. \A j \in 1..(i + 1) : dirs[j] \in DOMAIN in =>
           Range(in[dirs[j]]) \subseteq NamesOf(ToSet(c))
    <3> HIDE DEF b, c
    <3> QED
      BY <2>3, <2>4, <2>5, <2>7
  <2>9. Upto(i + 1)
    <3> HIDE DEF b
    <3> QED
      BY <2>3, <2>5, <2>6, <2>8
  <2> HIDE DEF Upto
  <2> QED
    BY <2>1, <2>9
<1>7. 0..n \subseteq Good
  <2> HIDE DEF Good, n
  <2> QED
    BY <1>1, <1>5, <1>6, IntervalInduction
<1>8. Upto(n)
  <2> HIDE DEF Upto
  <2> QED
    BY <1>1, <1>7
<1>9. \A m \in ToSet(dirs) : \E j \in 1..n : dirs[j] = m
  BY <1>1, ToSetType
<1> QED
  BY <1>4, <1>8, <1>9

\* Rules are told apart by what they say and where it was read.
OneOfASource(S) == \A a, b \in S : a.name = b.name /\ a.from = b.from => a = b

\* What all loaded directories append: all of it, and nothing twice.
LEMMA AppendAllFacts ==
  ASSUME NEW in, NEW N, NEW X, NEW list \in Seq(X), loads \in Nat, dirs \in Seq(Mount),
         \A d \in DOMAIN in : in[d] \in Seq(N) /\ IsInjective(in[d]),
         \A m \in N, d \in Mount : [name |-> m, from |-> d, load |-> loads + 1] \in X,
         IsInjective(dirs), IsInjective(list), OneOfASource(ToSet(list)),
         \A e \in ToSet(list) : e.from \notin ToSet(dirs)
  PROVE  LET l == AppendAll(list, in) IN
         /\ l \in Seq(X)
         /\ \A e \in ToSet(l) : e \in ToSet(list) \/ Brought(e, in)
         /\ ToSet(list) \subseteq ToSet(l)
         /\ \A m \in ToSet(dirs) \cap DOMAIN in :
              Range(in[m]) \subseteq NamesOf({e \in ToSet(l) : e.from = m})
         /\ IsInjective(l) /\ OneOfASource(ToSet(l))
<1> DEFINE n == Len(dirs)
           extra(i) == Parsed(in, dirs[i], dirs[i])
           Step(y, i) == y \o extra(i)
           g == [i \in 1..n |-> [y \in Seq(X) |-> Step(y, i)]]
           loop == CHOOSE f : f = [i \in 0..n |-> IF i = 0 THEN list ELSE Step(f[i - 1], i)]
<1>1. n \in Nat /\ \A i \in 1..n : dirs[i] \in Mount /\ dirs[i] \in ToSet(dirs)
  BY ToSetType
<1>2. ASSUME NEW i \in 1..n
      PROVE  /\ extra(i) \in Seq(X)
             /\ \A e \in ToSet(extra(i)) : e.from = dirs[i] /\ e.load = loads + 1
             /\ ToSet(extra(i)) # {} => dirs[i] \in DOMAIN in
             /\ dirs[i] \in DOMAIN in => NamesOf(ToSet(extra(i))) = Range(in[dirs[i]])
             /\ Uniq(extra(i))
  <2> DEFINE d == dirs[i]
  <2>1. /\ d \in Mount
        /\ d \in DOMAIN in => in[d] \in Seq(N) /\ IsInjective(in[d])
        /\ \A m \in N : [name |-> m, from |-> d, load |-> loads + 1] \in X
    BY <1>1
  <2> HIDE DEF d
  <2>2. LET p == Parsed(in, d, d) IN
         /\ p \in Seq(X)
         /\ \A e \in ToSet(p) : e.from = d /\ e.load = loads + 1
         /\ ToSet(p) # {} => d \in DOMAIN in
         /\ d \in DOMAIN in => NamesOf(ToSet(p)) = Range(in[d])
         /\ d \in DOMAIN in /\ IsInjective(in[d]) => Uniq(p)
    BY <2>1, ParsedFacts
  <2>3. d \notin DOMAIN in => Uniq(Parsed(in, d, d))
    BY DEF Parsed, Uniq
  <2> QED
    BY <2>1, <2>2, <2>3 DEF d
<1> HIDE DEF extra
<1>3. loop[0] = list /\ \A i \in 1..n : loop[i] = Step(loop[i - 1], i)
  <2>1. \A i \in 1..n, y \in Seq(X) : Step(y, i) \in Seq(X)
    BY <1>2, ConcatSet
  <2>2. PICK f \in [0..n -> Seq(X)] :
           f = [i \in 0..n |-> IF i = 0 THEN list ELSE g[i][f[i - 1]]]
    <3> DEFINE Y == Seq(X)
    <3>1. list \in Y /\ g \in [1..n -> [Y -> Y]] /\ n \in Nat
      <4> HIDE DEF Step
      <4> QED
        BY <1>1, <2>1
    <3> HIDE DEF g, n, Y
    <3>2. \E f : IsLoop(f, n, Y, list, g)
      BY <3>1, LoopExists
    <3> QED
      BY <3>2 DEF IsLoop, Y
  <2>3. ASSUME NEW i \in 1..n
        PROVE  g[i][f[i - 1]] = Step(f[i - 1], i)
    <3>1. f[i - 1] \in Seq(X)
      BY <1>1
    <3> HIDE DEF Step
    <3> QED
      BY <3>1
  <2>4. \A i \in 0..n : f[i] = IF i = 0 THEN list ELSE Step(f[i - 1], i)
    <3>1. \A i \in 0..n : i # 0 => i \in 1..n
      BY <1>1
    <3> HIDE DEF g, Step, n
    <3> QED
      BY <2>2, <2>3, <3>1
  <2>5. f = [i \in 0..n |-> IF i = 0 THEN list ELSE Step(f[i - 1], i)]
    <3> HIDE DEF g, Step
    <3> QED
      BY <2>2, <2>4
  <2>6. loop = [i \in 0..n |-> IF i = 0 THEN list ELSE Step(loop[i - 1], i)]
    <3> HIDE DEF Step, n
    <3> QED
      BY <2>5
  <2>7. 0 \in 0..n /\ \A i \in 1..n : i \in 0..n /\ i # 0
    BY <1>1
  <2> HIDE DEF Step, loop, n
  <2> QED
    BY <2>6, <2>7
<1>4. AppendAll(list, in) = loop[n]
  BY DEF AppendAll, extra
<1> HIDE DEF loop
<1> DEFINE Upto(i) ==
             /\ loop[i] \in Seq(X)
             /\ \A e \in ToSet(loop[i]) :
                  \/ e \in ToSet(list)
                  \/ Brought(e, in) /\ \E j \in 1..i : e.from = dirs[j]
             /\ ToSet(list) \subseteq ToSet(loop[i])
             /\ \A j \in 1..i : dirs[j] \in DOMAIN in =>
                  Range(in[dirs[j]]) \subseteq NamesOf({e \in ToSet(loop[i]) : e.from = dirs[j]})
             /\ IsInjective(loop[i]) /\ OneOfASource(ToSet(loop[i]))
           Good == {i \in 0..n : Upto(i)}
<1>5. 0 \in Good
  BY <1>1, <1>3
<1>6. ASSUME NEW i \in 0..(n - 1), i \in Good
      PROVE  i + 1 \in Good
  <2> DEFINE a == loop[i]
             b == extra(i + 1)
             c == loop[i + 1]
             d == dirs[i + 1]
  <2>1. i + 1 \in 1..n /\ i + 1 \in 0..n /\ (i + 1) - 1 = i /\ i \in Nat
    BY <1>1
  <2>2. c = a \o b
    BY <1>3, <2>1
  <2>3. Upto(i)
    BY <1>6
  <2>4. /\ b \in Seq(X) /\ \A e \in ToSet(b) : e.from = d /\ e.load = loads + 1
        /\ ToSet(b) # {} => d \in DOMAIN in
        /\ d \in DOMAIN in => NamesOf(ToSet(b)) = Range(in[d])
        /\ Uniq(b) /\ d \in ToSet(dirs)
    BY <1>1, <1>2, <2>1
  <2>5. IsInjective(b) /\ OneOfAName(ToSet(b))
    <3> HIDE DEF b, d
    <3> QED
      BY <2>4, UniqSet
  <2>6. \A j \in 1..i : dirs[j] # d
    BY <1>1, <2>1 DEF IsInjective
  <2>7. \A e \in ToSet(a) : e.from # d
    BY <2>3, <2>4, <2>6
  <2>8. c \in Seq(X) /\ ToSet(c) = ToSet(a) \cup ToSet(b) /\ IsInjective(c)
    <3>1. a \in Seq(X) /\ IsInjective(a)
      BY <2>3
    <3> HIDE DEF a, b, c, d
    <3>2. ToSet(a) \cap ToSet(b) = {}
      BY <2>4, <2>7
    <3> QED
      BY <2>2, <2>4, <2>5, <3>1, <3>2, ConcatSet, ConcatInjective
  <2>9. OneOfASource(ToSet(c))
    <3>1. OneOfASource(ToSet(a))
      BY <2>3
    <3> HIDE DEF a, b, c, d
    <3> QED
      BY <2>4, <2>5, <2>7, <2>8, <3>1 DEF OneOfASource, OneOfAName
  <2>10. \A e \in ToSet(b) : Brought(e, in) /\ e.from = d
    <3> HIDE DEF b, d
    <3> QED
      BY <2>4 DEF Brought, NamesOf
  <2>11. \A j \in 1..(i + 1) : j = i + 1 \/ j \in 1..i
    BY <2>1
  <2>12. \A j \in 1..(i + 1) : dirs[j] \in DOMAIN in =>
           Range(in[dirs[j]]) \subseteq NamesOf({e \in ToSet(c) : e.from = dirs[j]})
    <3>1. ASSUME NEW j \in 1..i, dirs[j] \in DOMAIN in
          PROVE  Range(in[dirs[j]]) \subseteq NamesOf({e \in ToSet(c) : e.from = dirs[j]})
      <4>1. Range(in[dirs[j]]) \subseteq NamesOf({e \in ToSet(a) : e.from = dirs[j]})
        BY <2>3, <3>1
      <4> HIDE DEF a, b, c, d
      <4> QED
        BY <2>8, <4>1 DEF NamesOf
    <3>2. ASSUME d \in DOMAIN in
          PROVE  Range(in[d]) \subseteq NamesOf({e \in ToSet(c) : e.from = d})
      <4> HIDE DEF a, b, c, d
      <4> QED
        BY <2>4, <2>8, <3>2 DEF NamesOf
    <3> QED
      BY <2>11, <3>1, <3>2
  <2>13. \A e \in ToSet(c) :
           \/ e \in ToSet(list)
           \/ Brought(e, in) /\ \E j \in 1..(i + 1) : e.from = dirs[j]
    <3>1. 1..i \subseteq 1..(i + 1) /\ i + 1 \in 1..(i + 1)
      BY <2>1
    <3> HIDE DEF b, c
    <3> QED
      BY <2>3, <2>8, <2>10, <3>1
  <2>14. Upto(i + 1)
    <3> HIDE DEF b
    <3> QED
      BY <2>3, <2>8, <2>9, <2>12, <2>13
  <2> HIDE DEF Upto
  <2> QED
    BY <2>1, <2>14
<1>7. 0..n \subseteq Good
  <2> HIDE DEF Good, n
  <2> QED
    BY <1>1, <1>5, <1>6, IntervalInduction
<1>8. Upto(n)
  <2> HIDE DEF Upto
  <2> QED
    BY <1>1, <1>7
<1>9. \A m \in ToSet(dirs) : \E j \in 1..n : dirs[j] = m
  BY <1>1, ToSetType
<1>10. \A m \in ToSet(dirs) \cap DOMAIN in :
          Range(in[m]) \subseteq NamesOf({e \in ToSet(loop[n]) : e.from = m})
  <2>1. \A j \in 1..n : dirs[j] \in DOMAIN in =>
          Range(in[dirs[j]]) \subseteq NamesOf({e \in ToSet(loop[n]) : e.from = dirs[j]})
    BY <1>8
  <2> HIDE DEF n
  <2> QED
    BY <1>9, <2>1
<1>11. \A e \in ToSet(loop[n]) : e \in ToSet(list) \/ Brought(e, in)
  BY <1>8
<1>12. /\ loop[n] \in Seq(X) /\ ToSet(list) \subseteq ToSet(loop[n])
       /\ IsInjective(loop[n]) /\ OneOfASource(ToSet(loop[n]))
  BY <1>8
<1> HIDE DEF n
<1> QED
  BY <1>4, <1>10, <1>11, <1>12

-----------------------------------------------------------------------------
(* Orders                                                                  *)

Dependencies(T, s) == {d \in T : d.name \in requires[s.name]}
OwnOrder(s) == {0} \cup IF s \in DOMAIN order THEN {order[s]} ELSE {}

\* f gives the services of U, which depend on no others of T, their orders.
IsResolved(f, U, T) ==
    /\ U \subseteq T
    /\ f \in [U -> Nat]
    /\ \A s \in U : Dependencies(T, s) \subseteq U
    /\ f = [s \in U |-> Max(OwnOrder(s) \cup {f[d] + 1 : d \in Dependencies(T, s)})]

\* The numbers an order is the greatest of.
LEMMA OrderOfOne ==
  ASSUME NEW U, NEW T, NEW s, NEW f \in [U -> Nat],
         IsFiniteSet(T), Dependencies(T, s) \subseteq U,
         s \in DOMAIN order => order[s] \in Nat
  PROVE  LET N == OwnOrder(s) \cup {f[d] + 1 : d \in Dependencies(T, s)} IN
         Max(N) \in Nat /\ \A n \in N : n <= Max(N)
<1> DEFINE D == Dependencies(T, s)
           K == {f[d] + 1 : d \in D}
           N == OwnOrder(s) \cup K
<1>1. D \in SUBSET T /\ IsFiniteSet(D)
  <2>1. D \in SUBSET T
    BY DEF Dependencies
  <2> HIDE DEF D
  <2> QED
    BY <2>1, FS_Subset
<1>2. IsFiniteSet(K)
  <2> DEFINE g == [d \in D |-> f[d] + 1]
  <2>1. g \in Surjection(D, K)
    BY DEF Surjection
  <2> HIDE DEF g, D, K
  <2> QED
    BY <1>1, <2>1, FS_Surjection
<1>3. OwnOrder(s) \subseteq Nat /\ 0 \in OwnOrder(s) /\ IsFiniteSet(OwnOrder(s))
  <2>1. CASE s \in DOMAIN order
    <3>1. OwnOrder(s) = {0} \cup {order[s]}
      BY <2>1 DEF OwnOrder
    <3>2. IsFiniteSet({0}) /\ IsFiniteSet({order[s]})
      BY FS_Singleton
    <3>3. IsFiniteSet({0} \cup {order[s]})
      BY <3>2, FS_Union
    <3> QED
      BY <2>1, <3>1, <3>3
  <2>2. CASE s \notin DOMAIN order
    <3>1. OwnOrder(s) = {0}
      BY <2>2 DEF OwnOrder
    <3>2. IsFiniteSet({0})
      BY FS_Singleton
    <3> QED
      BY <3>1, <3>2
  <2> QED
    BY <2>1, <2>2
<1>4. K \subseteq Nat
  <2>1. \A d \in D : f[d] \in Nat
    OBVIOUS
  <2> HIDE DEF D
  <2> QED
    BY <2>1
<1> HIDE DEF K
<1>5. N \in SUBSET Nat /\ N # {} /\ IsFiniteSet(N)
  BY <1>2, <1>3, <1>4, FS_Union
<1> HIDE DEF N
<1>6. Max(N) \in N /\ \A n \in N : n <= Max(N)
  BY <1>5, GreatestNumber
<1> QED
  BY <1>5, <1>6 DEF N, K

\* The orders of all services of a list: where no unit depends on itself, those
\* of the units others depend on can be resolved first.
LEMMA AllResolved ==
  ASSUME NEW T, IsFiniteSet(T), \A s \in T : s.name \in DOMAIN requires,
         \A s \in DOMAIN order : order[s] \in Nat
  PROVE  \E f : IsResolved(f, T, T)
<1> DEFINE Done(U) == \E f : IsResolved(f, U, T)
           Left == {T \ U : U \in {V \in SUBSET T : Done(V)}}
<1>1. Left \subseteq FiniteSubsetsOf(T)
  <2>1. \A V \in SUBSET T : IsFiniteSet(V)
    BY FS_Subset
  <2> HIDE DEF Done
  <2> QED
    BY <2>1 DEF FiniteSubsetsOf
<1>2. T \in Left
  <2>1. NoOrder \in [{} -> Nat] /\ NoOrder = [s \in {} |->
          Max(OwnOrder(s) \cup {NoOrder[d] + 1 : d \in Dependencies(T, s)})]
    BY DEF NoOrder
  <2>2. IsResolved(NoOrder, {}, T)
    BY <2>1 DEF IsResolved
  <2>3. Done({})
    BY <2>2
  <2> HIDE DEF Done
  <2> QED
    BY <2>3
<1>3. PICK W \in Left : \A V \in Left : ~ (<<V, W>> \in StrictSubsetOrdering(T))
  <2> HIDE DEF Left
  <2> QED
    BY <1>1, <1>2, FS_StrictSubsetOrderingWellFounded, WFMin
<1>4. PICK U \in SUBSET T : Done(U) /\ W = T \ U
  <2> HIDE DEF Done
  <2> QED
    BY <1>3
<1>5. PICK f : IsResolved(f, U, T)
  BY <1>4
<1>6. CASE W = {}
  <2>1. U = T
    BY <1>4, <1>6
  <2> QED
    BY <1>5, <2>1
<1>7. CASE W # {}
  <2>1. NamesOf(W) \in SUBSET DOMAIN requires /\ NamesOf(W) # {}
    BY <1>4, <1>7 DEF NamesOf
  <2>2. PICK n \in NamesOf(W) : requires[n] \cap NamesOf(W) = {}
    BY <2>1, Assumptions
  <2>3. PICK s \in W : s.name = n
    BY DEF NamesOf
  <2>4. Dependencies(T, s) \subseteq U
    BY <1>4, <2>2, <2>3 DEF Dependencies, NamesOf
  <2>5. s \in T /\ s \notin U
    BY <1>4
  <2> DEFINE F(x) == Max(OwnOrder(x) \cup {f[d] + 1 : d \in Dependencies(T, x)})
             h == [x \in U \cup {s} |-> F(x)]
  <2>6. f \in [U -> Nat] /\ \A x \in U : Dependencies(T, x) \subseteq U /\ f[x] = F(x)
    <3>1. f \in [U -> Nat] /\ \A x \in U : Dependencies(T, x) \subseteq U
      BY <1>5 DEF IsResolved
    <3>2. f = [x \in U |-> F(x)]
      BY <1>5 DEF IsResolved
    <3> HIDE DEF F
    <3> QED
      BY <3>1, <3>2
  <2>7. F(s) \in Nat
    BY <2>4, <2>6, OrderOfOne
  <2>8. h \in [U \cup {s} -> Nat] /\ \A x \in U : h[x] = f[x]
    <3> HIDE DEF F
    <3> QED
      BY <2>6, <2>7
  <2>9. \A x \in U \cup {s} : Dependencies(T, x) \subseteq U
    BY <2>4, <2>6
  <2>10. \A x \in U \cup {s} :
           {h[d] + 1 : d \in Dependencies(T, x)} = {f[d] + 1 : d \in Dependencies(T, x)}
    <3> HIDE DEF h
    <3> QED
      BY <2>8, <2>9
  <2>11. h = [x \in U \cup {s} |->
                Max(OwnOrder(x) \cup {h[d] + 1 : d \in Dependencies(T, x)})]
    <3>1. \A x \in U \cup {s} :
            h[x] = Max(OwnOrder(x) \cup {h[d] + 1 : d \in Dependencies(T, x)})
      <4>1. \A x \in U \cup {s} : h[x] = F(x)
        <5> HIDE DEF F
        <5> QED
          OBVIOUS
      <4> HIDE DEF h
      <4> QED
        BY <2>10, <4>1
    <3> HIDE DEF h
    <3> QED
      BY <2>8, <3>1
  <2> HIDE DEF h
  <2>12. IsResolved(h, U \cup {s}, T)
    BY <2>5, <2>8, <2>9, <2>11 DEF IsResolved
  <2>13. T \ (U \cup {s}) \in Left
    <3>1. Done(U \cup {s}) /\ U \cup {s} \in SUBSET T
      BY <2>5, <2>12
    <3> HIDE DEF Done
    <3> QED
      BY <3>1
  <2>14. <<T \ (U \cup {s}), W>> \in StrictSubsetOrdering(T)
    BY <1>4, <2>5 DEF StrictSubsetOrdering
  <2> HIDE DEF Left
  <2> QED
    BY <1>3, <2>13, <2>14
<1> QED
  BY <1>6, <1>7

\* A unit is past every unit of the list that it depends on.
LEMMA ResolvedFacts ==
  ASSUME NEW X, NEW list \in Seq(X), \A s \in ToSet(list) : s.name \in DOMAIN requires,
         \A s \in DOMAIN order : order[s] \in Nat
  PROVE  LET r == Resolved(list) IN
         /\ r \in [ToSet(list) -> Nat]
         /\ \A s, d \in ToSet(list) : d.name \in requires[s.name] => r[d] < r[s]
<1> DEFINE T == ToSet(list)
           r == Resolved(list)
<1>1. IsFiniteSet(T)
  BY ToSetFinite
<1>2. PICK f : IsResolved(f, T, T)
  <2> HIDE DEF T
  <2> QED
    BY <1>1, AllResolved DEF T
<1>3. f = [s \in T |-> Max({0} \cup (IF s \in DOMAIN order THEN {order[s]} ELSE {})
                 \cup {f[d] + 1 : d \in {e \in T : e.name \in requires[s.name]}})]
  BY <1>2 DEF IsResolved, OwnOrder, Dependencies
<1>4. r = [s \in T |-> Max({0} \cup (IF s \in DOMAIN order THEN {order[s]} ELSE {})
                 \cup {r[d] + 1 : d \in {e \in T : e.name \in requires[s.name]}})]
  <2> HIDE DEF T
  <2> QED
    BY <1>3 DEF Resolved, T
<1>5. /\ f \in [T -> Nat] /\ DOMAIN r = T
      /\ \A s \in T : f[s] = Max(OwnOrder(s) \cup {f[d] + 1 : d \in Dependencies(T, s)})
      /\ \A s \in T : r[s] = Max(OwnOrder(s) \cup {r[d] + 1 : d \in Dependencies(T, s)})
  <2>1. f \in [T -> Nat]
    BY <1>2 DEF IsResolved
  <2> DEFINE F(h, s) == Max({0} \cup (IF s \in DOMAIN order THEN {order[s]} ELSE {})
                 \cup {h[d] + 1 : d \in {e \in T : e.name \in requires[s.name]}})
  <2>2. \A h : \A s \in T :
          F(h, s) = Max(OwnOrder(s) \cup {h[d] + 1 : d \in Dependencies(T, s)})
    BY DEF OwnOrder, Dependencies
  <2>3. f = [s \in T |-> F(f, s)] /\ r = [s \in T |-> F(r, s)]
    BY <1>3, <1>4
  <2> HIDE DEF F, T, r
  <2> QED
    BY <2>1, <2>2, <2>3
<1> HIDE DEF r
<1>6. \A s \in T : r[s] = f[s]
  <2> DEFINE W == {s \in T : r[s] # f[s]}
  <2>1. SUFFICES ASSUME W # {}
                 PROVE  FALSE
    OBVIOUS
  <2>2. NamesOf(W) \in SUBSET DOMAIN requires /\ NamesOf(W) # {}
    BY <2>1 DEF NamesOf
  <2>3. PICK n \in NamesOf(W) : requires[n] \cap NamesOf(W) = {}
    BY <2>2, Assumptions
  <2>4. PICK s \in W : s.name = n
    BY DEF NamesOf
  <2>5. \A d \in Dependencies(T, s) : r[d] = f[d]
    BY <2>3, <2>4 DEF Dependencies, NamesOf
  <2>6. {r[d] + 1 : d \in Dependencies(T, s)} = {f[d] + 1 : d \in Dependencies(T, s)}
    BY <2>5
  <2> QED
    BY <1>5, <2>4, <2>6
<1>7. r \in [T -> Nat]
  <2>1. r = [s \in T |-> r[s]]
    BY <1>4 DEF r
  <2>2. \A s \in T : r[s] \in Nat
    BY <1>5, <1>6
  <2> HIDE DEF T
  <2> QED
    BY <2>1, <2>2
<1>8. ASSUME NEW s \in T, NEW d \in T, d.name \in requires[s.name]
      PROVE  r[d] < r[s]
  <2> DEFINE N == OwnOrder(s) \cup {f[e] + 1 : e \in Dependencies(T, s)}
  <2>1. Dependencies(T, s) \subseteq T
    BY DEF Dependencies
  <2>2. Max(N) \in Nat /\ \A n \in N : n <= Max(N)
    <3> HIDE DEF T
    <3> QED
      BY <1>1, <1>5, <2>1, OrderOfOne
  <2>3. f[d] + 1 \in N
    BY <1>8 DEF Dependencies
  <2>4. f[s] = Max(N) /\ f[d] \in Nat
    BY <1>5
  <2> HIDE DEF N
  <2> QED
    BY <1>6, <2>2, <2>3, <2>4
<1> QED
  BY <1>7, <1>8 DEF r

-----------------------------------------------------------------------------
(* The lists                                                               *)

TemplateName == UNION {Range(templatesIn[d]) : d \in DOMAIN templatesIn}
RuleName == UNION {Range(rulesIn[d]) : d \in DOMAIN rulesIn}
Source == Mount \cup {Firmware}
Template == [name : TemplateName, from : Source, load : 0..MaxLoads]
Rule == [name : RuleName, from : Source, load : 0..(MaxLoads + 1)]

ListTypes ==
    /\ registry \in Seq(Service)
    /\ templates \in Seq(Template)
    /\ rules \in Seq(Rule)
    /\ dirs \in Seq(Mount)
    /\ scanned \in BOOLEAN
    /\ \A s \in DOMAIN order : s \in ToSet(registry) /\ order[s] \in Nat
    /\ loads \in 0..MaxLoads

\* Nothing is in a list twice.
Singles ==
    /\ Uniq(registry)
    /\ Uniq(templates)
    /\ IsInjective(rules) /\ OneOfASource(ToSet(rules))
    /\ IsInjective(dirs)

\* The directory that e was read from.
SourceDir(e) == IF e.from = Firmware THEN Root ELSE e.from
ReadFrom(e, in) == SourceDir(e) \in DOMAIN in /\ e.name \in Range(in[SourceDir(e)])
Loaded == {Firmware} \cup ToSet(dirs)

\* What is in the lists was read from a loaded directory, but for the instances
\* of templates; and no rule of a loaded directory is missing.
Sources ==
    /\ \A s \in ToSet(registry) :
         /\ s.from \in Loaded /\ s.load <= loads
         /\ s.name \in DOMAIN prefix \/ ReadFrom(s, unitsIn)
    /\ \A t \in ToSet(templates) : t.from \in Loaded
    /\ \A r \in ToSet(rules) : r.from \in Loaded /\ ReadFrom(r, rulesIn)
    /\ \A m \in ToSet(dirs) \cap DOMAIN rulesIn :
         Range(rulesIn[m]) \subseteq NamesOf({r \in ToSet(rules) : r.from = m})

ListInv == ListTypes /\ Singles /\ Sources

-----------------------------------------------------------------------------
(* The threads                                                             *)

Scans == [pc : {"idle", "stopping", "starting", "start", "faulted"},
          previous : Seq(Service), i : Nat \ {0}, count : Nat, service : Seq(Service)]
Callers == [pc : {"idle", "merged", "starting", "stopping"}, todo : Seq(Service)]
Calls == [pc : {"idle", "start", "stop"}, service : Seq(Service)]

ThreadTypes ==
    /\ running \subseteq Service /\ survivors \subseteq Service
    /\ halted \subseteq Service \ running
    /\ scan \in Scans
    /\ scan.pc = "start" => \E s \in Service : scan.service = <<s>>
    /\ caller \in [Mount -> Callers]
    /\ call \in Calls
    /\ call.pc # "idle" => \E s \in Service : call.service = <<s>>

\* No unit comes before one of the list that it depends on.
InOrder(l) == \A i, j \in DOMAIN l : i < j => l[j].name \notin requires[l[i].name]

StartsInOrder == \A m \in Mount : caller[m].pc = "starting" => InOrder(caller[m].todo)

TypeInv == ListInv /\ ThreadTypes /\ StartsInOrder

-----------------------------------------------------------------------------
(* Where no file system is unmounted from a unit that a scan starts or     *)
(* stops                                                                   *)

\* What a scan has in hand.
ScanInv ==
    /\ scan.pc # "faulted"
    /\ scan.pc # "stopping" => scan.previous = <<>>
    /\ scan.pc = "start" => scan.i <= scan.count /\ scan.service = <<registry[scan.i]>>
    /\ scan.pc # "start" => scan.service = <<>>
    /\ AtUnits => scan.count <= Len(registry)
    /\ \A p \in ToSet(scan.previous) :
         p.from \in Loaded /\ p.load < loads /\ \A s \in ToSet(registry) : p.load < s.load

\* What the callers have in hand.
CallerInv ==
    \A m \in Mount : LET todo == ToSet(caller[m].todo) IN
        /\ caller[m].pc = "stopping" => m \notin ToSet(dirs) /\ scan.pc = "idle"
        /\ caller[m].pc \in {"merged", "starting"} => m \in ToSet(dirs)
        /\ caller[m].pc = "starting" => todo \subseteq ToSet(registry)
        /\ \A s \in todo : s.from = m

CallInv ==
    /\ call.pc # "idle" => \E s \in ToSet(registry) : call.service = <<s>>
    /\ call.pc = "idle" => call.service = <<>>

\* Whoever has to stop s has not got to it.
ToBeStopped(s) ==
    \/ scan.pc = "stopping" /\ \E k \in DOMAIN scan.previous : scan.i <= k /\ scan.previous[k] = s
    \/ \E m \in Mount : caller[m].pc = "stopping" /\ s \in ToSet(caller[m].todo)

\* Whoever has to start s has not got to it.
ToBeStarted(s) ==
    \/ AtUnits /\ \E k \in 1..scan.count :
                    (scan.pc # "stopping" => scan.i <= k) /\ registry[k] = s
    \/ \E m \in Mount : \/ caller[m].pc = "merged" /\ s.from = m
                        \/ caller[m].pc = "starting" /\ s \in ToSet(caller[m].todo)
    \/ call.pc = "start" /\ s \in ToSet(call.service)

RunningInv ==
    \A s \in running : s \in survivors \/ s \in ToSet(registry) \/ ToBeStopped(s)

StartedInv ==
    \A s \in ToSet(registry) \ halted :
        s.name \in Broken \/ s \in running \/ ToBeStarted(s)

HandInv == ScanInv /\ CallerInv /\ CallInv /\ RunningInv /\ StartedInv

-----------------------------------------------------------------------------
(* Where no unit is called while a scan stops the previous generation      *)

\* The new generation waits for the previous one, and has its names.
TurnInv ==
    scan.pc = "stopping" =>
        /\ call.pc = "idle"
        /\ Uniq(scan.previous)
        /\ \A k \in 1..scan.count :
             /\ registry[k] \in running => registry[k] \in survivors
             /\ \A m \in Mount : caller[m].pc \in {"merged", "starting"} => registry[k].from # m
        /\ \A p \in ToSet(scan.previous) :
             p.name \in DOMAIN prefix \/ \E k \in 1..scan.count : registry[k].name = p.name
-----------------------------------------------------------------------------
(* What the steps do to the lists                                          *)

LEMMA KeptOfSource ==
  ASSUME NEW X, NEW list \in Seq(X), NEW m
  PROVE  /\ From(list, m) \in Seq(X) /\ Without(list, m) \in Seq(X)
         /\ ToSet(From(list, m)) = {e \in ToSet(list) : e.from = m}
         /\ ToSet(Without(list, m)) = {e \in ToSet(list) : e.from # m}
         /\ IsInjective(list) => IsInjective(From(list, m)) /\ IsInjective(Without(list, m))
         /\ Uniq(list) => Uniq(Without(list, m))
<1> DEFINE F == {e \in ToSet(list) : e.from = m}
           W == {e \in ToSet(list) : e.from # m}
<1>1. F \subseteq ToSet(list) /\ W \subseteq ToSet(list)
  OBVIOUS
<1>2. From(list, m) = Keep(list, F) /\ Without(list, m) = Keep(list, W)
  BY DEF From, Without
<1>3. /\ From(list, m) \in Seq(X) /\ ToSet(From(list, m)) = F
      /\ Without(list, m) \in Seq(X) /\ ToSet(Without(list, m)) = W
      /\ IsInjective(list) => IsInjective(From(list, m)) /\ IsInjective(Without(list, m))
  <2>1. ToSet(list) \cap F = F /\ ToSet(list) \cap W = W
    BY <1>1
  <2> HIDE DEF F, W
  <2>2. /\ Keep(list, F) \in Seq(X) /\ ToSet(Keep(list, F)) = ToSet(list) \cap F
        /\ IsInjective(list) => IsInjective(Keep(list, F))
    BY KeepFacts
  <2>3. /\ Keep(list, W) \in Seq(X) /\ ToSet(Keep(list, W)) = ToSet(list) \cap W
        /\ IsInjective(list) => IsInjective(Keep(list, W))
    BY KeepFacts
  <2> QED
    BY <1>2, <2>1, <2>2, <2>3
<1>4. ASSUME Uniq(list)
      PROVE  Uniq(Without(list, m))
  <2>1. IsInjective(list) /\ OneOfAName(ToSet(list))
    BY <1>4, UniqSet
  <2>2. OneOfAName(W)
    BY <2>1 DEF OneOfAName
  <2> HIDE DEF F, W
  <2> QED
    BY <1>3, <2>1, <2>2, UniqSet
<1> QED
  BY <1>3, <1>4

LEMMA SortsFacts ==
  ASSUME NEW X, NEW list \in Seq(X), NEW ord, NEW l \in Sorts(list, ord)
  PROVE  /\ l \in Seq(X) /\ ToSet(l) = ToSet(list) /\ IsInjective(l)
         /\ IsInjective(list) => Len(l) = Len(list)
         /\ \A i, j \in DOMAIN l : i < j => ord[l[i]] <= ord[l[j]]
         /\ Uniq(list) => Uniq(l)
<1>1. l \in SetToSeqs(ToSet(list)) /\ \A i, j \in DOMAIN l : i < j => ord[l[i]] <= ord[l[j]]
  BY DEF Sorts
<1>2. /\ l \in Seq(X) /\ ToSet(l) = ToSet(list) /\ IsInjective(l)
      /\ IsInjective(list) => Len(l) = Len(list)
  BY <1>1, ListsOfSet
<1>3. Uniq(list) => Uniq(l)
  BY <1>2, UniqSet
<1> QED
  BY <1>1, <1>2, <1>3

\* The files hold what the assumptions say.
LEMMA Files ==
  /\ \A d \in DOMAIN unitsIn : unitsIn[d] \in Seq(DOMAIN requires) /\ IsInjective(unitsIn[d])
  /\ \A d \in DOMAIN templatesIn :
       templatesIn[d] \in Seq(TemplateName) /\ IsInjective(templatesIn[d])
  /\ \A d \in DOMAIN rulesIn : rulesIn[d] \in Seq(RuleName) /\ IsInjective(rulesIn[d])
<1>1. ASSUME NEW d \in DOMAIN templatesIn
      PROVE  templatesIn[d] \in Seq(TemplateName) /\ IsInjective(templatesIn[d])
  <2>1. templatesIn[d] \in Seq(Range(templatesIn[d])) /\ IsInjective(templatesIn[d])
    BY Assumptions
  <2>2. Range(templatesIn[d]) \subseteq TemplateName
    BY DEF TemplateName
  <2> QED
    BY <2>1, <2>2
<1>2. ASSUME NEW d \in DOMAIN rulesIn
      PROVE  rulesIn[d] \in Seq(RuleName) /\ IsInjective(rulesIn[d])
  <2>1. rulesIn[d] \in Seq(Range(rulesIn[d]))
    BY Assumptions
  <2>2. Range(rulesIn[d]) \subseteq RuleName
    BY DEF RuleName
  <2>3. IsInjective(rulesIn[d])
    BY Assumptions DEF IsInjective
  <2> QED
    BY <2>1, <2>2, <2>3
<1> QED
  BY <1>1, <1>2, Assumptions

LEMMA Entries ==
  ASSUME loads \in 0..MaxLoads
  PROVE  /\ loads \in Nat
         /\ loads < MaxLoads => \A n \in DOMAIN requires, d \in Source :
              [name |-> n, from |-> d, load |-> loads + 1] \in Service
         /\ \A n \in DOMAIN requires, d \in Source :
              [name |-> n, from |-> d, load |-> loads] \in Service
         /\ loads < MaxLoads => \A n \in TemplateName, d \in Source :
              [name |-> n, from |-> d, load |-> loads + 1] \in Template
         /\ \A n \in RuleName, d \in Source :
              [name |-> n, from |-> d, load |-> loads + 1] \in Rule
<1>1. MaxLoads \in Nat
  BY Assumptions
<1>2. loads \in Nat /\ loads + 1 \in 0..(MaxLoads + 1)
      /\ (loads < MaxLoads => loads + 1 \in 0..MaxLoads)
  BY <1>1
<1> QED
  BY <1>2 DEF Service, Template, Rule, Source

\* A load of everything: the firmware's directories, then the loaded ones.
LEMMA LoadAll ==
  ASSUME NEW in, NEW N, NEW X, loads \in Nat, dirs \in Seq(Mount), Root \in DOMAIN in,
         \A d \in DOMAIN in : in[d] \in Seq(N) /\ IsInjective(in[d]),
         \A n \in N, d \in Source : [name |-> n, from |-> d, load |-> loads + 1] \in X
  PROVE  LET l == MergeAll(Parsed(in, Root, Firmware), in) IN
         /\ l \in Seq(X) /\ Uniq(l)
         /\ \A e \in ToSet(l) : e.from \in Loaded /\ e.load = loads + 1 /\ ReadFrom(e, in)
         /\ Range(in[Root]) \subseteq NamesOf(ToSet(l))
         /\ \A m \in ToSet(dirs) \cap DOMAIN in : Range(in[m]) \subseteq NamesOf(ToSet(l))
<1> DEFINE p == Parsed(in, Root, Firmware)
           l == MergeAll(p, in)
<1>1. /\ Firmware \in Source /\ Mount \subseteq Source /\ Firmware \notin Mount
      /\ ToSet(dirs) \subseteq Mount
  BY Assumptions, ToSetType DEF Source
<1>2. /\ p \in Seq(X) /\ Uniq(p) /\ NamesOf(ToSet(p)) = Range(in[Root])
      /\ \A e \in ToSet(p) : e.from = Firmware /\ e.load = loads + 1
  BY <1>1, ParsedFacts
<1> HIDE DEF p
<1>3. /\ l \in Seq(X) /\ Uniq(l)
      /\ \A e \in ToSet(l) : e \in ToSet(p) \/ Brought(e, in)
      /\ NamesOf(ToSet(p)) \subseteq NamesOf(ToSet(l))
      /\ \A m \in ToSet(dirs) \cap DOMAIN in : Range(in[m]) \subseteq NamesOf(ToSet(l))
  BY <1>1, <1>2, MergeAllFacts
<1>4. ASSUME NEW e \in ToSet(l)
      PROVE  e.from \in Loaded /\ e.load = loads + 1 /\ ReadFrom(e, in)
  <2>1. CASE e \in ToSet(p)
    <3>1. e.name \in NamesOf(ToSet(p))
      BY <2>1 DEF NamesOf
    <3> QED
      BY <1>2, <2>1, <3>1 DEF ReadFrom, SourceDir, Loaded
  <2>2. CASE Brought(e, in)
    BY <1>1, <2>2 DEF Brought, ReadFrom, SourceDir, Loaded
  <2> QED
    BY <1>3, <2>1, <2>2
<1> QED
  BY <1>2, <1>3, <1>4 DEF p

\* A scan makes all services anew, with the names of those it replaces.
LEMMA SwapLists ==
  ASSUME ListInv, ScanSwap
  PROVE  /\ ListInv'
         /\ Len(registry') = scan'.count
         /\ \A s \in ToSet(registry') : s.load = loads'
         /\ \A s \in ToSet(registry) :
              s.name \in DOMAIN prefix \/ s.name \in NamesOf(ToSet(registry'))
<1> DEFINE all == MergeAll(Parsed(unitsIn, Root, Firmware), unitsIn)
           tpl == MergeAll(Parsed(templatesIn, Root, Firmware), templatesIn)
<1>1. /\ loads < MaxLoads /\ loads' = loads + 1 /\ loads \in Nat
      /\ order' = Resolved(all) /\ registry' \in Sorts(all, order')
      /\ scan'.count = Len(all) /\ templates' = tpl /\ scanned' = TRUE
      /\ UNCHANGED <<rules, dirs>>
  BY Entries DEF ScanSwap, ListInv, ListTypes
<1>2. ListTypes /\ Singles /\ Sources
  BY DEF ListInv
<1>3. /\ all \in Seq(Service) /\ Uniq(all)
      /\ \A e \in ToSet(all) : e.from \in Loaded /\ e.load = loads + 1 /\ ReadFrom(e, unitsIn)
      /\ Range(unitsIn[Root]) \subseteq NamesOf(ToSet(all))
      /\ \A m \in ToSet(dirs) \cap DOMAIN unitsIn :
           Range(unitsIn[m]) \subseteq NamesOf(ToSet(all))
  <2>1. Root \in DOMAIN unitsIn /\ dirs \in Seq(Mount) /\ loads \in 0..MaxLoads
    BY <1>2, Assumptions DEF ListTypes
  <2> QED
    BY <1>1, <2>1, Files, Entries, LoadAll
<1>4. /\ tpl \in Seq(Template) /\ Uniq(tpl)
      /\ \A e \in ToSet(tpl) : e.from \in Loaded
  <2>1. Root \in DOMAIN templatesIn /\ dirs \in Seq(Mount) /\ loads \in 0..MaxLoads
    BY <1>2, Assumptions DEF ListTypes
  <2> QED
    BY <1>1, <2>1, Files, Entries, LoadAll
<1> HIDE DEF all, tpl
<1>5. /\ registry' \in Seq(Service) /\ ToSet(registry') = ToSet(all) /\ Uniq(registry')
      /\ Len(registry') = Len(all)
  <2>1. IsInjective(all)
    BY <1>3, UniqSet
  <2>2. PICK l \in Sorts(all, order') : l = registry'
    BY <1>1
  <2>3. /\ l \in Seq(Service) /\ ToSet(l) = ToSet(all) /\ Len(l) = Len(all) /\ Uniq(l)
    BY <1>3, <2>1, SortsFacts
  <2> QED
    BY <2>2, <2>3
<1>6. order' \in [ToSet(all) -> Nat]
  <2>1. \A s \in ToSet(all) : s.name \in DOMAIN requires
    <3>1. ToSet(all) \subseteq Service
      BY <1>3, ToSetType
    <3>2. \A s \in Service : s.name \in DOMAIN requires
      BY DEF Service
    <3> QED
      BY <3>1, <3>2
  <2>2. \A s \in DOMAIN order : order[s] \in Nat
    BY <1>2 DEF ListTypes
  <2>3. LET r == Resolved(all) IN
          /\ r \in [ToSet(all) -> Nat]
          /\ \A s, d \in ToSet(all) : d.name \in requires[s.name] => r[d] < r[s]
    BY <1>3, <2>1, <2>2, ResolvedFacts
  <2> QED
    BY <1>1, <2>3
<1>7. ListTypes'
  <2>1. loads' \in 0..MaxLoads
    <3>1. MaxLoads \in Nat
      BY Assumptions
    <3> QED
      BY <1>1, <3>1
  <2>2. scanned' \in BOOLEAN
    BY <1>1
  <2> QED
    BY <1>1, <1>2, <1>4, <1>5, <1>6, <2>1, <2>2 DEF ListTypes
<1>8. Singles'
  BY <1>1, <1>2, <1>4, <1>5 DEF Singles
<1>9. Sources'
  <2>1. Loaded' = Loaded /\ \A e, in : ReadFrom(e, in)' = ReadFrom(e, in)
    BY <1>1 DEF Loaded, ReadFrom, SourceDir
  <2>2. \A s \in ToSet(registry') : s.load <= loads'
    BY <1>1, <1>3, <1>5
  <2> QED
    BY <1>1, <1>2, <1>3, <1>4, <1>5, <2>1, <2>2 DEF Sources, ReadFrom, SourceDir, Loaded
<1>10. ASSUME NEW s \in ToSet(registry), s.name \notin DOMAIN prefix
       PROVE  s.name \in NamesOf(ToSet(registry'))
  <2>1. s.from \in Loaded /\ ReadFrom(s, unitsIn)
    BY <1>2, <1>10 DEF Sources
  <2> QED
    BY <1>3, <1>5, <2>1 DEF ReadFrom, SourceDir, Loaded
<1> QED
  BY <1>1, <1>3, <1>5, <1>7, <1>8, <1>9, <1>10 DEF ListInv
\* Rules are read again from every directory.
LEMMA RulesLists ==
  ASSUME ListInv, LoadRules
  PROVE  ListInv'
<1> DEFINE p == Parsed(rulesIn, Root, Firmware)
           all == AppendAll(p, rulesIn)
<1>1. /\ rules' = all /\ UNCHANGED <<registry, templates, dirs, scanned, order, loads>>
      /\ loads \in Nat /\ loads \in 0..MaxLoads
  BY Entries DEF LoadRules, ListInv, ListTypes
<1>2. ListTypes /\ Singles /\ Sources
  BY DEF ListInv
<1>3. /\ Firmware \in Source /\ Mount \subseteq Source /\ Firmware \notin Mount
      /\ ToSet(dirs) \subseteq Mount /\ Root \in DOMAIN rulesIn
  BY <1>2, Assumptions, ToSetType DEF Source, ListTypes
<1>4. \A n \in RuleName, d \in Source : [name |-> n, from |-> d, load |-> loads + 1] \in Rule
  BY <1>1, Entries
<1>5. /\ p \in Seq(Rule) /\ Uniq(p) /\ NamesOf(ToSet(p)) = Range(rulesIn[Root])
      /\ \A e \in ToSet(p) : e.from = Firmware /\ e.load = loads + 1
  BY <1>1, <1>3, <1>4, Files, ParsedFacts
<1>6. IsInjective(p) /\ OneOfASource(ToSet(p)) /\ \A e \in ToSet(p) : e.from \notin ToSet(dirs)
  BY <1>3, <1>5, UniqSet DEF OneOfASource, OneOfAName
<1> HIDE DEF p
<1>7. /\ all \in Seq(Rule)
      /\ \A e \in ToSet(all) : e \in ToSet(p) \/ Brought(e, rulesIn)
      /\ \A m \in ToSet(dirs) \cap DOMAIN rulesIn :
           Range(rulesIn[m]) \subseteq NamesOf({e \in ToSet(all) : e.from = m})
      /\ IsInjective(all) /\ OneOfASource(ToSet(all))
  <2>1. IsInjective(dirs) /\ dirs \in Seq(Mount)
    BY <1>2 DEF Singles, ListTypes
  <2>2. \A n \in RuleName, d \in Mount : [name |-> n, from |-> d, load |-> loads + 1] \in Rule
    BY <1>3, <1>4
  <2> QED
    BY <1>1, <1>5, <1>6, <2>1, <2>2, Files, AppendAllFacts
<1>8. ASSUME NEW e \in ToSet(all)
      PROVE  e.from \in Loaded /\ ReadFrom(e, rulesIn)
  <2>1. CASE e \in ToSet(p)
    <3>1. e.name \in NamesOf(ToSet(p))
      BY <2>1 DEF NamesOf
    <3> QED
      BY <1>3, <1>5, <2>1, <3>1 DEF ReadFrom, SourceDir, Loaded
  <2>2. CASE Brought(e, rulesIn)
    BY <1>3, <2>2 DEF Brought, ReadFrom, SourceDir, Loaded
  <2> QED
    BY <1>7, <2>1, <2>2
<1> HIDE DEF all
<1>9. ListTypes'
  BY <1>1, <1>2, <1>7 DEF ListTypes
<1>10. Singles'
  BY <1>1, <1>2, <1>7 DEF Singles
<1>11. Sources'
  BY <1>1, <1>2, <1>7, <1>8 DEF Sources, ReadFrom, SourceDir, Loaded
<1> QED
  BY <1>9, <1>10, <1>11 DEF ListInv

\* What is parsed for m, a mount point with a directory.
LEMMA ParsedOf ==
  ASSUME NEW in, NEW N, NEW X, NEW m \in Mount, loads \in Nat,
         \A d \in DOMAIN in : in[d] \in Seq(N) /\ IsInjective(in[d]),
         \A n \in N, d \in Source : [name |-> n, from |-> d, load |-> loads + 1] \in X
  PROVE  LET p == Parsed(in, m, m) IN
         /\ p \in Seq(X) /\ Uniq(p)
         /\ \A e \in ToSet(p) : e.from = m /\ e.load = loads + 1 /\ ReadFrom(e, in)
         /\ m \in DOMAIN in => NamesOf(ToSet(p)) = Range(in[m])
<1> DEFINE p == Parsed(in, m, m)
<1>1. m \in Source /\ m # Firmware
  BY Assumptions DEF Source
<1>2. /\ p \in Seq(X)
      /\ \A e \in ToSet(p) : e.from = m /\ e.load = loads + 1
      /\ ToSet(p) # {} => m \in DOMAIN in
      /\ m \in DOMAIN in => NamesOf(ToSet(p)) = Range(in[m])
      /\ m \in DOMAIN in /\ IsInjective(in[m]) => Uniq(p)
  BY <1>1, ParsedFacts
<1>3. m \notin DOMAIN in => Uniq(p)
  BY DEF Parsed, Uniq
<1> HIDE DEF p
<1>4. \A e \in ToSet(p) : ReadFrom(e, in)
  BY <1>1, <1>2 DEF ReadFrom, SourceDir, NamesOf
<1> QED
  BY <1>2, <1>3, <1>4 DEF p

\* A mount adds what its directory holds, past what there was.
LEMMA MergeLists ==
  ASSUME ListInv, NEW m \in Mount, AddMerge(m)
  PROVE  /\ ListInv'
         /\ m \notin ToSet(dirs) /\ ToSet(dirs') = ToSet(dirs) \cup {m}
         /\ loads' = loads + 1 /\ loads \in Nat
         /\ Len(registry) \in Nat /\ Len(registry') \in Nat /\ Len(registry) <= Len(registry')
         /\ \A k \in 1..Len(registry) : registry'[k] = registry[k]
         /\ ToSet(registry) \subseteq ToSet(registry')
         /\ \A s \in ToSet(registry') : s \in ToSet(registry) \/ (s.from = m /\ s.load = loads')
<1> DEFINE u == Parsed(unitsIn, m, m)
           t == Parsed(templatesIn, m, m)
           r == Parsed(rulesIn, m, m)
<1>1. /\ loads < MaxLoads /\ loads' = loads + 1 /\ loads \in Nat /\ loads \in 0..MaxLoads
      /\ dirs' = Append(dirs, m) /\ ~Contains(dirs, m)
      /\ registry' = Merge(registry, u) /\ templates' = Merge(templates, t)
      /\ rules' = rules \o r /\ UNCHANGED <<scanned, order>>
  BY Entries DEF AddMerge, ListInv, ListTypes
<1>2. ListTypes /\ Singles /\ Sources
  BY DEF ListInv
<1>3. /\ u \in Seq(Service) /\ Uniq(u)
      /\ \A e \in ToSet(u) : e.from = m /\ e.load = loads + 1 /\ ReadFrom(e, unitsIn)
  <2>1. \A d \in DOMAIN unitsIn : unitsIn[d] \in Seq(DOMAIN requires) /\ IsInjective(unitsIn[d])
    BY Files
  <2>2. \A n \in DOMAIN requires, d \in Source :
          [name |-> n, from |-> d, load |-> loads + 1] \in Service
    BY <1>1, Entries
  <2> QED
    BY <1>1, <2>1, <2>2, ParsedOf
<1>4. /\ t \in Seq(Template) /\ Uniq(t) /\ \A e \in ToSet(t) : e.from = m
  <2>1. \A d \in DOMAIN templatesIn :
          templatesIn[d] \in Seq(TemplateName) /\ IsInjective(templatesIn[d])
    BY Files
  <2>2. \A n \in TemplateName, d \in Source :
          [name |-> n, from |-> d, load |-> loads + 1] \in Template
    BY <1>1, Entries
  <2>4. loads \in Nat
    BY <1>1
  <2>3. LET p == Parsed(templatesIn, m, m) IN
         /\ p \in Seq(Template) /\ Uniq(p)
         /\ \A e \in ToSet(p) : e.from = m /\ e.load = loads + 1 /\ ReadFrom(e, templatesIn)
         /\ m \in DOMAIN templatesIn => NamesOf(ToSet(p)) = Range(templatesIn[m])
    <3> HIDE DEF u, t, r
    <3> QED
      BY <2>1, <2>2, <2>4, ParsedOf
  <2> QED
    BY <2>3
<1>5. /\ r \in Seq(Rule) /\ Uniq(r)
      /\ \A e \in ToSet(r) : e.from = m /\ ReadFrom(e, rulesIn)
      /\ m \in DOMAIN rulesIn => NamesOf(ToSet(r)) = Range(rulesIn[m])
  <2>1. \A d \in DOMAIN rulesIn : rulesIn[d] \in Seq(RuleName) /\ IsInjective(rulesIn[d])
    BY Files
  <2>2. \A n \in RuleName, d \in Source :
          [name |-> n, from |-> d, load |-> loads + 1] \in Rule
    BY <1>1, Entries
  <2>4. loads \in Nat
    BY <1>1
  <2>3. LET p == Parsed(rulesIn, m, m) IN
         /\ p \in Seq(Rule) /\ Uniq(p)
         /\ \A e \in ToSet(p) : e.from = m /\ e.load = loads + 1 /\ ReadFrom(e, rulesIn)
         /\ m \in DOMAIN rulesIn => NamesOf(ToSet(p)) = Range(rulesIn[m])
    <3> HIDE DEF u, t, r
    <3> QED
      BY <2>1, <2>2, <2>4, ParsedOf
  <2> QED
    BY <2>3
<1> HIDE DEF u, t, r
<1>6. /\ registry' \in Seq(Service) /\ Uniq(registry')
      /\ Len(registry) \in Nat /\ Len(registry') \in Nat /\ Len(registry) <= Len(registry')
      /\ \A k \in 1..Len(registry) : registry'[k] = registry[k]
      /\ ToSet(registry) \subseteq ToSet(registry')
      /\ ToSet(registry') \subseteq ToSet(registry) \cup ToSet(u)
  <2>1. registry \in Seq(Service) /\ Uniq(registry)
    BY <1>2 DEF ListTypes, Singles
  <2> QED
    BY <1>1, <1>3, <2>1, MergeFacts
<1>7. /\ templates' \in Seq(Template) /\ Uniq(templates')
      /\ ToSet(templates') \subseteq ToSet(templates) \cup ToSet(t)
  <2>1. templates \in Seq(Template) /\ Uniq(templates)
    BY <1>2 DEF ListTypes, Singles
  <2> QED
    BY <1>1, <1>4, <2>1, MergeFacts
<1>8. /\ dirs \in Seq(Mount) /\ IsInjective(dirs) /\ m \notin ToSet(dirs)
      /\ m # Firmware
  <2>1. dirs \in Seq(Mount) /\ IsInjective(dirs)
    BY <1>2 DEF ListTypes, Singles
  <2>2. m # Firmware
    BY Assumptions
  <2> QED
    BY <1>1, <2>1, <2>2, ToSetType
<1>9. dirs' \in Seq(Mount) /\ IsInjective(dirs') /\ ToSet(dirs') = ToSet(dirs) \cup {m}
  BY <1>1, <1>8, AppendSet
<1>10. /\ rules' \in Seq(Rule) /\ ToSet(rules') = ToSet(rules) \cup ToSet(r)
       /\ IsInjective(rules') /\ OneOfASource(ToSet(rules'))
  <2>1. rules \in Seq(Rule) /\ IsInjective(rules) /\ OneOfASource(ToSet(rules))
    BY <1>2 DEF ListTypes, Singles
  <2>2. IsInjective(r) /\ OneOfAName(ToSet(r))
    BY <1>5, UniqSet
  <2>3. \A e \in ToSet(rules) : e.from # m
    BY <1>2, <1>8 DEF Sources, Loaded
  <2>4. ToSet(rules) \cap ToSet(r) = {}
    BY <1>5, <2>3
  <2>5. ToSet(rules') = ToSet(rules) \cup ToSet(r) /\ rules' \in Seq(Rule)
    BY <1>1, <1>5, <2>1, ConcatSet
  <2>6. IsInjective(rules')
    BY <1>1, <1>5, <2>1, <2>2, <2>4, ConcatInjective
  <2>7. OneOfASource(ToSet(rules'))
    BY <1>5, <2>1, <2>2, <2>3, <2>5 DEF OneOfASource, OneOfAName
  <2> QED
    BY <2>5, <2>6, <2>7
<1>11. ListTypes'
  <2>1. loads' \in 0..MaxLoads
    <3>1. MaxLoads \in Nat
      BY Assumptions
    <3> QED
      BY <1>1, <3>1
  <2> QED
    BY <1>1, <1>2, <1>6, <1>7, <1>9, <1>10, <2>1 DEF ListTypes
<1>12. Singles'
  BY <1>6, <1>7, <1>9, <1>10 DEF Singles
<1>13. Sources'
  <2>1. Loaded' = Loaded \cup {m}
    BY <1>9 DEF Loaded
  <2>2. ASSUME NEW s \in ToSet(registry')
        PROVE  /\ s.from \in Loaded' /\ s.load <= loads'
               /\ s.name \in DOMAIN prefix \/ ReadFrom(s, unitsIn)
    <3>1. CASE s \in ToSet(registry)
      <4>1. s.load \in Nat
        <5>1. registry \in Seq(Service) /\ \A e \in Service : e.load \in Nat
          BY <1>2 DEF ListTypes, Service
        <5> QED
          BY <3>1, <5>1, ToSetType
      <4>2. /\ s.from \in Loaded /\ s.load <= loads
            /\ s.name \in DOMAIN prefix \/ ReadFrom(s, unitsIn)
        BY <1>2, <3>1 DEF Sources
      <4>3. s.load <= loads'
        BY <1>1, <4>1, <4>2
      <4> QED
        BY <2>1, <4>2, <4>3
    <3>2. CASE s \in ToSet(u)
      <4>1. s.from = m /\ s.load = loads + 1 /\ ReadFrom(s, unitsIn)
        BY <1>3, <3>2
      <4>2. s.load <= loads'
        BY <1>1, <4>1
      <4> QED
        BY <2>1, <4>1, <4>2
    <3> QED
      BY <1>6, <3>1, <3>2
  <2>3. \A x \in ToSet(templates') : x.from \in Loaded'
    BY <1>2, <1>4, <1>7, <2>1 DEF Sources
  <2>4. \A x \in ToSet(rules') : x.from \in Loaded' /\ ReadFrom(x, rulesIn)
    BY <1>2, <1>5, <1>10, <2>1 DEF Sources
  <2>5. ASSUME NEW d \in ToSet(dirs') \cap DOMAIN rulesIn
        PROVE  Range(rulesIn[d]) \subseteq NamesOf({x \in ToSet(rules') : x.from = d})
    <3>1. CASE d = m
      BY <1>5, <1>10, <2>5, <3>1 DEF NamesOf
    <3>2. CASE d # m
      <4>1. Range(rulesIn[d]) \subseteq NamesOf({x \in ToSet(rules) : x.from = d})
        BY <1>2, <1>9, <2>5, <3>2 DEF Sources
      <4> QED
        BY <1>10, <4>1 DEF NamesOf
    <3> QED
      BY <3>1, <3>2
  <2> QED
    <3>1. \A s, in : ReadFrom(s, in)' <=> ReadFrom(s, in)
      BY DEF ReadFrom, SourceDir
    <3> QED
      BY <2>2, <2>3, <2>4, <2>5, <3>1 DEF Sources
<1>14. \A s \in ToSet(registry') : s \in ToSet(registry) \/ (s.from = m /\ s.load = loads')
  BY <1>1, <1>3, <1>6
<1> QED
  BY <1>1, <1>6, <1>8, <1>9, <1>11, <1>12, <1>13, <1>14 DEF ListInv
\* The services of m are put in an order in which they may be started.
LEMMA ResolveLists ==
  ASSUME ListInv, NEW m \in Mount, AddResolve(m)
  PROVE  /\ ListInv'
         /\ \E l : /\ caller' = [caller EXCEPT ![m] = [pc |-> "starting", todo |-> l]]
                   /\ l \in Seq(Service) /\ InOrder(l)
                   /\ ToSet(l) = {s \in ToSet(registry) : s.from = m}
<1>1. PICK l \in Sorts(From(registry, m), order') :
        caller' = [caller EXCEPT ![m] = [pc |-> "starting", todo |-> l]]
  BY DEF AddResolve
<1>2. order' = Resolved(registry)
      /\ UNCHANGED <<registry, templates, rules, dirs, scanned, loads>>
  BY DEF AddResolve
<1>3. ListTypes /\ Singles /\ Sources
  BY DEF ListInv
<1>4. registry \in Seq(Service) /\ \A s \in DOMAIN order : order[s] \in Nat
  BY <1>3 DEF ListTypes
<1>5. \A s \in ToSet(registry) : s.name \in DOMAIN requires
  <2>1. ToSet(registry) \subseteq Service
    BY <1>4, ToSetType
  <2> QED
    BY <2>1 DEF Service
<1>6. LET r == Resolved(registry) IN
        /\ r \in [ToSet(registry) -> Nat]
        /\ \A s, d \in ToSet(registry) : d.name \in requires[s.name] => r[d] < r[s]
  BY <1>4, <1>5, ResolvedFacts
<1>7. /\ l \in Seq(Service) /\ ToSet(l) = {s \in ToSet(registry) : s.from = m}
      /\ \A i, j \in DOMAIN l : i < j => order'[l[i]] <= order'[l[j]]
  <2>1. /\ From(registry, m) \in Seq(Service)
        /\ ToSet(From(registry, m)) = {s \in ToSet(registry) : s.from = m}
    BY <1>4, KeptOfSource
  <2> QED
    BY <1>1, <2>1, SortsFacts
<1>8. ASSUME NEW i \in DOMAIN l, NEW j \in DOMAIN l, i < j,
             l[j].name \in requires[l[i].name]
      PROVE  FALSE
  <2>1. l[i] \in ToSet(registry) /\ l[j] \in ToSet(registry)
    BY <1>7, ToSetType
  <2>2. order'[l[j]] < order'[l[i]] /\ order'[l[i]] <= order'[l[j]]
    BY <1>2, <1>6, <1>7, <1>8, <2>1
  <2>3. order'[l[i]] \in Nat /\ order'[l[j]] \in Nat
    BY <1>2, <1>6, <2>1
  <2> QED
    BY <2>2, <2>3
<1>9. InOrder(l)
  BY <1>8 DEF InOrder
<1>10. ListInv'
  <2>1. ListTypes'
    BY <1>2, <1>3, <1>6 DEF ListTypes
  <2>2. Singles' /\ Sources'
    BY <1>2, <1>3 DEF Singles, Sources, Loaded, ReadFrom, SourceDir
  <2> QED
    BY <2>1, <2>2 DEF ListInv
<1> QED
  BY <1>1, <1>7, <1>9, <1>10

\* An unmount takes out what came from m, and nothing else.
LEMMA TakeLists ==
  ASSUME ListInv, NEW m \in Mount, RemoveTake(m)
  PROVE  /\ ListInv'
         /\ m \in ToSet(dirs) /\ ToSet(dirs') = ToSet(dirs) \ {m}
         /\ ToSet(registry') = {s \in ToSet(registry) : s.from # m}
         /\ \E l : /\ caller' = [caller EXCEPT ![m] = [pc |-> "stopping", todo |-> l]]
                   /\ l \in Seq(Service)
                   /\ ToSet(l) = {s \in ToSet(registry) : s.from = m}
<1>1. /\ dirs' = Keep(dirs, Mount \ {m}) /\ Contains(dirs, m)
      /\ registry' = Without(registry, m) /\ templates' = Without(templates, m)
      /\ rules' = Without(rules, m)
      /\ order' = [s \in DOMAIN order \cap ToSet(registry') |-> order[s]]
      /\ UNCHANGED <<scanned, loads>>
      /\ caller' = [caller EXCEPT ![m] =
                      [pc |-> "stopping", todo |-> Reverse(From(registry, m))]]
  BY DEF RemoveTake
<1>2. ListTypes /\ Singles /\ Sources
  BY DEF ListInv
<1>3. registry \in Seq(Service) /\ templates \in Seq(Template) /\ rules \in Seq(Rule)
      /\ dirs \in Seq(Mount)
  BY <1>2 DEF ListTypes
<1>4. /\ registry' \in Seq(Service) /\ Uniq(registry')
      /\ ToSet(registry') = {s \in ToSet(registry) : s.from # m}
  BY <1>1, <1>2, <1>3, KeptOfSource DEF Singles
<1>5. /\ templates' \in Seq(Template) /\ Uniq(templates')
      /\ ToSet(templates') = {t \in ToSet(templates) : t.from # m}
  BY <1>1, <1>2, <1>3, KeptOfSource DEF Singles
<1>6. /\ rules' \in Seq(Rule) /\ IsInjective(rules')
      /\ ToSet(rules') = {r \in ToSet(rules) : r.from # m}
  BY <1>1, <1>2, <1>3, KeptOfSource DEF Singles
<1>7. OneOfASource(ToSet(rules'))
  BY <1>2, <1>6 DEF Singles, OneOfASource
<1>8. /\ dirs' \in Seq(Mount) /\ IsInjective(dirs')
      /\ m \in ToSet(dirs) /\ ToSet(dirs') = ToSet(dirs) \ {m}
  <2> DEFINE S == Mount \ {m}
  <2>1. IsInjective(dirs) /\ m \in ToSet(dirs) /\ ToSet(dirs) \subseteq Mount
    BY <1>1, <1>2, <1>3, ToSetType DEF Singles
  <2>2. ToSet(dirs) \cap S = ToSet(dirs) \ {m}
    BY <2>1
  <2> HIDE DEF S
  <2>3. /\ Keep(dirs, S) \in Seq(Mount) /\ ToSet(Keep(dirs, S)) = ToSet(dirs) \cap S
        /\ IsInjective(dirs) => IsInjective(Keep(dirs, S))
    BY <1>3, KeepFacts
  <2>4. dirs' = Keep(dirs, S)
    BY <1>1 DEF S
  <2> QED
    BY <2>1, <2>2, <2>3, <2>4
<1>9. ListTypes'
  <2>1. \A s \in DOMAIN order' : s \in ToSet(registry') /\ order'[s] \in Nat
    BY <1>1, <1>2 DEF ListTypes
  <2> QED
    BY <1>1, <1>2, <1>4, <1>5, <1>6, <1>8, <2>1 DEF ListTypes
<1>10. Singles'
  BY <1>4, <1>5, <1>6, <1>7, <1>8 DEF Singles
<1>11. Sources'
  <2>1. Loaded' = Loaded \ {m}
    <3>1. m # Firmware
      BY Assumptions
    <3> QED
      BY <1>8, <3>1 DEF Loaded
  <2>2. \A s \in ToSet(registry') :
          /\ s.from \in Loaded' /\ s.load <= loads'
          /\ s.name \in DOMAIN prefix \/ ReadFrom(s, unitsIn)
    BY <1>1, <1>2, <1>4, <2>1 DEF Sources
  <2>3. \A x \in ToSet(templates') : x.from \in Loaded'
    BY <1>2, <1>5, <2>1 DEF Sources
  <2>4. \A x \in ToSet(rules') : x.from \in Loaded' /\ ReadFrom(x, rulesIn)
    BY <1>2, <1>6, <2>1 DEF Sources
  <2>5. ASSUME NEW d \in ToSet(dirs') \cap DOMAIN rulesIn
        PROVE  Range(rulesIn[d]) \subseteq NamesOf({x \in ToSet(rules') : x.from = d})
    <3>1. Range(rulesIn[d]) \subseteq NamesOf({x \in ToSet(rules) : x.from = d})
      BY <1>2, <1>8 DEF Sources
    <3>2. {x \in ToSet(rules) : x.from = d} = {x \in ToSet(rules') : x.from = d}
      BY <1>6, <1>8
    <3> QED
      BY <3>1, <3>2
  <2>6. \A s, in : ReadFrom(s, in)' <=> ReadFrom(s, in)
    BY DEF ReadFrom, SourceDir
  <2> QED
    BY <2>2, <2>3, <2>4, <2>5, <2>6 DEF Sources
<1>12. \E l : /\ caller' = [caller EXCEPT ![m] = [pc |-> "stopping", todo |-> l]]
              /\ l \in Seq(Service)
              /\ ToSet(l) = {s \in ToSet(registry) : s.from = m}
  <2>1. /\ From(registry, m) \in Seq(Service)
        /\ ToSet(From(registry, m)) = {s \in ToSet(registry) : s.from = m}
    BY <1>3, KeptOfSource
  <2>2. /\ Reverse(From(registry, m)) \in Seq(Service)
        /\ ToSet(Reverse(From(registry, m))) = ToSet(From(registry, m))
    BY <2>1, ReverseSet
  <2> QED
    BY <1>1, <2>1, <2>2
<1> QED
  BY <1>4, <1>8, <1>9, <1>10, <1>11, <1>12 DEF ListInv

\* An instance goes to the end of the list.
LEMMA InstantiateLists ==
  ASSUME ListInv, NEW n \in Called, Instantiate(n)
  PROVE  /\ ListInv'
         /\ \E s \in Service :
              /\ s.load = loads /\ registry' = Append(registry, s)
              /\ call' = [pc |-> "start", service |-> <<s>>]
         /\ Len(registry) \in Nat /\ Len(registry') \in Nat /\ Len(registry) <= Len(registry')
         /\ \A k \in 1..Len(registry) : registry'[k] = registry[k]
         /\ ToSet(registry) \subseteq ToSet(registry')
         /\ \A s \in ToSet(registry') :
              \/ s \in ToSet(registry)
              \/ s.load = loads /\ call' = [pc |-> "start", service |-> <<s>>]
<1>1. PICK t \in Named(templates, prefix[n]) :
        LET s == [name |-> n, from |-> t.from, load |-> loads] IN
         /\ registry' = Append(registry, s)
         /\ call' = [pc |-> "start", service |-> <<s>>]
  BY DEF Instantiate
<1>2. /\ Named(registry, n) = {} /\ n \in DOMAIN prefix
      /\ UNCHANGED <<templates, rules, dirs, scanned, order, loads>>
  BY DEF Instantiate
<1> DEFINE s == [name |-> n, from |-> t.from, load |-> loads]
<1>3. ListTypes /\ Singles /\ Sources
  BY DEF ListInv
<1>4. registry' = Append(registry, s) /\ call' = [pc |-> "start", service |-> <<s>>]
  BY <1>1
<1>5. registry \in Seq(Service) /\ Uniq(registry) /\ loads \in 0..MaxLoads /\ loads \in Nat
  BY <1>3, Entries DEF ListTypes, Singles
<1>6. t.from \in Loaded /\ t.from \in Source
  <2>1. t \in ToSet(templates)
    BY DEF Named
  <2>2. ToSet(dirs) \subseteq Mount
    BY <1>3, ToSetType DEF ListTypes
  <2> QED
    BY <1>3, <2>1, <2>2 DEF Sources, Loaded, Source
<1>7. s \in Service /\ s.name = n /\ s.from = t.from /\ s.load = loads
  BY <1>2, <1>5, <1>6, Entries, Assumptions
<1> HIDE DEF s
<1>8. s \notin ToSet(registry) /\ \A e \in ToSet(registry) : e.name # s.name
  BY <1>2, <1>7 DEF Named
<1>9. /\ registry' \in Seq(Service) /\ ToSet(registry') = ToSet(registry) \cup {s}
      /\ Len(registry') = Len(registry) + 1
      /\ \A k \in 1..Len(registry) : registry'[k] = registry[k]
      /\ IsInjective(registry) => IsInjective(registry')
  BY <1>4, <1>5, <1>7, <1>8, AppendSet
<1>10. Uniq(registry')
  <2>1. IsInjective(registry) /\ OneOfAName(ToSet(registry))
    BY <1>5, UniqSet
  <2>2. OneOfAName(ToSet(registry'))
    BY <1>8, <1>9, <2>1 DEF OneOfAName
  <2> QED
    BY <1>9, <2>1, <2>2, UniqSet
<1>11. Len(registry) \in Nat
  BY <1>5
<1>12. ListTypes'
  BY <1>2, <1>3, <1>9 DEF ListTypes
<1>13. Singles'
  BY <1>2, <1>3, <1>10 DEF Singles
<1>14. Sources'
  <2>1. Loaded' = Loaded
    BY <1>2 DEF Loaded
  <2>2. s.load <= loads'
    BY <1>2, <1>5, <1>7
  <2>3. \A e \in ToSet(registry') :
          /\ e.from \in Loaded' /\ e.load <= loads'
          /\ e.name \in DOMAIN prefix \/ ReadFrom(e, unitsIn)
    BY <1>2, <1>3, <1>6, <1>7, <1>9, <2>1, <2>2 DEF Sources
  <2>4. \A e, in : ReadFrom(e, in)' <=> ReadFrom(e, in)
    BY DEF ReadFrom, SourceDir
  <2> QED
    BY <1>2, <1>3, <2>1, <2>3, <2>4 DEF Sources
<1>15. Len(registry) \in Nat /\ Len(registry') \in Nat /\ Len(registry) <= Len(registry')
  BY <1>9, <1>11
<1>16. \E e \in Service :
         /\ e.load = loads /\ registry' = Append(registry, e)
         /\ call' = [pc |-> "start", service |-> <<e>>]
  BY <1>4, <1>7
<1>17. \A e \in ToSet(registry') : e \in ToSet(registry)
         \/ (e.load = loads /\ call' = [pc |-> "start", service |-> <<e>>])
  BY <1>4, <1>7, <1>9
<1>18. ListInv'
  BY <1>12, <1>13, <1>14 DEF ListInv
<1> QED
  BY <1>9, <1>15, <1>16, <1>17, <1>18
LEMMA SameLists ==
  ASSUME ListInv, UNCHANGED <<lists, loads>>
  PROVE  ListInv'
<1>1. ListTypes' /\ Singles'
  BY DEF ListInv, ListTypes, Singles, lists
<1>2. Sources'
  BY DEF ListInv, Sources, Loaded, ReadFrom, SourceDir, lists
<1> QED
  BY <1>1, <1>2 DEF ListInv

-----------------------------------------------------------------------------
(* Types                                                                   *)

LEMMA One ==
  ASSUME NEW s
  PROVE  ToSet(<<s>>) = {s} /\ <<s>>[1] = s
BY DEF ToSet

LEMMA StartFacts ==
  ASSUME NEW s \in Service, running \subseteq Service, halted \subseteq Service \ running, Start(s)
  PROVE  /\ running' \subseteq Service /\ halted' \subseteq Service \ running'
         /\ running \subseteq running' /\ running' \subseteq running \cup {s}
         /\ halted' = halted \ {s}
         /\ s.name \in Broken \/ s \in running'
BY DEF Start

\* A scan that goes on is one still.
LEMMA ScanGoesOn ==
  ASSUME scan \in Scans
  PROVE  /\ scan.i \in Nat \ {0} /\ scan.count \in Nat
         /\ scan.previous \in Seq(Service) /\ scan.service \in Seq(Service)
         /\ [scan EXCEPT !.i = @ + 1] \in Scans
         /\ [scan EXCEPT !.pc = "starting", !.previous = <<>>, !.i = 1] \in Scans
         /\ \A s \in Service : [scan EXCEPT !.pc = "start", !.service = <<s>>] \in Scans
         /\ [scan EXCEPT !.pc = "faulted"] \in Scans
         /\ [scan EXCEPT !.pc = "starting", !.service = <<>>, !.i = @ + 1] \in Scans
         /\ [scan EXCEPT !.pc = "idle", !.i = 1, !.count = 0] \in Scans
<1>1. /\ scan.i \in Nat \ {0} /\ scan.count \in Nat
      /\ scan.previous \in Seq(Service) /\ scan.service \in Seq(Service)
      /\ scan.pc \in {"idle", "stopping", "starting", "start", "faulted"}
      /\ scan = [pc |-> scan.pc, previous |-> scan.previous, i |-> scan.i,
                 count |-> scan.count, service |-> scan.service]
  BY DEF Scans
<1> DEFINE N == Nat \ {0}
           Q == Seq(Service)
<1>2. scan.i + 1 \in N /\ 1 \in N /\ 0 \in Nat
  BY <1>1
<1>3. <<>> \in Q /\ \A s \in Service : <<s>> \in Q
  OBVIOUS
<1>4. Scans = [pc : {"idle", "stopping", "starting", "start", "faulted"},
               previous : Q, i : N, count : Nat, service : Q]
  BY DEF Scans
<1>5. scan.i \in N /\ scan.previous \in Q /\ scan.service \in Q
  BY <1>1
<1> HIDE DEF N, Q
<1>6. [scan EXCEPT !.i = @ + 1] \in Scans
  BY <1>1, <1>2, <1>4, <1>5
<1>7. [scan EXCEPT !.pc = "starting", !.previous = <<>>, !.i = 1] \in Scans
  BY <1>1, <1>2, <1>3, <1>4, <1>5
<1>8. \A s \in Service : [scan EXCEPT !.pc = "start", !.service = <<s>>] \in Scans
  BY <1>1, <1>3, <1>4, <1>5
<1>9. [scan EXCEPT !.pc = "faulted"] \in Scans
  BY <1>1, <1>4, <1>5
<1>10. [scan EXCEPT !.pc = "starting", !.service = <<>>, !.i = @ + 1] \in Scans
  BY <1>1, <1>2, <1>3, <1>4, <1>5
<1>11. [scan EXCEPT !.pc = "idle", !.i = 1, !.count = 0] \in Scans
  BY <1>1, <1>2, <1>4, <1>5
<1> QED
  BY <1>1, <1>6, <1>7, <1>8, <1>9, <1>10, <1>11

LEMMA TypesInit ==
  ASSUME Init
  PROVE  TypeInv
<1>1. <<>> \in Seq(Service) /\ <<>> \in Seq(Template) /\ <<>> \in Seq(Rule) /\ <<>> \in Seq(Mount)
      /\ ToSet(<<>>) = {} /\ DOMAIN <<>> = {}
  BY DEF ToSet
<1>2. ListTypes
  <2>1. DOMAIN NoOrder = {}
    BY DEF NoOrder
  <2>2. 0 \in 0..MaxLoads
    <3>1. MaxLoads \in Nat
      BY Assumptions
    <3> QED
      BY <3>1
  <2> QED
    BY <1>1, <2>1, <2>2 DEF Init, ListTypes
<1>3. Singles
  BY <1>1 DEF Init, Singles, Uniq, IsInjective, OneOfASource
<1>4. Sources
  BY <1>1 DEF Init, Sources
<1>5. ThreadTypes
  BY <1>1 DEF Init, ThreadTypes, Scans, Callers, Calls
<1>6. StartsInOrder
  BY DEF Init, StartsInOrder
<1> QED
  BY <1>2, <1>3, <1>4, <1>5, <1>6 DEF TypeInv, ListInv

\* The list left of one in order is in order.
LEMMA OrderOfRest ==
  ASSUME NEW l \in Seq(Service), l # <<>>, InOrder(l)
  PROVE  InOrder(Tail(l)) /\ \A s \in ToSet(Tail(l)) : s.name \notin requires[Head(l).name]
<1>1. /\ Len(l) \in Nat \ {0} /\ DOMAIN l = 1..Len(l) /\ Tail(l) \in Seq(Service)
      /\ Len(Tail(l)) = Len(l) - 1 /\ DOMAIN Tail(l) = 1..(Len(l) - 1)
      /\ \A i \in 1..(Len(l) - 1) : Tail(l)[i] = l[i + 1]
      /\ Head(l) = l[1]
  OBVIOUS
<1>2. InOrder(Tail(l))
  <2>1. \A i \in 1..(Len(l) - 1) : i + 1 \in DOMAIN l
    BY <1>1
  <2> QED
    BY <1>1, <2>1 DEF InOrder
<1>3. ASSUME NEW s \in ToSet(Tail(l))
      PROVE  s.name \notin requires[Head(l).name]
  <2>1. PICK i \in 1..(Len(l) - 1) : Tail(l)[i] = s
    BY <1>1 DEF ToSet
  <2>2. 1 \in DOMAIN l /\ i + 1 \in DOMAIN l /\ 1 < i + 1
    BY <1>1
  <2> QED
    BY <1>1, <2>1, <2>2 DEF InOrder
<1> QED
  BY <1>2, <1>3

LEMMA TypesNext ==
  ASSUME TypeInv, [Next]_vars
  PROVE  TypeInv'
<1>1. /\ ListInv /\ ThreadTypes /\ StartsInOrder
      /\ registry \in Seq(Service) /\ ToSet(registry) \subseteq Service
      /\ Len(registry) \in Nat /\ \A i \in 1..Len(registry) : registry[i] \in ToSet(registry)
  BY ToSetType DEF TypeInv, ListInv, ListTypes
<1>2. /\ running \subseteq Service /\ halted \subseteq Service \ running
      /\ survivors \subseteq Service
      /\ scan \in Scans /\ caller \in [Mount -> Callers] /\ call \in Calls
      /\ scan.pc = "start" => \E s \in Service : scan.service = <<s>>
      /\ call.pc # "idle" => \E s \in Service : call.service = <<s>>
  BY <1>1 DEF ThreadTypes
<1>3. CASE ScanSwap
  <2>1. ListInv' /\ Len(registry') = scan'.count
    BY <1>1, <1>3, SwapLists
  <2>2. Len(registry') \in Nat
    BY <2>1 DEF ListInv, ListTypes
  <2>3. ThreadTypes'
    <3>1. scan' = [pc |-> "stopping", previous |-> registry, i |-> 1,
                   count |-> scan'.count, service |-> <<>>]
      BY <1>3 DEF ScanSwap
    <3>2. scan' \in Scans
      <4>1. <<>> \in Seq(Service) /\ 1 \in Nat \ {0} /\ scan'.count \in Nat
        BY <2>1, <2>2
      <4>2. PICK c \in Nat : c = scan'.count
        BY <4>1
      <4>3. [pc |-> "stopping", previous |-> registry, i |-> 1,
             count |-> c, service |-> <<>>] \in Scans
        BY <1>1, <4>1 DEF Scans
      <4> QED
        BY <3>1, <4>2, <4>3
    <3> QED
      BY <1>2, <1>3, <3>1, <3>2 DEF ScanSwap, ThreadTypes, byName
  <2>4. StartsInOrder'
    BY <1>1, <1>3 DEF ScanSwap, StartsInOrder
  <2> QED
    BY <2>1, <2>3, <2>4 DEF TypeInv
<1>4. CASE ScanStop
  <2>0. scan.previous[scan.i] \in Service
    <3>1. /\ scan.i \in Nat \ {0} /\ scan.previous \in Seq(Service)
          /\ scan.i <= Len(scan.previous)
      BY <1>2, <1>4, ScanGoesOn DEF ScanStop
    <3> QED
      BY <3>1
  <2>1. /\ running' \subseteq running /\ survivors' \subseteq Service
        /\ UNCHANGED <<lists, loads, caller, call, halted>>
        /\ scan' = [scan EXCEPT !.i = @ + 1] /\ scan.pc = "stopping"
    BY <1>2, <1>4, <2>0 DEF ScanStop, StopAndDestroy, Stop, byName
  <2>2. ListInv'
    BY <1>1, <2>1, SameLists
  <2>3. scan' \in Scans /\ scan'.pc = "stopping"
    BY <1>2, <2>1 DEF Scans
  <2>4. ThreadTypes'
    BY <1>2, <2>1, <2>3 DEF ThreadTypes
  <2>5. StartsInOrder'
    BY <1>1, <2>1 DEF StartsInOrder
  <2> QED
    BY <2>2, <2>4, <2>5 DEF TypeInv
<1>5. CASE ScanDestroy \/ ScanEnd
  <2>1. /\ UNCHANGED <<lists, loads, running, caller, call, halted, survivors>>
        /\ scan' \in Scans /\ scan'.pc \in {"starting", "idle"}
    <3>1. CASE ScanDestroy
      <4>1. scan' = [scan EXCEPT !.pc = "starting", !.previous = <<>>, !.i = 1]
        BY <3>1 DEF ScanDestroy
      <4>2. scan'.pc = "starting"
        BY <1>2, <4>1 DEF Scans
      <4> QED
        BY <1>2, <3>1, <4>1, <4>2, ScanGoesOn DEF ScanDestroy, byName
    <3>2. CASE ScanEnd
      <4>1. scan' = [scan EXCEPT !.pc = "idle", !.i = 1, !.count = 0]
        BY <3>2 DEF ScanEnd
      <4>2. scan'.pc = "idle"
        BY <1>2, <4>1 DEF Scans
      <4> QED
        BY <1>2, <3>2, <4>1, <4>2, ScanGoesOn DEF ScanEnd, byName
    <3> QED
      BY <1>5, <3>1, <3>2
  <2>2. ListInv'
    BY <1>1, <2>1, SameLists
  <2>4. ThreadTypes'
    BY <1>2, <2>1 DEF ThreadTypes
  <2>5. StartsInOrder'
    BY <1>1, <2>1 DEF StartsInOrder
  <2> QED
    BY <2>2, <2>4, <2>5 DEF TypeInv
<1>6. CASE ScanGet
  <2>1. UNCHANGED <<lists, loads, running, caller, call, halted, survivors>>
    BY <1>6 DEF ScanGet, byName
  <2>2. ListInv'
    BY <1>1, <2>1, SameLists
  <2>3. scan' \in Scans /\ (scan'.pc = "start" => \E s \in Service : scan'.service = <<s>>)
    <3>1. CASE scan.i <= Len(registry)
      <4>1. registry[scan.i] \in Service
        BY <1>1, <1>2, <3>1 DEF Scans
      <4>2. scan' = [scan EXCEPT !.pc = "start", !.service = <<registry[scan.i]>>]
        BY <1>6, <3>1 DEF ScanGet
      <4>3. scan'.service = <<registry[scan.i]>>
        BY <1>2, <4>2 DEF Scans
      <4> QED
        BY <1>2, <4>1, <4>2, <4>3, ScanGoesOn
    <3>2. CASE ~(scan.i <= Len(registry))
      <4>1. scan' = [scan EXCEPT !.pc = "faulted"]
        BY <1>6, <3>2 DEF ScanGet
      <4> QED
        BY <1>2, <4>1 DEF Scans
    <3> QED
      BY <3>1, <3>2
  <2>4. ThreadTypes'
    BY <1>2, <2>1, <2>3 DEF ThreadTypes
  <2>5. StartsInOrder'
    BY <1>1, <2>1 DEF StartsInOrder
  <2> QED
    BY <2>2, <2>4, <2>5 DEF TypeInv
<1>7. CASE ScanStart
  <2>1. /\ Start(scan.service[1]) /\ scan.pc = "start"
        /\ scan' = [scan EXCEPT !.pc = "starting", !.service = <<>>, !.i = @ + 1]
        /\ UNCHANGED <<lists, loads, caller, call, survivors>>
    BY <1>7 DEF ScanStart
  <2>2. ListInv'
    BY <1>1, <2>1, SameLists
  <2>3. scan' \in Scans /\ scan'.pc = "starting"
    <3>1. scan'.pc = "starting"
      BY <1>2, <2>1 DEF Scans
    <3> QED
      BY <1>2, <2>1, <3>1, ScanGoesOn
  <2>4. scan.service[1] \in Service
    BY <1>2, <2>1, One
  <2>5. running' \subseteq Service /\ halted' \subseteq Service \ running'
    BY <1>2, <2>1, <2>4, StartFacts
  <2>6. ThreadTypes'
    BY <1>2, <2>1, <2>3, <2>5 DEF ThreadTypes
  <2>7. StartsInOrder'
    BY <1>1, <2>1 DEF StartsInOrder
  <2> QED
    BY <2>2, <2>6, <2>7 DEF TypeInv
<1>8. CASE LoadRules
  <2>1. ListInv'
    BY <1>1, <1>8, RulesLists
  <2>2. ThreadTypes' /\ StartsInOrder'
    BY <1>1, <1>8 DEF LoadRules, ThreadTypes, StartsInOrder, byName
  <2> QED
    BY <2>1, <2>2 DEF TypeInv
<1>9. ASSUME NEW m \in Mount, AddMerge(m)
      PROVE  TypeInv'
  <2>1. ListInv'
    BY <1>1, <1>9, MergeLists
  <2>2. /\ UNCHANGED <<running, scan, call, halted, survivors>>
        /\ caller' = [caller EXCEPT ![m].pc = "merged"]
    BY <1>9 DEF AddMerge, byName
  <2>3. caller' \in [Mount -> Callers]
    BY <1>2, <2>2 DEF Callers
  <2>4. ThreadTypes'
    BY <1>2, <2>2, <2>3 DEF ThreadTypes
  <2>5. StartsInOrder'
    BY <1>1, <1>2, <2>2 DEF StartsInOrder
  <2> QED
    BY <2>1, <2>4, <2>5 DEF TypeInv
<1>10. ASSUME NEW m \in Mount, AddResolve(m)
       PROVE  TypeInv'
  <2>1. PICK l : /\ caller' = [caller EXCEPT ![m] = [pc |-> "starting", todo |-> l]]
                 /\ l \in Seq(Service) /\ InOrder(l)
    BY <1>1, <1>10, ResolveLists
  <2>2. ListInv'
    BY <1>1, <1>10, ResolveLists
  <2>3. UNCHANGED <<running, scan, call, halted, survivors>>
    BY <1>10 DEF AddResolve, byName
  <2>4. caller' \in [Mount -> Callers]
    BY <1>2, <2>1 DEF Callers
  <2>5. ThreadTypes'
    BY <1>2, <2>3, <2>4 DEF ThreadTypes
  <2>6. StartsInOrder'
    BY <1>1, <1>2, <2>1 DEF StartsInOrder
  <2> QED
    BY <2>2, <2>5, <2>6 DEF TypeInv
<1>11. ASSUME NEW m \in Mount, AddStart(m)
       PROVE  TypeInv'
  <2>1. /\ caller[m].pc = "starting" /\ caller[m].todo # <<>> /\ Start(Head(caller[m].todo))
        /\ caller' = [caller EXCEPT ![m].todo = Tail(@)]
        /\ UNCHANGED <<lists, loads, scan, call, survivors>>
    BY <1>11 DEF AddStart
  <2>2. ListInv'
    BY <1>1, <2>1, SameLists
  <2>3. caller[m].todo \in Seq(Service) /\ caller[m] \in Callers
    BY <1>2 DEF Callers
  <2>4. Head(caller[m].todo) \in Service /\ Tail(caller[m].todo) \in Seq(Service)
    BY <2>1, <2>3
  <2>5. caller' \in [Mount -> Callers]
    BY <1>2, <2>1, <2>4 DEF Callers
  <2>6. running' \subseteq Service /\ halted' \subseteq Service \ running'
    BY <1>2, <2>1, <2>4, StartFacts
  <2>7. ThreadTypes'
    BY <1>2, <2>1, <2>5, <2>6 DEF ThreadTypes
  <2>8. InOrder(Tail(caller[m].todo))
    BY <1>1, <2>1, <2>3, OrderOfRest DEF StartsInOrder
  <2>9. StartsInOrder'
    BY <1>1, <1>2, <2>1, <2>8 DEF StartsInOrder
  <2> QED
    BY <2>2, <2>7, <2>9 DEF TypeInv
<1>12. ASSUME NEW m \in Mount, AddEnd(m) \/ RemoveEnd(m)
       PROVE  TypeInv'
  <2>1. /\ caller' = [caller EXCEPT ![m].pc = "idle"]
        /\ UNCHANGED <<lists, loads, running, scan, call, halted, survivors>>
    BY <1>12 DEF AddEnd, RemoveEnd, byName
  <2>2. ListInv'
    BY <1>1, <2>1, SameLists
  <2>3. caller' \in [Mount -> Callers]
    BY <1>2, <2>1 DEF Callers
  <2>4. ThreadTypes'
    BY <1>2, <2>1, <2>3 DEF ThreadTypes
  <2>5. StartsInOrder'
    BY <1>1, <1>2, <2>1 DEF StartsInOrder
  <2> QED
    BY <2>2, <2>4, <2>5 DEF TypeInv
<1>13. ASSUME NEW m \in Mount, RemoveTake(m)
       PROVE  TypeInv'
  <2>1. PICK l : /\ caller' = [caller EXCEPT ![m] = [pc |-> "stopping", todo |-> l]]
                 /\ l \in Seq(Service)
    BY <1>1, <1>13, TakeLists
  <2>2. ListInv'
    BY <1>1, <1>13, TakeLists
  <2>3. UNCHANGED <<running, scan, call, halted, survivors>>
    BY <1>13 DEF RemoveTake, byName
  <2>4. caller' \in [Mount -> Callers]
    BY <1>2, <2>1 DEF Callers
  <2>5. ThreadTypes'
    BY <1>2, <2>3, <2>4 DEF ThreadTypes
  <2>6. StartsInOrder'
    BY <1>1, <1>2, <2>1 DEF StartsInOrder
  <2> QED
    BY <2>2, <2>5, <2>6 DEF TypeInv
<1>14. ASSUME NEW m \in Mount, RemoveStop(m)
       PROVE  TypeInv'
  <2>0. Head(caller[m].todo) \in Service
    BY <1>2, <1>14 DEF RemoveStop, Callers
  <2>1. /\ caller[m].pc = "stopping" /\ caller[m].todo # <<>> /\ running' \subseteq running
        /\ survivors' \subseteq Service
        /\ caller' = [caller EXCEPT ![m].todo = Tail(@)]
        /\ UNCHANGED <<lists, loads, scan, call, halted>>
    BY <1>2, <1>14, <2>0 DEF RemoveStop, StopAndDestroy, Stop, byName
  <2>2. ListInv'
    BY <1>1, <2>1, SameLists
  <2>3. Tail(caller[m].todo) \in Seq(Service)
    BY <1>2, <2>1 DEF Callers
  <2>4. caller' \in [Mount -> Callers]
    BY <1>2, <2>1, <2>3 DEF Callers
  <2>5. ThreadTypes'
    BY <1>2, <2>1, <2>4 DEF ThreadTypes
  <2>6. StartsInOrder'
    BY <1>1, <1>2, <2>1 DEF StartsInOrder
  <2> QED
    BY <2>2, <2>5, <2>6 DEF TypeInv
<1>15. ASSUME NEW n \in Called, NEW pc \in {"start", "stop"}, Find(n, pc)
       PROVE  TypeInv'
  <2>1. PICK s \in ToSet(registry) : call' = [pc |-> pc, service |-> <<s>>]
    BY <1>15 DEF Find, Named
  <2>2. UNCHANGED <<lists, loads, running, scan, caller, halted, survivors>>
    BY <1>15 DEF Find
  <2>3. ListInv'
    BY <1>1, <2>2, SameLists
  <2>4. call' \in Calls /\ \E e \in Service : call'.service = <<e>>
    BY <1>1, <2>1 DEF Calls
  <2>5. ThreadTypes'
    BY <1>2, <2>2, <2>4 DEF ThreadTypes
  <2>6. StartsInOrder'
    BY <1>1, <2>2 DEF StartsInOrder
  <2> QED
    BY <2>3, <2>5, <2>6 DEF TypeInv
<1>16. ASSUME NEW n \in Called, Instantiate(n)
       PROVE  TypeInv'
  <2>1. /\ ListInv'
        /\ \E s \in Service : call' = [pc |-> "start", service |-> <<s>>]
    BY <1>1, <1>16, InstantiateLists
  <2>2. UNCHANGED <<running, scan, caller, halted, survivors>>
    BY <1>16 DEF Instantiate
  <2>3. call' \in Calls /\ \E e \in Service : call'.service = <<e>>
    BY <2>1 DEF Calls
  <2>4. ThreadTypes'
    BY <1>2, <2>2, <2>3 DEF ThreadTypes
  <2>5. StartsInOrder'
    BY <1>1, <2>2 DEF StartsInOrder
  <2> QED
    BY <2>1, <2>4, <2>5 DEF TypeInv
<1>17. CASE CallStart
  <2>1. /\ Start(call.service[1]) /\ call.pc = "start"
        /\ call' = [pc |-> "idle", service |-> <<>>]
        /\ UNCHANGED <<lists, loads, scan, caller, survivors>>
    BY <1>17 DEF CallStart
  <2>2. ListInv'
    BY <1>1, <2>1, SameLists
  <2>3. call.service[1] \in Service
    BY <1>2, <2>1, One
  <2>4. running' \subseteq Service /\ halted' \subseteq Service \ running'
    BY <1>2, <2>1, <2>3, StartFacts
  <2>5. call' \in Calls /\ call'.pc = "idle"
    BY <2>1 DEF Calls
  <2>6. ThreadTypes'
    BY <1>2, <2>1, <2>4, <2>5 DEF ThreadTypes
  <2>7. StartsInOrder'
    BY <1>1, <2>1 DEF StartsInOrder
  <2> QED
    BY <2>2, <2>6, <2>7 DEF TypeInv
<1>18. CASE CallStop
  <2>1. /\ running' \subseteq running /\ call.pc = "stop"
        /\ halted' = halted \cup (running \ running')
        /\ call' = [pc |-> "idle", service |-> <<>>]
        /\ UNCHANGED <<lists, loads, scan, caller, survivors>>
    BY <1>18 DEF CallStop, Stop
  <2>2. ListInv'
    BY <1>1, <2>1, SameLists
  <2>4. running' \subseteq Service /\ halted' \subseteq Service \ running'
    BY <1>2, <2>1
  <2>5. call' \in Calls /\ call'.pc = "idle"
    BY <2>1 DEF Calls
  <2>6. ThreadTypes'
    BY <1>2, <2>1, <2>4, <2>5 DEF ThreadTypes
  <2>7. StartsInOrder'
    BY <1>1, <2>1 DEF StartsInOrder
  <2> QED
    BY <2>2, <2>6, <2>7 DEF TypeInv
<1>19. CASE UNCHANGED vars
  <2>1. UNCHANGED <<lists, loads, running, scan, caller, call, halted, survivors>>
    BY <1>19 DEF vars, byName
  <2>2. ListInv'
    BY <1>1, <2>1, SameLists
  <2>3. ThreadTypes' /\ StartsInOrder'
    BY <1>1, <2>1 DEF ThreadTypes, StartsInOrder
  <2> QED
    BY <2>2, <2>3 DEF TypeInv
<1>20. ASSUME NEW m \in Mount, AddNothing(m) \/ RemoveNothing(m)
       PROVE  UNCHANGED vars
  BY <1>20 DEF AddNothing, RemoveNothing
<1> QED
  BY <1>3, <1>4, <1>5, <1>6, <1>7, <1>8, <1>9, <1>10, <1>11, <1>12, <1>13, <1>14, <1>15,
     <1>16, <1>17, <1>18, <1>19, <1>20 DEF Next, Scan, ByName, MountStep
LEMMA TypeInvariant == Spec => []TypeInv
<1>1. Init => TypeInv
  BY TypesInit
<1>2. TypeInv /\ [Next]_vars => TypeInv'
  BY TypesNext
<1> QED
  BY <1>1, <1>2, PTL DEF Spec

-----------------------------------------------------------------------------
(* What holds whatever calls overlap a scan                                *)

\* The lists hold what they are said to hold, the registry has an order for no
\* service it does not have, and nothing both runs and has been stopped by name.
THEOREM ConfigTypes == Spec => []TypeOK
<1>1. ASSUME TypeInv
      PROVE  TypeOK
  <2>1. ListTypes /\ Singles /\ ThreadTypes
    BY <1>1 DEF TypeInv, ListInv
  <2>2. ToSet(registry) \subseteq Service /\ ToSet(dirs) \subseteq Mount
    BY <2>1, ToSetType DEF ListTypes
  <2>3. scan.pc \in {"idle", "stopping", "starting", "start", "faulted"}
    BY <2>1 DEF ThreadTypes, Scans
  <2>4. \A m \in Mount : caller[m].pc \in {"idle", "merged", "starting", "stopping"}
    BY <2>1 DEF ThreadTypes, Callers
  <2>5. call.pc \in {"idle", "start", "stop"}
    BY <2>1 DEF ThreadTypes, Calls
  <2>6. scanned \in BOOLEAN /\ loads \in 0..MaxLoads /\ IsInjective(dirs)
        /\ \A s \in DOMAIN order : s \in ToSet(registry) /\ order[s] \in Nat
    BY <2>1 DEF ListTypes, Singles
  <2>7. running \subseteq Service /\ halted \subseteq Service \ running /\ survivors \subseteq Service
    BY <2>1 DEF ThreadTypes
  <2> QED
    BY <2>2, <2>3, <2>4, <2>5, <2>6, <2>7 DEF TypeOK
<1> QED
  BY <1>1, TypeInvariant, PTL

\* No interleaving of scans, mounts, unmounts and instances made on demand
\* brings two services, or two templates, of one name.
THEOREM NamesAreUnique == Spec => []UniqueNames
<1>1. TypeInv => UniqueNames
  BY DEF TypeInv, ListInv, Singles, Uniq, UniqueNames
<1> QED
  BY <1>1, TypeInvariant, PTL

\* The rules are those of the firmware and of the loaded directories, and no
\* rule of a file is in the list twice unless the root is also such a directory.
THEOREM RulesAreTheDirs == Spec => []RulesFollowDirs
<1>1. ASSUME TypeInv
      PROVE  RulesFollowDirs
  <2>1. ListTypes /\ Singles /\ Sources
    BY <1>1 DEF TypeInv, ListInv
  <2>2. \A d : Contains(dirs, d) <=> d \in ToSet(dirs)
    BY <2>1, ToSetType DEF ListTypes
  <2>3. \A r \in ToSet(rules) : r.from = Firmware \/ Contains(dirs, r.from)
    BY <2>1, <2>2 DEF Sources, Loaded
  <2>4. ASSUME NEW m \in ToSet(dirs) \cap DOMAIN rulesIn, NEW i \in DOMAIN rulesIn[m]
        PROVE  \E r \in Named(rules, rulesIn[m][i]) : r.from = m
    <3>1. rulesIn[m][i] \in NamesOf({r \in ToSet(rules) : r.from = m})
      BY <2>1, <2>4 DEF Sources, Range
    <3> QED
      BY <3>1 DEF NamesOf, Named
  <2>5. ASSUME ~Contains(dirs, Root),
               NEW i \in DOMAIN rules, NEW j \in DOMAIN rules, rules[i].name = rules[j].name
        PROVE  i = j
    <3> DEFINE r == rules[i]
               q == rules[j]
    <3>1. r \in ToSet(rules) /\ q \in ToSet(rules)
      BY DEF ToSet
    <3>2. /\ r.from \in Loaded /\ q.from \in Loaded
          /\ ReadFrom(r, rulesIn) /\ ReadFrom(q, rulesIn)
      BY <2>1, <3>1 DEF Sources
    <3>3. PICK k \in DOMAIN rulesIn[SourceDir(r)] : rulesIn[SourceDir(r)][k] = r.name
      BY <3>2 DEF ReadFrom, Range
    <3>4. PICK n \in DOMAIN rulesIn[SourceDir(q)] : rulesIn[SourceDir(q)][n] = q.name
      BY <3>2 DEF ReadFrom, Range
    <3>5. SourceDir(r) \in DOMAIN rulesIn /\ SourceDir(q) \in DOMAIN rulesIn
      BY <3>2 DEF ReadFrom
    <3>6. SourceDir(r) = SourceDir(q)
      <4>1. \A d, e \in DOMAIN rulesIn : \A x \in DOMAIN rulesIn[d], y \in DOMAIN rulesIn[e] :
              rulesIn[d][x] = rulesIn[e][y] => d = e
        BY Assumptions
      <4>2. r.name = q.name
        BY <2>5
      <4> HIDE DEF r, q
      <4> QED
        BY <3>3, <3>4, <3>5, <4>1, <4>2
    <3>7. r.from = q.from
      BY <2>2, <2>5, <3>2, <3>6 DEF SourceDir, Loaded
    <3>8. r = q
      BY <2>1, <2>5, <3>1, <3>7 DEF Singles, OneOfASource
    <3> QED
      BY <2>1, <3>8 DEF Singles, IsInjective
  <2> QED
    BY <2>3, <2>4, <2>5 DEF RulesFollowDirs
<1> QED
  BY <1>1, TypeInvariant, PTL

\* The units of a mount point start in the order of their dependencies, even
\* where other calls resolve the orders anew meanwhile.
THEOREM StartsFollowDependencies == Spec => DependencyOrder
<1> DEFINE A == \A m \in Mount : caller[m].pc = "starting" /\ caller[m].todo # <<>> =>
                  \A s \in ToSet(Tail(caller[m].todo)) :
                     s.name \notin requires[Head(caller[m].todo).name]
<1>1. ASSUME TypeInv
      PROVE  A
  <2>1. ASSUME NEW m \in Mount, caller[m].pc = "starting", caller[m].todo # <<>>
        PROVE  \A s \in ToSet(Tail(caller[m].todo)) :
                 s.name \notin requires[Head(caller[m].todo).name]
    <3>1. caller[m].todo \in Seq(Service) /\ InOrder(caller[m].todo)
      BY <1>1, <2>1 DEF TypeInv, ThreadTypes, Callers, StartsInOrder
    <3> QED
      BY <2>1, <3>1, OrderOfRest
  <2> QED
    BY <2>1
<1>2. TypeInv => [A]_vars
  BY <1>1
<1>3. Spec => [][A]_vars
  BY <1>2, TypeInvariant, PTL
<1> QED
  BY <1>3 DEF DependencyOrder
-----------------------------------------------------------------------------
(* What is in hand                                                         *)

LEMMA TypeFacts ==
  ASSUME TypeInv
  PROVE  /\ registry \in Seq(Service) /\ ToSet(registry) \subseteq Service
         /\ Len(registry) \in Nat /\ DOMAIN registry = 1..Len(registry)
         /\ \A i \in 1..Len(registry) : registry[i] \in ToSet(registry)
         /\ \A s \in ToSet(registry) : \E i \in 1..Len(registry) : registry[i] = s
         /\ \A s \in ToSet(registry) : s.from \in Loaded /\ s.load <= loads
         /\ \A s \in Service : s.load \in Nat
         /\ running \subseteq Service /\ halted \subseteq Service \ running
         /\ scan \in Scans /\ scan.i \in Nat \ {0} /\ scan.count \in Nat
         /\ scan.previous \in Seq(Service) /\ ToSet(scan.previous) \subseteq Service
         /\ caller \in [Mount -> Callers]
         /\ \A m \in Mount : caller[m].todo \in Seq(Service)
         /\ \A m \in Mount : caller[m].pc \in {"idle", "merged", "starting", "stopping"}
         /\ call \in Calls
         /\ loads \in Nat
         /\ Firmware \notin Mount /\ ToSet(dirs) \subseteq Mount
         /\ \A d : Contains(dirs, d) <=> d \in ToSet(dirs)
<1>1. ListTypes /\ Sources /\ ThreadTypes
  BY DEF TypeInv, ListInv
<1>2. /\ registry \in Seq(Service) /\ dirs \in Seq(Mount) /\ loads \in Nat
      /\ \A s \in ToSet(registry) : s.from \in Loaded /\ s.load <= loads
  BY <1>1, Entries DEF ListTypes, Sources
<1>3. /\ ToSet(registry) \subseteq Service
      /\ Len(registry) \in Nat /\ DOMAIN registry = 1..Len(registry)
      /\ \A i \in 1..Len(registry) : registry[i] \in ToSet(registry)
      /\ \A s \in ToSet(registry) : \E i \in 1..Len(registry) : registry[i] = s
      /\ ToSet(dirs) \subseteq Mount /\ \A d : Contains(dirs, d) <=> d \in ToSet(dirs)
  BY <1>2, ToSetType
<1>4. \A s \in Service : s.load \in Nat
  BY DEF Service
<1>5. /\ running \subseteq Service /\ halted \subseteq Service \ running
      /\ scan \in Scans /\ caller \in [Mount -> Callers] /\ call \in Calls
  BY <1>1 DEF ThreadTypes
<1>6. /\ scan.i \in Nat \ {0} /\ scan.count \in Nat
      /\ scan.previous \in Seq(Service) /\ ToSet(scan.previous) \subseteq Service
  BY <1>5, ScanGoesOn, ToSetType
<1>7. \A m \in Mount : /\ caller[m].todo \in Seq(Service)
                       /\ caller[m].pc \in {"idle", "merged", "starting", "stopping"}
  BY <1>5 DEF Callers
<1> QED
  BY <1>2, <1>3, <1>4, <1>5, <1>6, <1>7, Assumptions

LEMMA HandInit ==
  ASSUME Init
  PROVE  HandInv
<1>1. ToSet(<<>>) = {} /\ \A m \in Mount : caller[m] = [pc |-> "idle", todo |-> <<>>]
  BY DEF Init, ToSet
<1>2. ScanInv
  BY <1>1 DEF Init, ScanInv, AtUnits
<1>3. CallerInv
  BY <1>1 DEF CallerInv
<1>4. CallInv
  BY DEF Init, CallInv
<1>5. RunningInv /\ StartedInv
  BY <1>1 DEF Init, RunningInv, StartedInv
<1> QED
  BY <1>2, <1>3, <1>4, <1>5 DEF HandInv

LEMMA SwapHands ==
  ASSUME TypeInv, HandInv, ScanSwap
  PROVE  HandInv'
<1>1. /\ scan.pc = "idle" /\ call.pc = "idle" /\ \A m \in Mount : caller[m].pc = "idle"
      /\ loads' = loads + 1 /\ UNCHANGED <<dirs, running, caller, call, halted, survivors>>
      /\ scan' = [pc |-> "stopping", previous |-> registry, i |-> 1,
                  count |-> scan'.count, service |-> <<>>]
  BY DEF ScanSwap, Idle, byName
<1>2. /\ scan'.pc = "stopping" /\ scan'.previous = registry /\ scan'.i = 1
      /\ scan'.service = <<>>
  BY <1>1
<1>3. /\ Len(registry') = scan'.count /\ \A s \in ToSet(registry') : s.load = loads'
      /\ ListInv'
  BY SwapLists DEF TypeInv
<1>4. /\ Len(registry') \in Nat /\ \A s \in ToSet(registry') :
           \E i \in 1..Len(registry') : registry'[i] = s
  <2>1. registry' \in Seq(Service)
    BY <1>3 DEF ListInv, ListTypes
  <2> QED
    BY <2>1, ToSetType
<1>5. ScanInv'
  <2>1. \A p \in ToSet(registry) : p.from \in Loaded' /\ p.load < loads'
    <3>1. Loaded' = Loaded
      BY <1>1 DEF Loaded
    <3>2. \A p \in ToSet(registry) : p.from \in Loaded /\ p.load <= loads /\ p.load \in Nat
      BY TypeFacts
    <3>3. loads \in Nat
      BY TypeFacts
    <3> QED
      BY <1>1, <3>1, <3>2, <3>3
  <2> QED
    BY <1>2, <1>3, <1>4, <2>1 DEF ScanInv, AtUnits
<1>6. CallerInv'
  BY <1>1 DEF HandInv, CallerInv
<1>7. CallInv'
  BY <1>1 DEF HandInv, CallInv
<1>8. RunningInv'
  <2>1. ASSUME NEW s \in running \ survivors
        PROVE  ToBeStopped(s)'
    <3>1. s \in ToSet(registry)
      BY <1>1, <2>1 DEF HandInv, RunningInv, ToBeStopped
    <3>2. PICK k \in DOMAIN registry : registry[k] = s /\ 1 <= k
      BY <3>1, TypeFacts
    <3> QED
      BY <1>2, <3>2 DEF ToBeStopped
  <2> QED
    BY <1>1, <2>1 DEF RunningInv
<1>9. StartedInv'
  BY <1>2, <1>3, <1>4 DEF StartedInv, ToBeStarted, AtUnits
<1> QED
  BY <1>5, <1>6, <1>7, <1>8, <1>9 DEF HandInv

LEMMA ScanHands ==
  ASSUME TypeInv, HandInv, ScanStop \/ ScanDestroy \/ ScanGet \/ ScanStart \/ ScanEnd
  PROVE  HandInv'
<1>1. ScanInv /\ CallerInv /\ CallInv /\ RunningInv /\ StartedInv
  BY DEF HandInv
<1>2. UNCHANGED <<registry, dirs, loads, caller, call>>
  BY DEF ScanStop, ScanDestroy, ScanGet, ScanStart, ScanEnd, lists, byName
<1>3. CallerInv'
  BY <1>1, <1>2 DEF CallerInv, ScanStop, ScanDestroy, ScanGet, ScanStart, ScanEnd
<1>4. CallInv'
  BY <1>1, <1>2 DEF CallInv
<1>5. /\ scan \in Scans /\ scan.i \in Nat \ {0} /\ scan.count \in Nat
      /\ scan.previous \in Seq(Service)
      /\ \A m \in Mount : caller[m].pc = "stopping" => scan.pc = "idle"
  BY <1>1, TypeFacts DEF CallerInv
<1>6. CASE ScanStop
  <2>1. /\ scan.pc = "stopping" /\ scan.i <= Len(scan.previous)
        /\ running \ {scan.previous[scan.i]} \subseteq running' /\ running' \subseteq running
        /\ survivors \subseteq survivors' /\ {scan.previous[scan.i]} \cap running' \subseteq survivors'
        /\ halted' = halted
        /\ scan' = [scan EXCEPT !.i = @ + 1]
    BY <1>6 DEF ScanStop, StopAndDestroy, Stop, byName
  <2>2. /\ scan'.pc = "stopping" /\ scan'.i = scan.i + 1 /\ scan'.count = scan.count
        /\ scan'.previous = scan.previous /\ scan'.service = scan.service
    BY <1>5, <2>1 DEF Scans
  <2>3. ScanInv'
    BY <1>1, <1>2, <2>1, <2>2 DEF ScanInv, AtUnits, Loaded
  <2>4. RunningInv'
    <3>1. ASSUME NEW s \in running' \ survivors', s \notin ToSet(registry)
          PROVE  ToBeStopped(s)'
      <4>1. s \in running \ survivors /\ s # scan.previous[scan.i]
        BY <2>1, <3>1
      <4>2. PICK k \in DOMAIN scan.previous : scan.i <= k /\ scan.previous[k] = s
        BY <1>1, <1>5, <2>1, <3>1, <4>1 DEF RunningInv, ToBeStopped
      <4>3. k \in Nat /\ scan.i # k
        BY <1>5, <4>1, <4>2
      <4>4. scan'.i <= k
        BY <1>5, <2>2, <4>2, <4>3
      <4> QED
        BY <2>2, <4>2, <4>4 DEF ToBeStopped
    <3> QED
      BY <1>2, <3>1 DEF RunningInv
  <2>5. StartedInv'
    <3>1. scan.previous[scan.i] \in ToSet(scan.previous)
      BY <1>5, <2>1, ToSetType
    <3>2. \A s \in ToSet(registry) : s # scan.previous[scan.i]
      <4>1. \A s \in ToSet(registry) : scan.previous[scan.i].load < s.load
        BY <1>1, <3>1 DEF ScanInv
      <4>2. \A s \in ToSet(registry) : s.load \in Nat
        BY TypeFacts
      <4> QED
        BY <4>1, <4>2
    <3> QED
      BY <1>1, <1>2, <2>1, <2>2, <3>2 DEF StartedInv, ToBeStarted, AtUnits
  <2> QED
    BY <1>3, <1>4, <2>3, <2>4, <2>5 DEF HandInv
<1>7. CASE ScanDestroy
  <2>1. /\ scan.pc = "stopping" /\ scan.i > Len(scan.previous)
        /\ UNCHANGED <<running, halted, survivors>>
        /\ scan' = [scan EXCEPT !.pc = "starting", !.previous = <<>>, !.i = 1]
    BY <1>7 DEF ScanDestroy, byName
  <2>2. /\ scan'.pc = "starting" /\ scan'.i = 1 /\ scan'.count = scan.count
        /\ scan'.previous = <<>> /\ scan'.service = scan.service
    BY <1>5, <2>1 DEF Scans
  <2>3. ScanInv'
    <3>1. ToSet(<<>>) = {}
      BY DEF ToSet
    <3> QED
      BY <1>1, <1>2, <2>1, <2>2, <3>1 DEF ScanInv, AtUnits
  <2>4. RunningInv'
    <3>1. \A k \in DOMAIN scan.previous : ~(scan.i <= k)
      BY <1>5, <2>1
    <3> QED
      BY <1>1, <1>2, <2>1, <3>1 DEF RunningInv, ToBeStopped
  <2>5. StartedInv'
    <3>1. \A k \in 1..scan.count : scan'.i <= k
      BY <1>5, <2>2
    <3> QED
      BY <1>1, <1>2, <2>1, <2>2, <3>1 DEF StartedInv, ToBeStarted, AtUnits
  <2> QED
    BY <1>3, <1>4, <2>3, <2>4, <2>5 DEF HandInv
<1>8. CASE ScanGet
  <2>1. scan.pc = "starting" /\ scan.i <= scan.count /\ UNCHANGED <<running, halted, survivors>>
    BY <1>8 DEF ScanGet, byName
  <2>2. scan.i <= Len(registry)
    <3>1. scan.count <= Len(registry)
      BY <1>1, <2>1 DEF ScanInv, AtUnits
    <3>2. Len(registry) \in Nat
      BY TypeFacts
    <3> QED
      BY <1>5, <2>1, <3>1, <3>2
  <2>3. scan' = [scan EXCEPT !.pc = "start", !.service = <<registry[scan.i]>>]
    BY <1>8, <2>2 DEF ScanGet
  <2>4. /\ scan'.pc = "start" /\ scan'.i = scan.i /\ scan'.count = scan.count
        /\ scan'.previous = scan.previous /\ scan'.service = <<registry[scan.i]>>
    BY <1>5, <2>3 DEF Scans
  <2>5. ScanInv'
    BY <1>1, <1>2, <2>1, <2>4 DEF ScanInv, AtUnits, Loaded
  <2>6. RunningInv'
    BY <1>1, <1>2, <2>1 DEF RunningInv, ToBeStopped
  <2>7. StartedInv'
    BY <1>1, <1>2, <2>1, <2>4 DEF StartedInv, ToBeStarted, AtUnits
  <2> QED
    BY <1>3, <1>4, <2>5, <2>6, <2>7 DEF HandInv
<1>9. CASE ScanStart
  <2> DEFINE s0 == registry[scan.i]
  <2>1. /\ scan.pc = "start" /\ Start(scan.service[1])
        /\ scan' = [scan EXCEPT !.pc = "starting", !.service = <<>>, !.i = @ + 1]
    BY <1>9 DEF ScanStart
  <2>a. survivors' = survivors
    BY <1>9 DEF ScanStart
  <2>2. /\ scan'.pc = "starting" /\ scan'.i = scan.i + 1 /\ scan'.count = scan.count
        /\ scan'.previous = scan.previous /\ scan'.service = <<>>
    BY <1>5, <2>1 DEF Scans
  <2>3. scan.i <= scan.count /\ scan.service = <<s0>> /\ scan.count <= Len(registry)
    BY <1>1, <2>1 DEF ScanInv, AtUnits
  <2>4. s0 \in ToSet(registry) /\ s0 \in Service
    <3>1. scan.i \in 1..Len(registry)
      BY <1>5, <2>3, TypeFacts
    <3> QED
      BY <3>1, TypeFacts
  <2>5. Start(s0)
    BY <2>1, <2>3, One
  <2>6. /\ running \subseteq running' /\ running' \subseteq running \cup {s0}
        /\ halted' = halted \ {s0} /\ (s0.name \in Broken \/ s0 \in running')
    BY <2>4, <2>5, StartFacts, TypeFacts
  <2> HIDE DEF s0
  <2>7. ScanInv'
    BY <1>1, <1>2, <2>1, <2>2, <2>3 DEF ScanInv, AtUnits, Loaded
  <2>8. RunningInv'
    BY <1>1, <1>2, <1>5, <2>1, <2>a, <2>4, <2>6 DEF RunningInv, ToBeStopped
  <2>9. StartedInv'
    <3>1. ASSUME NEW s \in ToSet(registry) \ halted', s # s0,
                 ~(s.name \in Broken \/ s \in running')
          PROVE  ToBeStarted(s)'
      <4>1. ToBeStarted(s)
        BY <1>1, <2>6, <3>1 DEF StartedInv
      <4>2. ASSUME NEW k \in 1..scan.count, scan.i <= k, registry[k] = s
            PROVE  scan'.i <= k
        <5>1. k # scan.i
          BY <3>1, <4>2 DEF s0
        <5> QED
          BY <1>5, <2>2, <4>2, <5>1
      <4> QED
        BY <1>2, <2>1, <2>2, <4>1, <4>2 DEF ToBeStarted, AtUnits
    <3> QED
      BY <1>2, <2>6, <3>1 DEF StartedInv
  <2> QED
    BY <1>3, <1>4, <2>7, <2>8, <2>9 DEF HandInv
<1>10. CASE ScanEnd
  <2>1. /\ scan.pc = "starting" /\ scan.i > scan.count /\ UNCHANGED <<running, halted, survivors>>
        /\ scan' = [scan EXCEPT !.pc = "idle", !.i = 1, !.count = 0]
    BY <1>10 DEF ScanEnd, byName
  <2>2. /\ scan'.pc = "idle" /\ scan'.previous = scan.previous /\ scan'.service = scan.service
    BY <1>5, <2>1 DEF Scans
  <2>3. ScanInv'
    BY <1>1, <1>2, <2>1, <2>2 DEF ScanInv, AtUnits, Loaded
  <2>4. RunningInv'
    BY <1>1, <1>2, <2>1 DEF RunningInv, ToBeStopped
  <2>5. StartedInv'
    <3>1. \A k \in 1..scan.count : ~(scan.i <= k)
      BY <1>5, <2>1
    <3> QED
      BY <1>1, <1>2, <2>1, <3>1 DEF StartedInv, ToBeStarted, AtUnits
  <2> QED
    BY <1>3, <1>4, <2>3, <2>4, <2>5 DEF HandInv
<1> QED
  BY <1>6, <1>7, <1>8, <1>9, <1>10
LEMMA RulesHands ==
  ASSUME TypeInv, HandInv, LoadRules
  PROVE  HandInv'
<1>1. UNCHANGED <<registry, templates, dirs, running, scan, caller, call, halted, loads, survivors>>
  BY DEF LoadRules, byName
<1> QED
  BY <1>1 DEF HandInv, ScanInv, AtUnits, Loaded, CallerInv, CallInv, RunningInv, ToBeStopped,
              StartedInv, ToBeStarted

\* What grows at its end keeps its positions.
LEMMA Grown ==
  ASSUME TypeInv, HandInv,
         Len(registry) \in Nat, Len(registry') \in Nat, Len(registry) <= Len(registry'),
         \A k \in 1..Len(registry) : registry'[k] = registry[k],
         ToSet(registry) \subseteq ToSet(registry'),
         UNCHANGED scan, Loaded \subseteq Loaded', loads <= loads', loads' \in Nat,
         \A s \in ToSet(registry') : s \in ToSet(registry) \/ s.load = loads'
  PROVE  /\ ScanInv'
         /\ AtUnits => \A k \in 1..scan.count : registry'[k] = registry[k]
<1>1. ScanInv /\ scan.i \in Nat \ {0} /\ scan.count \in Nat /\ loads \in Nat
      /\ ToSet(scan.previous) \subseteq Service /\ \A s \in Service : s.load \in Nat
  BY TypeFacts DEF HandInv
<1>2. AtUnits => scan.count <= Len(registry)
  BY <1>1 DEF ScanInv
<1>3. AtUnits => \A k \in 1..scan.count : registry'[k] = registry[k]
  BY <1>1, <1>2
<1>4. scan.pc = "start" => registry'[scan.i] = registry[scan.i]
  <2>1. scan.pc = "start" => AtUnits /\ scan.i \in 1..scan.count
    BY <1>1 DEF ScanInv, AtUnits
  <2> QED
    BY <1>3, <2>1
<1>5. \A p \in ToSet(scan.previous) :
        /\ p.from \in Loaded' /\ p.load < loads'
        /\ \A s \in ToSet(registry') : p.load < s.load
  <2>1. ASSUME NEW p \in ToSet(scan.previous)
        PROVE  p.from \in Loaded' /\ p.load < loads'
    <3>1. p.from \in Loaded /\ p.load < loads /\ p.load \in Nat
      BY <1>1 DEF ScanInv
    <3>2. p.load < loads'
      BY <1>1, <3>1
    <3> QED
      BY <3>1, <3>2
  <2> QED
    BY <1>1, <2>1 DEF ScanInv
<1>6. AtUnits' => scan'.count <= Len(registry')
  <2>1. AtUnits' <=> AtUnits
    BY DEF AtUnits
  <2> QED
    BY <1>1, <1>2, <2>1
<1> QED
  BY <1>1, <1>3, <1>4, <1>5, <1>6 DEF ScanInv

LEMMA MergeHands ==
  ASSUME TypeInv, HandInv, NEW m \in Mount, AddMerge(m)
  PROVE  HandInv'
<1>1. ScanInv /\ CallerInv /\ CallInv /\ RunningInv /\ StartedInv
  BY DEF HandInv
<1>2. /\ caller[m].pc = "idle" /\ caller' = [caller EXCEPT ![m].pc = "merged"]
      /\ UNCHANGED <<running, scan, call, halted, survivors>>
  BY DEF AddMerge, Idle, byName
<1>3. /\ caller'[m].pc = "merged" /\ \A d \in Mount : caller'[d].todo = caller[d].todo
      /\ \A d \in Mount : d # m => caller'[d] = caller[d]
  BY <1>2, TypeFacts DEF Callers
<1>4. /\ m \notin ToSet(dirs) /\ ToSet(dirs') = ToSet(dirs) \cup {m}
      /\ loads' = loads + 1 /\ loads \in Nat
      /\ Len(registry) \in Nat /\ Len(registry') \in Nat /\ Len(registry) <= Len(registry')
      /\ \A k \in 1..Len(registry) : registry'[k] = registry[k]
      /\ ToSet(registry) \subseteq ToSet(registry')
      /\ \A s \in ToSet(registry') : s \in ToSet(registry) \/ (s.from = m /\ s.load = loads')
  BY MergeLists DEF TypeInv
<1>5. /\ ScanInv' /\ (AtUnits => \A k \in 1..scan.count : registry'[k] = registry[k])
  <2>1. Loaded \subseteq Loaded' /\ loads <= loads' /\ loads' \in Nat
    BY <1>4 DEF Loaded
  <2> QED
    BY <1>2, <1>4, <2>1, Grown
<1>6. CallerInv'
  BY <1>1, <1>2, <1>3, <1>4 DEF CallerInv
<1>7. CallInv'
  BY <1>1, <1>2, <1>4 DEF CallInv
<1>8. RunningInv'
  BY <1>1, <1>2, <1>3, <1>4 DEF RunningInv, ToBeStopped
<1>9. StartedInv'
  <2>1. ASSUME NEW s \in ToSet(registry'), s.from = m
        PROVE  ToBeStarted(s)'
    BY <1>3, <2>1 DEF ToBeStarted
  <2>2. ASSUME NEW s \in ToSet(registry), ToBeStarted(s)
        PROVE  ToBeStarted(s)'
    <3>1. CASE AtUnits /\ \E k \in 1..scan.count :
                 (scan.pc # "stopping" => scan.i <= k) /\ registry[k] = s
      BY <1>2, <1>5, <3>1 DEF ToBeStarted, AtUnits
    <3>2. CASE \E d \in Mount : \/ caller[d].pc = "merged" /\ s.from = d
                                \/ caller[d].pc = "starting" /\ s \in ToSet(caller[d].todo)
      BY <1>2, <1>3, <3>2 DEF ToBeStarted
    <3>3. CASE call.pc = "start" /\ s \in ToSet(call.service)
      BY <1>2, <3>3 DEF ToBeStarted
    <3> QED
      BY <2>2, <3>1, <3>2, <3>3 DEF ToBeStarted
  <2> QED
    BY <1>1, <1>2, <1>4, <2>1, <2>2 DEF StartedInv
<1> QED
  BY <1>5, <1>6, <1>7, <1>8, <1>9 DEF HandInv

\* What does not change when only callers and what runs do.
LEMMA ScanAlone ==
  ASSUME ScanInv, UNCHANGED <<registry, dirs, loads, scan>>
  PROVE  ScanInv'
BY DEF ScanInv, AtUnits, Loaded

LEMMA AddHands ==
  ASSUME TypeInv, HandInv, NEW m \in Mount, AddResolve(m) \/ AddStart(m) \/ AddEnd(m)
  PROVE  HandInv'
<1>1. ScanInv /\ CallerInv /\ CallInv /\ RunningInv /\ StartedInv
  BY DEF HandInv
<1>2. UNCHANGED <<registry, dirs, loads, scan, call, survivors>>
  BY DEF AddResolve, AddStart, AddEnd, lists, byName
<1>3. ScanInv' /\ CallInv'
  BY <1>1, <1>2, ScanAlone DEF CallInv
<1>4. CASE AddResolve(m)
  <2>1. PICK l : /\ caller' = [caller EXCEPT ![m] = [pc |-> "starting", todo |-> l]]
                 /\ ToSet(l) = {s \in ToSet(registry) : s.from = m}
    BY <1>4, ResolveLists DEF TypeInv
  <2>2. caller[m].pc = "merged" /\ UNCHANGED <<running, halted, survivors>>
    BY <1>4 DEF AddResolve, byName
  <2>3. /\ caller'[m].pc = "starting" /\ caller'[m].todo = l
        /\ \A d \in Mount : d # m => caller'[d] = caller[d]
    BY <2>1, TypeFacts
  <2>4. CallerInv'
    BY <1>1, <1>2, <2>1, <2>2, <2>3 DEF CallerInv
  <2>5. RunningInv'
    BY <1>1, <1>2, <2>2, <2>3 DEF RunningInv, ToBeStopped
  <2>6. StartedInv'
    BY <1>1, <1>2, <2>1, <2>2, <2>3 DEF StartedInv, ToBeStarted, AtUnits
  <2> QED
    BY <1>3, <2>4, <2>5, <2>6 DEF HandInv
<1>5. CASE AddStart(m)
  <2> DEFINE s0 == Head(caller[m].todo)
  <2>1. /\ caller[m].pc = "starting" /\ caller[m].todo # <<>> /\ Start(s0)
        /\ caller' = [caller EXCEPT ![m].todo = Tail(@)]
    BY <1>5 DEF AddStart
  <2>2. /\ s0 \in ToSet(caller[m].todo)
        /\ ToSet(caller[m].todo) = {s0} \cup ToSet(Tail(caller[m].todo))
    BY <2>1, TypeFacts, HeadTailSet
  <2>3. s0 \in ToSet(registry) /\ s0 \in Service
    BY <1>1, <2>1, <2>2, TypeFacts DEF CallerInv
  <2>4. /\ running \subseteq running' /\ running' \subseteq running \cup {s0}
        /\ halted' = halted \ {s0} /\ (s0.name \in Broken \/ s0 \in running')
    BY <2>1, <2>3, StartFacts, TypeFacts
  <2>5. /\ caller'[m].pc = "starting" /\ caller'[m].todo = Tail(caller[m].todo)
        /\ \A d \in Mount : d # m => caller'[d] = caller[d]
    BY <2>1, TypeFacts DEF Callers
  <2> HIDE DEF s0
  <2>6. CallerInv'
    BY <1>1, <1>2, <2>1, <2>2, <2>5 DEF CallerInv
  <2>7. RunningInv'
    BY <1>1, <1>2, <2>1, <2>3, <2>4, <2>5 DEF RunningInv, ToBeStopped
  <2>8. StartedInv'
    BY <1>1, <1>2, <2>1, <2>2, <2>4, <2>5 DEF StartedInv, ToBeStarted, AtUnits
  <2> QED
    BY <1>3, <2>6, <2>7, <2>8 DEF HandInv
<1>6. CASE AddEnd(m)
  <2>1. /\ caller[m].pc = "starting" /\ caller[m].todo = <<>>
        /\ caller' = [caller EXCEPT ![m].pc = "idle"] /\ UNCHANGED <<running, halted, survivors>>
    BY <1>6 DEF AddEnd, byName
  <2>2. /\ caller'[m].pc = "idle" /\ caller'[m].todo = caller[m].todo
        /\ \A d \in Mount : d # m => caller'[d] = caller[d]
    BY <2>1, TypeFacts DEF Callers
  <2>3. ToSet(caller[m].todo) = {}
    BY <2>1 DEF ToSet
  <2>4. CallerInv'
    BY <1>1, <1>2, <2>2 DEF CallerInv
  <2>5. RunningInv'
    BY <1>1, <1>2, <2>1, <2>2 DEF RunningInv, ToBeStopped
  <2>6. StartedInv'
    BY <1>1, <1>2, <2>1, <2>2, <2>3 DEF StartedInv, ToBeStarted, AtUnits
  <2> QED
    BY <1>3, <2>4, <2>5, <2>6 DEF HandInv
<1> QED
  BY <1>4, <1>5, <1>6

LEMMA RemoveHands ==
  ASSUME "unmount" \notin Overlap, TypeInv, HandInv, NEW m \in Mount,
         RemoveTake(m) \/ RemoveStop(m) \/ RemoveEnd(m)
  PROVE  HandInv'
<1>1. ScanInv /\ CallerInv /\ CallInv /\ RunningInv /\ StartedInv
  BY DEF HandInv
<1>2. CASE RemoveTake(m)
  <2>1. PICK l : /\ caller' = [caller EXCEPT ![m] = [pc |-> "stopping", todo |-> l]]
                 /\ ToSet(l) = {s \in ToSet(registry) : s.from = m}
    BY <1>2, TakeLists DEF TypeInv
  <2>2. /\ m \in ToSet(dirs) /\ ToSet(dirs') = ToSet(dirs) \ {m}
        /\ ToSet(registry') = {s \in ToSet(registry) : s.from # m}
    BY <1>2, TakeLists DEF TypeInv
  <2>3. /\ caller[m].pc = "idle" /\ scan.pc = "idle" /\ call.pc = "idle"
        /\ UNCHANGED <<running, scan, call, halted, loads, survivors>>
    BY <1>2 DEF RemoveTake, Idle, MayCall, MayTake, byName
  <2>4. /\ caller'[m].pc = "stopping" /\ caller'[m].todo = l
        /\ \A d \in Mount : d # m => caller'[d] = caller[d]
    BY <2>1, TypeFacts
  <2>5. ScanInv'
    <3>1. ToSet(scan.previous) = {}
      BY <1>1, <2>3 DEF ScanInv, ToSet
    <3> QED
      BY <1>1, <2>3, <3>1 DEF ScanInv, AtUnits
  <2>6. CallerInv'
    BY <1>1, <2>1, <2>2, <2>3, <2>4 DEF CallerInv
  <2>7. CallInv'
    BY <1>1, <2>3 DEF CallInv
  <2>8. RunningInv'
    BY <1>1, <2>1, <2>2, <2>3, <2>4 DEF RunningInv, ToBeStopped
  <2>9. StartedInv'
    BY <1>1, <2>2, <2>3, <2>4 DEF StartedInv, ToBeStarted, AtUnits
  <2> QED
    BY <2>5, <2>6, <2>7, <2>8, <2>9 DEF HandInv
<1>3. CASE RemoveStop(m)
  <2> DEFINE s0 == Head(caller[m].todo)
  <2>1. /\ caller[m].pc = "stopping" /\ caller[m].todo # <<>>
        /\ running \ {s0} \subseteq running' /\ running' \subseteq running
        /\ survivors \subseteq survivors' /\ {s0} \cap running' \subseteq survivors'
        /\ halted' = halted
        /\ caller' = [caller EXCEPT ![m].todo = Tail(@)]
        /\ UNCHANGED <<registry, dirs, loads, scan, call>>
    BY <1>3 DEF RemoveStop, StopAndDestroy, Stop, lists, byName
  <2>2. /\ s0 \in ToSet(caller[m].todo)
        /\ ToSet(caller[m].todo) = {s0} \cup ToSet(Tail(caller[m].todo))
    BY <2>1, TypeFacts, HeadTailSet
  <2>3. s0 \notin ToSet(registry)
    <3>1. s0.from = m /\ m \notin ToSet(dirs)
      BY <1>1, <2>1, <2>2 DEF CallerInv
    <3> QED
      BY <3>1, TypeFacts DEF Loaded
  <2>4. /\ caller'[m].pc = "stopping" /\ caller'[m].todo = Tail(caller[m].todo)
        /\ \A d \in Mount : d # m => caller'[d] = caller[d]
    BY <2>1, TypeFacts DEF Callers
  <2> HIDE DEF s0
  <2>5. ScanInv' /\ CallInv'
    BY <1>1, <2>1, ScanAlone DEF CallInv
  <2>6. CallerInv'
    BY <1>1, <2>1, <2>2, <2>4 DEF CallerInv
  <2>7. RunningInv'
    <3>1. ASSUME NEW s \in running' \ survivors', s \notin ToSet(registry)
          PROVE  ToBeStopped(s)'
      <4>1. s \in running \ survivors /\ s # s0
        BY <2>1, <3>1
      <4> QED
        BY <1>1, <2>1, <2>2, <2>4, <3>1, <4>1 DEF RunningInv, ToBeStopped
    <3> QED
      BY <2>1, <3>1 DEF RunningInv
  <2>8. StartedInv'
    BY <1>1, <2>1, <2>3, <2>4 DEF StartedInv, ToBeStarted, AtUnits
  <2> QED
    BY <2>5, <2>6, <2>7, <2>8 DEF HandInv
<1>4. CASE RemoveEnd(m)
  <2>1. /\ caller[m].pc = "stopping" /\ caller[m].todo = <<>>
        /\ caller' = [caller EXCEPT ![m].pc = "idle"] /\ UNCHANGED <<running, halted, survivors>>
        /\ UNCHANGED <<registry, dirs, loads, scan, call, survivors>>
    BY <1>4 DEF RemoveEnd, lists, byName
  <2>2. /\ caller'[m].pc = "idle" /\ caller'[m].todo = caller[m].todo
        /\ \A d \in Mount : d # m => caller'[d] = caller[d]
    BY <2>1, TypeFacts DEF Callers
  <2>3. ToSet(caller[m].todo) = {}
    BY <2>1 DEF ToSet
  <2>4. ScanInv' /\ CallInv'
    BY <1>1, <2>1, ScanAlone DEF CallInv
  <2>5. CallerInv'
    BY <1>1, <2>1, <2>2 DEF CallerInv
  <2>6. RunningInv'
    BY <1>1, <2>1, <2>2, <2>3 DEF RunningInv, ToBeStopped
  <2>7. StartedInv'
    BY <1>1, <2>1, <2>2 DEF StartedInv, ToBeStarted, AtUnits
  <2> QED
    BY <2>4, <2>5, <2>6, <2>7 DEF HandInv
<1> QED
  BY <1>2, <1>3, <1>4

LEMMA CallHands ==
  ASSUME TypeInv, HandInv, ByName
  PROVE  HandInv'
<1>1. ScanInv /\ CallerInv /\ CallInv /\ RunningInv /\ StartedInv
  BY DEF HandInv
<1>2. ASSUME NEW n \in Called, NEW pc \in {"start", "stop"}, Find(n, pc)
      PROVE  HandInv'
  <2>1. PICK s0 \in ToSet(registry) : call' = [pc |-> pc, service |-> <<s0>>]
    BY <1>2 DEF Find, Named
  <2>2. /\ call.pc = "idle" /\ UNCHANGED <<registry, dirs, loads, running, scan, caller, halted, survivors>>
    BY <1>2 DEF Find, MayCallUnits, lists
  <2>3. ScanInv' /\ CallerInv'
    BY <1>1, <2>2, ScanAlone DEF CallerInv
  <2>4. CallInv'
    BY <2>1, <2>2 DEF CallInv
  <2>5. RunningInv'
    BY <1>1, <2>2 DEF RunningInv, ToBeStopped
  <2>6. StartedInv'
    BY <1>1, <2>2 DEF StartedInv, ToBeStarted, AtUnits
  <2> QED
    BY <2>3, <2>4, <2>5, <2>6 DEF HandInv
<1>3. ASSUME NEW n \in Called, Instantiate(n)
      PROVE  HandInv'
  <2>1. /\ call.pc = "idle" /\ UNCHANGED <<dirs, loads, running, scan, caller, halted, survivors>>
    BY <1>3 DEF Instantiate, MayCallUnits
  <2>2. PICK s0 \in Service : /\ registry' = Append(registry, s0)
                              /\ call' = [pc |-> "start", service |-> <<s0>>]
    BY <1>3, InstantiateLists DEF TypeInv
  <2>3. /\ Len(registry) \in Nat /\ Len(registry') \in Nat /\ Len(registry) <= Len(registry')
        /\ \A k \in 1..Len(registry) : registry'[k] = registry[k]
        /\ ToSet(registry) \subseteq ToSet(registry')
        /\ \A s \in ToSet(registry') :
             \/ s \in ToSet(registry)
             \/ s.load = loads /\ call' = [pc |-> "start", service |-> <<s>>]
    BY <1>3, InstantiateLists DEF TypeInv
  <2>4. s0 \in ToSet(registry')
    BY <2>2, TypeFacts, AppendSet
  <2>5. ScanInv' /\ (AtUnits => \A k \in 1..scan.count : registry'[k] = registry[k])
    <3>1. Loaded' = Loaded /\ loads <= loads' /\ loads' \in Nat
      BY <2>1, TypeFacts DEF Loaded
    <3> QED
      BY <2>1, <2>3, <3>1, Grown
  <2>6. CallerInv'
    BY <1>1, <2>1, <2>3 DEF CallerInv
  <2>7. CallInv'
    BY <2>2, <2>4 DEF CallInv
  <2>8. RunningInv'
    BY <1>1, <2>1, <2>3 DEF RunningInv, ToBeStopped
  <2>9. StartedInv'
    <3>1. ASSUME NEW s \in ToSet(registry), ToBeStarted(s)
          PROVE  ToBeStarted(s)'
      <4>1. CASE AtUnits /\ \E k \in 1..scan.count :
                   (scan.pc # "stopping" => scan.i <= k) /\ registry[k] = s
        BY <2>1, <2>5, <4>1 DEF ToBeStarted, AtUnits
      <4>2. CASE \E d \in Mount : \/ caller[d].pc = "merged" /\ s.from = d
                                  \/ caller[d].pc = "starting" /\ s \in ToSet(caller[d].todo)
        BY <2>1, <4>2 DEF ToBeStarted
      <4> QED
        BY <2>1, <3>1, <4>1, <4>2 DEF ToBeStarted
    <3>2. ASSUME NEW s, call' = [pc |-> "start", service |-> <<s>>]
          PROVE  ToBeStarted(s)'
      <4>1. call'.pc = "start" /\ s \in ToSet(call'.service)
        BY <3>2, One
      <4> QED
        BY <4>1 DEF ToBeStarted
    <3> QED
      BY <1>1, <2>1, <2>3, <3>1, <3>2 DEF StartedInv
  <2> QED
    BY <2>5, <2>6, <2>7, <2>8, <2>9 DEF HandInv
<1>4. ASSUME CallStart \/ CallStop
      PROVE  HandInv'
  <2>1. /\ call.pc \in {"start", "stop"} /\ call' = [pc |-> "idle", service |-> <<>>]
        /\ UNCHANGED <<registry, dirs, loads, scan, caller, survivors>>
    BY <1>4 DEF CallStart, CallStop, lists
  <2>2. PICK s0 \in ToSet(registry) : call.service = <<s0>>
    BY <1>1, <2>1 DEF CallInv
  <2>3. ScanInv' /\ CallerInv'
    BY <1>1, <2>1, ScanAlone DEF CallerInv
  <2>4. CallInv'
    BY <2>1 DEF CallInv
  <2>5. ToSet(call.service) = {s0} /\ call.service[1] = s0 /\ s0 \in Service
    BY <2>2, One, TypeFacts
  <2>6. CASE CallStart
    <3>1. /\ running \subseteq running' /\ running' \subseteq running \cup {s0}
          /\ halted' = halted \ {s0} /\ (s0.name \in Broken \/ s0 \in running')
      <4>1. Start(s0)
        BY <2>5, <2>6 DEF CallStart
      <4> QED
        BY <2>5, <4>1, StartFacts, TypeFacts
    <3>2. RunningInv'
      BY <1>1, <2>1, <2>2, <3>1 DEF RunningInv, ToBeStopped
    <3>3. StartedInv'
      BY <1>1, <2>1, <2>5, <3>1 DEF StartedInv, ToBeStarted, AtUnits
    <3> QED
      BY <2>3, <2>4, <3>2, <3>3 DEF HandInv
  <2>7. CASE CallStop
    <3>1. call.pc = "stop" /\ running' \subseteq running /\ halted' = halted \cup (running \ running')
      BY <2>7 DEF CallStop, Stop
    <3>2. RunningInv'
      BY <1>1, <2>1, <3>1 DEF RunningInv, ToBeStopped
    <3>3. StartedInv'
      BY <1>1, <2>1, <3>1 DEF StartedInv, ToBeStarted, AtUnits
    <3> QED
      BY <2>3, <2>4, <3>2, <3>3 DEF HandInv
  <2> QED
    BY <1>4, <2>6, <2>7
<1> QED
  BY <1>2, <1>3, <1>4 DEF ByName

LEMMA HandNext ==
  ASSUME "unmount" \notin Overlap, TypeInv, HandInv, [Next]_vars
  PROVE  HandInv'
<1>1. CASE Scan
  BY <1>1, SwapHands, ScanHands DEF Scan
<1>2. CASE LoadRules
  BY <1>2, RulesHands
<1>3. CASE ByName
  BY <1>3, CallHands
<1>4. ASSUME UNCHANGED vars
      PROVE  HandInv'
  <2>1. UNCHANGED <<registry, dirs, loads, running, scan, caller, call, halted, survivors>>
    BY <1>4 DEF vars, lists, byName
  <2> QED
    BY <2>1 DEF HandInv, ScanInv, AtUnits, Loaded, CallerInv, CallInv, RunningInv, ToBeStopped,
                StartedInv, ToBeStarted
<1>5. ASSUME NEW m \in Mount, MountStep(m)
      PROVE  HandInv'
  <2>1. AddNothing(m) \/ RemoveNothing(m) => UNCHANGED vars
    BY DEF AddNothing, RemoveNothing
  <2> QED
    BY <1>4, <1>5, <2>1, MergeHands, AddHands, RemoveHands DEF MountStep
<1> QED
  BY <1>1, <1>2, <1>3, <1>4, <1>5 DEF Next

LEMMA HandInvariant ==
  ASSUME "unmount" \notin Overlap
  PROVE  Spec => []HandInv
<1>1. Init => HandInv
  BY HandInit
<1>2. TypeInv /\ HandInv /\ [Next]_vars => HandInv'
  BY HandNext
<1> QED
  BY <1>1, <1>2, TypeInvariant, PTL DEF Spec
\* No unit is left running without an owner, and nothing from a mount point runs
\* once the call that unmounts it has returned, but for the units whose stop
\* failed when a scan or an unmount destroyed them.
THEOREM NothingUntracked ==
  ASSUME "unmount" \notin Overlap
  PROVE  Spec => []Tracked
<1>1. ASSUME TypeInv, HandInv
      PROVE  Tracked
  <2>1. ScanInv /\ CallerInv /\ RunningInv
    BY <1>1 DEF HandInv
  <2>2. /\ \A s : Contains(registry, s) <=> s \in ToSet(registry)
        /\ \A s : Contains(scan.previous, s) <=> s \in ToSet(scan.previous)
        /\ \A k \in DOMAIN scan.previous : scan.previous[k] \in ToSet(scan.previous)
        /\ \A m \in Mount : \A s : Contains(caller[m].todo, s) <=> s \in ToSet(caller[m].todo)
    <3>1. /\ registry \in Seq(Service) /\ scan.previous \in Seq(Service)
          /\ \A m \in Mount : caller[m].todo \in Seq(Service)
      BY <1>1, TypeFacts
    <3>2. \A l \in Seq(Service) :
            /\ \A s : Contains(l, s) <=> s \in ToSet(l)
            /\ \A k \in DOMAIN l : l[k] \in ToSet(l)
      BY ToSetType
    <3> QED
      BY <3>1, <3>2
  <2>3. ASSUME NEW s \in Held
        PROVE  \/ Contains(registry, s)
               \/ Contains(scan.previous, s)
               \/ \E m \in Mount : caller[m].pc = "stopping" /\ Contains(caller[m].todo, s)
    BY <2>1, <2>2 DEF RunningInv, ToBeStopped, Held
  <2>4. ASSUME NEW m \in Mount, Idle(m), ~Contains(dirs, m), NEW s \in Held
        PROVE  s.from # m
    <3>1. m \notin Loaded
      BY <1>1, <2>4, TypeFacts DEF Loaded
    <3>2. CASE s \in ToSet(registry)
      BY <1>1, <3>1, <3>2, TypeFacts
    <3>3. CASE s \in ToSet(scan.previous)
      BY <2>1, <3>1, <3>3 DEF ScanInv
    <3>4. CASE \E d \in Mount : caller[d].pc = "stopping" /\ s \in ToSet(caller[d].todo)
      BY <2>1, <2>4, <3>4 DEF CallerInv, Idle
    <3> QED
      BY <2>2, <2>3, <3>2, <3>3, <3>4
  <2> QED
    BY <2>3, <2>4 DEF Tracked
<1> QED
  BY <1>1, TypeInvariant, HandInvariant, PTL

\* Once every call has returned, what can start and was not stopped runs.
THEOREM EveryUnitStarted ==
  ASSUME "unmount" \notin Overlap
  PROVE  Spec => []AllStarted
<1>1. ASSUME TypeInv, HandInv
      PROVE  AllStarted
  <2>1. ASSUME scan.pc = "idle", call.pc = "idle", \A m \in Mount : Idle(m),
               NEW s \in ToSet(registry) \ halted
        PROVE  s.name \in Broken \/ s \in running
    <3>1. s.name \in Broken \/ s \in running \/ ToBeStarted(s)
      BY <1>1 DEF HandInv, StartedInv
    <3> QED
      BY <2>1, <3>1 DEF ToBeStarted, AtUnits, Idle
  <2> QED
    BY <2>1 DEF AllStarted
<1> QED
  BY <1>1, TypeInvariant, HandInvariant, PTL

\* Nobody starts or stops a service that was destroyed since it was looked up.
THEOREM PointersAreGood ==
  ASSUME "unmount" \notin Overlap
  PROVE  Spec => []NoDangling
<1>1. ASSUME TypeInv, HandInv
      PROVE  NoDangling
  <2>1. ScanInv /\ CallerInv /\ CallInv
    BY <1>1 DEF HandInv
  <2>2. \A s : Contains(registry, s) <=> s \in ToSet(registry)
    BY <1>1, TypeFacts, ToSetType
  <2>3. ASSUME NEW s \in ToSet(scan.service)
        PROVE  s \in ToSet(registry)
    <3>1. scan.pc = "start"
      BY <2>1, <2>3 DEF ScanInv, ToSet
    <3>2. /\ scan.i <= scan.count /\ scan.service = <<registry[scan.i]>>
          /\ scan.count <= Len(registry)
      BY <2>1, <3>1 DEF ScanInv, AtUnits
    <3>3. scan.i \in 1..Len(registry)
      BY <1>1, <3>2, TypeFacts
    <3>4. s = registry[scan.i]
      BY <2>3, <3>2, One
    <3> QED
      BY <1>1, <3>3, <3>4, TypeFacts
  <2>4. ASSUME NEW s \in ToSet(call.service)
        PROVE  s \in ToSet(registry)
    <3>1. call.pc # "idle"
      BY <2>1, <2>4 DEF CallInv, ToSet
    <3> QED
      BY <2>1, <2>4, <3>1, One DEF CallInv
  <2>5. \A m \in Mount : caller[m].pc = "starting" =>
          \A s \in ToSet(caller[m].todo) : s \in ToSet(registry)
    BY <2>1 DEF CallerInv
  <2> QED
    BY <2>2, <2>3, <2>4, <2>5 DEF NoDangling
<1> QED
  BY <1>1, TypeInvariant, HandInvariant, PTL

\* The start loop of a scan stays within the list: it grows meanwhile, and no
\* more.  (Where a unit's process unmounts a file system it does not.)
THEOREM ScanStaysInRange ==
  ASSUME "unmount" \notin Overlap
  PROVE  Spec => []ScanInRange
<1>1. HandInv => ScanInRange
  BY DEF HandInv, ScanInv, ScanInRange
<1> QED
  BY <1>1, HandInvariant, PTL

-----------------------------------------------------------------------------
(* One generation after the other                                          *)

LEMMA TurnSwap ==
  ASSUME TypeInv, HandInv, TurnInv, ScanSwap
  PROVE  TurnInv'
<1>1. /\ scan.pc = "idle" /\ call.pc = "idle" /\ \A m \in Mount : caller[m].pc = "idle"
      /\ scan'.previous = registry
      /\ loads' = loads + 1 /\ UNCHANGED <<running, caller, call, survivors>>
  BY DEF ScanSwap, Idle, byName
<1>2. /\ ListInv' /\ Len(registry') = scan'.count
      /\ \A s \in ToSet(registry') : s.load = loads'
      /\ \A s \in ToSet(registry) :
           s.name \in DOMAIN prefix \/ s.name \in NamesOf(ToSet(registry'))
  BY SwapLists DEF TypeInv
<1>3. /\ \A s \in ToSet(registry') : \E i \in 1..Len(registry') : registry'[i] = s
      /\ \A i \in 1..Len(registry') : registry'[i] \in ToSet(registry')
  <2>1. registry' \in Seq(Service)
    BY <1>2 DEF ListInv, ListTypes
  <2> QED
    BY <2>1, ToSetType
<1>4. running \ survivors \subseteq ToSet(registry)
  BY <1>1 DEF HandInv, RunningInv, ToBeStopped
<1>5. \A s \in running \ survivors : s \notin ToSet(registry')
  <2>1. \A s \in running \ survivors : s.load <= loads /\ s.load \in Nat /\ loads \in Nat
    BY <1>4, TypeFacts
  <2> QED
    BY <1>1, <1>2, <2>1
<1>6. Uniq(registry)
  BY DEF TypeInv, ListInv, Singles
<1>7. \A p \in ToSet(registry) :
        p.name \in DOMAIN prefix \/ \E k \in 1..Len(registry') : registry'[k].name = p.name
  <2>1. ASSUME NEW p \in ToSet(registry), p.name \notin DOMAIN prefix
        PROVE  \E k \in 1..Len(registry') : registry'[k].name = p.name
    <3>1. PICK s \in ToSet(registry') : s.name = p.name
      BY <1>2, <2>1 DEF NamesOf
    <3> QED
      BY <1>3, <3>1
  <2> QED
    BY <2>1
<1> QED
  BY <1>1, <1>2, <1>3, <1>5, <1>6, <1>7 DEF TurnInv

\* While a scan stops the previous generation, the new one only grows, and only
\* what is from elsewhere starts.
LEMMA TurnStays ==
  ASSUME TurnInv,
         scan'.pc = "stopping" => scan.pc = "stopping",
         scan'.previous = scan.previous, scan'.count = scan.count, survivors \subseteq survivors',
         scan.pc = "stopping" =>
            /\ call' = call
            /\ \A k \in 1..scan.count :
                 /\ registry'[k] = registry[k]
                 /\ registry[k] \in running' => registry[k] \in running \cup survivors
                 /\ \A m \in Mount : caller'[m].pc \in {"merged", "starting"} =>
                      registry[k].from # m \/ caller[m].pc \in {"merged", "starting"}
  PROVE  TurnInv'
BY DEF TurnInv

LEMMA TurnNext ==
  ASSUME Overlap \subseteq {"mount", "call"}, TypeInv, HandInv, TurnInv, [Next]_vars
  PROVE  TurnInv'
<1>1. ScanInv /\ CallerInv /\ CallInv /\ RunningInv /\ StartedInv
  BY DEF HandInv
<1>2. CASE ScanSwap
  BY <1>2, TurnSwap
<1>3. CASE ScanStop
  <2>1. /\ scan.pc = "stopping" /\ scan' = [scan EXCEPT !.i = @ + 1]
        /\ UNCHANGED <<registry, caller, call>> /\ running' \subseteq running
        /\ survivors \subseteq survivors'
    BY <1>3 DEF ScanStop, StopAndDestroy, Stop, lists, byName
  <2>2. scan'.previous = scan.previous /\ scan'.count = scan.count
    BY <2>1, TypeFacts DEF Scans
  <2> QED
    BY <2>1, <2>2, TurnStays
<1>4. CASE ScanDestroy \/ ScanGet \/ ScanStart \/ ScanEnd
  <2>1. scan'.pc # "stopping"
    BY <1>4, TypeFacts DEF ScanDestroy, ScanGet, ScanStart, ScanEnd, Scans
  <2> QED
    BY <2>1 DEF TurnInv
<1>5. CASE LoadRules
  BY <1>5, TurnStays DEF LoadRules, byName
<1>6. ASSUME ByName
      PROVE  TurnInv'
  <2>1. scan' = scan
    BY <1>6 DEF ByName, CallStart, CallStop, Find, Instantiate
  <2>2. scan.pc # "stopping"
    <3>1. "early call" \notin Overlap
      OBVIOUS
    <3>2. CallStart \/ CallStop => scan.pc # "stopping"
      BY DEF TurnInv, CallStart, CallStop
    <3>3. MayCallUnits => scan.pc # "stopping"
      BY <3>1 DEF MayCallUnits
    <3> QED
      BY <1>6, <3>2, <3>3 DEF ByName, Find, Instantiate
  <2> QED
    BY <2>1, <2>2 DEF TurnInv
<1>7. ASSUME UNCHANGED vars
      PROVE  TurnInv'
  BY <1>7 DEF vars, lists, byName, TurnInv
<1>8. ASSUME NEW m \in Mount, AddMerge(m)
      PROVE  TurnInv'
  <2>1. /\ UNCHANGED <<running, scan, call, survivors>> /\ caller' = [caller EXCEPT ![m].pc = "merged"]
    BY <1>8 DEF AddMerge, byName
  <2>2. \A d \in Mount : d # m => caller'[d] = caller[d]
    BY <2>1, TypeFacts DEF Callers
  <2>3. /\ m \notin ToSet(dirs)
        /\ \A k \in 1..Len(registry) : registry'[k] = registry[k]
    BY <1>8, MergeLists DEF TypeInv
  <2>4. scan.pc = "stopping" => \A k \in 1..scan.count : k \in 1..Len(registry)
    BY <1>1, TypeFacts DEF ScanInv, AtUnits
  <2>5. scan.pc = "stopping" => \A k \in 1..scan.count : registry[k].from # m
    <3>1. m \notin Loaded
      BY <2>3, Assumptions DEF Loaded
    <3> QED
      BY <2>4, <3>1, TypeFacts
  <2> QED
    BY <2>1, <2>2, <2>3, <2>4, <2>5, TurnStays
<1>9. ASSUME NEW m \in Mount, AddResolve(m)
      PROVE  TurnInv'
  <2>1. /\ UNCHANGED <<registry, running, scan, call, survivors>> /\ caller[m].pc = "merged"
        /\ \A d \in Mount : d # m => caller'[d] = caller[d]
    BY <1>9, TypeFacts DEF AddResolve, byName
  <2> QED
    BY <2>1, TurnStays
<1>10. ASSUME NEW m \in Mount, AddStart(m)
       PROVE  TurnInv'
  <2> DEFINE s0 == Head(caller[m].todo)
  <2>1. /\ UNCHANGED <<registry, scan, call, survivors>> /\ Start(s0)
        /\ caller[m].pc = "starting" /\ caller[m].todo # <<>>
        /\ \A d \in Mount : d # m => caller'[d] = caller[d]
    BY <1>10, TypeFacts DEF AddStart, lists
  <2>2. s0.from = m /\ running' \subseteq running \cup {s0}
    <3>1. s0 \in ToSet(caller[m].todo)
      BY <2>1, TypeFacts, HeadTailSet
    <3> QED
      BY <1>1, <2>1, <3>1 DEF CallerInv, Start
  <2> HIDE DEF s0
  <2>3. scan.pc = "stopping" => \A k \in 1..scan.count : registry[k] # s0
    BY <2>1, <2>2 DEF TurnInv
  <2> QED
    BY <2>1, <2>2, <2>3, TurnStays
<1>11. ASSUME NEW m \in Mount, AddEnd(m)
       PROVE  TurnInv'
  <2>1. /\ UNCHANGED <<registry, running, scan, call, survivors>> /\ caller[m].pc = "starting"
        /\ \A d \in Mount : d # m => caller'[d] = caller[d]
    BY <1>11, TypeFacts DEF AddEnd, lists, byName
  <2> QED
    BY <2>1, TurnStays
<1>12. ASSUME NEW m \in Mount, RemoveTake(m) \/ RemoveStop(m) \/ RemoveEnd(m)
       PROVE  TurnInv'
  <2>1. scan.pc = "idle"
    <3>1. RemoveTake(m) => scan.pc = "idle"
      BY DEF RemoveTake, MayCall
    <3> QED
      BY <1>1, <1>12, <3>1 DEF RemoveStop, RemoveEnd, CallerInv
  <2>2. scan' = scan
    BY <1>12 DEF RemoveTake, RemoveStop, RemoveEnd
  <2> QED
    BY <2>1, <2>2 DEF TurnInv
<1>13. ASSUME NEW m \in Mount, AddNothing(m) \/ RemoveNothing(m)
       PROVE  UNCHANGED vars
  BY <1>13 DEF AddNothing, RemoveNothing
<1> QED
  BY <1>2, <1>3, <1>4, <1>5, <1>6, <1>7, <1>8, <1>9, <1>10, <1>11, <1>12, <1>13
     DEF Next, Scan, MountStep

\* Where no unit is started by name while a scan stops the previous generation,
\* no two services of one name ever run, but for an instance a scan has not yet
\* stopped, for what an unmount has in hand and for what could not be stopped.
THEOREM OneOfANameRuns ==
  ASSUME Overlap \subseteq {"mount", "call"}
  PROVE  Spec => []RunsOnce
<1>1. ASSUME TypeInv, HandInv, TurnInv
      PROVE  RunsOnce
  <2>1. ScanInv /\ RunningInv /\ Uniq(registry)
    BY <1>1 DEF HandInv, TypeInv, ListInv, Singles
  <2>2. OneOfAName(ToSet(registry))
    BY <1>1, <2>1, TypeFacts, UniqSet
  <2>3. ASSUME NEW s \in Held, NEW t \in ToSet(registry) \cap Held, s.name = t.name,
               s \in ToSet(scan.previous), scan.pc = "stopping"
        PROVE  s.name \in DOMAIN prefix
    <3>1. SUFFICES ASSUME NEW k \in 1..scan.count, registry[k].name = s.name
                   PROVE  FALSE
      BY <1>1, <2>3 DEF TurnInv
    <3>2. registry[k] \notin Held
      BY <1>1, <2>3 DEF TurnInv, Held
    <3>3. k \in 1..Len(registry)
      BY <1>1, <2>1, <2>3, TypeFacts DEF ScanInv, AtUnits
    <3>4. registry[k] = t
      BY <1>1, <2>2, <2>3, <3>1, <3>3, TypeFacts DEF OneOfAName
    <3> QED
      BY <2>3, <3>2, <3>4
  <2>4. ASSUME NEW s \in Held, NEW t \in Held, s # t, s.name = t.name,
               \A m \in Mount : caller[m].pc = "stopping" =>
                  {s, t} \cap ToSet(caller[m].todo) = {}
        PROVE  s.name \in DOMAIN prefix /\ scan.pc = "stopping"
    <3>1. ASSUME NEW x \in {s, t}
          PROVE  \/ x \in ToSet(registry)
                 \/ x \in ToSet(scan.previous) /\ scan.pc = "stopping"
      <4>1. \A k \in DOMAIN scan.previous : scan.previous[k] \in ToSet(scan.previous)
        BY DEF ToSet
      <4> QED
        BY <2>1, <2>4, <4>1 DEF RunningInv, ToBeStopped, Held
    <3>2. ~(s \in ToSet(registry) /\ t \in ToSet(registry))
      BY <2>2, <2>4 DEF OneOfAName
    <3>3. ~(scan.pc = "stopping" /\ s \in ToSet(scan.previous) /\ t \in ToSet(scan.previous))
      <4>1. scan.pc = "stopping" => OneOfAName(ToSet(scan.previous))
        BY <1>1, TypeFacts, UniqSet DEF TurnInv
      <4> QED
        BY <2>4, <4>1 DEF OneOfAName
    <3> QED
      BY <2>3, <2>4, <3>1, <3>2, <3>3
  <2> QED
    BY <2>4 DEF RunsOnce
<1>2. Init => TurnInv
  BY DEF Init, TurnInv
<1>3. TypeInv /\ HandInv /\ TurnInv /\ [Next]_vars => TurnInv'
  BY TurnNext
<1>4. "unmount" \notin Overlap
  OBVIOUS
<1>5. Spec => []HandInv
  BY <1>4, HandInvariant
<1> QED
  BY <1>1, <1>2, <1>3, <1>5, TypeInvariant, PTL DEF Spec
===============================================================================
