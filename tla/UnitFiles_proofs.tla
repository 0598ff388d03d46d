--------------------------- MODULE UnitFiles_proofs ---------------------------
(***************************************************************************)
(* The two passes of an expansion agree, the directories become the units  *)
(* they mean, and every report starts what the rules name and what a name  *)
(* is to start, for every directory tree, file, list of reports and name   *)
(* that the assumptions on Inputs allow.                                   *)
(*                                                                         *)
(* A walk is related to the files it is about by what is left of it: what  *)
(* has been read, what is in hand and what the files that are left mean    *)
(* always make up the same list.                                           *)
(***************************************************************************)
EXTENDS UnitFiles, Lists_proofs

-----------------------------------------------------------------------------
(* The two passes of an expansion                                          *)

\* A job is a text and a function from symbols to texts.
LEMMA JobShape ==
  ASSUME NEW j \in Job
  PROVE  /\ j.text \in Text
         /\ DOMAIN j.with \subseteq Char
         /\ \A c \in DOMAIN j.with : j.with[c] \in Text
BY DEF Job, Withs

\* At a position of the text: what stands there is a text, and the next
\* position is further on and not past the end.
LEMMA Step ==
  ASSUME NEW j \in Job, NEW p \in 1 .. Len(j.text)
  PROVE  /\ After(j, p) \in p + 1 .. Len(j.text) + 1
         /\ Piece(j, p) \in Text
<1>1. j.text \in Seq(Char) /\ Len(j.text) \in Nat
  BY JobShape DEF Text
<1>2. j.text[p] \in Char
  BY <1>1
<1>3. CASE Marked(j, p)
  <2>1. j.with[j.text[p + 1]] \in Text
    BY <1>3, JobShape DEF Marked
  <2> QED
    BY <1>1, <1>3, <2>1 DEF Marked, After, Piece
<1>4. CASE ~Marked(j, p)
  BY <1>1, <1>2, <1>4 DEF After, Piece, Text
<1> QED
  BY <1>3, <1>4

\* Nothing is being expanded at first.
LEMMA ExpStarts == ExpInit => ExpInv
<1> SUFFICES ASSUME ExpInit PROVE ExpInv
  OBVIOUS
<1>1. job \in Job
  <2>1. [c \in {} |-> <<>>] \in [{} -> Text] /\ <<>> \in Text
    BY DEF Text
  <2> QED
    BY <2>1 DEF ExpInit, Job, Withs
<1> QED
  BY <1>1 DEF ExpInit, ExpInv, Text

\* The first pass goes one step further.
LEMMA CountKeeps == ASSUME ExpInv, Count PROVE ExpInv'
<1>1. scan \in 1 .. Len(job.text) /\ job \in Job /\ Len(job.text) \in Nat
  BY JobShape DEF ExpInv, Count, Text
<1>2. After(job, scan) \in scan + 1 .. Len(job.text) + 1 /\ Piece(job, scan) \in Text
  BY <1>1, Step
<1>3. Len(Piece(job, scan)) \in Nat
  BY <1>2 DEF Text
<1> DEFINE n == out_len + Len(Piece(job, scan))
<1>4. /\ job' = job /\ pass = "count" /\ pass' = "count" /\ out' = out
      /\ scan' = After(job, scan) /\ out_len' = n
      /\ trail' = trail \cup {<<scan', out_len'>>}
  BY DEF Count
<1>5. n \in Nat /\ out_len <= n
  BY <1>3 DEF ExpInv
<1>6. scan' \in 1 .. Len(job.text) + 1 /\ scan' > scan /\ scan \in Nat
  BY <1>1, <1>2, <1>4
<1>7. trail' \subseteq (1 .. Len(job.text) + 1) \X (0 .. n)
  <2>1. trail \subseteq (1 .. Len(job.text) + 1) \X (0 .. n)
    BY <1>5 DEF ExpInv
  <2>2. <<scan', out_len'>> \in (1 .. Len(job.text) + 1) \X (0 .. n)
    BY <1>4, <1>5, <1>6
  <2> QED
    BY <1>4, <2>1, <2>2
<1>8. \A e \in trail' : e[1] <= scan' /\ (e[1] = scan' => e[2] = out_len')
  <2> SUFFICES ASSUME NEW e \in trail'
               PROVE  e[1] <= scan' /\ (e[1] = scan' => e[2] = out_len')
    OBVIOUS
  <2>1. CASE e \in trail
    <3>1. e[1] <= scan /\ e[1] \in Nat
      BY <1>4, <2>1 DEF ExpInv
    <3> QED
      BY <1>6, <3>1
  <2>2. CASE e = <<scan', out_len'>>
    BY <1>6, <2>2
  <2> QED
    BY <1>4, <2>1, <2>2
<1>9. \A e \in trail' : e[1] # scan' =>
        <<After(job, e[1]), e[2] + Len(Piece(job, e[1]))>> \in trail'
  <2> SUFFICES ASSUME NEW e \in trail', e[1] # scan'
               PROVE  <<After(job, e[1]), e[2] + Len(Piece(job, e[1]))>> \in trail'
    OBVIOUS
  <2>1. e \in trail
    BY <1>4
  <2>2. CASE e[1] = scan
    <3>1. e[2] = out_len
      BY <1>4, <2>1, <2>2 DEF ExpInv
    <3> QED
      BY <1>4, <2>2, <3>1
  <2>3. CASE e[1] # scan
    BY <1>4, <2>1, <2>3 DEF ExpInv
  <2> QED
    BY <2>2, <2>3
<1> QED
  BY <1>1, <1>4, <1>5, <1>6, <1>7, <1>8, <1>9 DEF ExpInv

\* The second pass starts where the first one did.
LEMMA AllocateKeeps == ASSUME ExpInv, Allocate PROVE ExpInv'
<1>1. /\ pass = "count" /\ pass' = "fill" /\ scan > Len(job.text) /\ scan' = 1
      /\ UNCHANGED <<job, out_len, out, trail>>
  BY DEF Allocate
<1>2. job \in Job /\ Len(job.text) \in Nat /\ scan = Len(job.text) + 1
  BY <1>1, JobShape DEF ExpInv, Text
<1>3. <<scan', Len(out')>> \in trail'
  BY <1>1 DEF ExpInv
<1>4. \A e \in trail : e[1] \in 1 .. Len(job.text) + 1
  BY DEF ExpInv
<1>5. \A e \in trail : e[1] > Len(job.text) => e[2] = out_len
  <2> SUFFICES ASSUME NEW e \in trail, e[1] > Len(job.text)
               PROVE  e[2] = out_len
    OBVIOUS
  <2>1. e[1] = scan
    BY <1>2, <1>4
  <2> QED
    BY <1>1, <2>1 DEF ExpInv
<1>6. \A e \in trail : e[1] <= Len(job.text) =>
        <<After(job, e[1]), e[2] + Len(Piece(job, e[1]))>> \in trail
  <2> SUFFICES ASSUME NEW e \in trail, e[1] <= Len(job.text)
               PROVE  <<After(job, e[1]), e[2] + Len(Piece(job, e[1]))>> \in trail
    OBVIOUS
  <2>1. e[1] # scan
    BY <1>2, <1>4
  <2> QED
    BY <1>1, <2>1 DEF ExpInv
<1>7. scan' \in 1 .. Len(job'.text) + 1
  BY <1>1, <1>2
<1> QED
  BY <1>1, <1>3, <1>5, <1>6, <1>7 DEF ExpInv

\* What the second pass writes is what the first one measured there.
LEMMA FillKeeps == ASSUME ExpInv, Fill PROVE ExpInv'
<1>1. /\ pass = "fill" /\ pass' = "fill" /\ scan <= Len(job.text)
      /\ scan' = After(job, scan) /\ out' = out \o Piece(job, scan)
      /\ UNCHANGED <<job, out_len, trail>>
  BY DEF Fill
<1>2. job \in Job /\ Len(job.text) \in Nat /\ scan \in 1 .. Len(job.text)
  BY <1>1, JobShape DEF ExpInv, Text
<1>3. After(job, scan) \in scan + 1 .. Len(job.text) + 1 /\ Piece(job, scan) \in Text
  BY <1>2, Step
<1>4. out' \in Text /\ Len(out') = Len(out) + Len(Piece(job, scan))
  BY <1>1, <1>3 DEF ExpInv, Text
<1>5. <<After(job, scan), Len(out) + Len(Piece(job, scan))>> \in trail
  <2> DEFINE e == <<scan, Len(out)>>
  <2>1. e \in trail /\ e[1] = scan /\ e[2] = Len(out)
    BY <1>1 DEF ExpInv
  <2> HIDE DEF e
  <2>2. <<After(job, e[1]), e[2] + Len(Piece(job, e[1]))>> \in trail
    BY <1>1, <2>1 DEF ExpInv
  <2> QED
    BY <2>1, <2>2
<1>6. <<scan', Len(out')>> \in trail'
  BY <1>1, <1>4, <1>5
<1>7. scan' \in 1 .. Len(job'.text) + 1
  BY <1>1, <1>2, <1>3
<1> QED
  BY <1>1, <1>4, <1>6, <1>7 DEF ExpInv

\* Every step preserves the invariant.
LEMMA ExpStepKeeps == ExpInv /\ [ExpNext]_expVars => ExpInv'
<1> SUFFICES ASSUME ExpInv, [ExpNext]_expVars PROVE ExpInv'
  OBVIOUS
<1>1. ASSUME NEW j \in Job, Begin(j) PROVE ExpInv'
  <2>1. Len(j.text) \in Nat
    BY JobShape DEF Text
  <2>2. /\ job' = j /\ pass' = "count" /\ scan' = 1 /\ out_len' = 0
        /\ out' = <<>> /\ trail' = {<<1, 0>>}
    BY <1>1 DEF Begin
  <2>3. \A e \in trail' : e[1] = scan' /\ e[2] = out_len'
    BY <2>2
  <2> QED
    BY <2>1, <2>2, <2>3 DEF ExpInv, Text
<1>2. CASE Count
  BY <1>2, CountKeeps
<1>3. CASE Allocate
  BY <1>3, AllocateKeeps
<1>4. CASE Fill
  BY <1>4, FillKeeps
<1>5. CASE Finish
  BY <1>5 DEF Finish, ExpInv
<1>6. CASE Take
  BY <1>6 DEF Take, ExpInv
<1>7. CASE UNCHANGED expVars
  BY <1>7 DEF expVars, ExpInv
<1> QED
  BY <1>1, <1>2, <1>3, <1>4, <1>5, <1>6, <1>7 DEF ExpNext, ExpStep

\* The invariant implies that the second pass stays in what was allocated.
LEMMA ExpInvFits == ExpInv => Fits
<1> SUFFICES ASSUME ExpInv PROVE Fits
  OBVIOUS
<1>1. ASSUME pass \in {"fill", "done"} PROVE Len(out) <= out_len
  <2>1. <<scan, Len(out)>> \in trail
    BY <1>1 DEF ExpInv
  <2> QED
    BY <2>1 DEF ExpInv
<1>2. ASSUME pass = "done" PROVE Len(out) = out_len
  <2> DEFINE e == <<scan, Len(out)>>
  <2>1. e \in trail /\ e[1] = scan /\ e[2] = Len(out)
    BY <1>2 DEF ExpInv
  <2> HIDE DEF e
  <2> QED
    BY <1>2, <2>1 DEF ExpInv
<1> QED
  BY <1>1, <1>2 DEF Fits

\* An expansion never writes past what it allocated and fills it, for every
\* text, every set of placeholders and every replacement.
THEOREM ExpansionFits == ExpSpec => []Fits
<1>1. ExpSpec => []ExpInv
  BY ExpStarts, ExpStepKeeps, PTL DEF ExpSpec
<1> QED
  BY <1>1, ExpInvFits, PTL

-----------------------------------------------------------------------------
(* What an expansion comes to                                              *)

\* The run of `%` that p ends: it goes on from p - 1, or begins at p.
LEMMA RunStartIs ==
  ASSUME NEW text \in Text, NEW p \in 1 .. Len(text), text[p] = "%"
  PROVE  IF p > 1 /\ text[p - 1] = "%"
           THEN RunStart(text, p) = RunStart(text, p - 1) /\ RunStart(text, p) \in 1 .. p - 1
           ELSE RunStart(text, p) = p
<1> DEFINE A(q) == {a \in 1 .. q : \A i \in a .. q : text[i] = "%"}
<1>1. text \in Seq(Char) /\ Len(text) \in Nat
  BY DEF Text
<1>2. A(p) \in SUBSET Nat /\ p \in A(p)
  BY <1>1
<1>3. CASE p > 1 /\ text[p - 1] = "%"
  <2> DEFINE m == Min(A(p - 1))
  <2>1. A(p - 1) \in SUBSET Nat /\ p - 1 \in A(p - 1)
    BY <1>1, <1>3
  <2>2. m \in A(p - 1) /\ \A a \in A(p - 1) : m <= a
    <3> HIDE DEF A
    <3> QED
      BY <2>1, LeastIs
  <2> HIDE DEF m
  <2>3. m \in A(p)
    BY <1>1, <1>3, <2>2
  <2>4. ASSUME NEW a \in A(p) PROVE m <= a
    <3>1. a = p \/ a \in A(p - 1)
      BY <1>1
    <3> QED
      BY <1>1, <2>2, <3>1
  <2>5. Min(A(p)) = m
    <3> HIDE DEF A
    <3> QED
      BY <1>2, <2>3, <2>4, LeastOnly
  <2> QED
    BY <1>3, <2>2, <2>5 DEF RunStart, m
<1>4. CASE ~(p > 1 /\ text[p - 1] = "%")
  <2>1. ASSUME NEW a \in A(p) PROVE p <= a
    <3> SUFFICES ASSUME a < p PROVE FALSE
      BY <1>1
    <3>1. p - 1 \in a .. p /\ p > 1
      BY <1>1
    <3> QED
      BY <1>4, <3>1
  <2>2. Min(A(p)) = p
    <3> HIDE DEF A
    <3> QED
      BY <1>2, <2>1, LeastOnly
  <2> QED
    BY <1>4, <2>2 DEF RunStart
<1> QED
  BY <1>3, <1>4

\* Each position's share is a text, and there is one for each position.
LEMMA ShareType ==
  ASSUME NEW text \in Text, NEW with \in Withs
  PROVE  /\ \A p \in 1 .. Len(text) : Share(text, with, p) \in Text
         /\ [p \in 1 .. Len(text) |-> Share(text, with, p)] \in Seq(Text)
         /\ Len([p \in 1 .. Len(text) |-> Share(text, with, p)]) = Len(text)
         /\ DOMAIN text = 1 .. Len(text)
<1>1. Len(text) \in Nat /\ DOMAIN text = 1 .. Len(text) /\ \A p \in 1 .. Len(text) : text[p] \in Char
  BY DEF Text
<1>2. \A c \in DOMAIN with : with[c] \in Text
  BY DEF Withs
<1>3. ASSUME NEW p \in 1 .. Len(text) PROVE Share(text, with, p) \in Text
  <2>1. <<text[p]>> \in Text /\ <<>> \in Text
    BY <1>1 DEF Text
  <2>2. p \in Means(text, with) => with[text[p + 1]] \in Text
    BY <1>2 DEF Means
  <2> QED
    BY <2>1, <2>2 DEF Share
<1> HIDE DEF Text
<1> DEFINE n == Len(text)
<1>4. [p \in 1 .. n |-> Share(text, with, p)] \in [1 .. n -> Text] /\ n \in Nat
  BY <1>1, <1>3
<1> HIDE DEF n
<1>5. /\ [p \in 1 .. n |-> Share(text, with, p)] \in Seq(Text)
      /\ Len([p \in 1 .. n |-> Share(text, with, p)]) = n
  BY <1>4
<1> QED
  BY <1>1, <1>3, <1>5 DEF n

\* The meaning of a text is a text.
LEMMA MeaningType ==
  ASSUME NEW text \in Text, NEW with \in Withs
  PROVE  Meaning(text, with) \in Text
<1> DEFINE share == [p \in 1 .. Len(text) |-> Share(text, with, p)]
<1>1. share \in Seq(Seq(Char)) /\ Meaning(text, with) = FlattenSeq(share)
  BY ShareType DEF Meaning, Text
<1> HIDE DEF share
<1>2. FlattenSeq(share) \in Seq(Char)
  BY <1>1, FlattenPrefix
<1> QED
  BY <1>1, <1>2 DEF Text

\* A text without `%` means itself.
LEMMA MeaningPlain ==
  ASSUME NEW text \in Text, NEW with \in Withs, ~Contains(text, "%")
  PROVE  Meaning(text, with) = text
<1>1. text \in Seq(Char) /\ Len(text) \in Nat /\ DOMAIN text = 1 .. Len(text)
  BY DEF Text
<1>2. Means(text, with) = {}
  BY <1>1 DEF Means, Contains
<1> DEFINE f == [c \in Char |-> <<c>>]
           g == [c \in Char |-> c]
<1>3. f \in Maps(Char, Char) /\ g \in [Char -> Char] /\ Single(Char, f, g) /\ text \in List(Char)
  BY <1>1 DEF Maps, Single, List
<1>4. [p \in DOMAIN text |-> Share(text, with, p)] = [p \in DOMAIN text |-> f[text[p]]]
  BY <1>1, <1>2 DEF Share
<1>5. [p \in DOMAIN text |-> g[text[p]]] = text
  BY <1>1
<1> HIDE DEF f, g
<1>6. FlatMap(f, text) = [p \in DOMAIN text |-> g[text[p]]]
  BY <1>3, FlatMapSingles
<1> QED
  BY <1>4, <1>5, <1>6 DEF Meaning, FlatMap

\* The shares of the positions up to p.
Written(text, with, p) ==
    FlattenSeq(SubSeq([q \in 1 .. Len(text) |-> Share(text, with, q)], 1, p))

\* Not in the midst of a `%%`.
Even(text, with, p) ==
    (p <= Len(text) /\ text[p] = "%" /\ "%" \in DOMAIN with) => (p - RunStart(text, p)) % 2 = 0

\* The second pass stands at the beginning of a position's share, and has
\* written the shares of the positions before.
MeaningInv ==
    pass \in {"fill", "done"} =>
         /\ scan - 1 \notin Means(job.text, job.with)
         /\ Even(job.text, job.with, scan)
         /\ out = Written(job.text, job.with, scan - 1)

\* What an expansion is of.
LEMMA JobTyped ==
  ASSUME NEW j \in Job
  PROVE  j.text \in Text /\ j.with \in Withs /\ Len(j.text) \in Nat
BY DEF Job, Text

\* The first pass is over: nothing has been written, all of the text is left.
LEMMA AllocateMeans == ASSUME ExpInv, MeaningInv, Allocate PROVE MeaningInv'
<1> DEFINE text == job.text
           with == job.with
           share == [p \in 1 .. Len(text) |-> Share(text, with, p)]
<1>1. /\ pass' = "fill" /\ job' = job /\ out' = <<>> /\ scan' = 1
      /\ text \in Text /\ with \in Withs /\ Len(text) \in Nat
  BY JobTyped DEF Allocate, ExpInv
<1>2. scan' - 1 \notin Means(text, with)
  BY <1>1 DEF Means
<1>3. (scan' <= Len(text) /\ text[scan'] = "%") => RunStart(text, scan') = scan'
  <2> SUFFICES ASSUME 1 <= Len(text), text[1] = "%" PROVE RunStart(text, 1) = 1
    BY <1>1
  <2>1. 1 \in 1 .. Len(text)
    BY <1>1
  <2> QED
    BY <1>1, <2>1, RunStartIs
<1>4. out' = Written(text, with, 0) /\ scan' - 1 = 0
  <2>1. share \in Seq(Text)
    BY <1>1, ShareType
  <2>2. Written(text, with, 0) = FlattenSeq(SubSeq(share, 1, 0))
    BY DEF Written
  <2> HIDE DEF share
  <2>3. SubSeq(share, 1, 0) = <<>>
    BY <2>1
  <2>4. Written(text, with, 0) = <<>>
    BY <2>2, <2>3, FlattenEmpty
  <2> HIDE DEF text, with
  <2> QED
    BY <1>1, <2>4
<1>5. Even(text, with, 1)
  BY <1>1, <1>3 DEF Even
<1> QED
  BY <1>1, <1>2, <1>4, <1>5 DEF MeaningInv

\* A placeholder, and the parity behind it.
LEMMA MarkedMeans ==
  ASSUME NEW text \in Text, NEW with \in Withs, NEW p \in 1 .. Len(text) - 1,
         text[p] = "%", text[p + 1] \in DOMAIN with,
         Even(text, with, p)
  PROVE  /\ p \in Means(text, with)
         /\ p + 1 \notin Means(text, with)
         /\ Even(text, with, p + 2)
<1>1. Len(text) \in Nat /\ p \in 1 .. Len(text) /\ p + 1 \in 1 .. Len(text)
      /\ p + 1 > 1 /\ (p + 1) - 1 = p
  BY DEF Text
<1>2. p \in Means(text, with)
  BY DEF Means, Even
<1>3. RunStart(text, p) \in 1 .. p
  BY <1>1, RunStartIs
<1>4. CASE text[p + 1] = "%"
  <2> DEFINE q == p + 1
  <2>1. q \in 1 .. Len(text) /\ text[q] = "%" /\ q > 1 /\ text[q - 1] = "%"
    BY <1>1, <1>4
  <2>2. RunStart(text, q) = RunStart(text, q - 1)
    <3> HIDE DEF q
    <3> QED
      BY <2>1, RunStartIs
  <2>3. (p - RunStart(text, p)) % 2 = 0 /\ RunStart(text, q) = RunStart(text, p)
    BY <1>1, <1>4, <2>2 DEF Even
  <2>4. (q - RunStart(text, q)) % 2 = 1
    <3> DEFINE k == p - RunStart(text, p)
    <3>1. k \in Nat /\ k % 2 = 0
      BY <1>3, <2>3
    <3>2. q - RunStart(text, q) = k + 1
      BY <1>3, <2>3
    <3> HIDE DEF k
    <3>3. (k + 1) % 2 = 1
      BY <3>1
    <3> QED
      BY <3>2, <3>3
  <2>5. q \notin Means(text, with)
    BY <1>4, <2>4 DEF Means
  <2>6. ASSUME p + 2 <= Len(text), text[p + 2] = "%"
        PROVE  RunStart(text, p + 2) \in Nat /\ (p + 2 - RunStart(text, p + 2)) % 2 = 0
    <3> DEFINE r == p + 2
    <3>1. r \in 1 .. Len(text) /\ text[r] = "%" /\ r > 1 /\ text[r - 1] = "%" /\ r - 1 = q
      BY <1>1, <1>4, <2>6
    <3>2. RunStart(text, r) = RunStart(text, r - 1)
      <4> HIDE DEF r, q
      <4> QED
        BY <3>1, RunStartIs
    <3>3. RunStart(text, p + 2) = RunStart(text, p)
      BY <3>1, <3>2, <2>3
    <3> QED
      BY <1>3, <2>3, <3>3
  <2> QED
    <3>1. Even(text, with, p + 2)
      BY <1>1, <2>6 DEF Even
    <3> QED
      BY <1>2, <2>5, <3>1
<1>5. CASE text[p + 1] # "%"
  <2>1. p + 1 \notin Means(text, with)
    BY <1>5 DEF Means
  <2>2. ASSUME p + 2 <= Len(text), text[p + 2] = "%"
        PROVE  RunStart(text, p + 2) \in Nat /\ (p + 2 - RunStart(text, p + 2)) % 2 = 0
    <3> DEFINE r == p + 2
    <3>1. r \in 1 .. Len(text) /\ text[r] = "%" /\ text[r - 1] # "%"
      BY <1>1, <1>5, <2>2
    <3>2. RunStart(text, r) = r
      <4> HIDE DEF r
      <4> QED
        BY <3>1, RunStartIs
    <3> QED
      BY <3>2
  <2> QED
    <3>1. Even(text, with, p + 2)
      BY <1>1, <2>2 DEF Even
    <3> QED
      BY <1>2, <2>1, <3>1
<1> QED
  BY <1>4, <1>5

\* One step of the second pass writes what the step of the text stands for.
LEMMA FillMeans == ASSUME ExpInv, MeaningInv, Fill PROVE MeaningInv'
<1> DEFINE text == job.text
           with == job.with
           n == Len(text)
           share == [p \in 1 .. n |-> Share(text, with, p)]
           Upto(p) == Written(text, with, p)
<1>1. /\ pass = "fill" /\ pass' = "fill" /\ job' = job
      /\ scan' = After(job, scan) /\ out' = out \o Piece(job, scan)
      /\ job \in Job /\ text \in Text /\ with \in Withs
      /\ n \in Nat /\ scan \in 1 .. n
  BY JobTyped DEF Fill, ExpInv
<1>2. /\ scan - 1 \notin Means(text, with)
      /\ Even(text, with, scan)
      /\ out = Upto(scan - 1)
  BY <1>1 DEF MeaningInv
<1>3. \A p \in 1 .. n : Upto(p) = Upto(p - 1) \o share[p] /\ Upto(p) \in Text
  <2>1. share \in Seq(Seq(Char)) /\ Len(share) = n
    BY <1>1, ShareType DEF Text
  <2> HIDE DEF share, n
  <2>2. \A p \in 1 .. n : FlattenSeq(SubSeq(share, 1, p)) =
                            FlattenSeq(SubSeq(share, 1, p - 1)) \o share[p]
    BY <2>1, FlattenPrefix
  <2>3. \A p \in 1 .. n : FlattenSeq(SubSeq(share, 1, p)) \in Seq(Char)
    <3> SUFFICES ASSUME NEW p \in 1 .. n PROVE FlattenSeq(SubSeq(share, 1, p)) \in Seq(Char)
      OBVIOUS
    <3> DEFINE sub == SubSeq(share, 1, p)
    <3>1. sub \in Seq(Seq(Char))
      BY <1>1, <2>1
    <3> HIDE DEF sub
    <3>2. FlattenSeq(sub) \in Seq(Char)
      BY <3>1, FlattenPrefix
    <3> QED
      BY <3>2 DEF sub
  <2>4. \A p : Upto(p) = FlattenSeq(SubSeq(share, 1, p))
    BY DEF Written, share, n
  <2> QED
    BY <2>2, <2>3, <2>4 DEF Text
<1>4. CASE Marked(job, scan)
  <2>1. scan \in 1 .. n - 1 /\ text[scan] = "%" /\ text[scan + 1] \in DOMAIN with
    BY <1>1, <1>4 DEF Marked
  <2>2. /\ scan \in Means(text, with) /\ scan + 1 \notin Means(text, with)
        /\ Even(text, with, scan + 2)
    BY <1>1, <1>2, <2>1, MarkedMeans
  <2>3. scan' = scan + 2 /\ Piece(job, scan) = with[text[scan + 1]] /\ scan' - 1 = scan + 1
    BY <1>1, <1>4 DEF After, Piece
  <2>4. share[scan] = Piece(job, scan) /\ share[scan + 1] = <<>>
    <3>1. scan \in 1 .. n /\ scan + 1 \in 1 .. n /\ (scan + 1) - 1 = scan
      BY <1>1, <2>1
    <3>2. Share(text, with, scan) = with[text[scan + 1]] /\ Share(text, with, scan + 1) = <<>>
      BY <2>2, <3>1 DEF Share
    <3> QED
      BY <2>3, <3>1, <3>2
  <2>5. scan + 1 \in 1 .. n /\ (scan + 1) - 1 = scan /\ scan \in 1 .. n
    BY <1>1, <2>1
  <2> HIDE DEF share, Upto, text, with, n
  <2>6. Upto(scan + 1) = Upto(scan) \o share[scan + 1] /\ Upto(scan) = Upto(scan - 1) \o share[scan]
    BY <1>3, <2>5
  <2>7. Upto(scan) \o <<>> = Upto(scan)
    <3>1. Upto(scan) \in Seq(Char)
      BY <1>3, <2>5 DEF Text
    <3> QED
      BY <3>1
  <2>8. out' = Upto(scan + 1)
    BY <1>1, <1>2, <2>4, <2>6, <2>7
  <2>9. out' = Written(text, with, scan' - 1)
    BY <2>3, <2>8 DEF Upto
  <2>10. Even(text, with, scan')
    BY <2>2, <2>3
  <2>11. job'.text = text /\ job'.with = with
    BY <1>1 DEF text, with
  <2> QED
    BY <2>2, <2>3, <2>9, <2>10, <2>11 DEF MeaningInv, text, with, n
<1>5. CASE ~Marked(job, scan)
  <2>1. scan \notin Means(text, with)
    BY <1>1, <1>5 DEF Marked, Means
  <2>2. scan' = scan + 1 /\ Piece(job, scan) = <<text[scan]>> /\ scan' - 1 = scan
    BY <1>1, <1>5 DEF After, Piece
  <2>3. share[scan] = Piece(job, scan)
    BY <1>1, <1>2, <2>1, <2>2 DEF Share
  <2>4. Even(text, with, scan + 1)
    <3> SUFFICES ASSUME scan + 1 <= n, text[scan + 1] = "%", "%" \in DOMAIN with
                 PROVE  RunStart(text, scan + 1) \in Nat /\ (scan + 1 - RunStart(text, scan + 1)) % 2 = 0
      BY <1>1 DEF Even
    <3> DEFINE q == scan + 1
    <3>1. q \in 1 .. n /\ text[q] = "%" /\ q - 1 = scan
      BY <1>1
    <3>2. text[q - 1] # "%"
      BY <1>1, <1>5, <3>1 DEF Marked
    <3>3. RunStart(text, q) = q
      <4> HIDE DEF q
      <4> QED
        BY <1>1, <3>1, <3>2, RunStartIs
    <3> QED
      BY <1>1, <3>3
  <2> HIDE DEF share, Upto, text, with, n
  <2>5. out' = Upto(scan)
    BY <1>1, <1>2, <1>3, <2>3
  <2>6. out' = Written(text, with, scan' - 1)
    BY <2>2, <2>5 DEF Upto
  <2>7. Even(text, with, scan')
    BY <2>2, <2>4
  <2>8. job'.text = text /\ job'.with = with
    BY <1>1 DEF text, with
  <2> QED
    BY <2>1, <2>2, <2>6, <2>7, <2>8 DEF MeaningInv, text, with, n
<1> QED
  BY <1>4, <1>5

\* A step of an expansion.
LEMMA ExpStepMeans == ASSUME ExpInv, MeaningInv, ExpStep PROVE MeaningInv'
<1>1. CASE Count
  BY <1>1 DEF Count, MeaningInv
<1>2. CASE Allocate
  BY <1>2, AllocateMeans
<1>3. CASE Fill
  BY <1>3, FillMeans
<1>4. CASE Finish
  BY <1>4 DEF Finish, MeaningInv
<1> QED
  BY <1>1, <1>2, <1>3, <1>4 DEF ExpStep

\* What can be taken is what the text means.
LEMMA DoneMeans == ASSUME ExpInv, MeaningInv, pass = "done" PROVE out = Meaning(job.text, job.with)
<1> DEFINE text == job.text
           with == job.with
           n == Len(text)
           share == [p \in 1 .. n |-> Share(text, with, p)]
<1>1. /\ text \in Text /\ with \in Withs /\ n \in Nat /\ scan = n + 1
      /\ out = FlattenSeq(SubSeq(share, 1, scan - 1))
  BY JobTyped DEF ExpInv, MeaningInv, Written
<1>2. share \in Seq(Text) /\ Len(share) = n /\ DOMAIN text = 1 .. n
  BY <1>1, ShareType
<1>3. Meaning(text, with) = FlattenSeq(share)
  BY <1>2 DEF Meaning
<1> HIDE DEF share, n, text, with
<1>4. SubSeq(share, 1, scan - 1) = share
  BY <1>1, <1>2
<1> QED
  BY <1>1, <1>3, <1>4 DEF text, with

\* An expansion comes to what the text means, each of its positions taken by
\* itself: a `%` behind an even number of them is where a placeholder begins.
MeansRight == pass = "done" => out = Meaning(job.text, job.with)

\* Every expansion that ends leaves the text with each placeholder replaced by
\* what it stands for, and everything else as it was.
THEOREM ExpansionMeans == ExpSpec => []MeansRight
<1>1. ExpInit => MeaningInv
  BY DEF ExpInit, MeaningInv
<1>2. ExpInv /\ MeaningInv /\ [ExpNext]_expVars => MeaningInv'
  <2> SUFFICES ASSUME ExpInv, MeaningInv, [ExpNext]_expVars PROVE MeaningInv'
    OBVIOUS
  <2>1. ASSUME NEW j \in Job, Begin(j) PROVE MeaningInv'
    BY <2>1 DEF Begin, MeaningInv
  <2>2. CASE ExpStep
    BY <2>2, ExpStepMeans
  <2>3. CASE Take
    BY <2>3 DEF Take, MeaningInv
  <2>4. CASE UNCHANGED expVars
    BY <2>4 DEF expVars, MeaningInv
  <2> QED
    BY <2>1, <2>2, <2>3, <2>4 DEF ExpNext
<1>3. ExpInv /\ MeaningInv => MeansRight
  BY DoneMeans DEF MeansRight
<1> QED
  BY <1>1, <1>2, <1>3, ExpStarts, ExpStepKeeps, PTL DEF ExpSpec

-----------------------------------------------------------------------------
(* The words of a text                                                     *)

\* What stands at each position, and from one position on.
WordsAt(t, seps)    == [p \in 1 .. Len(t) |-> WordAt(t, seps, p)]
From(t, seps, p)    == FlattenSeq(SubSeq(WordsAt(t, seps), p, Len(t)))

\* The rest of the word p is in, and the words behind.
OwnRest(t, seps, p) == IF p <= Len(t) /\ t[p] \notin seps
                         THEN <<SubSeq(t, p, SkipTo(t, p, seps) - 1)>> ELSE <<>>
Rest(t, seps, p)    == OwnRest(t, seps, p) \o From(t, seps, p + 1)

\* Where the loop goes on behind a word that ends before e.
Passed(t, e) == IF e > Len(t) THEN e ELSE e + 1

\* A separator is looked for up to the end.
LEMMA SkipsTo ==
  ASSUME NEW C, NEW t \in Seq(C), NEW seps, NEW p \in 1 .. Len(t) + 1
  PROVE  LET e == SkipTo(t, p, seps) IN
         /\ e \in p .. Len(t) + 1
         /\ \A q \in p .. e - 1 : t[q] \notin seps
         /\ e <= Len(t) => t[e] \in seps
<1> DEFINE n == Len(t)
           S == {n + 1} \cup {q \in p .. n : t[q] \in seps}
           e == Min(S)
<1>1. n \in Nat /\ S \in SUBSET Nat /\ S # {} /\ n + 1 \in S
  OBVIOUS
<1>2. e \in S /\ \A m \in S : e <= m
  <2> HIDE DEF S
  <2> QED
    BY <1>1, LeastIs
<1>3. e = SkipTo(t, p, seps)
  BY DEF SkipTo
<1> HIDE DEF e
<1>4. \A q \in p .. e - 1 : t[q] \notin seps
  <2> SUFFICES ASSUME NEW q \in p .. e - 1, t[q] \in seps PROVE FALSE
    OBVIOUS
  <2>1. e \in Nat /\ e <= n + 1
    BY <1>1, <1>2
  <2>2. q \in S /\ q < e
    BY <1>1, <2>1
  <2> QED
    BY <1>2, <2>1, <2>2
<1> QED
  BY <1>1, <1>2, <1>3, <1>4

\* Separators are passed over up to the end.
LEMMA SkipsOver ==
  ASSUME NEW C, NEW t \in Seq(C), NEW seps, NEW p \in 1 .. Len(t) + 1
  PROVE  LET s == SkipOver(t, p, seps) IN
         /\ s \in p .. Len(t) + 1
         /\ \A q \in p .. s - 1 : t[q] \in seps
         /\ s <= Len(t) => t[s] \notin seps
<1> DEFINE n == Len(t)
           S == {n + 1} \cup {q \in p .. n : t[q] \notin seps}
           s == Min(S)
<1>1. n \in Nat /\ S \in SUBSET Nat /\ S # {} /\ n + 1 \in S
  OBVIOUS
<1>2. s \in S /\ \A m \in S : s <= m
  <2> HIDE DEF S
  <2> QED
    BY <1>1, LeastIs
<1>3. s = SkipOver(t, p, seps)
  BY DEF SkipOver
<1> HIDE DEF s
<1>4. \A q \in p .. s - 1 : t[q] \in seps
  <2> SUFFICES ASSUME NEW q \in p .. s - 1, t[q] \notin seps PROVE FALSE
    OBVIOUS
  <2>1. s \in Nat /\ s <= n + 1
    BY <1>1, <1>2
  <2>2. q \in S /\ q < s
    BY <1>1, <2>1
  <2> QED
    BY <1>2, <2>1, <2>2
<1> QED
  BY <1>1, <1>2, <1>3, <1>4

\* A word begins behind a separator, and ends before the next one.
LEMMA WordAtIs ==
  ASSUME NEW C, NEW t \in Seq(C), NEW seps, NEW p \in 1 .. Len(t)
  PROVE  WordAt(t, seps, p) =
           IF p = 1 \/ t[p - 1] \in seps THEN OwnRest(t, seps, p) ELSE <<>>
<1> DEFINE n == Len(t)
           e == SkipTo(t, p, seps)
           S == {q \in p .. n : q = n \/ t[q + 1] \in seps}
<1>1. n \in Nat /\ p \in 1 .. n + 1
  OBVIOUS
<1>2. e \in p .. n + 1 /\ (\A q \in p .. e - 1 : t[q] \notin seps) /\ (e <= n => t[e] \in seps)
  BY <1>1, SkipsTo
<1> HIDE DEF e
<1>3. CASE t[p] \notin seps
  <2>1. e # p
    BY <1>1, <1>2, <1>3
  <2>2. e - 1 \in S /\ S \in SUBSET Nat
    BY <1>1, <1>2, <2>1
  <2>3. \A q \in S : e - 1 <= q
    <3> SUFFICES ASSUME NEW q \in S, q < e - 1 PROVE FALSE
      BY <1>1, <1>2
    <3>1. q + 1 \in p .. e - 1 /\ q # n
      BY <1>1, <1>2
    <3> QED
      BY <1>2, <3>1
  <2>4. Min(S) = e - 1
    <3> HIDE DEF S
    <3> QED
      BY <2>2, <2>3, LeastOnly
  <2>5. WordAt(t, seps, p) = IF p = 1 \/ t[p - 1] \in seps THEN <<SubSeq(t, p, Min(S))>> ELSE <<>>
    BY <1>3, Zenon DEF WordAt
  <2>6. OwnRest(t, seps, p) = <<SubSeq(t, p, e - 1)>>
    BY <1>1, <1>3 DEF OwnRest, e
  <2> HIDE DEF S
  <2> QED
    BY <2>4, <2>5, <2>6
<1>4. CASE t[p] \in seps
  BY <1>4 DEF WordAt, OwnRest
<1> QED
  BY <1>3, <1>4

\* The lists of words and of tokens are made of stretches of the text.
LEMMA WordsType ==
  ASSUME NEW C, NEW t \in Seq(C), NEW seps
  PROVE  /\ WordsAt(t, seps) \in Seq(Seq(Seq(C))) /\ Len(WordsAt(t, seps)) = Len(t)
         /\ \A p \in 1 .. Len(t) + 1 : OwnRest(t, seps, p) \in Seq(Seq(C))
         /\ \A p \in 1 .. Len(t) + 2 : From(t, seps, p) \in Seq(Seq(C))
         /\ \A p \in 1 .. Len(t) + 1 : Rest(t, seps, p) \in Seq(Seq(C))
<1> DEFINE n == Len(t)
           Y == Seq(C)
           Z == Seq(Y)
           W == WordsAt(t, seps)
<1>1. n \in Nat
  OBVIOUS
<1>2. ASSUME NEW p \in 1 .. n + 1 PROVE OwnRest(t, seps, p) \in Z
  <2> DEFINE e == SkipTo(t, p, seps)
             w == SubSeq(t, p, e - 1)
  <2>1. e \in p .. n + 1
    BY SkipsTo
  <2> HIDE DEF e
  <2>2. w \in Y
    BY <2>1
  <2> HIDE DEF w, Y
  <2>3. <<w>> \in Z /\ <<>> \in Z
    BY <2>2
  <2> QED
    BY <2>3 DEF OwnRest, w, e, Y
<1>3. W \in Seq(Z) /\ Len(W) = n
  <2>1. ASSUME NEW p \in 1 .. n PROVE WordAt(t, seps, p) \in Z
    <3>1. OwnRest(t, seps, p) \in Z /\ <<>> \in Z
      BY <1>1, <1>2
    <3> QED
      BY <3>1, WordAtIs
  <2> HIDE DEF n, Z
  <2>2. [p \in 1 .. n |-> WordAt(t, seps, p)] \in [1 .. n -> Z]
    BY <2>1
  <2>3. [p \in 1 .. n |-> WordAt(t, seps, p)] \in Seq(Z)
        /\ Len([p \in 1 .. n |-> WordAt(t, seps, p)]) = n
    BY <1>1, <2>2
  <2> QED
    BY <2>3 DEF WordsAt, n
<1> HIDE DEF W, Z
<1>4. ASSUME NEW p \in 1 .. n + 2 PROVE From(t, seps, p) \in Z
  <2> DEFINE sub == SubSeq(W, p, n)
  <2>1. sub \in Seq(Z)
    BY <1>1, <1>3
  <2> HIDE DEF sub, Y
  <2>2. sub \in Seq(Seq(Y))
    BY <2>1 DEF Z
  <2>3. FlattenSeq(sub) \in Seq(Y)
    BY <2>2, FlattenPrefix
  <2> QED
    BY <2>3 DEF From, sub, W, Z
<1>5. ASSUME NEW p \in 1 .. n + 1 PROVE Rest(t, seps, p) \in Z
  <2>1. p + 1 \in 1 .. n + 2
    BY <1>1
  <2>2. OwnRest(t, seps, p) \in Z /\ From(t, seps, p + 1) \in Z
    BY <1>2, <1>4, <2>1
  <2> QED
    BY <2>2 DEF Rest, Z
<1> QED
  BY <1>2, <1>3, <1>4, <1>5 DEF W, Z

\* The words from a position on are a list.
LEMMA FromType ==
  ASSUME NEW C, NEW t \in Seq(C), NEW seps, NEW p \in 1 .. Len(t)
  PROVE  From(t, seps, p + 1) \in Seq(Seq(C)) /\ <<>> \o From(t, seps, p + 1) = From(t, seps, p + 1)
<1> DEFINE q == p + 1
           Y == Seq(C)
<1>1. q \in 1 .. Len(t) + 2
  OBVIOUS
<1> HIDE DEF q
<1>2. From(t, seps, q) \in Seq(Y)
  BY <1>1, WordsType
<1> HIDE DEF Y
<1>3. <<>> \o From(t, seps, q) = From(t, seps, q)
  BY <1>2
<1> QED
  BY <1>2, <1>3 DEF q, Y

\* Behind the last position there is nothing.
LEMMA FromEnd ==
  ASSUME NEW C, NEW t \in Seq(C), NEW seps
  PROVE  From(t, seps, Len(t) + 1) = <<>> /\ Rest(t, seps, Len(t) + 1) = <<>>
<1> DEFINE n == Len(t)
           W == WordsAt(t, seps)
<1>1. n \in Nat /\ W \in Seq(Seq(Seq(C))) /\ Len(W) = n
  BY WordsType
<1> HIDE DEF W
<1>2. SubSeq(W, n + 1, n) = <<>> /\ SubSeq(W, n + 2, n) = <<>> /\ (n + 1) + 1 = n + 2 /\ ~(n + 1 <= n)
  BY <1>1
<1>3. From(t, seps, n + 1) = <<>> /\ From(t, seps, n + 2) = <<>>
  BY <1>2, FlattenEmpty DEF From, W
<1>4. <<>> \o <<>> = <<>>
  OBVIOUS
<1> QED
  BY <1>2, <1>3, <1>4 DEF Rest, OwnRest

\* Behind a separator, the rest is what begins there.
LEMMA RestAtBoundary ==
  ASSUME NEW C, NEW t \in Seq(C), NEW seps, NEW p \in 1 .. Len(t) + 1,
         p = 1 \/ t[p - 1] \in seps
  PROVE  Rest(t, seps, p) = From(t, seps, p)
<1> DEFINE n == Len(t)
           W == WordsAt(t, seps)
<1>1. n \in Nat /\ W \in Seq(Seq(Seq(C))) /\ Len(W) = n
  BY WordsType
<1>2. CASE p = n + 1
  BY <1>2, FromEnd
<1>3. CASE p # n + 1
  <2>1. p \in 1 .. n
    BY <1>1, <1>3
  <2>2. W[p] = OwnRest(t, seps, p)
    BY <2>1, WordAtIs DEF WordsAt
  <2> HIDE DEF W
  <2>3. FlattenSeq(SubSeq(W, p, n)) = W[p] \o FlattenSeq(SubSeq(W, p + 1, n))
    <3> DEFINE X == Seq(C)
    <3>1. W \in Seq(Seq(X)) /\ p \in 1 .. Len(W) /\ Len(W) = n
      BY <1>1, <2>1
    <3> HIDE DEF X, n
    <3> QED
      BY <3>1, FlattenFrom
  <2> QED
    BY <2>2, <2>3 DEF From, Rest, W
<1> QED
  BY <1>2, <1>3

\* No word begins at a position that is a separator or follows a symbol that
\* is none.
LEMMA FromSkips ==
  ASSUME NEW C, NEW t \in Seq(C), NEW seps, NEW p \in 1 .. Len(t) + 1, NEW r \in p .. Len(t) + 1,
         \A q \in p .. r - 1 : t[q] \in seps \/ (q > 1 /\ t[q - 1] \notin seps)
  PROVE  From(t, seps, p) = From(t, seps, r)
<1> DEFINE n == Len(t)
           W == WordsAt(t, seps)
           X == Seq(C)
<1>1. n \in Nat /\ W \in Seq(Seq(X)) /\ Len(W) = n
  BY WordsType
<1>2. \A q \in p .. r - 1 : W[q] = <<>>
  <2> SUFFICES ASSUME NEW q \in p .. r - 1 PROVE W[q] = <<>>
    OBVIOUS
  <2>1. q \in 1 .. n
    BY <1>1
  <2>2. WordAt(t, seps, q) = <<>>
    <3>1. CASE t[q] \in seps
      BY <3>1 DEF WordAt
    <3>2. CASE q > 1 /\ t[q - 1] \notin seps
      BY <2>1, <3>2 DEF WordAt
    <3> QED
      BY <3>1, <3>2
  <2> QED
    BY <2>1, <2>2 DEF WordsAt
<1> HIDE DEF W, X
<1>3. p \in 1 .. Len(W) + 1 /\ r \in p .. Len(W) + 1
  BY <1>1
<1>4. FlattenSeq(SubSeq(W, p, Len(W))) = FlattenSeq(SubSeq(W, r, Len(W)))
  BY <1>1, <1>2, <1>3, FlattenSkip
<1> QED
  BY <1>1, <1>4 DEF From, W

\* What one step of the loop finds, at whatever position it begins.
LEMMA RestStep ==
  ASSUME NEW C, NEW t \in Seq(C), NEW seps, NEW p \in 1 .. Len(t) + 1
  PROVE  LET s == SkipOver(t, p, seps)
             e == SkipTo(t, s, seps)
         IN  /\ s \in p .. Len(t) + 1
             /\ s > Len(t) => Rest(t, seps, p) = <<>>
             /\ s <= Len(t) =>
                  /\ e \in s + 1 .. Len(t) + 1
                  /\ Passed(t, e) \in e .. Len(t) + 1
                  /\ Rest(t, seps, p) = <<SubSeq(t, s, e - 1)>> \o Rest(t, seps, Passed(t, e))
                  /\ Rest(t, seps, Passed(t, e)) = Rest(t, seps, e)
<1> DEFINE n == Len(t)
           s == SkipOver(t, p, seps)
           e == SkipTo(t, s, seps)
           R(q) == Rest(t, seps, q)
           F(q) == From(t, seps, q)
<1>1. n \in Nat
  OBVIOUS
<1>2. s \in p .. n + 1 /\ (\A q \in p .. s - 1 : t[q] \in seps) /\ (s <= n => t[s] \notin seps)
  BY SkipsOver
<1> HIDE DEF s
<1>3. s \in 1 .. n + 1
  BY <1>1, <1>2
<1>4. e \in s .. n + 1 /\ (\A q \in s .. e - 1 : t[q] \notin seps) /\ (e <= n => t[e] \in seps)
  BY <1>3, SkipsTo
<1> HIDE DEF e
\* The separators are passed.
<1>5. R(p) = R(s)
  <2>1. CASE s = p
    BY <2>1
  <2>2. CASE s # p
    <3>1. p \in 1 .. n /\ t[p] \in seps /\ p + 1 \in 1 .. n + 1 /\ s \in p + 1 .. n + 1 /\ s - 1 \in p .. s - 1
      BY <1>1, <1>2, <2>2
    <3>2. R(p) = F(p + 1)
      <4>1. OwnRest(t, seps, p) = <<>>
        BY <3>1 DEF OwnRest
      <4>2. <<>> \o F(p + 1) = F(p + 1)
        BY <3>1, FromType
      <4> QED
        BY <4>1, <4>2 DEF Rest
    <3>3. F(p + 1) = F(s)
      <4>1. \A q \in p + 1 .. s - 1 : t[q] \in seps
        BY <1>1, <1>2, <3>1
      <4> QED
        BY <3>1, <4>1, FromSkips
    <3>4. t[s - 1] \in seps
      BY <1>2, <3>1
    <3>5. R(s) = F(s)
      BY <1>3, <3>4, RestAtBoundary
    <3> QED
      BY <3>2, <3>3, <3>5
  <2> QED
    BY <2>1, <2>2
<1>6. ASSUME s > n PROVE R(p) = <<>>
  <2>1. s = n + 1
    BY <1>1, <1>3, <1>6
  <2> QED
    BY <1>5, <2>1, FromEnd
\* Behind the word.
<1>7. ASSUME e <= n PROVE e + 1 \in 1 .. n + 1 /\ R(e) = F(e + 1) /\ R(e + 1) = F(e + 1) /\ F(e) = F(e + 1)
  <2>1. e \in 1 .. n /\ e + 1 \in 1 .. n + 1 /\ (e + 1) - 1 = e /\ t[e] \in seps
    BY <1>1, <1>3, <1>4, <1>7
  <2>2. R(e) = F(e + 1)
    <3>1. OwnRest(t, seps, e) = <<>>
      BY <2>1 DEF OwnRest
    <3>2. <<>> \o F(e + 1) = F(e + 1)
      BY <2>1, FromType
    <3> QED
      BY <3>1, <3>2 DEF Rest
  <2>3. R(e + 1) = F(e + 1)
    BY <2>1, RestAtBoundary
  <2>4. F(e) = F(e + 1)
    <3>1. e + 1 \in e .. n + 1 /\ e \in 1 .. n + 1 /\ \A q \in e .. (e + 1) - 1 : t[q] \in seps
      BY <1>1, <2>1
    <3> QED
      BY <3>1, FromSkips
  <2> QED
    BY <2>1, <2>2, <2>3, <2>4
<1>8. ASSUME s <= n
      PROVE  /\ e \in s + 1 .. n + 1 /\ Passed(t, e) \in e .. n + 1
             /\ R(p) = <<SubSeq(t, s, e - 1)>> \o R(Passed(t, e))
             /\ R(Passed(t, e)) = R(e)
  <2>1. e \in s + 1 .. n + 1
    BY <1>1, <1>2, <1>3, <1>4, <1>8
  <2>2. OwnRest(t, seps, s) = <<SubSeq(t, s, e - 1)>>
    BY <1>2, <1>8 DEF OwnRest, e
  <2>3. F(s + 1) = F(e)
    <3>1. s + 1 \in 1 .. n + 1 /\ e \in s + 1 .. n + 1
      BY <1>1, <1>3, <1>8, <2>1
    <3>2. \A q \in s + 1 .. e - 1 : q > 1 /\ q - 1 \in s .. e - 1
      BY <1>1, <1>3, <2>1
    <3>3. \A q \in s + 1 .. e - 1 : t[q] \in seps \/ (q > 1 /\ t[q - 1] \notin seps)
      BY <1>4, <3>2
    <3> QED
      BY <3>1, <3>3, FromSkips
  <2>4. F(e) = R(Passed(t, e)) /\ Passed(t, e) \in e .. n + 1 /\ R(Passed(t, e)) = R(e)
    <3>1. CASE e <= n
      BY <1>1, <1>7, <2>1, <3>1 DEF Passed
    <3>2. CASE ~(e <= n)
      <4>1. e = n + 1 /\ Passed(t, e) = e
        BY <1>1, <2>1, <3>2 DEF Passed
      <4> QED
        BY <1>1, <4>1, FromEnd
    <3> QED
      BY <3>1, <3>2
  <2> QED
    BY <1>5, <2>1, <2>2, <2>3, <2>4 DEF Rest
<1> QED
  BY <1>2, <1>6, <1>8 DEF s, e

\* A function that refers to itself further on only is determined by that.
Downward(n, f, g) ==
    \A p \in 1 .. n + 1 : (\A q \in p + 1 .. n + 1 : f[q] = g[q]) => f[p] = g[p]

\* Two functions computed from the end of a text by the same step are equal.
LEMMA DownwardEqual ==
  ASSUME NEW n \in Nat, NEW f, NEW g, Downward(n, f, g)
  PROVE  \A p \in 1 .. n + 1 : f[p] = g[p]
<1> DEFINE Same(i) == \A p \in n + 1 - i .. n + 1 : f[p] = g[p]
           G == {i \in 0 .. n : Same(i)}
<1>1. Same(0)
  <2>1. n + 1 \in 1 .. n + 1 /\ \A q \in (n + 1) + 1 .. n + 1 : f[q] = g[q]
    OBVIOUS
  <2>2. f[n + 1] = g[n + 1]
    BY <2>1 DEF Downward
  <2> QED
    BY <2>2
<1>2. ASSUME NEW i \in 0 .. n - 1, Same(i) PROVE Same(i + 1)
  <2>1. n - i \in 1 .. n + 1 /\ (n - i) + 1 = n + 1 - i /\ n + 1 - (i + 1) = n - i
    OBVIOUS
  <2>2. f[n - i] = g[n - i]
    BY <1>2, <2>1 DEF Downward
  <2>3. \A p \in n - i .. n + 1 : p = n - i \/ p \in n + 1 - i .. n + 1
    OBVIOUS
  <2> QED
    BY <1>2, <2>1, <2>2, <2>3
<1> HIDE DEF Same
<1>3. 0 .. n \subseteq G
  <2>1. 0 \in G /\ \A i \in 0 .. n - 1 : i \in G => i + 1 \in G
    BY <1>1, <1>2
  <2> HIDE DEF G
  <2> QED
    BY <2>1, IntervalInduction
<1>4. Same(n)
  BY <1>3
<1> QED
  BY <1>4 DEF Same

\* The code's tokens are the words, and it counts them right.
LEMMA TokensAreWords ==
  ASSUME NEW C, NEW t \in Seq(C), NEW seps
  PROVE  /\ Tokens(t, seps) = Words(t, seps)
         /\ TokenCount(t, seps) = Len(Words(t, seps))
         /\ Words(t, seps) \in Seq(Seq(C))
<1> DEFINE n == Len(t)
           D == 1 .. n + 1
           S(p) == SkipOver(t, p, seps)
           E(p) == SkipTo(t, S(p), seps)
           R(p) == Rest(t, seps, p)
<1>1. n \in Nat /\ 1 \in D
  OBVIOUS
<1>2. \A p \in D :
        /\ S(p) \in p .. n + 1
        /\ S(p) > n => R(p) = <<>>
        /\ S(p) <= n =>
             /\ E(p) \in S(p) + 1 .. n + 1 /\ Passed(t, E(p)) \in E(p) .. n + 1
             /\ R(p) = <<SubSeq(t, S(p), E(p) - 1)>> \o R(Passed(t, E(p)))
             /\ R(Passed(t, E(p))) = R(E(p))
  BY RestStep
<1>3. \A p \in D : R(p) \in Seq(Seq(C)) /\ Len(R(p)) \in Nat
  <2> SUFFICES ASSUME NEW p \in D PROVE R(p) \in Seq(Seq(C)) /\ Len(R(p)) \in Nat
    OBVIOUS
  <2> DEFINE Y == Seq(C)
  <2>1. R(p) \in Seq(Y)
    BY WordsType
  <2> HIDE DEF Y, R
  <2>2. Len(R(p)) \in Nat
    BY <2>1
  <2> QED
    BY <2>1, <2>2 DEF Y
<1>4. R(1) = Words(t, seps)
  <2>1. 1 \in 1 .. Len(t) + 1
    BY <1>1
  <2>2. R(1) = From(t, seps, 1)
    BY <2>1, RestAtBoundary
  <2> DEFINE W == WordsAt(t, seps)
  <2>3. W \in Seq(Seq(Seq(C))) /\ Len(W) = n
    BY WordsType
  <2>4. W = [p \in DOMAIN t |-> WordAt(t, seps, p)]
    BY DEF WordsAt
  <2> HIDE DEF W
  <2>5. SubSeq(W, 1, n) = W
    BY <2>3
  <2> QED
    BY <2>2, <2>4, <2>5 DEF From, Words, W
<1> DEFINE BodyT(f, p) == IF S(p) > n THEN <<>>
                          ELSE <<SubSeq(t, S(p), E(p) - 1)>> \o f[IF E(p) > n THEN E(p) ELSE E(p) + 1]
           BodyC(f, p) == IF S(p) > n THEN 0 ELSE 1 + f[E(p)]
           v == CHOOSE f : f = [p \in D |-> BodyT(f, p)]
           c == CHOOSE f : f = [p \in D |-> BodyC(f, p)]
           F == [p \in D |-> R(p)]
           L == [p \in D |-> Len(R(p))]
<1>5. Tokens(t, seps) = v[1] /\ TokenCount(t, seps) = c[1]
  BY DEF Tokens, TokenCount
<1> HIDE DEF S, E, R
<1>6. \A p \in D : S(p) <= n => E(p) \in D /\ Passed(t, E(p)) \in D /\ E(p) \in p + 1 .. n + 1 /\ Passed(t, E(p)) \in p + 1 .. n + 1
  <2> SUFFICES ASSUME NEW p \in D, S(p) <= n
               PROVE  /\ E(p) \in D /\ Passed(t, E(p)) \in D
                      /\ E(p) \in p + 1 .. n + 1 /\ Passed(t, E(p)) \in p + 1 .. n + 1
    OBVIOUS
  <2>1. S(p) \in p .. n + 1 /\ E(p) \in S(p) + 1 .. n + 1 /\ Passed(t, E(p)) \in E(p) .. n + 1
    BY <1>2
  <2> HIDE DEF n
  <2> QED
    BY <1>1, <2>1
<1>6a. \A p \in D : S(p) <= n \/ S(p) > n
  <2> SUFFICES ASSUME NEW p \in D PROVE S(p) <= n \/ S(p) > n
    OBVIOUS
  <2>1. S(p) \in p .. n + 1
    BY <1>2
  <2> QED
    BY <1>1, <2>1
<1>7. v = [p \in D |-> BodyT(v, p)]
  <2>1. ASSUME NEW p \in D PROVE F[p] = BodyT(F, p)
    <3>1. CASE S(p) > n
      BY <1>2, <3>1
    <3>2. CASE ~(S(p) > n)
      <4>1. S(p) <= n
        BY <1>6a, <3>2
      <4> DEFINE e == Passed(t, E(p))
      <4>2. e \in D /\ e = (IF E(p) > n THEN E(p) ELSE E(p) + 1) /\ F[e] = R(e)
        BY <1>6, <4>1 DEF Passed
      <4>3. F[p] = <<SubSeq(t, S(p), E(p) - 1)>> \o R(e)
        BY <1>2, <4>1
      <4> HIDE DEF F, e
      <4> QED
        BY <3>2, <4>2, <4>3
    <3> QED
      BY <3>1, <3>2
  <2>3. F = [p \in D |-> BodyT(F, p)]
    BY <2>1
  <2> HIDE DEF F, BodyT, D
  <2> QED
    BY <2>3
<1>7a. \A p \in D : L[p] = BodyC(L, p)
  <2>1. \A p \in D : S(p) <= n => Len(R(p)) = 1 + Len(R(E(p)))
    <3> SUFFICES ASSUME NEW p \in D, S(p) <= n PROVE Len(R(p)) = 1 + Len(R(E(p)))
      OBVIOUS
    <3> DEFINE w == SubSeq(t, S(p), E(p) - 1)
               r == R(E(p))
    <3>1. E(p) \in D /\ R(p) = <<w>> \o r
      BY <1>2, <1>6
    <3>2. r \in Seq(Seq(C))
      BY <1>3, <3>1
    <3> HIDE DEF w, r
    <3>3. Len(<<w>> \o r) = 1 + Len(r)
      BY <3>2
    <3> QED
      BY <3>1, <3>3 DEF r
  <2> SUFFICES ASSUME NEW p \in D PROVE L[p] = BodyC(L, p)
    OBVIOUS
  <2>2. CASE S(p) > n
    <3>1. R(p) = <<>>
      BY <1>2, <2>2
    <3> QED
      BY <2>2, <3>1
  <2>3. CASE ~(S(p) > n)
    <3>1. S(p) <= n
      BY <1>6a, <2>3
    <3> QED
      BY <1>6, <2>1, <2>3, <3>1
  <2> QED
    BY <2>2, <2>3
<1>8. c = [p \in D |-> BodyC(c, p)]
  <2>3. L = [p \in D |-> BodyC(L, p)]
    BY <1>7a
  <2> HIDE DEF L, BodyC, D
  <2> QED
    BY <2>3
<1> HIDE DEF v, c
<1>9. ASSUME NEW p \in D, \A q \in p + 1 .. n + 1 : v[q] = F[q]
      PROVE  v[p] = F[p]
  <2>1. v[p] = BodyT(v, p)
    BY <1>7
  <2>2. CASE S(p) > n
    BY <1>2, <2>1, <2>2
  <2>3. CASE ~(S(p) > n)
    <3>1. S(p) <= n
      BY <1>6a, <2>3
    <3> DEFINE e == Passed(t, E(p))
    <3>2. e \in p + 1 .. n + 1 /\ e \in D /\ e = (IF E(p) > n THEN E(p) ELSE E(p) + 1)
      BY <1>6, <3>1 DEF Passed
    <3>3. v[e] = R(e)
      BY <1>9, <3>2
    <3>4. v[p] = <<SubSeq(t, S(p), E(p) - 1)>> \o v[e]
      <4> HIDE DEF e
      <4> QED
        BY <2>1, <2>3, <3>2
    <3> QED
      BY <1>2, <3>1, <3>3, <3>4
  <2> QED
    BY <2>2, <2>3
<1>10. ASSUME NEW p \in D, \A q \in p + 1 .. n + 1 : c[q] = L[q]
       PROVE  c[p] = L[p]
  <2>1. c[p] = BodyC(c, p) /\ L[p] = BodyC(L, p)
    <3>1. c[p] = BodyC(c, p)
      BY <1>8
    <3> QED
      BY <1>7a, <3>1
  <2>2. CASE S(p) > n
    BY <2>1, <2>2
  <2>3. CASE ~(S(p) > n)
    <3>1. S(p) <= n
      BY <1>6a, <2>3
    <3>2. E(p) \in p + 1 .. n + 1
      BY <1>1, <1>6, <3>1
    <3>3. c[E(p)] = L[E(p)]
      BY <1>10, <3>2
    <3> HIDE DEF L
    <3> QED
      BY <2>1, <2>3, <3>3
  <2> QED
    BY <2>2, <2>3
<1>11. v[1] = F[1] /\ c[1] = L[1]
  <2> HIDE DEF F, L
  <2> HIDE DEF n
  <2>0. Downward(n, v, F) /\ Downward(n, c, L)
    BY <1>9, <1>10 DEF Downward
  <2>1. \A p \in 1 .. n + 1 : v[p] = F[p]
    BY <1>1, <2>0, DownwardEqual
  <2>2. \A p \in 1 .. n + 1 : c[p] = L[p]
    BY <1>1, <2>0, DownwardEqual
  <2> QED
    BY <1>1, <2>1, <2>2
<1> QED
  BY <1>1, <1>3, <1>4, <1>5, <1>11

-----------------------------------------------------------------------------
(* The files under a directory                                             *)

Frames == [dir : Text, rest : Seq(Entries)]
Files  == [dir : Text, name : Text]

\* The files an entry stands for, those left of a directory, and those left of
\* all directories being walked.
FilesAt(in, dir, e) ==
    IF ~e.dir THEN <<[dir |-> dir, name |-> e.name]>>
    ELSE IF Enters(in, dir, e) THEN Under(in, JoinPath(dir, e.name)) ELSE <<>>

EntryMap(in, dir)     == [e \in Entries |-> FilesAt(in, dir, e)]
FilesLeft(in, frame)  == FlatMap(EntryMap(in, frame.dir), frame.rest)
FrameMap(in)          == [frame \in Frames |-> FilesLeft(in, frame)]
Remaining(in, frames) == FlatMap(FrameMap(in), frames)

\* What is assumed of the inputs.
LEMMA InputTypes ==
  ASSUME NEW in \in Inputs
  PROVE  /\ in.source \in Text \cup {NONE}
         /\ DOMAIN in.tree \subseteq Text /\ IsFiniteSet(DOMAIN in.tree)
         /\ \A dir \in DOMAIN in.tree : in.tree[dir] \in Seq(Entries)
         /\ \A file \in DOMAIN in.files : in.files[file] # NONE => IsContext(in.files[file])
         /\ \A file \in DOMAIN in.sections :
              in.sections[file] # NONE => in.sections[file] \in Seq(Section)
         /\ in.reports \in Seq(Device)
BY InputsAssumption

\* A path is longer than that of the directory it is in.
LEMMA JoinLonger ==
  ASSUME NEW dir \in Text, NEW name \in Text
  PROVE  /\ JoinPath(dir, name) \in Text
         /\ Len(JoinPath(dir, name)) >= Len(dir) + Len(name)
<1> DEFINE sep == IF dir # <<>> /\ Last(dir) # "/" THEN <<"/">> ELSE <<>>
<1>1. dir \in Seq(Char) /\ name \in Seq(Char) /\ "/" \in Char
  BY CharAssumption DEF Text
<1>2. sep \in Seq(Char) /\ Len(sep) \in Nat
  BY <1>1
<1>3. JoinPath(dir, name) = dir \o sep \o name
  BY DEF JoinPath
<1> HIDE DEF sep
<1>4. dir \o sep \o name \in Seq(Char) /\ Len(dir \o sep \o name) = Len(dir) + Len(sep) + Len(name)
  BY <1>1, <1>2
<1> QED
  BY <1>1, <1>2, <1>3, <1>4 DEF Text

\* What `under` is made of, one directory at a time.
UnderAt(in, u, dir, e) ==
    IF ~e.dir THEN <<[dir |-> dir, name |-> e.name]>>
    ELSE IF Enters(in, dir, e) THEN u[JoinPath(dir, e.name)] ELSE <<>>

UnderBody(in, u, dir) == FlattenSeq([i \in DOMAIN in.tree[dir] |-> UnderAt(in, u, dir, in.tree[dir][i])])
UnderOf(in) == CHOOSE u : u = [dir \in DOMAIN in.tree |-> UnderBody(in, u, dir)]

\* The directories whose paths are longer than n - i.
Deep(in, n, i) == {dir \in DOMAIN in.tree : Len(dir) > n - i}

\* The files under a directory, as a recursive function of the directories.
LEMMA UnderOfIs ==
  ASSUME NEW in, NEW root
  PROVE  Under(in, root) = IF Readable(in, root) THEN UnderOf(in)[root] ELSE <<>>
BY DEF Under, UnderOf, UnderBody, UnderAt

\* The directories entered from one are deeper.
LEMMA EntersDeeper ==
  ASSUME NEW in \in Inputs, NEW n \in Nat, NEW i \in 0 .. n, NEW dir \in Deep(in, n, i + 1),
         NEW e \in Entries, Enters(in, dir, e)
  PROVE  JoinPath(dir, e.name) \in Deep(in, n, i)
<1>1. dir \in Text /\ e.name \in Text /\ e.name # <<>>
  BY InputTypes DEF Deep, Entries
<1>2. Len(dir) \in Nat /\ Len(e.name) \in Nat /\ Len(e.name) > 0
  BY <1>1 DEF Text
<1>3. /\ JoinPath(dir, e.name) \in Text
      /\ Len(JoinPath(dir, e.name)) >= Len(dir) + Len(e.name)
  BY <1>1, JoinLonger
<1>4. Len(JoinPath(dir, e.name)) \in Nat
  BY <1>3 DEF Text
<1>5. JoinPath(dir, e.name) \in DOMAIN in.tree
  BY DEF Enters, Readable
<1> QED
  BY <1>2, <1>3, <1>4, <1>5 DEF Deep

\* So what is under one depends on what is under those only.
LEMMA UnderAgrees ==
  ASSUME NEW in \in Inputs, NEW n \in Nat, NEW i \in 0 .. n, NEW u, NEW v,
         \A d \in Deep(in, n, i) : u[d] = v[d], NEW dir \in Deep(in, n, i + 1)
  PROVE  UnderBody(in, u, dir) = UnderBody(in, v, dir)
<1> DEFINE s == in.tree[dir]
<1>1. s \in Seq(Entries)
  BY InputTypes DEF Deep
<1>2. \A k \in DOMAIN s : UnderAt(in, u, dir, s[k]) = UnderAt(in, v, dir, s[k])
  <2> SUFFICES ASSUME NEW k \in DOMAIN s
               PROVE  UnderAt(in, u, dir, s[k]) = UnderAt(in, v, dir, s[k])
    OBVIOUS
  <2> DEFINE e == s[k]
  <2>1. e \in Entries
    BY <1>1
  <2> HIDE DEF e
  <2>2. CASE Enters(in, dir, e)
    <3>1. JoinPath(dir, e.name) \in Deep(in, n, i)
      BY <2>1, <2>2, EntersDeeper
    <3>2. u[JoinPath(dir, e.name)] = v[JoinPath(dir, e.name)]
      BY <3>1
    <3> QED
      BY <3>2 DEF UnderAt, e
  <2>3. CASE ~Enters(in, dir, e)
    BY <2>3 DEF UnderAt, e
  <2> QED
    BY <2>2, <2>3
<1>3. [k \in DOMAIN s |-> UnderAt(in, u, dir, s[k])] = [k \in DOMAIN s |-> UnderAt(in, v, dir, s[k])]
  BY <1>2
<1> QED
  BY <1>3 DEF UnderBody

\* One unfolding yields files if the directories below do.
LEMMA UnderBodyType ==
  ASSUME NEW in \in Inputs, NEW n \in Nat, NEW i \in 0 .. n, NEW u,
         \A d \in Deep(in, n, i) : u[d] \in Seq(Files), NEW dir \in Deep(in, n, i + 1)
  PROVE  UnderBody(in, u, dir) \in Seq(Files)
<1> DEFINE s == in.tree[dir]
           l == [k \in DOMAIN s |-> UnderAt(in, u, dir, s[k])]
<1>1. s \in Seq(Entries) /\ Len(s) \in Nat /\ DOMAIN s = 1 .. Len(s) /\ dir \in Text
  BY InputTypes DEF Deep
<1>2. \A k \in 1 .. Len(s) : UnderAt(in, u, dir, s[k]) \in Seq(Files)
  <2> SUFFICES ASSUME NEW k \in 1 .. Len(s)
               PROVE  UnderAt(in, u, dir, s[k]) \in Seq(Files)
    OBVIOUS
  <2> DEFINE e == s[k]
  <2>1. e \in Entries
    BY <1>1
  <2> HIDE DEF e
  <2>2. [dir |-> dir, name |-> e.name] \in Files
    BY <1>1, <2>1 DEF Entries, Files
  <2>3. <<[dir |-> dir, name |-> e.name]>> \in Seq(Files) /\ <<>> \in Seq(Files)
    BY <2>2
  <2>4. CASE Enters(in, dir, e)
    <3>1. JoinPath(dir, e.name) \in Deep(in, n, i)
      BY <2>1, <2>4, EntersDeeper
    <3>2. u[JoinPath(dir, e.name)] \in Seq(Files)
      BY <3>1
    <3> HIDE DEF Files
    <3> QED
      BY <2>3, <3>2, Zenon DEF UnderAt, e
  <2>5. CASE ~Enters(in, dir, e)
    BY <2>3, <2>5, Zenon DEF UnderAt, e
  <2> QED
    BY <2>4, <2>5
<1>3. l \in Seq(Seq(Files))
  <2> DEFINE X == Seq(Files)
             m == Len(s)
  <2>1. m \in Nat /\ \A k \in 1 .. m : UnderAt(in, u, dir, s[k]) \in X
    BY <1>1, <1>2
  <2>2. l = [k \in 1 .. m |-> UnderAt(in, u, dir, s[k])]
    BY <1>1
  <2> HIDE DEF X, m, l, s
  <2>3. [k \in 1 .. m |-> UnderAt(in, u, dir, s[k])] \in Seq(X)
    BY <2>1
  <2> QED
    BY <2>2, <2>3 DEF X
<1> HIDE DEF l
<1>4. FlattenSeq(l) \in Seq(Files)
  BY <1>3, FlattenPrefix
<1> QED
  BY <1>4 DEF UnderBody, l

\* There are only so many directories, so the recursion ends.
LEMMA UnderUnfolds ==
  ASSUME NEW in \in Inputs
  PROVE  /\ UnderOf(in) = [dir \in DOMAIN in.tree |-> UnderBody(in, UnderOf(in), dir)]
         /\ \A dir \in DOMAIN in.tree : UnderOf(in)[dir] \in Seq(Files)
<1> DEFINE D == DOMAIN in.tree
           B(u, d) == UnderBody(in, u, d)
<1>1. PICK n \in Nat : \A d \in D : Len(d) \in Nat /\ Len(d) <= n
  <2> DEFINE S == {Len(d) : d \in D}
  <2>1. \A d \in D : Len(d) \in Nat
    BY InputTypes DEF Text
  <2>2. CASE D = {}
    BY <2>2
  <2>3. CASE D # {}
    <3>1. S \in SUBSET Nat /\ S # {} /\ IsFiniteSet(S)
      <4>1. IsFiniteSet(D)
        BY InputTypes
      <4> DEFINE f == [d \in D |-> Len(d)]
      <4>2. f \in Surjection(D, S)
        BY DEF Surjection
      <4> HIDE DEF D, S, f
      <4>3. IsFiniteSet(S)
        BY <4>1, <4>2, FS_Surjection
      <4> QED
        BY <2>1, <2>3, <4>3 DEF S
    <3>2. Max(S) \in S /\ \A x \in S : x <= Max(S)
      <4> HIDE DEF S
      <4> QED
        BY <3>1, GreatestNumber
    <3> QED
      BY <2>1, <3>1, <3>2
  <2> QED
    BY <2>2, <2>3
<1> DEFINE Dp(i) == Deep(in, n, i)
           m == n + 1
<1>2. Dp(0) = {} /\ Dp(m) = D
  BY <1>1 DEF Deep
<1>3. \A i \in 0 .. n : Dp(i) \subseteq Dp(i + 1) /\ Dp(i + 1) \subseteq D
  BY <1>1 DEF Deep
<1>4. \A i \in 0 .. n : \A u, v : (\A d \in Dp(i) : u[d] = v[d]) =>
                                     \A d \in Dp(i + 1) : B(u, d) = B(v, d)
  BY UnderAgrees
<1>5. \A i \in 0 .. n : \A u : (\A d \in Dp(i) : u[d] \in Seq(Files)) =>
                                  \A d \in Dp(i + 1) : B(u, d) \in Seq(Files)
  BY UnderBodyType
<1> DEFINE Has(i) == \E u : \A d \in Dp(i) : u[d] = B(u, d)
<1> HIDE DEF Dp, B, D
<1>6. Has(m)
  <2> DEFINE G == {i \in 0 .. m : Has(i)}
  <2>1. Has(0)
    BY <1>2
  <2>2. ASSUME NEW i \in 0 .. m - 1, Has(i) PROVE Has(i + 1)
    <3>1. PICK u : \A d \in Dp(i) : u[d] = B(u, d)
      BY <2>2
    <3> DEFINE w == [d \in D |-> B(u, d)]
    <3>2. i \in 0 .. n
      OBVIOUS
    <3>3. \A d \in Dp(i + 1) : w[d] = B(u, d)
      BY <1>3, <3>2
    <3>4. \A d \in Dp(i) : u[d] = w[d]
      BY <1>3, <3>1, <3>2
    <3> HIDE DEF w
    <3>5. \A d \in Dp(i + 1) : B(u, d) = B(w, d)
      BY <1>4, <3>2, <3>4
    <3> QED
      BY <3>3, <3>5
  <2> HIDE DEF Has
  <2>3. 0 \in G /\ \A i \in 0 .. m - 1 : i \in G => i + 1 \in G
    BY <2>1, <2>2
  <2>4. 0 .. m \subseteq G
    <3> HIDE DEF G
    <3> QED
      BY <2>3, IntervalInduction
  <2> QED
    BY <2>4
<1>7. \E v : v = [d \in D |-> B(v, d)]
  <2>1. PICK u : \A d \in D : u[d] = B(u, d)
    BY <1>2, <1>6
  <2> DEFINE v == [d \in D |-> u[d]]
  <2>2. \A d \in Dp(n) : u[d] = v[d]
    BY <1>3
  <2>3. \A d \in D : B(u, d) = B(v, d)
    <3> HIDE DEF v
    <3>1. n \in 0 .. n
      OBVIOUS
    <3> QED
      BY <1>2, <1>4, <2>2, <3>1
  <2>4. v = [d \in D |-> B(v, d)]
    <3>1. \A d \in D : u[d] = B(v, d)
      BY <2>1, <2>3
    <3> HIDE DEF B
    <3> QED
      BY <3>1
  <2> QED
    BY <2>4
<1> DEFINE v == UnderOf(in)
<1>8. v = [d \in D |-> B(v, d)]
  BY <1>7 DEF UnderOf, B, D
<1> HIDE DEF v
<1> DEFINE Typed(i) == \A d \in Dp(i) : v[d] \in Seq(Files)
<1>9. Typed(m)
  <2> DEFINE G == {i \in 0 .. m : Typed(i)}
  <2>1. Typed(0)
    BY <1>2
  <2>2. ASSUME NEW i \in 0 .. m - 1, Typed(i) PROVE Typed(i + 1)
    <3>1. i \in 0 .. n
      OBVIOUS
    <3>2. \A d \in Dp(i + 1) : B(v, d) \in Seq(Files)
      BY <1>5, <2>2, <3>1
    <3>3. \A d \in Dp(i + 1) : v[d] = B(v, d)
      BY <1>3, <1>8, <3>1
    <3> QED
      BY <3>2, <3>3
  <2> HIDE DEF Typed
  <2>3. 0 \in G /\ \A i \in 0 .. m - 1 : i \in G => i + 1 \in G
    BY <2>1, <2>2
  <2>4. 0 .. m \subseteq G
    <3> HIDE DEF G
    <3> QED
      BY <2>3, IntervalInduction
  <2> QED
    BY <2>4
<1> QED
  BY <1>2, <1>8, <1>9 DEF v, B, D

\* What is under a directory is a list of files.
LEMMA UnderType ==
  ASSUME NEW in \in Inputs, NEW root
  PROVE  Under(in, root) \in List(Files)
<1>1. Readable(in, root) => UnderOf(in)[root] \in Seq(Files)
  BY UnderUnfolds DEF Readable
<1>2. <<>> \in Seq(Files)
  OBVIOUS
<1> HIDE DEF Files
<1> QED
  BY <1>1, <1>2, UnderOfIs, Zenon DEF List

\* Every entry stands for the files it leads to.
LEMMA EntryMapType ==
  ASSUME NEW in \in Inputs, NEW dir \in Text
  PROVE  EntryMap(in, dir) \in Maps(Entries, Files)
<1>1. ASSUME NEW e \in Entries PROVE FilesAt(in, dir, e) \in List(Files)
  <2>1. [dir |-> dir, name |-> e.name] \in Files
    BY DEF Entries, Files
  <2> HIDE DEF Files
  <2>2. <<[dir |-> dir, name |-> e.name]>> \in List(Files) /\ <<>> \in List(Files)
    BY <2>1 DEF List
  <2>3. Under(in, JoinPath(dir, e.name)) \in List(Files)
    BY UnderType
  <2> QED
    BY <2>2, <2>3, Zenon DEF FilesAt
<1> DEFINE Y == List(Files)
<1> HIDE DEF Y
<1>2. EntryMap(in, dir) \in [Entries -> Y]
  BY <1>1 DEF EntryMap, Y
<1> QED
  BY <1>2 DEF Maps, Y, List

\* Every directory being walked stands for the files left in it.
LEMMA FrameMapType ==
  ASSUME NEW in \in Inputs
  PROVE  FrameMap(in) \in Maps(Frames, Files)
<1>1. ASSUME NEW frame \in Frames PROVE FilesLeft(in, frame) \in List(Files)
  <2>1. frame.dir \in Text /\ frame.rest \in List(Entries)
    BY DEF Frames, List
  <2>2. EntryMap(in, frame.dir) \in Maps(Entries, Files)
    BY <2>1, EntryMapType
  <2> QED
    BY <2>1, <2>2, FlatMapType DEF FilesLeft
<1> DEFINE Y == List(Files)
<1> HIDE DEF Y
<1>2. FrameMap(in) \in [Frames -> Y]
  BY <1>1 DEF FrameMap, Y
<1> QED
  BY <1>2 DEF Maps, Y, List

\* What is under a directory is what is left of it when it is opened.
LEMMA OpenedLeft ==
  ASSUME NEW in \in Inputs, NEW dir, Readable(in, dir)
  PROVE  Opened(in, dir) \in Frames /\ FilesLeft(in, Opened(in, dir)) = Under(in, dir)
<1> DEFINE s == in.tree[dir]
<1>1. dir \in DOMAIN in.tree /\ dir \in Text /\ s \in Seq(Entries)
  BY InputTypes DEF Readable
<1>2. Opened(in, dir) \in Frames /\ Opened(in, dir).dir = dir /\ Opened(in, dir).rest = s
  BY <1>1 DEF Opened, Frames
<1>3. Under(in, dir) = FlattenSeq([i \in DOMAIN s |-> UnderAt(in, UnderOf(in), dir, s[i])])
  <2>1. UnderOf(in)[dir] = UnderBody(in, UnderOf(in), dir)
    BY <1>1, UnderUnfolds
  <2> QED
    BY <2>1, UnderOfIs DEF UnderBody
<1>4. \A i \in DOMAIN s : UnderAt(in, UnderOf(in), dir, s[i]) = EntryMap(in, dir)[s[i]]
  <2> SUFFICES ASSUME NEW i \in DOMAIN s
               PROVE  UnderAt(in, UnderOf(in), dir, s[i]) = EntryMap(in, dir)[s[i]]
    OBVIOUS
  <2> DEFINE e == s[i]
  <2>1. e \in Entries
    BY <1>1
  <2> HIDE DEF e
  <2>2. EntryMap(in, dir)[e] = FilesAt(in, dir, e)
    BY <2>1 DEF EntryMap
  <2>3. Enters(in, dir, e) => Under(in, JoinPath(dir, e.name)) = UnderOf(in)[JoinPath(dir, e.name)]
    BY UnderOfIs DEF Enters
  <2>4. UnderAt(in, UnderOf(in), dir, e) = FilesAt(in, dir, e)
    BY <2>3, Zenon DEF UnderAt, FilesAt
  <2> QED
    BY <2>2, <2>4 DEF e
<1>5. [i \in DOMAIN s |-> UnderAt(in, UnderOf(in), dir, s[i])] = [i \in DOMAIN s |-> EntryMap(in, dir)[s[i]]]
  BY <1>4
<1> HIDE DEF s
<1> QED
  BY <1>2, <1>3, <1>5 DEF FilesLeft, FlatMap

\* The innermost directory first.
LEMMA RemainingHead ==
  ASSUME NEW in \in Inputs, NEW stk \in List(Frames), stk # <<>>
  PROVE  /\ Head(stk) \in Frames /\ Tail(stk) \in List(Frames)
         /\ FilesLeft(in, Head(stk)) \in List(Files)
         /\ Remaining(in, Tail(stk)) \in List(Files)
         /\ Remaining(in, stk) = FilesLeft(in, Head(stk)) \o Remaining(in, Tail(stk))
<1>1. Head(stk) \in Frames /\ Tail(stk) \in List(Frames)
  BY ListHead
<1>2. FrameMap(in) \in Maps(Frames, Files)
  BY FrameMapType
<1>3. FrameMap(in)[Head(stk)] = FilesLeft(in, Head(stk))
  BY <1>1 DEF FrameMap
<1>4. FrameMap(in)[Head(stk)] \in List(Files)
  BY <1>1, <1>2, FlatMapOne
<1>5. Remaining(in, Tail(stk)) \in List(Files)
  BY <1>1, <1>2, FlatMapType DEF Remaining
<1>6. Remaining(in, stk) = FrameMap(in)[Head(stk)] \o Remaining(in, Tail(stk))
  BY <1>2, FlatMapHead DEF Remaining
<1> QED
  BY <1>1, <1>3, <1>4, <1>5, <1>6

\* What is left of the innermost directory comes first.
LEMMA RemainingCons ==
  ASSUME NEW in \in Inputs, NEW stk \in List(Frames), NEW frame \in Frames
  PROVE  /\ <<frame>> \o stk \in List(Frames)
         /\ Remaining(in, <<frame>> \o stk) = FilesLeft(in, frame) \o Remaining(in, stk)
         /\ FilesLeft(in, frame) \in List(Files) /\ Remaining(in, stk) \in List(Files)
<1> DEFINE s == <<frame>> \o stk
<1>1. s \in Seq(Frames) /\ s # <<>> /\ Head(s) = frame /\ Tail(s) = stk
  <2> HIDE DEF Frames
  <2>1. stk \in Seq(Frames)
    BY DEF List
  <2> QED
    BY <2>1
<1> HIDE DEF s
<1>2. s \in List(Frames)
  BY <1>1 DEF List
<1> QED
  BY <1>1, <1>2, RemainingHead DEF s

\* When no directory is open nothing is left.
LEMMA RemainingNone ==
  ASSUME NEW in
  PROVE  Remaining(in, <<>>) = <<>>
BY FlatMapEmpty DEF Remaining

\* A directory with an entry less.
LEMMA FilesLeftHead ==
  ASSUME NEW in \in Inputs, NEW frame \in Frames, frame.rest # <<>>
  PROVE  LET e == Head(frame.rest)
             less == [dir |-> frame.dir, rest |-> Tail(frame.rest)] IN
         /\ e \in Entries /\ less \in Frames
         /\ FilesAt(in, frame.dir, e) \in List(Files)
         /\ FilesLeft(in, frame) = FilesAt(in, frame.dir, e) \o FilesLeft(in, less)
<1> DEFINE e == Head(frame.rest)
           r == Tail(frame.rest)
           less == [dir |-> frame.dir, rest |-> r]
           f == EntryMap(in, frame.dir)
<1>1. frame.dir \in Text /\ frame.rest \in List(Entries)
  BY DEF Frames, List
<1>2. f \in Maps(Entries, Files)
  BY <1>1, EntryMapType
<1>3. e \in Entries /\ r \in List(Entries)
  BY <1>1, ListHead
<1>4. FlatMap(f, frame.rest) = f[e] \o FlatMap(f, r) /\ f[e] \in List(Files)
  <2>1. f[e] \in List(Files)
    <3> HIDE DEF e, f
    <3> QED
      BY <1>2, <1>3, FlatMapOne
  <2> HIDE DEF f
  <2>2. FlatMap(f, frame.rest) = f[e] \o FlatMap(f, r)
    BY <1>1, <1>2, FlatMapHead
  <2> QED
    BY <2>1, <2>2
<1>5. f[e] = FilesAt(in, frame.dir, e)
  BY <1>3 DEF EntryMap
<1> HIDE DEF f
<1>6. less \in Frames /\ less.dir = frame.dir /\ less.rest = r
  BY <1>1, <1>3 DEF Frames, List
<1>7. FilesLeft(in, less) = FlatMap(f, r) /\ FilesLeft(in, frame) = FlatMap(f, frame.rest)
  BY <1>6 DEF FilesLeft, f
<1> QED
  BY <1>3, <1>4, <1>5, <1>6, <1>7

\* Entering or passing a directory leaves the files that remain.
LEMMA WalkRemains ==
  ASSUME input \in Inputs, stack \in List(Frames), Walk
  PROVE  /\ stack' \in List(Frames) /\ stack' # <<>>
         /\ Remaining(input, stack') = Remaining(input, stack)
<1> DEFINE top == Head(stack)
           e == Head(top.rest)
           less == [dir |-> top.dir, rest |-> Tail(top.rest)]
           below == Tail(stack)
           path == JoinPath(top.dir, e.name)
           adv == <<less>> \o below
<1>1. /\ stack # <<>> /\ top.rest # <<>> /\ e.dir
      /\ stack' = IF Enters(input, top.dir, e) THEN <<Opened(input, path)>> \o adv ELSE adv
  BY DEF Walk, Top, Entry, Path, Advanced
<1>2. /\ top \in Frames /\ below \in List(Frames)
      /\ FilesLeft(input, top) \in List(Files) /\ Remaining(input, below) \in List(Files)
      /\ Remaining(input, stack) = FilesLeft(input, top) \o Remaining(input, below)
  BY <1>1, RemainingHead
<1> HIDE DEF top, below
<1>3. /\ e \in Entries /\ less \in Frames
      /\ FilesAt(input, top.dir, e) \in List(Files)
      /\ FilesLeft(input, top) = FilesAt(input, top.dir, e) \o FilesLeft(input, less)
  BY <1>1, <1>2, FilesLeftHead
<1> HIDE DEF e, less
<1>4. /\ adv \in List(Frames)
      /\ Remaining(input, adv) = FilesLeft(input, less) \o Remaining(input, below)
      /\ FilesLeft(input, less) \in List(Files)
  BY <1>2, <1>3, RemainingCons
<1>4a. adv # <<>>
  <2> HIDE DEF Frames
  <2>1. below \in Seq(Frames)
    BY <1>2 DEF List
  <2> QED
    BY <1>3, <2>1
<1> HIDE DEF adv
<1>5. Remaining(input, stack) = FilesAt(input, top.dir, e) \o Remaining(input, adv)
  <2>1. (FilesAt(input, top.dir, e) \o FilesLeft(input, less)) \o Remaining(input, below)
          = FilesAt(input, top.dir, e) \o (FilesLeft(input, less) \o Remaining(input, below))
    <3> DEFINE first == FilesAt(input, top.dir, e)
               second == FilesLeft(input, less)
               third == Remaining(input, below)
    <3>1. first \in List(Files) /\ second \in List(Files) /\ third \in List(Files)
      BY <1>2, <1>3, <1>4
    <3> HIDE DEF first, second, third
    <3>2. (first \o second) \o third = first \o (second \o third)
      BY <3>1, ListAssociative, SMTT(30)
    <3> QED
      BY <3>2 DEF first, second, third
  <2> QED
    BY <1>2, <1>3, <1>4, <2>1
<1>6. Remaining(input, adv) \in List(Files)
  BY <1>2, <1>4, ListConcat
<1>7. CASE Enters(input, top.dir, e)
  <2>1. Readable(input, path)
    BY <1>7 DEF Enters
  <2>2. Opened(input, path) \in Frames /\ FilesLeft(input, Opened(input, path)) = Under(input, path)
    BY <2>1, OpenedLeft
  <2>3. FilesAt(input, top.dir, e) = Under(input, path)
    BY <1>1, <1>7 DEF FilesAt
  <2> DEFINE fr == Opened(input, path)
             new == <<fr>> \o adv
  <2> HIDE DEF path, fr
  <2>4. /\ new \in List(Frames)
        /\ Remaining(input, new) = FilesLeft(input, fr) \o Remaining(input, adv)
    BY <1>4, <2>2, RemainingCons DEF fr
  <2>5. new # <<>>
    <3> HIDE DEF Frames
    <3>1. adv \in Seq(Frames) /\ fr \in Frames
      BY <1>4, <2>2 DEF List, fr
    <3> QED
      BY <3>1
  <2>6. stack' = new
    BY <1>1, <1>7 DEF path, fr
  <2> HIDE DEF new
  <2> QED
    BY <1>5, <2>2, <2>3, <2>4, <2>5, <2>6 DEF fr
<1>8. CASE ~Enters(input, top.dir, e)
  <2>1. FilesAt(input, top.dir, e) = <<>>
    BY <1>1, <1>8 DEF FilesAt
  <2>2. <<>> \o Remaining(input, adv) = Remaining(input, adv)
    BY <1>6, ListConcat
  <2> QED
    BY <1>1, <1>4, <1>4a, <1>5, <1>8, <2>1, <2>2
<1> QED
  BY <1>7, <1>8

\* Nothing is left of a directory that is left.
LEMMA LeaveRemains ==
  ASSUME input \in Inputs, stack \in List(Frames), NEW next, Leave(next)
  PROVE  /\ stack' \in List(Frames)
         /\ Remaining(input, stack') = Remaining(input, stack)
         /\ Len(stack) = 1 => stack' = <<>> /\ Remaining(input, stack) = <<>>
         /\ Len(stack) # 1 => stack' # <<>>
<1> DEFINE top == Head(stack)
<1>1. stack # <<>> /\ top.rest = <<>> /\ stack' = Tail(stack)
  BY DEF Leave, Top
<1>2. /\ Tail(stack) \in List(Frames) /\ Remaining(input, Tail(stack)) \in List(Files)
      /\ Remaining(input, stack) = FilesLeft(input, top) \o Remaining(input, Tail(stack))
  BY <1>1, RemainingHead
<1>3. FilesLeft(input, top) = <<>>
  BY <1>1, FlatMapEmpty DEF FilesLeft
<1>4. Remaining(input, stack) = Remaining(input, Tail(stack))
  BY <1>2, <1>3, ListConcat
<1>5. (Len(stack) = 1 => Tail(stack) = <<>>) /\ (Len(stack) # 1 => Tail(stack) # <<>>)
  <2> HIDE DEF Frames
  <2>1. stack \in Seq(Frames) /\ stack # <<>>
    BY <1>1 DEF List
  <2>2. Len(stack) \in Nat /\ Tail(stack) \in Seq(Frames) /\ Len(Tail(stack)) = Len(stack) - 1
    BY <2>1
  <2>3. Len(Tail(stack)) = 0 <=> Tail(stack) = <<>>
    BY <2>2, EmptySeq
  <2> QED
    BY <2>2, <2>3
<1> QED
  BY <1>1, <1>2, <1>4, <1>5, RemainingNone

\* A file that is looked at is the first of those that remain.
LEMMA FileRemains ==
  ASSUME input \in Inputs, stack \in List(Frames), stack # <<>>, Top.rest # <<>>, ~Entry.dir,
         stack' = Advanced
  PROVE  LET f == [dir |-> Top.dir, name |-> Entry.name] IN
         /\ stack' \in List(Frames) /\ stack' # <<>>
         /\ Entry \in Entries /\ Top.dir \in Text /\ f \in Files
         /\ Remaining(input, stack') \in List(Files)
         /\ Remaining(input, stack) = <<f>> \o Remaining(input, stack')
<1> DEFINE top == Head(stack)
           e == Head(top.rest)
           less == [dir |-> top.dir, rest |-> Tail(top.rest)]
           below == Tail(stack)
           adv == <<less>> \o below
           f == [dir |-> top.dir, name |-> e.name]
<1>1. stack # <<>> /\ top.rest # <<>> /\ ~e.dir /\ stack' = adv
  BY DEF Top, Entry, Advanced
<1>2. /\ top \in Frames /\ below \in List(Frames)
      /\ FilesLeft(input, top) \in List(Files) /\ Remaining(input, below) \in List(Files)
      /\ Remaining(input, stack) = FilesLeft(input, top) \o Remaining(input, below)
  BY <1>1, RemainingHead
<1> HIDE DEF top, below
<1>3. /\ e \in Entries /\ less \in Frames
      /\ FilesAt(input, top.dir, e) \in List(Files)
      /\ FilesLeft(input, top) = FilesAt(input, top.dir, e) \o FilesLeft(input, less)
  BY <1>1, <1>2, FilesLeftHead
<1> HIDE DEF e, less
<1>4. /\ adv \in List(Frames)
      /\ Remaining(input, adv) = FilesLeft(input, less) \o Remaining(input, below)
      /\ FilesLeft(input, less) \in List(Files)
  BY <1>2, <1>3, RemainingCons
<1>5. adv # <<>>
  <2> HIDE DEF Frames
  <2>1. below \in Seq(Frames)
    BY <1>2 DEF List
  <2> QED
    BY <1>3, <2>1
<1> HIDE DEF adv
<1>6. Remaining(input, stack) = FilesAt(input, top.dir, e) \o Remaining(input, adv)
  <2>1. (FilesAt(input, top.dir, e) \o FilesLeft(input, less)) \o Remaining(input, below)
          = FilesAt(input, top.dir, e) \o (FilesLeft(input, less) \o Remaining(input, below))
    <3> DEFINE first == FilesAt(input, top.dir, e)
               second == FilesLeft(input, less)
               third == Remaining(input, below)
    <3>1. first \in List(Files) /\ second \in List(Files) /\ third \in List(Files)
      BY <1>2, <1>3, <1>4
    <3> HIDE DEF first, second, third
    <3>2. (first \o second) \o third = first \o (second \o third)
      BY <3>1, ListAssociative
    <3> QED
      BY <3>2 DEF first, second, third
  <2> QED
    BY <1>2, <1>3, <1>4, <2>1
<1>7. Remaining(input, adv) \in List(Files)
  BY <1>2, <1>4, ListConcat
<1>8. FilesAt(input, top.dir, e) = <<f>>
  BY <1>1 DEF FilesAt
<1>9. top.dir \in Text /\ f \in Files
  BY <1>2, <1>3 DEF Frames, Entries, Files
<1>10. Top = top /\ Entry = e
  BY DEF Top, Entry, top, e
<1> HIDE DEF f
<1> QED
  BY <1>1, <1>3, <1>4, <1>5, <1>6, <1>7, <1>8, <1>9, <1>10 DEF f

-----------------------------------------------------------------------------
(* Keys                                                                    *)

Keys     == ToSet(KeyOrder)
Contexts == {ctx \in UNION {[D -> Text] : D \in SUBSET Keys} : IsContext(ctx)}
UnitRecs == [name : Text, ctx : Contexts, with : Withs, todo : List(Keys), demand : BOOLEAN]
Services(in) == {Service(in.source, c, n, d) : c \in Contexts, n \in Text, d \in BOOLEAN}

\* The keys that are expanded, each once.
LEMMA KeysAre ==
  /\ Keys = {"exec", "args", "type", "restart", "requires", "after",
             "stdin", "stdout", "stderr", "stdlog", "stop_timeout_ms"}
  /\ KeyOrder \in Seq(Keys) /\ IsInjective(KeyOrder)
<1>1. Keys = {"exec", "args", "type", "restart", "requires", "after",
              "stdin", "stdout", "stderr", "stdlog", "stop_timeout_ms"}
  <2>1. DOMAIN KeyOrder = 1 .. 11
    BY DEF KeyOrder
  <2>2. 1 .. 11 = {1, 2, 3, 4, 5, 6, 7, 8, 9, 10, 11}
    OBVIOUS
  <2>3. Keys = {KeyOrder[i] : i \in {1, 2, 3, 4, 5, 6, 7, 8, 9, 10, 11}}
    BY <2>1, <2>2 DEF Keys, ToSet
  <2>4. /\ KeyOrder[1] = "exec" /\ KeyOrder[2] = "args" /\ KeyOrder[3] = "type"
        /\ KeyOrder[4] = "restart" /\ KeyOrder[5] = "requires" /\ KeyOrder[6] = "after"
        /\ KeyOrder[7] = "stdin" /\ KeyOrder[8] = "stdout" /\ KeyOrder[9] = "stderr"
        /\ KeyOrder[10] = "stdlog" /\ KeyOrder[11] = "stop_timeout_ms"
    BY DEF KeyOrder
  <2> QED
    BY <2>3, <2>4
<1>2. KeyOrder \in Seq(Keys)
  BY <1>1 DEF KeyOrder
<1>3. IsInjective(KeyOrder)
  BY DEF IsInjective, KeyOrder
<1> QED
  BY <1>1, <1>2, <1>3

\* The set of contexts is the one the assumption on Inputs describes.
LEMMA ContextIs ==
  ASSUME NEW ctx
  PROVE  ctx \in Contexts <=> IsContext(ctx)
<1>1. ASSUME IsContext(ctx) PROVE ctx \in Contexts
  <2> DEFINE D == DOMAIN ctx
  <2>1. ctx = [k \in D |-> ctx[k]] /\ D \subseteq Keys /\ \A k \in D : ctx[k] \in Text
    BY <1>1 DEF IsContext, Keys
  <2> HIDE DEF D
  <2>2. [k \in D |-> ctx[k]] \in [D -> Text]
    BY <2>1
  <2>3. ctx \in [D -> Text] /\ D \in SUBSET Keys
    BY <2>1, <2>2
  <2> QED
    BY <1>1, <2>3 DEF Contexts
<1> QED
  BY <1>1 DEF Contexts

\* The keys of a context, and what they are set to.
LEMMA ContextShape ==
  ASSUME NEW ctx \in Contexts
  PROVE  /\ ctx = [k \in DOMAIN ctx |-> ctx[k]]
         /\ DOMAIN ctx \subseteq Keys
         /\ \A k \in DOMAIN ctx : ctx[k] \in Text
<1>1. IsContext(ctx)
  BY ContextIs
<1> QED
  BY <1>1 DEF IsContext, Keys

\* A function with the right values is one.
LEMMA ContextMade ==
  ASSUME NEW ctx, ctx = [k \in DOMAIN ctx |-> ctx[k]], DOMAIN ctx \subseteq Keys,
         \A k \in DOMAIN ctx : ctx[k] \in Text
  PROVE  ctx \in Contexts
<1>1. IsContext(ctx)
  BY DEF IsContext, Keys
<1> QED
  BY <1>1, ContextIs

\* A file and its template make a context.
LEMMA OverrideContext ==
  ASSUME NEW f \in Contexts, NEW g \in Contexts
  PROVE  Override(f, g) \in Contexts
<1> DEFINE o == Override(f, g)
<1>1. /\ DOMAIN f \subseteq Keys /\ DOMAIN g \subseteq Keys
      /\ \A k \in DOMAIN f : f[k] \in Text
      /\ \A k \in DOMAIN g : g[k] \in Text
  BY ContextShape
<1>2. DOMAIN o = DOMAIN f \cup DOMAIN g /\ o = [k \in DOMAIN o |-> o[k]]
      /\ \A k \in DOMAIN o : o[k] = IF k \in DOMAIN f THEN f[k] ELSE g[k]
  BY DEF Override
<1> HIDE DEF o
<1>3. o \in Contexts
  <2>1. DOMAIN o \subseteq Keys
    BY <1>1, <1>2
  <2>2. \A k \in DOMAIN o : o[k] \in Text
    BY <1>1, <1>2
  <2> QED
    BY <1>2, <2>1, <2>2, ContextMade
<1> QED
  BY <1>3 DEF o

\* What the keys of a unit come to once those still to do are expanded.
Full(u) == [k \in DOMAIN u.ctx |->
              IF k \in ToSet(u.todo) THEN Meaning(u.ctx[k], u.with) ELSE u.ctx[k]]

\* The keys with everything expanded are a context.
LEMMA FullContext ==
  ASSUME NEW u \in UnitRecs
  PROVE  Full(u) \in Contexts /\ DOMAIN Full(u) = DOMAIN u.ctx
<1> DEFINE f == Full(u)
<1>1. u.ctx \in Contexts /\ u.with \in Withs /\ u.todo \in List(Keys)
  BY DEF UnitRecs
<1>2. /\ DOMAIN u.ctx \subseteq Keys
      /\ \A k \in DOMAIN u.ctx : u.ctx[k] \in Text
  BY <1>1, ContextShape
<1>3. /\ DOMAIN f = DOMAIN u.ctx /\ f = [k \in DOMAIN f |-> f[k]]
      /\ \A k \in DOMAIN f : f[k] = IF k \in ToSet(u.todo) THEN Meaning(u.ctx[k], u.with) ELSE u.ctx[k]
  BY DEF Full
<1> HIDE DEF f
<1>4. \A k \in DOMAIN f : f[k] \in Text
  BY <1>1, <1>2, <1>3, MeaningType
<1>5. f \in Contexts
  BY <1>2, <1>3, <1>4, ContextMade
<1> QED
  BY <1>3, <1>5 DEF f

\* The keys to expand are those with a `%`.
LEMMA ToExpandIs ==
  ASSUME NEW ctx \in Contexts
  PROVE  /\ ToExpand(ctx) \in List(Keys) /\ IsInjective(ToExpand(ctx))
         /\ ToSet(ToExpand(ctx)) \subseteq DOMAIN ctx
         /\ \A k \in DOMAIN ctx : k \notin ToSet(ToExpand(ctx)) => ~Contains(ctx[k], "%")
<1> DEFINE S == {k \in DOMAIN ctx : Contains(ctx[k], "%")}
           t == Keep(KeyOrder, S)
<1>1. DOMAIN ctx \subseteq Keys
  BY ContextShape
<1>2. KeyOrder \in Seq(Keys) /\ IsInjective(KeyOrder) /\ ToSet(KeyOrder) = Keys
  BY KeysAre DEF Keys
<1>3. t = ToExpand(ctx)
  BY DEF ToExpand
<1>4. t \in Seq(Keys) /\ ToSet(t) = Keys \cap S /\ IsInjective(t)
  <2> HIDE DEF S
  <2> QED
    BY <1>2, KeepFacts
<1> HIDE DEF t
<1>5. t \in List(Keys)
  BY <1>4 DEF List
<1> QED
  BY <1>1, <1>3, <1>4, <1>5

-----------------------------------------------------------------------------
(* Units                                                                   *)

\* The unit that is being made, once it is finished.
Making(in, u) ==
    IF "exec" \in DOMAIN u.ctx THEN <<Service(in.source, Full(u), u.name, u.demand)>> ELSE <<>>

Fresh(name, ctx, with, demand) ==
    [name |-> name, ctx |-> ctx, with |-> with, todo |-> ToExpand(ctx), demand |-> demand]

\* A unit nothing has been expanded in yet.
LEMMA FreshType ==
  ASSUME NEW name \in Text, NEW ctx \in Contexts, NEW with \in Withs, NEW demand \in BOOLEAN
  PROVE  Fresh(name, ctx, with, demand) \in UnitRecs
BY ToExpandIs DEF Fresh, UnitRecs

\* A unit in hand becomes one service at most.
LEMMA MakingType ==
  ASSUME NEW in, NEW u \in UnitRecs
  PROVE  Making(in, u) \in List(Services(in))
<1> DEFINE s == Service(in.source, Full(u), u.name, u.demand)
<1>1. s \in Services(in)
  <2>1. Full(u) \in Contexts /\ u.name \in Text /\ u.demand \in BOOLEAN
    BY FullContext DEF UnitRecs
  <2> QED
    BY <2>1 DEF Services
<1> HIDE DEF s
<1>2. <<s>> \in List(Services(in)) /\ <<>> \in List(Services(in))
  BY <1>1 DEF List
<1> QED
  BY <1>2, Zenon DEF Making, s

\* Words are what the code's tokens are, so a service is built of either.
OfWords(source, ctx, name, demand) ==
    LET args == Words(Get(ctx, "args", <<>>), Blank)
        list(k) == Words(Get(ctx, k, <<>>), Blank \cup {","})
    IN [Service(source, ctx, name, demand) EXCEPT
          !.argc = 1 + Len(args), !.argv = <<ctx["exec"]>> \o args,
          !.required = list("requires"), !.after = list("after")]

\* A service may as well be described by the words of its arguments and lists.
LEMMA ServiceWords ==
  ASSUME NEW source, NEW ctx \in Contexts, NEW name, NEW demand
  PROVE  OfWords(source, ctx, name, demand) = Service(source, ctx, name, demand)
<1> DEFINE get(k) == Get(ctx, k, <<>>)
           r == Service(source, ctx, name, demand)
<1>1. ASSUME NEW k PROVE get(k) \in Seq(Char)
  <2>1. k \in DOMAIN ctx => ctx[k] \in Text
    BY <1>1, ContextShape
  <2>2. <<>> \in Seq(Char)
    OBVIOUS
  <2> QED
    BY <2>1, <2>2, Zenon DEF Get, Text
<1>2. /\ get("args") \in Seq(Char) /\ get("requires") \in Seq(Char) /\ get("after") \in Seq(Char)
  BY <1>1
<1> HIDE DEF get
<1>3. /\ Tokens(get("args"), Blank) = Words(get("args"), Blank)
      /\ TokenCount(get("args"), Blank) = Len(Words(get("args"), Blank))
      /\ Tokens(get("requires"), Blank \cup {","}) = Words(get("requires"), Blank \cup {","})
      /\ Tokens(get("after"), Blank \cup {","}) = Words(get("after"), Blank \cup {","})
  BY <1>2, TokensAreWords
<1>4. /\ r.argc = 1 + Len(Words(get("args"), Blank))
      /\ r.argv = <<ctx["exec"]>> \o Words(get("args"), Blank)
      /\ r.required = Words(get("requires"), Blank \cup {","})
      /\ r.after = Words(get("after"), Blank \cup {","})
  BY <1>3 DEF Service, NameList, get
<1>5. [r EXCEPT !.argc = r.argc, !.argv = r.argv, !.required = r.required, !.after = r.after] = r
  BY DEF Service
<1> HIDE DEF r
<1> QED
  BY <1>4, <1>5 DEF r, get, OfWords

\* The unit the keys of a file make is the one the code makes of them.
LEMMA UnitOfIs ==
  ASSUME NEW in, NEW ctx \in Contexts, NEW name \in Text, NEW with \in Withs, NEW demand \in BOOLEAN
  PROVE  UnitOf(in, ctx, name, with, demand) = Making(in, Fresh(name, ctx, with, demand))
<1> DEFINE u == Fresh(name, ctx, with, demand)
           says == [k \in DOMAIN ctx |-> Meaning(ctx[k], with)]
<1>1. /\ u \in UnitRecs /\ u.ctx = ctx /\ u.with = with /\ u.todo = ToExpand(ctx)
      /\ u.name = name /\ u.demand = demand
  BY FreshType DEF Fresh
<1>2. \A k \in DOMAIN ctx : k \notin ToSet(ToExpand(ctx)) => Meaning(ctx[k], with) = ctx[k]
  <2> SUFFICES ASSUME NEW k \in DOMAIN ctx, k \notin ToSet(ToExpand(ctx))
               PROVE  Meaning(ctx[k], with) = ctx[k]
    OBVIOUS
  <2>1. ctx[k] \in Text /\ ~Contains(ctx[k], "%")
    BY ContextShape, ToExpandIs
  <2> QED
    BY <2>1, MeaningPlain
<1>3. Full(u) = [k \in DOMAIN ctx |->
                   IF k \in ToSet(ToExpand(ctx)) THEN Meaning(ctx[k], with) ELSE ctx[k]]
  BY <1>1 DEF Full
<1>4. Full(u) = says
  BY <1>2, <1>3
<1>5. says \in Contexts
  BY <1>1, <1>4, FullContext
<1> HIDE DEF u
<1>6. CASE "exec" \notin DOMAIN ctx
  <2>1. UnitOf(in, ctx, name, with, demand) = <<>>
    BY <1>6, Zenon DEF UnitOf
  <2>2. Making(in, u) = <<>>
    BY <1>1, <1>6 DEF Making
  <2> QED
    BY <2>1, <2>2 DEF u
<1>7. CASE "exec" \in DOMAIN ctx
  <2>1. UnitOf(in, ctx, name, with, demand) = <<OfWords(in.source, says, name, demand)>>
    BY <1>7, Zenon DEF UnitOf, OfWords
  <2> HIDE DEF says
  <2>2. OfWords(in.source, says, name, demand) = Service(in.source, says, name, demand)
    BY <1>5, ServiceWords
  <2>3. Making(in, u) = <<Service(in.source, says, name, demand)>>
    BY <1>1, <1>4, <1>7 DEF Making
  <2> QED
    BY <2>1, <2>2, <2>3 DEF u
<1> QED
  BY <1>6, <1>7 DEF u

-----------------------------------------------------------------------------
(* Names and what placeholders stand for                                   *)

\* The symbols and texts the code itself brings in.
LEMMA Chars ==
  /\ "@" \in Char /\ "_" \in Char /\ "%" \in Char /\ "root" \in Char /\ "mount" \in Char
  /\ {"i", "I", "p", "n", "v", "m", "%"} \subseteq Char /\ {"m"} \subseteq Char
  /\ {"name"} \subseteq Char /\ ".ini" \in Char
  /\ <<"@">> \in Text /\ <<"%">> \in Text /\ <<"root">> \in Text /\ <<"mount">> \in Text
  /\ <<"@", ".ini">> \in Text /\ <<>> \in Text
<1>1. /\ "@" \in Char /\ "_" \in Char /\ "%" \in Char /\ "root" \in Char /\ "mount" \in Char
      /\ {"i", "I", "p", "n", "v", "m", "%"} \subseteq Char /\ {"m"} \subseteq Char
      /\ {"name"} \subseteq Char /\ ".ini" \in Char
  BY CharAssumption
<1>2. ASSUME NEW c \in Char
      PROVE  <<c>> \in Text
  BY DEF Text
<1>3. ASSUME NEW c \in Char, NEW d \in Char
      PROVE  <<c, d>> \in Text
  BY DEF Text
<1>4. <<>> \in Text
  BY DEF Text
<1> HIDE DEF Text
<1> QED
  BY <1>1, <1>2, <1>3, <1>4

\* The template, and the instance, are before and behind the first @.
LEMMA SplitIs ==
  ASSUME NEW name \in Text
  PROVE  /\ Ats(name) = {} => Split(name).prefix = NONE
         /\ Ats(name) # {} =>
              LET at == Min(Ats(name)) IN
              /\ at \in 1 .. Len(name) /\ at \in Ats(name) /\ \A p \in Ats(name) : at <= p
              /\ Split(name).prefix = Before(name, at) /\ Split(name).instance = Behind(name, at)
              /\ Before(name, at) \in Text /\ Behind(name, at) \in Text
              /\ UnitName(Before(name, at), Behind(name, at)) = name
              /\ Before(name, at) = <<>> <=> at = 1
              /\ Behind(name, at) = <<>> <=> at = Len(name)
<1>1. name \in Seq(Char) /\ Len(name) \in Nat /\ DOMAIN name = 1 .. Len(name)
  BY DEF Text
<1>2. CASE Ats(name) = {}
  BY <1>2 DEF Split
<1>3. CASE Ats(name) # {}
  <2> DEFINE A == Ats(name)
             at == Min(A)
             n == Len(name)
             a == SubSeq(name, 1, at - 1)
             b == SubSeq(name, at + 1, n)
  <2>1. A \in SUBSET Nat /\ A \subseteq 1 .. n
    BY <1>1 DEF Ats
  <2>2. at \in A /\ \A p \in A : at <= p
    <3> HIDE DEF A
    <3> QED
      BY <1>3, <2>1, LeastIs DEF A
  <2>3. at \in 1 .. n /\ name[at] = "@"
    BY <2>1, <2>2 DEF Ats
  <2> HIDE DEF at
  <2>4. a \in Seq(Char) /\ b \in Seq(Char) /\ Len(a) = at - 1 /\ Len(b) = n - at
    <3>1. at \in Nat /\ 1 <= at /\ at <= n /\ n \in Nat
      BY <1>1, <2>3
    <3>2. SubSeq(name, 1, at - 1) \in Seq(Char) /\ Len(SubSeq(name, 1, at - 1)) = at - 1
      BY <1>1, <3>1, SubSeqProperties
    <3>3. SubSeq(name, at + 1, n) \in Seq(Char) /\ Len(SubSeq(name, at + 1, n)) = n - at
      <4>1. at + 1 \in 1 .. n + 1 /\ n \in at + 1 - 1 .. n /\ n - (at + 1) + 1 = n - at
        BY <3>1
      <4> QED
        BY <1>1, <4>1, SubSeqProperties
    <3> QED
      BY <3>2, <3>3
  <2>5. (a = <<>> <=> at = 1) /\ (b = <<>> <=> at = n)
    <3>1. (a = <<>> <=> Len(a) = 0) /\ (b = <<>> <=> Len(b) = 0)
      <4> HIDE DEF a, b
      <4> QED
        BY <2>4, EmptySeq
    <3>2. at \in Nat /\ n \in Nat
      BY <1>1, <2>3
    <3> HIDE DEF a, b, n
    <3> QED
      BY <2>4, <3>1, <3>2
  <2>6. (a \o <<"@">>) \o b = name
    <3>1. SubSeq(name, at, n) = <<name[at]>> \o b
      BY <1>1, <2>3, SubSeqRecursiveFirst
    <3>2. a \o SubSeq(name, at, n) = name
      <4>1. 1 \in 1 .. n + 1 /\ at - 1 \in 1 - 1 .. n /\ n \in at - 1 .. n /\ (at - 1) + 1 = at
        BY <1>1, <2>3
      <4>2. a \o SubSeq(name, (at - 1) + 1, n) = SubSeq(name, 1, n)
        BY <1>1, <4>1, ConcatAdjacentSubSeq
      <4> QED
        BY <1>1, <4>1, <4>2, SubSeqFull
    <3>3. <<"@">> \in Seq(Char)
      BY Chars DEF Text
    <3> HIDE DEF a, b
    <3>4. (a \o <<"@">>) \o b = a \o (<<"@">> \o b)
      BY <2>4, <3>3, ConcatAssociative
    <3> QED
      BY <2>3, <3>1, <3>2, <3>4
  <2>7. Split(name).prefix = Before(name, at) /\ Split(name).instance = Behind(name, at)
    BY <1>3 DEF Split, at
  <2>8. Before(name, at) = a /\ Behind(name, at) = b
    BY DEF Before, Behind
  <2>9. UnitName(a, b) = (a \o <<"@">>) \o b
    BY DEF UnitName
  <2> HIDE DEF a, b
  <2> QED
    BY <1>3, <2>2, <2>3, <2>4, <2>5, <2>6, <2>7, <2>8, <2>9 DEF at, Text
<1> QED
  BY <1>2, <1>3

\* The mount point is a text.
LEMMA MountPointType ==
  ASSUME NEW source \in Text \cup {NONE}
  PROVE  MountPoint(source) \in Text
<1>1. CASE source = NONE
  BY <1>1 DEF MountPoint, Text
<1>2. CASE source # NONE
  <2> DEFINE S == {0} \cup {p \in DOMAIN source : source[p] # "/"}
  <2>1. source \in Seq(Char) /\ DOMAIN source = 1 .. Len(source) /\ Len(source) \in Nat
    BY <1>2 DEF Text
  <2>2. S \in SUBSET Nat /\ S \subseteq 0 .. Len(source) /\ S # {}
    BY <2>1
  <2>3. IsFiniteSet(S)
    <3>1. IsFiniteSet(0 .. Len(source))
      BY <2>1, FS_Interval
    <3> HIDE DEF S
    <3> QED
      BY <2>2, <3>1, FS_Subset
  <2>4. Max(S) \in S
    <3> HIDE DEF S
    <3> QED
      BY <2>2, <2>3, GreatestNumber
  <2>5. MountLength(source) \in 0 .. Len(source)
    BY <2>2, <2>4 DEF MountLength
  <2>6. SubSeq(source, 1, MountLength(source)) \in Seq(Char)
    BY <2>1, <2>5
  <2> QED
    BY <1>2, <2>6 DEF MountPoint, Text
<1> QED
  BY <1>1, <1>2

\* The name of an instance is a text.
LEMMA UnitNameType ==
  ASSUME NEW prefix \in Text, NEW instance \in Text
  PROVE  UnitName(prefix, instance) \in Text
<1> DEFINE at == <<"@">>
<1>1. prefix \in List(Char) /\ instance \in List(Char) /\ at \in List(Char)
  BY Chars DEF Text, List
<1> HIDE DEF at
<1>2. prefix \o at \in List(Char)
  BY <1>1, ListConcat
<1>3. (prefix \o at) \o instance \in List(Char)
  BY <1>1, <1>2, ListConcat
<1> QED
  BY <1>3 DEF at, UnitName, List, Text

\* A function from symbols to texts says what placeholders stand for.
LEMMA WithsMade ==
  ASSUME NEW D \in SUBSET Char, NEW f \in [D -> Text]
  PROVE  f \in Withs
BY DEF Withs

\* The placeholders of a unit file stand for texts.
LEMMA SpecifiersType ==
  ASSUME NEW prefix \in Text, NEW instance \in Text, NEW value \in Text \cup {NONE},
         NEW source \in Text \cup {NONE}
  PROVE  Specifiers(prefix, instance, value, source) \in Withs /\ MountSpecifier(source) \in Withs
<1> DEFINE D == {"i", "I", "p", "n", "v", "m", "%"}
           f == Specifiers(prefix, instance, value, source)
           g == MountSpecifier(source)
<1> HIDE DEF Text
<1>1. D \subseteq Char /\ {"m"} \subseteq Char
  BY Chars
<1>2. <<>> \in Text /\ <<"%">> \in Text /\ MountPoint(source) \in Text
  BY Chars, MountPointType
<1>3. UnitName(prefix, instance) \in Text
  BY UnitNameType
<1>4. f \in [D -> Text]
  <2>1. ASSUME NEW c \in D
        PROVE (CASE c \in {"i", "I"} -> instance
                 [] c = "p" -> prefix
                 [] c = "n" -> UnitName(prefix, instance)
                 [] c = "v" -> IF value = NONE THEN <<>> ELSE value
                 [] c = "m" -> MountPoint(source)
                 [] c = "%" -> <<"%">>) \in Text
    BY <1>2, <1>3
  <2> QED
    BY <2>1 DEF Specifiers
<1>5. g \in [{"m"} -> Text]
  BY <1>2 DEF MountSpecifier
<1> HIDE DEF f, g, D
<1>6. f \in Withs /\ g \in Withs
  BY <1>1, <1>4, <1>5, WithsMade
<1> QED
  BY <1>6 DEF f, g

\* The placeholder of a target stands for a text.
LEMMA DeviceNameType ==
  ASSUME NEW name \in Text
  PROVE  DeviceName(name) \in Withs
<1> DEFINE g == DeviceName(name)
<1>1. {"name"} \subseteq Char
  BY Chars
<1>2. g \in [{"name"} -> Text]
  BY DEF DeviceName
<1> HIDE DEF g
<1>3. g \in Withs
  BY <1>1, <1>2, WithsMade
<1> QED
  BY <1>3 DEF g

\* A mount point is reported like a device.
LEMMA MountReportType ==
  ASSUME NEW source \in Text
  PROVE  MountReport(source) \in Device
<1>1. source \in Seq(Char) /\ DOMAIN source = 1 .. Len(source) /\ Len(source) \in Nat
  BY DEF Text
<1>2. MountDeviceName(source) \in Text
  <2> DEFINE S == {p \in DOMAIN source : source[p] # "/"}
  <2>1. CASE S = {}
    BY <2>1, Chars DEF MountDeviceName
  <2>2. CASE S # {}
    <3>1. S \in SUBSET Nat /\ S \subseteq 1 .. Len(source)
      BY <1>1
    <3>2. IsFiniteSet(S)
      <4>1. IsFiniteSet(1 .. Len(source))
        BY <1>1, FS_Interval
      <4> HIDE DEF S
      <4> QED
        BY <3>1, <4>1, FS_Subset
    <3> DEFINE a == Min(S)
               b == Max(S)
               n == b - a + 1
               name == [p \in 1 .. n |-> LET c == source[p + a - 1] IN IF c = "/" THEN "_" ELSE c]
    <3>3. a \in S /\ b \in S /\ a <= b
      <4> HIDE DEF S
      <4>1. a \in S /\ \A p \in S : a <= p
        BY <2>2, <3>1, LeastIs
      <4>2. b \in S
        BY <2>2, <3>1, <3>2, GreatestNumber
      <4> QED
        BY <4>1, <4>2
    <3>4. MountDeviceName(source) = name
      BY <2>2 DEF MountDeviceName
    <3> HIDE DEF a, b
    <3>5. a \in 1 .. Len(source) /\ b \in a .. Len(source) /\ n \in Nat
      BY <1>1, <3>1, <3>3
    <3>6. \A p \in 1 .. n : p + a - 1 \in 1 .. Len(source)
      BY <1>1, <3>5
    <3>7. \A p \in 1 .. n : source[p + a - 1] \in Char
      BY <1>1, <3>6
    <3>8. name \in Seq(Char)
      <4>1. "_" \in Char
        BY Chars
      <4>2. ASSUME NEW p \in 1 .. n
            PROVE  (LET c == source[p + a - 1] IN IF c = "/" THEN "_" ELSE c) \in Char
        BY <3>7, <4>1
      <4>3. name \in [1 .. n -> Char]
        <5> HIDE DEF n
        <5> QED
          BY <4>2
      <4> HIDE DEF n, name
      <4> QED
        BY <3>5, <4>3
    <3> QED
      BY <3>4, <3>8 DEF Text
  <2> QED
    BY <2>1, <2>2
<1>3. <<"mount">> \in Text
  BY Chars
<1> HIDE DEF Text
<1> QED
  BY <1>2, <1>3 DEF MountReport, Device

-----------------------------------------------------------------------------
(* What a file of the units directory stands for                           *)

Given(in, own, template) ==
    IF Parses(in, template) THEN Override(own, in.files[template]) ELSE own

\* The same, as the code goes about it.
InstanceMade(in, dir, name, own, value, demand) ==
    Fresh(name, Given(in, own, TemplatePath(dir, Split(name).prefix)),
          Specifiers(Split(name).prefix, Split(name).instance, value, in.source), demand)

\* A file that can be parsed says a context.
LEMMA ParsedContext ==
  ASSUME NEW in \in Inputs, NEW file, Parses(in, file)
  PROVE  in.files[file] \in Contexts
<1>1. IsContext(in.files[file])
  BY InputTypes DEF Parses
<1> QED
  BY <1>1, ContextIs

\* No text is taken for a missing one.
LEMMA NotNone ==
  ASSUME NEW text \in Text
  PROVE  text # NONE
BY NoneAssumption

\* Whether a file holds a unit, an instance or a template, by its first @.
LEMMA KindIs ==
  ASSUME NEW file \in Text, HasIni(file)
  PROVE  LET name == MakeUnitName(file) IN
         /\ name \in Text /\ name = Front(file)
         /\ Ats(file) = Ats(name)
         /\ Kind(file) = "plain" <=> Ats(name) = {}
         /\ Kind(file) = "template" <=> IsTemplate(file)
         /\ Kind(file) = "instance" <=> Ats(name) # {} /\ ~IsTemplate(file)
         /\ IsTemplate(file) => /\ Ats(name) # {}
                                /\ Split(name).prefix = Before(file, Len(file) - 1)
                                /\ Split(name).prefix \in Text
<1> DEFINE name == MakeUnitName(file)
           n == Len(name)
<1>1. /\ file \in Seq(Char) /\ Len(file) \in Nat /\ Len(file) > 1 /\ DOMAIN file = 1 .. Len(file)
      /\ file[Len(file)] = ".ini"
  BY DEF Text, HasIni, Last
<1>2. /\ name \in Seq(Char) /\ Len(name) = Len(file) - 1
      /\ \A p \in 1 .. Len(file) - 1 : name[p] = file[p]
      /\ DOMAIN name = 1 .. Len(file) - 1
  BY <1>1 DEF MakeUnitName, Front
<1>3. name = Front(file)
  BY DEF MakeUnitName
<1> HIDE DEF name
<1>4. Ats(file) = Ats(name)
  <2>0. Len(file) \in Nat
    BY <1>1
  <2>1. \A p \in 1 .. Len(file) : p \notin 1 .. Len(file) - 1 => p = Len(file)
    BY <2>0
  <2>2. \A p \in 1 .. Len(file) - 1 : p \in 1 .. Len(file)
    BY <2>0
  <2>3. ".ini" # "@"
    OBVIOUS
  <2>4. \A p : p \in Ats(file) <=> p \in 1 .. Len(file) /\ file[p] = "@"
    BY <1>1 DEF Ats
  <2>5. \A p : p \in Ats(name) <=> p \in 1 .. Len(file) - 1 /\ name[p] = "@"
    BY <1>2 DEF Ats
  <2>6. \A p : p \in Ats(file) <=> p \in Ats(name)
    BY <1>1, <1>2, <2>1, <2>2, <2>3, <2>4, <2>5
  <2> QED
    BY <2>6
<1>5. name \in Text
  BY <1>2 DEF Text
<1>6. CASE Ats(name) = {}
  <2>1. Split(name).prefix = NONE
    BY <1>5, <1>6, SplitIs
  <2>2. Kind(file) = "plain"
    BY <2>1 DEF Kind, name
  <2>3. ~IsTemplate(file)
    BY <1>4, <1>6 DEF IsTemplate
  <2> QED
    BY <1>3, <1>4, <1>5, <1>6, <2>2, <2>3 DEF name
<1>7. CASE Ats(name) # {}
  <2> DEFINE at == Min(Ats(name))
  <2>1. /\ at \in 1 .. n /\ at \in Ats(name) /\ \A p \in Ats(name) : at <= p
        /\ Split(name).prefix = Before(name, at) /\ Split(name).instance = Behind(name, at)
        /\ Before(name, at) \in Text
        /\ Behind(name, at) = <<>> <=> at = n
    BY <1>5, <1>7, SplitIs
  <2> HIDE DEF at
  <2>2. Split(name).prefix # NONE
    BY <2>1, NotNone
  <2>3. /\ Kind(file) = "template" <=> at = n
        /\ Kind(file) = "instance" <=> at # n
        /\ Kind(file) # "plain"
    BY <2>1, <2>2 DEF Kind, name
  <2>4. Ats(name) \subseteq 1 .. n
    BY <1>2 DEF Ats
  <2>5. at = n <=> Ats(name) = {n}
    <3>1. n \in Nat
      BY <1>1, <1>2
    <3> HIDE DEF n
    <3>2. ASSUME at = n, NEW p \in Ats(name)
          PROVE  p = n
      <4>1. p \in 1 .. n /\ at <= p
        BY <2>1, <2>4
      <4> QED
        BY <3>1, <3>2, <4>1
    <3>3. at = n => Ats(name) = {n}
      BY <2>1, <3>2
    <3>4. Ats(name) = {n} => at = n
      BY <2>1
    <3> QED
      BY <3>3, <3>4
  <2>6. IsTemplate(file) <=> at = n
    BY <1>2, <1>4, <2>5 DEF IsTemplate
  <2>7. at = n => Before(name, at) = Before(file, Len(file) - 1)
    <3>1. SUFFICES Before(name, n) = Before(file, n)
      BY <1>2
    <3>2. n \in Nat /\ n - 1 \in Nat /\ n - 1 <= Len(file) /\ n - 1 <= Len(name)
      BY <1>1, <1>2
    <3> QED
      BY <1>1, <1>2, <3>2 DEF Before
  <2> QED
    BY <1>3, <1>4, <1>5, <1>7, <2>1, <2>3, <2>6, <2>7 DEF name
<1> QED
  BY <1>6, <1>7 DEF name

\* What an instance file and its template say is a context.
LEMMA GivenContext ==
  ASSUME NEW in \in Inputs, NEW own \in Contexts, NEW template
  PROVE  Given(in, own, template) \in Contexts
<1>1. CASE Parses(in, template)
  <2>1. in.files[template] \in Contexts
    BY <1>1, ParsedContext
  <2> HIDE DEF Contexts
  <2> QED
    BY <1>1, <2>1, OverrideContext DEF Given
<1>2. CASE ~Parses(in, template)
  BY <1>2 DEF Given
<1> QED
  BY <1>1, <1>2

\* An instance is made of the unit the parser has in hand.
LEMMA InstanceOfIs ==
  ASSUME NEW in \in Inputs, NEW dir, NEW name \in Text, Ats(name) # {}, NEW own \in Contexts,
         NEW value \in Text \cup {NONE}, NEW demand \in BOOLEAN
  PROVE  /\ InstanceOf(in, dir, name, own, value, demand)
              = Making(in, InstanceMade(in, dir, name, own, value, demand))
         /\ InstanceMade(in, dir, name, own, value, demand) \in UnitRecs
<1> DEFINE at == Min(Ats(name))
           template == TemplatePath(dir, Before(name, at))
           says(k) == IF k \in DOMAIN own THEN own[k] ELSE in.files[template][k]
           keys == DOMAIN own \cup (IF Parses(in, template) THEN DOMAIN in.files[template] ELSE {})
           given == Given(in, own, template)
           with == Specifiers(Before(name, at), Behind(name, at), value, in.source)
<1>1. /\ Split(name).prefix = Before(name, at) /\ Split(name).instance = Behind(name, at)
      /\ Before(name, at) \in Text /\ Behind(name, at) \in Text
  BY SplitIs
<1>2. [k \in keys |-> says(k)] = given
  <2>1. CASE Parses(in, template)
    BY <2>1 DEF Given, Override
  <2>2. CASE ~Parses(in, template)
    <3>1. own = [k \in DOMAIN own |-> own[k]]
      BY ContextShape
    <3>2. keys = DOMAIN own
      BY <2>2
    <3>3. [k \in keys |-> says(k)] = [k \in DOMAIN own |-> own[k]]
      BY <3>2
    <3> QED
      BY <2>2, <3>1, <3>3 DEF Given
  <2> QED
    BY <2>1, <2>2
<1>3. InstanceOf(in, dir, name, own, value, demand) = UnitOf(in, [k \in keys |-> says(k)], name, with, demand)
  BY DEF InstanceOf
<1>4. InstanceMade(in, dir, name, own, value, demand) = Fresh(name, given, with, demand)
  BY <1>1 DEF InstanceMade
<1>5. given \in Contexts
  BY GivenContext
<1>6. with \in Withs
  <2>1. in.source \in Text \cup {NONE}
    BY InputTypes
  <2> HIDE DEF at
  <2> QED
    BY <1>1, <2>1, SpecifiersType
<1> HIDE DEF given, with, says, keys
<1>7. UnitOf(in, given, name, with, demand) = Making(in, Fresh(name, given, with, demand))
  BY <1>5, <1>6, UnitOfIs
<1>8. Fresh(name, given, with, demand) \in UnitRecs
  BY <1>5, <1>6, FreshType
<1> QED
  BY <1>2, <1>3, <1>4, <1>7, <1>8

\* The record FoundUnit makes of a file that parses.
Parsed(in, f) ==
    IF Ats(Front(f.name)) # {}
      THEN InstanceMade(in, f.dir, Front(f.name), in.files[JoinPath(f.dir, f.name)], NONE, FALSE)
      ELSE Fresh(Front(f.name), in.files[JoinPath(f.dir, f.name)], MountSpecifier(in.source), FALSE)

\* A file holds a unit just when the parser makes one of it, and that one.
LEMMA UnitInIs ==
  ASSUME NEW in \in Inputs, NEW f \in Files
  PROVE  /\ ~HasIni(f.name) \/ IsTemplate(f.name) \/ ~Parses(in, JoinPath(f.dir, f.name)) =>
              UnitIn(in, f) = <<>>
         /\ HasIni(f.name) /\ ~IsTemplate(f.name) /\ Parses(in, JoinPath(f.dir, f.name)) =>
              Parsed(in, f) \in UnitRecs /\ UnitIn(in, f) = Making(in, Parsed(in, f))
<1> DEFINE name == Front(f.name)
           file == JoinPath(f.dir, f.name)
<1>1. ~HasIni(f.name) \/ IsTemplate(f.name) \/ ~Parses(in, file) => UnitIn(in, f) = <<>>
  BY DEF UnitIn
<1>2. ASSUME HasIni(f.name), ~IsTemplate(f.name), Parses(in, file)
      PROVE  Parsed(in, f) \in UnitRecs /\ UnitIn(in, f) = Making(in, Parsed(in, f))
  <2>1. f.name \in Text
    BY DEF Files
  <2>2. name \in Text
    BY <1>2, <2>1, KindIs
  <2>3. in.files[file] \in Contexts
    BY <1>2, ParsedContext
  <2>4. NONE \in Text \cup {NONE} /\ FALSE \in BOOLEAN
    OBVIOUS
  <2>5. CASE Ats(name) # {}
    <3> DEFINE own == in.files[file]
    <3>1. UnitIn(in, f) = InstanceOf(in, f.dir, name, own, NONE, FALSE)
      BY <1>2, <2>5 DEF UnitIn
    <3>2. Parsed(in, f) = InstanceMade(in, f.dir, name, own, NONE, FALSE)
      BY <2>5 DEF Parsed
    <3> HIDE DEF name, own
    <3>3. own \in Contexts
      BY <2>3 DEF own
    <3> QED
      BY <2>2, <2>4, <2>5, <3>1, <3>2, <3>3, InstanceOfIs
  <2>6. CASE Ats(name) = {}
    <3> DEFINE own == in.files[file]
               with == MountSpecifier(in.source)
    <3>1. UnitIn(in, f) = UnitOf(in, own, name, with, FALSE)
      BY <1>2, <2>6 DEF UnitIn
    <3>2. Parsed(in, f) = Fresh(name, own, with, FALSE)
      BY <2>6 DEF Parsed
    <3>3. in.source \in Text \cup {NONE} /\ <<>> \in Text
      BY InputTypes, Chars
    <3>4. with \in Withs
      BY <3>3, SpecifiersType
    <3>5. own \in Contexts
      BY <2>3
    <3> HIDE DEF name, own, with
    <3>6. UnitOf(in, own, name, with, FALSE) = Making(in, Fresh(name, own, with, FALSE))
      BY <2>2, <2>4, <3>4, <3>5, UnitOfIs
    <3>7. Fresh(name, own, with, FALSE) \in UnitRecs
      BY <2>2, <2>4, <3>4, <3>5, FreshType
    <3> QED
      BY <3>1, <3>2, <3>6, <3>7
  <2> QED
    BY <2>5, <2>6
<1> QED
  BY <1>1, <1>2

Templates(in) == [prefix : Text, dir : Text, source : {in.source}]

\* A file holds a template just when the code keeps one.
LEMMA TemplateInIs ==
  ASSUME NEW in \in Inputs, NEW f \in Files
  PROVE  LET made == [prefix |-> Split(MakeUnitName(f.name)).prefix, dir |-> f.dir, source |-> in.source] IN
         /\ TemplateIn(in, f) = IF IsTemplate(f.name) THEN <<made>> ELSE <<>>
         /\ IsTemplate(f.name) => made \in Templates(in)
<1> DEFINE p == Split(MakeUnitName(f.name)).prefix
           made == [prefix |-> p, dir |-> f.dir, source |-> in.source]
<1>1. f.name \in Text /\ f.dir \in Text /\ in.source \in Text \cup {NONE}
  BY InputTypes DEF Files
<1>2. CASE IsTemplate(f.name)
  <2>1. HasIni(f.name)
    BY <1>2 DEF IsTemplate
  <2>2. p = Before(f.name, Len(f.name) - 1) /\ p \in Text
    BY <1>1, <1>2, <2>1, KindIs
  <2>3. TemplateIn(in, f) = <<made>>
    BY <1>2, <2>2 DEF TemplateIn
  <2> HIDE DEF p
  <2>4. made \in Templates(in)
    BY <1>1, <2>2 DEF Templates
  <2> QED
    BY <1>2, <2>3, <2>4 DEF p
<1>3. CASE ~IsTemplate(f.name)
  BY <1>3 DEF TemplateIn
<1> QED
  BY <1>2, <1>3

-----------------------------------------------------------------------------
(* What a name stands for that no unit has                                 *)

\* The record StartInstance makes.
Demanded(name, value) ==
    Fresh(UnitName(Split(name).prefix, Split(name).instance), input.files[TemplateFile(name)],
          Specifiers(Split(name).prefix, Split(name).instance, value, TemplateOf(name).source), TRUE)

\* An empty file leaves everything to the template.
LEMMA EmptyContext ==
  /\ [k \in {} |-> <<>>] \in Contexts
  /\ \A g \in Contexts : Override([k \in {} |-> <<>>], g) = g
<1> DEFINE e == [k \in {} |-> <<>>]
<1>1. e = [k \in DOMAIN e |-> e[k]] /\ DOMAIN e = {}
  OBVIOUS
<1>2. ASSUME NEW g \in Contexts
      PROVE  Override(e, g) = g
  <2>1. g = [k \in DOMAIN g |-> g[k]]
    BY ContextShape
  <2>2. Override(e, g) = [k \in DOMAIN g |-> g[k]]
    BY <1>1 DEF Override
  <2> QED
    BY <2>1, <2>2
<1> HIDE DEF e
<1>3. e \in Contexts
  BY <1>1, ContextMade
<1> QED
  BY <1>2, <1>3 DEF e

\* A template makes of a name what the unit put in hand for it becomes.
LEMMA MadeOfIs ==
  ASSUME input \in Inputs, templates \in List(Templates(input)), templates = TemplatesMeant(input),
         NEW name \in Text, NEW value \in Text \cup {NONE}
  PROVE  IF HasTemplate(name) /\ Parses(input, TemplateFile(name))
           THEN /\ MadeOf(input, name, value) = Making(input, Demanded(name, value))
                /\ Demanded(name, value) \in UnitRecs
                /\ Demanded(name, value).name = name /\ Demanded(name, value).demand = TRUE
           ELSE MadeOf(input, name, value) = <<>>
<1> DEFINE at == Min(Ats(name))
           found == {i \in DOMAIN templates : templates[i].prefix = Before(name, at)}
           t == templates[Min(found)]
           file == TemplatePath(t.dir, Before(name, at))
           own == [k \in {} |-> <<>>]
<1>1. MadeOf(input, name, value) =
        IF ~HasUnitsDir(input) \/ Ats(name) = {} \/ at = 1 \/ at = Len(name) \/ found = {} THEN <<>>
        ELSE IF ~Parses(input, file) THEN <<>>
        ELSE InstanceOf(input, t.dir, name, own, value, TRUE)
  BY DEF MadeOf
<1>2. CASE Ats(name) = {}
  <2>1. ~HasTemplate(name)
    BY <1>2, SplitIs DEF HasTemplate, IsInstanceName
  <2> QED
    BY <1>1, <1>2, <2>1
<1>3. CASE Ats(name) # {}
  <2>1. /\ Split(name).prefix = Before(name, at) /\ Split(name).instance = Behind(name, at)
        /\ Before(name, at) \in Text /\ Behind(name, at) \in Text
        /\ UnitName(Before(name, at), Behind(name, at)) = name
        /\ Before(name, at) = <<>> <=> at = 1
        /\ Behind(name, at) = <<>> <=> at = Len(name)
    BY <1>3, SplitIs
  <2> HIDE DEF at
  <2>2. IsInstanceName(name) <=> at # 1 /\ at # Len(name)
    <3>1. Before(name, at) # NONE
      BY <2>1, NotNone
    <3> QED
      BY <2>1, <3>1 DEF IsInstanceName
  <2>3. HasTemplate(name) <=> HasUnitsDir(input) /\ at # 1 /\ at # Len(name) /\ found # {}
    BY <2>1, <2>2 DEF HasTemplate
  <2>4. TemplateOf(name) = t
    BY <2>1 DEF TemplateOf
  <2>5. ASSUME HasTemplate(name)
        PROVE  t \in Templates(input) /\ t.prefix = Before(name, at) /\ TemplateFile(name) = file
    <3>1. templates \in Seq(Templates(input)) /\ DOMAIN templates = 1 .. Len(templates) /\ Len(templates) \in Nat
      BY DEF List
    <3>2. found \in SUBSET Nat /\ found # {}
      BY <2>3, <2>5, <3>1
    <3>3. Min(found) \in found
      <4> HIDE DEF found
      <4> QED
        BY <3>2, LeastIs
    <3>4. t.prefix = Before(name, at) /\ Min(found) \in 1 .. Len(templates)
      BY <3>1, <3>3
    <3>5. t \in Templates(input)
      BY <3>1, <3>4
    <3> HIDE DEF t
    <3> QED
      BY <2>4, <3>4, <3>5 DEF TemplateFile
  <2>6. CASE ~HasTemplate(name)
    BY <1>1, <2>3, <2>6
  <2>7. CASE HasTemplate(name) /\ ~Parses(input, TemplateFile(name))
    <3>1. ~Parses(input, file)
      BY <2>5, <2>7
    <3> QED
      BY <1>1, <2>7, <3>1
  <2>8. CASE HasTemplate(name) /\ Parses(input, TemplateFile(name))
    <3>1. Parses(input, file) /\ t.source = input.source /\ TemplateFile(name) = file
      BY <2>5, <2>8 DEF Templates
    <3>2. MadeOf(input, name, value) = InstanceOf(input, t.dir, name, own, value, TRUE)
      BY <1>1, <1>3, <2>3, <2>8, <3>1
    <3>3. input.files[file] \in Contexts
      BY <3>1, ParsedContext
    <3>4. own \in Contexts /\ Given(input, own, file) = input.files[file]
      BY <3>1, <3>3, EmptyContext DEF Given
    <3>5. InstanceMade(input, t.dir, name, own, value, TRUE) = Demanded(name, value)
      <4> HIDE DEF t, own
      <4>1. TemplatePath(t.dir, Split(name).prefix) = file
        BY <2>1
      <4> HIDE DEF file
      <4> QED
        BY <2>1, <2>4, <3>1, <3>4, <4>1 DEF InstanceMade, Demanded
    <3>6. /\ InstanceOf(input, t.dir, name, own, value, TRUE)
                = Making(input, InstanceMade(input, t.dir, name, own, value, TRUE))
          /\ InstanceMade(input, t.dir, name, own, value, TRUE) \in UnitRecs
      <4> HIDE DEF t, own
      <4>1. TRUE \in BOOLEAN
        OBVIOUS
      <4> QED
        BY <1>3, <3>4, <4>1, InstanceOfIs
    <3>7. Demanded(name, value).name = name /\ Demanded(name, value).demand = TRUE
      BY <2>1 DEF Demanded, Fresh
    <3> QED
      BY <2>8, <3>2, <3>5, <3>6, <3>7
  <2> QED
    BY <2>6, <2>7, <2>8
<1> QED
  BY <1>2, <1>3

-----------------------------------------------------------------------------
(* Rules and the targets they name                                         *)

Rules   == [class : Text, start : Text \cup {NONE}, remove : Text \cup {NONE}]
Targets == [target : Text, value : Text \cup {NONE}, stop : BOOLEAN]

RuleMap         == [s \in Section |-> RuleOf(s)]
SectionMap(in)  == [f \in Files |-> SectionsIn(in, f)]
RuleFileMap(in) == [f \in Files |-> RulesIn(SectionsIn(in, f))]

RulesMeant(in)       == RulesIn(SectionsMeant(in))
RulesLeft(in, files) == FlatMap(RuleFileMap(in), files)

\* The target a text of a rule stands for when r is reported.
Stands(r, text) ==
    [target |-> Meaning(text, DeviceName(r.name)), value |-> r.value, stop |-> r.what = "removed"]

MatchMap(r)  == [rule \in Rules |-> Matching(r, rule)]
MeanMap(r)   == [text \in Text |-> <<Stands(r, text)>>]
RuleTargets(r) == [rule \in Rules |-> FlatMap(MeanMap(r), Matching(r, rule))]
TargetMap(r) == [s \in Section |-> TargetIn(r, s)]

\* The section names the class that is behind class=.
LEMMA ClassName ==
  ASSUME NEW name \in Text, NEW class \in Text
  PROVE  (class # <<>> /\ name = <<"class=">> \o class) <=>
         (Len(name) > 1 /\ Head(name) = "class=" /\ Tail(name) = class)
<1> DEFINE c == <<"class=">>
           D == Char \cup {"class="}
<1>1. /\ name \in Seq(D) /\ class \in Seq(D) /\ c \in Seq(D) /\ Len(c) = 1 /\ c[1] = "class="
      /\ Len(name) \in Nat /\ Len(class) \in Nat
  BY DEF Text
<1>2. ASSUME class # <<>>, name = c \o class
      PROVE  Len(name) > 1 /\ Head(name) = "class=" /\ Tail(name) = class
  <2>1. Len(class) > 0
    BY <1>1, <1>2, EmptySeq
  <2> HIDE DEF c, D
  <2>2. /\ Len(name) = 1 + Len(class) /\ name[1] = "class="
        /\ \A i \in 1 .. Len(class) : name[1 + i] = class[i]
    <3>1. /\ Len(c \o class) = Len(c) + Len(class)
          /\ \A i \in 1 .. Len(c) : (c \o class)[i] = c[i]
          /\ \A i \in 1 .. Len(class) : (c \o class)[Len(c) + i] = class[i]
      <4>1. c \in Seq(D) /\ class \in Seq(D)
        BY <1>1
      <4> QED
        BY <4>1, ConcatProperties
    <3>2. 1 \in 1 .. Len(c)
      BY <1>1
    <3> QED
      BY <1>1, <1>2, <3>1, <3>2
  <2>3. name # <<>>
    BY <1>1, <2>1, <2>2, EmptySeq
  <2>4. Head(name) = name[1] /\ Tail(name) \in Seq(D) /\ Len(Tail(name)) = Len(name) - 1
        /\ \A i \in 1 .. Len(Tail(name)) : Tail(name)[i] = name[i + 1]
    BY <1>1, <2>3, HeadTailProperties
  <2>5. Len(Tail(name)) = Len(class)
    BY <1>1, <2>2, <2>4
  <2>6. \A i \in 1 .. Len(class) : Tail(name)[i] = class[i]
    <3>1. SUFFICES ASSUME NEW i \in 1 .. Len(class)
                   PROVE  Tail(name)[i] = class[i]
      OBVIOUS
    <3>2. i + 1 = 1 + i
      OBVIOUS
    <3> QED
      BY <2>2, <2>4, <2>5, <3>2
  <2>7. Tail(name) = class
    BY <1>1, <2>4, <2>5, <2>6, SeqEqual
  <2> QED
    BY <1>1, <2>1, <2>2, <2>4, <2>7
<1>3. ASSUME Len(name) > 1, Head(name) = "class=", Tail(name) = class
      PROVE  class # <<>> /\ name = c \o class
  <2>1. name # <<>> /\ name \in List(Char)
    BY <1>3 DEF Text, List
  <2>2. name = <<Head(name)>> \o Tail(name)
    BY <2>1, ListHead
  <2>3. Len(class) = Len(name) - 1
    BY <1>1, <1>3, <2>1
  <2>4. class # <<>>
    BY <1>1, <1>3, <2>3
  <2> QED
    BY <1>3, <2>2, <2>4
<1> QED
  BY <1>2, <1>3

\* Every section is one rule at most.
LEMMA RuleMapType == RuleMap \in Maps(Section, Rules)
<1>1. ASSUME NEW s \in Section
      PROVE  RuleOf(s) \in Seq(Rules)
  <2> DEFINE rule == [class |-> Tail(s.name), start |-> s.start, remove |-> s.remove]
  <2>1. s.name \in Text /\ s.start \in Text \cup {NONE} /\ s.remove \in Text \cup {NONE}
    BY DEF Section
  <2>2. CASE IsRule(s)
    <3>1. Tail(s.name) \in Text
      <4>1. s.name # <<>>
        BY <2>1, <2>2 DEF IsRule, Text
      <4> QED
        BY <2>1, <4>1 DEF Text
    <3>2. rule \in Rules
      BY <2>1, <3>1 DEF Rules
    <3>3. RuleOf(s) = <<rule>>
      BY <2>2 DEF RuleOf
    <3> HIDE DEF rule, Rules
    <3> QED
      BY <3>2, <3>3
  <2>3. CASE ~IsRule(s)
    BY <2>3 DEF RuleOf
  <2> QED
    BY <2>2, <2>3
<1> QED
  BY <1>1 DEF RuleMap, Maps

\* The rules of sections are a list of rules.
LEMMA RulesInIs ==
  ASSUME NEW sections \in List(Section)
  PROVE  RulesIn(sections) = FlatMap(RuleMap, sections) /\ RulesIn(sections) \in List(Rules)
<1>1. \A i \in DOMAIN sections : sections[i] \in Section
  BY DEF List
<1>2. [i \in DOMAIN sections |-> RuleOf(sections[i])] = [i \in DOMAIN sections |-> RuleMap[sections[i]]]
  BY <1>1 DEF RuleMap
<1>3. RulesIn(sections) = FlatMap(RuleMap, sections)
  BY <1>2 DEF RulesIn, FlatMap
<1> QED
  BY <1>3, RuleMapType, FlatMapType

\* Every file of the rules directory has sections.
LEMMA SectionMapType ==
  ASSUME NEW in \in Inputs
  PROVE  SectionMap(in) \in Maps(Files, Section) /\ \A f : SectionsIn(in, f) \in List(Section)
<1>1. ASSUME NEW f
      PROVE  SectionsIn(in, f) \in Seq(Section)
  BY InputTypes DEF SectionsIn, Sections
<1> QED
  BY <1>1 DEF SectionMap, Maps, List

\* Every file of the rules directory has rules.
LEMMA RuleFileMapType ==
  ASSUME NEW in \in Inputs
  PROVE  /\ RuleFileMap(in) \in Maps(Files, Rules)
         /\ Composed(Files, SectionMap(in), RuleMap, RuleFileMap(in))
<1>1. ASSUME NEW f \in Files
      PROVE  RulesIn(SectionsIn(in, f)) \in Seq(Rules)
             /\ RulesIn(SectionsIn(in, f)) = FlatMap(RuleMap, SectionsIn(in, f))
  <2>1. SectionsIn(in, f) \in List(Section)
    BY SectionMapType
  <2> QED
    BY <2>1, RulesInIs DEF List
<1>2. RuleFileMap(in) \in Maps(Files, Rules)
  BY <1>1 DEF RuleFileMap, Maps
<1>3. Composed(Files, SectionMap(in), RuleMap, RuleFileMap(in))
  BY <1>1 DEF RuleFileMap, SectionMap, Composed
<1> QED
  BY <1>2, <1>3

\* All sections, file by file.
LEMMA SectionsMeantIs ==
  ASSUME NEW in \in Inputs
  PROVE  /\ SectionsMeant(in) = FlatMap(SectionMap(in), Under(in, RulesRoot(in)))
         /\ SectionsMeant(in) \in List(Section)
<1> DEFINE files == Under(in, RulesRoot(in))
<1>1. files \in List(Files)
  BY UnderType
<1>2. \A i \in DOMAIN files : files[i] \in Files
  BY <1>1 DEF List
<1>3. SectionsMeant(in) = FlattenSeq([i \in DOMAIN files |-> SectionsIn(in, files[i])])
  BY DEF SectionsMeant
<1> HIDE DEF files
<1>4. [i \in DOMAIN files |-> SectionsIn(in, files[i])] = [i \in DOMAIN files |-> SectionMap(in)[files[i]]]
  BY <1>2 DEF SectionMap
<1>5. SectionsMeant(in) = FlatMap(SectionMap(in), files)
  BY <1>3, <1>4 DEF FlatMap
<1>6. FlatMap(SectionMap(in), files) \in List(Section)
  BY <1>1, SectionMapType, FlatMapType
<1> QED
  BY <1>5, <1>6 DEF files

\* All rules, file by file.
LEMMA RulesMeantIs ==
  ASSUME NEW in \in Inputs
  PROVE  /\ RulesLeft(in, Under(in, RulesRoot(in))) = RulesMeant(in)
         /\ RulesMeant(in) \in List(Rules)
         /\ RulesMeant(in) = FlatMap(RuleMap, SectionsMeant(in))
<1> DEFINE files == Under(in, RulesRoot(in))
<1>1. files \in List(Files)
  BY UnderType
<1>2. SectionsMeant(in) = FlatMap(SectionMap(in), files) /\ SectionsMeant(in) \in List(Section)
  BY SectionsMeantIs
<1> HIDE DEF files
<1>3. RulesMeant(in) = FlatMap(RuleMap, SectionsMeant(in)) /\ RulesMeant(in) \in List(Rules)
  BY <1>2, RulesInIs DEF RulesMeant
<1>4. FlatMap(RuleMap, FlatMap(SectionMap(in), files)) = FlatMap(RuleFileMap(in), files)
  BY <1>1, SectionMapType, RuleMapType, RuleFileMapType, FlatMapCompose
<1> QED
  BY <1>2, <1>3, <1>4 DEF RulesLeft, files

\* What a text of a rule stands for is a target.
LEMMA StandsType ==
  ASSUME NEW r \in Device, NEW text \in Text
  PROVE  Stands(r, text) \in Targets
<1>1. r.name \in Text /\ r.value \in Text \cup {NONE}
  BY DEF Device
<1>2. DeviceName(r.name) \in Withs
  BY <1>1, DeviceNameType
<1>3. Meaning(text, DeviceName(r.name)) \in Text
  BY <1>2, MeaningType
<1> HIDE DEF Text
<1> QED
  BY <1>1, <1>3 DEF Stands, Targets

\* What a rule, a text and a report come to.
LEMMA MapTypes ==
  ASSUME NEW r \in Device
  PROVE  /\ MatchMap(r) \in Maps(Rules, Text)
         /\ MeanMap(r) \in Maps(Text, Targets)
         /\ RuleTargets(r) \in Maps(Rules, Targets)
         /\ Composed(Rules, MatchMap(r), MeanMap(r), RuleTargets(r))
<1>1. ASSUME NEW rule \in Rules
      PROVE  Matching(r, rule) \in Seq(Text)
  <2>1. rule.start \in Text \cup {NONE} /\ rule.remove \in Text \cup {NONE}
    BY DEF Rules
  <2>2. Field(r, rule) # NONE => Field(r, rule) \in Text
    BY <2>1 DEF Field
  <2> HIDE DEF Text
  <2> QED
    BY <2>2 DEF Matching
<1>2. MatchMap(r) \in Maps(Rules, Text)
  BY <1>1 DEF MatchMap, Maps
<1>3. ASSUME NEW text \in Text
      PROVE  <<Stands(r, text)>> \in Seq(Targets)
  BY StandsType
<1>4. MeanMap(r) \in Maps(Text, Targets)
  BY <1>3 DEF MeanMap, Maps
<1>5. ASSUME NEW rule \in Rules
      PROVE  FlatMap(MeanMap(r), Matching(r, rule)) \in List(Targets)
  <2>1. Matching(r, rule) \in List(Text)
    BY <1>1 DEF List
  <2> QED
    BY <1>4, <2>1, FlatMapType
<1>6. RuleTargets(r) \in Maps(Rules, Targets)
  BY <1>5 DEF RuleTargets, Maps, List
<1>7. Composed(Rules, MatchMap(r), MeanMap(r), RuleTargets(r))
  BY DEF Composed, MatchMap, RuleTargets
<1> QED
  BY <1>2, <1>4, <1>6, <1>7

\* A section names for a report what the rule made of it does.
LEMMA TargetInIs ==
  ASSUME NEW r \in Device, NEW s \in Section
  PROVE  TargetIn(r, s) = FlatMap(RuleTargets(r), RuleOf(s))
<1> DEFINE rule == [class |-> Tail(s.name), start |-> s.start, remove |-> s.remove]
           field == Field(r, s)
<1>1. /\ s.name \in Text /\ r.class \in Text
      /\ s.start \in Text \cup {NONE} /\ s.remove \in Text \cup {NONE}
  BY DEF Section, Device
<1>2. Field(r, rule) = field /\ rule.class = Tail(s.name)
  BY DEF Field
<1>3. field # NONE => field \in Text /\ (s.start # NONE \/ s.remove # NONE)
  BY <1>1 DEF Field
<1>4. (r.class # <<>> /\ s.name = <<"class=">> \o r.class) <=>
      (Len(s.name) > 1 /\ Head(s.name) = "class=" /\ Tail(s.name) = r.class)
  BY <1>1, ClassName
<1>5. TargetIn(r, s) = IF r.class # <<>> /\ s.name = <<"class=">> \o r.class /\ field # NONE
                         THEN <<Stands(r, field)>> ELSE <<>>
  BY DEF TargetIn, Stands
<1>6. CASE ~IsRule(s)
  <2>1. RuleOf(s) = <<>>
    BY <1>6 DEF RuleOf
  <2>2. ~(r.class # <<>> /\ s.name = <<"class=">> \o r.class /\ field # NONE)
    <3> HIDE DEF field
    <3> QED
      BY <1>3, <1>4, <1>6 DEF IsRule
  <2>3. TargetIn(r, s) = <<>>
    BY <1>5, <2>2
  <2>4. FlatMap(RuleTargets(r), <<>>) = <<>>
    BY FlatMapEmpty
  <2> QED
    BY <2>1, <2>3, <2>4
<1>7. CASE IsRule(s)
  <2>1. RuleOf(s) = <<rule>>
    BY <1>7 DEF RuleOf
  <2>2. rule \in Rules
    <3>1. s.name # <<>>
      BY <1>1, <1>7 DEF IsRule, Text
    <3>2. Tail(s.name) \in Text
      BY <1>1, <3>1 DEF Text
    <3> QED
      BY <1>1, <3>2 DEF Rules
  <2> HIDE DEF rule, field
  <2>3. FlatMap(RuleTargets(r), <<rule>>) = RuleTargets(r)[rule]
    BY <2>2, MapTypes, FlatMapOne
  <2>4. RuleTargets(r)[rule] = FlatMap(MeanMap(r), Matching(r, rule))
    BY <2>2 DEF RuleTargets
  <2>5. CASE Tail(s.name) = r.class /\ field # NONE
    <3>1. Matching(r, rule) = <<field>> /\ field \in Text
      BY <1>2, <1>3, <2>5 DEF Matching
    <3>2. FlatMap(MeanMap(r), <<field>>) = MeanMap(r)[field]
      BY <3>1, MapTypes, FlatMapOne
    <3>3. MeanMap(r)[field] = <<Stands(r, field)>>
      BY <3>1 DEF MeanMap
    <3>4. TargetIn(r, s) = <<Stands(r, field)>>
      BY <1>4, <1>5, <1>7, <2>5 DEF IsRule
    <3> QED
      BY <2>1, <2>3, <2>4, <3>1, <3>2, <3>3, <3>4
  <2>6. CASE ~(Tail(s.name) = r.class /\ field # NONE)
    <3>1. Matching(r, rule) = <<>>
      BY <1>2, <2>6 DEF Matching
    <3>2. FlatMap(MeanMap(r), <<>>) = <<>>
      BY FlatMapEmpty
    <3>3. TargetIn(r, s) = <<>>
      BY <1>4, <1>5, <2>6
    <3> QED
      BY <2>1, <2>3, <2>4, <3>1, <3>2, <3>3
  <2> QED
    BY <2>5, <2>6
<1> QED
  BY <1>6, <1>7

\* What a report makes the code start is what its sections name.
LEMMA TargetsMeantIs ==
  ASSUME NEW in \in Inputs, NEW r \in Device
  PROVE  /\ FlatMap(MatchMap(r), RulesMeant(in)) \in List(Text)
         /\ FlatMap(MeanMap(r), FlatMap(MatchMap(r), RulesMeant(in))) = TargetsMeant(in, r)
         /\ TargetsMeant(in, r) \in List(Targets)
<1> DEFINE sections == SectionsMeant(in)
<1>1. sections \in List(Section)
  BY SectionsMeantIs
<1>2. RulesMeant(in) = FlatMap(RuleMap, sections) /\ RulesMeant(in) \in List(Rules)
  BY RulesMeantIs
<1>3. TargetsMeant(in, r) = FlattenSeq([i \in DOMAIN sections |-> TargetIn(r, sections[i])])
  BY DEF TargetsMeant
<1> HIDE DEF sections
<1>4. TargetsMeant(in, r) = FlatMap(TargetMap(r), sections)
  <2>1. \A i \in DOMAIN sections : sections[i] \in Section
    BY <1>1 DEF List
  <2>2. [i \in DOMAIN sections |-> TargetIn(r, sections[i])] = [i \in DOMAIN sections |-> TargetMap(r)[sections[i]]]
    BY <2>1 DEF TargetMap
  <2> QED
    BY <1>3, <2>2 DEF FlatMap
<1>5. TargetMap(r) \in Maps(Section, Targets) /\ Composed(Section, RuleMap, RuleTargets(r), TargetMap(r))
  <2>1. ASSUME NEW s \in Section
        PROVE  TargetIn(r, s) = FlatMap(RuleTargets(r), RuleMap[s]) /\ TargetIn(r, s) \in Seq(Targets)
    <3>1. RuleMap[s] = RuleOf(s) /\ RuleOf(s) \in List(Rules)
      BY RuleMapType DEF RuleMap, Maps, List
    <3>2. FlatMap(RuleTargets(r), RuleOf(s)) \in List(Targets)
      BY <3>1, MapTypes, FlatMapType
    <3> QED
      BY <3>1, <3>2, TargetInIs DEF List
  <2> QED
    BY <2>1 DEF TargetMap, Maps, Composed
<1>6. FlatMap(MeanMap(r), FlatMap(MatchMap(r), RulesMeant(in))) = FlatMap(RuleTargets(r), RulesMeant(in))
  BY <1>2, MapTypes, FlatMapCompose
<1>7. FlatMap(RuleTargets(r), FlatMap(RuleMap, sections)) = FlatMap(TargetMap(r), sections)
  BY <1>1, <1>5, MapTypes, RuleMapType, FlatMapCompose
<1>8. FlatMap(MatchMap(r), RulesMeant(in)) \in List(Text)
  BY <1>2, MapTypes, FlatMapType
<1>9. FlatMap(TargetMap(r), sections) \in List(Targets)
  BY <1>1, <1>5, FlatMapType
<1> QED
  BY <1>2, <1>4, <1>6, <1>7, <1>8, <1>9

\* A list of one.
LEMMA ListOne ==
  ASSUME NEW A, NEW a \in A
  PROVE  <<a>> \in List(A)
BY DEF List

\* The first element first.
LEMMA FlatMapCons ==
  ASSUME NEW A, NEW B, NEW f \in Maps(A, B), NEW a \in A, NEW s \in List(A)
  PROVE  /\ FlatMap(f, <<a>> \o s) = f[a] \o FlatMap(f, s)
         /\ f[a] \in List(B) /\ FlatMap(f, s) \in List(B)
<1> DEFINE b == <<a>>
<1>1. b \in List(A)
  BY ListOne
<1>2. FlatMap(f, b) = f[a] /\ f[a] \in List(B)
  BY FlatMapOne
<1> HIDE DEF b
<1>3. FlatMap(f, b \o s) = FlatMap(f, b) \o FlatMap(f, s)
  BY <1>1, FlatMapConcat
<1>4. FlatMap(f, s) \in List(B)
  BY FlatMapType
<1> QED
  BY <1>2, <1>3, <1>4 DEF b

-----------------------------------------------------------------------------
(* What the files that are left stand for                                  *)

UnitMap(in)     == [f \in Files |-> UnitIn(in, f)]
TemplateMap(in) == [f \in Files |-> TemplateIn(in, f)]

UnitsLeft(in, files)     == FlatMap(UnitMap(in), files)
TemplatesLeft(in, files) == FlatMap(TemplateMap(in), files)

\* Every file holds units and templates.
LEMMA FileMapTypes ==
  ASSUME NEW in \in Inputs
  PROVE  /\ UnitMap(in) \in Maps(Files, Services(in))
         /\ TemplateMap(in) \in Maps(Files, Templates(in))
<1>1. ASSUME NEW f \in Files
      PROVE  UnitIn(in, f) \in Seq(Services(in))
  <2> DEFINE reads == HasIni(f.name) /\ ~IsTemplate(f.name) /\ Parses(in, JoinPath(f.dir, f.name))
  <2>1. CASE reads
    <3>1. Parsed(in, f) \in UnitRecs /\ UnitIn(in, f) = Making(in, Parsed(in, f))
      BY <2>1, UnitInIs
    <3> QED
      BY <3>1, MakingType DEF List
  <2>2. CASE ~reads
    <3>1. UnitIn(in, f) = <<>>
      BY <2>2, UnitInIs
    <3> QED
      BY <3>1
  <2> QED
    BY <2>1, <2>2
<1>2. ASSUME NEW f \in Files
      PROVE  TemplateIn(in, f) \in Seq(Templates(in))
  <2> DEFINE made == [prefix |-> Split(MakeUnitName(f.name)).prefix, dir |-> f.dir, source |-> in.source]
  <2>1. /\ TemplateIn(in, f) = IF IsTemplate(f.name) THEN <<made>> ELSE <<>>
        /\ IsTemplate(f.name) => made \in Templates(in)
    BY TemplateInIs
  <2> HIDE DEF made
  <2>2. CASE IsTemplate(f.name)
    BY <2>1, <2>2
  <2>3. CASE ~IsTemplate(f.name)
    BY <2>1, <2>3
  <2> QED
    BY <2>2, <2>3
<1> QED
  BY <1>1, <1>2 DEF UnitMap, TemplateMap, Maps

\* All units, file by file.
LEMMA UnitsMeantIs ==
  ASSUME NEW in \in Inputs
  PROVE  /\ UnitsMeant(in) = UnitsLeft(in, Under(in, UnitsRoot(in)))
         /\ UnitsMeant(in) \in List(Services(in))
<1> DEFINE files == Under(in, UnitsRoot(in))
<1>1. files \in List(Files)
  BY UnderType
<1>2. \A i \in DOMAIN files : files[i] \in Files
  BY <1>1 DEF List
<1>3. UnitsMeant(in) = FlattenSeq([i \in DOMAIN files |-> UnitIn(in, files[i])])
  BY DEF UnitsMeant
<1> HIDE DEF files
<1>4. [i \in DOMAIN files |-> UnitIn(in, files[i])] = [i \in DOMAIN files |-> UnitMap(in)[files[i]]]
  BY <1>2 DEF UnitMap
<1>5. UnitsMeant(in) = FlatMap(UnitMap(in), files)
  BY <1>3, <1>4 DEF FlatMap
<1>6. FlatMap(UnitMap(in), files) \in List(Services(in))
  BY <1>1, FileMapTypes, FlatMapType
<1> QED
  BY <1>5, <1>6 DEF UnitsLeft, files

\* All templates, file by file.
LEMMA TemplatesMeantIs ==
  ASSUME NEW in \in Inputs
  PROVE  /\ TemplatesMeant(in) = TemplatesLeft(in, Under(in, UnitsRoot(in)))
         /\ TemplatesMeant(in) \in List(Templates(in))
<1> DEFINE files == Under(in, UnitsRoot(in))
<1>1. files \in List(Files)
  BY UnderType
<1>2. \A i \in DOMAIN files : files[i] \in Files
  BY <1>1 DEF List
<1>3. TemplatesMeant(in) = FlattenSeq([i \in DOMAIN files |-> TemplateIn(in, files[i])])
  BY DEF TemplatesMeant
<1> HIDE DEF files
<1>4. [i \in DOMAIN files |-> TemplateIn(in, files[i])] = [i \in DOMAIN files |-> TemplateMap(in)[files[i]]]
  BY <1>2 DEF TemplateMap
<1>5. TemplatesMeant(in) = FlatMap(TemplateMap(in), files)
  BY <1>3, <1>4 DEF FlatMap
<1>6. FlatMap(TemplateMap(in), files) \in List(Templates(in))
  BY <1>1, FileMapTypes, FlatMapType
<1> QED
  BY <1>5, <1>6 DEF TemplatesLeft, files

\* Dealing with the first of the files that are left.
LEMMA LeftHead ==
  ASSUME NEW in \in Inputs, NEW f \in Files, NEW files \in List(Files)
  PROVE  /\ UnitsLeft(in, <<f>> \o files) = UnitIn(in, f) \o UnitsLeft(in, files)
         /\ UnitIn(in, f) \in List(Services(in)) /\ UnitsLeft(in, files) \in List(Services(in))
         /\ TemplatesLeft(in, <<f>> \o files) = TemplateIn(in, f) \o TemplatesLeft(in, files)
         /\ TemplateIn(in, f) \in List(Templates(in))
         /\ TemplatesLeft(in, files) \in List(Templates(in))
         /\ RulesLeft(in, <<f>> \o files) = RulesIn(SectionsIn(in, f)) \o RulesLeft(in, files)
         /\ RulesIn(SectionsIn(in, f)) \in List(Rules) /\ RulesLeft(in, files) \in List(Rules)
<1>1. /\ UnitMap(in)[f] = UnitIn(in, f) /\ TemplateMap(in)[f] = TemplateIn(in, f)
      /\ RuleFileMap(in)[f] = RulesIn(SectionsIn(in, f))
  BY DEF UnitMap, TemplateMap, RuleFileMap
<1>2. /\ FlatMap(UnitMap(in), <<f>> \o files) = UnitMap(in)[f] \o FlatMap(UnitMap(in), files)
      /\ UnitMap(in)[f] \in List(Services(in)) /\ FlatMap(UnitMap(in), files) \in List(Services(in))
  BY FileMapTypes, FlatMapCons
<1>3. /\ FlatMap(TemplateMap(in), <<f>> \o files) = TemplateMap(in)[f] \o FlatMap(TemplateMap(in), files)
      /\ TemplateMap(in)[f] \in List(Templates(in)) /\ FlatMap(TemplateMap(in), files) \in List(Templates(in))
  BY FileMapTypes, FlatMapCons
<1>4. /\ FlatMap(RuleFileMap(in), <<f>> \o files) = RuleFileMap(in)[f] \o FlatMap(RuleFileMap(in), files)
      /\ RuleFileMap(in)[f] \in List(Rules) /\ FlatMap(RuleFileMap(in), files) \in List(Rules)
  BY RuleFileMapType, FlatMapCons
<1> QED
  BY <1>1, <1>2, <1>3, <1>4 DEF UnitsLeft, TemplatesLeft, RulesLeft

\* No files hold nothing.
LEMMA NothingLeft ==
  ASSUME NEW in
  PROVE  UnitsLeft(in, <<>>) = <<>> /\ TemplatesLeft(in, <<>>) = <<>> /\ RulesLeft(in, <<>>) = <<>>
BY FlatMapEmpty DEF UnitsLeft, TemplatesLeft, RulesLeft

-----------------------------------------------------------------------------
(* Types and control                                                       *)

Starts(in) == [target : Text, service : List(Services(in)), active : BOOLEAN]

Stages == {"start", "units", "scanned", "rules", "mounted", "ready", "failed"}

TypeInv ==
    /\ input \in Inputs
    /\ stage \in Stages
    /\ stack \in List(Frames)
    /\ unit # NoUnit => unit \in UnitRecs
    /\ services \in List(Services(input))
    /\ templates \in List(Templates(input))
    /\ rules \in List(Rules)
    /\ reports \in List(Device)
    /\ event # NoReport => event \in Device
    /\ pending \in List(Text)
    /\ targets \in List(Text)
    /\ started \in List(Starts(input))

\* The directories are open in two stages; nothing is reported before "ready".
StageInv ==
    /\ stage \in {"units", "rules"} <=> stack # <<>>
    /\ stage = "mounted" => input.source # NONE
    /\ stage # "ready" => event = NoReport /\ started = <<>> /\ reports = input.reports
    /\ event = NoReport => pending = <<>> /\ targets = <<>>

\* A unit in hand comes from the units directory, or from a target when all
\* targets of the report are known; what is left to expand in it is there.
UnitInv ==
    unit # NoUnit =>
         /\ stage = (IF unit.demand THEN "ready" ELSE "units")
         /\ unit.demand => event # NoReport
         /\ pending = <<>>
         /\ IsInjective(unit.todo) /\ ToSet(unit.todo) \subseteq DOMAIN unit.ctx

\* The expansion under way is that of the next key, or of the next target.
KeyJob    == [text |-> unit.ctx[Head(unit.todo)], with |-> unit.with]
TargetJob == [text |-> Head(pending), with |-> DeviceName(event.name)]

JobInv ==
    pass # "idle" =>
         IF unit # NoUnit THEN unit.todo # <<>> /\ job = KeyJob
                          ELSE pending # <<>> /\ job = TargetJob

BaseInv == TypeInv /\ StageInv /\ UnitInv /\ JobInv /\ ExpInv /\ MeaningInv

\* An expansion is not disturbed by what else the code does.
LEMMA SameJob ==
  ASSUME ExpInv, MeaningInv, UNCHANGED expVars
  PROVE  ExpInv' /\ MeaningInv'
<1>1. ExpInv'
  BY ExpStepKeeps
<1>2. MeaningInv'
  BY DEF expVars, MeaningInv
<1> QED
  BY <1>1, <1>2

\* A new expansion begins.
LEMMA NextJob ==
  ASSUME ExpInv, NEW j \in Job, Begin(j)
  PROVE  ExpInv' /\ MeaningInv'
<1>1. ExpInv'
  BY ExpStepKeeps DEF ExpNext
<1>2. MeaningInv'
  BY DEF Begin, MeaningInv
<1> QED
  BY <1>1, <1>2

\* The result of an expansion is what the text means.
LEMMA TakenJob ==
  ASSUME ExpInv, MeaningInv, Take
  PROVE  /\ ExpInv' /\ MeaningInv'
         /\ pass = "done" /\ pass' = "idle"
         /\ out \in Text /\ out = Meaning(job.text, job.with)
<1>1. ExpInv'
  BY ExpStepKeeps DEF ExpNext
<1>2. MeaningInv'
  BY DEF Take, MeaningInv
<1>3. pass = "done" /\ pass' = "idle"
  BY DEF Take
<1>4. out \in Text
  BY DEF ExpInv
<1> QED
  BY <1>1, <1>2, <1>3, <1>4, DoneMeans

\* An expansion goes on.
LEMMA ExpandingJob ==
  ASSUME ExpInv, MeaningInv, ExpStep
  PROVE  ExpInv' /\ MeaningInv' /\ pass # "idle" /\ job' = job
<1>1. ExpInv'
  BY ExpStepKeeps DEF ExpNext
<1>2. MeaningInv'
  BY ExpStepMeans
<1>3. pass # "idle" /\ job' = job
  BY DEF ExpStep, Count, Allocate, Fill, Finish
<1> QED
  BY <1>1, <1>2, <1>3

\* A text and what its placeholders stand for can be expanded.
LEMMA JobMade ==
  ASSUME NEW text \in Text, NEW with \in Withs
  PROVE  [text |-> text, with |-> with] \in Job
BY DEF Job

\* Neither a unit nor a report is taken for none.
LEMMA NotNothing ==
  /\ \A u \in UnitRecs : u # NoUnit
  /\ \A r \in Device : r # NoReport
<1>1. ASSUME NEW u \in UnitRecs
      PROVE  u # NoUnit
  <2>1. u.name \in Text
    BY DEF UnitRecs
  <2>2. u.name # NONE
    BY <2>1, NotNone
  <2> QED
    BY <2>2 DEF NoUnit
<1>2. ASSUME NEW r \in Device
      PROVE  r # NoReport
  <2>1. r.name \in Text
    BY DEF Device
  <2>2. r.name # NONE
    BY <2>1, NotNone
  <2> QED
    BY <2>2 DEF NoReport
<1> QED
  BY <1>1, <1>2

\* The types and the control of the first state.
LEMMA BaseStarts == Init => BaseInv
<1> SUFFICES ASSUME Init
             PROVE  BaseInv
  OBVIOUS
<1>1. input \in Inputs
  BY DEF Init
<1>2. input.reports \in List(Device)
  BY <1>1, InputTypes DEF List
<1>3. \A X : <<>> \in List(X)
  BY DEF List
<1>4. TypeInv
  BY <1>1, <1>2, <1>3 DEF Init, TypeInv, Stages
<1>5. StageInv /\ UnitInv
  BY DEF Init, StageInv, UnitInv
<1>6. ExpInv
  BY ExpStarts DEF Init
<1>7. MeaningInv /\ JobInv
  BY DEF Init, ExpInit, MeaningInv, JobInv
<1> QED
  BY <1>4, <1>5, <1>6, <1>7 DEF BaseInv

\* Nothing is expanded, and no unit is in hand, before all reports but in the
\* units directory.
LEMMA Quiet ==
  ASSUME BaseInv, event = NoReport
  PROVE  /\ stage # "units" => unit = NoUnit
         /\ unit = NoUnit => pass = "idle"
BY DEF BaseInv, StageInv, UnitInv, JobInv

\* No expansion is under way.
LEMMA JobIdle ==
  ASSUME pass' = "idle"
  PROVE  JobInv'
BY DEF JobInv

\* The steps that open a directory, or find that there is none.
LEMMA OpenKeeps ==
  ASSUME BaseInv, OpenUnits \/ OpenRules
  PROVE  BaseInv'
<1> USE DEF treeVars, parsedVars, eventVars
<1>0. stage \in {"start", "scanned"} /\ UNCHANGED <<expVars, input, unit, services, templates, rules>>
      /\ UNCHANGED <<reports, event, pending, targets, started>>
  BY DEF OpenUnits, OpenRules
<1>1. /\ stack = <<>> /\ event = NoReport /\ started = <<>> /\ reports = input.reports
      /\ pending = <<>> /\ targets = <<>>
  BY <1>0 DEF BaseInv, StageInv
<1>2. unit = NoUnit /\ pass = "idle"
  BY <1>0, <1>1, Quiet
<1>3. /\ stage' \in Stages /\ stack' \in List(Frames)
      /\ stage' \in {"units", "rules"} <=> stack' # <<>>
      /\ stage' = "mounted" => input.source # NONE
      /\ stage' # "ready" \/ input.source = NONE
  <2>1. input \in Inputs
    BY DEF BaseInv, TypeInv
  <2>2. ASSUME NEW dir, Readable(input, dir), stack' = <<Opened(input, dir)>>
        PROVE  stack' \in List(Frames) /\ stack' # <<>>
    <3> DEFINE o == Opened(input, dir)
    <3>1. o \in Frames
      BY <2>1, <2>2, OpenedLeft
    <3> HIDE DEF o
    <3> QED
      BY <2>2, <3>1, ListOne DEF o
  <2>3. CASE OpenUnits
    <3>1. CASE Readable(input, UnitsRoot(input))
      <4>1. stage' = "units" /\ stack' = <<Opened(input, UnitsRoot(input))>>
        BY <2>3, <3>1 DEF OpenUnits
      <4> QED
        BY <2>2, <3>1, <4>1 DEF Stages
    <3>2. CASE ~Readable(input, UnitsRoot(input))
      <4>1. stage' \in {"failed", "scanned"} /\ stack' = stack
        BY <2>3, <3>2 DEF OpenUnits
      <4> QED
        BY <1>1, <4>1 DEF Stages, List
    <3> QED
      BY <3>1, <3>2
  <2>4. CASE OpenRules
    <3>1. CASE Readable(input, RulesRoot(input))
      <4>1. stage' = "rules" /\ stack' = <<Opened(input, RulesRoot(input))>>
        BY <2>4, <3>1 DEF OpenRules
      <4> QED
        BY <2>2, <3>1, <4>1 DEF Stages
    <3>2. CASE ~Readable(input, RulesRoot(input))
      <4>1. stage' = (IF input.source = NONE THEN "ready" ELSE "mounted") /\ stack' = stack
        BY <2>4, <3>2 DEF OpenRules, Loaded
      <4> QED
        BY <1>1, <4>1 DEF Stages, List
    <3> QED
      BY <3>1, <3>2
  <2> QED
    BY <2>3, <2>4
<1>4. TypeInv'
  BY <1>0, <1>3 DEF BaseInv, TypeInv
<1>5. StageInv'
  BY <1>0, <1>1, <1>3 DEF StageInv
<1>6. UnitInv'
  BY <1>0, <1>2 DEF UnitInv
<1>7. JobInv'
  <2>1. pass' = "idle"
    BY <1>0, <1>2 DEF expVars
  <2> QED
    BY <2>1, JobIdle
<1>8. ExpInv' /\ MeaningInv'
  BY <1>0, SameJob DEF BaseInv
<1> QED
  BY <1>4, <1>5, <1>6, <1>7, <1>8 DEF BaseInv

\* The steps from an entry to the next, and out of a directory.
LEMMA WalkKeeps ==
  ASSUME BaseInv, UnitsWalk \/ RulesWalk
  PROVE  /\ BaseInv' /\ Idle
         /\ Remaining(input, stack') = Remaining(input, stack)
         /\ stage' # stage => Remaining(input, stack) = <<>> /\ stack' = <<>>
         /\ UnitsWalk => stage = "units" /\ stage' \in {"units", "scanned"}
         /\ RulesWalk => stage = "rules" /\ stage' \in {"rules", "mounted", "ready"}
<1> USE DEF treeVars, parsedVars, eventVars
<1>0. /\ stage \in {"units", "rules"} /\ Idle
      /\ UNCHANGED <<expVars, input, unit, services, templates, rules>>
      /\ UNCHANGED <<reports, event, pending, targets, started>>
  BY DEF UnitsWalk, RulesWalk, Walk, Leave
<1>1. /\ event = NoReport /\ started = <<>> /\ reports = input.reports
      /\ pending = <<>> /\ targets = <<>> /\ stack # <<>>
  BY <1>0 DEF BaseInv, StageInv
<1>2. input \in Inputs /\ stack \in List(Frames)
  BY DEF BaseInv, TypeInv
<1>3. /\ stack' \in List(Frames)
      /\ Remaining(input, stack') = Remaining(input, stack)
      /\ stage' = stage => stack' # <<>>
      /\ stage' # stage => stack' = <<>> /\ Remaining(input, stack) = <<>>
      /\ stage' = stage \/ stage' = (IF stage = "units" THEN "scanned" ELSE Loaded)
  <2>1. CASE Walk
    BY <1>2, <2>1, WalkRemains DEF Walk
  <2>2. ASSUME NEW next, Leave(next), next # stage
        PROVE  /\ stack' \in List(Frames)
               /\ Remaining(input, stack') = Remaining(input, stack)
               /\ stage' = stage => stack' # <<>>
               /\ stage' # stage => stack' = <<>> /\ Remaining(input, stack) = <<>> /\ stage' = next
    <3>1. stage' = IF Len(stack) = 1 THEN next ELSE stage
      BY <2>2 DEF Leave
    <3>2. /\ stack' \in List(Frames)
          /\ Remaining(input, stack') = Remaining(input, stack)
          /\ Len(stack) = 1 => stack' = <<>> /\ Remaining(input, stack) = <<>>
          /\ Len(stack) # 1 => stack' # <<>>
      BY <1>2, <2>2, LeaveRemains
    <3> QED
      BY <2>2, <3>1, <3>2
  <2>3. CASE UnitsWalk /\ ~Walk
    <3>1. stage = "units" /\ Leave("scanned")
      BY <2>3 DEF UnitsWalk
    <3> QED
      BY <2>2, <3>1
  <2>4. CASE RulesWalk /\ ~Walk
    <3>1. stage = "rules" /\ Leave(Loaded)
      BY <2>4 DEF RulesWalk
    <3>2. Loaded # stage
      BY <3>1 DEF Loaded
    <3> QED
      BY <2>2, <3>1, <3>2
  <2> QED
    BY <2>1, <2>3, <2>4
<1>4. /\ UnitsWalk => stage = "units" /\ stage' \in {"units", "scanned"}
      /\ RulesWalk => stage = "rules" /\ stage' \in {"rules", "mounted", "ready"}
      /\ stage' = "mounted" => input.source # NONE
  BY <1>0, <1>3 DEF UnitsWalk, RulesWalk, Loaded
<1>5. TypeInv'
  <2>1. stage' \in Stages
    BY <1>4 DEF Stages
  <2> QED
    BY <1>0, <1>3, <2>1 DEF BaseInv, TypeInv
<1>6. StageInv'
  <2>1. stage' = stage \/ stage' \in {"scanned", "mounted", "ready"}
    BY <1>3 DEF Loaded
  <2> QED
    BY <1>0, <1>1, <1>3, <1>4, <2>1 DEF StageInv
<1>7. UnitInv'
  BY <1>0 DEF UnitInv, Idle
<1>8. JobInv'
  <2>1. pass' = "idle"
    BY <1>0 DEF expVars, Idle
  <2> QED
    BY <2>1, JobIdle
<1>9. ExpInv' /\ MeaningInv'
  BY <1>0, SameJob DEF BaseInv
<1> QED
  BY <1>0, <1>3, <1>4, <1>5, <1>6, <1>7, <1>8, <1>9 DEF BaseInv

\* What a step that deals with a file leaves to do.
LEMMA FileTaken ==
  ASSUME BaseInv, NEW in \in {"units", "rules"}, NEW wanted, AtFile(in, wanted), stack' = Advanced
  PROVE  LET f == [dir |-> Top.dir, name |-> Entry.name] IN
         /\ stack' \in List(Frames) /\ stack' # <<>> /\ Idle /\ stage = in /\ wanted
         /\ f \in Files /\ Entry.name \in Text /\ Top.dir \in Text /\ Path = JoinPath(f.dir, f.name)
         /\ Remaining(input, stack') \in List(Files)
         /\ Remaining(input, stack) = <<f>> \o Remaining(input, stack')
         /\ event = NoReport /\ started = <<>> /\ reports = input.reports /\ pending = <<>>
         /\ input \in Inputs
<1>1. Idle /\ stage = in /\ wanted /\ stack # <<>> /\ Top.rest # <<>> /\ ~Entry.dir
  BY DEF AtFile
<1>2. input \in Inputs /\ stack \in List(Frames)
  BY DEF BaseInv, TypeInv
<1>3. event = NoReport /\ started = <<>> /\ reports = input.reports /\ pending = <<>>
  BY <1>1 DEF BaseInv, StageInv
<1>4. LET f == [dir |-> Top.dir, name |-> Entry.name] IN
         /\ stack' \in List(Frames) /\ stack' # <<>>
         /\ Entry \in Entries /\ Top.dir \in Text /\ f \in Files
         /\ Remaining(input, stack') \in List(Files)
         /\ Remaining(input, stack) = <<f>> \o Remaining(input, stack')
  BY <1>1, <1>2, FileRemains
<1>5. Entry.name \in Text
  BY <1>4 DEF Entries
<1> QED
  BY <1>1, <1>2, <1>3, <1>4, <1>5 DEF Path

\* The rest is the same for all steps that deal with a file.
LEMMA FileKeeps ==
  ASSUME BaseInv, NEW in \in {"units", "rules"}, NEW wanted, AtFile(in, wanted), stack' = Advanced,
         UNCHANGED <<expVars, input, stage, services, eventVars>>,
         templates' \in List(Templates(input)), rules' \in List(Rules),
         unit' = NoUnit \/ (in = "units" /\ unit' \in UnitRecs /\ unit'.demand = FALSE
                            /\ unit'.todo = ToExpand(unit'.ctx))
  PROVE  BaseInv'
<1>1. /\ stack' \in List(Frames) /\ stack' # <<>> /\ Idle /\ stage = in
      /\ event = NoReport /\ started = <<>> /\ reports = input.reports /\ pending = <<>>
  BY FileTaken
<1>2. pass' = "idle"
  BY <1>1 DEF Idle, expVars
<1>3. TypeInv'
  BY <1>1 DEF BaseInv, TypeInv, eventVars
<1>4. StageInv'
  BY <1>1 DEF BaseInv, StageInv, eventVars
<1>5. UnitInv'
  <2>1. SUFFICES ASSUME unit' # NoUnit
                 PROVE  UnitInv'
    BY DEF UnitInv
  <2>2. in = "units" /\ unit' \in UnitRecs /\ unit'.demand = FALSE /\ unit'.todo = ToExpand(unit'.ctx)
    BY <2>1
  <2>3. unit'.ctx \in Contexts
    BY <2>2 DEF UnitRecs
  <2>4. IsInjective(unit'.todo) /\ ToSet(unit'.todo) \subseteq DOMAIN unit'.ctx
    BY <2>2, <2>3, ToExpandIs
  <2>5. stage' = "units" /\ pending' = <<>>
    BY <1>1, <2>2 DEF eventVars
  <2> QED
    BY <2>2, <2>4, <2>5 DEF UnitInv
<1>6. JobInv'
  BY <1>2, JobIdle
<1>7. ExpInv' /\ MeaningInv'
  BY SameJob DEF BaseInv
<1> QED
  BY <1>3, <1>4, <1>5, <1>6, <1>7 DEF BaseInv

SkipWanted     == ~HasIni(Entry.name)
TemplateWanted == HasIni(Entry.name) /\ Kind(Entry.name) = "template"
UnitWanted     == HasIni(Entry.name) /\ Kind(Entry.name) # "template"

ThisFile == [dir |-> Top.dir, name |-> Entry.name]

\* The file the walk has come to.
LEMMA ThisFileIs ==
  /\ ThisFile.dir = Top.dir /\ ThisFile.name = Entry.name
BY DEF ThisFile

\* A file without the extension holds nothing.
LEMMA SkipKeeps ==
  ASSUME BaseInv, SkipUnit
  PROVE  /\ BaseInv' /\ AtFile("units", SkipWanted)
         /\ UnitIn(input, ThisFile) = <<>> /\ TemplateIn(input, ThisFile) = <<>>
<1>1. AtFile("units", SkipWanted) /\ stack' = Advanced
  BY DEF SkipUnit, SkipWanted
<1>2. /\ Idle /\ SkipWanted /\ input \in Inputs
  BY <1>1, FileTaken
<1>3. BaseInv'
  <2>1. UNCHANGED <<expVars, input, stage, services, eventVars>>
    BY DEF SkipUnit, parsedVars
  <2>2. templates' \in List(Templates(input)) /\ rules' \in List(Rules)
    BY DEF SkipUnit, parsedVars, BaseInv, TypeInv
  <2>3. unit' = NoUnit
    BY <1>2 DEF SkipUnit, Idle
  <2>4. "units" \in {"units", "rules"}
    OBVIOUS
  <2> QED
    BY <1>1, <2>1, <2>2, <2>3, <2>4, FileKeeps
<1>4. UnitIn(input, ThisFile) = <<>> /\ TemplateIn(input, ThisFile) = <<>>
  BY <1>2 DEF UnitIn, TemplateIn, IsTemplate, SkipWanted, ThisFile
<1> QED
  BY <1>1, <1>3, <1>4

\* A template is kept; it is no unit.
LEMMA FoundTemplateKeeps ==
  ASSUME BaseInv, FoundTemplate
  PROVE  /\ BaseInv' /\ AtFile("units", TemplateWanted)
         /\ UnitIn(input, ThisFile) = <<>>
         /\ templates' = templates \o TemplateIn(input, ThisFile)
<1> DEFINE made == [prefix |-> Split(MakeUnitName(Entry.name)).prefix, dir |-> Top.dir, source |-> input.source]
<1>1. AtFile("units", TemplateWanted) /\ stack' = Advanced /\ templates' = Append(templates, made)
  BY DEF FoundTemplate, TemplateWanted
<1>2. /\ Idle /\ TemplateWanted /\ input \in Inputs /\ Entry.name \in Text /\ ThisFile \in Files
  BY <1>1, FileTaken DEF ThisFile
<1>3. IsTemplate(Entry.name)
  BY <1>2, KindIs DEF TemplateWanted
<1>4. made \in Templates(input) /\ TemplateIn(input, ThisFile) = <<made>>
  BY <1>2, <1>3, ThisFileIs, TemplateInIs
<1>5. templates \in List(Templates(input))
  BY DEF BaseInv, TypeInv
<1> HIDE DEF made
<1>6. templates' \in List(Templates(input)) /\ templates' = templates \o <<made>>
  BY <1>1, <1>4, <1>5 DEF List
<1>7. BaseInv'
  <2>1. UNCHANGED <<expVars, input, stage, services, eventVars>>
    BY DEF FoundTemplate
  <2>2. rules' \in List(Rules)
    BY DEF FoundTemplate, BaseInv, TypeInv
  <2>3. unit' = NoUnit
    BY <1>2 DEF FoundTemplate, Idle
  <2>4. "units" \in {"units", "rules"}
    OBVIOUS
  <2> QED
    BY <1>1, <1>6, <2>1, <2>2, <2>3, <2>4, FileKeeps
<1>8. UnitIn(input, ThisFile) = <<>>
  BY <1>2, <1>3, ThisFileIs, UnitInIs
<1> QED
  BY <1>1, <1>4, <1>6, <1>7, <1>8

\* A unit is taken in hand, or cannot be read and is none; it is no template.
LEMMA FoundUnitKeeps ==
  ASSUME BaseInv, FoundUnit
  PROVE  /\ BaseInv' /\ AtFile("units", UnitWanted)
         /\ TemplateIn(input, ThisFile) = <<>>
         /\ \/ unit' = NoUnit /\ UnitIn(input, ThisFile) = <<>>
            \/ unit' \in UnitRecs /\ UnitIn(input, ThisFile) = Making(input, unit')
<1> DEFINE name == MakeUnitName(Entry.name)
           s == Split(name)
<1>1. AtFile("units", UnitWanted) /\ stack' = Advanced
  BY DEF FoundUnit, UnitWanted
<1>2. /\ Idle /\ UnitWanted /\ input \in Inputs /\ Entry.name \in Text /\ ThisFile \in Files
      /\ Path = JoinPath(ThisFile.dir, ThisFile.name)
  BY <1>1, FileTaken DEF ThisFile
<1>3. /\ HasIni(Entry.name) /\ ~IsTemplate(Entry.name) /\ name = Front(Entry.name)
      /\ Kind(Entry.name) = "instance" <=> Ats(name) # {}
  BY <1>2, KindIs DEF UnitWanted
<1>4. TemplateIn(input, ThisFile) = <<>>
  BY <1>3, ThisFileIs DEF TemplateIn
<1>5. ASSUME ~Parses(input, Path)
      PROVE  unit' = NoUnit /\ UnitIn(input, ThisFile) = <<>>
  <2>1. unit' = NoUnit
    BY <1>2, <1>5 DEF FoundUnit, Idle
  <2>2. UnitIn(input, ThisFile) = <<>>
    BY <1>2, <1>5, UnitInIs
  <2> QED
    BY <2>1, <2>2
<1>6. ASSUME Parses(input, Path)
      PROVE  unit' \in UnitRecs /\ UnitIn(input, ThisFile) = Making(input, unit')
  <2>1. Parsed(input, ThisFile) \in UnitRecs /\ UnitIn(input, ThisFile) = Making(input, Parsed(input, ThisFile))
    BY <1>2, <1>3, <1>6, ThisFileIs, UnitInIs
  <2>2. unit' = Parsed(input, ThisFile)
    <3>1. CASE Ats(name) # {}
      <4>1. Parse(name, Merged(input, Path, TemplatePath(Top.dir, s.prefix)),
                  Specifiers(s.prefix, s.instance, NONE, input.source), FALSE)
        BY <1>3, <1>6, <3>1 DEF FoundUnit
      <4>2. Merged(input, Path, TemplatePath(Top.dir, s.prefix))
              = Given(input, input.files[Path], TemplatePath(Top.dir, s.prefix))
        BY DEF Merged, Given
      <4>3. unit' = Fresh(name, Given(input, input.files[Path], TemplatePath(Top.dir, s.prefix)),
                          Specifiers(s.prefix, s.instance, NONE, input.source), FALSE)
        BY <4>1, <4>2 DEF Parse, Fresh
      <4>4. Parsed(input, ThisFile) = InstanceMade(input, Top.dir, name, input.files[Path], NONE, FALSE)
        BY <1>2, <1>3, <3>1, ThisFileIs DEF Parsed
      <4> QED
        BY <4>3, <4>4 DEF InstanceMade
    <3>2. CASE Ats(name) = {}
      <4>1. Parse(name, input.files[Path], MountSpecifier(input.source), FALSE)
        BY <1>3, <1>6, <3>2 DEF FoundUnit
      <4>2. unit' = Fresh(name, input.files[Path], MountSpecifier(input.source), FALSE)
        BY <4>1 DEF Parse, Fresh
      <4> QED
        BY <1>2, <1>3, <3>2, <4>2, ThisFileIs DEF Parsed
    <3> QED
      BY <3>1, <3>2
  <2> QED
    BY <2>1, <2>2
<1>7. unit' # NoUnit => unit'.demand = FALSE /\ unit'.todo = ToExpand(unit'.ctx)
  <2>1. CASE ~Parses(input, Path)
    BY <1>2, <2>1 DEF FoundUnit, Idle
  <2>2. CASE Parses(input, Path)
    BY <2>2 DEF FoundUnit, Parse
  <2> QED
    BY <2>1, <2>2
<1>8. BaseInv'
  <2>1. UNCHANGED <<expVars, input, stage, services, eventVars>>
    BY DEF FoundUnit, parsedVars
  <2>2. rules' \in List(Rules) /\ templates' \in List(Templates(input))
    BY DEF FoundUnit, parsedVars, BaseInv, TypeInv
  <2>3. unit' = NoUnit \/ (unit' \in UnitRecs /\ unit'.demand = FALSE /\ unit'.todo = ToExpand(unit'.ctx))
    BY <1>5, <1>6, <1>7
  <2>4. "units" \in {"units", "rules"}
    OBVIOUS
  <2> QED
    BY <1>1, <2>1, <2>2, <2>3, <2>4, FileKeeps
<1> QED
  BY <1>1, <1>4, <1>5, <1>6, <1>8

\* The rules of a file are added.
LEMMA ReadRulesKeeps ==
  ASSUME BaseInv, ReadRules
  PROVE  /\ BaseInv' /\ AtFile("rules", TRUE)
         /\ rules' = rules \o RulesIn(SectionsIn(input, ThisFile))
<1>1. AtFile("rules", TRUE) /\ stack' = Advanced
  BY DEF ReadRules
<1>2. /\ Idle /\ input \in Inputs /\ Entry.name \in Text /\ ThisFile \in Files
      /\ Path = JoinPath(ThisFile.dir, ThisFile.name)
  BY <1>1, FileTaken DEF ThisFile
<1>3. rules \in List(Rules)
  BY DEF BaseInv, TypeInv
<1>4. SectionsIn(input, ThisFile) \in List(Section)
  BY <1>2, SectionMapType
<1>5. RulesIn(SectionsIn(input, ThisFile)) \in List(Rules)
  BY <1>4, RulesInIs
<1>6. rules' = rules \o RulesIn(SectionsIn(input, ThisFile))
  <2>1. CASE HasRules(Entry.name)
    BY <1>2, <2>1, ThisFileIs DEF ReadRules, SectionsIn
  <2>2. CASE ~HasRules(Entry.name)
    <3>1. SectionsIn(input, ThisFile) = <<>>
      BY <2>2, ThisFileIs DEF SectionsIn
    <3>2. RulesIn(<<>>) = <<>>
      BY <1>4, <3>1, RulesInIs, FlatMapEmpty
    <3>3. rules \o <<>> = rules
      BY <1>3, ListConcat
    <3> QED
      BY <2>2, <3>1, <3>2, <3>3 DEF ReadRules
  <2> QED
    BY <2>1, <2>2
<1>7. BaseInv'
  <2>1. UNCHANGED <<expVars, input, stage, services, eventVars>>
    BY DEF ReadRules
  <2>2. rules' \in List(Rules) /\ templates' \in List(Templates(input))
    BY <1>3, <1>5, <1>6, ListConcat DEF ReadRules, BaseInv, TypeInv
  <2>3. unit' = NoUnit
    BY <1>2 DEF ReadRules, Idle
  <2>4. "rules" \in {"units", "rules"}
    OBVIOUS
  <2> QED
    BY <1>1, <2>1, <2>2, <2>3, <2>4, FileKeeps
<1> QED
  BY <1>1, <1>6, <1>7

\* One more at the end.
LEMMA ListAppend ==
  ASSUME NEW A, NEW s \in List(A), NEW a \in A
  PROVE  /\ Append(s, a) \in List(A) /\ Append(s, a) = s \o <<a>>
         /\ Len(Append(s, a)) = Len(s) + 1 /\ Len(s) \in Nat
         /\ \A i \in 1 .. Len(s) : Append(s, a)[i] = s[i] /\ s[i] \in A
         /\ Append(s, a)[Len(s) + 1] = a
         /\ DOMAIN s = 1 .. Len(s)
         /\ DOMAIN Append(s, a) = 1 .. Len(s) + 1
BY DEF List

\* The expansion of a key begins.
LEMMA ExpandKeyKeeps ==
  ASSUME BaseInv, ExpandKey
  PROVE  BaseInv'
<1> USE DEF treeVars, parsedVars, eventVars
<1>1. /\ unit # NoUnit /\ unit.todo # <<>> /\ Begin(KeyJob)
      /\ UNCHANGED <<input, stage, stack, unit, services, templates, rules>>
      /\ UNCHANGED <<reports, event, pending, targets, started>>
  BY DEF ExpandKey, KeyJob
<1>2. unit \in UnitRecs /\ ToSet(unit.todo) \subseteq DOMAIN unit.ctx
  BY <1>1 DEF BaseInv, TypeInv, UnitInv
<1>3. KeyJob \in Job
  <2> DEFINE k == Head(unit.todo)
  <2>1. unit.ctx \in Contexts /\ unit.with \in Withs /\ unit.todo \in Seq(Keys)
    BY <1>2 DEF UnitRecs, List
  <2>2. k \in ToSet(unit.todo) /\ k \in Keys
    <3>1. k \in ToSet(unit.todo)
      BY <1>1, <2>1, HeadTailSet
    <3>2. ToSet(unit.todo) \subseteq Keys
      BY <2>1, ToSetType
    <3> QED
      BY <3>1, <3>2
  <2>3. k \in DOMAIN unit.ctx
    BY <1>2, <2>2
  <2> HIDE DEF k
  <2>4. unit.ctx[k] \in Text
    BY <2>1, <2>3, ContextShape
  <2> QED
    BY <2>1, <2>4, JobMade DEF KeyJob, k
<1>4. ExpInv' /\ MeaningInv'
  BY <1>1, <1>3, NextJob DEF BaseInv
<1>5. TypeInv' /\ StageInv' /\ UnitInv'
  BY <1>1 DEF BaseInv, TypeInv, StageInv, UnitInv
<1>6. JobInv'
  <2>1. job' = KeyJob /\ KeyJob' = KeyJob
    BY <1>1 DEF Begin, KeyJob
  <2> QED
    BY <1>1, <2>1 DEF JobInv
<1> QED
  BY <1>4, <1>5, <1>6 DEF BaseInv

\* The expansion of a target begins.
LEMMA ExpandTargetKeeps ==
  ASSUME BaseInv, ExpandTarget
  PROVE  BaseInv'
<1> USE DEF treeVars, parsedVars, eventVars
<1>1. /\ event # NoReport /\ pending # <<>> /\ Begin(TargetJob)
      /\ UNCHANGED <<input, stage, stack, unit, services, templates, rules>>
      /\ UNCHANGED <<reports, event, pending, targets, started>>
  BY DEF ExpandTarget, TargetJob
<1>2. unit = NoUnit
  BY <1>1 DEF BaseInv, UnitInv
<1>3. TargetJob \in Job
  <2>1. event \in Device /\ pending \in List(Text)
    BY <1>1 DEF BaseInv, TypeInv
  <2>2. Head(pending) \in Text
    BY <1>1, <2>1, ListHead
  <2>3. DeviceName(event.name) \in Withs
    BY <2>1, DeviceNameType DEF Device
  <2> QED
    BY <2>2, <2>3, JobMade DEF TargetJob
<1>4. ExpInv' /\ MeaningInv'
  BY <1>1, <1>3, NextJob DEF BaseInv
<1>5. TypeInv' /\ StageInv' /\ UnitInv'
  BY <1>1 DEF BaseInv, TypeInv, StageInv, UnitInv
<1>6. JobInv'
  <2>1. job' = TargetJob /\ TargetJob' = TargetJob
    BY <1>1 DEF Begin, TargetJob
  <2> QED
    BY <1>1, <1>2, <2>1 DEF JobInv
<1> QED
  BY <1>4, <1>5, <1>6 DEF BaseInv

\* An expansion makes a step.
LEMMA ExpandingKeeps ==
  ASSUME BaseInv, Expanding
  PROVE  BaseInv'
<1> USE DEF treeVars, parsedVars, eventVars
<1>1. /\ ExpStep
      /\ UNCHANGED <<input, stage, stack, unit, services, templates, rules>>
      /\ UNCHANGED <<reports, event, pending, targets, started>>
  BY DEF Expanding
<1>2. ExpInv' /\ MeaningInv' /\ pass # "idle" /\ job' = job
  BY <1>1, ExpandingJob DEF BaseInv
<1>3. TypeInv' /\ StageInv' /\ UnitInv'
  BY <1>1 DEF BaseInv, TypeInv, StageInv, UnitInv
<1>4. JobInv'
  <2>1. KeyJob' = KeyJob /\ TargetJob' = TargetJob
    BY <1>1 DEF KeyJob, TargetJob
  <2> QED
    BY <1>1, <1>2, <2>1 DEF BaseInv, JobInv
<1> QED
  BY <1>2, <1>3, <1>4 DEF BaseInv

\* A key that has been expanded says what it means, and what is left to expand
\* means what it did.
LEMMA ExpandedKeeps ==
  ASSUME BaseInv, Expanded
  PROVE  /\ BaseInv'
         /\ unit \in UnitRecs /\ unit' \in UnitRecs
         /\ unit'.name = unit.name /\ unit'.demand = unit.demand
         /\ Making(input, unit') = Making(input, unit)
<1> USE DEF treeVars, parsedVars, eventVars
<1> DEFINE k == Head(unit.todo)
           todo == Tail(unit.todo)
           ctx == [unit.ctx EXCEPT ![k] = out]
<1>1. /\ unit # NoUnit /\ Take /\ unit' = [unit EXCEPT !.ctx[k] = out, !.todo = Tail(@)]
      /\ UNCHANGED <<input, stage, stack, services, templates, rules>>
      /\ UNCHANGED <<reports, event, pending, targets, started>>
  BY DEF Expanded
<1>2. /\ ExpInv' /\ MeaningInv' /\ pass = "done" /\ pass' = "idle"
      /\ out \in Text /\ out = Meaning(job.text, job.with)
  BY <1>1, TakenJob DEF BaseInv
<1>3. /\ unit \in UnitRecs /\ ToSet(unit.todo) \subseteq DOMAIN unit.ctx /\ IsInjective(unit.todo)
      /\ stage = (IF unit.demand THEN "ready" ELSE "units")
      /\ (unit.demand => event # NoReport) /\ pending = <<>>
  BY <1>1 DEF BaseInv, TypeInv, UnitInv
<1>4. unit.todo # <<>> /\ job = KeyJob
  BY <1>1, <1>2 DEF BaseInv, JobInv
<1>5. /\ unit.ctx \in Contexts /\ unit.with \in Withs /\ unit.todo \in Seq(Keys)
      /\ unit.name \in Text /\ unit.demand \in BOOLEAN
      /\ unit = [name |-> unit.name, ctx |-> unit.ctx, with |-> unit.with, todo |-> unit.todo,
                 demand |-> unit.demand]
  BY <1>3 DEF UnitRecs, List
<1>6. unit' = [name |-> unit.name, ctx |-> ctx, with |-> unit.with, todo |-> todo, demand |-> unit.demand]
  BY <1>1, <1>5
<1>7. /\ k \in ToSet(unit.todo) /\ todo \in Seq(Keys)
      /\ ToSet(unit.todo) = {k} \cup ToSet(todo)
      /\ k \notin ToSet(todo) /\ IsInjective(todo)
  BY <1>3, <1>4, <1>5, HeadTailSet
<1>8. k \in DOMAIN unit.ctx
  BY <1>3, <1>7
<1>9. ctx \in Contexts /\ DOMAIN ctx = DOMAIN unit.ctx
      /\ ctx[k] = out /\ \A j \in DOMAIN unit.ctx : j # k => ctx[j] = unit.ctx[j]
  <2>1. /\ unit.ctx = [j \in DOMAIN unit.ctx |-> unit.ctx[j]]
        /\ DOMAIN unit.ctx \subseteq Keys
        /\ \A j \in DOMAIN unit.ctx : unit.ctx[j] \in Text
    BY <1>5, ContextShape
  <2> HIDE DEF k
  <2>2. /\ ctx = [j \in DOMAIN ctx |-> ctx[j]] /\ DOMAIN ctx = DOMAIN unit.ctx
        /\ ctx[k] = out /\ \A j \in DOMAIN unit.ctx : j # k => ctx[j] = unit.ctx[j]
    BY <1>8, <2>1
  <2> HIDE DEF ctx
  <2>3. ctx \in Contexts
    <3>1. \A j \in DOMAIN ctx : ctx[j] \in Text
      BY <1>2, <2>1, <2>2
    <3> QED
      BY <2>1, <2>2, <3>1, ContextMade
  <2> QED
    BY <2>2, <2>3
<1> HIDE DEF ctx
<1>10. /\ unit'.name = unit.name /\ unit'.ctx = ctx /\ unit'.with = unit.with /\ unit'.todo = todo
       /\ unit'.demand = unit.demand
  BY <1>6
<1>11. unit' \in UnitRecs
  <2> HIDE DEF todo
  <2> QED
    BY <1>5, <1>6, <1>7, <1>9 DEF UnitRecs, List
<1>12. Full(unit') = Full(unit)
  <2>1. out = Meaning(unit.ctx[k], unit.with)
    BY <1>2, <1>4 DEF KeyJob
  <2> HIDE DEF k, todo
  <2>2. ASSUME NEW j \in DOMAIN unit.ctx
        PROVE  (IF j \in ToSet(todo) THEN Meaning(ctx[j], unit.with) ELSE ctx[j])
               = (IF j \in ToSet(unit.todo) THEN Meaning(unit.ctx[j], unit.with) ELSE unit.ctx[j])
    <3>1. CASE j = k
      BY <1>7, <1>9, <2>1, <3>1
    <3>2. CASE j # k
      <4>1. ctx[j] = unit.ctx[j] /\ (j \in ToSet(todo) <=> j \in ToSet(unit.todo))
        BY <1>7, <1>9, <3>2
      <4> QED
        BY <4>1
    <3> QED
      BY <3>1, <3>2
  <2> QED
    BY <1>9, <1>10, <2>2 DEF Full
<1>13. Making(input, unit') = Making(input, unit)
  BY <1>9, <1>10, <1>12 DEF Making
<1>14. TypeInv' /\ StageInv'
  BY <1>1, <1>11 DEF BaseInv, TypeInv, StageInv
<1>15. UnitInv'
  <2>1. ToSet(todo) \subseteq DOMAIN ctx
    BY <1>3, <1>7, <1>9
  <2> HIDE DEF todo
  <2> QED
    BY <1>1, <1>3, <1>7, <1>10, <2>1 DEF UnitInv
<1>16. JobInv'
  BY <1>2, JobIdle
<1> QED
  BY <1>2, <1>3, <1>10, <1>11, <1>13, <1>14, <1>15, <1>16 DEF BaseInv

\* The first of a name is one of that name.
LEMMA FirstNamed ==
  ASSUME NEW S, NEW list \in List(S), NEW name,
         \E i \in DOMAIN list : list[i].name = name
  PROVE  LET i == Min({j \in DOMAIN list : list[j].name = name}) IN
         /\ i \in 1 .. Len(list) /\ DOMAIN list = 1 .. Len(list) /\ Len(list) \in Nat
         /\ list[i] \in S /\ list[i].name = name
         /\ \A j \in DOMAIN list : list[j].name = name => i <= j
<1> DEFINE T == {j \in DOMAIN list : list[j].name = name}
<1>1. DOMAIN list = 1 .. Len(list) /\ Len(list) \in Nat /\ \A j \in 1 .. Len(list) : list[j] \in S
  BY DEF List
<1>2. T \in SUBSET Nat /\ T # {}
  BY <1>1
<1>3. Min(T) \in T /\ \A j \in T : Min(T) <= j
  <2> HIDE DEF T
  <2> QED
    BY <1>2, LeastIs
<1> QED
  BY <1>1, <1>3

\* A unit that has no more keys to expand says what it means.
LEMMA MakingDone ==
  ASSUME NEW in, NEW u \in UnitRecs, u.todo = <<>>
  PROVE  Making(in, u) = IF "exec" \in DOMAIN u.ctx
                           THEN <<Service(in.source, u.ctx, u.name, u.demand)>> ELSE <<>>
<1>1. u.ctx \in Contexts
  BY DEF UnitRecs
<1>2. u.ctx = [k \in DOMAIN u.ctx |-> u.ctx[k]]
  BY <1>1, ContextShape
<1>3. \A k : k \notin ToSet(u.todo)
  BY DEF ToSet
<1>4. Full(u) = [k \in DOMAIN u.ctx |-> u.ctx[k]]
  BY <1>3 DEF Full
<1> QED
  BY <1>2, <1>4 DEF Making

\* Another element in the place of one.
LEMMA ListExcept ==
  ASSUME NEW A, NEW s \in List(A), NEW a \in A, NEW k \in 1 .. Len(s)
  PROVE  LET l == [s EXCEPT ![k] = a] IN
         /\ l \in List(A) /\ Len(l) = Len(s) /\ Len(s) \in Nat
         /\ DOMAIN l = 1 .. Len(s) /\ DOMAIN s = 1 .. Len(s)
         /\ l[k] = a /\ \A i \in 1 .. Len(s) : i # k => l[i] = s[i]
BY DEF List

\* The services when the unit in hand has been made: one that is made again
\* takes the place of the one before.
Replaces(u) == u.demand /\ Known(u.name) /\ Making(input, u) # <<>>

Placed(u) == IF Replaces(u) THEN [services EXCEPT ![Place(u.name)] = Making(input, u)[1]]
                            ELSE services \o Making(input, u)

\* The unit in hand is made, or dropped.
LEMMA BuildKeeps ==
  ASSUME BaseInv, Build \/ BuildFails
  PROVE  /\ BaseInv' /\ unit \in UnitRecs /\ unit' = NoUnit
         /\ services' = Placed(unit) /\ services' \in List(Services(input))
         /\ Making(input, unit) \in List(Services(input)) /\ services \in List(Services(input))
         /\ IF unit.demand
              THEN /\ stage = "ready" /\ event # NoReport
                   /\ started' = Append(started, Done(unit.name, Making(input, unit), FALSE))
              ELSE stage = "units" /\ UNCHANGED started
<1> USE DEF treeVars, parsedVars, eventVars
<1>1. /\ unit # NoUnit /\ unit.todo = <<>> /\ pass = "idle" /\ unit' = NoUnit
      /\ UNCHANGED <<expVars, input, stage, stack, templates, rules, reports, event, pending, targets>>
  BY DEF Build, BuildFails, AllExpanded
<1>2. /\ unit \in UnitRecs /\ (stage = (IF unit.demand THEN "ready" ELSE "units"))
      /\ (unit.demand => event # NoReport) /\ pending = <<>>
      /\ services \in List(Services(input)) /\ started \in List(Starts(input))
  BY <1>1 DEF BaseInv, TypeInv, UnitInv
<1>3. unit.name \in Text /\ unit.ctx \in Contexts /\ unit.demand \in BOOLEAN
  BY <1>2 DEF UnitRecs
<1>4. Making(input, unit) \in List(Services(input))
  BY <1>2, MakingType
<1> DEFINE service == Service(input.source, unit.ctx, unit.name, unit.demand)
           start == Done(unit.name, Making(input, unit), FALSE)
           place == Place(unit.name)
<1>5. /\ services' = Placed(unit) /\ services' \in List(Services(input))
      /\ started' = IF unit.demand THEN Append(started, start) ELSE started
  <2>1. CASE Build
    <3>1. /\ "exec" \in DOMAIN unit.ctx
          /\ services' = IF unit.demand /\ Known(unit.name) THEN [services EXCEPT ![place] = service]
                                                            ELSE Append(services, service)
          /\ started' = IF unit.demand THEN Append(started, Done(unit.name, <<service>>, FALSE)) ELSE started
      BY <2>1 DEF Build
    <3>2. Making(input, unit) = <<service>>
      BY <1>1, <1>2, <3>1, MakingDone
    <3>3. service \in Services(input)
      BY <1>3 DEF Services
    <3>4. Known(unit.name) => place \in 1 .. Len(services)
      BY <1>2, FirstNamed DEF Known, Place
    <3> HIDE DEF service, place
    <3>5. /\ Append(services, service) = services \o <<service>>
          /\ Append(services, service) \in List(Services(input))
      BY <1>2, <3>3, ListAppend
    <3>6. Known(unit.name) => [services EXCEPT ![place] = service] \in List(Services(input))
      <4> DEFINE T == Services(input)
      <4> HIDE DEF T
      <4>1. services \in List(T) /\ service \in T
        BY <1>2, <3>3 DEF T
      <4>2. Known(unit.name) => [services EXCEPT ![place] = service] \in List(T)
        BY <3>4, <4>1, ListExcept
      <4> QED
        BY <4>2 DEF T
    <3>7. Making(input, unit)[1] = service /\ Making(input, unit) # <<>>
      BY <3>2
    <3>8. services' = Placed(unit)
      BY <3>1, <3>2, <3>5, <3>7 DEF Placed, Replaces, place
    <3> QED
      BY <3>1, <3>2, <3>5, <3>6, <3>8
  <2>2. CASE BuildFails
    <3>1. "exec" \notin DOMAIN unit.ctx /\ services' = services
          /\ started' = IF unit.demand THEN Append(started, Done(unit.name, <<>>, FALSE)) ELSE started
      BY <2>2 DEF BuildFails
    <3>2. Making(input, unit) = <<>>
      BY <1>1, <1>2, <3>1, MakingDone
    <3>3. services \o <<>> = services
      BY <1>2, ListConcat
    <3> QED
      BY <1>2, <3>1, <3>2, <3>3 DEF Placed, Replaces
  <2> QED
    BY <2>1, <2>2
<1>6. started' \in List(Starts(input))
  <2>1. start \in Starts(input)
    BY <1>3, <1>4 DEF Starts, Done
  <2> HIDE DEF start
  <2>2. Append(started, start) \in List(Starts(input))
    BY <1>2, <2>1, ListAppend
  <2> QED
    BY <1>2, <1>5, <2>2
<1>7. TypeInv'
  BY <1>1, <1>5, <1>6 DEF BaseInv, TypeInv
<1>8. StageInv'
  <2>1. stage # "ready" => started' = started
    BY <1>2, <1>5
  <2> QED
    BY <1>1, <2>1 DEF BaseInv, StageInv
<1>9. UnitInv'
  BY <1>1 DEF UnitInv
<1>10. JobInv'
  <2>1. pass' = "idle"
    BY <1>1 DEF expVars
  <2> QED
    BY <2>1, JobIdle
<1>11. ExpInv' /\ MeaningInv'
  BY <1>1, SameJob DEF BaseInv
<1> QED
  BY <1>1, <1>2, <1>4, <1>5, <1>7, <1>8, <1>9, <1>10, <1>11 DEF BaseInv

\* The targets the rules name, as a list.
LEMMA MatchedIs ==
  ASSUME rules \in List(Rules), NEW r \in Device
  PROVE  /\ FlattenSeq([i \in DOMAIN rules |-> Matching(r, rules[i])]) = FlatMap(MatchMap(r), rules)
         /\ FlatMap(MatchMap(r), rules) \in List(Text)
<1>1. \A i \in DOMAIN rules : rules[i] \in Rules
  BY DEF List
<1>2. [i \in DOMAIN rules |-> Matching(r, rules[i])] = [i \in DOMAIN rules |-> MatchMap(r)[rules[i]]]
  BY <1>1 DEF MatchMap
<1>3. FlatMap(MatchMap(r), rules) \in List(Text)
  BY MapTypes, FlatMapType
<1> QED
  BY <1>2, <1>3 DEF FlatMap

\* The second half of a report is one, of the same device.
LEMMA SecondHalfType ==
  ASSUME NEW r \in Device
  PROVE  /\ SecondHalf(r) \in List(Device)
         /\ SecondHalf(r) = <<>> \/ \E h \in Device : SecondHalf(r) = <<h>> /\ SecondHalf(h) = <<>>
<1> DEFINE h == [r EXCEPT !.what = "cleaning"]
<1>1. h \in Device /\ h.what = "cleaning"
  BY DEF Device
<1>2. SecondHalf(r) = <<>> \/ SecondHalf(r) = <<h>>
  BY DEF SecondHalf
<1> HIDE DEF h
<1>3. SecondHalf(h) = <<>>
  BY <1>1 DEF SecondHalf
<1>4. <<h>> \in List(Device) /\ <<>> \in List(Device)
  BY <1>1, ListOne DEF List
<1> QED
  BY <1>1, <1>2, <1>3, <1>4

\* A report is taken in hand.
LEMMA ReportKeeps ==
  ASSUME BaseInv, ReportMount \/ Report
  PROVE  /\ BaseInv' /\ unit = NoUnit /\ event = NoReport /\ targets = <<>> /\ pending = <<>>
         /\ event' \in Device /\ stage' = "ready"
         /\ pending' = FlatMap(MatchMap(event'), rules)
         /\ \/ /\ stage = "mounted" /\ event' = MountReport(input.source) /\ reports' = reports
               /\ reports = input.reports /\ started = <<>> /\ input.source # NONE
            \/ /\ stage = "ready" /\ reports # <<>> /\ event' = Head(reports)
               /\ reports' = SecondHalf(Head(reports)) \o Tail(reports)
<1> USE DEF treeVars, parsedVars, eventVars
<1>1. /\ stage \in {"mounted", "ready"} /\ stage' = "ready" /\ (stage = "ready" => event = NoReport)
      /\ UNCHANGED <<expVars, input, stack, unit, services, templates, rules, targets, started>>
      /\ pending' = FlattenSeq([i \in DOMAIN rules |-> Matching(event', rules[i])])
  BY DEF ReportMount, Report, Handles
<1>2. /\ event = NoReport /\ stack = <<>> /\ pending = <<>> /\ targets = <<>>
      /\ (stage = "mounted" => started = <<>> /\ reports = input.reports /\ input.source # NONE)
  BY <1>1 DEF BaseInv, StageInv
<1>3. unit = NoUnit /\ pass = "idle"
  BY <1>1, <1>2, Quiet
<1>4. reports \in List(Device) /\ rules \in List(Rules) /\ input \in Inputs
  BY DEF BaseInv, TypeInv
<1>5. /\ event' \in Device /\ reports' \in List(Device)
      /\ \/ stage = "mounted" /\ event' = MountReport(input.source) /\ reports' = reports
         \/ stage = "ready" /\ reports # <<>> /\ event' = Head(reports)
               /\ reports' = SecondHalf(Head(reports)) \o Tail(reports)
  <2>1. CASE ReportMount
    <3>1. stage = "mounted" /\ event' = MountReport(input.source) /\ reports' = reports
      BY <2>1 DEF ReportMount, Handles
    <3>2. input.source \in Text
      BY <1>2, <1>4, <3>1, InputTypes
    <3>3. MountReport(input.source) \in Device
      BY <3>2, MountReportType
    <3> QED
      BY <1>4, <3>1, <3>3
  <2>2. CASE Report
    <3>1. stage = "ready" /\ reports # <<>> /\ event' = Head(reports)
               /\ reports' = SecondHalf(Head(reports)) \o Tail(reports)
      BY <2>2 DEF Report, Handles
    <3>2. Head(reports) \in Device /\ Tail(reports) \in List(Device)
      BY <1>4, <3>1, ListHead
    <3> DEFINE r == Head(reports)
    <3> HIDE DEF r
    <3>3. SecondHalf(r) \in List(Device)
      BY <3>2, SecondHalfType DEF r
    <3>4. SecondHalf(r) \o Tail(reports) \in List(Device)
      BY <3>2, <3>3, ListConcat
    <3> QED
      BY <3>1, <3>2, <3>4 DEF r
  <2> QED
    BY <2>1, <2>2
<1>6. event' # NoReport
  BY <1>5, NotNothing
<1>7. pending' = FlatMap(MatchMap(event'), rules) /\ pending' \in List(Text)
  <2> DEFINE r == event'
  <2>1. r \in Device
    BY <1>5
  <2>2. pending' = FlattenSeq([i \in DOMAIN rules |-> Matching(r, rules[i])])
    BY <1>1
  <2> HIDE DEF r
  <2>3. pending' = FlatMap(MatchMap(r), rules) /\ pending' \in List(Text)
    BY <1>4, <2>1, <2>2, MatchedIs
  <2> QED
    BY <2>3 DEF r
<1>8. TypeInv'
  <2>1. stage' \in Stages
    BY <1>1 DEF Stages
  <2> QED
    BY <1>1, <1>5, <1>7, <2>1 DEF BaseInv, TypeInv
<1>9. StageInv'
  BY <1>1, <1>2, <1>6 DEF StageInv
<1>10. UnitInv'
  BY <1>1, <1>3 DEF UnitInv
<1>11. JobInv'
  <2>1. pass' = "idle"
    BY <1>1, <1>3 DEF expVars
  <2> QED
    BY <2>1, JobIdle
<1>12. ExpInv' /\ MeaningInv'
  BY <1>1, SameJob DEF BaseInv
<1>13. BaseInv'
  BY <1>8, <1>9, <1>10, <1>11, <1>12 DEF BaseInv
<1> QED
  BY <1>1, <1>2, <1>3, <1>5, <1>7, <1>13

\* A target has been expanded.
LEMMA ResolvedKeeps ==
  ASSUME BaseInv, Resolved
  PROVE  /\ BaseInv' /\ event \in Device /\ unit = NoUnit /\ stage = "ready"
         /\ pending # <<>> /\ pending' = Tail(pending)
         /\ Meaning(Head(pending), DeviceName(event.name)) \in Text
         /\ targets' = Append(targets, Meaning(Head(pending), DeviceName(event.name)))
<1> USE DEF treeVars, parsedVars, eventVars
<1>1. /\ event # NoReport /\ unit = NoUnit /\ Take
      /\ pending' = Tail(pending) /\ targets' = Append(targets, out)
      /\ UNCHANGED <<input, stage, stack, unit, services, templates, rules, reports, event, started>>
  BY DEF Resolved
<1>2. /\ ExpInv' /\ MeaningInv' /\ pass = "done" /\ pass' = "idle"
      /\ out \in Text /\ out = Meaning(job.text, job.with)
  BY <1>1, TakenJob DEF BaseInv
<1>3. pending # <<>> /\ job = TargetJob
  BY <1>1, <1>2 DEF BaseInv, JobInv
<1>4. out = Meaning(Head(pending), DeviceName(event.name))
  BY <1>2, <1>3 DEF TargetJob
<1>5. event \in Device /\ stage = "ready" /\ pending \in List(Text) /\ targets \in List(Text)
  BY <1>1 DEF BaseInv, TypeInv, StageInv
<1>6. pending' \in List(Text) /\ targets' \in List(Text)
  BY <1>1, <1>2, <1>3, <1>5, ListHead, ListAppend
<1>7. TypeInv' /\ StageInv' /\ UnitInv'
  BY <1>1, <1>6 DEF BaseInv, TypeInv, StageInv, UnitInv
<1>8. JobInv'
  BY <1>2, JobIdle
<1>9. BaseInv'
  BY <1>2, <1>7, <1>8 DEF BaseInv
<1> QED
  BY <1>1, <1>2, <1>3, <1>4, <1>5, <1>9

\* What a target comes to without a unit being made: the unit that is there, and
\* need not be made again, or nothing.
Comes(name, service, active) ==
    \/ /\ event.what = "removed" /\ ~active
       /\ service = IF Known(name) THEN <<ServiceOf(name)>> ELSE <<>>
    \/ /\ event.what # "removed" /\ Known(name)
       /\ service = <<ServiceOf(name)>> /\ ~Refreshed(ServiceOf(name), active)
    \/ /\ event.what # "removed" /\ Wanted(name) /\ ~active
       /\ HasTemplate(name) => ~Parses(input, TemplateFile(name))
       /\ service = <<>>

\* What is found by a name is a service.
LEMMA FoundType ==
  ASSUME services \in List(Services(input)), NEW name
  PROVE  /\ (IF Known(name) THEN <<ServiceOf(name)>> ELSE <<>>) \in List(Services(input))
         /\ Known(name) => <<ServiceOf(name)>> \in List(Services(input))
         /\ <<>> \in List(Services(input))
<1>1. <<>> \in List(Services(input))
  BY DEF List
<1>2. ASSUME Known(name)
      PROVE  <<ServiceOf(name)>> \in List(Services(input))
  <2> DEFINE s == ServiceOf(name)
  <2>1. s \in Services(input)
    BY <1>2, FirstNamed DEF Known, ServiceOf, Place
  <2> HIDE DEF s
  <2>2. <<s>> \in List(Services(input))
    BY <2>1, ListOne
  <2> QED
    BY <2>2 DEF s
<1> QED
  BY <1>1, <1>2

\* What a target starts or stops: a unit that is there, or nothing.
LEMMA StartKeeps ==
  ASSUME BaseInv, StopTarget \/ StartKnown \/ StartUnknown
  PROVE  /\ BaseInv' /\ event \in Device /\ unit = NoUnit /\ stage = "ready" /\ pending = <<>>
         /\ targets # <<>> /\ Head(targets) \in Text /\ targets' = Tail(targets)
         /\ \E service \in List(Services(input)), active \in BOOLEAN :
              /\ Comes(Head(targets), service, active)
              /\ started' = Append(started, Done(Head(targets), service, active))
<1> USE DEF treeVars, parsedVars, eventVars
<1> DEFINE name == Head(targets)
<1>1. /\ unit = NoUnit /\ pass = "idle" /\ event # NoReport /\ pending = <<>> /\ targets # <<>>
      /\ targets' = Tail(targets)
      /\ UNCHANGED <<expVars, input, stage, stack, unit, services, templates, rules, reports, event, pending>>
  BY DEF StopTarget, StartKnown, StartUnknown, MayStart, AtTarget, Idle
<1>2. /\ event \in Device /\ stage = "ready" /\ targets \in List(Text) /\ started \in List(Starts(input))
      /\ services \in List(Services(input))
  BY <1>1 DEF BaseInv, TypeInv, StageInv
<1>3. name \in Text /\ targets' \in List(Text)
  BY <1>1, <1>2, ListHead
<1>4. PICK service \in List(Services(input)), active \in BOOLEAN :
        /\ Comes(name, service, active)
        /\ started' = Append(started, Done(name, service, active))
  <2>1. CASE StopTarget
    <3> DEFINE service == IF Known(name) THEN <<ServiceOf(name)>> ELSE <<>>
    <3>1. event.what = "removed" /\ started' = Append(started, Done(name, service, FALSE))
      BY <2>1 DEF StopTarget
    <3>2. service \in List(Services(input))
      BY <1>2, FoundType
    <3>3. Comes(name, service, FALSE)
      BY <3>1 DEF Comes
    <3> HIDE DEF name, service
    <3> QED
      BY <3>1, <3>2, <3>3
  <2>2. CASE StartKnown
    <3> DEFINE service == <<ServiceOf(name)>>
    <3>1. PICK active \in Actives(ServiceOf(name)) :
            /\ ~Refreshed(ServiceOf(name), active)
            /\ started' = Append(started, Done(name, service, active))
      BY <2>2 DEF StartKnown
    <3>2. Known(name) /\ event.what # "removed" /\ active \in BOOLEAN
      BY <2>2 DEF StartKnown, MayStart, Actives
    <3>3. service \in List(Services(input))
      BY <1>2, <3>2, FoundType
    <3>4. Comes(name, service, active)
      BY <3>1, <3>2 DEF Comes
    <3> HIDE DEF name, service
    <3> QED
      BY <3>1, <3>2, <3>3, <3>4
  <2>3. CASE StartUnknown
    <3> DEFINE service == <<>>
    <3>1. /\ event.what # "removed" /\ Wanted(name)
          /\ HasTemplate(name) => ~Parses(input, TemplateFile(name))
          /\ started' = Append(started, Done(name, service, FALSE))
      BY <2>3 DEF StartUnknown, MayStart
    <3>2. service \in List(Services(input))
      BY <1>2, FoundType
    <3>3. Comes(name, service, FALSE)
      BY <3>1 DEF Comes
    <3> HIDE DEF name, service
    <3> QED
      BY <3>1, <3>2, <3>3
  <2> QED
    BY <2>1, <2>2, <2>3
<1> HIDE DEF name
<1>5. started' \in List(Starts(input))
  <2> DEFINE start == Done(name, service, active)
  <2>1. start \in Starts(input)
    BY <1>3, <1>4 DEF Starts, Done
  <2> HIDE DEF start
  <2>2. Append(started, start) \in List(Starts(input))
    BY <1>2, <2>1, ListAppend
  <2> QED
    BY <1>4, <2>2 DEF start
<1>6. TypeInv' /\ StageInv' /\ UnitInv'
  BY <1>1, <1>2, <1>3, <1>5 DEF BaseInv, TypeInv, StageInv, UnitInv
<1>7. JobInv'
  <2>1. pass' = "idle"
    BY <1>1 DEF expVars
  <2> QED
    BY <2>1, JobIdle
<1>8. ExpInv' /\ MeaningInv'
  BY <1>1, SameJob DEF BaseInv
<1>9. BaseInv'
  BY <1>6, <1>7, <1>8 DEF BaseInv
<1> QED
  BY <1>1, <1>2, <1>3, <1>4, <1>9 DEF name

\* The unit put in hand for a target becomes what a template makes of it.
LEMMA StartInstanceKeeps ==
  ASSUME BaseInv, StartInstance, templates = TemplatesMeant(input)
  PROVE  /\ BaseInv' /\ event \in Device /\ unit = NoUnit /\ stage = "ready" /\ pending = <<>>
         /\ targets # <<>> /\ Head(targets) \in Text /\ targets' = Tail(targets)
         /\ Wanted(Head(targets)) /\ event.what # "removed"
         /\ unit' \in UnitRecs /\ unit'.name = Head(targets) /\ unit'.demand = TRUE
         /\ Making(input, unit') = MadeOf(input, Head(targets), event.value)
<1> USE DEF treeVars, parsedVars, eventVars
<1> DEFINE name == Head(targets)
<1>1. /\ unit = NoUnit /\ pass = "idle" /\ event # NoReport /\ pending = <<>> /\ targets # <<>>
      /\ targets' = Tail(targets) /\ Wanted(name) /\ event.what # "removed"
      /\ HasTemplate(name) /\ Parses(input, TemplateFile(name))
      /\ unit' = Demanded(name, event.value)
      /\ UNCHANGED <<expVars, input, stage, stack, services, templates, rules>>
      /\ UNCHANGED <<reports, event, pending, started>>
  BY DEF StartInstance, MayStart, AtTarget, Idle, Demanded, Parse, Fresh
<1>2. /\ event \in Device /\ stage = "ready" /\ targets \in List(Text) /\ input \in Inputs
      /\ templates \in List(Templates(input))
  BY <1>1 DEF BaseInv, TypeInv, StageInv
<1>3. name \in Text /\ targets' \in List(Text) /\ event.value \in Text \cup {NONE}
  BY <1>1, <1>2, ListHead DEF Device
<1> HIDE DEF name
<1>4. /\ unit' \in UnitRecs /\ unit'.name = name /\ unit'.demand = TRUE
      /\ Making(input, unit') = MadeOf(input, name, event.value)
  BY <1>1, <1>2, <1>3, MadeOfIs
<1>5. unit'.todo = ToExpand(unit'.ctx)
  BY <1>1 DEF Demanded, Fresh
<1>6. unit'.ctx \in Contexts
  BY <1>4 DEF UnitRecs
<1>7. TypeInv' /\ StageInv'
  BY <1>1, <1>2, <1>3, <1>4 DEF BaseInv, TypeInv, StageInv
<1>8. UnitInv'
  <2>1. IsInjective(unit'.todo) /\ ToSet(unit'.todo) \subseteq DOMAIN unit'.ctx
    BY <1>5, <1>6, ToExpandIs
  <2> QED
    BY <1>1, <1>2, <1>4, <2>1 DEF UnitInv
<1>9. JobInv'
  <2>1. pass' = "idle"
    BY <1>1 DEF expVars
  <2> QED
    BY <2>1, JobIdle
<1>10. ExpInv' /\ MeaningInv'
  BY <1>1, SameJob DEF BaseInv
<1>11. BaseInv'
  BY <1>7, <1>8, <1>9, <1>10 DEF BaseInv
<1> QED
  BY <1>1, <1>2, <1>3, <1>4, <1>11 DEF name

\* A report is done with.
LEMMA HandledKeeps ==
  ASSUME BaseInv, Handled
  PROVE  /\ BaseInv' /\ unit = NoUnit /\ pending = <<>> /\ targets = <<>> /\ stage = "ready"
<1> USE DEF treeVars, parsedVars, eventVars
<1>1. /\ unit = NoUnit /\ pass = "idle" /\ event # NoReport /\ pending = <<>> /\ targets = <<>>
      /\ event' = NoReport
      /\ UNCHANGED <<expVars, input, stage, stack, unit, services, templates, rules>>
      /\ UNCHANGED <<reports, pending, targets, started>>
  BY DEF Handled, Idle
<1>2. stage = "ready"
  BY <1>1 DEF BaseInv, StageInv
<1>3. TypeInv' /\ StageInv' /\ UnitInv'
  BY <1>1, <1>2 DEF BaseInv, TypeInv, StageInv, UnitInv
<1>4. JobInv'
  <2>1. pass' = "idle"
    BY <1>1 DEF expVars
  <2> QED
    BY <2>1, JobIdle
<1>5. ExpInv' /\ MeaningInv'
  BY <1>1, SameJob DEF BaseInv
<1> QED
  BY <1>1, <1>2, <1>3, <1>4, <1>5 DEF BaseInv

\* Nothing happens.
LEMMA StutterKeeps ==
  ASSUME BaseInv, UNCHANGED vars
  PROVE  BaseInv'
<1>1. UNCHANGED <<expVars, input, stage, stack, unit, services, templates, rules>>
      /\ UNCHANGED <<reports, event, pending, targets, started>>
  BY DEF vars, treeVars, parsedVars, eventVars
<1>2. ExpInv' /\ MeaningInv'
  BY <1>1, SameJob DEF BaseInv
<1>3. TypeInv' /\ StageInv' /\ UnitInv'
  BY <1>1 DEF BaseInv, TypeInv, StageInv, UnitInv
<1>4. JobInv'
  BY <1>1 DEF BaseInv, JobInv, KeyJob, TargetJob, expVars
<1> QED
  BY <1>2, <1>3, <1>4 DEF BaseInv

-----------------------------------------------------------------------------
(* What has been read, and what is left, of the two directories            *)

InHand(in, u) == IF u = NoUnit THEN <<>> ELSE Making(in, u)

\* The services, the unit in hand and the files that are left make up what the
\* units directory means; so do the templates and the files that are left.
UnitsInv ==
    LET files == Remaining(input, stack) IN
    /\ stage \in {"start", "failed"} => services = <<>> /\ templates = <<>>
    /\ stage = "units" =>
         /\ services \o (InHand(input, unit) \o UnitsLeft(input, files)) = UnitsMeant(input)
         /\ templates \o TemplatesLeft(input, files) = TemplatesMeant(input)
    /\ stage \in {"scanned", "rules", "mounted"} => services = UnitsMeant(input)
    /\ stage \in {"scanned", "rules", "mounted", "ready"} => templates = TemplatesMeant(input)

RulesInv ==
    /\ stage \in {"start", "units", "scanned", "failed"} => rules = <<>>
    /\ stage = "rules" => rules \o RulesLeft(input, Remaining(input, stack)) = RulesMeant(input)
    /\ stage \in {"mounted", "ready"} => rules = RulesMeant(input)

\* Nothing of a directory that has just been opened is read.
LEMMA RemainingOpened ==
  ASSUME NEW in \in Inputs, NEW dir, Readable(in, dir)
  PROVE  Remaining(in, <<Opened(in, dir)>>) = Under(in, dir)
<1> DEFINE o == Opened(in, dir)
<1>1. o \in Frames /\ FilesLeft(in, o) = Under(in, dir)
  BY OpenedLeft
<1> HIDE DEF o
<1>2. FlatMap(FrameMap(in), <<o>>) = FrameMap(in)[o]
  BY <1>1, FrameMapType, FlatMapOne
<1>3. FrameMap(in)[o] = FilesLeft(in, o)
  BY <1>1 DEF FrameMap
<1> QED
  BY <1>1, <1>2, <1>3 DEF Remaining, o

\* Nothing is under a directory that cannot be read.
LEMMA UnderNothing ==
  ASSUME NEW in, NEW dir, ~Readable(in, dir)
  PROVE  Under(in, dir) = <<>>
BY UnderOfIs

\* What is in hand becomes services.
LEMMA InHandType ==
  ASSUME BaseInv
  PROVE  InHand(input, unit) \in List(Services(input))
<1>1. CASE unit = NoUnit
  BY <1>1 DEF InHand, List
<1>2. CASE unit # NoUnit
  <2>1. unit \in UnitRecs
    BY <1>2 DEF BaseInv, TypeInv
  <2> QED
    BY <1>2, <2>1, MakingType DEF InHand
<1> QED
  BY <1>1, <1>2

\* Neither the units read nor those left change.
LEMMA UnitsSame ==
  ASSUME UnitsInv, UNCHANGED <<input, stage, services, templates>>,
         stage = "units" => /\ Remaining(input, stack') = Remaining(input, stack)
                            /\ InHand(input, unit') = InHand(input, unit)
  PROVE  UnitsInv'
BY DEF UnitsInv

\* Neither the rules read nor those left change.
LEMMA RulesSame ==
  ASSUME RulesInv, UNCHANGED <<input, stage, rules>>,
         stage = "rules" => Remaining(input, stack') = Remaining(input, stack)
  PROVE  RulesInv'
BY DEF RulesInv

\* All units are left when the units directory is opened.
LEMMA OpenUnitsWalks ==
  ASSUME BaseInv, UnitsInv, RulesInv, OpenUnits
  PROVE  UnitsInv' /\ RulesInv'
<1>1. /\ stage = "start" /\ UNCHANGED <<input, unit, services, templates, rules>>
      /\ services = <<>> /\ templates = <<>> /\ rules = <<>>
  BY DEF OpenUnits, parsedVars, UnitsInv, RulesInv
<1>2. input \in Inputs /\ event = NoReport
  BY <1>1 DEF BaseInv, TypeInv, StageInv
<1>3. unit' = NoUnit
  BY <1>1, <1>2, Quiet
<1> DEFINE root == UnitsRoot(input)
<1>4. /\ UnitsMeant(input) = UnitsLeft(input, Under(input, root))
      /\ UnitsMeant(input) \in List(Services(input))
      /\ TemplatesMeant(input) = TemplatesLeft(input, Under(input, root))
      /\ TemplatesMeant(input) \in List(Templates(input))
  BY <1>2, UnitsMeantIs, TemplatesMeantIs
<1>5. CASE Readable(input, root)
  <2>1. stage' = "units" /\ stack' = <<Opened(input, root)>>
    BY <1>5 DEF OpenUnits
  <2>2. Remaining(input, stack') = Under(input, root)
    BY <1>2, <1>5, <2>1, RemainingOpened
  <2>3. <<>> \o (<<>> \o UnitsMeant(input)) = UnitsMeant(input)
        /\ <<>> \o TemplatesMeant(input) = TemplatesMeant(input)
    BY <1>4, ListConcat
  <2>4. InHand(input, unit') = <<>>
    BY <1>3 DEF InHand
  <2>5. UnitsInv'
    BY <1>1, <1>4, <2>1, <2>2, <2>3, <2>4 DEF UnitsInv
  <2>6. RulesInv'
    BY <1>1, <2>1 DEF RulesInv
  <2> QED
    BY <2>5, <2>6
<1>6. CASE ~Readable(input, root)
  <2>1. stage' \in {"failed", "scanned"}
    BY <1>6 DEF OpenUnits
  <2>2. UnitsMeant(input) = <<>> /\ TemplatesMeant(input) = <<>>
    BY <1>4, <1>6, UnderNothing, NothingLeft
  <2>3. UnitsInv'
    BY <1>1, <2>1, <2>2 DEF UnitsInv
  <2>4. RulesInv'
    BY <1>1, <2>1 DEF RulesInv
  <2> QED
    BY <2>3, <2>4
<1> QED
  BY <1>5, <1>6

\* All rules are left when the rules directory is opened.
LEMMA OpenRulesWalks ==
  ASSUME BaseInv, UnitsInv, RulesInv, OpenRules
  PROVE  UnitsInv' /\ RulesInv'
<1>1. /\ stage = "scanned" /\ UNCHANGED <<input, unit, services, templates, rules>>
      /\ services = UnitsMeant(input) /\ templates = TemplatesMeant(input) /\ rules = <<>>
  BY DEF OpenRules, parsedVars, UnitsInv, RulesInv
<1>2. input \in Inputs
  BY DEF BaseInv, TypeInv
<1> DEFINE root == RulesRoot(input)
<1>3. RulesMeant(input) = RulesLeft(input, Under(input, root)) /\ RulesMeant(input) \in List(Rules)
  BY <1>2, RulesMeantIs
<1>4. CASE Readable(input, root)
  <2>1. stage' = "rules" /\ stack' = <<Opened(input, root)>>
    BY <1>4 DEF OpenRules
  <2>2. Remaining(input, stack') = Under(input, root)
    BY <1>2, <1>4, <2>1, RemainingOpened
  <2>3. <<>> \o RulesMeant(input) = RulesMeant(input)
    BY <1>3, ListConcat
  <2>4. UnitsInv'
    BY <1>1, <2>1 DEF UnitsInv
  <2>5. RulesInv'
    BY <1>1, <1>3, <2>1, <2>2, <2>3 DEF RulesInv
  <2> QED
    BY <2>4, <2>5
<1>5. CASE ~Readable(input, root)
  <2>1. stage' \in {"mounted", "ready"}
    BY <1>5 DEF OpenRules, Loaded
  <2>2. RulesMeant(input) = <<>>
    BY <1>3, <1>5, UnderNothing, NothingLeft
  <2>3. UnitsInv'
    BY <1>1, <2>1 DEF UnitsInv
  <2>4. RulesInv'
    BY <1>1, <2>1, <2>2 DEF RulesInv
  <2> QED
    BY <2>3, <2>4
<1> QED
  BY <1>4, <1>5

\* Entering or leaving a directory leaves the files that are left.
LEMMA WalkWalks ==
  ASSUME BaseInv, UnitsInv, RulesInv, UnitsWalk \/ RulesWalk
  PROVE  UnitsInv' /\ RulesInv'
<1>1. /\ UNCHANGED <<input, unit, services, templates, rules>>
  BY DEF UnitsWalk, RulesWalk, Walk, Leave, parsedVars
<1>2. /\ Idle
      /\ Remaining(input, stack') = Remaining(input, stack)
      /\ stage' # stage => Remaining(input, stack) = <<>>
      /\ UnitsWalk => stage = "units" /\ stage' \in {"units", "scanned"}
      /\ RulesWalk => stage = "rules" /\ stage' \in {"rules", "mounted", "ready"}
  BY WalkKeeps
<1>3. CASE stage' = stage
  BY <1>1, <1>2, <1>3, UnitsSame, RulesSame
<1>4. CASE stage' # stage /\ UnitsWalk
  <2>1. stage = "units" /\ stage' = "scanned" /\ Remaining(input, stack) = <<>> /\ unit = NoUnit
    BY <1>2, <1>4 DEF Idle
  <2>2. /\ UnitsLeft(input, <<>>) = <<>> /\ TemplatesLeft(input, <<>>) = <<>> /\ InHand(input, unit) = <<>>
    BY <2>1, NothingLeft DEF InHand
  <2>3. /\ services \o (<<>> \o <<>>) = services /\ templates \o <<>> = templates
    <3>1. services \in List(Services(input)) /\ templates \in List(Templates(input))
      BY DEF BaseInv, TypeInv
    <3>2. services \o <<>> = services /\ templates \o <<>> = templates
      BY <3>1, ListConcat
    <3>3. <<>> \o <<>> = <<>>
      OBVIOUS
    <3> QED
      BY <3>2, <3>3
  <2>4. UnitsInv'
    BY <1>1, <2>1, <2>2, <2>3 DEF UnitsInv
  <2>5. RulesInv'
    BY <1>1, <2>1 DEF RulesInv
  <2> QED
    BY <2>4, <2>5
<1>5. CASE stage' # stage /\ RulesWalk
  <2>1. stage = "rules" /\ stage' \in {"mounted", "ready"} /\ Remaining(input, stack) = <<>>
    BY <1>2, <1>5
  <2>2. RulesLeft(input, <<>>) = <<>>
    BY NothingLeft
  <2>3. rules \o <<>> = rules
    <3>1. rules \in List(Rules)
      BY DEF BaseInv, TypeInv
    <3> QED
      BY <3>1, ListConcat
  <2>4. UnitsInv'
    BY <1>1, <2>1 DEF UnitsInv
  <2>5. RulesInv'
    BY <1>1, <2>1, <2>2, <2>3 DEF RulesInv
  <2> QED
    BY <2>4, <2>5
<1> QED
  BY <1>3, <1>4, <1>5

\* A file of the units directory has been looked at.
LEMMA FileWalks ==
  ASSUME BaseInv, UnitsInv, RulesInv, NEW wanted, AtFile("units", wanted), stack' = Advanced,
         UNCHANGED <<input, stage, services, rules>>,
         InHand(input, unit') = UnitIn(input, ThisFile),
         templates' = templates \o TemplateIn(input, ThisFile)
  PROVE  UnitsInv' /\ RulesInv'
<1> DEFINE f == ThisFile
           left == Remaining(input, stack')
<1>1. /\ Idle /\ stage = "units" /\ f \in Files /\ left \in List(Files)
      /\ Remaining(input, stack) = <<f>> \o left /\ input \in Inputs
  <2>1. "units" \in {"units", "rules"}
    OBVIOUS
  <2> QED
    BY <2>1, FileTaken DEF ThisFile
<1>2. services \in List(Services(input)) /\ templates \in List(Templates(input))
  BY DEF BaseInv, TypeInv
<1> HIDE DEF f, left
<1>3. /\ UnitsLeft(input, <<f>> \o left) = UnitIn(input, f) \o UnitsLeft(input, left)
      /\ UnitIn(input, f) \in List(Services(input)) /\ UnitsLeft(input, left) \in List(Services(input))
      /\ TemplatesLeft(input, <<f>> \o left) = TemplateIn(input, f) \o TemplatesLeft(input, left)
      /\ TemplateIn(input, f) \in List(Templates(input))
      /\ TemplatesLeft(input, left) \in List(Templates(input))
  BY <1>1, LeftHead
<1>4. InHand(input, unit) = <<>>
  BY <1>1 DEF Idle, InHand
<1>5. <<>> \o (UnitIn(input, f) \o UnitsLeft(input, left)) = UnitIn(input, f) \o UnitsLeft(input, left)
  BY <1>3, ListConcat
<1>6. services \o (UnitIn(input, f) \o UnitsLeft(input, left)) = UnitsMeant(input)
  BY <1>1, <1>3, <1>4, <1>5 DEF UnitsInv
<1>7. (templates \o TemplateIn(input, f)) \o TemplatesLeft(input, left)
        = templates \o (TemplateIn(input, f) \o TemplatesLeft(input, left))
  BY <1>2, <1>3, ListAssociative
<1>8. templates \o (TemplateIn(input, f) \o TemplatesLeft(input, left)) = TemplatesMeant(input)
  BY <1>1, <1>3 DEF UnitsInv
<1>9. UnitsInv'
  BY <1>1, <1>6, <1>7, <1>8 DEF UnitsInv, f, left
<1>10. RulesInv'
  BY <1>1 DEF RulesInv
<1> QED
  BY <1>9, <1>10

\* A file that holds nothing is passed.
LEMMA SkipWalks ==
  ASSUME BaseInv, UnitsInv, RulesInv, SkipUnit
  PROVE  UnitsInv' /\ RulesInv'
<1>1. /\ AtFile("units", SkipWanted)
      /\ UnitIn(input, ThisFile) = <<>> /\ TemplateIn(input, ThisFile) = <<>>
  BY SkipKeeps
<1>2. stack' = Advanced /\ UNCHANGED <<input, stage, services, rules, templates, unit>>
  BY DEF SkipUnit, parsedVars
<1>3. InHand(input, unit') = <<>>
  BY <1>1, <1>2 DEF AtFile, Idle, InHand
<1>4. templates \o <<>> = templates
  BY ListConcat DEF BaseInv, TypeInv
<1> QED
  BY <1>1, <1>2, <1>3, <1>4, FileWalks

\* A template that was left has been read.
LEMMA FoundTemplateWalks ==
  ASSUME BaseInv, UnitsInv, RulesInv, FoundTemplate
  PROVE  UnitsInv' /\ RulesInv'
<1>1. /\ AtFile("units", TemplateWanted) /\ UnitIn(input, ThisFile) = <<>>
      /\ templates' = templates \o TemplateIn(input, ThisFile)
  BY FoundTemplateKeeps
<1>2. stack' = Advanced /\ UNCHANGED <<input, stage, services, rules, unit>>
  BY DEF FoundTemplate
<1>3. InHand(input, unit') = <<>>
  BY <1>1, <1>2 DEF AtFile, Idle, InHand
<1> QED
  BY <1>1, <1>2, <1>3, FileWalks

\* A unit that was left is in hand.
LEMMA FoundUnitWalks ==
  ASSUME BaseInv, UnitsInv, RulesInv, FoundUnit
  PROVE  UnitsInv' /\ RulesInv'
<1>1. /\ AtFile("units", UnitWanted) /\ TemplateIn(input, ThisFile) = <<>>
      /\ \/ unit' = NoUnit /\ UnitIn(input, ThisFile) = <<>>
         \/ unit' \in UnitRecs /\ UnitIn(input, ThisFile) = Making(input, unit')
  BY FoundUnitKeeps
<1>2. stack' = Advanced /\ UNCHANGED <<input, stage, services, rules, templates>>
  BY DEF FoundUnit, parsedVars
<1>3. InHand(input, unit') = UnitIn(input, ThisFile)
  BY <1>1, NotNothing DEF InHand
<1>4. templates \o <<>> = templates
  BY ListConcat DEF BaseInv, TypeInv
<1> QED
  BY <1>1, <1>2, <1>3, <1>4, FileWalks

\* The rules of a file that was left have been read.
LEMMA ReadRulesWalks ==
  ASSUME BaseInv, UnitsInv, RulesInv, ReadRules
  PROVE  UnitsInv' /\ RulesInv'
<1> DEFINE f == ThisFile
           left == Remaining(input, stack')
<1>1. /\ AtFile("rules", TRUE) /\ rules' = rules \o RulesIn(SectionsIn(input, f))
  BY ReadRulesKeeps
<1>2. stack' = Advanced /\ UNCHANGED <<input, stage, services, templates, unit>>
  BY DEF ReadRules
<1>3. /\ stage = "rules" /\ f \in Files /\ left \in List(Files)
      /\ Remaining(input, stack) = <<f>> \o left /\ input \in Inputs
  <2>1. "rules" \in {"units", "rules"}
    OBVIOUS
  <2> QED
    BY <1>1, <1>2, <2>1, FileTaken DEF ThisFile
<1>4. rules \in List(Rules)
  BY DEF BaseInv, TypeInv
<1> HIDE DEF f, left
<1>5. /\ RulesLeft(input, <<f>> \o left) = RulesIn(SectionsIn(input, f)) \o RulesLeft(input, left)
      /\ RulesIn(SectionsIn(input, f)) \in List(Rules) /\ RulesLeft(input, left) \in List(Rules)
  BY <1>3, LeftHead
<1>6. (rules \o RulesIn(SectionsIn(input, f))) \o RulesLeft(input, left)
        = rules \o (RulesIn(SectionsIn(input, f)) \o RulesLeft(input, left))
  BY <1>4, <1>5, ListAssociative
<1>7. rules' \o RulesLeft(input, left) = RulesMeant(input)
  BY <1>1, <1>3, <1>5, <1>6 DEF RulesInv
<1>8. UnitsInv'
  BY <1>2, <1>3, UnitsSame
<1>9. RulesInv'
  BY <1>2, <1>3, <1>7 DEF RulesInv, left
<1> QED
  BY <1>8, <1>9

\* The unit that was in hand is among the services, or was none.
LEMMA BuildWalks ==
  ASSUME BaseInv, UnitsInv, RulesInv, Build \/ BuildFails
  PROVE  UnitsInv' /\ RulesInv'
<1>1. /\ unit \in UnitRecs /\ unit' = NoUnit
      /\ services' = Placed(unit)
      /\ Making(input, unit) \in List(Services(input)) /\ services \in List(Services(input))
      /\ stage = (IF unit.demand THEN "ready" ELSE "units")
  BY BuildKeeps
<1>2. UNCHANGED <<input, stage, stack, templates, rules>>
  BY DEF Build, BuildFails, treeVars, parsedVars
<1>3. RulesInv'
  BY <1>2, RulesSame
<1>4. CASE unit.demand
  BY <1>1, <1>2, <1>3, <1>4 DEF UnitsInv
<1>5. CASE ~unit.demand
  <2> DEFINE left == UnitsLeft(input, Remaining(input, stack))
             made == Making(input, unit)
  <2>1. left \in List(Services(input))
    <3>1. input \in Inputs /\ stack \in List(Frames)
      BY DEF BaseInv, TypeInv
    <3>2. Remaining(input, stack) \in List(Files)
      BY <3>1, FrameMapType, FlatMapType DEF Remaining
    <3> QED
      BY <3>1, <3>2, FileMapTypes, FlatMapType DEF UnitsLeft
  <2>2. InHand(input, unit) = made /\ InHand(input, unit') = <<>>
    BY <1>1, NotNothing DEF InHand
  <2>3. services \o (made \o left) = UnitsMeant(input)
    BY <1>1, <1>5, <2>2 DEF UnitsInv
  <2>0. made \in List(Services(input))
    BY <1>1
  <2> HIDE DEF left, made
  <2>4. (services \o made) \o left = services \o (made \o left) /\ <<>> \o left = left
    <3>1. services \in List(Services(input))
      BY <1>1
    <3>2. (services \o made) \o left = services \o (made \o left)
      BY <3>1, <2>0, <2>1, ListAssociative, SMTT(30)
    <3>3. <<>> \o left = left
      BY <2>1, ListConcat
    <3> QED
      BY <3>2, <3>3
  <2>5. services' \o (InHand(input, unit') \o left) = UnitsMeant(input)
    BY <1>1, <1>5, <2>2, <2>3, <2>4 DEF made, Placed, Replaces
  <2>6. UnitsInv'
    BY <1>1, <1>2, <1>5, <2>5 DEF UnitsInv, left
  <2> QED
    BY <1>3, <2>6
<1> QED
  BY <1>3, <1>4, <1>5

CoreInv == BaseInv /\ UnitsInv /\ RulesInv

\* The steps that have nothing to do with the directories.
LEMMA CoreSame ==
  ASSUME CoreInv, BaseInv', UNCHANGED <<input, stage, stack, services, templates, rules>>,
         stage = "units" => InHand(input, unit') = InHand(input, unit)
  PROVE  CoreInv'
<1>1. UnitsInv'
  BY UnitsSame DEF CoreInv
<1>2. RulesInv'
  BY RulesSame DEF CoreInv
<1> QED
  BY <1>1, <1>2 DEF CoreInv

\* A report changes nothing that has been read.
LEMMA ReportWalks ==
  ASSUME CoreInv, ReportMount \/ Report
  PROVE  CoreInv'
<1>1. BaseInv' /\ stage' = "ready" /\ stage \in {"mounted", "ready"}
  BY ReportKeeps DEF CoreInv
<1>2. UNCHANGED <<input, templates, rules>>
  BY DEF ReportMount, Report, Handles, parsedVars
<1>3. UnitsInv'
  BY <1>1, <1>2 DEF CoreInv, UnitsInv
<1>4. RulesInv'
  BY <1>1, <1>2 DEF CoreInv, RulesInv
<1> QED
  BY <1>1, <1>3, <1>4 DEF CoreInv

\* Nothing has been read at first.
LEMMA CoreStarts == Init => CoreInv
<1>1. Init => UnitsInv /\ RulesInv
  BY DEF Init, UnitsInv, RulesInv
<1> QED
  BY <1>1, BaseStarts DEF CoreInv

\* Each action keeps types and control, and what has been read and is left.
LEMMA CoreStep ==
  ASSUME CoreInv, Next
  PROVE  CoreInv'
<1>0. BaseInv /\ UnitsInv /\ RulesInv
  BY DEF CoreInv
<1> USE DEF treeVars, parsedVars
<1>1. CASE OpenUnits
  BY <1>0, <1>1, OpenKeeps, OpenUnitsWalks DEF CoreInv
<1>2. CASE UnitsWalk \/ RulesWalk
  BY <1>0, <1>2, WalkKeeps, WalkWalks DEF CoreInv
<1>3. CASE SkipUnit
  BY <1>0, <1>3, SkipKeeps, SkipWalks DEF CoreInv
<1>4. CASE FoundTemplate
  BY <1>0, <1>4, FoundTemplateKeeps, FoundTemplateWalks DEF CoreInv
<1>5. CASE FoundUnit
  BY <1>0, <1>5, FoundUnitKeeps, FoundUnitWalks DEF CoreInv
<1>6. CASE ExpandKey
  <2>1. BaseInv' /\ UNCHANGED <<input, stage, stack, services, templates, rules, unit>>
    BY <1>0, <1>6, ExpandKeyKeeps DEF ExpandKey
  <2> QED
    BY <2>1, CoreSame
<1>7. CASE Expanding
  <2>1. BaseInv' /\ UNCHANGED <<input, stage, stack, services, templates, rules, unit>>
    BY <1>0, <1>7, ExpandingKeeps DEF Expanding
  <2> QED
    BY <2>1, CoreSame
<1>8. CASE Expanded
  <2>1. BaseInv' /\ UNCHANGED <<input, stage, stack, services, templates, rules>>
    BY <1>0, <1>8, ExpandedKeeps DEF Expanded
  <2>2. unit \in UnitRecs /\ unit' \in UnitRecs /\ Making(input, unit') = Making(input, unit)
    BY <1>0, <1>8, ExpandedKeeps
  <2>3. InHand(input, unit') = InHand(input, unit)
    BY <2>2, NotNothing DEF InHand
  <2> QED
    BY <2>1, <2>3, CoreSame
<1>9. CASE Build \/ BuildFails
  BY <1>0, <1>9, BuildKeeps, BuildWalks DEF CoreInv
<1>10. CASE OpenRules
  BY <1>0, <1>10, OpenKeeps, OpenRulesWalks DEF CoreInv
<1>11. CASE ReadRules
  BY <1>0, <1>11, ReadRulesKeeps, ReadRulesWalks DEF CoreInv
<1>12. CASE ReportMount \/ Report
  BY <1>12, ReportWalks
<1>13. CASE ExpandTarget
  <2>1. BaseInv' /\ UNCHANGED <<input, stage, stack, services, templates, rules, unit>>
    BY <1>0, <1>13, ExpandTargetKeeps DEF ExpandTarget
  <2> QED
    BY <2>1, CoreSame
<1>14. CASE Resolved
  <2>1. BaseInv' /\ UNCHANGED <<input, stage, stack, services, templates, rules, unit>>
    BY <1>0, <1>14, ResolvedKeeps DEF Resolved
  <2> QED
    BY <2>1, CoreSame
<1>15. CASE StopTarget \/ StartKnown \/ StartUnknown
  <2>1. BaseInv' /\ UNCHANGED <<input, stage, stack, services, templates, rules, unit>>
    BY <1>0, <1>15, StartKeeps DEF StopTarget, StartKnown, StartUnknown
  <2> QED
    BY <2>1, CoreSame
<1>16. CASE StartInstance
  <2>1. stage = "ready"
    BY <1>0, <1>16 DEF BaseInv, StageInv, StartInstance, MayStart, AtTarget
  <2>2. templates = TemplatesMeant(input)
    BY <1>0, <2>1 DEF UnitsInv
  <2>3. BaseInv' /\ UNCHANGED <<input, stage, stack, services, templates, rules>>
    BY <1>0, <1>16, <2>2, StartInstanceKeeps DEF StartInstance
  <2> QED
    BY <2>1, <2>3, CoreSame
<1>17. CASE Handled
  <2>1. BaseInv' /\ UNCHANGED <<input, stage, stack, services, templates, rules, unit>>
    BY <1>0, <1>17, HandledKeeps DEF Handled
  <2> QED
    BY <2>1, CoreSame
<1> QED
  BY <1>1, <1>2, <1>3, <1>4, <1>5, <1>6, <1>7, <1>8, <1>9, <1>10, <1>11, <1>12, <1>13, <1>14,
     <1>15, <1>16, <1>17 DEF Next

\* CoreInv is inductive.
LEMMA CoreKeeps == CoreInv /\ [Next]_vars => CoreInv'
<1> SUFFICES ASSUME CoreInv, [Next]_vars
             PROVE  CoreInv'
  OBVIOUS
<1>1. CASE Next
  BY <1>1, CoreStep
<1>2. CASE UNCHANGED vars
  <2>1. BaseInv'
    BY <1>2, StutterKeeps DEF CoreInv
  <2>2. UNCHANGED <<input, stage, stack, services, templates, rules, unit>>
    BY <1>2 DEF vars, treeVars, parsedVars
  <2> QED
    BY <2>1, <2>2, CoreSame
<1> QED
  BY <1>1, <1>2

\* Neither pass of any expansion the system runs writes past what was allocated.
THEOREM UnitFilesFit == Spec => []Fits
<1>1. CoreInv => Fits
  BY ExpInvFits DEF CoreInv, BaseInv
<1> QED
  BY <1>1, CoreStarts, CoreKeeps, PTL DEF Spec

-----------------------------------------------------------------------------
(* The services of the units directory                                     *)

\* list begins with the elements of first.
Begins(list, first) ==
    /\ Len(first) <= Len(list)
    /\ \A i \in 1 .. Len(first) : list[i] = first[i]

\* What a list begins with is what its first elements are.
LEMMA BeginsWith ==
  ASSUME NEW A, NEW list \in List(A), NEW first \in List(A), Begins(list, first)
  PROVE  SubSeq(list, 1, Len(first)) = first
<1>1. /\ list \in Seq(A) /\ first \in Seq(A) /\ Len(list) \in Nat /\ Len(first) \in Nat
      /\ Len(first) <= Len(list)
  BY DEF List, Begins
<1> DEFINE s == SubSeq(list, 1, Len(first))
<1>2. s \in Seq(A) /\ Len(s) = Len(first) /\ \A i \in 1 .. Len(first) : s[i] = list[i]
  BY <1>1
<1> HIDE DEF s
<1>3. s = first
  BY <1>1, <1>2, SeqEqual DEF Begins
<1> QED
  BY <1>3 DEF s

\* A longer list begins with the same.
LEMMA BeginsMore ==
  ASSUME NEW A, NEW list \in List(A), NEW first \in List(A), Begins(list, first), NEW more \in List(A)
  PROVE  Begins(list \o more, first)
<1>1. /\ list \in Seq(A) /\ more \in Seq(A) /\ first \in Seq(A)
      /\ Len(list) \in Nat /\ Len(more) \in Nat /\ Len(first) \in Nat
  BY DEF List
<1>2. /\ Len(list \o more) = Len(list) + Len(more)
      /\ \A i \in 1 .. Len(list) : (list \o more)[i] = list[i]
  BY <1>1, ConcatSet
<1>3. Len(first) <= Len(list)
  BY DEF Begins
<1>4. \A i \in 1 .. Len(first) : i \in 1 .. Len(list)
  BY <1>1, <1>3
<1> QED
  BY <1>1, <1>2, <1>3, <1>4 DEF Begins

\* The service made of a unit has its name, and tells how it was made.
LEMMA MakingIs ==
  ASSUME NEW in, NEW u
  PROVE  \/ Making(in, u) = <<>>
         \/ \E s : Making(in, u) = <<s>> /\ s.name = u.name /\ s.from_template = u.demand
<1> DEFINE s == Service(in.source, Full(u), u.name, u.demand)
<1>1. s.name = u.name /\ s.from_template = u.demand
  BY DEF Service
<1> HIDE DEF s
<1>2. Making(in, u) = IF "exec" \in DOMAIN u.ctx THEN <<s>> ELSE <<>>
  BY DEF Making, s
<1> QED
  BY <1>1, <1>2

DiskServices(in) == {s \in Services(in) : ~s.from_template}

\* No unit of the units directory is made on demand.
LEMMA DiskUnits ==
  ASSUME NEW in \in Inputs
  PROVE  /\ UnitsMeant(in) \in List(Services(in)) /\ Len(UnitsMeant(in)) \in Nat
         /\ \A i \in 1 .. Len(UnitsMeant(in)) : ~UnitsMeant(in)[i].from_template
<1> DEFINE files == Under(in, UnitsRoot(in))
           D == DiskServices(in)
<1>1. ASSUME NEW f \in Files
      PROVE  UnitIn(in, f) \in Seq(D)
  <2> DEFINE reads == HasIni(f.name) /\ ~IsTemplate(f.name) /\ Parses(in, JoinPath(f.dir, f.name))
             u == Parsed(in, f)
             made == Making(in, u)
  <2>1. CASE ~reads
    <3>1. UnitIn(in, f) = <<>>
      BY <2>1, UnitInIs
    <3> QED
      BY <3>1
  <2>2. CASE reads
    <3>1. u \in UnitRecs /\ UnitIn(in, f) = made
      BY <2>2, UnitInIs
    <3>2. u.demand = FALSE
      BY DEF Parsed, InstanceMade, Fresh
    <3>3. made \in Seq(Services(in))
      BY <3>1, MakingType DEF List
    <3> HIDE DEF u
    <3>4. made = <<>> \/ \E s : made = <<s>> /\ s.from_template = u.demand
      BY MakingIs
    <3> HIDE DEF made
    <3>5. CASE made = <<>>
      BY <3>1, <3>5
    <3>6. ASSUME NEW s, made = <<s>>, s.from_template = u.demand
          PROVE  made \in Seq(D)
      <4>1. s \in Services(in)
        <5>1. Len(made) = 1 /\ made[1] = s
          BY <3>6
        <5>2. made[1] \in Services(in)
          BY <3>3, <5>1, ElementOfSeq
        <5> QED
          BY <5>1, <5>2
      <4>2. s \in D
        BY <3>2, <3>6, <4>1 DEF DiskServices
      <4> HIDE DEF D
      <4> QED
        BY <3>6, <4>2
    <3> QED
      BY <3>1, <3>4, <3>5, <3>6
  <2> QED
    BY <2>1, <2>2
<1> HIDE DEF D
<1>2. UnitMap(in) \in Maps(Files, D)
  BY <1>1 DEF UnitMap, Maps
<1>3. files \in List(Files)
  BY UnderType
<1>4. UnitsMeant(in) = FlatMap(UnitMap(in), files) /\ UnitsMeant(in) \in List(Services(in))
  BY UnitsMeantIs DEF UnitsLeft
<1> HIDE DEF files
<1>5. FlatMap(UnitMap(in), files) \in List(D)
  BY <1>2, <1>3, FlatMapType
<1> DEFINE meant == UnitsMeant(in)
<1>6. meant \in Seq(D) /\ meant \in List(Services(in))
  BY <1>4, <1>5 DEF List
<1> HIDE DEF meant
<1>7. Len(meant) \in Nat /\ \A i \in 1 .. Len(meant) : meant[i] \in D
  BY <1>6
<1>8. \A i \in 1 .. Len(meant) : ~meant[i].from_template
  BY <1>7 DEF D, DiskServices
<1> QED
  BY <1>6, <1>7, <1>8 DEF meant

\* A unit that is being made for a target is not there, or is to be made again.
WantedInv ==
    stage = "ready" /\ unit # NoUnit => event.what # "removed" /\ Wanted(unit.name)

\* Whether a name is wanted depends on the services and the report in hand.
LEMMA WantedSame ==
  ASSUME WantedInv, UNCHANGED <<stage, services, event>>,
         unit' # NoUnit => unit # NoUnit /\ unit'.name = unit.name
  PROVE  WantedInv'
<1> SUFFICES ASSUME stage' = "ready", unit' # NoUnit
             PROVE  event'.what # "removed" /\ Wanted(unit.name)'
  BY DEF WantedInv, Wanted, Known, ServiceOf, Place, Refreshed
<1>1. event.what # "removed" /\ Wanted(unit.name)
  BY DEF WantedInv
<1> DEFINE n == unit.name
           n2 == unit'.name
<1>2. n2 = n
  OBVIOUS
<1>3. Wanted(unit.name)' <=> Wanted(n2)
  BY DEF Wanted, Known, ServiceOf, Place, Refreshed
<1> QED
  BY <1>1, <1>2, <1>3

\* WantedInv is inductive, given CoreInv.
LEMMA WantedStep ==
  ASSUME CoreInv, WantedInv, [Next]_vars
  PROVE  WantedInv'
<1>0. BaseInv
  BY DEF CoreInv
<1>1. CASE stage' # "ready" \/ unit' = NoUnit
  BY <1>1 DEF WantedInv
<1>2. CASE stage' = "ready" /\ unit' # NoUnit /\ StartInstance
  <2>1. UNCHANGED <<stage, services, event>>
    BY <1>2 DEF StartInstance, treeVars, parsedVars
  <2>2. stage = "ready" /\ templates = TemplatesMeant(input)
    BY <1>2, <2>1 DEF CoreInv, UnitsInv
  <2>3. Wanted(Head(targets)) /\ event.what # "removed" /\ unit'.name = Head(targets)
    BY <1>0, <1>2, <2>2, StartInstanceKeeps
  <2> DEFINE n == Head(targets)
  <2> HIDE DEF n
  <2>4. Wanted(n) /\ unit'.name = n
    BY <2>3 DEF n
  <2>5. Wanted(unit.name)'
    BY <2>1, <2>4 DEF Wanted, Known, ServiceOf, Place, Refreshed
  <2> QED
    BY <2>1, <2>3, <2>5 DEF WantedInv
<1>3. CASE stage' = "ready" /\ unit' # NoUnit /\ Expanded
  <2>1. UNCHANGED <<stage, services, event>>
    BY <1>3 DEF Expanded, treeVars, parsedVars, eventVars
  <2>2. unit # NoUnit /\ unit'.name = unit.name
    BY <1>0, <1>3, ExpandedKeeps DEF Expanded
  <2> QED
    BY <2>1, <2>2, WantedSame
<1>4. CASE stage' = "ready" /\ unit' # NoUnit /\ ~StartInstance /\ ~Expanded
  <2>1. UNCHANGED <<stage, unit, services, event>>
    BY <1>0, <1>4 DEF BaseInv, UnitInv, Next, vars, OpenUnits, UnitsWalk, Walk, Leave, SkipUnit, FoundTemplate,
         FoundUnit, ExpandKey, Expanding, BuildFails, Build, OpenRules, RulesWalk, ReadRules, ReportMount,
         Report, Handles, AtFile, ExpandTarget, Resolved, StopTarget, StartKnown, StartUnknown, MayStart,
         AtTarget, Idle, Handled, treeVars, parsedVars, eventVars
  <2> QED
    BY <1>4, <2>1, WantedSame
<1> QED
  BY <1>1, <1>2, <1>3, <1>4

\* When devices are reported, the services are those of the units directory,
\* and behind them those made of templates since.
ServicesInv ==
    stage = "ready" =>
        /\ Begins(services, UnitsMeant(input))
        /\ \A i \in Len(UnitsMeant(input)) + 1 .. Len(services) : services[i].from_template

\* A service that is made again is not one of the units directory.
LEMMA ReplacedPlace ==
  ASSUME CoreInv, WantedInv, ServicesInv, stage = "ready", unit # NoUnit, Known(unit.name)
  PROVE  /\ Place(unit.name) \in Len(UnitsMeant(input)) + 1 .. Len(services)
         /\ Place(unit.name) \in 1 .. Len(services)
<1> DEFINE k == Place(unit.name)
           meant == UnitsMeant(input)
<1>1. services \in List(Services(input)) /\ input \in Inputs
  BY DEF CoreInv, BaseInv, TypeInv
<1>2. k \in 1 .. Len(services) /\ Len(services) \in Nat
  BY <1>1, FirstNamed DEF Known, Place
<1>3. services[k].from_template
  BY DEF WantedInv, Wanted, ServiceOf, Refreshed
<1>4. Len(meant) \in Nat /\ \A i \in 1 .. Len(meant) : ~meant[i].from_template
  BY <1>1, DiskUnits
<1>5. \A i \in 1 .. Len(meant) : services[i] = meant[i]
  BY DEF ServicesInv, Begins
<1> HIDE DEF k, meant
<1>6. k \notin 1 .. Len(meant)
  BY <1>3, <1>4, <1>5
<1> QED
  BY <1>2, <1>4, <1>6 DEF k, meant

\* ServicesInv is inductive, given CoreInv and WantedInv.
LEMMA ServicesStep ==
  ASSUME CoreInv, WantedInv, ServicesInv, [Next]_vars
  PROVE  ServicesInv'
<1> DEFINE meant == UnitsMeant(input)
<1>0. /\ BaseInv /\ UnitsInv /\ input \in Inputs /\ meant \in List(Services(input))
      /\ services \in List(Services(input)) /\ Len(meant) \in Nat /\ Len(services) \in Nat
      /\ input' = input
  <2>1. input \in Inputs /\ services \in List(Services(input)) /\ BaseInv /\ UnitsInv
    BY DEF CoreInv, BaseInv, TypeInv
  <2>2. meant \in List(Services(input))
    BY <2>1, UnitsMeantIs
  <2>3. input' = input
    BY DEF Next, vars, OpenUnits, UnitsWalk, Walk, Leave, SkipUnit, FoundTemplate, FoundUnit, ExpandKey,
           Expanding, Expanded, BuildFails, Build, OpenRules, RulesWalk, ReadRules, ReportMount, Report,
           Handles, ExpandTarget, Resolved, StopTarget, StartKnown, StartUnknown, StartInstance, Handled
  <2> QED
    BY <2>1, <2>2, <2>3 DEF List
<1>1. CASE stage' # "ready"
  BY <1>1 DEF ServicesInv
<1>2. CASE stage' = "ready" /\ stage # "ready"
  <2>1. services = meant /\ services' = services
    <3>1. OpenRules \/ RulesWalk \/ ReportMount
      BY <1>0, <1>2, WalkKeeps
        DEF Next, vars, treeVars, OpenUnits, SkipUnit, FoundTemplate, FoundUnit, ExpandKey,
           Expanding, Expanded, BuildFails, Build, ReadRules, Report, Handles,
           ExpandTarget, Resolved, StopTarget, StartKnown, StartUnknown, StartInstance, Handled
    <3>2. stage \in {"scanned", "rules", "mounted"} /\ services' = services
      BY <3>1 DEF OpenRules, RulesWalk, ReportMount, Walk, Leave, Handles, parsedVars
    <3> QED
      BY <1>0, <3>2 DEF UnitsInv
  <2>2. Begins(meant, meant)
    BY <1>0 DEF Begins
  <2>3. \A i \in Len(meant) + 1 .. Len(meant) : FALSE
    BY <1>0
  <2> QED
    BY <1>0, <2>1, <2>2, <2>3 DEF ServicesInv
<1>3. CASE stage' = "ready" /\ stage = "ready" /\ services' = services
  BY <1>0, <1>3 DEF ServicesInv
<1>4. CASE stage' = "ready" /\ stage = "ready" /\ services' # services
  <2>1. Build
    BY <1>4 DEF Next, vars, OpenUnits, UnitsWalk, Walk, Leave, SkipUnit, FoundTemplate, FoundUnit, ExpandKey,
           Expanding, Expanded, BuildFails, OpenRules, RulesWalk, ReadRules, ReportMount, Report, AtFile,
           Handles, ExpandTarget, Resolved, StopTarget, StartKnown, StartUnknown, StartInstance, Handled, parsedVars
  <2> DEFINE made == Making(input, unit)
             k == Place(unit.name)
  <2>2. /\ unit.demand /\ services' = Placed(unit) /\ made \in List(Services(input))
        /\ unit # NoUnit
    BY <1>0, <1>4, <2>1, BuildKeeps DEF Build, AllExpanded
  <2>3. \A i \in 1 .. Len(made) : made[i].from_template
    <3>1. CASE made = <<>>
      BY <3>1
    <3>2. ASSUME NEW s, made = <<s>>, s.from_template = unit.demand
          PROVE  \A i \in 1 .. Len(made) : made[i].from_template
      <4>1. Len(made) = 1 /\ made[1] = s
        BY <3>2
      <4> HIDE DEF made
      <4>2. \A i \in 1 .. Len(made) : i = 1
        BY <4>1
      <4> QED
        BY <2>2, <3>2, <4>1, <4>2
    <3> QED
      BY <3>1, <3>2, MakingIs
  <2>4. CASE ~Replaces(unit)
    <3>0. services' = services \o made
      BY <2>2, <2>4 DEF Placed
    <3> HIDE DEF made
    <3>1. /\ Len(services') = Len(services) + Len(made) /\ Len(made) \in Nat
          /\ \A j \in 1 .. Len(services) : services'[j] = services[j]
          /\ \A j \in 1 .. Len(made) : services'[Len(services) + j] = made[j]
      BY <1>0, <2>2, <3>0, ConcatSet DEF List
    <3>2. Begins(services', meant)
      BY <1>0, <1>4, <2>2, <3>0, BeginsMore DEF ServicesInv
    <3>3. ASSUME NEW i \in Len(meant) + 1 .. Len(services')
          PROVE  services'[i].from_template
      <4>1. CASE i <= Len(services)
        <5>1. i \in Len(meant) + 1 .. Len(services) /\ i \in 1 .. Len(services)
          BY <1>0, <3>1, <4>1
        <5> QED
          BY <1>4, <3>1, <5>1 DEF ServicesInv
      <4>2. CASE i > Len(services)
        <5>1. i - Len(services) \in 1 .. Len(made) /\ Len(services) + (i - Len(services)) = i
          BY <1>0, <3>1, <4>2
        <5> QED
          BY <2>3, <3>1, <5>1
      <4> QED
        BY <1>0, <3>1, <4>1, <4>2
    <3> QED
      BY <1>0, <3>2, <3>3 DEF ServicesInv
  <2>5. CASE Replaces(unit)
    <3> DEFINE a == made[1]
    <3>1. services' = [services EXCEPT ![k] = a] /\ made # <<>> /\ Known(unit.name)
      BY <2>2, <2>5 DEF Placed, Replaces
    <3>2. k \in Len(meant) + 1 .. Len(services) /\ k \in 1 .. Len(services)
      BY <1>4, <2>2, <3>1, ReplacedPlace
    <3>3. a \in Services(input) /\ a.from_template
      <4> HIDE DEF made
      <4>1. 1 \in 1 .. Len(made) /\ made \in Seq(Services(input))
        BY <2>2, <3>1 DEF List
      <4> QED
        BY <2>3, <4>1, ElementOfSeq
    <3> HIDE DEF a, k, meant
    <3>4. /\ Len(services') = Len(services) /\ services'[k] = a
          /\ \A i \in 1 .. Len(services) : i # k => services'[i] = services[i]
      <4> DEFINE T == Services(input)
      <4> HIDE DEF T
      <4>1. services \in List(T) /\ a \in T
        BY <1>0, <3>3 DEF T
      <4> QED
        BY <3>1, <3>2, <4>1, ListExcept
    <3>5. Begins(services', meant)
      <4>1. Begins(services, meant)
        BY <1>4 DEF ServicesInv, meant
      <4>2. \A i \in 1 .. Len(meant) : i \in 1 .. Len(services) /\ i # k
        BY <1>0, <3>2
      <4> QED
        BY <3>4, <4>1, <4>2 DEF Begins
    <3>6. \A i \in Len(meant) + 1 .. Len(services) : services[i].from_template
      BY <1>4 DEF ServicesInv, meant
    <3>7. \A i \in Len(meant) + 1 .. Len(services) : i \in 1 .. Len(services)
      BY <1>0
    <3>8. \A i \in Len(meant) + 1 .. Len(services') : services'[i].from_template
      BY <3>3, <3>4, <3>6, <3>7
    <3> QED
      BY <1>0, <3>5, <3>8 DEF ServicesInv, meant
  <2> QED
    BY <2>4, <2>5
<1> QED
  BY <1>1, <1>2, <1>3, <1>4

\* Every units directory, whatever is in it, becomes the services it means.
THEOREM UnitFilesUnitsRight == Spec => []UnitsRight
<1>1. Init => WantedInv /\ ServicesInv
  BY DEF Init, WantedInv, ServicesInv
<1>2. CoreInv /\ ServicesInv => UnitsRight
  <2> SUFFICES ASSUME CoreInv, ServicesInv, stage \notin {"start", "units", "failed"}
               PROVE  /\ SubSeq(services, 1, Len(UnitsMeant(input))) = UnitsMeant(input)
                      /\ \A i \in Len(UnitsMeant(input)) + 1 .. Len(services) : services[i].from_template
    BY DEF UnitsRight
  <2> DEFINE meant == UnitsMeant(input)
  <2>1. input \in Inputs /\ stage \in Stages /\ services \in List(Services(input))
    BY DEF CoreInv, BaseInv, TypeInv
  <2>2. meant \in List(Services(input)) /\ Len(meant) \in Nat
    BY <2>1, UnitsMeantIs DEF List
  <2>3. stage = "ready" \/ services = meant
    BY <2>1 DEF Stages, CoreInv, UnitsInv
  <2> HIDE DEF meant
  <2>4. CASE stage = "ready"
    BY <2>1, <2>2, <2>4, BeginsWith DEF ServicesInv, meant
  <2>5. CASE services = meant
    <3>1. Begins(meant, meant)
      BY <2>2 DEF Begins
    <3>2. \A i \in Len(meant) + 1 .. Len(meant) : FALSE
      BY <2>2
    <3> QED
      BY <2>2, <2>5, <3>1, <3>2, BeginsWith DEF meant
  <2> QED
    BY <2>3, <2>4, <2>5
<1>3. CoreInv /\ WantedInv /\ ServicesInv /\ [Next]_vars => WantedInv' /\ ServicesInv'
  BY WantedStep, ServicesStep
<1> QED
  BY <1>1, <1>2, <1>3, CoreStarts, CoreKeeps, PTL DEF Spec

-----------------------------------------------------------------------------
(* What a name is to start                                                 *)

Named(list, name) == {i \in DOMAIN list : list[i].name = name}
Made(log, n, name) == {i \in 1 .. n : log[i].target = name /\ log[i].service # <<>>}

\* The service that was last made, or found.
LastOf(log, n, name) == log[Max(Made(log, n, name))].service

\* Expected, of any list of what has been started.
ExpectedOf(in, log, n, m, active) ==
    IF Named(UnitsMeant(in), m.target) # {}
      THEN <<UnitsMeant(in)[Min(Named(UnitsMeant(in), m.target))]>>
    ELSE IF /\ Made(log, n, m.target) # {}
            /\ m.stop \/ ~Renewed(LastOf(log, n, m.target)[1], m, active)
      THEN LastOf(log, n, m.target)
    ELSE IF m.stop THEN <<>> ELSE MadeOf(in, m.target, m.value)

\* What a start is to come to is a matter of what was started before.
LEMMA ExpectedIs ==
  ASSUME NEW in, NEW n, NEW m, NEW active
  PROVE  Expected(in, n, m, active) = ExpectedOf(in, started, n, m, active)
BY DEF Expected, ExpectedOf, Named, Made, LastOf

\* A name is known when a service has it, and finds the first.
LEMMA KnownIs ==
  ASSUME NEW name
  PROVE  /\ Known(name) <=> Named(services, name) # {}
         /\ Place(name) = Min(Named(services, name))
         /\ ServiceOf(name) = services[Min(Named(services, name))]
BY DEF Known, Place, ServiceOf, Named

\* The last start of a name is one of that name.
LEMMA MadeLast ==
  ASSUME NEW S, NEW log \in List(S), NEW n \in 0 .. Len(log), NEW name, Made(log, n, name) # {}
  PROVE  /\ Max(Made(log, n, name)) \in Made(log, n, name)
         /\ Made(log, n, name) \subseteq 1 .. n /\ n \in Nat
         /\ Max(Made(log, n, name)) \in 1 .. n
         /\ \A i \in Made(log, n, name) : i <= Max(Made(log, n, name))
<1> DEFINE T == Made(log, n, name)
<1>1. n \in Nat /\ 1 \in Int
  BY DEF List
<1>2. IsFiniteSet(1 .. n)
  BY <1>1, FS_Interval
<1>3. T \subseteq 1 .. n
  BY DEF Made
<1>4. T # {}
  OBVIOUS
<1> HIDE DEF T
<1>5. IsFiniteSet(T)
  BY <1>2, <1>3, FS_Subset
<1>6. T \in SUBSET Nat
  BY <1>1, <1>3
<1>7. Max(T) \in T /\ \A i \in T : i <= Max(T)
  BY <1>4, <1>5, <1>6, GreatestNumber
<1> QED
  BY <1>1, <1>3, <1>7 DEF T

\* The first of a name has that name.
LEMMA NamedFirst ==
  ASSUME NEW A, NEW list \in List(A), NEW name, Named(list, name) # {}
  PROVE  /\ Min(Named(list, name)) \in Named(list, name) /\ Named(list, name) \in SUBSET Nat
         /\ Min(Named(list, name)) \in 1 .. Len(list) /\ Len(list) \in Nat
         /\ list[Min(Named(list, name))].name = name
         /\ \A i \in Named(list, name) : Min(Named(list, name)) <= i
<1> DEFINE T == Named(list, name)
<1>1. DOMAIN list = 1 .. Len(list) /\ Len(list) \in Nat
  BY DEF List
<1>2. T \in SUBSET Nat /\ \A i \in T : i \in 1 .. Len(list) /\ list[i].name = name
  BY <1>1 DEF Named
<1> HIDE DEF T
<1>3. Min(T) \in T /\ \A i \in T : Min(T) <= i
  BY <1>2, LeastIs DEF T
<1> QED
  BY <1>1, <1>2, <1>3 DEF T

\* The first of a name stays the first when the list gets longer.
LEMMA NamedBegins ==
  ASSUME NEW A, NEW list \in List(A), NEW first \in List(A), Begins(list, first), NEW name,
         Named(first, name) # {}
  PROVE  /\ Named(list, name) # {}
         /\ list[Min(Named(list, name))] = first[Min(Named(first, name))]
<1> DEFINE m == Min(Named(first, name))
<1>1. /\ m \in Named(first, name) /\ m \in 1 .. Len(first) /\ first[m].name = name
      /\ \A i \in Named(first, name) : m <= i
  BY NamedFirst
<1> HIDE DEF m
<1>2. /\ Len(first) \in Nat /\ Len(list) \in Nat /\ Len(first) <= Len(list)
      /\ \A i \in 1 .. Len(first) : list[i] = first[i]
      /\ DOMAIN list = 1 .. Len(list) /\ DOMAIN first = 1 .. Len(first)
  BY DEF List, Begins
<1>3. m \in 1 .. Len(list) /\ list[m] = first[m]
  BY <1>1, <1>2
<1>4. m \in Named(list, name)
  BY <1>1, <1>2, <1>3 DEF Named
<1>5. ASSUME NEW i \in Named(list, name)
      PROVE  m <= i
  <2>1. i \in 1 .. Len(list) /\ list[i].name = name
    BY <1>2 DEF Named
  <2>2. CASE i <= Len(first)
    <3>1. i \in 1 .. Len(first)
      BY <1>2, <2>1, <2>2
    <3>2. i \in Named(first, name)
      BY <1>2, <2>1, <3>1 DEF Named
    <3> QED
      BY <1>1, <3>2
  <2>3. CASE i > Len(first)
    BY <1>1, <1>2, <2>1, <2>3
  <2> QED
    BY <1>2, <2>1, <2>2, <2>3
<1>6. Named(list, name) \in SUBSET Nat
  BY <1>2 DEF Named
<1>7. Min(Named(list, name)) = m
  BY <1>4, <1>5, <1>6, LeastOnly
<1> QED
  BY <1>3, <1>4, <1>7 DEF m

Grown(l, list, s) == l = list \o <<s>>

\* A new name finds the service that brings it.
LEMMA NamedAppend ==
  ASSUME NEW A, NEW list \in List(A), NEW s \in A, NEW name, s.name = name, Named(list, name) = {},
         NEW l, Grown(l, list, s)
  PROVE  Named(l, name) # {} /\ l[Min(Named(l, name))] = s
<1> DEFINE n == Len(list) + 1
<1>1. /\ Len(list) \in Nat /\ DOMAIN list = 1 .. Len(list) /\ DOMAIN l = 1 .. n
      /\ l[n] = s /\ \A i \in 1 .. Len(list) : l[i] = list[i]
  <2>1. /\ Append(list, s) = l /\ Len(list) \in Nat /\ DOMAIN list = 1 .. Len(list)
        /\ \A i \in 1 .. Len(list) : Append(list, s)[i] = list[i]
        /\ Append(list, s)[n] = s /\ DOMAIN Append(list, s) = 1 .. n
    BY ListAppend DEF Grown
  <2> QED
    BY <2>1
<1>2. \A i \in 1 .. n : i \in 1 .. Len(list) \/ i = n
  BY <1>1
<1>3. \A i \in 1 .. Len(list) : list[i].name # name
  BY <1>1 DEF Named
<1>4. n \in 1 .. n
  BY <1>1
<1>5. Named(l, name) = {n}
  <2>1. \A i \in 1 .. n : l[i].name = name <=> i = n
    BY <1>1, <1>2, <1>3
  <2> HIDE DEF n
  <2> QED
    BY <1>1, <1>4, <2>1 DEF Named
<1>6. Min({n}) = n
  <2>1. n \in Nat
    BY <1>1
  <2> HIDE DEF n
  <2> QED
    BY <2>1, LeastOnly
<1> QED
  BY <1>1, <1>5, <1>6

\* One service in the place of the first of its name.
Replaced(l, list, s) == l = [list EXCEPT ![Min(Named(list, s.name))] = s]

\* Then every name finds what it did, but that name the new one.
LEMMA NamedReplaced ==
  ASSUME NEW A, NEW list \in List(A), NEW s \in A, Named(list, s.name) # {},
         NEW l, Replaced(l, list, s), NEW n
  PROVE  /\ l \in List(A) /\ Len(l) = Len(list) /\ Len(list) \in Nat
         /\ \A i \in 1 .. Len(list) : l[i].name = list[i].name
         /\ Named(l, n) = Named(list, n)
         /\ Named(l, n) # {} => l[Min(Named(l, n))] = IF n = s.name THEN s ELSE list[Min(Named(list, n))]
<1> DEFINE k == Min(Named(list, s.name))
<1>1. k \in 1 .. Len(list) /\ list[k].name = s.name
  BY NamedFirst
<1>2. l = [list EXCEPT ![k] = s]
  BY DEF Replaced
<1> HIDE DEF k
<1>3. /\ l \in List(A) /\ Len(l) = Len(list) /\ Len(list) \in Nat
      /\ DOMAIN l = 1 .. Len(list) /\ DOMAIN list = 1 .. Len(list)
      /\ l[k] = s /\ \A i \in 1 .. Len(list) : i # k => l[i] = list[i]
  BY <1>1, <1>2, ListExcept
<1>4. \A i \in 1 .. Len(list) : l[i].name = list[i].name
  BY <1>1, <1>3
<1>5. Named(l, n) = Named(list, n)
  BY <1>3, <1>4 DEF Named
<1>6. ASSUME Named(l, n) # {}
      PROVE  l[Min(Named(l, n))] = IF n = s.name THEN s ELSE list[Min(Named(list, n))]
  <2>1. CASE n = s.name
    BY <1>3, <1>5, <2>1 DEF k
  <2>2. CASE n # s.name
    <3> DEFINE j == Min(Named(list, n))
    <3>1. Named(list, n) # {}
      BY <1>5, <1>6
    <3>2. j \in 1 .. Len(list) /\ list[j].name = n
      BY <3>1, NamedFirst
    <3> HIDE DEF j
    <3>3. j # k
      BY <1>1, <2>2, <3>2
    <3>4. l[j] = list[j]
      BY <1>3, <3>2, <3>3
    <3> QED
      BY <1>5, <2>2, <3>4 DEF j
  <2> QED
    BY <2>1, <2>2
<1> QED
  BY <1>3, <1>4, <1>5, <1>6

\* What has been made of templates is found again, as it was last made; a unit
\* that is being made is what its name means.
MadeInv ==
    stage = "ready" =>
      /\ \A i \in Len(UnitsMeant(input)) + 1 .. Len(services) :
           Made(started, Len(started), services[i].name) # {}
      /\ \A name : Made(started, Len(started), name) # {} =>
           /\ Named(services, name) # {}
           /\ LastOf(started, Len(started), name) = <<services[Min(Named(services, name))]>>
      /\ unit # NoUnit => Making(input, unit) = MadeOf(input, unit.name, event.value)

\* The service a target finds, if it is not to be made again.
Stays(s, m, active) == m.stop \/ ~s.from_template \/ ~Renewed(s, m, active)

\* What starting a name does is what it is to come to.
LEMMA ExpectedNow ==
  ASSUME CoreInv, ServicesInv, MadeInv, stage = "ready", NEW m, NEW active
  PROVE  LET known == Named(services, m.target) IN
         ExpectedOf(input, started, Len(started), m, active)
           = IF known # {} /\ Stays(services[Min(known)], m, active) THEN <<services[Min(known)]>>
             ELSE IF m.stop THEN <<>> ELSE MadeOf(input, m.target, m.value)
<1> DEFINE meant == UnitsMeant(input)
           name == m.target
           disk == Named(meant, name)
           made == Made(started, Len(started), name)
           known == Named(services, name)
           s == services[Min(known)]
           last == LastOf(started, Len(started), name)
<1>1. /\ services \in List(Services(input)) /\ meant \in List(Services(input))
      /\ Len(meant) \in Nat /\ Len(services) \in Nat /\ Begins(services, meant)
      /\ DOMAIN services = 1 .. Len(services) /\ DOMAIN meant = 1 .. Len(meant)
      /\ \A i \in 1 .. Len(meant) : ~meant[i].from_template
  <2>1. input \in Inputs /\ services \in List(Services(input))
    BY DEF CoreInv, BaseInv, TypeInv
  <2>2. /\ meant \in List(Services(input)) /\ Len(meant) \in Nat
        /\ \A i \in 1 .. Len(meant) : ~meant[i].from_template
    BY <2>1, DiskUnits
  <2> QED
    BY <2>1, <2>2 DEF List, ServicesInv
<1>2. ExpectedOf(input, started, Len(started), m, active)
        = IF disk # {} THEN <<meant[Min(disk)]>>
          ELSE IF made # {} /\ (m.stop \/ ~Renewed(last[1], m, active)) THEN last
          ELSE IF m.stop THEN <<>> ELSE MadeOf(input, name, m.value)
  BY DEF ExpectedOf
<1>3. made # {} => known # {} /\ last = <<s>>
  BY DEF MadeInv
<1>4. \A i \in Len(meant) + 1 .. Len(services) :
        /\ Made(started, Len(started), services[i].name) # {} /\ services[i].from_template
  BY DEF MadeInv, ServicesInv
<1> HIDE DEF meant, made, last
<1>5. CASE disk # {}
  <2>1. known # {} /\ s = meant[Min(disk)]
    BY <1>1, <1>5, NamedBegins
  <2>2. Min(disk) \in 1 .. Len(meant)
    BY <1>1, <1>5, NamedFirst
  <2>3. Stays(s, m, active)
    BY <1>1, <2>1, <2>2 DEF Stays
  <2> HIDE DEF disk, known, s
  <2> QED
    BY <1>2, <1>5, <2>1, <2>3 DEF known, s
<1>6. ASSUME disk = {}, NEW i \in known
      PROVE  i \in 1 .. Len(services) /\ services[i].name = name /\ i \in Len(meant) + 1 .. Len(services)
  <2>1. i \in 1 .. Len(services) /\ services[i].name = name
    BY <1>1 DEF Named
  <2>2. i \notin 1 .. Len(meant)
    <3> SUFFICES ASSUME i \in 1 .. Len(meant) PROVE FALSE
      OBVIOUS
    <3>1. meant[i] = services[i]
      BY <1>1 DEF Begins
    <3>2. i \in disk
      BY <1>1, <2>1, <3>1 DEF Named
    <3> QED
      BY <1>6, <3>2
  <2> QED
    BY <1>1, <2>1, <2>2
<1>7. CASE disk = {} /\ made # {}
  <2>1. known # {} /\ last = <<s>>
    BY <1>3, <1>7
  <2>2. Min(known) \in known
    BY <1>1, <2>1, NamedFirst
  <2>3. s.from_template
    BY <1>4, <1>6, <1>7, <2>2
  <2> HIDE DEF disk, known, s
  <2>4. last[1] = s
    BY <2>1
  <2>5. Stays(s, m, active) <=> m.stop \/ ~Renewed(last[1], m, active)
    BY <2>3, <2>4 DEF Stays
  <2> QED
    BY <1>2, <1>7, <2>1, <2>5 DEF known, s
<1>8. CASE disk = {} /\ made = {}
  <2>1. known = {}
    BY <1>4, <1>6, <1>8 DEF made
  <2> HIDE DEF disk, known, s
  <2> QED
    BY <1>2, <1>8, <2>1 DEF known
<1> QED
  BY <1>5, <1>7, <1>8

\* What came before does not depend on what is started next.
LEMMA LogMore ==
  ASSUME NEW S, NEW log \in List(S), NEW s \in S, NEW n \in 0 .. Len(log)
  PROVE  /\ \A name : /\ Made(Append(log, s), n, name) = Made(log, n, name)
                      /\ Made(log, n, name) # {} => LastOf(Append(log, s), n, name) = LastOf(log, n, name)
         /\ \A in, m, active : ExpectedOf(in, Append(log, s), n, m, active) = ExpectedOf(in, log, n, m, active)
<1> DEFINE l == Append(log, s)
<1>1. /\ Len(log) \in Nat /\ \A i \in 1 .. Len(log) : l[i] = log[i]
  BY ListAppend
<1> HIDE DEF l
<1>2. \A i \in 1 .. n : l[i] = log[i]
  BY <1>1
<1>3. \A name : Made(l, n, name) = Made(log, n, name)
  BY <1>2 DEF Made
<1>4. ASSUME NEW name, Made(log, n, name) # {}
      PROVE  LastOf(l, n, name) = LastOf(log, n, name)
  <2> DEFINE k == Max(Made(log, n, name))
  <2>1. k \in 1 .. n
    BY <1>4, MadeLast
  <2> HIDE DEF k
  <2>2. l[k] = log[k]
    BY <1>2, <2>1
  <2> QED
    BY <1>3, <2>2 DEF LastOf, k
<1>5. ASSUME NEW in, NEW m, NEW active
      PROVE  ExpectedOf(in, l, n, m, active) = ExpectedOf(in, log, n, m, active)
  BY <1>3, <1>4 DEF ExpectedOf
<1> QED
  BY <1>3, <1>4, <1>5 DEF l

\* Nothing has been made or started.
LEMMA MadeSame ==
  ASSUME MadeInv, UNCHANGED <<input, stage, services, started>>,
         unit' # NoUnit => /\ unit # NoUnit /\ unit'.name = unit.name /\ event' = event
                           /\ Making(input, unit') = Making(input, unit)
  PROVE  MadeInv'
BY DEF MadeInv

\* Nothing has been made when the first device is reported.
LEMMA MadeEntered ==
  ASSUME CoreInv, stage # "ready", stage' = "ready", unit' = NoUnit,
         UNCHANGED <<input, services, started>>, services = UnitsMeant(input)
  PROVE  MadeInv'
<1>1. started = <<>>
  BY DEF CoreInv, BaseInv, StageInv
<1>2. Len(services) \in Nat
  BY DEF CoreInv, BaseInv, TypeInv, List
<1>3. \A i \in Len(services) + 1 .. Len(services) : FALSE
  BY <1>2
<1>4. \A name : Made(started, Len(started), name) = {}
  BY <1>1 DEF Made
<1> QED
  BY <1>1, <1>3, <1>4 DEF MadeInv

Appended(l, log, s) == l = Append(log, s)

\* One more start is the last of its name, if it made or found a unit; nothing
\* else changes.
LEMMA MadeMore ==
  ASSUME NEW S, NEW log \in List(S), NEW s \in S, NEW l, Appended(l, log, s), NEW name
  PROVE  IF s.target = name /\ s.service # <<>>
           THEN Made(l, Len(l), name) # {} /\ LastOf(l, Len(l), name) = s.service
           ELSE /\ Made(l, Len(l), name) = Made(log, Len(log), name)
                /\ Made(l, Len(l), name) # {} => LastOf(l, Len(l), name) = LastOf(log, Len(log), name)
<1> DEFINE n == Len(log)
<1>1. /\ n \in Nat /\ Len(l) = n + 1 /\ l[n + 1] = s /\ l \in List(S)
      /\ \A i \in 1 .. n : l[i] = log[i]
  <2> DEFINE k == Append(log, s)
  <2>1. /\ Len(log) \in Nat /\ Len(k) = Len(log) + 1 /\ k[Len(log) + 1] = s
        /\ \A i \in 1 .. Len(log) : k[i] = log[i]
    BY ListAppend
  <2>0. k \in List(S)
    BY ListAppend
  <2>2. l = k
    BY DEF Appended
  <2> HIDE DEF k
  <2> QED
    BY <2>0, <2>1, <2>2
<1>2. n \in 0 .. Len(log) /\ Len(l) \in 0 .. Len(l)
  BY <1>1
<1>3. Made(l, n, name) = Made(log, n, name)
      /\ (Made(log, n, name) # {} => LastOf(l, n, name) = LastOf(log, n, name))
  BY <1>2, LogMore DEF Appended
<1> HIDE DEF n
<1>4. n + 1 \in 1 .. n + 1 /\ \A i \in 1 .. n + 1 : i \in 1 .. n \/ i = n + 1
  BY <1>1
<1>5. CASE s.target = name /\ s.service # <<>>
  <2>1. n + 1 \in Made(l, Len(l), name)
    BY <1>1, <1>4, <1>5 DEF Made
  <2> DEFINE k == Max(Made(l, Len(l), name))
  <2>2. k \in 1 .. n + 1 /\ n + 1 <= k
    BY <1>1, <1>2, <2>1, MadeLast
  <2> HIDE DEF k
  <2>3. k = n + 1
    BY <1>1, <2>2
  <2> QED
    BY <1>1, <1>5, <2>1, <2>3 DEF LastOf, k
<1>6. CASE ~(s.target = name /\ s.service # <<>>)
  <2>1. Made(l, Len(l), name) = Made(l, n, name)
    <3>1. \A i \in 1 .. n : i \in 1 .. n + 1
      BY <1>1
    <3> QED
      BY <1>1, <1>4, <1>6, <3>1 DEF Made
  <2>2. LastOf(l, Len(l), name) = LastOf(l, n, name)
    BY <2>1 DEF LastOf
  <2> QED
    BY <1>3, <1>6, <2>1, <2>2 DEF n
<1> QED
  BY <1>5, <1>6

\* A start that makes no unit.
LEMMA MadeStarted ==
  ASSUME CoreInv, MadeInv, stage = "ready", UNCHANGED <<input, stage, services>>, unit' = NoUnit,
         NEW name \in Text, NEW service \in List(Services(input)), NEW active \in BOOLEAN,
         started' = Append(started, Done(name, service, active)),
         service # <<>> => /\ Named(services, name) # {}
                           /\ service = <<services[Min(Named(services, name))]>>
  PROVE  MadeInv'
<1> DEFINE s == Done(name, service, active)
           l == started'
<1>1. started \in List(Starts(input)) /\ s \in Starts(input)
  BY DEF CoreInv, BaseInv, TypeInv, Starts, Done
<1>2. s.target = name /\ s.service = service
  BY DEF Done
<1>3. Appended(l, started, s)
  BY DEF Appended
<1> HIDE DEF s, l
<1>4. \A t : IF s.target = t /\ s.service # <<>>
               THEN Made(l, Len(l), t) # {} /\ LastOf(l, Len(l), t) = s.service
               ELSE /\ Made(l, Len(l), t) = Made(started, Len(started), t)
                    /\ Made(l, Len(l), t) # {} => LastOf(l, Len(l), t) = LastOf(started, Len(started), t)
  BY <1>1, <1>3, MadeMore
<1>5. ASSUME NEW t, Made(l, Len(l), t) # {}
      PROVE  /\ Named(services, t) # {}
             /\ LastOf(l, Len(l), t) = <<services[Min(Named(services, t))]>>
  BY <1>2, <1>4, <1>5 DEF MadeInv
<1>6. ASSUME NEW i \in Len(UnitsMeant(input)) + 1 .. Len(services)
      PROVE  Made(l, Len(l), services[i].name) # {}
  <2>1. Made(started, Len(started), services[i].name) # {}
    BY DEF MadeInv
  <2> QED
    BY <1>4, <2>1
<1> QED
  BY <1>5, <1>6 DEF MadeInv, l

Joined(l, list, m) == l = list \o m

\* A unit has been put behind the services, or nothing has.
LEMMA MadePlaced ==
  ASSUME NEW B, NEW list \in List(B), NEW m \in List(B), NEW l, Joined(l, list, m), NEW name,
         m = <<>> \/ \E e : m = <<e>> /\ e.name = name,
         m # <<>> => Named(list, name) = {}
  PROVE  /\ l \in List(B)
         /\ \A t : Named(list, t) # {} => /\ Named(l, t) # {}
                                          /\ l[Min(Named(l, t))] = list[Min(Named(list, t))]
         /\ m # <<>> => Named(l, name) # {} /\ m = <<l[Min(Named(l, name))]>>
         /\ \A i \in 1 .. Len(l) : (i \in 1 .. Len(list) /\ l[i] = list[i]) \/ (m # <<>> /\ l[i].name = name)
<1>1. /\ Len(l) = Len(list) + Len(m) /\ Len(m) \in Nat /\ Len(list) \in Nat
      /\ \A i \in 1 .. Len(list) : l[i] = list[i]
      /\ \A i \in 1 .. Len(m) : l[Len(list) + i] = m[i]
      /\ l \in List(B)
  BY ConcatSet DEF List, Joined
<1>2. Begins(l, list)
  BY <1>1 DEF Begins
<1>3. ASSUME NEW t, Named(list, t) # {}
      PROVE  Named(l, t) # {} /\ l[Min(Named(l, t))] = list[Min(Named(list, t))]
  BY <1>1, <1>2, <1>3, NamedBegins
<1>4. ASSUME NEW e, m = <<e>>, e.name = name
      PROVE  /\ Len(m) = 1 /\ m[1] = e
             /\ Named(l, name) # {} /\ l[Min(Named(l, name))] = e
  <2>1. Len(m) = 1 /\ m[1] = e
    BY <1>4
  <2>2. e \in B
    <3>1. m \in Seq(B) /\ 1 \in 1 .. Len(m)
      BY <2>1 DEF List
    <3> QED
      BY <2>1, <3>1, ElementOfSeq
  <2>3. Grown(l, list, e)
    BY <1>4 DEF Grown, Joined
  <2>4. Named(list, name) = {}
    BY <1>4
  <2> QED
    BY <1>4, <2>1, <2>2, <2>3, <2>4, NamedAppend
<1>5. m # <<>> => Named(l, name) # {} /\ m = <<l[Min(Named(l, name))]>>
  BY <1>4
<1>6. ASSUME NEW i \in 1 .. Len(l), i \notin 1 .. Len(list)
      PROVE  m # <<>> /\ l[i].name = name
  <2>1. m # <<>>
    BY <1>1, <1>6
  <2>2. PICK e : m = <<e>> /\ e.name = name
    BY <2>1
  <2>3. Len(m) = 1 /\ m[1] = e
    BY <1>4, <2>2
  <2>4. i = Len(list) + 1 /\ 1 \in 1 .. Len(m)
    BY <1>1, <1>6, <2>3
  <2> QED
    BY <1>1, <2>1, <2>2, <2>3, <2>4
<1>7. \A i \in 1 .. Len(l) : (i \in 1 .. Len(list) /\ l[i] = list[i]) \/ (m # <<>> /\ l[i].name = name)
  BY <1>1, <1>6
<1> QED
  BY <1>1, <1>3, <1>5, <1>7

\* What names find when the unit in hand has been made, or dropped.
Keeps(sv, m, name) ==
    /\ \A t : Named(services, t) # {} /\ (t # name \/ m = <<>>) =>
                /\ Named(sv, t) # {}
                /\ sv[Min(Named(sv, t))] = services[Min(Named(services, t))]
    /\ m # <<>> => Named(sv, name) # {} /\ m = <<sv[Min(Named(sv, name))]>>
    /\ \A i \in 1 .. Len(sv) : \/ i \in 1 .. Len(services) /\ sv[i].name = services[i].name
                               \/ m # <<>> /\ sv[i].name = name

LEMMA BuiltKeeps ==
  ASSUME CoreInv, stage = "ready", Build \/ BuildFails
  PROVE  Keeps(services', Making(input, unit), unit.name)
<1> DEFINE m == Making(input, unit)
           name == unit.name
           B == Services(input)
           sv == services'
<1>1. sv = Placed(unit) /\ m \in List(B) /\ services \in List(B) /\ unit.demand
  BY BuildKeeps DEF CoreInv
<1>2. m = <<>> \/ \E e : m = <<e>> /\ e.name = name
  BY MakingIs
<1>3. CASE ~Replaces(unit)
  <2>1. Joined(sv, services, m)
    BY <1>1, <1>3 DEF Placed, Joined
  <2>2. m # <<>> => Named(services, name) = {}
    BY <1>1, <1>3, KnownIs DEF Replaces
  <2> HIDE DEF m, name, B, sv
  <2>3. /\ \A t : Named(services, t) # {} => /\ Named(sv, t) # {}
                                             /\ sv[Min(Named(sv, t))] = services[Min(Named(services, t))]
        /\ m # <<>> => Named(sv, name) # {} /\ m = <<sv[Min(Named(sv, name))]>>
        /\ \A i \in 1 .. Len(sv) : \/ i \in 1 .. Len(services) /\ sv[i] = services[i]
                                   \/ m # <<>> /\ sv[i].name = name
    BY <1>1, <1>2, <2>1, <2>2, MadePlaced
  <2>4. Keeps(sv, m, name)
    BY <2>3 DEF Keeps
  <2> QED
    BY <2>4 DEF sv, m, name
<1>4. CASE Replaces(unit)
  <2> DEFINE a == m[1]
  <2>1. m # <<>> /\ Named(services, name) # {} /\ sv = [services EXCEPT ![Min(Named(services, name))] = a]
    BY <1>1, <1>4, KnownIs DEF Placed, Replaces
  <2>2. PICK e : m = <<e>> /\ e.name = name
    BY <1>2, <2>1
  <2>3. Len(m) = 1 /\ a = e
    BY <2>2
  <2> HIDE DEF m, name, B, sv
  <2>4. a \in B /\ a.name = name /\ m = <<a>>
    <3>1. m \in Seq(B) /\ 1 \in 1 .. Len(m)
      BY <1>1, <2>3 DEF List
    <3>2. m[1] \in B
      BY <3>1, ElementOfSeq
    <3> QED
      BY <2>2, <2>3, <3>2
  <2> HIDE DEF a
  <2>5. Replaced(sv, services, a)
    BY <2>1, <2>4 DEF Replaced
  <2>6. \A t : /\ sv \in List(B) /\ Len(sv) = Len(services)
               /\ \A i \in 1 .. Len(services) : sv[i].name = services[i].name
               /\ Named(sv, t) = Named(services, t)
               /\ Named(sv, t) # {} => sv[Min(Named(sv, t))] = IF t = a.name THEN a
                                                               ELSE services[Min(Named(services, t))]
    <3> SUFFICES ASSUME NEW t
                 PROVE  /\ sv \in List(B) /\ Len(sv) = Len(services)
                        /\ \A i \in 1 .. Len(services) : sv[i].name = services[i].name
                        /\ Named(sv, t) = Named(services, t)
                        /\ Named(sv, t) # {} => sv[Min(Named(sv, t))] = IF t = a.name THEN a
                                                                        ELSE services[Min(Named(services, t))]
      OBVIOUS
    <3>1. Named(services, a.name) # {}
      BY <2>1, <2>4
    <3> QED
      BY <1>1, <2>4, <2>5, <3>1, NamedReplaced
  <2>7. Keeps(sv, m, name)
    BY <2>1, <2>4, <2>6 DEF Keeps
  <2> QED
    BY <2>7 DEF sv, m, name
<1> QED
  BY <1>3, <1>4

\* A unit made of a template, or one that could not be made.
LEMMA MadeBuilt ==
  ASSUME CoreInv, MadeInv, stage = "ready", Build \/ BuildFails
  PROVE  MadeInv'
<1> DEFINE m == Making(input, unit)
           name == unit.name
           s == Done(name, m, FALSE)
           l == started'
           sv == services'
           n == Len(UnitsMeant(input))
<1>1. /\ unit \in UnitRecs /\ unit' = NoUnit /\ m \in List(Services(input))
      /\ started' = Append(started, s) /\ UNCHANGED <<input, stage>>
      /\ services \in List(Services(input)) /\ sv \in List(Services(input))
  <2>1. UNCHANGED <<input, stage>>
    BY DEF Build, BuildFails, treeVars
  <2> QED
    BY <2>1, BuildKeeps DEF CoreInv
<1>2. name \in Text
  BY <1>1 DEF UnitRecs
<1>3. started \in List(Starts(input)) /\ s \in Starts(input)
  BY <1>1, <1>2 DEF CoreInv, BaseInv, TypeInv, Starts, Done
<1>4. s.target = name /\ s.service = m
  BY DEF Done
<1>5. Keeps(sv, m, name)
  BY BuiltKeeps
<1>6. Appended(l, started, s)
  BY <1>1 DEF Appended
<1>7. n \in Nat /\ Len(services) \in Nat /\ Len(sv) \in Nat
  BY <1>1, UnitsMeantIs DEF CoreInv, BaseInv, TypeInv, List
<1> HIDE DEF s, m, name, l, sv
<1>8. \A t : IF s.target = t /\ s.service # <<>>
               THEN Made(l, Len(l), t) # {} /\ LastOf(l, Len(l), t) = s.service
               ELSE /\ Made(l, Len(l), t) = Made(started, Len(started), t)
                    /\ Made(l, Len(l), t) # {} => LastOf(l, Len(l), t) = LastOf(started, Len(started), t)
  BY <1>3, <1>6, MadeMore
<1>9. ASSUME NEW t, Made(l, Len(l), t) # {}
      PROVE  Named(sv, t) # {} /\ LastOf(l, Len(l), t) = <<sv[Min(Named(sv, t))]>>
  <2>1. CASE t = name /\ m # <<>>
    BY <1>4, <1>5, <1>8, <2>1 DEF Keeps
  <2>2. CASE ~(t = name /\ m # <<>>)
    <3>1. Made(started, Len(started), t) # {} /\ LastOf(l, Len(l), t) = LastOf(started, Len(started), t)
      BY <1>4, <1>8, <1>9, <2>2
    <3>2. /\ Named(services, t) # {}
          /\ LastOf(started, Len(started), t) = <<services[Min(Named(services, t))]>>
      BY <3>1 DEF MadeInv
    <3>3. Named(sv, t) # {} /\ sv[Min(Named(sv, t))] = services[Min(Named(services, t))]
      BY <1>5, <2>2, <3>2 DEF Keeps
    <3> QED
      BY <3>1, <3>2, <3>3
  <2> QED
    BY <2>1, <2>2
<1>10. ASSUME NEW i \in n + 1 .. Len(sv)
       PROVE  Made(l, Len(l), sv[i].name) # {}
  <2>1. i \in 1 .. Len(sv)
    BY <1>7
  <2>2. CASE i \in 1 .. Len(services) /\ sv[i].name = services[i].name
    <3>1. i \in n + 1 .. Len(services)
      BY <1>7, <2>2
    <3>2. Made(started, Len(started), services[i].name) # {}
      BY <3>1 DEF MadeInv
    <3> QED
      BY <1>8, <2>2, <3>2
  <2>3. CASE m # <<>> /\ sv[i].name = name
    BY <1>4, <1>8, <2>3
  <2> QED
    BY <1>5, <2>1, <2>2, <2>3 DEF Keeps
<1> QED
  BY <1>1, <1>9, <1>10 DEF MadeInv, l, sv

\* A start of a known unit, or of none.
LEMMA MadeStarts ==
  ASSUME CoreInv, MadeInv, StopTarget \/ StartKnown \/ StartUnknown
  PROVE  MadeInv'
<1> DEFINE name == Head(targets)
<1>1. /\ unit = NoUnit /\ stage = "ready" /\ name \in Text
      /\ \E service \in List(Services(input)), active \in BOOLEAN :
           Comes(name, service, active) /\ started' = Append(started, Done(name, service, active))
  BY StartKeeps DEF CoreInv
<1>2. UNCHANGED <<input, stage, services>> /\ unit' = NoUnit
  BY <1>1 DEF StopTarget, StartKnown, StartUnknown, treeVars, parsedVars
<1> HIDE DEF name
<1>3. PICK service \in List(Services(input)), active \in BOOLEAN :
        Comes(name, service, active) /\ started' = Append(started, Done(name, service, active))
  BY <1>1
<1>4. service # <<>> => Named(services, name) # {} /\ service = <<services[Min(Named(services, name))]>>
  BY <1>3, KnownIs DEF Comes
<1> QED
  BY <1>1, <1>2, <1>3, <1>4, MadeStarted

\* The unit taken in hand for a target is what the name means.
LEMMA MadeInstance ==
  ASSUME CoreInv, MadeInv, StartInstance
  PROVE  MadeInv'
<1>1. stage = "ready"
  BY DEF CoreInv, BaseInv, StageInv, StartInstance, MayStart, AtTarget
<1>2. templates = TemplatesMeant(input)
  BY <1>1 DEF CoreInv, UnitsInv
<1>3. /\ unit'.name = Head(targets)
      /\ Making(input, unit') = MadeOf(input, Head(targets), event.value)
  BY <1>2, StartInstanceKeeps DEF CoreInv
<1>5. UNCHANGED <<input, stage, services, started, event>>
  BY DEF StartInstance, treeVars, parsedVars
<1> QED
  BY <1>1, <1>3, <1>5 DEF MadeInv

\* MadeInv is inductive, given CoreInv.
LEMMA MadeStep ==
  ASSUME CoreInv, MadeInv, [Next]_vars
  PROVE  MadeInv'
<1>0. BaseInv /\ UnitsInv
  BY DEF CoreInv
<1>1. CASE stage' # "ready"
  BY <1>1 DEF MadeInv
<1>2. CASE stage' = "ready" /\ stage # "ready"
  <2>1. OpenRules \/ RulesWalk \/ ReportMount
    BY <1>0, <1>2, WalkKeeps
      DEF Next, vars, treeVars, OpenUnits, SkipUnit, FoundTemplate, FoundUnit, ExpandKey,
         Expanding, Expanded, BuildFails, Build, ReadRules, Report, Handles,
         ExpandTarget, Resolved, StopTarget, StartKnown, StartUnknown, StartInstance, Handled
  <2>2. /\ stage \in {"scanned", "rules", "mounted"}
        /\ UNCHANGED <<input, unit, services, started>>
    BY <2>1 DEF OpenRules, RulesWalk, ReportMount, Walk, Leave, Handles, parsedVars, eventVars
  <2>3. services = UnitsMeant(input)
    BY <1>0, <2>2 DEF UnitsInv
  <2>4. unit = NoUnit
    BY <1>0, <2>2 DEF BaseInv, UnitInv
  <2>5. unit' = NoUnit
    BY <2>2, <2>4
  <2> QED
    BY <1>2, <2>2, <2>3, <2>5, MadeEntered
<1>3. CASE stage' = "ready" /\ stage = "ready"
  <2>1. CASE Build \/ BuildFails
    BY <1>3, <2>1, MadeBuilt
  <2>2. CASE StopTarget \/ StartKnown \/ StartUnknown
    BY <2>2, MadeStarts
  <2>3. CASE StartInstance
    BY <2>3, MadeInstance
  <2>4. CASE Expanded
    <3>1. UNCHANGED <<input, stage, services, started, event>>
      BY <2>4 DEF Expanded, treeVars, parsedVars, eventVars
    <3>2. unit \in UnitRecs /\ unit'.name = unit.name /\ Making(input, unit') = Making(input, unit)
      BY <1>0, <2>4, ExpandedKeeps
    <3>3. unit # NoUnit
      BY <3>2, NotNothing
    <3> QED
      BY <3>1, <3>2, <3>3, MadeSame
  <2>5. CASE Report \/ Handled
    <3>1. UNCHANGED <<input, stage, services, started, unit>> /\ unit = NoUnit
      <4>1. CASE Report
        BY <1>0, <4>1, ReportKeeps DEF Report, Handles, parsedVars
      <4>2. CASE Handled
        BY <4>2 DEF Handled, Idle, treeVars, parsedVars
      <4> QED
        BY <2>5, <4>1, <4>2
    <3> QED
      BY <3>1, MadeSame
  <2>6. CASE ExpandKey \/ Expanding \/ ExpandTarget \/ Resolved \/ UNCHANGED vars
    <3>1. UNCHANGED <<input, stage, services, started, unit, event>>
      BY <2>6 DEF ExpandKey, Expanding, ExpandTarget, Resolved, vars, treeVars, parsedVars, eventVars
    <3> QED
      BY <3>1, MadeSame
  <2> QED
    BY <1>3, <2>1, <2>2, <2>3, <2>4, <2>5, <2>6
      DEF Next, OpenUnits, UnitsWalk, Walk, Leave, SkipUnit, FoundTemplate, FoundUnit,
          OpenRules, RulesWalk, ReadRules, ReportMount, AtFile
<1> QED
  BY <1>1, <1>2, <1>3

-----------------------------------------------------------------------------
(* What is still to be started                                             *)

Ask(e, text) == [target |-> text, value |-> e.value, stop |-> e.what = "removed"]

ReportMap(in) == [r \in Device |-> TargetsMeant(in, r)]
HalfMap       == [r \in Device |-> <<r>> \o SecondHalf(r)]
AskMap(e)     == [text \in Text |-> <<Ask(e, text)>>]

\* The unit in hand, the targets of the report in hand that are known, those
\* still to be expanded, and the reports to come.
Hand(u, e)    == IF u # NoUnit THEN <<Ask(e, u.name)>> ELSE <<>>
Asks(e, ts)   == FlatMap(AskMap(e), ts)
Opens(e, ps)  == FlatMap(MeanMap(e), ps)
Later(in, rs) == FlatMap(ReportMap(in), Halves(rs))

Agenda(in, u, e, ts, ps, rs) == Hand(u, e) \o (Asks(e, ts) \o (Opens(e, ps) \o Later(in, rs)))

\* Every start so far was that of done, and came to what it is to.
Right(in, log, done) ==
    /\ Len(done) = Len(log)
    /\ \A i \in 1 .. Len(log) :
         /\ log[i].target = done[i].target
         /\ log[i].service = ExpectedOf(in, log, i - 1, done[i], log[i].active)

AgendaInv ==
    stage = "ready" =>
        \E done \in List(Targets) :
            /\ done \o Agenda(input, unit, event, targets, pending, reports) = Meant(input)
            /\ Right(input, started, done)

\* What is asked for a report is a target.
LEMMA AskType ==
  ASSUME NEW e \in Device, NEW text \in Text
  PROVE  /\ Ask(e, text) \in Targets /\ Ask(e, text).target = text
         /\ Ask(e, text).value = e.value /\ (Ask(e, text).stop <=> e.what = "removed")
<1>1. e.value \in Text \cup {NONE}
  BY DEF Device
<1> HIDE DEF Text
<1> QED
  BY <1>1 DEF Ask, Targets

\* What the parts of the agenda are made of.
LEMMA AgendaMaps ==
  ASSUME NEW in \in Inputs
  PROVE  /\ ReportMap(in) \in Maps(Device, Targets)
         /\ \A e \in Device : AskMap(e) \in Maps(Text, Targets) /\ MeanMap(e) \in Maps(Text, Targets)
<1>1. ASSUME NEW r \in Device
      PROVE  TargetsMeant(in, r) \in Seq(Targets)
  BY TargetsMeantIs DEF List
<1>2. ReportMap(in) \in Maps(Device, Targets)
  BY <1>1 DEF ReportMap, Maps
<1>3. ASSUME NEW e \in Device
      PROVE  AskMap(e) \in Maps(Text, Targets) /\ MeanMap(e) \in Maps(Text, Targets)
  <2>1. ASSUME NEW text \in Text
        PROVE  <<Ask(e, text)>> \in Seq(Targets)
    BY AskType
  <2> QED
    BY <2>1, MapTypes DEF AskMap, Maps
<1> QED
  BY <1>2, <1>3

\* Reports in their halves, the halves of the first before the others; a second
\* half has none of its own.
LEMMA HalvesIs ==
  ASSUME NEW rs \in List(Device), NEW r \in Device
  PROVE  /\ Halves(rs) \in List(Device)
         /\ Halves(<<r>> \o rs) = <<r>> \o Halves(SecondHalf(r) \o rs)
         /\ Halves(SecondHalf(r) \o rs) \in List(Device)
<1>1. HalfMap \in Maps(Device, Device)
  <2>1. ASSUME NEW e \in Device
        PROVE  <<e>> \o SecondHalf(e) \in Seq(Device)
    <3> DEFINE one == <<e>>
               half == SecondHalf(e)
    <3>1. one \in List(Device) /\ half \in List(Device)
      BY ListOne, SecondHalfType
    <3> HIDE DEF one, half
    <3>2. one \o half \in List(Device)
      BY <3>1, ListConcat
    <3> QED
      BY <3>2 DEF one, half, List
  <2> QED
    BY <2>1 DEF HalfMap, Maps
<1>2. ASSUME NEW s \in List(Device)
      PROVE  Halves(s) = FlatMap(HalfMap, s)
  <2>1. \A i \in DOMAIN s : s[i] \in Device
    BY DEF List
  <2>2. [i \in DOMAIN s |-> <<s[i]>> \o SecondHalf(s[i])] = [i \in DOMAIN s |-> HalfMap[s[i]]]
    BY <2>1 DEF HalfMap
  <2> QED
    BY <2>2 DEF Halves, FlatMap
<1>3. ASSUME NEW e \in Device, NEW s \in List(Device)
      PROVE  /\ Halves(<<e>> \o s) = (<<e>> \o SecondHalf(e)) \o Halves(s)
             /\ Halves(s) \in List(Device) /\ <<e>> \o s \in List(Device)
  <2> DEFINE one == <<e>>
  <2>1. one \in List(Device)
    BY ListOne
  <2>2. /\ FlatMap(HalfMap, <<e>> \o s) = HalfMap[e] \o FlatMap(HalfMap, s)
        /\ FlatMap(HalfMap, s) \in List(Device)
    <3> DEFINE f == HalfMap
    <3>1. f \in Maps(Device, Device)
      BY <1>1
    <3> HIDE DEF f
    <3>2. FlatMap(f, one) = f[e]
      BY <3>1, FlatMapOne
    <3> HIDE DEF one
    <3>3. FlatMap(f, one \o s) = FlatMap(f, one) \o FlatMap(f, s)
      BY <2>1, <3>1, FlatMapConcat
    <3>4. FlatMap(f, s) \in List(Device)
      BY <3>1, FlatMapType
    <3> QED
      BY <3>2, <3>3, <3>4 DEF f, one
  <2>3. HalfMap[e] = one \o SecondHalf(e)
    BY DEF HalfMap
  <2> HIDE DEF one
  <2>4. one \o s \in List(Device)
    BY <2>1, ListConcat
  <2> QED
    BY <1>2, <2>2, <2>3, <2>4 DEF one
<1> DEFINE half == SecondHalf(r)
           one == <<r>>
           rest == Halves(rs)
<1>4. Halves(one \o rs) = (one \o half) \o rest /\ rest \in List(Device)
  BY <1>3
<1>5. one \in List(Device) /\ half \in List(Device)
  BY ListOne, SecondHalfType
<1>6. Halves(half \o rs) = half \o rest
  <2>1. CASE half = <<>>
    <3>1. half \o rs = rs /\ half \o rest = rest
      <4> HIDE DEF half, rest
      <4> QED
        BY <1>4, <2>1, ListConcat
    <3> QED
      BY <3>1
  <2>2. CASE half # <<>>
    <3>1. PICK h \in Device : half = <<h>> /\ SecondHalf(h) = <<>>
      BY <2>2, SecondHalfType
    <3>2. Halves(<<h>> \o rs) = (<<h>> \o SecondHalf(h)) \o rest
      BY <1>3
    <3>3. <<h>> \o <<>> = <<h>>
      OBVIOUS
    <3> QED
      BY <3>1, <3>2, <3>3
  <2> QED
    BY <2>1, <2>2
<1> HIDE DEF half, one, rest
<1>7. (one \o half) \o rest = one \o (half \o rest) /\ half \o rest \in List(Device)
  <2>1. (one \o half) \o rest = one \o (half \o rest)
    BY <1>4, <1>5, ListAssociative, SMTT(30)
  <2>2. half \o rest \in List(Device)
    BY <1>4, <1>5, ListConcat
  <2> QED
    BY <2>1, <2>2
<1> QED
  BY <1>4, <1>6, <1>7 DEF half, one, rest

\* The halves of reports are reports.
LEMMA AnyHalves ==
  ASSUME NEW rs \in List(Device)
  PROVE  Halves(rs) \in List(Device)
<1> DEFINE r == [class |-> <<>>, name |-> <<>>, value |-> NONE, what |-> "added"]
<1>1. r \in Device
  <2>1. <<>> \in Text
    BY DEF Text
  <2> HIDE DEF Text
  <2> QED
    BY <2>1 DEF Device
<1> HIDE DEF r
<1> QED
  BY <1>1, HalvesIs

\* The targets of the next report come first, and then those of its second half.
LEMMA LaterIs ==
  ASSUME NEW in \in Inputs, NEW rs \in List(Device), NEW r \in Device
  PROVE  /\ Later(in, <<r>> \o rs) = TargetsMeant(in, r) \o Later(in, SecondHalf(r) \o rs)
         /\ TargetsMeant(in, r) \in List(Targets) /\ Later(in, SecondHalf(r) \o rs) \in List(Targets)
<1> DEFINE more == Halves(SecondHalf(r) \o rs)
           all == Halves(<<r>> \o rs)
<1>1. ReportMap(in)[r] = TargetsMeant(in, r)
  BY DEF ReportMap
<1>2. all = <<r>> \o more /\ more \in List(Device)
  BY HalvesIs
<1> HIDE DEF more, all
<1>3. /\ FlatMap(ReportMap(in), <<r>> \o more) = ReportMap(in)[r] \o FlatMap(ReportMap(in), more)
      /\ ReportMap(in)[r] \in List(Targets) /\ FlatMap(ReportMap(in), more) \in List(Targets)
  BY <1>2, AgendaMaps, FlatMapCons
<1> QED
  BY <1>1, <1>2, <1>3 DEF Later, more, all

\* The targets of reports are targets.
LEMMA LaterType ==
  ASSUME NEW in \in Inputs, NEW rs \in List(Device)
  PROVE  Later(in, rs) \in List(Targets)
<1> DEFINE halves == Halves(rs)
<1>1. halves \in List(Device)
  BY AnyHalves
<1> HIDE DEF halves
<1> QED
  BY <1>1, AgendaMaps, FlatMapType DEF Later, halves

\* Nothing is left of an empty part.
LEMMA PartsEmpty ==
  ASSUME NEW e
  PROVE  Hand(NoUnit, e) = <<>> /\ Asks(e, <<>>) = <<>> /\ Opens(e, <<>>) = <<>>
BY FlatMapEmpty DEF Hand, Asks, Opens

\* What is left of a report are targets.
LEMMA PartTypes ==
  ASSUME NEW e \in Device, NEW ts \in List(Text), NEW ps \in List(Text)
  PROVE  Asks(e, ts) \in List(Targets) /\ Opens(e, ps) \in List(Targets)
<1>1. AskMap(e) \in Maps(Text, Targets) /\ MeanMap(e) \in Maps(Text, Targets)
  <2>1. ASSUME NEW text \in Text
        PROVE  <<Ask(e, text)>> \in Seq(Targets)
    BY AskType
  <2> QED
    BY <2>1, MapTypes DEF AskMap, Maps
<1> QED
  BY <1>1, FlatMapType DEF Asks, Opens

\* All that is reported, and what it names.
LEMMA MeantIs ==
  ASSUME NEW in \in Inputs
  PROVE  /\ in.reports \in List(Device) /\ Meant(in) \in List(Targets)
         /\ in.source = NONE => Meant(in) = Later(in, in.reports)
         /\ in.source # NONE => /\ MountReport(in.source) \in Device
                                /\ Meant(in) = Later(in, <<MountReport(in.source)>> \o in.reports)
<1> DEFINE all == Reported(in)
           more == in.reports
           halves == Halves(more)
<1>1. more \in List(Device) /\ in.source \in Text \cup {NONE}
  BY InputTypes DEF List
<1>2. all = (IF in.source = NONE THEN <<>> ELSE <<MountReport(in.source)>>) \o halves
  BY DEF Reported
<1>3. MountReport(in.source).what = "added"
  BY DEF MountReport
<1>4. Later(in, more) \in List(Targets)
  BY <1>1, LaterType
<1>5. ASSUME NEW s \in List(Device), s = all
      PROVE  Meant(in) = FlatMap(ReportMap(in), s)
  <2>1. Meant(in) = FlattenSeq([i \in DOMAIN s |-> TargetsMeant(in, s[i])])
    BY <1>5 DEF Meant
  <2>2. \A i \in DOMAIN s : s[i] \in Device
    BY DEF List
  <2>3. [i \in DOMAIN s |-> TargetsMeant(in, s[i])] = [i \in DOMAIN s |-> ReportMap(in)[s[i]]]
    BY <2>2 DEF ReportMap
  <2> QED
    BY <2>1, <2>3 DEF FlatMap
<1>6. halves \in List(Device)
  BY <1>1, AnyHalves
<1>7. CASE in.source = NONE
  <2>1. all = <<>> \o halves
    BY <1>2, <1>7
  <2> HIDE DEF halves, all
  <2>2. all = halves
    BY <1>6, <2>1, ListConcat
  <2>3. Meant(in) = FlatMap(ReportMap(in), halves)
    BY <1>5, <1>6, <2>2
  <2> QED
    BY <1>1, <1>4, <1>7, <2>3 DEF Later, halves
<1>8. CASE in.source # NONE
  <2> DEFINE r == MountReport(in.source)
             both == <<r>> \o halves
             later == <<r>> \o more
  <2>1. r \in Device
    BY <1>1, <1>8, MountReportType
  <2>2. SecondHalf(r) = <<>>
    BY <1>3 DEF SecondHalf
  <2>3. all = both
    BY <1>2, <1>8
  <2> HIDE DEF r, halves, all, more
  <2>4. <<>> \o more = more
    BY <1>1, ListConcat
  <2>5. /\ Halves(later) = <<r>> \o Halves(SecondHalf(r) \o more)
    BY <1>1, <2>1, HalvesIs
  <2>6. Halves(later) = both
    BY <2>2, <2>4, <2>5 DEF halves
  <2>7. later \in List(Device)
    <3> DEFINE one == <<r>>
    <3>1. one \in List(Device)
      BY <2>1, ListOne
    <3> HIDE DEF one
    <3>2. one \o more \in List(Device)
      BY <1>1, <3>1, ListConcat
    <3> QED
      BY <3>2 DEF one
  <2> HIDE DEF later, both
  <2>8. both \in List(Device)
    BY <2>6, <2>7, AnyHalves
  <2>9. Meant(in) = Later(in, later)
    BY <1>5, <2>3, <2>6, <2>8 DEF Later
  <2>10. Later(in, later) \in List(Targets)
    BY <2>7, LaterType
  <2> QED
    BY <1>1, <1>8, <2>1, <2>9, <2>10 DEF r, later, more
<1> QED
  BY <1>7, <1>8

\* The first of the known targets comes first.
LEMMA AsksHead ==
  ASSUME NEW e \in Device, NEW ts \in List(Text), ts # <<>>
  PROVE  /\ Asks(e, ts) = <<Ask(e, Head(ts))>> \o Asks(e, Tail(ts))
         /\ Head(ts) \in Text /\ Tail(ts) \in List(Text)
<1>1. AskMap(e) \in Maps(Text, Targets)
  <2>1. ASSUME NEW text \in Text
        PROVE  <<Ask(e, text)>> \in Seq(Targets)
    BY AskType
  <2> QED
    BY <2>1 DEF AskMap, Maps
<1>2. Head(ts) \in Text /\ Tail(ts) \in List(Text)
  BY ListHead
<1>3. AskMap(e)[Head(ts)] = <<Ask(e, Head(ts))>>
  BY <1>2 DEF AskMap
<1>4. FlatMap(AskMap(e), ts) = AskMap(e)[Head(ts)] \o FlatMap(AskMap(e), Tail(ts))
  BY <1>1, FlatMapHead
<1> QED
  BY <1>2, <1>3, <1>4 DEF Asks

\* A target that becomes known comes last.
LEMMA AsksAppend ==
  ASSUME NEW e \in Device, NEW ts \in List(Text), NEW t \in Text
  PROVE  Asks(e, Append(ts, t)) = Asks(e, ts) \o <<Ask(e, t)>>
<1>1. AskMap(e) \in Maps(Text, Targets)
  <2>1. ASSUME NEW text \in Text
        PROVE  <<Ask(e, text)>> \in Seq(Targets)
    BY AskType
  <2> QED
    BY <2>1 DEF AskMap, Maps
<1>2. AskMap(e)[t] = <<Ask(e, t)>>
  BY DEF AskMap
<1>3. FlatMap(AskMap(e), Append(ts, t)) = FlatMap(AskMap(e), ts) \o AskMap(e)[t]
  BY <1>1, FlatMapAppend
<1> QED
  BY <1>2, <1>3 DEF Asks

\* The first of the targets still to be expanded comes first.
LEMMA OpensHead ==
  ASSUME NEW e \in Device, NEW ps \in List(Text), ps # <<>>
  PROVE  /\ Opens(e, ps) = <<Stands(e, Head(ps))>> \o Opens(e, Tail(ps))
         /\ Head(ps) \in Text /\ Tail(ps) \in List(Text)
<1>1. MeanMap(e) \in Maps(Text, Targets)
  BY MapTypes
<1>2. Head(ps) \in Text /\ Tail(ps) \in List(Text)
  BY ListHead
<1>3. MeanMap(e)[Head(ps)] = <<Stands(e, Head(ps))>>
  BY <1>2 DEF MeanMap
<1>4. FlatMap(MeanMap(e), ps) = MeanMap(e)[Head(ps)] \o FlatMap(MeanMap(e), Tail(ps))
  BY <1>1, FlatMapHead
<1> QED
  BY <1>2, <1>3, <1>4 DEF Opens

FirstOut(x, t, r) ==
    /\ <<>> \o ((<<x>> \o t) \o r) = <<x>> \o (t \o r)
    /\ <<>> \o (t \o r) = t \o r

\* The first of the middle part is the first of all, when nothing is before it.
LEMMA TakenFirst ==
  ASSUME NEW A, NEW x \in A, NEW t \in List(A), NEW r \in List(A)
  PROVE  FirstOut(x, t, r)
<1> DEFINE one == <<x>>
<1>1. one \in List(A)
  BY ListOne
<1> HIDE DEF one
<1>2. (one \o t) \o r = one \o (t \o r) /\ t \o r \in List(A)
  BY <1>1, ListAssociative, ListConcat
<1>3. one \o (t \o r) \in List(A)
  BY <1>1, <1>2, ListConcat
<1>4. <<>> \o (one \o (t \o r)) = one \o (t \o r) /\ <<>> \o (t \o r) = t \o r
  BY <1>2, <1>3, ListConcat
<1> QED
  BY <1>2, <1>4 DEF one, FirstOut

Regroups(s, t, u) == (s \o t) \o u = s \o (t \o u)

\* Which two of three lists are joined first does not matter.
LEMMA Regrouped ==
  ASSUME NEW A, NEW s \in List(A), NEW t \in List(A), NEW u \in List(A)
  PROVE  Regroups(s, t, u)
<1>1. (s \o t) \o u = s \o (t \o u)
  BY ListAssociative, SMTT(30)
<1> QED
  BY <1>1 DEF Regroups

Moves(t, one, p, r) == t \o ((one \o p) \o r) = (t \o one) \o (p \o r)

\* One element may belong to the end of one part or to the start of the next.
LEMMA MovedOver ==
  ASSUME NEW A, NEW one \in List(A), NEW t \in List(A), NEW p \in List(A), NEW r \in List(A)
  PROVE  Moves(t, one, p, r)
<1>1. Regroups(one, p, r) /\ p \o r \in List(A)
  BY Regrouped, ListConcat
<1> DEFINE q == p \o r
<1>2. q \in List(A) /\ one \in List(A) /\ t \in List(A)
  BY <1>1
<1> HIDE DEF q
<1>3. Regroups(t, one, q)
  BY <1>2, Regrouped
<1> QED
  BY <1>1, <1>3 DEF q, Moves, Regroups

\* One more start, of what was to be started next.
LEMMA RightAppend ==
  ASSUME NEW in, NEW S, NEW log \in List(S), NEW s \in S, NEW done \in List(Targets), NEW x \in Targets,
         Right(in, log, done), s.target = x.target,
         s.service = ExpectedOf(in, log, Len(log), x, s.active)
  PROVE  Right(in, Append(log, s), Append(done, x))
<1> DEFINE l == Append(log, s)
           d == Append(done, x)
           n == Len(log)
<1>1. /\ n \in Nat /\ Len(l) = n + 1 /\ l[n + 1] = s /\ \A i \in 1 .. n : l[i] = log[i]
  BY ListAppend
<1>2. /\ Len(done) = n /\ Len(d) = n + 1 /\ d[n + 1] = x /\ \A i \in 1 .. n : d[i] = done[i]
  <2>1. /\ Len(d) = Len(done) + 1 /\ d[Len(done) + 1] = x /\ \A i \in 1 .. Len(done) : d[i] = done[i]
    BY ListAppend
  <2>2. Len(done) = n
    BY DEF Right
  <2> HIDE DEF d, n
  <2> QED
    BY <2>1, <2>2
<1>3. ASSUME NEW k \in 0 .. n, NEW m, NEW active
      PROVE  ExpectedOf(in, l, k, m, active) = ExpectedOf(in, log, k, m, active)
  BY LogMore
<1> HIDE DEF l, d
<1>4. ASSUME NEW i \in 1 .. Len(l)
      PROVE  /\ l[i].target = d[i].target
             /\ l[i].service = ExpectedOf(in, l, i - 1, d[i], l[i].active)
  <2>1. CASE i \in 1 .. n
    <3>1. i - 1 \in 0 .. n
      BY <1>1, <2>1
    <3>2. /\ log[i].target = done[i].target
          /\ log[i].service = ExpectedOf(in, log, i - 1, done[i], log[i].active)
      BY <2>1 DEF Right
    <3>3. l[i] = log[i] /\ d[i] = done[i]
      BY <1>1, <1>2, <2>1
    <3> QED
      BY <1>3, <3>1, <3>2, <3>3
  <2>2. CASE i = n + 1
    <3>1. i - 1 = n /\ n \in 0 .. n
      BY <1>1, <2>2
    <3>2. l[i] = s /\ d[i] = x
      BY <1>1, <1>2, <2>2
    <3>3. ExpectedOf(in, l, n, x, s.active) = ExpectedOf(in, log, n, x, s.active)
      BY <1>3, <3>1
    <3> QED
      BY <3>1, <3>2, <3>3
  <2> QED
    BY <1>1, <2>1, <2>2
<1> QED
  BY <1>1, <1>2, <1>4 DEF Right, l, d

Now        == Agenda(input, unit, event, targets, pending, reports)
Leads(l, x, rest) == l = <<x>> \o rest

\* The agenda has not changed.
LEMMA AgendaSame ==
  ASSUME AgendaInv, UNCHANGED <<input, stage, started>>, stage = "ready" => Now' = Now
  PROVE  AgendaInv'
BY DEF AgendaInv, Now

\* The first of the agenda has been started, as it is to be.
LEMMA AgendaMore ==
  ASSUME CoreInv, AgendaInv, stage = "ready", UNCHANGED <<input, stage>>,
         NEW x \in Targets, Now' \in List(Targets), Leads(Now, x, Now'),
         NEW s \in Starts(input), started' = Append(started, s), s.target = x.target,
         s.service = ExpectedOf(input, started, Len(started), x, s.active)
  PROVE  AgendaInv'
<1> DEFINE rest == Now'
<1>1. PICK done \in List(Targets) : done \o Now = Meant(input) /\ Right(input, started, done)
  BY DEF AgendaInv, Now
<1>2. Append(done, x) \in List(Targets) /\ Append(done, x) = done \o <<x>>
  BY ListAppend
<1>3. Now = <<x>> \o rest
  BY DEF Leads
<1>4. (done \o <<x>>) \o rest = done \o (<<x>> \o rest)
  <2> DEFINE one == <<x>>
  <2>1. one \in List(Targets) /\ rest \in List(Targets)
    BY ListOne
  <2> HIDE DEF one, rest
  <2>2. (done \o one) \o rest = done \o (one \o rest)
    BY <2>1, ListAssociative
  <2> QED
    BY <2>2 DEF one
<1>5. Right(input, Append(started, s), Append(done, x))
  <2>1. started \in List(Starts(input))
    BY DEF CoreInv, BaseInv, TypeInv
  <2> QED
    BY <1>1, <2>1, RightAppend
<1> HIDE DEF rest
<1>6. Append(done, x) \o rest = Meant(input)
  BY <1>1, <1>2, <1>3, <1>4
<1> DEFINE d == Append(done, x)
<1>7. d \in List(Targets) /\ d \o rest = Meant(input) /\ Right(input, started', d)
  BY <1>2, <1>5, <1>6
<1> HIDE DEF d
<1>8. /\ input' = input
      /\ Agenda(input', unit', event', targets', pending', reports') = rest
  BY DEF Now, rest
<1> QED
  BY <1>7, <1>8 DEF AgendaInv

\* The agenda, when no unit is in hand.
LEMMA NowWithout ==
  ASSUME unit = NoUnit
  PROVE  /\ Now = <<>> \o (Asks(event, targets) \o (Opens(event, pending) \o Later(input, reports)))
         /\ pending = <<>> => Opens(event, pending) = <<>>
         /\ targets = <<>> => Asks(event, targets) = <<>>
BY PartsEmpty DEF Now, Agenda

\* The parts of the agenda that come after the unit in hand.
LEMMA NowTypes ==
  ASSUME CoreInv
  PROVE  /\ Later(input, reports) \in List(Targets)
         /\ Asks(event, targets) \in List(Targets) /\ Opens(event, pending) \in List(Targets)
         /\ event # NoReport => event \in Device
         /\ input \in Inputs /\ targets \in List(Text) /\ pending \in List(Text) /\ reports \in List(Device)
<1>1. /\ input \in Inputs /\ reports \in List(Device) /\ targets \in List(Text) /\ pending \in List(Text)
      /\ event # NoReport => event \in Device
      /\ event = NoReport => pending = <<>> /\ targets = <<>>
  BY DEF CoreInv, BaseInv, TypeInv, StageInv
<1>2. Later(input, reports) \in List(Targets)
  BY <1>1, LaterType
<1>3. CASE event = NoReport
  <2>1. targets = <<>> /\ pending = <<>>
    BY <1>1, <1>3
  <2>2. Asks(event, targets) = <<>> /\ Opens(event, pending) = <<>>
    BY <2>1, PartsEmpty
  <2>3. <<>> \in List(Targets)
    BY DEF List
  <2> QED
    BY <1>1, <1>2, <2>2, <2>3
<1>4. CASE event # NoReport
  BY <1>1, <1>2, <1>4, PartTypes
<1> QED
  BY <1>3, <1>4

\* When a report is taken, what it names is next, and then its second half.
LEMMA ReportAgenda ==
  ASSUME CoreInv, NEW e \in Device, rules = RulesMeant(input), NEW rs \in List(Device),
         event' = e, unit' = NoUnit, targets' = <<>>, input' = input,
         pending' = FlatMap(MatchMap(e), rules), reports' = SecondHalf(e) \o rs
  PROVE  Now' = Later(input, <<e>> \o rs)
<1> DEFINE m == TargetsMeant(input, e)
           more == Later(input, reports')
<1>1. input \in Inputs
  BY DEF CoreInv, BaseInv, TypeInv
<1>2. Opens(e, pending') = m
  BY <1>1, TargetsMeantIs DEF Opens
<1>3. Now' = <<>> \o (<<>> \o (m \o more))
  <2>1. Now' = Hand(NoUnit, e) \o (Asks(e, <<>>) \o (Opens(e, pending') \o more))
    BY DEF Now, Agenda
  <2> HIDE DEF more, m
  <2> QED
    BY <1>2, <2>1, PartsEmpty
<1>4. /\ Later(input, <<e>> \o rs) = m \o Later(input, SecondHalf(e) \o rs)
      /\ m \in List(Targets) /\ Later(input, SecondHalf(e) \o rs) \in List(Targets)
  BY <1>1, LaterIs
<1>5. m \in List(Targets) /\ more \in List(Targets) /\ Later(input, <<e>> \o rs) = m \o more
  BY <1>4
<1> HIDE DEF m, more
<1>6. m \o more \in List(Targets)
  BY <1>5, ListConcat
<1> DEFINE q == m \o more
<1> HIDE DEF q
<1>7. <<>> \o (<<>> \o q) = q
  <2>1. q \in List(Targets)
    BY <1>6 DEF q
  <2> QED
    BY <2>1, ListConcat
<1> QED
  BY <1>3, <1>5, <1>7 DEF q

\* A report that is taken was the next.
LEMMA AgendaReport ==
  ASSUME CoreInv, AgendaInv, Report
  PROVE  AgendaInv'
<1> DEFINE e == Head(reports)
           rs == Tail(reports)
           more == Later(input, reports)
<1>1. /\ stage = "ready" /\ reports # <<>> /\ reports' = SecondHalf(e) \o rs /\ event' = e
      /\ UNCHANGED <<input, stage, started, unit, targets>> /\ event = NoReport
  BY DEF Report, Handles, parsedVars
<1>2. unit = NoUnit /\ targets = <<>> /\ pending = <<>> /\ pending' = FlatMap(MatchMap(event'), rules)
  BY ReportKeeps DEF CoreInv
<1>3. rules = RulesMeant(input)
  BY <1>1 DEF CoreInv, RulesInv
<1>4. /\ reports \in List(Device) /\ more \in List(Targets)
  BY NowTypes
<1>5. e \in Device /\ reports = <<e>> \o rs /\ rs \in List(Device)
  BY <1>1, <1>4, ListHead
<1>6. Now' = more
  <2>1. /\ event' = e /\ unit' = NoUnit /\ targets' = <<>> /\ input' = input
        /\ reports' = SecondHalf(e) \o rs /\ pending' = FlatMap(MatchMap(e), rules)
    BY <1>1, <1>2
  <2> HIDE DEF e, rs
  <2>2. Now' = Later(input, <<e>> \o rs)
    BY <1>3, <1>5, <2>1, ReportAgenda
  <2> QED
    BY <1>5, <2>2
<1>7. Now = more
  <2>1. Now = <<>> \o (<<>> \o (<<>> \o more))
    BY <1>2, NowWithout
  <2> HIDE DEF more
  <2> QED
    BY <1>4, <2>1, ListConcat
<1> QED
  BY <1>1, <1>6, <1>7, AgendaSame

\* A target that has been expanded is now one of those to be started.
LEMMA AgendaResolved ==
  ASSUME CoreInv, AgendaInv, Resolved
  PROVE  AgendaInv'
<1>1. /\ event \in Device /\ unit = NoUnit /\ stage = "ready" /\ pending # <<>> /\ pending' = Tail(pending)
      /\ Meaning(Head(pending), DeviceName(event.name)) \in Text
      /\ targets' = Append(targets, Meaning(Head(pending), DeviceName(event.name)))
  BY ResolvedKeeps DEF CoreInv
<1>2. UNCHANGED <<input, stage, started, unit, event, reports>>
  BY DEF Resolved, treeVars
<1> DEFINE text == Meaning(Head(pending), DeviceName(event.name))
           t == Asks(event, targets)
           p == Opens(event, Tail(pending))
           r == Later(input, reports)
           y == Ask(event, text)
<1>3. /\ r \in List(Targets) /\ t \in List(Targets)
      /\ targets \in List(Text) /\ pending \in List(Text)
  BY NowTypes
<1>4. /\ Opens(event, pending) = <<Stands(event, Head(pending))>> \o p
      /\ Tail(pending) \in List(Text)
  BY <1>1, <1>3, OpensHead
<1>5. p \in List(Targets)
  BY <1>1, <1>3, <1>4, PartTypes
<1>6. y = Stands(event, Head(pending))
  BY DEF Ask, Stands
<1>7. Asks(event, targets') = t \o <<y>> /\ y \in Targets
  <2>1. targets' = Append(targets, text) /\ text \in Text
    BY <1>1
  <2> HIDE DEF text
  <2>2. Asks(event, Append(targets, text)) = t \o <<y>>
    BY <1>1, <1>3, <2>1, AsksAppend
  <2>3. y \in Targets
    BY <1>1, <2>1, AskType
  <2> QED
    BY <2>1, <2>2, <2>3
<1>8. Now = <<>> \o (t \o ((<<y>> \o p) \o r))
  <2>1. Now = <<>> \o (t \o (Opens(event, pending) \o r))
    BY <1>1, NowWithout
  <2> HIDE DEF t, p, r, y
  <2> QED
    BY <1>4, <1>6, <2>1
<1>9. Now' = <<>> \o ((t \o <<y>>) \o (p \o r))
  <2>1. Now' = Hand(NoUnit, event) \o (Asks(event, targets') \o (p \o r))
    BY <1>1, <1>2 DEF Now, Agenda
  <2> HIDE DEF t, p, r, y
  <2> QED
    BY <1>7, <2>1, PartsEmpty
<1>10. t \o ((<<y>> \o p) \o r) = (t \o <<y>>) \o (p \o r)
  <2> DEFINE one == <<y>>
  <2>1. t \in List(Targets) /\ p \in List(Targets) /\ r \in List(Targets)
    BY <1>3, <1>5
  <2>2. one \in List(Targets)
    BY <1>7, ListOne
  <2> DEFINE T == Targets
  <2> HIDE DEF t, p, r, one, T
  <2>3. one \in List(T) /\ t \in List(T) /\ p \in List(T) /\ r \in List(T)
    BY <2>1, <2>2 DEF T
  <2>4. Moves(t, one, p, r)
    BY <2>3, MovedOver
  <2> QED
    BY <2>4 DEF one, Moves
<1>11. Now' = Now
  BY <1>8, <1>9, <1>10
<1> QED
  BY <1>2, <1>11, AgendaSame

\* What a start, or a stop, that makes no unit comes to.
LEMMA StartedIs ==
  ASSUME CoreInv, ServicesInv, MadeInv, stage = "ready", event \in Device, NEW name \in Text,
         NEW service, NEW active \in BOOLEAN, Comes(name, service, active)
  PROVE  service = ExpectedOf(input, started, Len(started), Ask(event, name), active)
<1> DEFINE x == Ask(event, name)
           expected == ExpectedOf(input, started, Len(started), x, active)
           known == Named(services, name)
           s == services[Min(known)]
<1>1. /\ input \in Inputs /\ templates \in List(Templates(input))
      /\ templates = TemplatesMeant(input) /\ event.value \in Text \cup {NONE}
  BY DEF CoreInv, BaseInv, TypeInv, UnitsInv, Device
<1>2. x.target = name /\ x.value = event.value /\ (x.stop <=> event.what = "removed")
  BY AskType
<1> HIDE DEF x
<1>3. expected = IF known # {} /\ Stays(s, x, active) THEN <<s>>
                 ELSE IF x.stop THEN <<>> ELSE MadeOf(input, name, event.value)
  BY <1>2, ExpectedNow
<1>4. (Known(name) <=> known # {}) /\ ServiceOf(name) = s
  BY KnownIs
<1> HIDE DEF expected, known, s
<1>5. Stays(s, x, active) <=> x.stop \/ ~Refreshed(s, active)
  BY <1>2 DEF Stays, Refreshed, Renewed
<1>6. CASE x.stop
  <2>1. service = IF known # {} THEN <<s>> ELSE <<>>
    BY <1>2, <1>4, <1>6 DEF Comes
  <2> QED
    BY <1>3, <1>5, <1>6, <2>1 DEF expected, x
<1>7. CASE ~x.stop /\ Known(name) /\ service = <<s>> /\ ~Refreshed(s, active)
  BY <1>3, <1>4, <1>5, <1>7 DEF expected, x
<1>8. CASE ~x.stop /\ service = <<>> /\ Wanted(name) /\ ~active
           /\ (HasTemplate(name) => ~Parses(input, TemplateFile(name)))
  <2>1. ~(known # {} /\ Stays(s, x, active))
    <3>1. active = FALSE
      BY <1>8
    <3>2. known # {} => Refreshed(s, active)
      BY <1>4, <1>8, <3>1 DEF Wanted
    <3> QED
      BY <1>5, <1>8, <3>2
  <2>2. MadeOf(input, name, event.value) = <<>>
    BY <1>1, <1>8, MadeOfIs
  <2> QED
    BY <1>3, <1>8, <2>1, <2>2 DEF expected, x
<1> QED
  BY <1>2, <1>4, <1>6, <1>7, <1>8 DEF Comes

\* The first target leaves the agenda; nothing else in it changes.
LEMMA TargetTaken ==
  ASSUME CoreInv, event \in Device, unit = NoUnit, targets # <<>>, targets' = Tail(targets),
         UNCHANGED <<input, event, pending, reports>>
  PROVE  LET x == Ask(event, Head(targets))
             rest == Asks(event, Tail(targets)) \o (Opens(event, pending) \o Later(input, reports)) IN
         /\ x \in Targets /\ rest \in List(Targets) /\ Now = <<x>> \o rest
         /\ Now' = Hand(unit', event) \o rest /\ <<>> \o rest = rest
<1> DEFINE x == Ask(event, Head(targets))
           t == Asks(event, Tail(targets))
           r == Opens(event, pending) \o Later(input, reports)
           rest == t \o r
<1>1. r \in List(Targets) /\ targets \in List(Text) /\ pending \in List(Text)
  BY NowTypes, ListConcat
<1>2. /\ Asks(event, targets) = <<x>> \o t /\ Head(targets) \in Text /\ Tail(targets) \in List(Text)
  BY <1>1, AsksHead
<1>3. x \in Targets /\ t \in List(Targets)
  BY <1>1, <1>2, AskType, PartTypes
<1>4. Now = <<>> \o ((<<x>> \o t) \o r)
  <2>1. Now = <<>> \o (Asks(event, targets) \o r)
    BY NowWithout
  <2> QED
    BY <1>2, <2>1
<1>5. Now' = Hand(unit', event) \o (t \o r)
  BY DEF Now, Agenda
<1> HIDE DEF x, t, r
<1>6. FirstOut(x, t, r) /\ t \o r \in List(Targets)
  BY <1>1, <1>3, TakenFirst, ListConcat
<1>7. /\ <<>> \o ((<<x>> \o t) \o r) = <<x>> \o (t \o r) /\ <<>> \o (t \o r) = t \o r
  BY <1>6 DEF FirstOut
<1> QED
  BY <1>3, <1>4, <1>5, <1>6, <1>7 DEF x, t, r

\* A target that is a unit, or of which none is made, is started or stopped.
LEMMA AgendaStarts ==
  ASSUME CoreInv, ServicesInv, MadeInv, AgendaInv, StopTarget \/ StartKnown \/ StartUnknown
  PROVE  AgendaInv'
<1> DEFINE name == Head(targets)
           x == Ask(event, name)
           rest == Asks(event, Tail(targets)) \o (Opens(event, pending) \o Later(input, reports))
<1>1. /\ event \in Device /\ unit = NoUnit /\ stage = "ready" /\ targets # <<>> /\ name \in Text
      /\ targets' = Tail(targets)
      /\ \E service \in List(Services(input)), active \in BOOLEAN :
           Comes(name, service, active) /\ started' = Append(started, Done(name, service, active))
  BY StartKeeps DEF CoreInv
<1>2. UNCHANGED <<input, stage, unit, event, pending, reports>>
  BY <1>1 DEF StopTarget, StartKnown, StartUnknown, treeVars
<1>3. x \in Targets /\ rest \in List(Targets) /\ Now = <<x>> \o rest /\ Now' = Hand(NoUnit, event) \o rest
      /\ <<>> \o rest = rest
  BY <1>1, <1>2, TargetTaken
<1> HIDE DEF rest
<1>4. Now' = rest
  BY <1>3, PartsEmpty
<1>5. Leads(Now, x, Now') /\ Now' \in List(Targets)
  BY <1>3, <1>4 DEF Leads
<1>6. x.target = name
  BY DEF Ask
<1> HIDE DEF name
<1>7. PICK service \in List(Services(input)), active \in BOOLEAN :
        Comes(name, service, active) /\ started' = Append(started, Done(name, service, active))
  BY <1>1
<1>8. service = ExpectedOf(input, started, Len(started), x, active)
  BY <1>1, <1>7, StartedIs
<1> DEFINE s == Done(name, service, active)
<1>9. /\ s \in Starts(input) /\ started' = Append(started, s)
      /\ s.target = x.target /\ s.service = ExpectedOf(input, started, Len(started), x, s.active)
  BY <1>1, <1>6, <1>7, <1>8 DEF Starts, Done
<1>10. x \in Targets
  BY <1>3
<1> HIDE DEF s, x
<1> QED
  BY <1>1, <1>2, <1>5, <1>9, <1>10, AgendaMore

\* Between two reports only the reports are left.
LEMMA QuietNow ==
  ASSUME CoreInv, unit = NoUnit, targets = <<>>, pending = <<>>
  PROVE  Now = Later(input, reports)
<1> DEFINE more == Later(input, reports)
<1>1. more \in List(Targets)
  BY NowTypes
<1>2. Now = <<>> \o (<<>> \o (<<>> \o more))
  BY NowWithout
<1> HIDE DEF more
<1> QED
  BY <1>1, <1>2, ListConcat DEF more

\* The last files have been read, and all that is to be started is before us.
LEMMA AgendaFirst ==
  ASSUME CoreInv, stage # "ready", UNCHANGED <<input, started>>, Now' = Meant(input)
  PROVE  AgendaInv'
<1> DEFINE meant == Meant(input)
           done == <<>>
<1>1. started = <<>> /\ input \in Inputs
  BY DEF CoreInv, BaseInv, StageInv, TypeInv
<1>2. meant \in List(Targets) /\ done \in List(Targets)
  <2>1. meant \in List(Targets)
    BY <1>1, MeantIs
  <2>2. done \in List(Targets)
    BY DEF List
  <2> QED
    BY <2>1, <2>2
<1>3. Right(input, started, done)
  <2>1. \A i \in 1 .. Len(started) : FALSE
    BY <1>1
  <2> QED
    BY <1>1, <2>1 DEF Right
<1>4. done \o Now' = meant
  <2> HIDE DEF meant
  <2>1. done \o meant = meant
    BY <1>2, ListConcat
  <2> QED
    BY <2>1 DEF meant
<1> HIDE DEF done, meant
<1>5. /\ done \in List(Targets) /\ Right(input', started', done)
      /\ done \o Agenda(input', unit', event', targets', pending', reports') = Meant(input')
  BY <1>2, <1>3, <1>4 DEF Now, meant
<1> QED
  BY <1>5 DEF AgendaInv

\* All reports are before us, that of the mount point first.
LEMMA AgendaEntered ==
  ASSUME CoreInv, stage # "ready", stage' = "ready", OpenRules \/ RulesWalk \/ ReportMount
  PROVE  AgendaInv'
<1>1. /\ event = NoReport /\ targets = <<>> /\ pending = <<>> /\ reports = input.reports /\ input \in Inputs
  BY DEF CoreInv, BaseInv, StageInv, TypeInv
<1>2. CASE OpenRules \/ RulesWalk
  <2>1. /\ input.source = NONE /\ unit = NoUnit
        /\ UNCHANGED <<input, unit, started, event, targets, pending, reports>>
    <3>1. Loaded = "ready" /\ stage # "units"
      BY <1>2 DEF OpenRules, RulesWalk, Walk, Leave
    <3>2. unit = NoUnit
      BY <1>1, <3>1, Quiet DEF CoreInv
    <3>3. UNCHANGED <<input, unit, started, event, targets, pending, reports>>
      BY <1>2 DEF OpenRules, RulesWalk, Walk, Leave, eventVars
    <3> QED
      BY <3>1, <3>2, <3>3 DEF Loaded
  <2>2. Now = Later(input, reports)
    BY <1>1, <2>1, QuietNow
  <2>3. Meant(input) = Later(input, reports)
    BY <1>1, <2>1, MeantIs
  <2>4. Now' = Now
    BY <2>1 DEF Now
  <2> QED
    BY <2>1, <2>2, <2>3, <2>4, AgendaFirst
<1>3. CASE ReportMount
  <2>1. /\ stage = "mounted" /\ event' = MountReport(input.source) /\ reports' = reports
        /\ UNCHANGED <<input, unit, started, targets>>
    BY <1>3 DEF ReportMount, Handles
  <2>2. /\ unit = NoUnit /\ pending' = FlatMap(MatchMap(event'), rules) /\ input.source # NONE
    BY <1>3, <2>1, ReportKeeps DEF CoreInv
  <2>3. rules = RulesMeant(input)
    BY <2>1 DEF CoreInv, RulesInv
  <2> DEFINE e == MountReport(input.source)
  <2>4. e \in Device /\ Meant(input) = Later(input, <<e>> \o reports) /\ reports \in List(Device)
    BY <1>1, <2>2, MeantIs
  <2>5. SecondHalf(e) = <<>>
    BY DEF SecondHalf, MountReport
  <2>6. /\ event' = e /\ unit' = NoUnit /\ targets' = <<>> /\ input' = input
        /\ pending' = FlatMap(MatchMap(e), rules) /\ reports' = SecondHalf(e) \o reports
    <3>1. <<>> \o reports = reports
      BY <2>4, ListConcat
    <3> QED
      BY <1>1, <2>1, <2>2, <2>5, <3>1
  <2> HIDE DEF e
  <2>7. Now' = Later(input, <<e>> \o reports)
    BY <2>3, <2>4, <2>5, <2>6, ReportAgenda
  <2>8. Now' = Meant(input)
    BY <2>1, <2>4, <2>7
  <2> QED
    BY <2>1, <2>8, AgendaFirst
<1> QED
  BY <1>2, <1>3

\* The target an instance is made for is in hand with it.
LEMMA AgendaInstance ==
  ASSUME CoreInv, AgendaInv, StartInstance
  PROVE  AgendaInv'
<1> DEFINE x == Ask(event, Head(targets))
           rest == Asks(event, Tail(targets)) \o (Opens(event, pending) \o Later(input, reports))
<1>0. stage = "ready" /\ templates = TemplatesMeant(input)
  <2>1. stage = "ready"
    BY DEF CoreInv, BaseInv, StageInv, StartInstance, MayStart, AtTarget
  <2> QED
    BY <2>1 DEF CoreInv, UnitsInv
<1>1. /\ event \in Device /\ unit = NoUnit /\ targets # <<>> /\ targets' = Tail(targets)
      /\ unit' \in UnitRecs /\ unit'.name = Head(targets)
  BY <1>0, StartInstanceKeeps DEF CoreInv
<1>2. UNCHANGED <<input, stage, started, event, pending, reports>>
  BY DEF StartInstance, treeVars
<1>3. Now = <<x>> \o rest /\ Now' = Hand(unit', event) \o rest
  BY <1>1, <1>2, TargetTaken
<1>4. Hand(unit', event) = <<x>>
  BY <1>1, NotNothing DEF Hand
<1> HIDE DEF x, rest
<1>5. Now' = Now
  BY <1>3, <1>4
<1> QED
  BY <1>2, <1>5, AgendaSame

\* The unit in hand keeps its name.
LEMMA AgendaExpanded ==
  ASSUME CoreInv, AgendaInv, Expanded
  PROVE  AgendaInv'
<1>1. unit \in UnitRecs /\ unit' \in UnitRecs /\ unit'.name = unit.name
  BY ExpandedKeeps DEF CoreInv
<1>2. UNCHANGED <<input, stage, started, event, targets, pending, reports>>
  BY DEF Expanded, treeVars, eventVars
<1>3. Hand(unit', event) = Hand(unit, event)
  BY <1>1, NotNothing DEF Hand
<1>4. Now' = Now
  BY <1>2, <1>3 DEF Now, Agenda
<1> QED
  BY <1>2, <1>4, AgendaSame

\* Nothing is left of a report that has been handled.
LEMMA AgendaHandled ==
  ASSUME CoreInv, AgendaInv, Handled
  PROVE  AgendaInv'
<1>1. unit = NoUnit /\ pending = <<>> /\ targets = <<>>
  BY DEF Handled, Idle
<1>2. UNCHANGED <<input, stage, started, unit, targets, pending, reports>>
  BY DEF Handled, treeVars
<1> DEFINE more == Later(input, reports)
<1>3. Now = Hand(NoUnit, event) \o (Asks(event, <<>>) \o (Opens(event, <<>>) \o more))
  BY <1>1 DEF Now, Agenda
<1>4. Now' = Hand(NoUnit, event') \o (Asks(event', <<>>) \o (Opens(event', <<>>) \o more))
  BY <1>1, <1>2 DEF Now, Agenda
<1> HIDE DEF more
<1>5. Now' = Now
  BY <1>3, <1>4, PartsEmpty
<1> QED
  BY <1>2, <1>5, AgendaSame

\* The target in hand is started with what has been made of it.
LEMMA AgendaBuilt ==
  ASSUME CoreInv, ServicesInv, MadeInv, WantedInv, AgendaInv, Build \/ BuildFails
  PROVE  AgendaInv'
<1> DEFINE name == unit.name
           x == Ask(event, name)
           m == Making(input, unit)
           s == Done(name, m, FALSE)
           rest == Asks(event, targets) \o (Opens(event, pending) \o Later(input, reports))
<1>1. /\ unit \in UnitRecs /\ unit' = NoUnit /\ m \in List(Services(input))
      /\ IF unit.demand THEN /\ stage = "ready" /\ event # NoReport /\ started' = Append(started, s)
                        ELSE stage = "units"
  BY BuildKeeps DEF CoreInv
<1>2. UNCHANGED <<input, stage, event, targets, pending, reports>>
  BY DEF Build, BuildFails, treeVars
<1>3. CASE stage # "ready"
  BY <1>2, <1>3 DEF AgendaInv
<1>4. CASE stage = "ready"
  <2>1. started' = Append(started, s) /\ event \in Device
    BY <1>1, <1>4, NowTypes
  <2>2. name \in Text /\ unit # NoUnit
    BY <1>1, NotNothing DEF UnitRecs
  <2>3. x \in Targets /\ x.target = name /\ x.value = event.value /\ (x.stop <=> event.what = "removed")
    BY <2>1, <2>2, AskType
  <2>4. rest \in List(Targets)
    BY NowTypes, ListConcat
  <2>5. Now = <<x>> \o rest
    BY <2>2 DEF Now, Agenda, Hand
  <2>6. Now' = rest
    <3>1. Now' = Hand(NoUnit, event) \o rest
      BY <1>1, <1>2 DEF Now, Agenda
    <3> HIDE DEF rest
    <3>2. <<>> \o rest = rest
      BY <2>4, ListConcat
    <3> QED
      BY <3>1, <3>2, PartsEmpty
  <2>7. s \in Starts(input) /\ s.target = x.target /\ s.service = m /\ s.active = FALSE
    BY <1>1, <2>2, <2>3 DEF Starts, Done
  <2>8. m = ExpectedOf(input, started, Len(started), x, FALSE)
    <3> DEFINE known == Named(services, name)
               old == services[Min(known)]
    <3>1. m = MadeOf(input, name, event.value)
      BY <1>4, <2>2 DEF MadeInv
    <3>2. event.what # "removed" /\ Wanted(name)
      BY <1>4, <2>2 DEF WantedInv
    <3>3. (Known(name) <=> known # {}) /\ ServiceOf(name) = old
      BY KnownIs
    <3> HIDE DEF m, x, known, old
    <3>4. ExpectedOf(input, started, Len(started), x, FALSE)
            = IF known # {} /\ Stays(old, x, FALSE) THEN <<old>>
              ELSE IF x.stop THEN <<>> ELSE MadeOf(input, x.target, x.value)
      BY <1>4, <2>3, ExpectedNow DEF known, old
    <3>5. ~(known # {} /\ Stays(old, x, FALSE)) /\ ~x.stop
      BY <2>3, <3>2, <3>3 DEF Wanted, Stays, Refreshed, Renewed
    <3> QED
      BY <2>3, <3>1, <3>4, <3>5
  <2> HIDE DEF x, s, m, rest
  <2>9. Leads(Now, x, Now') /\ Now' \in List(Targets)
    BY <2>4, <2>5, <2>6 DEF Leads
  <2> QED
    BY <1>2, <1>4, <2>1, <2>3, <2>7, <2>8, <2>9, AgendaMore
<1> QED
  BY <1>3, <1>4

\* AgendaInv is inductive, given the others.
LEMMA AgendaStep ==
  ASSUME CoreInv, ServicesInv, MadeInv, WantedInv, AgendaInv, [Next]_vars
  PROVE  AgendaInv'
<1>1. CASE stage' # "ready"
  BY <1>1 DEF AgendaInv
<1>2. CASE stage' = "ready" /\ stage # "ready"
  <2>1. OpenRules \/ RulesWalk \/ ReportMount
    BY <1>2, WalkKeeps
      DEF CoreInv, Next, vars, treeVars, OpenUnits, SkipUnit, FoundTemplate, FoundUnit, ExpandKey,
         Expanding, Expanded, BuildFails, Build, ReadRules, Report, Handles,
         ExpandTarget, Resolved, StopTarget, StartKnown, StartUnknown, StartInstance, Handled
  <2> QED
    BY <1>2, <2>1, AgendaEntered
<1>3. CASE stage' = "ready" /\ stage = "ready"
  <2>1. CASE Build \/ BuildFails
    BY <2>1, AgendaBuilt
  <2>2. CASE StopTarget \/ StartKnown \/ StartUnknown
    BY <2>2, AgendaStarts
  <2>3. CASE StartInstance
    BY <2>3, AgendaInstance
  <2>4. CASE Expanded
    BY <2>4, AgendaExpanded
  <2>5. CASE Report
    BY <2>5, AgendaReport
  <2>6. CASE Resolved
    BY <2>6, AgendaResolved
  <2>7. CASE Handled
    BY <2>7, AgendaHandled
  <2>8. CASE ExpandKey \/ Expanding \/ ExpandTarget \/ UNCHANGED vars
    <3>1. UNCHANGED <<input, stage, started, unit, event, targets, pending, reports>>
      BY <2>8 DEF ExpandKey, Expanding, ExpandTarget, vars, treeVars, parsedVars, eventVars
    <3>2. Now' = Now
      BY <3>1 DEF Now
    <3> QED
      BY <3>1, <3>2, AgendaSame
  <2> QED
    BY <1>3, <2>1, <2>2, <2>3, <2>4, <2>5, <2>6, <2>7, <2>8
      DEF Next, OpenUnits, UnitsWalk, Walk, Leave, SkipUnit, FoundTemplate, FoundUnit,
          OpenRules, RulesWalk, ReadRules, ReportMount, AtFile
<1> QED
  BY <1>1, <1>2, <1>3

\* When every report has been handled, each unit a rule names has been started, or
\* stopped, once and in order, and each start came to what the files say it is to:
\* an inactive library's instance was made again with the value of the report.
THEOREM UnitFilesReportsRight == Spec => []ReportsRight
<1>1. Init => ServicesInv /\ MadeInv /\ WantedInv /\ AgendaInv
  BY DEF Init, ServicesInv, MadeInv, WantedInv, AgendaInv
<1>2. CoreInv /\ AgendaInv => ReportsRight
  <2> SUFFICES ASSUME CoreInv, AgendaInv, stage = "ready", event = NoReport, reports = <<>>
               PROVE  /\ Len(started) = Len(Meant(input))
                      /\ \A i \in DOMAIN started :
                           /\ started[i].target = Meant(input)[i].target
                           /\ started[i].service = Expected(input, i - 1, Meant(input)[i], started[i].active)
    BY DEF ReportsRight
  <2>1. targets = <<>> /\ pending = <<>> /\ unit = NoUnit
    BY Quiet DEF CoreInv, BaseInv, StageInv
  <2>2. Now = <<>>
    <3>1. Later(input, <<>>) = <<>>
      <4>1. [i \in DOMAIN <<>> |-> <<(<<>>)[i]>> \o SecondHalf((<<>>)[i])] = <<>>
        OBVIOUS
      <4>2. Halves(<<>>) = <<>>
        BY <4>1, FlattenEmpty DEF Halves
      <4> QED
        BY <4>2, FlatMapEmpty DEF Later
    <3> QED
      BY <2>1, <3>1, QuietNow
  <2>3. PICK done \in List(Targets) : done \o Now = Meant(input) /\ Right(input, started, done)
    BY DEF AgendaInv, Now
  <2>4. done = Meant(input)
    BY <2>2, <2>3, ListConcat
  <2>5. DOMAIN started = 1 .. Len(started)
    BY DEF CoreInv, BaseInv, TypeInv, List
  <2>6. Right(input, started, Meant(input))
    BY <2>3, <2>4
  <2> QED
    BY <2>5, <2>6, ExpectedIs DEF Right
<1>3. CoreInv /\ ServicesInv /\ MadeInv /\ WantedInv /\ AgendaInv /\ [Next]_vars
        => ServicesInv' /\ MadeInv' /\ WantedInv' /\ AgendaInv'
  BY ServicesStep, MadeStep, WantedStep, AgendaStep
<1> QED
  BY <1>1, <1>2, <1>3, CoreStarts, CoreKeeps, PTL DEF Spec
=============================================================================
