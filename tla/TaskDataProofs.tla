--------------------------- MODULE TaskDataProofs ---------------------------
(***************************************************************************)
(* Proofs about the data of requests, for any files and contents: what the *)
(* parser returns, types, whose task panics, and the order in which the    *)
(* requests of all tasks get the lines of a serial file.                   *)
(***************************************************************************)
EXTENDS TaskData, SequenceTheorems, WellFoundedInduction, TLAPS

LEMMA SeqTyped ==
  ASSUME NEW R, NEW q \in Seq(R), NEW T, \A k \in DOMAIN q : q[k] \in T
  PROVE  q \in Seq(T)
<1>1. q \in [1 .. Len(q) -> T] /\ Len(q) \in Nat
  OBVIOUS
<1> QED
  BY <1>1, SeqDef

-----------------------------------------------------------------------------
(* The loop that collects the lines of a file.  Induction over its length  *)
(* is an argument about the least number for which a fact would be false.  *)

LEMMA LeastNumber ==
  ASSUME NEW B \in SUBSET Nat, B # {}
  PROVE  \E x \in B : \A y \in B : x <= y
<1>1. PICK x \in B : \A y \in B : <<y, x>> \notin OpToRel(<, Nat)
  BY NatLessThanWellFounded, WFMin
<1>2. \A y \in B : ~(y < x)
  BY <1>1 DEF OpToRel
<1> QED
  BY <1>2

\* The function of the loop over n lines.
UpTo(n, S, g) ==
  g = [i \in 0 .. n |->
         IF i = 0 THEN <<>> ELSE IF i \in S THEN Append(g[i - 1], i) ELSE g[i - 1]]

LEMMA CollectIs ==
  ASSUME NEW n, NEW S
  PROVE  Collect(n, S) = (CHOOSE g : UpTo(n, S, g))[n]
BY DEF Collect, UpTo

LEMMA UpToAt ==
  ASSUME NEW n \in Nat, NEW S, NEW g, UpTo(n, S, g), NEW i \in 0 .. n
  PROVE  g[i] = IF i = 0 THEN <<>> ELSE IF i \in S THEN Append(g[i - 1], i) ELSE g[i - 1]
<1>1. PICK f : f = [j \in 0 .. n |->
                     IF j = 0 THEN <<>> ELSE IF j \in S THEN Append(g[j - 1], j) ELSE g[j - 1]]
  OBVIOUS
<1>2. f[i] = IF i = 0 THEN <<>> ELSE IF i \in S THEN Append(g[i - 1], i) ELSE g[i - 1]
  BY <1>1
<1>3. g = f
  BY <1>1 DEF UpTo
<1> QED
  BY <1>2, <1>3

LEMMA UpToExists ==
  ASSUME NEW S
  PROVE  \A n \in Nat : \E g : UpTo(n, S, g)
<1>1. SUFFICES ASSUME ~ \A n \in Nat : \E g : UpTo(n, S, g) PROVE FALSE
  OBVIOUS
<1>2. PICK B : B = {n \in Nat : ~ \E g : UpTo(n, S, g)}
  OBVIOUS
<1>3. PICK n \in B : \A m \in B : n <= m
  BY <1>1, <1>2, LeastNumber
<1>4. n \in Nat /\ ~ \E g : UpTo(n, S, g)
  BY <1>2
<1>5. CASE n = 0
  <2>1. UpTo(0, S, [i \in 0 .. 0 |-> <<>>])
    BY DEF UpTo
  <2> QED
    BY <1>4, <1>5, <2>1
<1>6. CASE n # 0
  <2>1. n - 1 \in Nat /\ n - 1 \notin B
    BY <1>3, <1>4, <1>6
  <2>2. PICK g : UpTo(n - 1, S, g)
    BY <1>2, <2>1
  <2>3. PICK h : h = [i \in 0 .. n |-> IF i < n THEN g[i]
                                       ELSE IF n \in S THEN Append(g[n - 1], n) ELSE g[n - 1]]
    OBVIOUS
  <2>4. /\ g[0] = <<>>
        /\ \A i \in 1 .. n - 1 : g[i] = IF i \in S THEN Append(g[i - 1], i) ELSE g[i - 1]
    BY <2>1, <2>2, UpToAt
  <2>5. h[0] = <<>>
    BY <1>4, <1>6, <2>3, <2>4
  <2>6. ASSUME NEW i \in 1 .. n
        PROVE  h[i] = IF i \in S THEN Append(h[i - 1], i) ELSE h[i - 1]
    <3>1. h[i - 1] = g[i - 1]
      BY <1>4, <2>3
    <3>2. CASE i < n
      BY <1>4, <2>3, <2>4, <3>1, <3>2
    <3>3. CASE i = n
      BY <1>4, <2>3, <3>1, <3>3
    <3> QED
      BY <1>4, <3>2, <3>3
  <2>7. h = [i \in 0 .. n |-> IF i = 0 THEN <<>> ELSE IF i \in S THEN Append(h[i - 1], i)
                                                  ELSE h[i - 1]]
    <3>1. h = [i \in 0 .. n |-> h[i]]
      BY <2>3
    <3> QED
      BY <1>4, <2>5, <2>6, <3>1
  <2> QED
    BY <1>4, <2>7 DEF UpTo
<1> QED
  BY <1>5, <1>6

LEMMA UpToSame ==
  ASSUME NEW S, NEW T, NEW n \in Nat, NEW m \in Nat, NEW g, NEW h, UpTo(n, S, g), UpTo(m, T, h),
         n <= m, \A i \in 1 .. n : i \in S <=> i \in T
  PROVE  \A i \in 0 .. n : g[i] = h[i]
<1>1. SUFFICES ASSUME ~ \A i \in 0 .. n : g[i] = h[i] PROVE FALSE
  OBVIOUS
<1>2. PICK B : B = {i \in Nat : i <= n /\ g[i] # h[i]}
  OBVIOUS
<1>3. PICK i \in B : \A j \in B : i <= j
  BY <1>1, <1>2, LeastNumber
<1>4. i \in 0 .. n /\ g[i] # h[i]
  BY <1>2
<1>5. /\ g[i] = IF i = 0 THEN <<>> ELSE IF i \in S THEN Append(g[i - 1], i) ELSE g[i - 1]
      /\ h[i] = IF i = 0 THEN <<>> ELSE IF i \in T THEN Append(h[i - 1], i) ELSE h[i - 1]
  BY <1>4, UpToAt
<1>6. i # 0
  BY <1>4, <1>5
<1>7. i - 1 \in Nat /\ i - 1 \notin B
  BY <1>3, <1>4, <1>6
<1>8. g[i - 1] = h[i - 1]
  BY <1>2, <1>4, <1>7
<1>9. i \in S <=> i \in T
  BY <1>4, <1>6
<1> QED
  BY <1>4, <1>5, <1>6, <1>8, <1>9

\* Collect takes one line after the other.
LEMMA CollectSteps ==
  ASSUME NEW S
  PROVE  /\ Collect(0, S) = <<>>
         /\ \A n \in Nat \ {0} : Collect(n, S) = IF n \in S THEN Append(Collect(n - 1, S), n)
                                                 ELSE Collect(n - 1, S)
<1>1. \A n \in Nat : UpTo(n, S, CHOOSE g : UpTo(n, S, g))
  BY UpToExists
<1>2. Collect(0, S) = <<>>
  <2>1. PICK g : g = CHOOSE e : UpTo(0, S, e)
    OBVIOUS
  <2>2. UpTo(0, S, g) /\ Collect(0, S) = g[0]
    BY <1>1, <2>1, CollectIs
  <2> QED
    BY <2>2, UpToAt
<1>3. ASSUME NEW n \in Nat \ {0}
      PROVE  Collect(n, S) = IF n \in S THEN Append(Collect(n - 1, S), n) ELSE Collect(n - 1, S)
  <2>1. n - 1 \in Nat
    OBVIOUS
  <2>2. PICK g : g = CHOOSE e : UpTo(n, S, e)
    OBVIOUS
  <2>3. PICK h : h = CHOOSE e : UpTo(n - 1, S, e)
    OBVIOUS
  <2>4. UpTo(n, S, g) /\ Collect(n, S) = g[n]
    BY <1>1, <2>2, CollectIs
  <2>5. UpTo(n - 1, S, h) /\ Collect(n - 1, S) = h[n - 1]
    BY <1>1, <2>1, <2>3, CollectIs
  <2>6. h[n - 1] = g[n - 1]
    BY <2>1, <2>4, <2>5, UpToSame
  <2>7. g[n] = IF n \in S THEN Append(g[n - 1], n) ELSE g[n - 1]
    BY <2>4, UpToAt
  <2> QED
    BY <2>4, <2>5, <2>6, <2>7
<1> QED
  BY <1>2, <1>3

\* What was collected from n lines: those in S, in their order.
Collected(n, S, c) ==
  /\ c \in Seq(1 .. n)
  /\ \A i, j \in DOMAIN c : i < j => c[i] < c[j]
  /\ \A l \in 1 .. n : l \in S <=> \E i \in DOMAIN c : c[i] = l

LEMMA CollectedNext ==
  ASSUME NEW S, NEW n \in Nat \ {0}, NEW c, NEW d, Collected(n - 1, S, c),
         d = IF n \in S THEN Append(c, n) ELSE c
  PROVE  Collected(n, S, d)
<1>1. /\ c \in Seq(1 .. n - 1) /\ \A i, j \in DOMAIN c : i < j => c[i] < c[j]
      /\ \A l \in 1 .. n - 1 : l \in S <=> \E i \in DOMAIN c : c[i] = l
  BY DEF Collected
<1>2. c \in Seq(1 .. n) /\ \A i \in DOMAIN c : c[i] \in 1 .. n - 1
  <2>1. \A i \in DOMAIN c : c[i] \in 1 .. n - 1
    BY <1>1
  <2>2. \A i \in DOMAIN c : c[i] \in 1 .. n
    BY <2>1
  <2>3. c \in Seq(1 .. n)
    BY <1>1, <2>2, SeqTyped
  <2> QED
    BY <2>1, <2>3
<1>3. CASE n \notin S
  <2>1. d = c
    BY <1>3
  <2>2. \A l \in 1 .. n : l \in 1 .. n - 1 \/ l = n
    OBVIOUS
  <2>3. ~ \E i \in DOMAIN c : c[i] = n
    BY <1>2
  <2>4. \A l \in 1 .. n : l \in S <=> \E i \in DOMAIN c : c[i] = l
    BY <1>1, <1>3, <2>2, <2>3
  <2> QED
    BY <1>1, <1>2, <2>1, <2>4 DEF Collected
<1>4. CASE n \in S
  <2>1. d = Append(c, n)
    BY <1>4
  <2>2. PICK m \in Nat : m = Len(c)
    BY <1>2
  <2>3. /\ d \in Seq(1 .. n) /\ DOMAIN d = 1 .. m + 1 /\ DOMAIN c = 1 .. m
        /\ d[m + 1] = n /\ \A i \in 1 .. m : d[i] = c[i]
    <3>1. c \in Seq(1 .. n) /\ n \in 1 .. n
      BY <1>2
    <3>2. d \in Seq(1 .. n)
      <4>1. PICK R : R = 1 .. n
        OBVIOUS
      <4>2. c \in Seq(R) /\ n \in R
        BY <3>1, <4>1
      <4>3. d \in Seq(R)
        BY <2>1, <4>2, AppendProperties
      <4> QED
        BY <4>1, <4>3
    <3>3. Len(d) = m + 1 /\ d[m + 1] = n /\ \A i \in 1 .. m : d[i] = c[i]
      BY <2>1, <2>2, <3>1, AppendProperties
    <3>4. DOMAIN d = 1 .. m + 1 /\ DOMAIN c = 1 .. m
      BY <2>2, <3>1, <3>2, <3>3
    <3> QED
      BY <3>2, <3>3, <3>4
  <2>4. ASSUME NEW i \in DOMAIN d, NEW j \in DOMAIN d, i < j PROVE d[i] < d[j]
    <3>1. i \in 1 .. m /\ d[i] = c[i] /\ c[i] \in 1 .. n - 1
      BY <1>2, <2>3, <2>4
    <3>2. CASE j = m + 1
      BY <2>3, <3>1, <3>2
    <3>3. CASE j # m + 1
      <4>1. j \in 1 .. m
        BY <2>3, <3>3
      <4> QED
        BY <1>1, <2>3, <2>4, <3>1, <4>1
    <3> QED
      BY <3>2, <3>3
  <2>5. ASSUME NEW l \in 1 .. n PROVE l \in S <=> \E i \in DOMAIN d : d[i] = l
    <3>1. CASE l = n
      BY <1>4, <2>3, <3>1
    <3>2. CASE l # n
      <4>1. l \in 1 .. n - 1
        BY <3>2
      <4>2. l \in S <=> \E i \in 1 .. m : c[i] = l
        BY <1>1, <2>3, <4>1
      <4>3. \A i \in DOMAIN d : i \in 1 .. m \/ i = m + 1
        BY <2>3
      <4>4. (\E i \in 1 .. m : c[i] = l) <=> \E i \in DOMAIN d : d[i] = l
        BY <2>3, <3>2, <4>3
      <4> QED
        BY <4>2, <4>4
    <3> QED
      BY <3>1, <3>2
  <2> QED
    BY <2>3, <2>4, <2>5 DEF Collected
<1> QED
  BY <1>3, <1>4

LEMMA CollectCorrect ==
  ASSUME NEW S
  PROVE  \A n \in Nat : Collected(n, S, Collect(n, S))
<1>1. SUFFICES ASSUME ~ \A n \in Nat : Collected(n, S, Collect(n, S)) PROVE FALSE
  OBVIOUS
<1>2. PICK B : B = {n \in Nat : ~Collected(n, S, Collect(n, S))}
  OBVIOUS
<1>3. PICK n \in B : \A m \in B : n <= m
  BY <1>1, <1>2, LeastNumber
<1>4. n \in Nat /\ ~Collected(n, S, Collect(n, S))
  BY <1>2
<1>5. CASE n = 0
  <2>1. <<>> \in Seq(1 .. 0) /\ DOMAIN <<>> = {} /\ 1 .. 0 = {}
    OBVIOUS
  <2>2. Collected(0, S, <<>>)
    BY <2>1 DEF Collected
  <2> QED
    BY <1>4, <1>5, <2>2, CollectSteps
<1>6. CASE n # 0
  <2>1. n - 1 \in Nat /\ n - 1 \notin B
    BY <1>3, <1>4, <1>6
  <2>2. Collected(n - 1, S, Collect(n - 1, S))
    BY <1>2, <2>1
  <2>3. n \in Nat \ {0}
    BY <1>4, <1>6
  <2>4. Collect(n, S) = IF n \in S THEN Append(Collect(n - 1, S), n) ELSE Collect(n - 1, S)
    BY <2>3, CollectSteps
  <2>5. Collected(n, S, Collect(n, S))
    BY <2>2, <2>3, <2>4, CollectedNext
  <2> QED
    BY <1>4, <2>5
<1> QED
  BY <1>5, <1>6

LEMMA CollectSame ==
  ASSUME NEW S, NEW T, NEW n \in Nat, \A i \in 1 .. n : i \in S <=> i \in T
  PROVE  Collect(n, S) = Collect(n, T)
<1>1. PICK g : g = CHOOSE e : UpTo(n, S, e)
  OBVIOUS
<1>2. PICK h : h = CHOOSE e : UpTo(n, T, e)
  OBVIOUS
<1>3. UpTo(n, S, g) /\ Collect(n, S) = g[n]
  BY <1>1, UpToExists, CollectIs
<1>4. UpTo(n, T, h) /\ Collect(n, T) = h[n]
  BY <1>2, UpToExists, CollectIs
<1>5. g[n] = h[n]
  BY <1>3, <1>4, UpToSame
<1> QED
  BY <1>3, <1>4, <1>5

\* To lose the last line is to lose the last element.
LEMMA CollectFront ==
  ASSUME NEW S, NEW n \in Nat \ {0}, n \in S
  PROVE  Collect(n, S \ {n}) = Front(Collect(n, S))
<1>1. n - 1 \in Nat /\ \A i \in 1 .. n - 1 : i \in S <=> i \in S \ {n}
  OBVIOUS
<1>2. PICK c : c = Collect(n - 1, S)
  OBVIOUS
<1>3. Collect(n, S) = Append(c, n)
  BY <1>2, CollectSteps
<1>4. Collect(n, S \ {n}) = Collect(n - 1, S \ {n})
  BY CollectSteps
<1>5. Collect(n - 1, S) = Collect(n - 1, S \ {n})
  BY <1>1, CollectSame
<1>6. c \in Seq(1 .. n - 1)
  BY <1>1, <1>2, CollectCorrect DEF Collected
<1>7. Front(Append(c, n)) = c
  <2>1. c \in Seq(Nat)
    <3>1. \A i \in DOMAIN c : c[i] \in Nat
      BY <1>6
    <3> QED
      BY <1>6, <3>1, SeqTyped
  <2> QED
    BY <2>1, AppendProperties, SubSeqProperties, SMT DEF Front
<1> QED
  BY <1>2, <1>3, <1>4, <1>5, <1>7

-----------------------------------------------------------------------------
(* The lines of a file *)

LEMMA SizesTyped ==
  ASSUME NEW f \in Readable
  PROVE  /\ f \in File /\ Content[f].sizes \in Seq(Nat)
         /\ NotEmpty(f) = {i \in 1 .. Len(Content[f].sizes) : Content[f].sizes[i] > 0}
<1>1. f \in File /\ Content[f] \in [sizes : Seq(Nat), ended : BOOLEAN]
  BY TaskDataConstants DEF Readable
<1>2. Content[f].sizes \in Seq(Nat)
  BY <1>1
<1> QED
  BY <1>1, <1>2 DEF NotEmpty

LEMMA ParseIs ==
  ASSUME NEW f \in Readable
  PROVE  ParseFile[f] = IF LastLineLost(f) THEN Front(Data(f)) ELSE Data(f)
<1>1. PICK q \in Seq(Nat) : q = Content[f].sizes
  BY SizesTyped
<1>2. ParseFile[f] = Collect(Len(q), IF LastLineLost(f) THEN NotEmpty(f) \ {Len(q)} ELSE NotEmpty(f))
  BY <1>1 DEF ParseFile
<1>3. Data(f) = Collect(Len(q), NotEmpty(f))
  BY <1>1 DEF Data
<1>4. ASSUME LastLineLost(f) PROVE Len(q) \in Nat \ {0} /\ Len(q) \in NotEmpty(f)
  <2>1. q # <<>> /\ q[Len(q)] > 0
    BY <1>1, <1>4 DEF LastLineLost
  <2>2. Len(q) \in Nat \ {0}
    BY <2>1, EmptySeq
  <2> QED
    BY <1>1, <2>1, <2>2, SizesTyped
<1>5. ASSUME LastLineLost(f)
      PROVE  Collect(Len(q), NotEmpty(f) \ {Len(q)}) = Front(Collect(Len(q), NotEmpty(f)))
  BY <1>4, <1>5, CollectFront
<1> QED
  BY <1>2, <1>3, <1>5

\* ParseFile (csv/csvHelpers.go) returns, for every content of a file, the
\* lines that are not empty, each once and in their order in the file, all of
\* them but a last one that is lost with a full buffer of the reader.
THEOREM ParseFileCorrect ==
  \A f \in Readable :
    LET n == Len(Content[f].sizes)
        p == ParseFile[f]
    IN  /\ p \in Seq(1 .. n)
        /\ \A i, j \in DOMAIN p : i < j => p[i] < p[j]
        /\ \A l \in 1 .. n :
             (\E i \in DOMAIN p : p[i] = l) <=>
               Content[f].sizes[l] > 0 /\ ~(l = n /\ LastLineLost(f))
<1>1. SUFFICES ASSUME NEW f \in Readable, NEW q \in Seq(Nat), q = Content[f].sizes
               PROVE  LET n == Len(q)
                          p == ParseFile[f]
                      IN  /\ p \in Seq(1 .. n)
                          /\ \A i, j \in DOMAIN p : i < j => p[i] < p[j]
                          /\ \A l \in 1 .. n :
                               (\E i \in DOMAIN p : p[i] = l) <=>
                                 q[l] > 0 /\ ~(l = n /\ LastLineLost(f))
  BY SizesTyped
<1>2. PICK S : S = IF LastLineLost(f) THEN NotEmpty(f) \ {Len(q)} ELSE NotEmpty(f)
  OBVIOUS
<1>3. ParseFile[f] = Collect(Len(q), S)
  BY <1>1, <1>2 DEF ParseFile
<1>4. Len(q) \in Nat
  OBVIOUS
<1>5. Collected(Len(q), S, ParseFile[f])
  BY <1>3, <1>4, CollectCorrect
<1>6. ASSUME NEW l \in 1 .. Len(q)
      PROVE  l \in S <=> q[l] > 0 /\ ~(l = Len(q) /\ LastLineLost(f))
  BY <1>1, <1>2, <1>6, SizesTyped
<1> QED
  BY <1>5, <1>6 DEF Collected

LEMMA LinesTyped ==
  ASSUME NEW f \in Readable
  PROVE  /\ Lines(f) \in Nat /\ ParseFile[f] \in Seq(Nat)
         /\ \A i \in 1 .. Lines(f) : ParseFile[f][i] \in Nat
<1>1. PICK p : p = ParseFile[f]
  OBVIOUS
<1>2. PICK n \in Nat : n = Len(Content[f].sizes)
  BY SizesTyped
<1>3. p \in Seq(1 .. n)
  BY <1>1, <1>2, ParseFileCorrect
<1>4. \A i \in DOMAIN p : p[i] \in Nat
  BY <1>3
<1>5. p \in Seq(Nat)
  BY <1>3, <1>4, SeqTyped
<1>6. Len(p) \in Nat /\ \A i \in 1 .. Len(p) : p[i] \in Nat
  BY <1>5
<1> QED
  BY <1>1, <1>5, <1>6 DEF Lines

-----------------------------------------------------------------------------
(* Rounds: the remainder of the next number *)

LEMMA RemainderOnly ==
  ASSUME NEW n \in Nat \ {0}, NEW q \in Nat, NEW p \in Nat, NEW r \in Nat, NEW s \in Nat,
         r < n, s < n, n * q + r = n * p + s
  PROVE  r = s
<1>1. n * (q - p) = s - r /\ n * (p - q) = r - s
  OBVIOUS
<1>2. CASE q >= p + 1
  <2>1. n * (q - p) >= n
    BY <1>2
  <2> QED
    BY <1>1, <2>1
<1>3. CASE p >= q + 1
  <2>1. n * (p - q) >= n
    BY <1>3
  <2> QED
    BY <1>1, <2>1
<1> QED
  BY <1>1, <1>2, <1>3

LEMMA NextRemainder ==
  ASSUME NEW n \in Nat \ {0}, NEW a \in Nat
  PROVE  /\ a % n \in 0 .. n - 1
         /\ (a + 1) % n = IF a % n = n - 1 THEN 0 ELSE (a % n) + 1
<1>1. PICK q \in Nat, r \in Nat : a = n * q + r /\ r < n /\ r = a % n
  <2>1. a = n * (a \div n) + (a % n) /\ a \div n \in Nat /\ a % n \in Nat /\ a % n < n
    OBVIOUS
  <2> QED
    BY <2>1
<1>2. PICK p \in Nat, s \in Nat : a + 1 = n * p + s /\ s < n /\ s = (a + 1) % n
  <2>1. PICK b \in Nat : b = a + 1
    OBVIOUS
  <2>2. b = n * (b \div n) + (b % n) /\ b \div n \in Nat /\ b % n \in Nat /\ b % n < n
    OBVIOUS
  <2> QED
    BY <2>1, <2>2
<1>3. CASE r = n - 1
  <2>1. n * (q + 1) + 0 = n * p + s
    BY <1>1, <1>2, <1>3
  <2>2. s = 0
    BY <1>1, <1>2, <2>1, RemainderOnly
  <2> QED
    BY <1>1, <1>2, <1>3, <2>2
<1>4. CASE r # n - 1
  <2>1. n * q + (r + 1) = n * p + s /\ r + 1 \in Nat /\ r + 1 < n
    BY <1>1, <1>2, <1>4
  <2>2. s = r + 1
    BY <1>1, <1>2, <2>1, RemainderOnly
  <2> QED
    BY <1>1, <1>2, <1>4, <2>2
<1> QED
  BY <1>1, <1>3, <1>4

LEMMA SmallRemainder ==
  ASSUME NEW n \in Nat \ {0}, NEW a \in Nat, a < n
  PROVE  a % n = a
OBVIOUS

-----------------------------------------------------------------------------
(* The invariant of types *)

ChannelState == [file : Readable, inside : Seq(Nat), feed : Nat]
ClientState == [pc : {"idle", "test", "parse", "store"}, task : Task]
RequestState ==
  [pc : {"idle", "read", "receive", "panicked"}, task : Task, at : Nat \ {0}, on : Nat]

ChannelOK(ch) ==
  /\ Kind[ch.file] # "random" /\ ch.feed \in 1 .. Lines(ch.file) + 1
  /\ \A j \in DOMAIN ch.inside : ch.inside[j] \in 1 .. Lines(ch.file)

ChannelsTyped ==
  /\ channels \in Seq(ChannelState) /\ \A k \in DOMAIN channels : ChannelOK(channels[k])

MapsTyped ==
  /\ csvMap \subseteq Readable
  /\ csvChannelMap \in [File -> Nat]
  /\ \A f \in File : csvChannelMap[f] # 0 =>
       csvChannelMap[f] \in DOMAIN channels /\ channels[csvChannelMap[f]].file = f

ClientOK(r) ==
  /\ r.pc # "idle" => FilesOf[r.task] # <<>>
  /\ r.pc = "store" => FirstFile(r.task) \in Readable

ClientsTyped == client \in [Client -> ClientState] /\ \A c \in Client : ClientOK(client[c])

RequestOK(r) ==
  /\ r.pc # "receive" => r.on = 0
  /\ r.pc = "receive" => r.at <= Len(FilesOf[r.task])
  /\ r.on # 0 => r.on \in DOMAIN channels /\ channels[r.on].file = FilesOf[r.task][r.at]

RequestsTyped == request \in [Stricker -> RequestState] /\ \A s \in Stricker : RequestOK(request[s])

Typed ==
  /\ ChannelsTyped /\ MapsTyped /\ ClientsTyped /\ RequestsTyped
  /\ profile \subseteq Task /\ loaded \subseteq Task
  /\ crash \in {"no", "panic", "maps"} /\ together \in BOOLEAN
  /\ taken \in [File -> Seq(Nat)]

LEMMA ConstantsTyped ==
  /\ AnyTask \in Task
  /\ \A t \in Task : FilesOf[t] \in Seq(File)
  /\ \A t \in Task : FilesOf[t] # <<>> => FirstFile(t) \in File
  /\ \A f \in File : Kind[f] \in {"random", "once", "circle"}
<1>1. AnyTask \in Task
  BY TaskDataConstants DEF AnyTask
<1>2. \A t \in Task : FilesOf[t] \in Seq(File)
  BY TaskDataConstants
<1>3. ASSUME NEW t \in Task, FilesOf[t] # <<>> PROVE FirstFile(t) \in File
  <2>1. PICK q \in Seq(File) : q = FilesOf[t]
    BY <1>2
  <2>2. q[1] \in File
    BY <1>3, <2>1
  <2> QED
    BY <2>1, <2>2 DEF FirstFile
<1>4. \A f \in File : Kind[f] \in {"random", "once", "circle"}
  BY TaskDataConstants
<1> QED
  BY <1>1, <1>2, <1>3, <1>4

\* The files that a task reads are files.
LEMMA EachFile ==
  ASSUME NEW t \in Task, NEW i \in Nat \ {0}, i <= Len(FilesOf[t])
  PROVE  FilesOf[t][i] \in File /\ FilesOf[t] # <<>>
<1>1. PICK q \in Seq(File) : q = FilesOf[t]
  BY ConstantsTyped
<1>2. Len(q) \in Nat /\ i \in 1 .. Len(q)
  BY <1>1
<1>3. q[i] \in File /\ q # <<>>
  BY <1>2
<1> QED
  BY <1>1, <1>3

LEMMA InitTyped == Init => Typed
<1>1. SUFFICES ASSUME Init PROVE Typed
  OBVIOUS
<1>2. ChannelsTyped
  BY <1>1 DEF Init, ChannelsTyped
<1>3. MapsTyped
  BY <1>1 DEF Init, MapsTyped
<1>4. ClientsTyped
  BY <1>1, ConstantsTyped DEF Init, ClientsTyped, ClientOK, ClientState, NoCall
<1>5. RequestsTyped
  BY <1>1, ConstantsTyped DEF Init, RequestsTyped, RequestOK, RequestState, NoRequest
<1>6. profile \subseteq Task
  BY <1>1, TaskDataConstants DEF Init
<1>7. taken \in [File -> Seq(Nat)]
  <2>1. <<>> \in Seq(Nat)
    OBVIOUS
  <2> QED
    BY <1>1, <2>1 DEF Init
<1>8. loaded \subseteq Task /\ crash \in {"no", "panic", "maps"} /\ together \in BOOLEAN
  BY <1>1 DEF Init
<1> QED
  BY <1>2, <1>3, <1>4, <1>5, <1>6, <1>7, <1>8 DEF Typed

\* What a handler or a request is changed to.
LEMMA ClientSet ==
  ASSUME ClientsTyped, NEW c \in Client, NEW r \in ClientState, ClientOK(r),
         client' = [client EXCEPT ![c] = r]
  PROVE  ClientsTyped' /\ \A d \in Client : client'[d] = IF d = c THEN r ELSE client[d]
<1>1. client' \in [Client -> ClientState] /\ \A d \in Client : client'[d] = IF d = c THEN r ELSE client[d]
  BY DEF ClientsTyped
<1>2. \A d \in Client : ClientOK(client'[d])
  BY <1>1 DEF ClientsTyped
<1> QED
  BY <1>1, <1>2 DEF ClientsTyped, ClientOK

ChannelsKept ==
  \A k \in DOMAIN channels : k \in DOMAIN channels' /\ channels'[k].file = channels[k].file

LEMMA RequestKept ==
  ASSUME ChannelsKept, NEW r, RequestOK(r)
  PROVE  RequestOK(r)'
BY DEF ChannelsKept, RequestOK

LEMMA RequestSet ==
  ASSUME RequestsTyped, ChannelsKept, NEW s \in Stricker, NEW r \in RequestState, RequestOK(r),
         request' = [request EXCEPT ![s] = r]
  PROVE  /\ RequestsTyped'
         /\ \A q \in Stricker : request'[q] = IF q = s THEN r ELSE request[q]
<1>1. /\ request' \in [Stricker -> RequestState]
      /\ \A q \in Stricker : request'[q] = IF q = s THEN r ELSE request[q]
  BY DEF RequestsTyped
<1>2. \A q \in Stricker : RequestOK(request'[q])
  BY <1>1 DEF RequestsTyped
<1>3. ASSUME NEW q \in Stricker PROVE RequestOK(request[q])'
  <2>1. PICK p : p = request'[q]
    OBVIOUS
  <2>2. RequestOK(p)
    BY <1>2, <2>1
  <2>3. RequestOK(p)'
    BY <2>2, RequestKept
  <2> QED
    BY <2>1, <2>3 DEF RequestOK
<1> QED
  BY <1>1, <1>3 DEF RequestsTyped

LEMMA RequestsKept ==
  ASSUME RequestsTyped, ChannelsKept, UNCHANGED request
  PROVE  RequestsTyped'
<1>1. ASSUME NEW q \in Stricker PROVE RequestOK(request[q])'
  <2>1. PICK p : p = request[q]
    OBVIOUS
  <2>2. RequestOK(p)
    BY <2>1 DEF RequestsTyped
  <2>3. RequestOK(p)'
    BY <2>2, RequestKept
  <2> QED
    BY <2>1, <2>3 DEF RequestOK
<1> QED
  BY <1>1 DEF RequestsTyped

LEMMA ChannelsUnchanged ==
  ASSUME UNCHANGED channels
  PROVE  ChannelsKept /\ (ChannelsTyped => ChannelsTyped')
BY DEF ChannelsKept, ChannelsTyped, ChannelOK

LEMMA MapsUnchanged ==
  ASSUME MapsTyped, UNCHANGED <<csvMap, csvChannelMap>>, ChannelsKept
  PROVE  MapsTyped'
BY DEF ChannelsKept, MapsTyped

\* The request or the handler of a state.
LEMMA EachRequest ==
  ASSUME RequestsTyped, NEW s \in Stricker
  PROVE  request[s] \in RequestState /\ RequestOK(request[s])
BY DEF RequestsTyped

LEMMA EachClient ==
  ASSUME ClientsTyped, NEW c \in Client
  PROVE  client[c] \in ClientState /\ ClientOK(client[c])
BY DEF ClientsTyped

LEMMA EachChannel ==
  ASSUME ChannelsTyped, NEW k \in DOMAIN channels
  PROVE  channels[k] \in ChannelState /\ ChannelOK(channels[k])
BY DEF ChannelsTyped

-----------------------------------------------------------------------------
(* Every step keeps the types *)

LEMMA BeginLoadTyped ==
  ASSUME Typed, NEW c \in Client, NEW t \in Task, BeginLoad(c, t)
  PROVE  Typed'
<1>1. ClientsTyped'
  <2>1. CASE FilesOf[t] = <<>>
    BY <2>1 DEF BeginLoad, Typed, ClientsTyped, ClientOK
  <2>2. CASE FilesOf[t] # <<>>
    <3>1. PICK r : r = [pc |-> "test", task |-> t]
      OBVIOUS
    <3>2. r \in ClientState
      BY <3>1 DEF ClientState
    <3>3. ClientOK(r)
      BY <2>2, <3>1 DEF ClientOK
    <3>4. client' = [client EXCEPT ![c] = r]
      BY <2>2, <3>1 DEF BeginLoad
    <3> QED
      BY <3>2, <3>3, <3>4, ClientSet DEF Typed
  <2> QED
    BY <2>1, <2>2
<1>2. UNCHANGED <<channels, csvMap, csvChannelMap, request>>
  BY DEF BeginLoad
<1>3. ChannelsTyped' /\ MapsTyped' /\ RequestsTyped'
  BY <1>2, ChannelsUnchanged, MapsUnchanged, RequestsKept DEF Typed
<1>4. loaded' \subseteq Task /\ UNCHANGED <<profile, crash, together, taken>>
  BY DEF BeginLoad, Typed
<1> QED
  BY <1>1, <1>3, <1>4 DEF Typed

\* The point to which a handler goes.
LEMMA TestMapGoes ==
  ASSUME Typed, NEW c \in Client, TestMap(c)
  PROVE  \E r \in ClientState :
           /\ ClientOK(r) /\ client' = [client EXCEPT ![c] = r]
           /\ r.pc # "test"
           /\ r.pc = "store" => ~InMap(FirstFile(r.task)) /\ r.task = client[c].task
           /\ r.pc = "parse" => r.task = client[c].task
<1>1. PICK t \in Task : t = client[c].task /\ FilesOf[t] # <<>> /\ FirstFile(t) \in File
  <2>1. client[c] \in ClientState /\ ClientOK(client[c])
    BY EachClient DEF Typed
  <2>2. client[c].pc = "test"
    BY DEF TestMap
  <2>3. client[c].task \in Task /\ FilesOf[client[c].task] # <<>>
    BY <2>1, <2>2 DEF ClientState, ClientOK
  <2> QED
    BY <2>3, ConstantsTyped
<1>2. client[c] = [pc |-> "test", task |-> t]
  BY <1>1, EachClient DEF Typed, ClientState, TestMap
<1>3. PICK f \in File : f = FirstFile(t)
  BY <1>1
<1>4. CASE InMap(f) \/ Content[f] = Missing
  <2>1. client' = [client EXCEPT ![c] = NoCall]
    <3>1. ~(~InMap(f) /\ Content[f] = Folder) /\ ~(~InMap(f) /\ f \in Readable)
      BY <1>4, TaskDataConstants DEF Readable
    <3> QED
      BY <1>1, <1>3, <1>4, <3>1 DEF TestMap
  <2>2. NoCall \in ClientState /\ ClientOK(NoCall) /\ NoCall.pc = "idle"
    BY ConstantsTyped DEF NoCall, ClientState, ClientOK
  <2> QED
    BY <2>1, <2>2
<1>5. CASE ~(InMap(f) \/ Content[f] = Missing) /\ Content[f] = Folder
  <2>1. PICK r : r = [client[c] EXCEPT !.pc = "parse"]
    OBVIOUS
  <2>2. client' = [client EXCEPT ![c] = r]
    BY <1>1, <1>3, <1>5, <2>1 DEF TestMap, Readable
  <2>3. r = [pc |-> "parse", task |-> t]
    BY <1>2, <2>1
  <2>4. r \in ClientState /\ ClientOK(r)
    BY <1>1, <2>3 DEF ClientState, ClientOK
  <2> QED
    BY <1>1, <2>2, <2>3, <2>4
<1>6. CASE ~(InMap(f) \/ Content[f] = Missing) /\ Content[f] # Folder
  <2>1. f \in Readable
    BY <1>6 DEF Readable
  <2>2. PICK r : r = [client[c] EXCEPT !.pc = "store"]
    OBVIOUS
  <2>3. client' = [client EXCEPT ![c] = r]
    BY <1>1, <1>3, <1>6, <2>1, <2>2 DEF TestMap
  <2>4. r = [pc |-> "store", task |-> t]
    BY <1>2, <2>2
  <2>5. r \in ClientState /\ ClientOK(r)
    BY <1>1, <1>3, <2>1, <2>4 DEF ClientState, ClientOK
  <2> QED
    BY <1>1, <1>3, <1>6, <2>3, <2>4, <2>5
<1> QED
  BY <1>4, <1>5, <1>6

LEMMA TestMapTyped ==
  ASSUME Typed, NEW c \in Client, TestMap(c)
  PROVE  Typed'
<1>1. ClientsTyped'
  BY TestMapGoes, ClientSet DEF Typed
<1>2. UNCHANGED <<channels, csvMap, csvChannelMap, request>>
  BY DEF TestMap
<1>3. ChannelsTyped' /\ MapsTyped' /\ RequestsTyped'
  BY <1>2, ChannelsUnchanged, MapsUnchanged, RequestsKept DEF Typed
<1>4. loaded' \subseteq Task
  <2>1. client[c].task \in Task
    BY EachClient DEF Typed, ClientState
  <2> QED
    BY <2>1 DEF TestMap, Typed
<1>5. together' \in BOOLEAN
  <2>1. \/ together' = together
        \/ together' = TRUE
    BY Zenon DEF TestMap, Typed
  <2> QED
    BY <2>1 DEF Typed
<1>6. UNCHANGED <<profile, crash, taken>>
  BY DEF TestMap
<1> QED
  BY <1>1, <1>3, <1>4, <1>5, <1>6 DEF Typed

\* What a handler stores is a file it has parsed.
LEMMA AtStore ==
  ASSUME ClientsTyped, NEW c \in Client, client[c].pc = "store"
  PROVE  client[c].task \in Task /\ FirstFile(client[c].task) \in Readable
<1>1. client[c] \in ClientState /\ ClientOK(client[c])
  BY EachClient
<1> QED
  BY <1>1 DEF ClientState, ClientOK

\* A new channel is the last one.
LEMMA NewChannel ==
  ASSUME Typed, NEW f \in Readable, Kind[f] # "random",
         channels' = Append(channels, [file |-> f, inside |-> <<>>, feed |-> 1])
  PROVE  /\ ChannelsTyped' /\ ChannelsKept
         /\ Len(channels') = Len(channels) + 1 /\ DOMAIN channels' = 1 .. Len(channels) + 1
         /\ DOMAIN channels = 1 .. Len(channels) /\ Len(channels) \in Nat
         /\ channels'[Len(channels) + 1] = [file |-> f, inside |-> <<>>, feed |-> 1]
         /\ \A k \in DOMAIN channels : channels'[k] = channels[k]
<1>1. PICK e : e = [file |-> f, inside |-> <<>>, feed |-> 1]
  OBVIOUS
<1>2. e \in ChannelState
  <2>1. <<>> \in Seq(Nat)
    OBVIOUS
  <2> QED
    BY <1>1, <2>1 DEF ChannelState
<1>3. ChannelOK(e)
  BY <1>1, LinesTyped DEF ChannelOK
<1>4. channels \in Seq(ChannelState)
  BY DEF Typed, ChannelsTyped
<1>5. /\ channels' \in Seq(ChannelState)
      /\ Len(channels') = Len(channels) + 1 /\ channels'[Len(channels) + 1] = e
      /\ \A k \in 1 .. Len(channels) : channels'[k] = channels[k]
  BY <1>1, <1>2, <1>4, AppendProperties
<1>6. /\ DOMAIN channels' = 1 .. Len(channels) + 1
      /\ DOMAIN channels = 1 .. Len(channels) /\ Len(channels) \in Nat
  BY <1>4, <1>5
<1>7. ASSUME NEW k \in DOMAIN channels' PROVE ChannelOK(channels'[k])
  <2>1. k \in DOMAIN channels \/ k = Len(channels) + 1
    BY <1>6
  <2>2. \A j \in DOMAIN channels : ChannelOK(channels[j])
    BY DEF Typed, ChannelsTyped
  <2>3. CASE k \in DOMAIN channels
    BY <1>5, <1>6, <2>2, <2>3
  <2>4. CASE k = Len(channels) + 1
    BY <1>3, <1>5, <2>4
  <2> QED
    BY <2>1, <2>3, <2>4
<1>8. ChannelsTyped'
  BY <1>5, <1>7 DEF ChannelsTyped, ChannelOK
<1>9. ChannelsKept
  BY <1>5, <1>6 DEF ChannelsKept
<1> QED
  BY <1>1, <1>5, <1>6, <1>8, <1>9

LEMMA StoreFileTyped ==
  ASSUME Typed, NEW c \in Client, StoreFile(c)
  PROVE  Typed'
<1>1. PICK t \in Task, f \in Readable : t = client[c].task /\ f = FirstFile(t)
  BY AtStore DEF Typed, StoreFile
<1>2. ClientsTyped'
  <2>1. NoCall \in ClientState /\ ClientOK(NoCall)
    BY ConstantsTyped DEF NoCall, ClientState, ClientOK
  <2> QED
    BY <2>1, ClientSet DEF Typed, StoreFile
<1>3. loaded' \subseteq Task /\ UNCHANGED <<profile, request, crash, taken, together>>
  BY <1>1 DEF StoreFile, Typed
<1>4. ChannelsTyped' /\ ChannelsKept /\ MapsTyped'
  <2>1. CASE Kind[f] = "random"
    <3>1. csvMap' = csvMap \cup {f} /\ UNCHANGED <<csvChannelMap, channels>>
      BY <1>1, <2>1 DEF StoreFile
    <3>2. ChannelsKept /\ ChannelsTyped'
      BY <3>1, ChannelsUnchanged DEF Typed
    <3>3. MapsTyped'
      BY <1>1, <3>1 DEF Typed, MapsTyped
    <3> QED
      BY <3>2, <3>3
  <2>2. CASE Kind[f] # "random"
    <3>1. /\ channels' = Append(channels, [file |-> f, inside |-> <<>>, feed |-> 1])
          /\ csvChannelMap' = [csvChannelMap EXCEPT ![f] = Len(channels')] /\ UNCHANGED csvMap
      BY <1>1, <2>2 DEF StoreFile
    <3>2. /\ ChannelsTyped' /\ ChannelsKept
          /\ Len(channels') = Len(channels) + 1 /\ DOMAIN channels' = 1 .. Len(channels) + 1
          /\ Len(channels) \in Nat /\ channels'[Len(channels) + 1].file = f
          /\ \A k \in DOMAIN channels : channels'[k] = channels[k]
      BY <2>2, <3>1, NewChannel
    <3>3. csvChannelMap \in [File -> Nat] /\ f \in File
      BY DEF Typed, MapsTyped, Readable
    <3>4. csvChannelMap' \in [File -> Nat]
      BY <3>1, <3>2, <3>3
    <3>5. ASSUME NEW g \in File, csvChannelMap'[g] # 0
          PROVE  csvChannelMap'[g] \in DOMAIN channels' /\ channels'[csvChannelMap'[g]].file = g
      <4>1. CASE g = f
        BY <3>1, <3>2, <3>3, <4>1
      <4>2. CASE g # f
        <5>1. csvChannelMap'[g] = csvChannelMap[g]
          BY <3>1, <3>3, <4>2
        <5>2. csvChannelMap[g] \in DOMAIN channels /\ channels[csvChannelMap[g]].file = g
          BY <3>5, <5>1 DEF Typed, MapsTyped
        <5> QED
          BY <3>2, <5>1, <5>2 DEF ChannelsKept
      <4> QED
        BY <4>1, <4>2
    <3>6. MapsTyped'
      BY <3>1, <3>4, <3>5 DEF Typed, MapsTyped
    <3> QED
      BY <3>2, <3>6
  <2> QED
    BY <2>1, <2>2
<1>5. RequestsTyped'
  BY <1>3, <1>4, RequestsKept DEF Typed
<1> QED
  BY <1>2, <1>3, <1>4, <1>5 DEF Typed

LEMMA MapsAbortTyped ==
  ASSUME Typed, NEW c \in Client, MapsAbort(c)
  PROVE  Typed'
<1>1. UNCHANGED <<channels, csvMap, csvChannelMap, request, taken, profile, client, loaded, together>>
  BY DEF MapsAbort, loadVars
<1>2. ChannelsTyped' /\ MapsTyped' /\ RequestsTyped'
  BY <1>1, ChannelsUnchanged, MapsUnchanged, RequestsKept DEF Typed
<1>3. ClientsTyped'
  BY <1>1 DEF Typed, ClientsTyped, ClientOK
<1> QED
  BY <1>1, <1>2, <1>3 DEF Typed, MapsAbort

\* A channel that has more or fewer lines inside.
LEMMA ChannelSet ==
  ASSUME Typed, NEW k \in DOMAIN channels, NEW q \in Seq(Nat), NEW n \in Nat,
         n \in 1 .. Lines(channels[k].file) + 1,
         \A j \in DOMAIN q : q[j] \in 1 .. Lines(channels[k].file),
         channels' = [channels EXCEPT ![k] = [@ EXCEPT !.inside = q, !.feed = n]]
  PROVE  /\ ChannelsTyped' /\ ChannelsKept /\ DOMAIN channels' = DOMAIN channels
         /\ channels'[k].inside = q /\ channels'[k].feed = n
         /\ \A l \in DOMAIN channels \ {k} : channels'[l] = channels[l]
<1>1. channels \in Seq(ChannelState) /\ channels[k] \in ChannelState /\ ChannelOK(channels[k])
  BY EachChannel DEF Typed, ChannelsTyped
<1>2. PICK e : e = [channels[k] EXCEPT !.inside = q, !.feed = n]
  OBVIOUS
<1>3. e = [file |-> channels[k].file, inside |-> q, feed |-> n]
  BY <1>1, <1>2 DEF ChannelState
<1>4. e \in ChannelState
  BY <1>1, <1>3 DEF ChannelState
<1>5. ChannelOK(e)
  BY <1>1, <1>3 DEF ChannelOK
<1>6. channels' = [channels EXCEPT ![k] = e]
  BY <1>2
<1>7. /\ channels' \in Seq(ChannelState) /\ DOMAIN channels' = DOMAIN channels
      /\ channels'[k] = e /\ \A l \in DOMAIN channels \ {k} : channels'[l] = channels[l]
  BY <1>1, <1>4, <1>6
<1>8. ASSUME NEW l \in DOMAIN channels' PROVE ChannelOK(channels'[l])
  <2>1. \A j \in DOMAIN channels : ChannelOK(channels[j])
    BY DEF Typed, ChannelsTyped
  <2> QED
    BY <1>5, <1>7, <2>1
<1>9. ChannelsTyped'
  BY <1>7, <1>8 DEF ChannelsTyped, ChannelOK
<1>10. ChannelsKept
  BY <1>3, <1>7 DEF ChannelsKept
<1> QED
  BY <1>3, <1>7, <1>9, <1>10

\* What a channel is after it was fed.
LEMMA FeedDoes ==
  ASSUME Typed, NEW k \in DOMAIN channels, Feed(k)
  PROVE  LET ch == channels[k]
             n == Lines(ch.file)
         IN  /\ ChannelsTyped' /\ ChannelsKept /\ DOMAIN channels' = DOMAIN channels
             /\ ch.feed \in 1 .. n
             /\ channels'[k].inside = Append(ch.inside, ch.feed)
             /\ channels'[k].feed =
                  IF ch.feed = n /\ Kind[ch.file] = "circle" THEN 1 ELSE ch.feed + 1
             /\ \A l \in DOMAIN channels \ {k} : channels'[l] = channels[l]
<1>1. channels[k] \in ChannelState /\ ChannelOK(channels[k])
  BY EachChannel DEF Typed
<1>2. PICK f \in Readable, q \in Seq(Nat), a \in Nat : channels[k] = [file |-> f, inside |-> q, feed |-> a]
  BY <1>1 DEF ChannelState
<1>3. PICK n \in Nat : n = Lines(f)
  BY LinesTyped
<1>4. a \in 1 .. n /\ \A j \in DOMAIN q : q[j] \in 1 .. n
  BY <1>1, <1>2, <1>3 DEF ChannelOK, Feed
<1>5. PICK b \in Nat : b = IF a = n /\ Kind[f] = "circle" THEN 1 ELSE a + 1
  OBVIOUS
<1>6. PICK p : p = Append(q, a)
  OBVIOUS
<1>7. p \in Seq(Nat) /\ DOMAIN p = 1 .. Len(q) + 1 /\ p[Len(q) + 1] = a
      /\ Len(q) \in Nat /\ DOMAIN q = 1 .. Len(q) /\ \A j \in 1 .. Len(q) : p[j] = q[j]
  BY <1>6, AppendProperties
<1>8. \A j \in DOMAIN p : p[j] \in 1 .. n
  <2>1. \A j \in DOMAIN p : j \in DOMAIN q \/ j = Len(q) + 1
    BY <1>7
  <2> QED
    BY <1>4, <1>7, <2>1
<1>9. b \in 1 .. n + 1
  BY <1>4, <1>5
<1>10. channels' = [channels EXCEPT ![k] = [@ EXCEPT !.inside = p, !.feed = b]]
  <2>1. channels' = [channels EXCEPT ![k].inside = Append(@, a),
                                     ![k].feed = IF @ = n /\ Kind[f] = "circle" THEN 1 ELSE @ + 1]
    BY <1>2, <1>3 DEF Feed
  <2>2. channels[k].inside = q /\ channels[k].feed = a
    BY <1>2
  <2>3. channels' = [channels EXCEPT ![k].inside = p, ![k].feed = b]
    BY <1>5, <1>6, <2>1, <2>2
  <2> QED
    BY <2>3
<1>11. channels[k].file = f
  BY <1>2
<1>12. /\ ChannelsTyped' /\ ChannelsKept /\ DOMAIN channels' = DOMAIN channels
       /\ channels'[k].inside = p /\ channels'[k].feed = b
       /\ \A l \in DOMAIN channels \ {k} : channels'[l] = channels[l]
  BY <1>3, <1>7, <1>8, <1>9, <1>10, <1>11, ChannelSet
<1> QED
  BY <1>2, <1>3, <1>4, <1>5, <1>6, <1>12

LEMMA FeedTyped ==
  ASSUME Typed, NEW k \in DOMAIN channels, Feed(k)
  PROVE  Typed'
<1>1. ChannelsTyped' /\ ChannelsKept
  BY FeedDoes
<1>2. UNCHANGED <<csvMap, csvChannelMap, request, crash, taken, profile, client, loaded, together>>
  BY DEF Feed, loadVars
<1>3. MapsTyped' /\ RequestsTyped'
  BY <1>1, <1>2, MapsUnchanged, RequestsKept DEF Typed
<1>4. ClientsTyped'
  BY <1>2 DEF Typed, ClientsTyped, ClientOK
<1> QED
  BY <1>1, <1>2, <1>3, <1>4 DEF Typed

LEMMA LoadUnchanged ==
  ASSUME Typed, UNCHANGED RequestUnchanged
  PROVE  /\ ClientsTyped' /\ profile' \subseteq Task /\ loaded' \subseteq Task
         /\ together' \in BOOLEAN
BY DEF RequestUnchanged, loadVars, Typed, ClientsTyped, ClientOK

LEMMA BeginRequestTyped ==
  ASSUME Typed, NEW s \in Stricker, NEW t \in Task, BeginRequest(s, t)
  PROVE  Typed'
<1>1. PICK r : r = [pc |-> "read", task |-> t, at |-> 1, on |-> 0]
  OBVIOUS
<1>2. r \in RequestState /\ RequestOK(r)
  BY <1>1 DEF RequestState, RequestOK
<1>3. UNCHANGED <<channels, csvMap, csvChannelMap, crash, taken>>
  BY DEF BeginRequest, RequestUnchanged
<1>4. ChannelsTyped' /\ MapsTyped' /\ ChannelsKept
  BY <1>3, ChannelsUnchanged, MapsUnchanged DEF Typed
<1>5. RequestsTyped'
  BY <1>1, <1>2, <1>4, RequestSet DEF Typed, BeginRequest
<1> QED
  BY <1>3, <1>4, <1>5, LoadUnchanged DEF Typed, BeginRequest

\* A request that reads a file.
LEMMA AtFile ==
  ASSUME Typed, NEW s \in Stricker, HasFile(s)
  PROVE  /\ request[s].task \in Task /\ request[s].at \in Nat \ {0}
         /\ Reading(s) = FilesOf[request[s].task][request[s].at] /\ Reading(s) \in File
<1>1. request[s].task \in Task /\ request[s].at \in Nat \ {0}
  BY EachRequest DEF Typed, RequestState
<1>2. request[s].at <= Len(FilesOf[request[s].task])
  BY DEF HasFile
<1> QED
  BY <1>1, <1>2, EachFile DEF Reading

LEMMA PanicTyped ==
  ASSUME RequestsTyped, ChannelsKept, NEW s \in Stricker, request[s].pc = "read", Panic(s)
  PROVE  RequestsTyped'
<1>1. request[s] \in RequestState /\ RequestOK(request[s])
  BY EachRequest
<1>2. PICK r : r = [request[s] EXCEPT !.pc = "panicked"]
  OBVIOUS
<1>3. r = [pc |-> "panicked", task |-> request[s].task, at |-> request[s].at, on |-> 0]
  BY <1>1, <1>2 DEF RequestState, RequestOK
<1>4. r \in RequestState /\ RequestOK(r)
  BY <1>1, <1>3 DEF RequestState, RequestOK
<1>5. request' = [request EXCEPT ![s] = r]
  BY <1>2 DEF Panic
<1> QED
  BY <1>4, <1>5, RequestSet

LEMMA ReadRandomTyped ==
  ASSUME Typed, NEW s \in Stricker, ReadRandom(s)
  PROVE  Typed'
<1>1. UNCHANGED <<channels, csvMap, csvChannelMap, taken>> /\ UNCHANGED RequestUnchanged
  BY DEF ReadRandom, RequestUnchanged
<1>2. ChannelsTyped' /\ MapsTyped' /\ ChannelsKept
  BY <1>1, ChannelsUnchanged, MapsUnchanged DEF Typed
<1>3. RequestsTyped'
  <2>1. CASE Panic(s)
    BY <1>2, <2>1, PanicTyped DEF Typed, ReadRandom
  <2>2. CASE request' = [request EXCEPT ![s].at = @ + 1]
    <3>1. request[s] \in RequestState /\ RequestOK(request[s]) /\ request[s].pc = "read"
      BY EachRequest DEF Typed, ReadRandom
    <3>2. PICK r : r = [request[s] EXCEPT !.at = @ + 1]
      OBVIOUS
    <3>3. r = [pc |-> "read", task |-> request[s].task, at |-> request[s].at + 1, on |-> 0]
      BY <3>1, <3>2 DEF RequestState, RequestOK
    <3>4. r \in RequestState /\ RequestOK(r)
      BY <3>1, <3>3 DEF RequestState, RequestOK
    <3>5. request' = [request EXCEPT ![s] = r]
      BY <2>2, <3>2
    <3> QED
      BY <1>2, <3>4, <3>5, RequestSet DEF Typed
  <2> QED
    BY <2>1, <2>2 DEF ReadRandom
<1>4. crash' \in {"no", "panic", "maps"}
  BY DEF ReadRandom, Panic, Typed
<1> QED
  BY <1>1, <1>2, <1>3, <1>4, LoadUnchanged DEF Typed

LEMMA FindChannelTyped ==
  ASSUME Typed, NEW s \in Stricker, FindChannel(s)
  PROVE  Typed'
<1>1. /\ UNCHANGED <<channels, csvMap, csvChannelMap, taken, crash>>
      /\ UNCHANGED RequestUnchanged
  BY DEF FindChannel, RequestUnchanged
<1>2. ChannelsTyped' /\ MapsTyped' /\ ChannelsKept
  BY <1>1, ChannelsUnchanged, MapsUnchanged DEF Typed
<1>3. request[s] \in RequestState /\ HasFile(s)
  BY EachRequest DEF Typed, FindChannel
<1>4. PICK f \in File : f = Reading(s)
  BY <1>3, AtFile
<1>5. PICK r : r = [request[s] EXCEPT !.pc = "receive", !.on = csvChannelMap[f]]
  OBVIOUS
<1>6. r = [pc |-> "receive", task |-> request[s].task, at |-> request[s].at, on |-> csvChannelMap[f]]
  BY <1>3, <1>5 DEF RequestState
<1>7. csvChannelMap[f] \in Nat
  BY DEF Typed, MapsTyped
<1>8. r \in RequestState
  BY <1>3, <1>6, <1>7 DEF RequestState
<1>9. RequestOK(r)
  <2>1. csvChannelMap[f] # 0 =>
          csvChannelMap[f] \in DOMAIN channels /\ channels[csvChannelMap[f]].file = f
    BY DEF Typed, MapsTyped
  <2>2. f = FilesOf[request[s].task][request[s].at] /\ request[s].at <= Len(FilesOf[request[s].task])
    BY <1>3, <1>4 DEF Reading, HasFile
  <2> QED
    BY <1>6, <2>1, <2>2 DEF RequestOK
<1>10. request' = [request EXCEPT ![s] = r]
  BY <1>4, <1>5 DEF FindChannel
<1>11. RequestsTyped'
  BY <1>2, <1>8, <1>9, <1>10, RequestSet DEF Typed
<1> QED
  BY <1>1, <1>2, <1>11, LoadUnchanged DEF Typed

LEMMA ReplaceTyped ==
  ASSUME Typed, NEW s \in Stricker, Replace(s)
  PROVE  Typed'
<1>1. UNCHANGED <<channels, csvMap, csvChannelMap, taken>> /\ UNCHANGED RequestUnchanged
  BY DEF Replace, RequestUnchanged
<1>2. ChannelsTyped' /\ MapsTyped' /\ ChannelsKept
  BY <1>1, ChannelsUnchanged, MapsUnchanged DEF Typed
<1>3. RequestsTyped'
  <2>1. NoRequest \in RequestState /\ RequestOK(NoRequest)
    BY ConstantsTyped DEF NoRequest, RequestState, RequestOK
  <2>2. CASE Panic(s)
    BY <1>2, <2>2, PanicTyped DEF Typed, Replace
  <2>3. CASE request' = [request EXCEPT ![s] = NoRequest]
    BY <1>2, <2>1, <2>3, RequestSet DEF Typed
  <2> QED
    BY <2>2, <2>3 DEF Replace
<1>4. crash' \in {"no", "panic", "maps"}
  BY DEF Replace, Panic, Typed
<1> QED
  BY <1>1, <1>2, <1>3, <1>4, LoadUnchanged DEF Typed

\* What a channel is after a line was received from it.
LEMMA ReceiveDoes ==
  ASSUME Typed, NEW s \in Stricker, ReceiveLine(s)
  PROVE  \E k \in DOMAIN channels, f \in Readable :
           /\ f = channels[k].file /\ Kind[f] # "random" /\ channels[k].inside # <<>>
           /\ ChannelsTyped' /\ ChannelsKept /\ DOMAIN channels' = DOMAIN channels
           /\ channels'[k].inside = Tail(channels[k].inside)
           /\ channels'[k].feed = channels[k].feed
           /\ \A l \in DOMAIN channels \ {k} : channels'[l] = channels[l]
           /\ Head(channels[k].inside) \in 1 .. Lines(f)
           /\ taken' = [taken EXCEPT ![f] = Append(@, ParseFile[f][Head(channels[k].inside)])]
<1>1. request[s] \in RequestState /\ RequestOK(request[s])
  BY EachRequest DEF Typed
<1>2. PICK k : k = request[s].on
  OBVIOUS
<1>3. k \in DOMAIN channels /\ channels[k].file = Reading(s) /\ channels[k].inside # <<>>
  BY <1>1, <1>2 DEF RequestOK, Reading, ReceiveLine
<1>4. channels[k] \in ChannelState /\ ChannelOK(channels[k])
  BY <1>3, EachChannel DEF Typed
<1>5. PICK f \in Readable, q \in Seq(Nat), a \in Nat : channels[k] = [file |-> f, inside |-> q, feed |-> a]
  BY <1>4 DEF ChannelState
<1>6. q # <<>> /\ f = Reading(s) /\ channels[k].file = f /\ channels[k].inside = q /\ channels[k].feed = a
  BY <1>3, <1>5
<1>7. PICK n \in Nat : n = Lines(f)
  BY LinesTyped
<1>8. Kind[f] # "random" /\ a \in 1 .. n + 1 /\ \A j \in DOMAIN q : q[j] \in 1 .. n
  BY <1>4, <1>6, <1>7 DEF ChannelOK
<1>9. PICK p : p = Tail(q)
  OBVIOUS
<1>10. p \in Seq(Nat) /\ \A j \in DOMAIN p : p[j] = q[j + 1] /\ j + 1 \in DOMAIN q
  BY <1>6, <1>9
<1>11. \A j \in DOMAIN p : p[j] \in 1 .. n
  BY <1>8, <1>10
<1>12. Head(q) \in 1 .. n
  <2>1. Head(q) = q[1] /\ 1 \in DOMAIN q
    BY <1>6
  <2> QED
    BY <1>8, <2>1
<1>13. channels' = [channels EXCEPT ![k] = [@ EXCEPT !.inside = p, !.feed = a]]
  <2>1. channels' = [channels EXCEPT ![k].inside = p]
    BY <1>2, <1>6, <1>9 DEF ReceiveLine
  <2>2. [channels[k] EXCEPT !.inside = p] = [channels[k] EXCEPT !.inside = p, !.feed = a]
    <3>1. [channels[k] EXCEPT !.inside = p] = [file |-> f, inside |-> p, feed |-> a]
      BY <1>5
    <3>2. PICK e : e = [channels[k] EXCEPT !.inside = p, !.feed = a]
      OBVIOUS
    <3>3. e = [file |-> f, inside |-> p, feed |-> a]
      BY <1>4, <1>6, <3>2 DEF ChannelState
    <3> QED
      BY <3>1, <3>2, <3>3
  <2> QED
    BY <2>1, <2>2
<1>14. /\ ChannelsTyped' /\ ChannelsKept /\ DOMAIN channels' = DOMAIN channels
       /\ channels'[k].inside = p /\ channels'[k].feed = a
       /\ \A l \in DOMAIN channels \ {k} : channels'[l] = channels[l]
  <2>1. /\ p \in Seq(Nat) /\ a \in Nat /\ a \in 1 .. Lines(channels[k].file) + 1
        /\ \A j \in DOMAIN p : p[j] \in 1 .. Lines(channels[k].file)
    BY <1>6, <1>7, <1>8, <1>10, <1>11
  <2> QED
    BY <1>3, <1>13, <2>1, ChannelSet
<1>15. taken' = [taken EXCEPT ![f] = Append(@, ParseFile[f][Head(q)])]
  <2>1. taken' = [taken EXCEPT ![Reading(s)] =
                   Append(@, ParseFile[Reading(s)][Head(channels[request[s].on].inside)])]
    BY Zenon DEF ReceiveLine
  <2> QED
    BY <1>2, <1>6, <2>1
<1> QED
  BY <1>3, <1>6, <1>7, <1>8, <1>9, <1>12, <1>14, <1>15

LEMMA ReceiveLineTyped ==
  ASSUME Typed, NEW s \in Stricker, ReceiveLine(s)
  PROVE  Typed'
<1>1. UNCHANGED <<csvMap, csvChannelMap, crash>> /\ UNCHANGED RequestUnchanged
  BY DEF ReceiveLine, RequestUnchanged
<1>2. PICK k \in DOMAIN channels, f \in Readable :
           /\ ChannelsTyped' /\ ChannelsKept
           /\ Head(channels[k].inside) \in 1 .. Lines(f)
           /\ taken' = [taken EXCEPT ![f] = Append(@, ParseFile[f][Head(channels[k].inside)])]
  BY ReceiveDoes
<1>3. MapsTyped'
  BY <1>1, <1>2, MapsUnchanged DEF Typed
<1>4. RequestsTyped'
  <2>1. request[s] \in RequestState
    BY EachRequest DEF Typed
  <2>2. PICK r : r = [request[s] EXCEPT !.pc = "read", !.at = @ + 1, !.on = 0]
    OBVIOUS
  <2>3. r = [pc |-> "read", task |-> request[s].task, at |-> request[s].at + 1, on |-> 0]
    BY <2>1, <2>2 DEF RequestState
  <2>4. r \in RequestState /\ RequestOK(r)
    BY <2>1, <2>3 DEF RequestState, RequestOK
  <2>5. request' = [request EXCEPT ![s] = r]
    BY <2>2 DEF ReceiveLine
  <2> QED
    BY <1>2, <2>4, <2>5, RequestSet DEF Typed
<1>5. taken' \in [File -> Seq(Nat)]
  <2>1. PICK l : l = ParseFile[f][Head(channels[k].inside)]
    OBVIOUS
  <2>2. l \in Nat
    BY <1>2, <2>1, LinesTyped
  <2>3. taken \in [File -> Seq(Nat)] /\ f \in File
    BY DEF Typed, Readable
  <2>4. PICK q \in Seq(Nat) : q = taken[f]
    BY <2>3
  <2>5. Append(q, l) \in Seq(Nat)
    BY <2>2, AppendProperties
  <2>6. taken' = [taken EXCEPT ![f] = Append(q, l)]
    BY <1>2, <2>1, <2>4
  <2> QED
    BY <2>3, <2>5, <2>6
<1> QED
  BY <1>1, <1>2, <1>3, <1>4, <1>5, LoadUnchanged DEF Typed

LEMMA StutterTyped == Typed /\ UNCHANGED vars => Typed'
<1>1. SUFFICES ASSUME Typed, UNCHANGED vars PROVE Typed'
  OBVIOUS
<1>2. UNCHANGED <<csvMap, csvChannelMap, channels, request, crash, taken, profile, client, loaded, together>>
  BY <1>1 DEF vars, loadVars
<1>3. ChannelsTyped' /\ MapsTyped' /\ RequestsTyped'
  BY <1>1, <1>2, ChannelsUnchanged, MapsUnchanged, RequestsKept DEF Typed
<1>4. ClientsTyped'
  BY <1>1, <1>2 DEF Typed, ClientsTyped, ClientOK
<1> QED
  BY <1>1, <1>2, <1>3, <1>4 DEF Typed

\* The steps of a program.
LEMMA NextSteps ==
  ASSUME Next
  PROVE  \/ \E c \in Client : TestMap(c) \/ StoreFile(c) \/ MapsAbort(c)
                                \/ \E t \in Task : BeginLoad(c, t)
         \/ \E k \in DOMAIN channels : Feed(k)
         \/ \E s \in Stricker : \/ ReadRandom(s) \/ FindChannel(s) \/ ReceiveLine(s) \/ Replace(s)
                                \/ \E t \in Task : BeginRequest(s, t)
BY Zenon DEF Next, Load, Request

LEMMA NextTyped == Typed /\ [Next]_vars => Typed'
<1>1. SUFFICES ASSUME Typed, Next PROVE Typed'
  BY StutterTyped
<1>2. ASSUME NEW c \in Client, TestMap(c) \/ StoreFile(c) \/ MapsAbort(c) \/ \E t \in Task : BeginLoad(c, t)
      PROVE  Typed'
  BY <1>1, <1>2, TestMapTyped, StoreFileTyped, MapsAbortTyped, BeginLoadTyped
<1>3. ASSUME NEW k \in DOMAIN channels, Feed(k) PROVE Typed'
  BY <1>1, <1>3, FeedTyped
<1>4. ASSUME NEW s \in Stricker,
             \/ ReadRandom(s) \/ FindChannel(s) \/ ReceiveLine(s) \/ Replace(s)
             \/ \E t \in Task : BeginRequest(s, t)
      PROVE  Typed'
  BY <1>1, <1>4, ReadRandomTyped, FindChannelTyped, ReceiveLineTyped, ReplaceTyped, BeginRequestTyped
<1> QED
  BY <1>1, <1>2, <1>3, <1>4, NextSteps

LEMMA TypedImplies == Typed => DataTypeOK
<1>1. SUFFICES ASSUME Typed PROVE DataTypeOK
  OBVIOUS
<1>2. DOMAIN channels = 1 .. Len(channels) /\ Len(channels) \in Nat
  BY <1>1 DEF Typed, ChannelsTyped
<1>3. profile \subseteq Task /\ csvMap \subseteq File /\ loaded \subseteq Task
  BY <1>1 DEF Typed, MapsTyped, Readable
<1>4. csvChannelMap \in [File -> 0 .. Len(channels)]
  <2>1. csvChannelMap \in [File -> Nat]
    BY <1>1 DEF Typed, MapsTyped
  <2>2. \A f \in File : csvChannelMap[f] # 0 => csvChannelMap[f] \in DOMAIN channels
    BY <1>1 DEF Typed, MapsTyped
  <2>3. \A f \in File : csvChannelMap[f] \in 0 .. Len(channels)
    BY <1>2, <2>1, <2>2
  <2> QED
    BY <2>1, <2>3
<1>5. ASSUME NEW k \in DOMAIN channels
      PROVE  LET n == Lines(channels[k].file)
             IN  channels[k].feed \in 1 .. n + 1 /\ channels[k].inside \in Seq(1 .. n)
  <2>1. channels[k] \in ChannelState /\ ChannelOK(channels[k])
    BY <1>1, EachChannel DEF Typed
  <2>2. PICK q \in Seq(Nat) : q = channels[k].inside
    BY <2>1 DEF ChannelState
  <2>3. PICK n : n = Lines(channels[k].file)
    OBVIOUS
  <2>4. channels[k].feed \in 1 .. n + 1 /\ \A j \in DOMAIN q : q[j] \in 1 .. n
    BY <2>1, <2>2, <2>3 DEF ChannelOK
  <2>5. q \in Seq(1 .. n)
    BY <2>4, SeqTyped
  <2> QED
    BY <2>2, <2>3, <2>4, <2>5
<1>6. client \in [Client -> [pc : {"idle", "test", "parse", "store"}, task : Task]]
  BY <1>1 DEF Typed, ClientsTyped, ClientState
<1>7. request \in [Stricker -> [pc : {"idle", "read", "receive", "panicked"}, task : Task,
                               at : Nat \ {0}, on : 0 .. Len(channels)]]
  <2>1. ASSUME NEW s \in Stricker
        PROVE  request[s] \in [pc : {"idle", "read", "receive", "panicked"}, task : Task,
                               at : Nat \ {0}, on : 0 .. Len(channels)]
    <3>1. request[s] \in RequestState /\ RequestOK(request[s])
      BY <1>1, EachRequest DEF Typed
    <3>2. request[s].on \in 0 .. Len(channels)
      BY <1>2, <3>1 DEF RequestState, RequestOK
    <3> QED
      BY <3>1, <3>2 DEF RequestState
  <2>2. request \in [Stricker -> RequestState]
    BY <1>1 DEF Typed, RequestsTyped
  <2> QED
    BY <2>1, <2>2
<1>8. crash \in {"no", "panic", "maps"} /\ together \in BOOLEAN /\ \A f \in File : taken[f] \in Seq(Nat)
  BY <1>1 DEF Typed
<1> QED
  BY <1>3, <1>4, <1>5, <1>6, <1>7, <1>8 DEF DataTypeOK

LEMMA TypedAlways == Spec => []Typed
BY InitTyped, NextTyped, PTL DEF Spec

\* The state of files, maps, channels, handlers and requests is well typed
\* (csv/csvHelpers.go, configparsers/structs.go, actions/sample.go); a channel
\* holds numbers of lines of its file only, whatever the files contain.
THEOREM DataTypeCorrect == Spec => []DataTypeOK
BY TypedAlways, TypedImplies, PTL

-----------------------------------------------------------------------------
(* Panics.  The first file of a task that was loaded is in its map, and a  *)
(* request is of a task that was loaded: nothing else keeps a request from *)
(* reading what is not there.                                              *)

FirstFilesIn == \A t \in loaded : FilesOf[t] # <<>> => InMap(FirstFile(t))
RequestsOfLoaded == \A s \in Stricker : request[s].pc # "idle" => request[s].task \in loaded

InMaps == Typed /\ FirstFilesIn /\ RequestsOfLoaded /\ CrashCause

\* Nothing leaves the maps, and no task is unloaded.
LEMMA MapsGrow ==
  ASSUME Typed, Next
  PROVE  /\ \A f \in File : InMap(f) => InMap(f)'
         /\ loaded \subseteq loaded'
<1>1. ASSUME NEW c \in Client, StoreFile(c)
      PROVE  (\A f \in File : InMap(f) => InMap(f)') /\ loaded \subseteq loaded'
  <2>1. PICK g \in Readable : g = FirstFile(client[c].task)
    BY <1>1, AtStore DEF Typed, StoreFile
  <2>2. csvChannelMap \in [File -> Nat]
    BY DEF Typed, MapsTyped
  <2>3. CASE Kind[g] = "random"
    BY <1>1, <2>1, <2>3 DEF StoreFile, InMap
  <2>4. CASE Kind[g] # "random"
    <3>1. /\ csvChannelMap' = [csvChannelMap EXCEPT ![g] = Len(channels')] /\ UNCHANGED csvMap
          /\ channels' = Append(channels, [file |-> g, inside |-> <<>>, feed |-> 1])
      BY <1>1, <2>1, <2>4 DEF StoreFile
    <3>2. Len(channels') \in Nat /\ Len(channels') # 0
      BY <2>4, <3>1, NewChannel
    <3>3. \A f \in File : csvChannelMap'[f] = IF f = g THEN Len(channels') ELSE csvChannelMap[f]
      BY <2>2, <3>1
    <3>4. loaded \subseteq loaded'
      BY <1>1 DEF StoreFile
    <3> QED
      BY <3>1, <3>2, <3>3, <3>4 DEF InMap
  <2> QED
    BY <2>3, <2>4
<1>2. ASSUME UNCHANGED <<csvMap, csvChannelMap>> PROVE \A f \in File : InMap(f) => InMap(f)'
  BY <1>2 DEF InMap
<1>3. ASSUME NEW c \in Client, TestMap(c) \/ MapsAbort(c) \/ \E t \in Task : BeginLoad(c, t)
      PROVE  UNCHANGED <<csvMap, csvChannelMap>> /\ loaded \subseteq loaded'
  <2>1. CASE TestMap(c)
    BY <2>1 DEF TestMap
  <2>2. CASE MapsAbort(c)
    BY <2>2 DEF MapsAbort, loadVars
  <2>3. ASSUME NEW t \in Task, BeginLoad(c, t)
        PROVE  UNCHANGED <<csvMap, csvChannelMap>> /\ loaded \subseteq loaded'
    BY <2>3 DEF BeginLoad
  <2> QED
    BY <1>3, <2>1, <2>2, <2>3
<1>4. ASSUME NEW k \in DOMAIN channels, Feed(k)
      PROVE  UNCHANGED <<csvMap, csvChannelMap>> /\ loaded \subseteq loaded'
  BY <1>4 DEF Feed, loadVars
<1>5. ASSUME UNCHANGED RequestUnchanged
      PROVE  UNCHANGED <<csvMap, csvChannelMap>> /\ loaded \subseteq loaded'
  BY <1>5 DEF RequestUnchanged, loadVars
<1>6. ASSUME NEW s \in Stricker,
             \/ ReadRandom(s) \/ FindChannel(s) \/ ReceiveLine(s) \/ Replace(s)
             \/ \E t \in Task : BeginRequest(s, t)
      PROVE  UNCHANGED RequestUnchanged
  BY <1>6, Zenon DEF ReadRandom, FindChannel, ReceiveLine, Replace, BeginRequest, RequestUnchanged
<1> QED
  BY <1>1, <1>2, <1>3, <1>4, <1>5, <1>6, NextSteps

LEMMA FirstFilesStep ==
  ASSUME Typed, FirstFilesIn, Next
  PROVE  FirstFilesIn'
<1>1. \A f \in File : InMap(f) => InMap(f)'
  BY MapsGrow
<1>2. \A t \in Task : FilesOf[t] # <<>> => FirstFile(t) \in File
  BY ConstantsTyped
<1>3. SUFFICES ASSUME NEW t \in loaded' \ loaded, t \in Task, FilesOf[t] # <<>>
               PROVE  InMap(FirstFile(t))'
  <2>1. loaded \subseteq Task /\ loaded' \subseteq Task
    BY NextTyped DEF Typed
  <2> QED
    BY <1>1, <1>2, <1>3, <2>1 DEF FirstFilesIn, FirstFile
<1>4. ASSUME NEW c \in Client, NEW u \in Task, BeginLoad(c, u) PROVE FALSE
  BY <1>3, <1>4 DEF BeginLoad
<1>5. ASSUME NEW c \in Client, TestMap(c) PROVE InMap(FirstFile(t))'
  <2>1. t = client[c].task /\ InMap(FirstFile(t))
    BY <1>3, <1>5 DEF TestMap
  <2> QED
    BY <1>1, <1>2, <1>3, <2>1
<1>6. ASSUME NEW c \in Client, StoreFile(c) PROVE InMap(FirstFile(t))'
  <2>1. t = client[c].task
    BY <1>3, <1>6 DEF StoreFile
  <2>2. PICK f \in Readable : f = FirstFile(t)
    BY <1>6, <2>1, AtStore DEF Typed, StoreFile
  <2>3. CASE Kind[f] = "random"
    BY <1>6, <2>1, <2>2, <2>3 DEF StoreFile, InMap, FirstFile
  <2>4. CASE Kind[f] # "random"
    <3>1. /\ csvChannelMap' = [csvChannelMap EXCEPT ![f] = Len(channels')]
          /\ channels' = Append(channels, [file |-> f, inside |-> <<>>, feed |-> 1])
      BY <1>6, <2>1, <2>2, <2>4 DEF StoreFile
    <3>2. Len(channels') # 0
      <4>1. Len(channels') = Len(channels) + 1 /\ Len(channels) \in Nat
        BY <2>4, <3>1, NewChannel
      <4> QED
        BY <4>1
    <3>3. csvChannelMap \in [File -> Nat] /\ f \in File
      BY DEF Typed, MapsTyped, Readable
    <3>4. csvChannelMap'[f] # 0
      BY <3>1, <3>2, <3>3
    <3> QED
      BY <2>2, <2>4, <3>4 DEF InMap, FirstFile
  <2> QED
    BY <2>3, <2>4
<1>7. ASSUME NEW c \in Client, MapsAbort(c) PROVE FALSE
  BY <1>3, <1>7 DEF MapsAbort, loadVars
<1>8. ASSUME NEW k \in DOMAIN channels, Feed(k) PROVE FALSE
  BY <1>3, <1>8 DEF Feed, loadVars
<1>9. ASSUME NEW s \in Stricker,
             \/ ReadRandom(s) \/ FindChannel(s) \/ ReceiveLine(s) \/ Replace(s)
             \/ \E u \in Task : BeginRequest(s, u)
      PROVE  FALSE
  <2>1. UNCHANGED RequestUnchanged
    BY <1>9, Zenon DEF ReadRandom, FindChannel, ReceiveLine, Replace, BeginRequest, RequestUnchanged
  <2> QED
    BY <1>3, <2>1 DEF RequestUnchanged, loadVars
<1> QED
  BY <1>4, <1>5, <1>6, <1>7, <1>8, <1>9, NextSteps

LEMMA RequestsOfLoadedStep ==
  ASSUME Typed, RequestsOfLoaded, Next
  PROVE  RequestsOfLoaded'
<1>1. loaded \subseteq loaded'
  BY MapsGrow
<1>2. request \in [Stricker -> RequestState]
  BY DEF Typed, RequestsTyped
<1>3. CASE UNCHANGED request
  BY <1>1, <1>3 DEF RequestsOfLoaded
<1>4. ASSUME NEW s \in Stricker, NEW r, request' = [request EXCEPT ![s] = r],
             r.pc # "idle" => r.task \in loaded
      PROVE  RequestsOfLoaded'
  BY <1>1, <1>2, <1>4 DEF RequestsOfLoaded
<1>5. ASSUME NEW c \in Client, TestMap(c) \/ StoreFile(c) \/ MapsAbort(c) \/ \E t \in Task : BeginLoad(c, t)
      PROVE  UNCHANGED request
  BY <1>5, Zenon DEF TestMap, StoreFile, MapsAbort, BeginLoad
<1>6. ASSUME NEW k \in DOMAIN channels, Feed(k) PROVE UNCHANGED request
  BY <1>6 DEF Feed
<1>7. ASSUME NEW s \in Stricker, NEW t \in Task, BeginRequest(s, t) PROVE RequestsOfLoaded'
  BY <1>4, <1>7 DEF BeginRequest
<1>12. ASSUME NEW s \in Stricker, request[s].pc = "read", Panic(s) PROVE RequestsOfLoaded'
  <2>1. PICK r : r = [request[s] EXCEPT !.pc = "panicked"]
    OBVIOUS
  <2>2. r.task = request[s].task /\ request[s].task \in loaded
    BY <1>2, <1>12, <2>1 DEF RequestState, RequestsOfLoaded
  <2>3. request' = [request EXCEPT ![s] = r]
    BY <1>12, <2>1 DEF Panic
  <2> QED
    BY <1>4, <2>2, <2>3
<1>8. ASSUME NEW s \in Stricker, ReadRandom(s) PROVE RequestsOfLoaded'
  <2>1. CASE request' = [request EXCEPT ![s].at = @ + 1]
    <3>1. PICK r : r = [request[s] EXCEPT !.at = @ + 1]
      OBVIOUS
    <3>2. r.pc = request[s].pc /\ r.task = request[s].task
      BY <1>2, <3>1 DEF RequestState
    <3> QED
      BY <1>4, <2>1, <3>1, <3>2 DEF RequestsOfLoaded
  <2> QED
    BY <1>8, <1>12, <2>1 DEF ReadRandom
<1>9. ASSUME NEW s \in Stricker, FindChannel(s) PROVE RequestsOfLoaded'
  <2>1. PICK r : r = [request[s] EXCEPT !.pc = "receive", !.on = csvChannelMap[Reading(s)]]
    OBVIOUS
  <2>2. r.task = request[s].task /\ request[s].pc # "idle"
    BY <1>2, <1>9, <2>1 DEF RequestState, FindChannel
  <2>3. request' = [request EXCEPT ![s] = r]
    BY <1>9, <2>1 DEF FindChannel
  <2> QED
    BY <1>4, <2>2, <2>3 DEF RequestsOfLoaded
<1>10. ASSUME NEW s \in Stricker, ReceiveLine(s) PROVE RequestsOfLoaded'
  <2>1. PICK r : r = [request[s] EXCEPT !.pc = "read", !.at = @ + 1, !.on = 0]
    OBVIOUS
  <2>2. r.task = request[s].task /\ request[s].pc # "idle"
    BY <1>2, <1>10, <2>1 DEF RequestState, ReceiveLine
  <2>3. request' = [request EXCEPT ![s] = r]
    BY <1>10, <2>1 DEF ReceiveLine
  <2> QED
    BY <1>4, <2>2, <2>3 DEF RequestsOfLoaded
<1>11. ASSUME NEW s \in Stricker, Replace(s) PROVE RequestsOfLoaded'
  <2>1. CASE request' = [request EXCEPT ![s] = NoRequest]
    BY <1>4, <2>1 DEF NoRequest
  <2> QED
    BY <1>11, <1>12, <2>1 DEF Replace
<1> QED
  BY <1>3, <1>5, <1>6, <1>7, <1>8, <1>9, <1>10, <1>11, NextSteps

\* A request that panics is of a task that is not sound.
LEMMA ReplaceUnsound ==
  ASSUME NEW s \in Stricker, Replace(s), crash' = "panic"
  PROVE  ~Sound(request[s].task)
BY DEF Replace, Running, Sound

LEMMA ReadRandomUnsound ==
  ASSUME Typed, FirstFilesIn, RequestsOfLoaded, NEW s \in Stricker, ReadRandom(s), Panic(s),
         NEW t, t = request[s].task
  PROVE  ~Sound(t)
<1>1. t \in loaded /\ t \in Task /\ HasFile(s)
  BY DEF RequestsOfLoaded, ReadRandom, Typed
<1>2. /\ Reading(s) = FilesOf[t][request[s].at] /\ Reading(s) \in File
      /\ request[s].at \in Nat \ {0} /\ request[s].at <= Len(FilesOf[t])
  BY <1>1, AtFile DEF HasFile
<1>3. Kind[Reading(s)] = "random" /\ ~(Reading(s) \in csvMap /\ Lines(Reading(s)) > 0)
  BY DEF ReadRandom, Panic, Running
<1>4. SUFFICES ASSUME Sound(t) PROVE FALSE
  BY <1>1
<1>5. PICK q \in Seq(File) : q = FilesOf[t]
  BY <1>1, ConstantsTyped
<1>6. request[s].at = 1 /\ 1 \in DOMAIN q /\ q # <<>>
  <2>1. Len(q) <= 1
    BY <1>4, <1>5 DEF Sound
  <2>2. Len(q) \in Nat /\ DOMAIN q = 1 .. Len(q)
    OBVIOUS
  <2>3. request[s].at <= Len(q)
    BY <1>2, <1>5
  <2> QED
    BY <1>2, <2>1, <2>2, <2>3
<1>7. Reading(s) = FirstFile(t)
  BY <1>2, <1>5, <1>6 DEF FirstFile
<1>8. Reading(s) \in csvMap
  BY <1>1, <1>3, <1>5, <1>6, <1>7 DEF FirstFilesIn, InMap
<1>9. Reading(s) \in Readable => Lines(Reading(s)) # 0
  BY <1>2, <1>4, <1>5, <1>6 DEF Sound
<1>10. Reading(s) \in Readable
  BY <1>8 DEF Typed, MapsTyped
<1>11. Lines(Reading(s)) \in Nat
  BY <1>8, LinesTyped DEF Typed, MapsTyped
<1> QED
  BY <1>3, <1>8, <1>9, <1>10, <1>11

\* Nobody else panics, and who has panicked stays as it is.
LEMMA PanicsOfUnsound ==
  ASSUME InMaps, Next
  PROVE  CrashCause'
<1>0. Typed /\ FirstFilesIn /\ RequestsOfLoaded /\ CrashCause
      /\ request \in [Stricker -> RequestState] /\ crash = "no"
  BY DEF InMaps, Typed, RequestsTyped, Next, Load, Request, TestMap, StoreFile, MapsAbort, BeginLoad,
    Feed, ReadRandom, FindChannel, ReceiveLine, Replace, BeginRequest, Running
<1>1. \A t : Sound(t)' <=> Sound(t)
  BY DEF Sound
<1>2. ASSUME NEW s \in Stricker, NEW r, request' = [request EXCEPT ![s] = r], r.pc # "panicked",
             crash' # "panic"
      PROVE  CrashCause'
  BY <1>0, <1>1, <1>2 DEF CrashCause
<1>3. CASE UNCHANGED request /\ crash' # "panic"
  BY <1>0, <1>1, <1>3 DEF CrashCause
<1>4. ASSUME NEW s \in Stricker, Panic(s), ~Sound(request[s].task) PROVE CrashCause'
  <2>1. PICK r : r = [request[s] EXCEPT !.pc = "panicked"]
    OBVIOUS
  <2>2. r.pc = "panicked" /\ r.task = request[s].task
    BY <1>0, <2>1 DEF RequestState
  <2>3. request' = [request EXCEPT ![s] = r]
    BY <1>4, <2>1 DEF Panic
  <2>4. \A q \in Stricker : request'[q] = IF q = s THEN r ELSE request[q]
    BY <1>0, <2>3
  <2> QED
    BY <1>0, <1>1, <1>4, <2>2, <2>4 DEF CrashCause
<1>5. ASSUME NEW c \in Client, TestMap(c) \/ StoreFile(c) \/ MapsAbort(c) \/ \E t \in Task : BeginLoad(c, t)
      PROVE  CrashCause'
  <2>1. UNCHANGED request /\ crash' \in {crash, "maps"}
    BY <1>5, Zenon DEF TestMap, StoreFile, MapsAbort, BeginLoad
  <2> QED
    BY <1>0, <1>3, <2>1
<1>6. ASSUME NEW k \in DOMAIN channels, Feed(k) PROVE CrashCause'
  BY <1>0, <1>3, <1>6 DEF Feed
<1>7. ASSUME NEW s \in Stricker, FindChannel(s) PROVE CrashCause'
  <2>1. PICK r : r = [request[s] EXCEPT !.pc = "receive", !.on = csvChannelMap[Reading(s)]]
    OBVIOUS
  <2>2. r.pc = "receive" /\ request' = [request EXCEPT ![s] = r] /\ crash' = crash
    BY <1>0, <1>7, <2>1 DEF FindChannel, RequestState
  <2> QED
    BY <1>0, <1>2, <2>2
<1>8. ASSUME NEW s \in Stricker, ReceiveLine(s) PROVE CrashCause'
  <2>1. PICK r : r = [request[s] EXCEPT !.pc = "read", !.at = @ + 1, !.on = 0]
    OBVIOUS
  <2>2. r.pc = "read" /\ request' = [request EXCEPT ![s] = r] /\ crash' = crash
    BY <1>0, <1>8, <2>1 DEF ReceiveLine, RequestState
  <2> QED
    BY <1>0, <1>2, <2>2
<1>9. ASSUME NEW s \in Stricker, NEW t \in Task, BeginRequest(s, t) PROVE CrashCause'
  <2>1. PICK r : r = [pc |-> "read", task |-> t, at |-> 1, on |-> 0]
    OBVIOUS
  <2>2. r.pc = "read" /\ request' = [request EXCEPT ![s] = r] /\ crash' = crash
    BY <1>9, <2>1 DEF BeginRequest
  <2> QED
    BY <1>0, <1>2, <2>2
<1>10. ASSUME NEW s \in Stricker, ReadRandom(s) PROVE CrashCause'
  <2>1. CASE Panic(s)
    BY <1>0, <1>4, <1>10, <2>1, ReadRandomUnsound
  <2>2. CASE request' = [request EXCEPT ![s].at = @ + 1] /\ UNCHANGED crash
    <3>1. PICK r : r = [request[s] EXCEPT !.at = @ + 1]
      OBVIOUS
    <3>2. r.pc = "read" /\ request' = [request EXCEPT ![s] = r]
      BY <1>0, <1>10, <2>2, <3>1 DEF ReadRandom, RequestState
    <3> QED
      BY <1>0, <1>2, <2>2, <3>2
  <2> QED
    BY <1>10, <2>1, <2>2 DEF ReadRandom
<1>11. ASSUME NEW s \in Stricker, Replace(s) PROVE CrashCause'
  <2>1. CASE Panic(s)
    BY <1>4, <1>11, <2>1, ReplaceUnsound DEF Panic
  <2>2. CASE request' = [request EXCEPT ![s] = NoRequest] /\ UNCHANGED crash
    <3>1. NoRequest.pc # "panicked"
      BY DEF NoRequest
    <3> QED
      BY <1>0, <1>2, <2>2, <3>1
  <2> QED
    BY <1>11, <2>1, <2>2 DEF Replace
<1> QED
  BY <1>5, <1>6, <1>7, <1>8, <1>9, <1>10, <1>11, NextSteps

LEMMA InMapsAlways == Spec => []InMaps
<1>1. Init => InMaps
  <2>1. Init => FirstFilesIn /\ RequestsOfLoaded /\ CrashCause
    BY DEF Init, FirstFilesIn, RequestsOfLoaded, CrashCause, NoRequest
  <2> QED
    BY <2>1, InitTyped DEF InMaps
<1>2. InMaps /\ [Next]_vars => InMaps'
  <2>1. SUFFICES ASSUME InMaps, Next PROVE InMaps'
    <3>1. InMaps /\ UNCHANGED vars => InMaps'
      BY StutterTyped DEF InMaps, FirstFilesIn, RequestsOfLoaded, CrashCause, InMap, Sound, vars,
                          loadVars, FirstFile
    <3> QED
      BY <2>1, <3>1
  <2>2. Typed' /\ FirstFilesIn' /\ RequestsOfLoaded'
    BY <2>1, NextTyped, FirstFilesStep, RequestsOfLoadedStep DEF InMaps
  <2>3. CrashCause'
    BY <2>1, PanicsOfUnsound
  <2> QED
    BY <2>2, <2>3 DEF InMaps
<1> QED
  BY <1>1, <1>2, PTL DEF Spec

\* A request of a task of at most one file, which has lines, and whose
\* placeholders index the values of that file, never panics (BaseFunc in
\* actions/sample.go, csv/csvHelpers.go), whatever other tasks load, in whichever
\* order: the task of the request that panics is not of this kind.
THEOREM CrashCauseCorrect == Spec => []CrashCause
BY InMapsAlways, PTL DEF InMaps

-----------------------------------------------------------------------------
(* The order of lines.  As long as no two handlers loaded a file at the    *)
(* same time, a file has one channel, and what was taken from it, what is  *)
(* inside it and the line its goroutine feeds next continue one another.   *)

\* At most one handler is about to store a file, and none one that is in the
\* map of channels.
OneLoads ==
  /\ \A c, d \in Client : c # d /\ client[c].pc = "store" /\ client[d].pc = "store" =>
       FirstFile(client[c].task) # FirstFile(client[d].task)
  /\ \A c \in Client : client[c].pc = "store" => ~InMap(FirstFile(client[c].task))

OneChannel == \A k \in DOMAIN channels : csvChannelMap[channels[k].file] = k

\* The line that is read as number i, counted from 1, in circles of n.
Nth(n, i) == ((i - 1) % n) + 1

\* m lines were taken; the channel holds the lines of inside, and feed is next.
Continued(f, m, inside, feed) ==
  LET n == Lines(f) IN
  IF n = 0
    THEN m = 0
    ELSE /\ \A j \in DOMAIN inside : inside[j] = Nth(n, m + j)
         /\ IF Kind[f] = "circle" THEN feed = Nth(n, m + Len(inside) + 1)
                                  ELSE feed = m + Len(inside) + 1

Taken(f) ==
  /\ \A i \in DOMAIN taken[f] : taken[f][i] = ParseFile[f][Nth(Lines(f), i)]
  /\ IF csvChannelMap[f] = 0
       THEN taken[f] = <<>>
       ELSE LET ch == channels[csvChannelMap[f]]
            IN  Continued(f, Len(taken[f]), ch.inside, ch.feed)

InOrder == ~together => OneLoads /\ OneChannel /\ \A f \in Readable : Taken(f)

LEMMA NthIs ==
  ASSUME NEW n \in Nat \ {0}, NEW i \in Nat \ {0}
  PROVE  /\ Nth(n, i) \in 1 .. n
         /\ Nth(n, i + 1) = IF Nth(n, i) = n THEN 1 ELSE Nth(n, i) + 1
         /\ i <= n => Nth(n, i) = i
<1>1. PICK a \in Nat : i = a + 1
  <2>1. i - 1 \in Nat /\ i = (i - 1) + 1
    OBVIOUS
  <2> QED
    BY <2>1
<1>2. a % n \in 0 .. n - 1 /\ (a + 1) % n = IF a % n = n - 1 THEN 0 ELSE (a % n) + 1
  BY NextRemainder
<1>3. a < n => a % n = a
  BY SmallRemainder
<1>4. Nth(n, i) = (a % n) + 1 /\ Nth(n, i + 1) = ((a + 1) % n) + 1
  BY <1>1 DEF Nth
<1> QED
  BY <1>1, <1>2, <1>3, <1>4

\* A line more in the channel.
LEMMA ContinuedFeed ==
  ASSUME NEW f \in Readable, Kind[f] \in {"once", "circle"}, NEW m \in Nat, NEW q \in Seq(Nat),
         NEW a \in 1 .. Lines(f), Continued(f, m, q, a)
  PROVE  Continued(f, m, Append(q, a), IF a = Lines(f) /\ Kind[f] = "circle" THEN 1 ELSE a + 1)
<1>1. PICK n \in Nat \ {0} : n = Lines(f)
  BY LinesTyped
<1>2. PICK l \in Nat : l = Len(q)
  OBVIOUS
<1>3. PICK p : p = Append(q, a)
  OBVIOUS
<1>4. /\ DOMAIN q = 1 .. l /\ DOMAIN p = 1 .. l + 1 /\ Len(p) = l + 1
      /\ p[l + 1] = a /\ \A j \in 1 .. l : p[j] = q[j]
  BY <1>2, <1>3, AppendProperties
<1>5. /\ \A j \in 1 .. l : q[j] = Nth(n, m + j)
      /\ IF Kind[f] = "circle" THEN a = Nth(n, m + l + 1) ELSE a = m + l + 1
  BY <1>1, <1>2, <1>4 DEF Continued
<1>6. a = Nth(n, m + (l + 1))
  <2>1. PICK i \in Nat \ {0} : i = m + l + 1 /\ i = m + (l + 1)
    OBVIOUS
  <2>2. CASE Kind[f] = "circle"
    BY <1>5, <2>1, <2>2
  <2>3. CASE Kind[f] # "circle"
    <3>1. a = i /\ i <= n
      BY <1>1, <1>5, <2>1, <2>3
    <3> QED
      BY <2>1, <3>1, NthIs
  <2> QED
    BY <2>2, <2>3
<1>7. \A j \in DOMAIN p : p[j] = Nth(n, m + j)
  <2>1. \A j \in DOMAIN p : j \in 1 .. l \/ j = l + 1
    BY <1>4
  <2> QED
    BY <1>4, <1>5, <1>6, <2>1
<1>8. PICK b : b = IF a = n /\ Kind[f] = "circle" THEN 1 ELSE a + 1
  OBVIOUS
<1>9. IF Kind[f] = "circle" THEN b = Nth(n, m + Len(p) + 1) ELSE b = m + Len(p) + 1
  <2>1. PICK i \in Nat \ {0} : i = m + (l + 1)
    OBVIOUS
  <2>2. m + Len(p) + 1 = i + 1
    BY <1>4, <2>1
  <2>3. Nth(n, i + 1) = IF Nth(n, i) = n THEN 1 ELSE Nth(n, i) + 1
    BY NthIs
  <2>4. CASE Kind[f] = "circle"
    BY <1>6, <1>8, <2>1, <2>2, <2>3, <2>4
  <2>5. CASE Kind[f] # "circle"
    <3>1. a = i
      BY <1>5, <2>1, <2>5
    <3> QED
      BY <1>8, <2>2, <2>5, <3>1
  <2> QED
    BY <2>4, <2>5
<1>10. Continued(f, m, p, b)
  BY <1>1, <1>7, <1>9 DEF Continued
<1> QED
  BY <1>1, <1>3, <1>8, <1>10

\* A line more taken.
LEMMA ContinuedReceive ==
  ASSUME NEW f \in Readable, NEW m \in Nat, NEW q \in Seq(Nat), q # <<>>, NEW a \in Nat,
         Lines(f) # 0, Continued(f, m, q, a)
  PROVE  Continued(f, m + 1, Tail(q), a) /\ Head(q) = Nth(Lines(f), m + 1)
<1>1. PICK n \in Nat \ {0} : n = Lines(f)
  BY LinesTyped
<1>2. PICK p : p = Tail(q)
  OBVIOUS
<1>3. PICK l \in Nat : Len(q) = l + 1
  <2>1. Len(q) \in Nat /\ Len(q) # 0
    OBVIOUS
  <2>2. Len(q) - 1 \in Nat /\ Len(q) = (Len(q) - 1) + 1
    BY <2>1
  <2> QED
    BY <2>2
<1>4. Len(p) = l /\ DOMAIN p = 1 .. l /\ DOMAIN q = 1 .. l + 1 /\ \A j \in 1 .. l : p[j] = q[j + 1]
  BY <1>2, <1>3
<1>5. /\ \A j \in 1 .. l + 1 : q[j] = Nth(n, m + j)
      /\ IF Kind[f] = "circle" THEN a = Nth(n, m + Len(q) + 1) ELSE a = m + Len(q) + 1
  BY <1>1, <1>4 DEF Continued
<1>6. \A j \in DOMAIN p : p[j] = Nth(n, (m + 1) + j)
  <2>1. \A j \in 1 .. l : j + 1 \in 1 .. l + 1 /\ m + (j + 1) = (m + 1) + j
    OBVIOUS
  <2> QED
    BY <1>4, <1>5, <2>1
<1>7. m + Len(q) + 1 = (m + 1) + Len(p) + 1
  BY <1>3, <1>4
<1>8. Continued(f, m + 1, p, a)
  BY <1>1, <1>5, <1>6, <1>7 DEF Continued
<1>9. Head(q) = Nth(n, m + 1)
  <2>1. Head(q) = q[1] /\ 1 \in 1 .. l + 1
    BY <1>3
  <2> QED
    BY <1>5, <2>1
<1> QED
  BY <1>1, <1>2, <1>8, <1>9

LEMMA InOrderKept ==
  ASSUME InOrder, UNCHANGED <<client, csvMap, csvChannelMap, channels, taken, together>>
  PROVE  InOrder'
<1>1. OneLoads => OneLoads'
  BY DEF OneLoads, InMap, FirstFile
<1>2. OneChannel => OneChannel'
  BY DEF OneChannel
<1>3. ASSUME NEW f, Taken(f) PROVE Taken(f)'
  BY <1>3 DEF Taken, Continued, Nth
<1> QED
  BY <1>1, <1>2, <1>3 DEF InOrder

\* A handler goes on, and nothing was read or stored.
LEMMA InOrderClient ==
  ASSUME Typed, InOrder, NEW c \in Client, NEW r \in ClientState, ClientOK(r),
         client' = [client EXCEPT ![c] = r],
         UNCHANGED <<csvMap, csvChannelMap, channels, taken>>,
         ~together' => ~together,
         r.pc = "store" =>
           /\ ~InMap(FirstFile(r.task))
           /\ ~together' => \A d \in Client : client[d].pc = "store" =>
                FirstFile(client[d].task) # FirstFile(r.task)
  PROVE  InOrder'
<1>1. SUFFICES ASSUME ~together' PROVE OneLoads' /\ OneChannel' /\ \A f \in Readable : Taken(f)'
  BY DEF InOrder
<1>2. OneLoads /\ OneChannel /\ \A f \in Readable : Taken(f)
  BY <1>1 DEF InOrder
<1>3. \A d \in Client : client'[d] = IF d = c THEN r ELSE client[d]
  BY ClientSet DEF Typed
<1>4. OneLoads'
  <2>1. ASSUME NEW d \in Client, NEW e \in Client, d # e, client'[d].pc = "store", client'[e].pc = "store"
        PROVE  FirstFile(client'[d].task) # FirstFile(client'[e].task)
    BY <1>1, <1>2, <1>3, <2>1 DEF OneLoads
  <2>2. ASSUME NEW d \in Client, client'[d].pc = "store" PROVE ~InMap(FirstFile(client'[d].task))
    BY <1>1, <1>2, <1>3, <2>2 DEF OneLoads
  <2>3. \A f : InMap(f)' <=> InMap(f)
    BY DEF InMap
  <2> QED
    BY <2>1, <2>2, <2>3 DEF OneLoads, FirstFile, InMap
<1>5. OneChannel'
  BY <1>2 DEF OneChannel
<1>6. \A f \in Readable : Taken(f)'
  BY <1>2 DEF Taken, Continued, Nth
<1> QED
  BY <1>4, <1>5, <1>6

LEMMA BeginLoadInOrder ==
  ASSUME Typed, InOrder, NEW c \in Client, NEW t \in Task, BeginLoad(c, t)
  PROVE  InOrder'
<1>1. UNCHANGED <<csvMap, csvChannelMap, channels, taken, together>>
  BY DEF BeginLoad
<1>2. CASE FilesOf[t] = <<>>
  BY <1>1, <1>2, InOrderKept DEF BeginLoad
<1>3. CASE FilesOf[t] # <<>>
  <2>1. PICK r : r = [pc |-> "test", task |-> t]
    OBVIOUS
  <2>2. r \in ClientState /\ ClientOK(r) /\ r.pc # "store"
    BY <1>3, <2>1 DEF ClientState, ClientOK
  <2>3. client' = [client EXCEPT ![c] = r]
    BY <1>3, <2>1 DEF BeginLoad
  <2> QED
    BY <1>1, <2>2, <2>3, InOrderClient
<1> QED
  BY <1>2, <1>3

LEMMA TestMapInOrder ==
  ASSUME Typed, InOrder, NEW c \in Client, TestMap(c)
  PROVE  InOrder'
<1>1. PICK r \in ClientState :
        /\ ClientOK(r) /\ client' = [client EXCEPT ![c] = r]
        /\ r.pc = "store" => ~InMap(FirstFile(r.task)) /\ r.task = client[c].task
  BY TestMapGoes
<1>2. UNCHANGED <<csvMap, csvChannelMap, channels, taken>>
  BY DEF TestMap
<1>3. together' = (together \/ \E d \in Client : /\ client[d].pc = "store"
                                                  /\ FirstFile(client[d].task) = FirstFile(client[c].task))
  BY Zenon DEF TestMap
<1>4. ~together' => /\ ~together
                    /\ \A d \in Client : client[d].pc = "store" =>
                         FirstFile(client[d].task) # FirstFile(client[c].task)
  BY <1>3, Zenon
<1> QED
  BY <1>1, <1>2, <1>4, InOrderClient

LEMMA StoreFileInOrder ==
  ASSUME Typed, InOrder, NEW c \in Client, StoreFile(c)
  PROVE  InOrder'
<1>1. SUFFICES ASSUME ~together' PROVE OneLoads' /\ OneChannel' /\ \A f \in Readable : Taken(f)'
  BY DEF InOrder
<1>2. OneLoads /\ OneChannel /\ \A f \in Readable : Taken(f)
  BY <1>1 DEF InOrder, StoreFile
<1>3. PICK g \in Readable : g = FirstFile(client[c].task) /\ client[c].pc = "store"
  BY AtStore DEF Typed, StoreFile
<1>4. \A d \in Client : client'[d] = IF d = c THEN NoCall ELSE client[d]
  BY DEF Typed, ClientsTyped, StoreFile
<1>5. taken' = taken /\ NoCall.pc # "store"
  BY DEF StoreFile, NoCall
<1>6. ~InMap(g)
  BY <1>2, <1>3 DEF OneLoads
<1>7. \A d \in Client \ {c} : client[d].pc = "store" => FirstFile(client[d].task) # g
  BY <1>2, <1>3 DEF OneLoads
<1>8. ASSUME \A f : f # g => (InMap(f)' <=> InMap(f)) PROVE OneLoads'
  <2>1. ASSUME NEW d \in Client, NEW e \in Client, d # e, client'[d].pc = "store", client'[e].pc = "store"
        PROVE  FirstFile(client'[d].task) # FirstFile(client'[e].task)
    BY <1>2, <1>4, <1>5, <2>1 DEF OneLoads
  <2>2. ASSUME NEW d \in Client, client'[d].pc = "store" PROVE ~InMap(FirstFile(client[d].task))'
    <3>1. d # c /\ client'[d] = client[d] /\ client[d].pc = "store"
      BY <1>4, <1>5, <2>2
    <3>2. PICK f : f = FirstFile(client[d].task)
      OBVIOUS
    <3>3. f # g /\ ~InMap(f)
      BY <1>2, <1>7, <3>1, <3>2 DEF OneLoads
    <3>4. ~InMap(f)'
      BY <1>8, <3>3
    <3> QED
      BY <3>1, <3>2, <3>4 DEF InMap, FirstFile
  <2> QED
    BY <2>1, <2>2 DEF OneLoads, FirstFile
<1>9. CASE Kind[g] = "random"
  <2>1. csvMap' = csvMap \cup {g} /\ UNCHANGED <<csvChannelMap, channels>>
    BY <1>3, <1>9 DEF StoreFile
  <2>2. OneLoads'
    BY <1>8, <2>1 DEF InMap
  <2>3. OneChannel' /\ \A f \in Readable : Taken(f)'
    BY <1>2, <1>5, <2>1 DEF OneChannel, Taken, Continued, Nth
  <2> QED
    BY <2>2, <2>3
<1>10. CASE Kind[g] # "random"
  <2>1. /\ channels' = Append(channels, [file |-> g, inside |-> <<>>, feed |-> 1])
        /\ csvChannelMap' = [csvChannelMap EXCEPT ![g] = Len(channels')] /\ UNCHANGED csvMap
    BY <1>3, <1>10 DEF StoreFile
  <2>2. PICK n \in Nat : n = Len(channels)
    BY DEF Typed, ChannelsTyped
  <2>3. /\ Len(channels') = n + 1 /\ DOMAIN channels' = 1 .. n + 1 /\ DOMAIN channels = 1 .. n
        /\ channels'[n + 1] = [file |-> g, inside |-> <<>>, feed |-> 1]
        /\ \A k \in DOMAIN channels : channels'[k] = channels[k]
    BY <1>10, <2>1, <2>2, NewChannel
  <2>4. csvChannelMap \in [File -> Nat] /\ g \in File
    BY DEF Typed, MapsTyped, Readable
  <2>5. /\ DOMAIN csvChannelMap' = File /\ csvChannelMap'[g] = n + 1
        /\ \A f \in File : f # g => csvChannelMap'[f] = csvChannelMap[f]
    BY <2>1, <2>3, <2>4
  <2>6. csvChannelMap[g] = 0
    BY <1>6, <1>10 DEF InMap
  <2>7. OneLoads'
    <3>1. ASSUME NEW f, f # g PROVE InMap(f)' <=> InMap(f)
      <4>1. csvChannelMap'[f] = csvChannelMap[f]
        BY <2>1, <2>4, <3>1
      <4> QED
        BY <2>1, <4>1 DEF InMap
    <3> QED
      BY <1>8, <3>1
  <2>8. OneChannel'
    <3>1. ASSUME NEW k \in DOMAIN channels' PROVE csvChannelMap'[channels'[k].file] = k
      <4>1. CASE k = n + 1
        BY <2>3, <2>5, <4>1
      <4>2. CASE k # n + 1
        <5>1. k \in DOMAIN channels /\ channels'[k] = channels[k]
          BY <2>3, <4>2
        <5>2. csvChannelMap[channels[k].file] = k /\ k # 0
          BY <1>2, <2>3, <5>1 DEF OneChannel
        <5>3. channels[k].file \in File
          BY <5>1, EachChannel DEF Typed, ChannelState, Readable
        <5> QED
          BY <2>5, <2>6, <5>1, <5>2, <5>3
      <4> QED
        BY <4>1, <4>2
    <3> QED
      BY <3>1 DEF OneChannel
  <2>9. ASSUME NEW f \in Readable PROVE Taken(f)'
    <3>1. Taken(f) /\ f \in File
      BY <1>2 DEF Readable
    <3>2. CASE f = g
      <4>1. taken[g] = <<>>
        BY <2>6, <3>1, <3>2 DEF Taken
      <4>2. Lines(g) \in Nat
        BY LinesTyped
      <4>3. Continued(g, 0, <<>>, 1)
        <5>1. Lines(g) # 0 => Nth(Lines(g), 1) = 1
          <6>1. ASSUME Lines(g) # 0 PROVE Lines(g) \in Nat \ {0} /\ 1 <= Lines(g)
            BY <4>2, <6>1
          <6> QED
            BY <6>1, NthIs
        <5> QED
          BY <5>1 DEF Continued
      <4>4. channels'[csvChannelMap'[g]].inside = <<>> /\ channels'[csvChannelMap'[g]].feed = 1
        BY <2>3, <2>5
      <4>5. Continued(g, Len(taken'[g]), channels'[csvChannelMap'[g]].inside, channels'[csvChannelMap'[g]].feed)
        BY <1>5, <4>1, <4>3, <4>4
      <4>6. csvChannelMap'[g] # 0
        BY <2>5
      <4> QED
        BY <1>5, <3>2, <4>1, <4>5, <4>6 DEF Taken, Continued, Nth
    <3>3. CASE f # g
      <4>1. csvChannelMap'[f] = csvChannelMap[f]
        BY <2>5, <3>1, <3>3
      <4>2. csvChannelMap[f] # 0 => channels'[csvChannelMap[f]] = channels[csvChannelMap[f]]
        BY <2>3, <3>1 DEF Typed, MapsTyped
      <4> QED
        BY <1>5, <3>1, <4>1, <4>2 DEF Taken, Continued, Nth
    <3> QED
      BY <3>2, <3>3
  <2> QED
    BY <2>7, <2>8, <2>9
<1> QED
  BY <1>9, <1>10

\* A step of one channel, which is the one of its file in the map.
LEMMA InOrderChannel ==
  ASSUME Typed, InOrder, NEW k \in DOMAIN channels, NEW f \in Readable, f = channels[k].file,
         ~together /\ Taken(f) /\ csvChannelMap[f] = k => Taken(f)',
         UNCHANGED <<client, csvMap, csvChannelMap, together>>,
         DOMAIN channels' = DOMAIN channels, ChannelsKept,
         \A l \in DOMAIN channels \ {k} : channels'[l] = channels[l],
         \A g \in Readable \ {f} : taken'[g] = taken[g]
  PROVE  InOrder'
<1>1. SUFFICES ASSUME ~together PROVE OneLoads' /\ OneChannel' /\ \A g \in Readable : Taken(g)'
  BY DEF InOrder
<1>2. OneLoads /\ OneChannel /\ \A g \in Readable : Taken(g)
  BY <1>1 DEF InOrder
<1>3. OneLoads'
  BY <1>2 DEF OneLoads, InMap, FirstFile
<1>4. OneChannel'
  BY <1>2 DEF OneChannel, ChannelsKept
<1>5. ASSUME NEW g \in Readable PROVE Taken(g)'
  <2>1. CASE g = f
    BY <1>1, <1>2, <2>1 DEF OneChannel
  <2>2. CASE g # f
    <3>1. PICK l : l = csvChannelMap[g]
      OBVIOUS
    <3>2. l # 0 => l \in DOMAIN channels /\ channels[l].file = g
      BY <3>1 DEF Typed, MapsTyped, Readable
    <3>3. l # 0 => channels'[l] = channels[l]
      BY <2>2, <3>2
    <3>4. taken'[g] = taken[g] /\ Taken(g) /\ csvChannelMap'[g] = l
      BY <1>2, <2>2, <3>1
    <3>5. PICK q : q = taken[g] /\ q = taken'[g]
      BY <3>4
    <3>6. \A i \in DOMAIN q : q[i] = ParseFile[g][Nth(Lines(g), i)]
      BY <3>4, <3>5 DEF Taken
    <3>7. CASE l = 0
      BY <3>1, <3>4, <3>5, <3>7 DEF Taken, Nth
    <3>8. CASE l # 0
      <4>1. Continued(g, Len(q), channels[l].inside, channels[l].feed)
        BY <3>1, <3>4, <3>5, <3>8 DEF Taken
      <4>2. Continued(g, Len(taken'[g]), channels'[csvChannelMap'[g]].inside, channels'[csvChannelMap'[g]].feed)
        BY <3>3, <3>4, <3>5, <3>8, <4>1
      <4> QED
        BY <3>4, <3>5, <3>6, <3>8, <4>2 DEF Taken, Continued, Nth
    <3> QED
      BY <3>7, <3>8
  <2> QED
    BY <2>1, <2>2
<1> QED
  BY <1>3, <1>4, <1>5

LEMMA FeedInOrder ==
  ASSUME Typed, InOrder, NEW k \in DOMAIN channels, Feed(k)
  PROVE  InOrder'
<1>1. channels[k] \in ChannelState /\ ChannelOK(channels[k])
  BY EachChannel DEF Typed
<1>2. PICK f \in Readable, q \in Seq(Nat) : f = channels[k].file /\ q = channels[k].inside
  BY <1>1 DEF ChannelState
<1>3. PICK a : a = channels[k].feed
  OBVIOUS
<1>4. PICK b : b = IF a = Lines(f) /\ Kind[f] = "circle" THEN 1 ELSE a + 1
  OBVIOUS
<1>5. /\ ChannelsKept /\ DOMAIN channels' = DOMAIN channels
      /\ a \in 1 .. Lines(f) /\ channels'[k].inside = Append(q, a) /\ channels'[k].feed = b
      /\ \A l \in DOMAIN channels \ {k} : channels'[l] = channels[l]
  BY <1>2, <1>3, <1>4, FeedDoes
<1>6. UNCHANGED <<client, csvMap, csvChannelMap, together, taken>>
  BY DEF Feed, loadVars
<1>7. ASSUME Taken(f), csvChannelMap[f] = k PROVE Taken(f)'
  <2>1. PICK m \in Nat : m = Len(taken[f])
    BY DEF Typed, Readable
  <2>2. k # 0
    BY DEF Typed, ChannelsTyped
  <2>3. Continued(f, m, q, a)
    BY <1>2, <1>3, <1>7, <2>1, <2>2 DEF Taken
  <2>4. Kind[f] \in {"once", "circle"}
    BY <1>1, <1>2, ConstantsTyped DEF ChannelOK, Readable
  <2>5. Continued(f, m, Append(q, a), b)
    BY <1>4, <1>5, <2>3, <2>4, ContinuedFeed
  <2>6. \A i \in DOMAIN taken[f] : taken[f][i] = ParseFile[f][Nth(Lines(f), i)]
    BY <1>7 DEF Taken
  <2>7. Continued(f, Len(taken'[f]), channels'[csvChannelMap'[f]].inside, channels'[csvChannelMap'[f]].feed)
    BY <1>5, <1>6, <1>7, <2>1, <2>5
  <2>8. taken' = taken /\ csvChannelMap'[f] # 0
    BY <1>6, <1>7, <2>2
  <2> QED
    BY <2>6, <2>7, <2>8 DEF Taken, Continued, Nth
<1> QED
  BY <1>2, <1>5, <1>6, <1>7, InOrderChannel

LEMMA ReceiveInOrder ==
  ASSUME Typed, InOrder, NEW s \in Stricker, ReceiveLine(s)
  PROVE  InOrder'
<1>1. PICK k \in DOMAIN channels, f \in Readable :
        /\ f = channels[k].file /\ Kind[f] # "random" /\ channels[k].inside # <<>>
        /\ ChannelsTyped' /\ ChannelsKept /\ DOMAIN channels' = DOMAIN channels
        /\ channels'[k].inside = Tail(channels[k].inside)
        /\ channels'[k].feed = channels[k].feed
        /\ \A l \in DOMAIN channels \ {k} : channels'[l] = channels[l]
        /\ Head(channels[k].inside) \in 1 .. Lines(f)
        /\ taken' = [taken EXCEPT ![f] = Append(@, ParseFile[f][Head(channels[k].inside)])]
  BY ReceiveDoes
<1>2. channels[k] \in ChannelState /\ ChannelOK(channels[k])
  BY EachChannel DEF Typed
<1>3. PICK q \in Seq(Nat), a \in Nat : q = channels[k].inside /\ a = channels[k].feed
  BY <1>2 DEF ChannelState
<1>4. UNCHANGED <<client, csvMap, csvChannelMap, together>>
  BY DEF ReceiveLine, RequestUnchanged, loadVars
<1>5. taken \in [File -> Seq(Nat)] /\ f \in File
  BY DEF Typed, Readable
<1>6. PICK t \in Seq(Nat) : t = taken[f]
  BY <1>5
<1>7. PICK l \in Nat : l = ParseFile[f][Head(q)]
  BY <1>1, <1>3, LinesTyped
<1>8. taken'[f] = Append(t, l) /\ \A g \in Readable \ {f} : taken'[g] = taken[g]
  BY <1>1, <1>3, <1>5, <1>6, <1>7 DEF Readable
<1>9. ASSUME Taken(f), csvChannelMap[f] = k PROVE Taken(f)'
  <2>1. PICK m \in Nat : m = Len(t)
    OBVIOUS
  <2>2. k # 0
    BY DEF Typed, ChannelsTyped
  <2>3. Continued(f, m, q, a) /\ \A i \in DOMAIN t : t[i] = ParseFile[f][Nth(Lines(f), i)]
    BY <1>3, <1>6, <1>9, <2>1, <2>2 DEF Taken
  <2>4. Lines(f) # 0
    BY <1>1, LinesTyped
  <2>5. Continued(f, m + 1, Tail(q), a) /\ Head(q) = Nth(Lines(f), m + 1)
    BY <1>1, <1>3, <2>3, <2>4, ContinuedReceive
  <2>6. PICK u : u = Append(t, l)
    OBVIOUS
  <2>7. /\ Len(u) = m + 1 /\ DOMAIN u = 1 .. m + 1 /\ DOMAIN t = 1 .. m
        /\ u[m + 1] = l /\ \A i \in 1 .. m : u[i] = t[i]
    BY <2>1, <2>6, AppendProperties
  <2>8. ASSUME NEW i \in DOMAIN u PROVE u[i] = ParseFile[f][Nth(Lines(f), i)]
    <3>1. CASE i = m + 1
      BY <1>7, <2>5, <2>7, <3>1
    <3>2. CASE i # m + 1
      <4>1. i \in 1 .. m
        BY <2>7, <3>2
      <4> QED
        BY <2>3, <2>7, <4>1
    <3> QED
      BY <3>1, <3>2
  <2>9. Continued(f, Len(taken'[f]), channels'[csvChannelMap'[f]].inside, channels'[csvChannelMap'[f]].feed)
    BY <1>1, <1>3, <1>4, <1>8, <1>9, <2>5, <2>6, <2>7
  <2>10. taken'[f] = u /\ csvChannelMap'[f] # 0
    BY <1>4, <1>8, <1>9, <2>2, <2>6
  <2> QED
    BY <2>8, <2>9, <2>10 DEF Taken, Continued, Nth
<1> QED
  BY <1>1, <1>4, <1>8, <1>9, InOrderChannel

LEMMA InOrderStep == Typed /\ InOrder /\ [Next]_vars => InOrder'
<1>1. ASSUME InOrder, UNCHANGED vars PROVE InOrder'
  BY <1>1, InOrderKept DEF vars, loadVars
<1>2. SUFFICES ASSUME Typed, InOrder, Next PROVE InOrder'
  BY <1>1
<1>3. ASSUME NEW c \in Client, TestMap(c) \/ StoreFile(c) \/ MapsAbort(c) \/ \E t \in Task : BeginLoad(c, t)
      PROVE  InOrder'
  <2>1. MapsAbort(c) => UNCHANGED <<client, csvMap, csvChannelMap, channels, taken, together>>
    BY DEF MapsAbort, loadVars
  <2> QED
    BY <1>2, <1>3, <2>1, TestMapInOrder, StoreFileInOrder, InOrderKept, BeginLoadInOrder
<1>4. ASSUME NEW k \in DOMAIN channels, Feed(k) PROVE InOrder'
  BY <1>2, <1>4, FeedInOrder
<1>5. ASSUME NEW s \in Stricker, ReceiveLine(s) PROVE InOrder'
  BY <1>2, <1>5, ReceiveInOrder
<1>6. ASSUME NEW s \in Stricker,
             ReadRandom(s) \/ FindChannel(s) \/ Replace(s) \/ \E t \in Task : BeginRequest(s, t)
      PROVE  InOrder'
  <2>1. UNCHANGED RequestUnchanged /\ UNCHANGED <<channels, taken>>
    BY <1>6, Zenon DEF ReadRandom, FindChannel, Replace, BeginRequest
  <2> QED
    BY <1>2, <2>1, InOrderKept DEF RequestUnchanged, loadVars
<1> QED
  BY <1>2, <1>3, <1>4, <1>5, <1>6, NextSteps

LEMMA InOrderImplies == Typed /\ InOrder => FileOrder
<1>1. SUFFICES ASSUME Typed, InOrder, ~together, NEW f \in Readable, NEW i \in DOMAIN taken[f]
               PROVE  LET lines == IF LastLineLost(f) THEN Front(Data(f)) ELSE Data(f)
                      IN  /\ taken[f][i] = lines[((i - 1) % Len(lines)) + 1]
                          /\ Kind[f] = "once" => i <= Len(lines)
  BY DEF FileOrder
<1>2. PICK p \in Seq(Nat) : p = ParseFile[f]
  BY LinesTyped
<1>3. p = IF LastLineLost(f) THEN Front(Data(f)) ELSE Data(f)
  BY <1>2, ParseIs
<1>4. Lines(f) = Len(p)
  BY <1>2 DEF Lines
<1>5. Taken(f)
  BY <1>1 DEF InOrder
<1>6. taken[f][i] = p[((i - 1) % Len(p)) + 1]
  BY <1>2, <1>4, <1>5 DEF Taken, Nth
<1>7. ASSUME Kind[f] = "once" PROVE i <= Len(p)
  <2>1. PICK t \in Seq(Nat) : t = taken[f]
    BY <1>1 DEF Typed, Readable
  <2>2. i \in Nat /\ i # 0 /\ i <= Len(t) /\ t # <<>> /\ Len(t) \in Nat
    BY <1>1, <2>1
  <2>3. PICK k : k = csvChannelMap[f]
    OBVIOUS
  <2>4. k # 0 /\ Continued(f, Len(t), channels[k].inside, channels[k].feed)
    BY <1>5, <2>1, <2>2, <2>3 DEF Taken
  <2>5. k \in DOMAIN channels /\ channels[k].file = f
    BY <1>1, <2>3, <2>4 DEF Typed, MapsTyped, Readable
  <2>6. channels[k] \in ChannelState /\ ChannelOK(channels[k])
    BY <1>1, <2>5, EachChannel DEF Typed
  <2>7. PICK q \in Seq(Nat), a \in Nat : q = channels[k].inside /\ a = channels[k].feed
    BY <2>6 DEF ChannelState
  <2>8. a <= Len(p) + 1
    BY <1>4, <2>5, <2>6, <2>7 DEF ChannelOK
  <2>9. Len(p) # 0
    BY <1>4, <2>2, <2>4 DEF Continued
  <2>10. a = Len(t) + Len(q) + 1
    BY <1>4, <1>7, <2>4, <2>7, <2>9 DEF Continued
  <2>11. Len(q) \in Nat /\ Len(p) \in Nat
    OBVIOUS
  <2> QED
    BY <2>2, <2>8, <2>10, <2>11
<1> QED
  BY <1>3, <1>6, <1>7

LEMMA InitInOrder == Init => InOrder
<1>1. SUFFICES ASSUME Init PROVE OneLoads /\ OneChannel /\ \A f \in Readable : Taken(f)
  BY DEF InOrder
<1>2. \A c \in Client : client[c].pc # "store"
  BY <1>1 DEF Init, NoCall
<1>3. \A f \in Readable : taken[f] = <<>> /\ csvChannelMap[f] = 0
  BY <1>1 DEF Init, Readable
<1>4. channels = <<>>
  BY <1>1 DEF Init
<1> QED
  BY <1>2, <1>3, <1>4 DEF OneLoads, OneChannel, Taken

\* The requests of all tasks get the lines of a serial file in the order of
\* the file (ParseFile, LoadCSVData, GetValueFromFileSerially), each that is
\* not empty once per round and in one round only when the file is read once,
\* for all contents of files, profiles and interleavings; unless two handlers
\* loaded the file at the same time, or the reader lost its last line.
THEOREM FileOrderCorrect == Spec => []FileOrder
<1>1. Spec => []InOrder
  BY InitInOrder, InOrderStep, TypedAlways, PTL DEF Spec
<1> QED
  BY <1>1, TypedAlways, InOrderImplies, PTL

=============================================================================
