-------------------------- MODULE UstreamFdProofs --------------------------
(***************************************************************************)
(* Proofs about UstreamFd, for every number and length of buffers and      *)
(* every number of bytes.                                                  *)
(***************************************************************************)
EXTENDS UstreamFd, ListLemmas

-----------------------------------------------------------------------------
(***************************************************************************)
(* Loops: recursive functions on 0..n.  There is one for every step F[i],  *)
(* and what each step hands on to the next holds at the end.               *)
(***************************************************************************)
LEMMA LoopInvariant ==
    ASSUME NEW n \in Nat, NEW S, NEW g, g[0] \in S[0],
           \A i \in 1..n : g[i - 1] \in S[i - 1] => g[i] \in S[i]
    PROVE  \A i \in 0..n : g[i] \in S[i]
<1> DEFINE Bad == {i \in 0..n : g[i] \notin S[i]}
<1>1. SUFFICES ASSUME Bad # {} PROVE FALSE
  OBVIOUS
<1>2. Bad \subseteq Nat
  OBVIOUS
<1>3. PICK k \in Bad : \A i \in Bad : k <= i
  BY <1>1, <1>2, LeastNumber
<1>4. k # 0
  BY <1>3
<1>5. k \in 1..n /\ k - 1 \in 0..n /\ k - 1 \notin Bad
  BY <1>3, <1>4
<1> QED
  BY <1>3, <1>5

\* g holds the results of the first 0, 1, ..., n steps from x.
Loops(g, n, F, x) == g[0] = x /\ \A i \in 1..n : g[i] = F[i][g[i - 1]]

\* The recursive function that runs a loop's steps F[1], ..., F[n] from x
\* exists.
LEMMA LoopExists ==
    ASSUME NEW n \in Nat, NEW F, NEW x
    PROVE  \E g : Loops(g, n, F, x)
<1> USE DEF Loops
<1> DEFINE Bad == {k \in Nat : ~ \E g : Loops(g, k, F, x)}
<1>1. SUFFICES ASSUME Bad # {} PROVE FALSE
  OBVIOUS
<1>2. PICK k \in Bad : \A i \in Bad : k <= i
  BY <1>1, LeastNumber
<1>3. k # 0
  <2>1. Loops([i \in 0..0 |-> x], 0, F, x)
    OBVIOUS
  <2> QED
    BY <2>1, <1>2
<1>4. k - 1 \in Nat /\ k - 1 \notin Bad
  <2>1. k \in Nat
    BY <1>2
  <2> HIDE DEF Bad
  <2> QED
    BY <2>1, <1>2, <1>3
<1>5. PICK f : Loops(f, k - 1, F, x)
  BY <1>4
<1>6. PICK g : g = [i \in 0..k |-> IF i = k THEN F[k][f[k - 1]] ELSE f[i]]
  OBVIOUS
<1>7. Loops(g, k, F, x)
  <2>1. g[0] = x
    <3>1. 0 \in 0..k /\ 0 # k
      BY <1>3, <1>4
    <3> QED
      BY <3>1, <1>5, <1>6
  <2>2. ASSUME NEW i \in 1..k
        PROVE  g[i] = F[i][g[i - 1]]
    <3>1. i \in 0..k /\ i - 1 \in 0..k /\ i - 1 # k
      BY <1>4
    <3>2. g[i - 1] = f[i - 1]
      BY <3>1, <1>6
    <3>3. CASE i = k
      BY <3>1, <3>2, <3>3, <1>6
    <3>4. CASE i # k
      <4>1. i \in 1..(k - 1)
        BY <3>4, <1>4
      <4>2. g[i] = f[i] /\ f[i] = F[i][f[i - 1]]
        BY <4>1, <3>1, <3>4, <1>5, <1>6
      <4> QED
        BY <4>2, <3>2
    <3> QED
      BY <3>3, <3>4
  <2> QED
    BY <2>1, <2>2
<1> QED
  BY <1>2, <1>7

-----------------------------------------------------------------------------
(***************************************************************************)
(* FlattenSeq, which puts the data of the buffers one behind the other.    *)
(***************************************************************************)

\* f holds the results for the first 0, 1, ... sequences of s.
Flattens(f, s, D) ==
    /\ f[0] = <<>>
    /\ \A i \in 1..Len(s) : f[i] = f[i - 1] \o s[i]
    /\ \A i \in 0..Len(s) : f[i] \in Seq(D)

\* FlattenSeq's own loop, which starts at the last sequence and goes forward.
LEMMA FlattenFacts ==
    ASSUME NEW D, NEW s \in Seq(Seq(D))
    PROVE  \E f : Flattens(f, s, D) /\ FlattenSeq(s) = f[Len(s)]
<1> DEFINE Eq(g) ==
             g = [i \in 1..Len(s) |-> IF i = 1 THEN s[i] ELSE g[i - 1] \o s[i]]
<1>0. PICK n \in Nat : n = Len(s)
  OBVIOUS
<1>1. \A i \in 1..n : s[i] \in Seq(D)
  BY <1>0, ElementOfSeq
<1>2. \A u, v \in Seq(D) : u \o v \in Seq(D)
  OBVIOUS
<1>3. \A u \in Seq(D) : <<>> \o u = u
  BY ConcatEmptySeq
<1>4. PICK F : F = [i \in 1..n |-> [v \in Seq(D) |-> v \o s[i]]]
  OBVIOUS
<1>5. PICK f : f[0] = <<>> /\ \A i \in 1..n : f[i] = F[i][f[i - 1]]
  <2>1. \E f : Loops(f, n, F, <<>>)
    BY LoopExists
  <2> QED
    BY <2>1 DEF Loops
<1>6. \A i \in 1..n : i \in 0..n /\ i - 1 \in 0..n /\ i # 0
  OBVIOUS
<1>7. 0 \in 0..n /\ f[0] = <<>>
  BY <1>5
<1>8. \A i \in 1..n : f[i] = F[i][f[i - 1]]
  BY <1>5
<1>9. \A i \in 1..n : f[i - 1] \in Seq(D) => f[i] = f[i - 1] \o s[i]
  BY <1>4, <1>8
<1>10. \A i \in 0..n : f[i] \in Seq(D)
  <2>1. PICK S : S = [i \in 0..n |-> Seq(D)]
    OBVIOUS
  <2>2. f[0] \in S[0]
    <3>1. <<>> \in Seq(D)
      OBVIOUS
    <3> QED
      BY <2>1, <3>1, <1>7
  <2>3. ASSUME NEW i \in 1..n, f[i - 1] \in S[i - 1]
        PROVE  f[i] \in S[i]
    <3>1. S[i - 1] = Seq(D) /\ S[i] = Seq(D)
      BY <2>1, <1>6
    <3>2. f[i] = f[i - 1] \o s[i] /\ f[i - 1] \in Seq(D)
      BY <2>3, <3>1, <1>9
    <3> QED
      BY <3>1, <3>2, <1>1, <1>2
  <2>4. \A i \in 0..n : f[i] \in S[i]
    BY <2>2, <2>3, LoopInvariant
  <2> QED
    BY <2>1, <2>4
<1>11. \A i \in 1..n : f[i] = f[i - 1] \o s[i]
  BY <1>6, <1>9, <1>10
<1>12. Flattens(f, s, D)
  BY <1>0, <1>7, <1>10, <1>11 DEF Flattens
<1>13. Eq([i \in 1..n |-> f[i]])
  <2>1. PICK h : h = [i \in 1..n |-> f[i]]
    OBVIOUS
  <2>2. ASSUME NEW i \in 1..n
        PROVE  h[i] = IF i = 1 THEN s[i] ELSE h[i - 1] \o s[i]
    <3>1. CASE i = 1
      <4>1. f[i] = f[i - 1] \o s[i]
        BY <1>11
      <4>2. i - 1 = 0
        BY <3>1
      <4> QED
        BY <3>1, <4>1, <4>2, <2>1, <1>1, <1>3, <1>7
    <3>2. CASE i # 1
      <4>1. i - 1 \in 1..n
        BY <3>2
      <4> QED
        BY <3>2, <4>1, <2>1, <1>11
    <3> QED
      BY <3>1, <3>2
  <2>3. h = [i \in 1..n |-> IF i = 1 THEN s[i] ELSE h[i - 1] \o s[i]]
    BY <2>1, <2>2
  <2> QED
    BY <2>1, <2>3, <1>0
<1>14. PICK g : g = (CHOOSE x : Eq(x)) /\ Eq(g)
  BY <1>13
<1>15. \A i \in 1..n : g[i] = IF i = 1 THEN s[i] ELSE g[i - 1] \o s[i]
  BY <1>0, <1>14
<1>16. \A i \in 0..n : i # 0 => g[i] = f[i]
  <2>1. PICK S : S = [i \in 0..n |-> IF i = 0 THEN {0} ELSE {f[i]}]
    OBVIOUS
  <2>2. PICK G : G = [i \in 0..n |-> IF i = 0 THEN 0 ELSE g[i]]
    OBVIOUS
  <2>3. G[0] \in S[0]
    BY <2>1, <2>2, <1>7
  <2>4. ASSUME NEW i \in 1..n, G[i - 1] \in S[i - 1]
        PROVE  G[i] \in S[i]
    <3>1. G[i] = g[i] /\ S[i] = {f[i]}
      BY <2>1, <2>2, <1>6
    <3>2. CASE i = 1
      <4>1. f[i] = f[i - 1] \o s[i]
        BY <1>11
      <4>2. i - 1 = 0 /\ g[i] = s[i]
        BY <3>2, <1>15
      <4> QED
        BY <3>1, <4>1, <4>2, <1>1, <1>3, <1>7
    <3>3. CASE i # 1
      <4>1. G[i - 1] = g[i - 1] /\ S[i - 1] = {f[i - 1]}
        BY <3>3, <2>1, <2>2, <1>6
      <4>2. f[i] = f[i - 1] \o s[i] /\ g[i] = g[i - 1] \o s[i]
        BY <3>3, <1>11, <1>15
      <4> QED
        BY <3>1, <4>1, <4>2, <2>4
    <3> QED
      BY <3>2, <3>3
  <2>5. \A i \in 0..n : G[i] \in S[i]
    BY <2>3, <2>4, LoopInvariant
  <2> QED
    BY <2>1, <2>2, <2>5
<1>17. FlattenSeq(s) = f[n]
  <2>1. CASE n = 0
    <3>1. FlattenSeq(s) = s /\ s = <<>>
      BY <2>1, <1>0 DEF FlattenSeq
    <3> QED
      BY <3>1, <2>1, <1>7
  <2>2. CASE n # 0
    <3>1. s # <<>>
      BY <2>2, <1>0
    <3>2. FlattenSeq(s) = g[n]
      BY <3>1, <1>0, <1>14 DEF FlattenSeq
    <3> QED
      BY <3>2, <2>2, <1>16
  <2> QED
    BY <2>1, <2>2
<1> QED
  BY <1>0, <1>12, <1>17

\* Flattening two sequences of sequences, one behind the other.
LEMMA FlattenConcat ==
    ASSUME NEW D, NEW s \in Seq(Seq(D)), NEW t \in Seq(Seq(D))
    PROVE  /\ FlattenSeq(s) \in Seq(D)
           /\ FlattenSeq(s \o t) = FlattenSeq(s) \o FlattenSeq(t)
<1>0. PICK m \in Nat, n \in Nat : m = Len(s) /\ n = Len(t)
  OBVIOUS
<1>1. PICK u \in Seq(Seq(D)) : u = s \o t
  <2>1. s \o t \in Seq(Seq(D))
    BY ConcatProperties
  <2> QED
    BY <2>1
<1>2. Len(u) = m + n
  BY <1>0, <1>1
<1>3. \A i \in 1..(m + n) : u[i] = IF i <= m THEN s[i] ELSE t[i - m]
  BY <1>0, <1>1
<1>4. PICK f : Flattens(f, s, D) /\ FlattenSeq(s) = f[m]
  BY <1>0, FlattenFacts
<1>5. PICK h : Flattens(h, t, D) /\ FlattenSeq(t) = h[n]
  BY <1>0, FlattenFacts
<1>6. PICK g : Flattens(g, u, D) /\ FlattenSeq(u) = g[m + n]
  BY <1>2, FlattenFacts
<1>7. /\ f[0] = <<>> /\ \A i \in 1..m : f[i] = f[i - 1] \o s[i]
      /\ \A i \in 0..m : f[i] \in Seq(D)
  BY <1>0, <1>4 DEF Flattens
<1>8. /\ h[0] = <<>> /\ \A i \in 1..n : h[i] = h[i - 1] \o t[i]
      /\ \A i \in 0..n : h[i] \in Seq(D)
  BY <1>0, <1>5 DEF Flattens
<1>9. g[0] = <<>> /\ \A i \in 1..(m + n) : g[i] = g[i - 1] \o u[i]
  BY <1>2, <1>6 DEF Flattens
<1>10. \A i \in 0..m : g[i] = f[i]
  <2>1. PICK S : S = [i \in 0..m |-> {f[i]}]
    OBVIOUS
  <2>2. g[0] \in S[0]
    <3>1. S[0] = {f[0]}
      BY <2>1
    <3> QED
      BY <3>1, <1>7, <1>9
  <2>3. ASSUME NEW i \in 1..m, g[i - 1] \in S[i - 1]
        PROVE  g[i] \in S[i]
    <3>1. i \in 1..(m + n) /\ i - 1 \in 0..m /\ i \in 0..m /\ i <= m
      OBVIOUS
    <3>2. g[i - 1] = f[i - 1]
      BY <2>1, <2>3, <3>1
    <3>3. u[i] = s[i]
      BY <3>1, <1>3
    <3>4. g[i] = f[i]
      BY <3>1, <3>2, <3>3, <1>7, <1>9
    <3> QED
      BY <3>1, <3>4, <2>1
  <2>4. \A i \in 0..m : g[i] \in S[i]
    BY <2>2, <2>3, LoopInvariant
  <2> QED
    BY <2>1, <2>4
<1>11. \A j \in 0..n : g[m + j] = f[m] \o h[j]
  <2>1. PICK S : S = [j \in 0..n |-> {f[m] \o h[j]}]
    OBVIOUS
  <2>2. PICK G : G = [j \in 0..n |-> g[m + j]]
    OBVIOUS
  <2>3. f[m] \in Seq(D)
    BY <1>7
  <2>4. G[0] \in S[0]
    <3>1. G[0] = g[m]
      BY <2>2
    <3>2. S[0] = {f[m] \o <<>>}
      <4>1. S[0] = {f[m] \o h[0]}
        BY <2>1
      <4> QED
        BY <4>1, <1>8
    <3>3. f[m] \o <<>> = f[m]
      BY <2>3, ConcatEmptySeq
    <3>4. g[m] = f[m]
      BY <1>10
    <3> QED
      BY <3>1, <3>2, <3>3, <3>4
  <2>5. ASSUME NEW j \in 1..n, G[j - 1] \in S[j - 1]
        PROVE  G[j] \in S[j]
    <3>1. /\ m + j \in 1..(m + n) /\ j - 1 \in 0..n /\ j \in 0..n
          /\ ~ (m + j <= m) /\ m + j - m = j /\ m + (j - 1) = m + j - 1
      OBVIOUS
    <3>2. G[j - 1] = g[m + j - 1] /\ S[j - 1] = {f[m] \o h[j - 1]}
      BY <2>1, <2>2, <3>1
    <3>3. g[m + j - 1] = f[m] \o h[j - 1]
      BY <2>5, <3>2
    <3>4. u[m + j] = t[j]
      BY <3>1, <1>3
    <3>5. g[m + j] = (f[m] \o h[j - 1]) \o t[j]
      <4>1. PICK k \in 1..(m + n) : k = m + j
        BY <3>1
      <4>2. g[k] = g[k - 1] \o u[k]
        BY <1>9
      <4>3. k - 1 = m + j - 1
        BY <4>1
      <4>4. g[k - 1] = f[m] \o h[j - 1]
        BY <4>3, <3>3, Zenon
      <4>5. u[k] = t[j]
        BY <4>1, <3>4, Zenon
      <4>6. g[m + j] = g[k]
        BY <4>1, Zenon
      <4> QED
        BY <4>2, <4>4, <4>5, <4>6, Zenon
    <3>6. h[j - 1] \in Seq(D)
      BY <3>1, <1>8
    <3>7. t[j] \in Seq(D)
      BY <1>0, ElementOfSeq
    <3>8. (f[m] \o h[j - 1]) \o t[j] = f[m] \o (h[j - 1] \o t[j])
      <4>1. \A x, y, z \in Seq(D) : (x \o y) \o z = x \o (y \o z)
        BY ConcatAssociative, SMTT(60)
      <4> QED
        BY <4>1, <2>3, <3>6, <3>7
    <3>9. h[j - 1] \o t[j] = h[j]
      BY <1>8
    <3>10. g[m + j] = f[m] \o h[j]
      BY <3>5, <3>8, <3>9
    <3>11. G[j] = g[m + j] /\ S[j] = {f[m] \o h[j]}
      BY <2>1, <2>2, <3>1
    <3> QED
      BY <3>10, <3>11
  <2>6. \A j \in 0..n : G[j] \in S[j]
    BY <2>4, <2>5, LoopInvariant
  <2> QED
    BY <2>1, <2>2, <2>6
<1>12. f[m] \in Seq(D) /\ g[m + n] = f[m] \o h[n]
  <2>1. m \in 0..m /\ n \in 0..n
    OBVIOUS
  <2> QED
    BY <2>1, <1>7, <1>11
<1> QED
  BY <1>1, <1>4, <1>5, <1>6, <1>12

\* A single sequence is what its flattening is.
LEMMA FlattenOne ==
    ASSUME NEW D, NEW x \in Seq(D)
    PROVE  FlattenSeq(<<x>>) = x
<1>1. <<x>> \in Seq(Seq(D)) /\ Len(<<x>>) = 1 /\ <<x>>[1] = x
  OBVIOUS
<1>2. PICK f : Flattens(f, <<x>>, D) /\ FlattenSeq(<<x>>) = f[1]
  BY <1>1, FlattenFacts
<1>3. f[1] = f[0] \o x /\ f[0] = <<>>
  <2>1. 1 \in 1..Len(<<x>>) /\ 1 - 1 = 0
    BY <1>1
  <2>2. f[0] = <<>> /\ \A i \in 1..Len(<<x>>) : f[i] = f[i - 1] \o <<x>>[i]
    BY <1>2 DEF Flattens
  <2> QED
    BY <2>1, <2>2, <1>1
<1>4. <<>> \o x = x
  BY ConcatEmptySeq
<1> QED
  BY <1>2, <1>3, <1>4

-----------------------------------------------------------------------------
(***************************************************************************)
(* The bytes in a sequence of buffers.                                     *)
(***************************************************************************)
Buffer == [space : Nat, data : Seq(Nat)]

Data(bufs) == [i \in DOMAIN bufs |-> bufs[i].data]
Joined(bufs) == FlattenSeq(Data(bufs))

\* The data of the buffers is a sequence of sequences, one for each buffer.
LEMMA DataFacts ==
    ASSUME NEW a \in Seq(Buffer)
    PROVE  /\ Data(a) \in Seq(Seq(Nat))
           /\ Len(Data(a)) = Len(a)
           /\ \A i \in 1..Len(a) : Data(a)[i] = a[i].data
<1>1. Len(a) \in Nat /\ DOMAIN a = 1..Len(a)
  BY LenProperties
<1>2. \A i \in 1..Len(a) : a[i].data \in Seq(Nat)
  <2>1. \A i \in 1..Len(a) : a[i] \in Buffer
    BY ElementOfSeq
  <2> QED
    BY <2>1 DEF Buffer
<1>3. Data(a) = [i \in 1..Len(a) |-> a[i].data]
  BY <1>1 DEF Data
<1>4. Data(a) \in [1..Len(a) -> Seq(Nat)]
  BY <1>2, <1>3
<1> QED
  BY <1>1, <1>3, <1>4, FunctionIsSeq

\* The bytes of two lists of buffers, one behind the other.
LEMMA JoinedConcat ==
    ASSUME NEW a \in Seq(Buffer), NEW b \in Seq(Buffer)
    PROVE  /\ Joined(a) \in Seq(Nat)
           /\ Joined(a \o b) = Joined(a) \o Joined(b)
<1>1. PICK u \in Seq(Seq(Nat)) : u = Data(a)
  BY DataFacts
<1>2. PICK v \in Seq(Seq(Nat)) : v = Data(b)
  BY DataFacts
<1>3. Data(a \o b) = u \o v
  <2>1. /\ a \o b \in Seq(Buffer) /\ Len(a \o b) = Len(a) + Len(b)
        /\ \A i \in 1..(Len(a) + Len(b)) :
              (a \o b)[i] = IF i <= Len(a) THEN a[i] ELSE b[i - Len(a)]
    BY ConcatProperties
  <2>2. PICK c \in Seq(Buffer) : c = a \o b
    BY <2>1
  <2>3. /\ Data(c) \in Seq(Seq(Nat)) /\ Len(Data(c)) = Len(c)
        /\ \A i \in 1..Len(c) : Data(c)[i] = c[i].data
    BY DataFacts
  <2>4. PICK d \in Seq(Seq(Nat)) : d = Data(c)
    BY <2>3
  <2>5. PICK m \in Nat, n \in Nat : m = Len(a) /\ n = Len(b)
    BY LenProperties
  <2>6. Len(u) = m /\ \A i \in 1..m : u[i] = a[i].data
    BY <2>5, <1>1, DataFacts
  <2>7. Len(v) = n /\ \A i \in 1..n : v[i] = b[i].data
    BY <2>5, <1>2, DataFacts
  <2>8. /\ u \o v \in Seq(Seq(Nat)) /\ Len(u \o v) = m + n
        /\ \A i \in 1..(m + n) : (u \o v)[i] = IF i <= m THEN u[i] ELSE v[i - m]
    BY <2>6, <2>7, ConcatProperties
  <2>9. Len(c) = m + n /\ \A i \in 1..(m + n) :
           c[i] = IF i <= m THEN a[i] ELSE b[i - m]
    BY <2>1, <2>2, <2>5
  <2>10. ASSUME NEW i \in 1..(m + n)
         PROVE  d[i] = (u \o v)[i]
    <3>1. d[i] = c[i].data
      BY <2>3, <2>4, <2>9
    <3>2. CASE i <= m
      <4>1. i \in 1..m
        BY <3>2
      <4> QED
        BY <3>1, <3>2, <4>1, <2>6, <2>8, <2>9
    <3>3. CASE ~ (i <= m)
      <4>1. PICK j \in 1..n : j = i - m
        BY <3>3
      <4>2. c[i] = b[j] /\ (u \o v)[i] = v[j]
        BY <3>3, <4>1, <2>8, <2>9
      <4> QED
        BY <3>1, <4>2, <2>7
    <3> QED
      BY <3>2, <3>3
  <2>11. PICK e \in Seq(Seq(Nat)) : e = u \o v
    BY <2>8
  <2>12. Len(d) = Len(e) /\ \A i \in 1..Len(d) : d[i] = e[i]
    BY <2>3, <2>4, <2>8, <2>9, <2>10, <2>11
  <2>13. d = e
    BY <2>12, SeqEqual
  <2> QED
    BY <2>2, <2>4, <2>11, <2>13
<1>4. FlattenSeq(u) \in Seq(Nat) /\ FlattenSeq(u \o v) = FlattenSeq(u) \o FlattenSeq(v)
  BY FlattenConcat
<1> QED
  BY <1>1, <1>2, <1>3, <1>4 DEF Joined

\* The bytes of a single buffer.
LEMMA JoinedOne ==
    ASSUME NEW b \in Buffer
    PROVE  Joined(<<b>>) = b.data
<1>1. <<b>> \in Seq(Buffer) /\ Len(<<b>>) = 1 /\ <<b>>[1] = b
  OBVIOUS
<1>2. PICK d \in Seq(Seq(Nat)) :
         d = Data(<<b>>) /\ Len(d) = 1 /\ d[1] = b.data
  <2>1. PICK c \in Seq(Buffer) : c = <<b>>
    BY <1>1
  <2>2. Len(c) = 1 /\ c[1] = b /\ 1 \in 1..Len(c)
    BY <2>1, <1>1
  <2>3. Data(c) \in Seq(Seq(Nat)) /\ Len(Data(c)) = 1 /\ Data(c)[1] = b.data
    BY <2>2, DataFacts
  <2> QED
    BY <2>1, <2>3
<1>3. b.data \in Seq(Nat)
  BY DEF Buffer
<1>4. <<b.data>> \in Seq(Seq(Nat)) /\ Len(<<b.data>>) = 1
      /\ <<b.data>>[1] = b.data
  BY <1>3
<1>5. d = <<b.data>>
  BY <1>2, <1>4, SeqEqual
<1>6. FlattenSeq(<<b.data>>) = b.data
  BY <1>3, FlattenOne
<1> QED
  BY <1>2, <1>5, <1>6 DEF Joined

\* Buffers without data have no bytes.
LEMMA JoinedNone ==
    ASSUME NEW a \in Seq(Buffer), \A i \in 1..Len(a) : a[i].data = <<>>
    PROVE  Joined(a) = <<>>
<1>1. PICK d \in Seq(Seq(Nat)) :
         /\ d = Data(a) /\ Len(d) = Len(a)
         /\ \A i \in 1..Len(a) : d[i] = a[i].data
  BY DataFacts
<1>2. PICK n \in Nat : n = Len(d)
  OBVIOUS
<1>3. PICK f : Flattens(f, d, Nat) /\ FlattenSeq(d) = f[n]
  BY <1>2, FlattenFacts
<1>4. f[0] = <<>> /\ \A i \in 1..n : f[i] = f[i - 1] \o <<>>
  BY <1>1, <1>2, <1>3 DEF Flattens
<1>5. PICK S : S = [i \in 0..n |-> {<<>>}]
  OBVIOUS
<1>6. f[0] \in S[0]
  BY <1>4, <1>5
<1>7. ASSUME NEW i \in 1..n, f[i - 1] \in S[i - 1]
      PROVE  f[i] \in S[i]
  <2>1. i - 1 \in 0..n /\ i \in 0..n
    OBVIOUS
  <2>2. f[i - 1] = <<>>
    BY <2>1, <1>5, <1>7
  <2>3. <<>> \o <<>> = <<>>
    OBVIOUS
  <2>4. f[i] = <<>>
    BY <2>2, <2>3, <1>4
  <2> QED
    BY <2>1, <2>4, <1>5
<1>8. \A i \in 0..n : f[i] \in S[i]
  BY <1>6, <1>7, LoopInvariant
<1>9. f[n] = <<>>
  BY <1>5, <1>8
<1> QED
  BY <1>1, <1>3, <1>9 DEF Joined

\* No buffer, no bytes.
LEMMA JoinedEmpty == Joined(<<>>) = <<>>
<1>1. PICK c \in Seq(Buffer) : c = <<>>
  <2>1. <<>> \in Seq(Buffer)
    OBVIOUS
  <2> QED
    BY <2>1
<1>2. \A i \in 1..Len(c) : c[i].data = <<>>
  BY <1>1
<1>3. Joined(c) = <<>>
  BY <1>2, JoinedNone
<1> QED
  BY <1>1, <1>3

\* A buffer added at the end adds its bytes at the end.
LEMMA JoinedAppend ==
    ASSUME NEW a \in Seq(Buffer), NEW b \in Buffer
    PROVE  Joined(Append(a, b)) = Joined(a) \o b.data
<1>1. Append(a, b) = a \o <<b>> /\ <<b>> \in Seq(Buffer)
  BY AppendIsConcat
<1>2. PICK c \in Seq(Buffer) : c = <<b>>
  BY <1>1
<1>3. Joined(a \o c) = Joined(a) \o Joined(c)
  BY JoinedConcat
<1>4. Joined(c) = b.data
  BY <1>2, JoinedOne
<1> QED
  BY <1>1, <1>2, <1>3, <1>4

\* The bytes of the head come first: ustream_consume takes them from there.
LEMMA JoinedHead ==
    ASSUME NEW a \in Seq(Buffer), a # <<>>
    PROVE  Joined(a) = a[1].data \o Joined(Tail(a))
<1>1. /\ Tail(a) \in Seq(Buffer) /\ Len(Tail(a)) = Len(a) - 1
      /\ \A i \in 1..Len(Tail(a)) : Tail(a)[i] = a[i + 1]
  BY HeadTailProperties
<1>2. PICK t \in Seq(Buffer) : t = Tail(a)
  BY <1>1
<1>3. PICK n \in Nat : n = Len(a)
  OBVIOUS
<1>4. n # 0
  BY <1>3
<1>5. PICK h \in Buffer : h = a[1]
  <2>1. 1 \in 1..Len(a)
    BY <1>3, <1>4
  <2>2. a[1] \in Buffer
    BY <2>1, ElementOfSeq
  <2> QED
    BY <2>2
<1>6. PICK s \in Seq(Buffer) : s = <<h>> /\ Len(s) = 1 /\ s[1] = h
  <2>1. <<h>> \in Seq(Buffer) /\ Len(<<h>>) = 1 /\ <<h>>[1] = h
    OBVIOUS
  <2> QED
    BY <2>1
<1>7. /\ s \o t \in Seq(Buffer) /\ Len(s \o t) = Len(s) + Len(t)
      /\ \A i \in 1..(Len(s) + Len(t)) :
            (s \o t)[i] = IF i <= Len(s) THEN s[i] ELSE t[i - Len(s)]
  BY ConcatProperties
<1>8. PICK c \in Seq(Buffer) : c = s \o t
  BY <1>7
<1>9. Len(t) = n - 1 /\ \A i \in 1..(n - 1) : t[i] = a[i + 1]
  BY <1>1, <1>2, <1>3
<1>10. Len(c) = n
  BY <1>4, <1>6, <1>7, <1>8, <1>9
<1>11. ASSUME NEW i \in 1..n
       PROVE  c[i] = a[i]
  <2>1. c[i] = IF i <= 1 THEN s[i] ELSE t[i - 1]
    BY <1>6, <1>7, <1>8, <1>9
  <2>2. CASE i = 1
    BY <2>1, <2>2, <1>5, <1>6
  <2>3. CASE i # 1
    <3>1. PICK j \in 1..(n - 1) : j = i - 1 /\ j + 1 = i
      BY <2>3
    <3>2. c[i] = t[j]
      BY <2>1, <2>3, <3>1
    <3> QED
      BY <3>1, <3>2, <1>9
  <2> QED
    BY <2>2, <2>3
<1>12. c = a
  <2>1. Len(c) = Len(a) /\ \A i \in 1..Len(c) : c[i] = a[i]
    BY <1>3, <1>10, <1>11
  <2> QED
    BY <2>1, SeqEqual
<1>13. Joined(s \o t) = Joined(s) \o Joined(t)
  BY JoinedConcat
<1>14. Joined(s) = h.data
  BY <1>6, JoinedOne
<1> QED
  BY <1>2, <1>5, <1>8, <1>12, <1>13, <1>14

\* The space in front of the data does not count.
LEMMA JoinedSame ==
    ASSUME NEW a \in Seq(Buffer), NEW c \in Seq(Buffer), Len(a) = Len(c),
           \A i \in 1..Len(a) : c[i].data = a[i].data
    PROVE  Joined(c) = Joined(a)
<1>1. PICK d \in Seq(Seq(Nat)) :
         /\ d = Data(a) /\ Len(d) = Len(a)
         /\ \A i \in 1..Len(a) : d[i] = a[i].data
  BY DataFacts
<1>2. PICK e \in Seq(Seq(Nat)) :
         /\ e = Data(c) /\ Len(e) = Len(c)
         /\ \A i \in 1..Len(c) : e[i] = c[i].data
  BY DataFacts
<1>3. Len(e) = Len(d) /\ \A i \in 1..Len(e) : e[i] = d[i]
  BY <1>1, <1>2
<1>4. e = d
  BY <1>3, SeqEqual
<1> QED
  BY <1>1, <1>2, <1>4 DEF Joined

\* The bytes of a sequence of buffers, around buffer k.
LEMMA JoinedSplit ==
    ASSUME NEW a \in Seq(Buffer), NEW k \in 1..Len(a)
    PROVE  /\ SubSeq(a, 1, k - 1) \in Seq(Buffer)
           /\ SubSeq(a, k + 1, Len(a)) \in Seq(Buffer)
           /\ Joined(a) = (Joined(SubSeq(a, 1, k - 1)) \o a[k].data)
                             \o Joined(SubSeq(a, k + 1, Len(a)))
<1>1. PICK n \in Nat : n = Len(a)
  OBVIOUS
<1>2. k \in 1..n /\ k - 1 \in 0..n
  BY <1>1
<1>3. \A i \in 1..n : a[i] \in Buffer
  BY <1>1, ElementOfSeq
<1>4. PICK b \in Buffer : b = a[k]
  BY <1>2, <1>3
<1>5. /\ SubSeq(a, 1, k - 1) \in Seq(Buffer) /\ Len(SubSeq(a, 1, k - 1)) = k - 1
      /\ \A i \in 1..(k - 1) : SubSeq(a, 1, k - 1)[i] = a[i]
  <2>1. 1 \in Int /\ k - 1 \in Int /\ \A i \in 1..(k - 1) : a[i] \in Buffer
    BY <1>2, <1>3
  <2>2. /\ SubSeq(a, 1, k - 1) \in Seq(Buffer)
        /\ Len(SubSeq(a, 1, k - 1)) = IF 1 <= k - 1 THEN k - 1 - 1 + 1 ELSE 0
        /\ \A i \in 1..(k - 1 - 1 + 1) : SubSeq(a, 1, k - 1)[i] = a[1 + i - 1]
    BY <2>1, SubSeqProperties
  <2> QED
    BY <2>2, <1>2
<1>6. /\ SubSeq(a, k + 1, n) \in Seq(Buffer) /\ Len(SubSeq(a, k + 1, n)) = n - k
      /\ \A i \in 1..(n - k) : SubSeq(a, k + 1, n)[i] = a[k + i]
  <2>1. k + 1 \in Int /\ n \in Int /\ \A i \in (k + 1)..n : a[i] \in Buffer
    BY <1>2, <1>3
  <2>2. /\ SubSeq(a, k + 1, n) \in Seq(Buffer)
        /\ Len(SubSeq(a, k + 1, n)) = IF k + 1 <= n THEN n - (k + 1) + 1 ELSE 0
        /\ \A i \in 1..(n - (k + 1) + 1) :
              SubSeq(a, k + 1, n)[i] = a[k + 1 + i - 1]
    BY <2>1, SubSeqProperties
  <2> QED
    BY <2>2, <1>2
<1>7. PICK p \in Seq(Buffer) : p = SubSeq(a, 1, k - 1)
  BY <1>5
<1>8. PICK q \in Seq(Buffer) : q = SubSeq(a, k + 1, n)
  BY <1>6
<1>9. /\ Append(p, b) \in Seq(Buffer) /\ Len(Append(p, b)) = k
      /\ \A i \in 1..(k - 1) : Append(p, b)[i] = a[i]
      /\ Append(p, b)[k] = b
  <2>1. /\ Append(p, b) \in Seq(Buffer) /\ Len(Append(p, b)) = Len(p) + 1
        /\ \A i \in 1..Len(p) : Append(p, b)[i] = p[i]
        /\ Append(p, b)[Len(p) + 1] = b
    BY AppendProperties
  <2>2. Len(p) = k - 1 /\ k - 1 + 1 = k
    BY <1>2, <1>5, <1>7
  <2> QED
    BY <2>1, <2>2, <1>5, <1>7
<1>10. PICK u \in Seq(Buffer) : u = Append(p, b)
  BY <1>9
<1>11. /\ u \o q \in Seq(Buffer) /\ Len(u \o q) = Len(u) + Len(q)
       /\ \A i \in 1..(Len(u) + Len(q)) :
             (u \o q)[i] = IF i <= Len(u) THEN u[i] ELSE q[i - Len(u)]
  BY ConcatProperties
<1>12. PICK c \in Seq(Buffer) : c = u \o q
  BY <1>11
<1>13. Len(u) = k /\ Len(q) = n - k
  BY <1>6, <1>8, <1>9, <1>10
<1>14. Len(c) = n /\ \A i \in 1..n : c[i] = IF i <= k THEN u[i] ELSE q[i - k]
  BY <1>2, <1>11, <1>12, <1>13
<1>15. ASSUME NEW i \in 1..n
       PROVE  c[i] = a[i]
  <2>1. CASE i = k
    BY <2>1, <1>4, <1>9, <1>10, <1>14
  <2>2. CASE i < k
    <3>1. i \in 1..(k - 1) /\ i <= k
      BY <2>2, <1>2
    <3> QED
      BY <3>1, <1>9, <1>10, <1>14
  <2>3. CASE i > k
    <3>1. PICK j \in 1..(n - k) : j = i - k /\ k + j = i
      BY <2>3, <1>2
    <3>2. c[i] = q[j]
      BY <2>3, <3>1, <1>2, <1>14
    <3> QED
      BY <3>1, <3>2, <1>6, <1>8
  <2>4. i = k \/ i < k \/ i > k
    BY <1>2
  <2> QED
    BY <2>1, <2>2, <2>3, <2>4
<1>16. c = a
  <2>1. Len(c) = Len(a) /\ \A i \in 1..Len(c) : c[i] = a[i]
    BY <1>1, <1>14, <1>15
  <2> QED
    BY <2>1, SeqEqual
<1>17. Joined(u \o q) = Joined(u) \o Joined(q)
  BY JoinedConcat
<1>18. Joined(u) = Joined(p) \o b.data
  BY <1>10, JoinedAppend
<1>19. Joined(a) = (Joined(p) \o a[k].data) \o Joined(q)
  BY <1>4, <1>12, <1>16, <1>17, <1>18
<1> QED
  BY <1>1, <1>5, <1>6, <1>7, <1>8, <1>19

\* A buffer with data means bytes.
LEMMA JoinedSome ==
    ASSUME NEW a \in Seq(Buffer), NEW k \in 1..Len(a), a[k].data # <<>>
    PROVE  Len(Joined(a)) > 0
<1>1. PICK p \in Seq(Buffer), q \in Seq(Buffer) :
         Joined(a) = (Joined(p) \o a[k].data) \o Joined(q)
  BY JoinedSplit
<1>2. a[k].data \in Seq(Nat)
  <2>1. a[k] \in Buffer
    BY ElementOfSeq
  <2> QED
    BY <2>1 DEF Buffer
<1>3. PICK x \in Seq(Nat), y \in Seq(Nat), z \in Seq(Nat) :
         x = Joined(p) /\ y = a[k].data /\ z = Joined(q)
  BY <1>2, JoinedConcat
<1>4. Len((x \o y) \o z) = Len(x) + Len(y) + Len(z) /\ Len(y) > 0
  BY <1>3
<1> QED
  BY <1>1, <1>3, <1>4

\* What is put behind the data of the last buffer that has any comes last.
LEMMA JoinedReplace ==
    ASSUME NEW a \in Seq(Buffer), NEW k \in 1..Len(a), NEW b \in Buffer,
           NEW d \in Seq(Nat), b.data = a[k].data \o d,
           \A i \in 1..Len(a) : i > k => a[i].data = <<>>
    PROVE  /\ [a EXCEPT ![k] = b] \in Seq(Buffer)
           /\ Joined([a EXCEPT ![k] = b]) = Joined(a) \o d
<1>1. /\ [a EXCEPT ![k] = b] \in Seq(Buffer)
      /\ Len([a EXCEPT ![k] = b]) = Len(a)
      /\ \A j \in 1..Len(a) : [a EXCEPT ![k] = b][j] = IF j = k THEN b ELSE a[j]
  BY ExceptSeq
<1>2. PICK c \in Seq(Buffer) : c = [a EXCEPT ![k] = b]
  BY <1>1
<1>3. PICK n \in Nat : n = Len(a) /\ n = Len(c)
  <2>1. Len(c) = Len(a) /\ Len(a) \in Nat
    BY <1>1, <1>2, LenProperties
  <2> QED
    BY <2>1
<1>4. /\ k \in 1..n /\ c[k] = b /\ \A j \in 1..n : j # k => c[j] = a[j]
      /\ \A i \in 1..n : i > k => a[i].data = <<>>
  BY <1>1, <1>2, <1>3
<1>5. \A i \in 1..n : a[i] \in Buffer /\ c[i] \in Buffer
  BY <1>3, ElementOfSeq
<1>6. SubSeq(a, 1, k - 1) = SubSeq(c, 1, k - 1)
  BY <1>4
<1>7. ASSUME NEW e \in Seq(Buffer), Len(e) = n,
             \A i \in 1..n : i > k => e[i].data = <<>>
      PROVE  Joined(e) = Joined(SubSeq(e, 1, k - 1)) \o e[k].data
  <2>1. k \in 1..Len(e)
    BY <1>4, <1>7
  <2>2. /\ SubSeq(e, 1, k - 1) \in Seq(Buffer)
        /\ SubSeq(e, k + 1, Len(e)) \in Seq(Buffer)
        /\ Joined(e) = (Joined(SubSeq(e, 1, k - 1)) \o e[k].data)
                          \o Joined(SubSeq(e, k + 1, Len(e)))
    BY <2>1, JoinedSplit
  <2>3. PICK q \in Seq(Buffer) : q = SubSeq(e, k + 1, n)
    BY <2>2, <1>7
  <2>4. Len(q) = n - k /\ \A i \in 1..(n - k) : q[i] = e[k + i]
    <3>1. k + 1 \in Int /\ n \in Int /\ \A i \in (k + 1)..n : e[i] \in Buffer
      <4>1. \A i \in 1..Len(e) : e[i] \in Buffer
        BY ElementOfSeq
      <4> QED
        BY <4>1, <1>4, <1>7
    <3>2. /\ Len(q) = IF k + 1 <= n THEN n - (k + 1) + 1 ELSE 0
          /\ \A i \in 1..(n - (k + 1) + 1) : q[i] = e[k + 1 + i - 1]
      BY <2>3, <3>1, SubSeqProperties
    <3> QED
      BY <3>2, <1>4
  <2>5. \A i \in 1..Len(q) : q[i].data = <<>>
    <3>1. ASSUME NEW i \in 1..(n - k)
          PROVE  q[i].data = <<>>
      <4>1. PICK j \in 1..n : j = k + i /\ j > k
        BY <1>4
      <4> QED
        BY <4>1, <2>4, <1>7
    <3> QED
      BY <3>1, <2>4
  <2>6. Joined(q) = <<>>
    BY <2>5, JoinedNone
  <2>7. e[k] \in Buffer
    BY <2>1, ElementOfSeq
  <2>8. PICK x \in Seq(Nat), y \in Seq(Nat) :
           x = Joined(SubSeq(e, 1, k - 1)) /\ y = e[k].data
    <3>1. e[k].data \in Seq(Nat)
      BY <2>7 DEF Buffer
    <3>2. Joined(SubSeq(e, 1, k - 1)) \in Seq(Nat)
      BY <2>2, JoinedConcat
    <3> QED
      BY <3>1, <3>2
  <2>9. x \o y \in Seq(Nat) /\ (x \o y) \o <<>> = x \o y
    <3>1. x \o y \in Seq(Nat)
      BY ConcatProperties
    <3> QED
      BY <3>1, ConcatEmptySeq
  <2>10. Joined(e) = (x \o y) \o Joined(q)
    BY <2>2, <2>3, <2>8, <1>7
  <2> QED
    BY <2>6, <2>8, <2>9, <2>10
<1>8. Joined(a) = Joined(SubSeq(a, 1, k - 1)) \o a[k].data
  BY <1>3, <1>4, <1>7
<1>9. Joined(c) = Joined(SubSeq(c, 1, k - 1)) \o b.data
  <2>1. \A i \in 1..n : i > k => c[i].data = <<>>
    BY <1>4
  <2> QED
    BY <2>1, <1>3, <1>4, <1>7
<1>10. PICK x \in Seq(Nat) : x = Joined(SubSeq(a, 1, k - 1))
  <2>1. SubSeq(a, 1, k - 1) \in Seq(Buffer)
    BY JoinedSplit
  <2> QED
    BY <2>1, JoinedConcat
<1>11. PICK y \in Seq(Nat) : y = a[k].data
  BY <1>4, <1>5 DEF Buffer
<1>12. (x \o y) \o d = x \o (y \o d)
  BY SMTT(60)
<1>13. Joined(c) = x \o (y \o d) /\ Joined(a) = x \o y
  BY <1>6, <1>8, <1>9, <1>10, <1>11
<1> QED
  BY <1>2, <1>12, <1>13

-----------------------------------------------------------------------------
(***************************************************************************)
(* The buffer lists.  In the list of a stream that is alive the counters   *)
(* are right, and the buffers behind data_tail are as add_buf and free_buf *)
(* leave them: without data or space in front of it.                       *)
(***************************************************************************)
Limits == [min_buffers : Nat, max_buffers : Int, buffer_len : Nat \ {0}]
List == [bufs : Seq(Buffer), data_tail : Nat, buffers : Int,
         data_bytes : Int, limits : Limits]

BufferOK(l, i) ==
    /\ l.bufs[i].space + Len(l.bufs[i].data) <= l.limits.buffer_len
    /\ i < l.data_tail => l.bufs[i].data # <<>>
    /\ i > l.data_tail => l.bufs[i] = EmptyBuf

Shape(l) ==
    /\ l \in List
    /\ l.buffers = Len(l.bufs)
    /\ l.limits.max_buffers > 0 => l.buffers <= l.limits.max_buffers
    /\ l.data_tail \in 0..Len(l.bufs)
    /\ l.data_tail = 0 => l.bufs = <<>>
    /\ \A i \in 1..Len(l.bufs) : BufferOK(l, i)

ListOK(l) == Shape(l) /\ l.data_bytes = Len(Joined(l.bufs))

\* What ustream_init_buf makes.
LEMMA EmptyBufFacts ==
    /\ EmptyBuf \in Buffer
    /\ EmptyBuf.data = <<>> /\ EmptyBuf.space = 0
BY DEF EmptyBuf, Buffer

\* Contents, which the properties speak of, is Joined.
LEMMA ContentsJoined ==
    ASSUME NEW l
    PROVE  Contents(l) = Joined(l.bufs)
BY DEF Contents, Joined, Data

\* What List says of the fields.
LEMMA ListFields ==
    ASSUME NEW l \in List
    PROVE  /\ l.bufs \in Seq(Buffer) /\ Len(l.bufs) \in Nat
           /\ l.data_tail \in Nat /\ l.buffers \in Int /\ l.data_bytes \in Int
           /\ l.limits \in Limits
           /\ l.limits.min_buffers \in Nat
           /\ l.limits.max_buffers \in Int
           /\ l.limits.buffer_len \in Nat /\ l.limits.buffer_len > 0
BY DEF List, Limits

\* What Buffer says of the fields.
LEMMA BufferFields ==
    ASSUME NEW b \in Buffer
    PROVE  b.space \in Nat /\ b.data \in Seq(Nat) /\ Len(b.data) \in Nat
BY DEF Buffer

\* ustream_init_defaults makes an empty list.
LEMMA NewListFacts ==
    ASSUME NEW min \in Nat, NEW max \in Int, NEW len \in Nat \ {0}
    PROVE  /\ ListOK(NewList(min, max, len))
           /\ Joined(NewList(min, max, len).bufs) = <<>>
           /\ NewList(min, max, len).data_bytes = 0
<1> DEFINE l == NewList(min, max, len)
<1>1. /\ l.bufs = <<>> /\ l.data_tail = 0 /\ l.buffers = 0 /\ l.data_bytes = 0
      /\ l.limits = [min_buffers |-> min, max_buffers |-> max,
                     buffer_len |-> len]
  BY DEF NewList
<1>2. l \in List
  <2>1. <<>> \in Seq(Buffer)
    OBVIOUS
  <2>2. [min_buffers |-> min, max_buffers |-> max, buffer_len |-> len]
           \in Limits
    BY DEF Limits
  <2> QED
    BY <2>1, <2>2 DEF NewList, List
<1>3. l.limits.max_buffers = max
  BY <1>1
<1> HIDE DEF l
<1>4. Len(l.bufs) = 0
  BY <1>1
<1>5. Shape(l)
  BY <1>1, <1>2, <1>3, <1>4 DEF Shape
<1>6. Joined(l.bufs) = <<>>
  BY <1>1, JoinedEmpty
<1>7. l.data_bytes = Len(Joined(l.bufs))
  BY <1>1, <1>6
<1> QED
  BY <1>1, <1>5, <1>6, <1>7 DEF ListOK, l

\* ustream_should_move, and the memmove after it, keep every byte.
LEMMA CompactedFacts ==
    ASSUME NEW l, Shape(l), NEW len
    PROVE  /\ Shape(Compacted(l, len))
           /\ Len(Compacted(l, len).bufs) = Len(l.bufs)
           /\ Joined(Compacted(l, len).bufs) = Joined(l.bufs)
           /\ Compacted(l, len).data_tail = l.data_tail
           /\ Compacted(l, len).buffers = l.buffers
           /\ Compacted(l, len).data_bytes = l.data_bytes
           /\ Compacted(l, len).limits = l.limits
           /\ l.data_tail # 0 =>
                Compacted(l, len).bufs[l.data_tail].data
                   = l.bufs[l.data_tail].data
<1>1. CASE ~ (l.data_tail # 0 /\ ustream_should_move(l, len))
  BY <1>1 DEF Compacted
<1>2. CASE l.data_tail # 0 /\ ustream_should_move(l, len)
  <2> DEFINE m == Compacted(l, len)
             k == l.data_tail
  <2>1. m = [l EXCEPT !.bufs[k].space = 0]
    BY <1>2 DEF Compacted
  <2>2. /\ l \in List /\ l.buffers = Len(l.bufs)
        /\ l.limits.max_buffers > 0 => l.buffers <= l.limits.max_buffers
        /\ k \in 1..Len(l.bufs)
        /\ \A i \in 1..Len(l.bufs) : BufferOK(l, i)
    BY <1>2, ListFields DEF Shape
  <2>3. PICK n \in Nat : n = Len(l.bufs)
    BY <2>2, ListFields
  <2>4. /\ m.data_tail = k /\ m.buffers = l.buffers /\ m.limits = l.limits
        /\ m.data_bytes = l.data_bytes
        /\ m.bufs = [l.bufs EXCEPT ![k].space = 0]
    BY <2>1, <2>2 DEF List
  <2>5. PICK b \in Buffer : b = l.bufs[k]
    <3>1. l.bufs[k] \in Buffer
      BY <2>2, ListFields, ElementOfSeq
    <3> QED
      BY <3>1
  <2>6. PICK c \in Buffer : c = [b EXCEPT !.space = 0] /\ c.space = 0
                               /\ c.data = b.data
    <3>1. [b EXCEPT !.space = 0] \in Buffer
      BY DEF Buffer
    <3>2. [b EXCEPT !.space = 0].space = 0 /\ [b EXCEPT !.space = 0].data = b.data
      BY DEF Buffer
    <3> QED
      BY <3>1, <3>2
  <2>7. m.bufs = [l.bufs EXCEPT ![k] = c]
    BY <2>4, <2>5, <2>6
  <2>8. /\ m.bufs \in Seq(Buffer) /\ Len(m.bufs) = n
        /\ \A i \in 1..n : m.bufs[i] = IF i = k THEN c ELSE l.bufs[i]
    <3>1. l.bufs \in Seq(Buffer) /\ k \in 1..Len(l.bufs) /\ c \in Buffer
      BY <2>2, ListFields
    <3>2. /\ [l.bufs EXCEPT ![k] = c] \in Seq(Buffer)
          /\ Len([l.bufs EXCEPT ![k] = c]) = Len(l.bufs)
          /\ \A i \in 1..Len(l.bufs) :
                [l.bufs EXCEPT ![k] = c][i] = IF i = k THEN c ELSE l.bufs[i]
      BY <3>1, ExceptSeq
    <3> QED
      BY <3>2, <2>3, <2>7
  <2>9. m \in List
    <3>1. m = [l EXCEPT !.bufs = m.bufs]
      BY <2>1, <2>2, <2>4 DEF List
    <3> HIDE DEF m
    <3> QED
      BY <3>1, <2>2, <2>8 DEF List
  <2> HIDE DEF m, k
  <2>10. \A i \in 1..n : BufferOK(m, i)
    <3>1. ASSUME NEW i \in 1..n
          PROVE  BufferOK(m, i)
      <4>1. BufferOK(l, i)
        BY <2>2, <2>3
      <4>2. CASE i = k
        <5>1. m.bufs[i] = c /\ l.bufs[i] = b
          BY <4>2, <2>5, <2>8
        <5>2. c.space + Len(c.data) <= b.space + Len(b.data)
          BY <2>6, BufferFields
        <5>3. /\ b.space + Len(b.data) \in Int /\ c.space + Len(c.data) \in Int
              /\ l.limits.buffer_len \in Int
          BY <2>2, ListFields, BufferFields
        <5>4. b.space + Len(b.data) <= l.limits.buffer_len
          BY <4>1, <5>1 DEF BufferOK
        <5>5. ~ (i < m.data_tail) /\ ~ (i > m.data_tail)
          BY <4>2, <2>4 DEF k
        <5>6. c.space + Len(c.data) <= m.limits.buffer_len
          BY <5>2, <5>3, <5>4, <2>4
        <5> QED
          BY <5>1, <5>5, <5>6 DEF BufferOK
      <4>3. CASE i # k
        BY <4>1, <4>3, <2>4, <2>8 DEF BufferOK, k
      <4> QED
        BY <4>2, <4>3
    <3> QED
      BY <3>1
  <2>11. Shape(m)
    <3>1. k \in 0..n /\ k # 0
      BY <2>2, <2>3
    <3> QED
      BY <3>1, <2>2, <2>3, <2>4, <2>8, <2>9, <2>10 DEF Shape
  <2>12. Joined(m.bufs) = Joined(l.bufs)
    <3>1. PICK a \in Seq(Buffer), d \in Seq(Buffer) : a = l.bufs /\ d = m.bufs
      BY <2>2, <2>8, ListFields
    <3>2. Len(a) = Len(d) /\ \A i \in 1..Len(a) : d[i].data = a[i].data
      BY <3>1, <2>3, <2>5, <2>6, <2>8
    <3> QED
      BY <3>1, <3>2, JoinedSame
  <2>13. m.bufs[k].data = l.bufs[k].data
    BY <2>2, <2>3, <2>5, <2>6, <2>8
  <2> QED
    BY <2>3, <2>4, <2>8, <2>11, <2>12, <2>13 DEF m, k
<1> QED
  BY <1>1, <1>2

\* A buffer that compacting leaves without room has data.
LEMMA FullHasData ==
    ASSUME NEW l, Shape(l), NEW len, l.data_tail # 0, ~HasRoom(Compacted(l, len))
    PROVE  l.bufs[l.data_tail].data # <<>>
<1> DEFINE m == Compacted(l, len)
           k == l.data_tail
<1>1. SUFFICES ASSUME l.bufs[k].data = <<>> PROVE FALSE
  OBVIOUS
<1>2. l \in List /\ k \in 1..Len(l.bufs)
  BY ListFields DEF Shape
<1>3. l.bufs[k] \in Buffer
  BY <1>2, ListFields, ElementOfSeq
<1>4. PICK b \in Buffer : b = l.bufs[k]
  BY <1>3
<1>5. b.space \in Nat /\ Len(b.data) = 0 /\ b.data = <<>>
  BY <1>1, <1>4, BufferFields
<1>6. PICK max \in Nat : max = l.limits.buffer_len /\ max > 0
  BY <1>2, ListFields
<1>7. /\ m.data_tail = k /\ m.limits = l.limits /\ m.bufs[k].data = <<>>
  BY <1>1, CompactedFacts
<1>8. ~ (RoomIn(m, m.bufs[k]) > 0)
  BY <1>7 DEF HasRoom
<1>9. ~ (max - m.bufs[k].space > 0)
  <2>1. RoomIn(m, m.bufs[k]) = max - m.bufs[k].space - 0
    BY <1>6, <1>7 DEF RoomIn
  <2>2. m.bufs[k].space \in Nat
    <3>1. Shape(m) /\ Len(m.bufs) = Len(l.bufs)
      BY CompactedFacts
    <3>2. m.bufs[k] \in Buffer
      BY <3>1, <1>2, ListFields, ElementOfSeq DEF Shape
    <3> QED
      BY <3>2, BufferFields
  <2> HIDE DEF m, k
  <2> QED
    BY <2>1, <2>2, <1>6, <1>8
<1>10. CASE ustream_should_move(l, len)
  <2>1. m = [l EXCEPT !.bufs[k].space = 0]
    BY <1>10 DEF Compacted
  <2>2. m.bufs = [l.bufs EXCEPT ![k].space = 0]
    BY <2>1, <1>2 DEF List
  <2>3. m.bufs[k] = [b EXCEPT !.space = 0]
    <3>1. k \in DOMAIN l.bufs
      BY <1>2, ListFields
    <3> QED
      BY <3>1, <2>2, <1>4
  <2>4. m.bufs[k].space = 0
    BY <2>3, <1>4 DEF Buffer
  <2> HIDE DEF m, k
  <2> QED
    BY <2>4, <1>6, <1>9
<1>11. CASE ~ustream_should_move(l, len)
  <2>1. m.bufs[k].space = b.space
    BY <1>4, <1>11 DEF Compacted
  <2>2. max - b.space <= 0
    <3> HIDE DEF m, k
    <3> QED
      BY <2>1, <1>5, <1>6, <1>9
  <2>3. b.space > 0 /\ b.space > max \div 2
    BY <2>2, <1>5, <1>6
  <2>4. ustream_should_move(l, len)
    BY <2>3, <1>4, <1>6 DEF ustream_should_move
  <2> QED
    BY <2>4, <1>11
<1> QED
  BY <1>10, <1>11

\* ustream_add_buf, and data_tail on one of the buffers.
LEMMA AppendEmptyFacts ==
    ASSUME NEW l, Shape(l), NEW m, m \in List, NEW k,
           m.bufs = Append(l.bufs, EmptyBuf),
           m.buffers = l.buffers + 1, m.data_tail = k, m.limits = l.limits,
           l.limits.max_buffers > 0 => l.buffers < l.limits.max_buffers,
           k \in 1..(Len(l.bufs) + 1),
           \/ k = l.data_tail
           \/ k = l.data_tail + 1 /\ (l.data_tail # 0 =>
                                         l.bufs[l.data_tail].data # <<>>)
    PROVE  /\ Shape(m)
           /\ Len(m.bufs) = Len(l.bufs) + 1
           /\ m.bufs[Len(l.bufs) + 1] = EmptyBuf
           /\ Joined(m.bufs) = Joined(l.bufs)
<1>1. /\ l \in List /\ l.buffers = Len(l.bufs)
      /\ l.data_tail \in 0..Len(l.bufs)
      /\ l.data_tail = 0 => l.bufs = <<>>
      /\ \A i \in 1..Len(l.bufs) : BufferOK(l, i)
  BY DEF Shape
<1>2. PICK n \in Nat, t \in Nat, max \in Int, len \in Nat :
         /\ n = Len(l.bufs) /\ t = l.data_tail /\ max = l.limits.max_buffers
         /\ len = l.limits.buffer_len
  BY <1>1, ListFields
<1>3. /\ m.bufs \in Seq(Buffer) /\ Len(m.bufs) = n + 1
      /\ \A i \in 1..n : m.bufs[i] = l.bufs[i]
      /\ m.bufs[n + 1] = EmptyBuf
  <2>1. l.bufs \in Seq(Buffer)
    BY <1>1, ListFields
  <2>2. PICK a \in Seq(Buffer), e \in Buffer : a = l.bufs /\ e = EmptyBuf
    BY <2>1, EmptyBufFacts
  <2>3. /\ Append(a, e) \in Seq(Buffer) /\ Len(Append(a, e)) = Len(a) + 1
        /\ \A i \in 1..Len(a) : Append(a, e)[i] = a[i]
        /\ Append(a, e)[Len(a) + 1] = e
    BY AppendProperties
  <2> QED
    BY <2>2, <2>3, <1>2
<1>4. \A i \in 1..(n + 1) : BufferOK(m, i)
  <2>1. ASSUME NEW i \in 1..n
        PROVE  BufferOK(m, i)
    <3>1. BufferOK(l, i) /\ m.bufs[i] = l.bufs[i]
      BY <1>1, <1>2, <1>3
    <3>2. i < k => l.bufs[i].data # <<>>
      <4>1. CASE i < t
        BY <4>1, <3>1, <1>2 DEF BufferOK
      <4>2. CASE ~ (i < t)
        <5>1. i < k => i = t /\ t # 0 /\ k = t + 1
          BY <4>2, <1>2
        <5> QED
          BY <5>1, <1>2
      <4> QED
        BY <4>1, <4>2
    <3>3. i > k => i > t
      BY <1>2
    <3> QED
      BY <3>1, <3>2, <3>3, <1>2 DEF BufferOK
  <2>2. BufferOK(m, n + 1)
    <3>1. ~ (n + 1 < k)
      BY <1>2
    <3>2. EmptyBuf.space + Len(EmptyBuf.data) = 0
      BY EmptyBufFacts
    <3> QED
      BY <3>1, <3>2, <1>2, <1>3 DEF BufferOK
  <2>3. ASSUME NEW i \in 1..(n + 1)
        PROVE  i \in 1..n \/ i = n + 1
    OBVIOUS
  <2> QED
    BY <2>1, <2>2, <2>3
<1>5. Shape(m)
  <2>1. /\ m.data_tail \in 0..Len(m.bufs) /\ m.data_tail # 0
        /\ m.buffers = Len(m.bufs)
    BY <1>1, <1>2, <1>3
  <2>2. m.limits.max_buffers > 0 => m.buffers <= m.limits.max_buffers
    BY <1>1, <1>2
  <2>3. \A i \in 1..Len(m.bufs) : BufferOK(m, i)
    BY <1>3, <1>4
  <2> QED
    BY <2>1, <2>2, <2>3 DEF Shape
<1>6. Joined(m.bufs) = Joined(l.bufs)
  <2>1. PICK a \in Seq(Buffer), e \in Buffer : a = l.bufs /\ e = EmptyBuf
    BY <1>1, ListFields, EmptyBufFacts
  <2>2. Joined(Append(a, e)) = Joined(a) \o e.data
    BY JoinedAppend
  <2>3. Joined(a) \in Seq(Nat)
    BY JoinedConcat
  <2>4. Joined(a) \o <<>> = Joined(a)
    BY <2>3, ConcatEmptySeq
  <2> QED
    BY <2>1, <2>2, <2>4, EmptyBufFacts
<1> QED
  BY <1>2, <1>3, <1>5, <1>6

\* ustream_prepare_buf keeps every byte and finds room behind the last one.
LEMMA PrepareFacts ==
    ASSUME NEW l, Shape(l), NEW len, CanPrepare(l, len),
           NEW p, p = ustream_prepare_buf(l, len)
    PROVE  /\ Shape(p)
           /\ p.data_tail \in 1..Len(p.bufs)
           /\ RoomIn(p, p.bufs[p.data_tail]) \in Nat
           /\ RoomIn(p, p.bufs[p.data_tail]) > 0
           /\ Joined(p.bufs) = Joined(l.bufs)
           /\ p.data_bytes = l.data_bytes
           /\ p.limits = l.limits
<1>1. PICK m : m = Compacted(l, len)
  OBVIOUS
<1>2. /\ Shape(m) /\ Len(m.bufs) = Len(l.bufs)
      /\ Joined(m.bufs) = Joined(l.bufs) /\ m.data_bytes = l.data_bytes
      /\ m.limits = l.limits
      /\ m.data_tail # 0 /\ ~HasRoom(m) => m.bufs[m.data_tail].data # <<>>
  BY <1>1, CompactedFacts, FullHasData
<1>3. /\ m \in List /\ m.data_tail \in 0..Len(m.bufs) /\ m.buffers = Len(m.bufs)
      /\ m.data_tail = 0 => m.bufs = <<>>
      /\ \A i \in 1..Len(m.bufs) : BufferOK(m, i)
      /\ m.limits.max_buffers > 0 => m.buffers <= m.limits.max_buffers
  BY <1>2 DEF Shape
<1>4. PICK n \in Nat, t \in Nat : n = Len(m.bufs) /\ t = m.data_tail
  BY <1>3, ListFields
<1>5. PICK size \in Nat : size = m.limits.buffer_len /\ size > 0
  BY <1>3, ListFields
<1>6. p.data_tail \in 1..Len(p.bufs) => RoomIn(p, p.bufs[p.data_tail]) \in Int
         \/ ~Shape(p)
  <2>1. SUFFICES ASSUME p.data_tail \in 1..Len(p.bufs), Shape(p)
                 PROVE  RoomIn(p, p.bufs[p.data_tail]) \in Int
    OBVIOUS
  <2>2. p \in List
    BY <2>1 DEF Shape
  <2>3. p.bufs[p.data_tail] \in Buffer
    BY <2>1, <2>2, ListFields, ElementOfSeq
  <2>4. PICK b \in Buffer : b = p.bufs[p.data_tail]
    BY <2>3
  <2>5. b.space \in Nat /\ Len(b.data) \in Nat /\ p.limits.buffer_len \in Nat
    BY <2>2, ListFields, BufferFields
  <2> QED
    BY SMTT(60), <2>4, <2>5 DEF RoomIn
<1>7. CASE HasRoom(m)
  <2>1. p = m
    BY <1>1, <1>7 DEF ustream_prepare_buf
  <2>2. t # 0 /\ RoomIn(m, m.bufs[t]) > 0
    BY <1>4, <1>7 DEF HasRoom
  <2>3. p.data_tail \in 1..Len(p.bufs)
    BY <2>1, <2>2, <1>3, <1>4
  <2>4. RoomIn(p, p.bufs[p.data_tail]) > 0
    BY <2>1, <2>2, <1>4
  <2> QED
    BY <2>1, <2>3, <2>4, <1>2, <1>6
<1>8. CASE ~HasRoom(m) /\ HasNext(m)
  <2>1. p = [m EXCEPT !.data_tail = m.data_tail + 1]
    BY <1>1, <1>8 DEF ustream_prepare_buf
  <2>2. /\ p.data_tail = t + 1 /\ p.bufs = m.bufs /\ p.limits = m.limits
        /\ p.data_bytes = m.data_bytes /\ p.buffers = m.buffers
    BY <2>1, <1>3, <1>4 DEF List
  <2>3. p \in List
    BY <2>1, <1>3, <1>4 DEF List
  <2>4. t \in 1..n /\ t + 1 \in 1..n
    BY <1>4, <1>8 DEF HasNext
  <2>5. ASSUME NEW i \in 1..n
        PROVE  BufferOK(p, i)
    <3>1. BufferOK(m, i)
      BY <1>3, <1>4
    <3>2. i < t + 1 => m.bufs[i].data # <<>>
      <4>1. i < t + 1 => i < t \/ i = t
        OBVIOUS
      <4>2. i < t => m.bufs[i].data # <<>>
        BY <3>1, <1>4 DEF BufferOK
      <4>3. m.bufs[t].data # <<>>
        BY <2>4, <1>2, <1>4, <1>8
      <4> QED
        BY <4>1, <4>2, <4>3
    <3>3. i > t + 1 => i > t
      OBVIOUS
    <3> QED
      BY <3>1, <3>2, <3>3, <2>2, <1>4 DEF BufferOK
  <2>6. Shape(p)
    <3>1. p.data_tail \in 0..Len(p.bufs) /\ p.data_tail # 0
      BY <2>2, <2>4, <1>4
    <3> QED
      BY <3>1, <2>2, <2>3, <2>5, <1>3, <1>4 DEF Shape
  <2>7. p.bufs[t + 1] = EmptyBuf
    <3>1. BufferOK(m, t + 1) /\ t + 1 > t
      BY <2>4, <1>3, <1>4
    <3> QED
      BY <3>1, <2>2, <1>4 DEF BufferOK
  <2>8. RoomIn(p, p.bufs[p.data_tail]) = size
    <3>1. Len(EmptyBuf.data) = 0 /\ EmptyBuf.space = 0
      BY EmptyBufFacts
    <3> QED
      BY <3>1, <2>2, <2>7, <1>5 DEF RoomIn
  <2>9. p.data_tail \in 1..Len(p.bufs)
    BY <2>2, <2>4, <1>4
  <2> QED
    BY <2>2, <2>6, <2>8, <2>9, <1>2, <1>5
<1>9. CASE ~HasRoom(m) /\ ~HasNext(m)
  <2>1. ustream_can_alloc(m)
    BY <1>1, <1>9 DEF CanPrepare
  <2>2. p = [ustream_add_buf(m, EmptyBuf) EXCEPT !.data_tail = n + 1]
    BY <2>1, <1>1, <1>4, <1>9 DEF ustream_prepare_buf
  <2>3. /\ p.data_tail = n + 1 /\ p.bufs = Append(m.bufs, EmptyBuf)
        /\ p.limits = m.limits
        /\ p.data_bytes = m.data_bytes /\ p.buffers = m.buffers + 1
    BY <2>2, <1>3, <1>4 DEF List, ustream_add_buf
  <2>4. p \in List
    <3>1. PICK a \in Seq(Buffer) : a = Append(m.bufs, EmptyBuf)
      <4>1. m.bufs \in Seq(Buffer) /\ EmptyBuf \in Buffer
        BY <1>3, ListFields, EmptyBufFacts
      <4>2. Append(m.bufs, EmptyBuf) \in Seq(Buffer)
        BY <4>1, AppendProperties
      <4> QED
        BY <4>2
    <3>2. p = [m EXCEPT !.buffers = m.buffers + 1, !.bufs = a,
                        !.data_tail = n + 1]
      BY <3>1, <2>2, <1>3, <1>4 DEF List, ustream_add_buf
    <3>3. m.buffers + 1 \in Int /\ n + 1 \in Nat
      BY <1>3, <1>4
    <3> QED
      BY <3>2, <3>3, <1>3 DEF List
  <2>5. t = n
    <3>1. CASE t = 0
      BY <3>1, <1>3, <1>4
    <3>2. CASE t # 0
      BY <3>2, <1>3, <1>4, <1>9 DEF HasNext
    <3> QED
      BY <3>1, <3>2
  <2>6. m.limits.max_buffers > 0 => m.buffers < m.limits.max_buffers
    <3>1. m.limits.max_buffers \in Int
      BY <1>3, ListFields
    <3> QED
      BY <3>1, <2>1 DEF ustream_can_alloc
  <2>7. m.data_tail # 0 => m.bufs[m.data_tail].data # <<>>
    BY <1>2, <1>9
  <2>8. n + 1 \in 1..(Len(m.bufs) + 1) /\ n + 1 = m.data_tail + 1
    BY <2>5, <1>4
  <2>9. /\ Shape(p) /\ Len(p.bufs) = Len(m.bufs) + 1
        /\ p.bufs[Len(m.bufs) + 1] = EmptyBuf
        /\ Joined(p.bufs) = Joined(m.bufs)
    BY <2>3, <2>4, <2>6, <2>7, <2>8, <1>2, AppendEmptyFacts
  <2>10. RoomIn(p, p.bufs[p.data_tail]) = size
    <3>1. Len(EmptyBuf.data) = 0 /\ EmptyBuf.space = 0
      BY EmptyBufFacts
    <3> QED
      BY <3>1, <2>3, <2>9, <1>4, <1>5 DEF RoomIn
  <2>11. p.data_tail \in 1..Len(p.bufs)
    BY <2>3, <2>9, <1>4
  <2> QED
    BY <2>3, <2>9, <2>10, <2>11, <1>2, <1>5
<1> QED
  BY <1>7, <1>8, <1>9

\* Another buffer c in the place of buffer k, and z bytes.
Put(l, k, c, z) ==
    [l EXCEPT !.bufs = [l.bufs EXCEPT ![k] = c], !.data_bytes = z]

CanPut(l, k, c, z) ==
    /\ Shape(l) /\ k \in 1..Len(l.bufs) /\ c \in Buffer /\ z \in Int
    /\ k <= l.data_tail
    /\ c.space + Len(c.data) <= l.limits.buffer_len
    /\ k < l.data_tail => c.data # <<>>

\* A buffer is replaced by one that fits in its place.
LEMMA PutFacts ==
    ASSUME NEW l, NEW k, NEW c, NEW z, CanPut(l, k, c, z)
    PROVE  /\ Shape(Put(l, k, c, z))
           /\ Put(l, k, c, z).bufs = [l.bufs EXCEPT ![k] = c]
           /\ Put(l, k, c, z).data_tail = l.data_tail
           /\ Put(l, k, c, z).data_bytes = z
           /\ Put(l, k, c, z).limits = l.limits
<1> USE DEF CanPut
<1>0. PICK m : m = Put(l, k, c, z)
  OBVIOUS
<1>1. /\ l \in List /\ l.buffers = Len(l.bufs)
      /\ l.limits.max_buffers > 0 => l.buffers <= l.limits.max_buffers
      /\ l.data_tail \in 0..Len(l.bufs)
      /\ l.data_tail = 0 => l.bufs = <<>>
      /\ \A i \in 1..Len(l.bufs) : BufferOK(l, i)
  BY DEF Shape
<1>2. PICK n \in Nat : n = Len(l.bufs)
  BY <1>1, ListFields
<1>3. PICK a \in Seq(Buffer) :
         /\ a = [l.bufs EXCEPT ![k] = c] /\ Len(a) = n
         /\ \A i \in 1..n : a[i] = IF i = k THEN c ELSE l.bufs[i]
  <2>1. l.bufs \in Seq(Buffer)
    BY <1>1, ListFields
  <2>2. /\ [l.bufs EXCEPT ![k] = c] \in Seq(Buffer)
        /\ Len([l.bufs EXCEPT ![k] = c]) = Len(l.bufs)
        /\ \A i \in 1..Len(l.bufs) :
              [l.bufs EXCEPT ![k] = c][i] = IF i = k THEN c ELSE l.bufs[i]
    BY <2>1, ExceptSeq
  <2> QED
    BY <2>2, <1>2
<1>4. m = [l EXCEPT !.bufs = a, !.data_bytes = z]
  BY <1>0, <1>3 DEF Put
<1>5. m \in List
  BY <1>1, <1>4 DEF List
<1>6. /\ m.bufs = a /\ m.data_tail = l.data_tail /\ m.data_bytes = z
      /\ m.limits = l.limits /\ m.buffers = l.buffers
  BY <1>1, <1>4 DEF List
<1>7. ASSUME NEW i \in 1..n
      PROVE  BufferOK(m, i)
  <2>1. BufferOK(l, i)
    BY <1>1, <1>2
  <2>2. CASE i = k
    <3>1. m.bufs[i] = c
      BY <2>2, <1>3, <1>6
    <3>2. l.data_tail \in Int
      BY <1>1, ListFields
    <3>3. ~ (i > l.data_tail)
      BY <2>2, <3>2
    <3> QED
      BY <3>1, <3>3, <2>2, <1>6 DEF BufferOK
  <2>3. CASE i # k
    BY <2>1, <2>3, <1>3, <1>6 DEF BufferOK
  <2> QED
    BY <2>2, <2>3
<1>8. Shape(m)
  <2>1. l.data_tail # 0
    <3>1. n # 0
      BY <1>2
    <3>2. l.bufs # <<>>
      BY <3>1, <1>2
    <3> QED
      BY <3>2, <1>1
  <2> QED
    BY <2>1, <1>1, <1>2, <1>3, <1>5, <1>6, <1>7 DEF Shape
<1> QED
  BY <1>0, <1>3, <1>6, <1>8

\* Bytes for which there is room go behind all others.
LEMMA FillFacts ==
    ASSUME NEW l, Shape(l), l.data_tail \in 1..Len(l.bufs), NEW d \in Seq(Nat),
           Len(d) <= RoomIn(l, l.bufs[l.data_tail])
    PROVE  /\ Shape(Fill(l, d))
           /\ Joined(Fill(l, d).bufs) = Joined(l.bufs) \o d
           /\ Fill(l, d).data_bytes = l.data_bytes + Len(d)
           /\ Fill(l, d).limits = l.limits
<1>1. PICK k \in 1..Len(l.bufs) : k = l.data_tail
  OBVIOUS
<1>2. /\ l \in List /\ l.bufs \in Seq(Buffer) /\ l.data_bytes \in Int
      /\ l.limits.buffer_len \in Nat /\ Len(l.bufs) \in Nat
      /\ \A i \in 1..Len(l.bufs) : BufferOK(l, i)
  BY ListFields DEF Shape
<1>3. PICK b \in Buffer : b = l.bufs[k]
  <2>1. l.bufs[k] \in Buffer
    BY <1>2, ElementOfSeq
  <2> QED
    BY <2>1
<1>4. b.space \in Nat /\ b.data \in Seq(Nat) /\ Len(b.data) \in Nat
  BY BufferFields
<1>5. /\ b.data \o d \in Seq(Nat) /\ Len(b.data \o d) = Len(b.data) + Len(d)
      /\ Len(d) \in Nat
  BY <1>4, ConcatProperties, LenProperties
<1>6. PICK c \in Buffer : /\ c = [b EXCEPT !.data = b.data \o d]
                          /\ c.data = b.data \o d /\ c.space = b.space
  <2>1. PICK x \in Seq(Nat) : x = b.data \o d
    BY <1>5
  <2>2. /\ [b EXCEPT !.data = x] \in Buffer
        /\ [b EXCEPT !.data = x].data = x /\ [b EXCEPT !.data = x].space = b.space
    BY DEF Buffer
  <2> QED
    BY <2>1, <2>2
<1>7. PICK z \in Int : z = l.data_bytes + Len(d)
  BY <1>2, <1>5
<1>8. PICK m : m = Fill(l, d)
  OBVIOUS
<1>9. m = Put(l, k, c, z)
  <2>1. m = [l EXCEPT !.bufs[k].data = @ \o d, !.data_bytes = @ + Len(d)]
    BY <1>1, <1>8 DEF Fill
  <2>2. [l.bufs EXCEPT ![k].data = @ \o d] = [l.bufs EXCEPT ![k] = c]
    BY <1>3, <1>6
  <2>3. m = [l EXCEPT !.bufs = [l.bufs EXCEPT ![k].data = @ \o d],
                      !.data_bytes = l.data_bytes + Len(d)]
    BY <2>1, <1>2 DEF List
  <2> QED
    BY <2>2, <2>3, <1>7 DEF Put
<1>10. c.space + Len(c.data) <= l.limits.buffer_len
  <2>1. RoomIn(l, b) = l.limits.buffer_len - b.space - Len(b.data)
    BY DEF RoomIn
  <2>2. Len(d) <= RoomIn(l, b)
    BY <1>1, <1>3
  <2> QED
    BY <2>1, <2>2, <1>2, <1>4, <1>5, <1>6
<1>11. ~ (k < l.data_tail) /\ k <= l.data_tail
  BY <1>1, <1>2
<1>12. /\ Shape(m) /\ m.bufs = [l.bufs EXCEPT ![k] = c]
       /\ m.data_bytes = z /\ m.limits = l.limits
  <2>1. k < l.data_tail => c.data # <<>>
    BY <1>11
  <2>2. CanPut(l, k, c, z)
    BY <2>1, <1>10, <1>11 DEF CanPut
  <2> QED
    BY <2>2, <1>9, PutFacts
<1>13. Joined(m.bufs) = Joined(l.bufs) \o d
  <2>1. PICK a \in Seq(Buffer) : a = l.bufs
    BY <1>2
  <2>2. ASSUME NEW i \in 1..Len(a), i > k
        PROVE  a[i].data = <<>>
    <3>1. BufferOK(l, i)
      BY <2>1, <1>2
    <3> QED
      BY <3>1, <2>1, <2>2, <1>1, EmptyBufFacts DEF BufferOK
  <2>3. c.data = a[k].data \o d /\ k \in 1..Len(a)
    BY <2>1, <1>3, <1>6
  <2>4. Joined([a EXCEPT ![k] = c]) = Joined(a) \o d
    BY <2>2, <2>3, JoinedReplace
  <2> QED
    BY <2>1, <2>4, <1>12
<1> QED
  BY <1>7, <1>8, <1>12, <1>13

\* ustream_free_buf takes the head away, or keeps it, empty, at the end of
\* the list: the bytes of the others are left.
LEMMA FreeBufFacts ==
    ASSUME NEW l, Shape(l), l.bufs # <<>>
    PROVE  /\ Shape(ustream_free_buf(l))
           /\ Joined(ustream_free_buf(l).bufs) = Joined(Tail(l.bufs))
           /\ ustream_free_buf(l).data_bytes = l.data_bytes
           /\ ustream_free_buf(l).limits = l.limits
<1>1. /\ l \in List /\ l.buffers = Len(l.bufs)
      /\ l.limits.max_buffers > 0 => l.buffers <= l.limits.max_buffers
      /\ l.data_tail \in 0..Len(l.bufs)
      /\ l.data_tail = 0 => l.bufs = <<>>
      /\ \A i \in 1..Len(l.bufs) : BufferOK(l, i)
  BY DEF Shape
<1>2. PICK n \in Nat, t \in Nat, max \in Int :
         n = Len(l.bufs) /\ t = l.data_tail /\ max = l.limits.max_buffers
  BY <1>1, ListFields
<1>3. n # 0 /\ t \in 1..n
  BY <1>1, <1>2, ListFields
<1>4. PICK a \in Seq(Buffer) :
         /\ a = Tail(l.bufs) /\ Len(a) = n - 1
         /\ \A i \in 1..(n - 1) : a[i] = l.bufs[i + 1]
  <2>1. l.bufs \in Seq(Buffer)
    BY <1>1, ListFields
  <2>2. /\ Tail(l.bufs) \in Seq(Buffer) /\ Len(Tail(l.bufs)) = Len(l.bufs) - 1
        /\ \A i \in 1..Len(Tail(l.bufs)) : Tail(l.bufs)[i] = l.bufs[i + 1]
    BY <2>1, HeadTailProperties
  <2> QED
    BY <2>2, <1>2
<1>5. PICK k \in Nat :
         k = IF t > 1 THEN t - 1 ELSE IF n = 1 THEN 0 ELSE 1
  OBVIOUS
<1>6. PICK cut : cut = [l EXCEPT !.bufs = a, !.data_tail = k, !.buffers = n - 1]
  OBVIOUS
<1>7. /\ cut.bufs = a /\ cut.data_tail = k /\ cut.buffers = n - 1
      /\ cut.limits = l.limits /\ cut.data_bytes = l.data_bytes
  BY <1>1, <1>6 DEF List
<1>8. cut \in List
  <2>1. n - 1 \in Int
    OBVIOUS
  <2> QED
    BY <2>1, <1>1, <1>6 DEF List
<1>9. ASSUME NEW i \in 1..(n - 1)
      PROVE  BufferOK(cut, i)
  <2>1. PICK j \in 1..n : j = i + 1
    OBVIOUS
  <2>2. a[i] = l.bufs[j] /\ BufferOK(l, j)
    BY <2>1, <1>1, <1>2, <1>4
  <2>3. i < k => j < t
    BY <2>1, <1>5
  <2>4. i > k => j > t
    BY <2>1, <1>3, <1>5
  <2> QED
    BY <2>2, <2>3, <2>4, <1>2, <1>7 DEF BufferOK
<1>10. Shape(cut)
  <2>1. k \in 0..(n - 1)
    BY <1>3, <1>5
  <2>2. k = 0 => n - 1 = 0
    BY <1>3, <1>5
  <2>3. n - 1 = 0 => a = <<>>
    BY <1>4
  <2>4. max > 0 => n - 1 <= max
    BY <1>1, <1>2
  <2> QED
    BY <2>1, <2>2, <2>3, <2>4, <1>2, <1>4, <1>7, <1>8, <1>9 DEF Shape
<1>11. ustream_free_buf(l) = IF cut.buffers >= cut.limits.min_buffers
                             THEN cut ELSE ustream_add_buf(cut, EmptyBuf)
  <2>1. cut = [l EXCEPT !.bufs = Tail(@),
                        !.data_tail = IF @ > 1 THEN @ - 1
                                      ELSE IF Len(l.bufs) = 1 THEN 0 ELSE 1,
                        !.buffers = @ - 1]
    BY <1>1, <1>2, <1>4, <1>5, <1>6 DEF List
  <2> QED
    BY <2>1, <1>1, <1>7 DEF ustream_free_buf
<1>12. CASE cut.buffers >= cut.limits.min_buffers
  BY <1>4, <1>7, <1>10, <1>11, <1>12
<1>13. CASE ~ (cut.buffers >= cut.limits.min_buffers)
  <2>1. PICK m : m = ustream_add_buf(cut, EmptyBuf)
    OBVIOUS
  <2>2. PICK s \in Seq(Buffer) : s = Append(a, EmptyBuf)
    <3>1. Append(a, EmptyBuf) \in Seq(Buffer)
      BY EmptyBufFacts, AppendProperties
    <3> QED
      BY <3>1
  <2>3. PICK h \in Nat : h = IF k = 0 THEN 1 ELSE k
    OBVIOUS
  <2>4. m = [cut EXCEPT !.buffers = n - 1 + 1, !.bufs = s, !.data_tail = h]
    BY <2>1, <2>2, <2>3, <1>7, <1>8 DEF List, ustream_add_buf
  <2>5. /\ m.bufs = s /\ m.data_tail = h /\ m.buffers = cut.buffers + 1
        /\ m.limits = cut.limits /\ m.data_bytes = cut.data_bytes
    BY <2>4, <1>7, <1>8 DEF List
  <2>6. m \in List
    <3>1. n - 1 + 1 \in Int
      OBVIOUS
    <3> QED
      BY <2>4, <3>1, <1>8 DEF List
  <2>7. cut.limits.max_buffers > 0 => cut.buffers < cut.limits.max_buffers
    BY <1>1, <1>2, <1>7
  <2>8. h \in 1..(Len(cut.bufs) + 1)
    BY <2>3, <1>3, <1>4, <1>5, <1>7
  <2>9. \/ h = cut.data_tail
        \/ h = cut.data_tail + 1 /\ cut.data_tail = 0
    BY <2>3, <1>7
  <2>10. /\ Shape(m) /\ Joined(m.bufs) = Joined(cut.bufs)
    <3>1. m.bufs = Append(cut.bufs, EmptyBuf)
      BY <2>2, <2>5, <1>7
    <3>2. \/ h = cut.data_tail
          \/ h = cut.data_tail + 1 /\ (cut.data_tail # 0 =>
                                   cut.bufs[cut.data_tail].data # <<>>)
      BY <2>9
    <3> QED
      BY <3>1, <3>2, <2>5, <2>6, <2>7, <2>8, <1>10, AppendEmptyFacts
  <2> QED
    BY <2>1, <2>5, <2>10, <1>4, <1>7, <1>11, <1>13
<1> QED
  BY <1>12, <1>13

\* Concatenation of bytes is associative.
LEMMA Associative ==
    \A x, y, z \in Seq(Nat) : (x \o y) \o z = x \o (y \o z)
<1>1. ASSUME NEW x \in Seq(Nat), NEW y \in Seq(Nat), NEW z \in Seq(Nat)
      PROVE  (x \o y) \o z = x \o (y \o z)
  OBVIOUS
<1> QED
  BY <1>1

\* A sequence is the two parts it is split into.
LEMMA SplitFacts ==
    ASSUME NEW x \in Seq(Nat), NEW n \in 0..Len(x)
    PROVE  \E a \in Seq(Nat), b \in Seq(Nat) :
              /\ a = SubSeq(x, 1, n) /\ b = SubSeq(x, n + 1, Len(x))
              /\ Len(a) = n /\ Len(b) = Len(x) - n /\ x = a \o b
<1>1. PICK k \in Nat : k = Len(x)
  BY LenProperties
<1>2. \A i \in 1..k : x[i] \in Nat
  BY <1>1, ElementOfSeq
<1>3. PICK a : a = SubSeq(x, 1, n)
  OBVIOUS
<1>4. PICK b : b = SubSeq(x, n + 1, k)
  OBVIOUS
<1>5. a \in Seq(Nat) /\ Len(a) = n
  <2>1. 1 \in Int /\ n \in Int /\ \A i \in 1..n : x[i] \in Nat
    BY <1>1, <1>2
  <2>2. SubSeq(x, 1, n) \in Seq(Nat)
        /\ Len(SubSeq(x, 1, n)) = IF 1 <= n THEN n - 1 + 1 ELSE 0
    BY <2>1, SubSeqProperties
  <2> QED
    BY <2>2, <1>1, <1>3
<1>6. b \in Seq(Nat) /\ Len(b) = k - n
  <2>1. n + 1 \in Int /\ k \in Int /\ \A i \in (n + 1)..k : x[i] \in Nat
    BY <1>1, <1>2
  <2>2. SubSeq(x, n + 1, k) \in Seq(Nat)
        /\ Len(SubSeq(x, n + 1, k)) = IF n + 1 <= k THEN k - (n + 1) + 1 ELSE 0
    BY <2>1, SubSeqProperties
  <2> QED
    BY <2>2, <1>1, <1>4
<1>7. a \o b = SubSeq(x, 1, k)
  <2>1. 1 \in 1..(Len(x) + 1) /\ n \in (1 - 1)..Len(x) /\ k \in n..Len(x)
    BY <1>1
  <2> QED
    BY <2>1, <1>3, <1>4, ConcatAdjacentSubSeq
<1>8. x = a \o b
  BY <1>1, <1>7, SubSeqFull
<1> QED
  BY <1>1, <1>3, <1>4, <1>5, <1>6, <1>8

\* The first buffer without its first v bytes, which leaves some.
Shorten(l, v) ==
    LET H == l.bufs[1].data
    IN  [l EXCEPT !.bufs[1] = [space |-> l.bufs[1].space + v,
                               data  |-> SubSeq(H, v + 1, Len(H))]]

CanShorten(l, v) ==
    /\ Shape(l) /\ l.bufs # <<>> /\ v \in Nat
    /\ v < Len(l.bufs[1].data)

\* The head without its first bytes: its data pointer is moved forward.
LEMMA ShortenFacts ==
    ASSUME NEW l, NEW v \in Nat, CanShorten(l, v)
    PROVE  /\ Shape(Shorten(l, v))
           /\ Shorten(l, v).data_bytes = l.data_bytes
           /\ Shorten(l, v).limits = l.limits
           /\ Joined(Shorten(l, v).bufs)
                 = SubSeq(l.bufs[1].data, v + 1, Len(l.bufs[1].data))
                      \o Joined(Tail(l.bufs))
<1>0. /\ Shape(l) /\ l.bufs # <<>> /\ v \in Nat
      /\ v < Len(l.bufs[1].data)
  BY DEF CanShorten
<1>a. PICK H : H = l.bufs[1].data
  OBVIOUS
<1>b. PICK B : B = SubSeq(H, v + 1, Len(H))
  OBVIOUS
<1>c. PICK m : m = Shorten(l, v)
  OBVIOUS
<1>1. /\ l \in List /\ l.bufs \in Seq(Buffer) /\ l.data_bytes \in Int
      /\ l.limits.buffer_len \in Nat
  BY <1>0, ListFields DEF Shape
<1>2. PICK q \in 1..Len(l.bufs) : q = 1
  BY <1>0, <1>1
<1>3. q <= l.data_tail /\ BufferOK(l, q)
  <2>1. BufferOK(l, q) /\ l.data_tail \in 0..Len(l.bufs) /\ l.data_tail # 0
    BY <1>0 DEF Shape
  <2>2. l.data_tail \in Nat
    BY <1>1, ListFields
  <2> QED
    BY <2>1, <2>2, <1>2
<1>4. PICK h \in Buffer : h = l.bufs[q]
  <2>1. l.bufs[q] \in Buffer
    BY <1>1, ElementOfSeq
  <2> QED
    BY <2>1
<1>5. PICK k \in Nat : k = Len(H) /\ H \in Seq(Nat) /\ h.space \in Nat /\ H = h.data
  BY <1>a, <1>2, <1>4, BufferFields
<1>6. B \in Seq(Nat) /\ Len(B) = k - v
  <2>1. \A j \in 1..k : H[j] \in Nat
    BY <1>5, ElementOfSeq
  <2>2. v + 1 \in Int /\ k \in Int /\ \A j \in (v + 1)..k : H[j] \in Nat
    BY <2>1
  <2>3. SubSeq(H, v + 1, k) \in Seq(Nat)
        /\ Len(SubSeq(H, v + 1, k)) = IF v + 1 <= k THEN k - (v + 1) + 1 ELSE 0
    BY <2>2, SubSeqProperties
  <2>4. v < k /\ B = SubSeq(H, v + 1, k)
    BY <1>0, <1>a, <1>b, <1>5
  <2>5. v + 1 <= k /\ k - (v + 1) + 1 = k - v
    BY <2>4, <1>0, <1>5
  <2> QED
    BY <2>3, <2>4, <2>5
<1>7. PICK c \in Buffer : c = [space |-> h.space + v, data |-> B]
                          /\ c.space = h.space + v /\ c.data = B
  <2>1. h.space + v \in Nat
    BY <1>0, <1>5
  <2>2. [space |-> h.space + v, data |-> B] \in Buffer
    BY <2>1, <1>6 DEF Buffer
  <2> QED
    BY <2>2
<1>8. PICK z \in Int : z = l.data_bytes
  BY <1>1
<1>9. m = Put(l, q, c, z)
  <2>1. m = [l EXCEPT !.bufs[1] = c]
    BY <1>a, <1>b, <1>c, <1>2, <1>4, <1>7 DEF Shorten
  <2>2. [l EXCEPT !.bufs[1] = c] = [l EXCEPT !.bufs = [l.bufs EXCEPT ![1] = c]]
    BY <1>1 DEF List
  <2>3. [l EXCEPT !.bufs = [l.bufs EXCEPT ![1] = c]]
           = [l EXCEPT !.bufs = [l.bufs EXCEPT ![1] = c], !.data_bytes = z]
    BY <1>1, <1>8 DEF List
  <2> QED
    BY <2>1, <2>2, <2>3, <1>2 DEF Put
<1>10. c.space + Len(c.data) <= l.limits.buffer_len
  <2>1. h.space + Len(h.data) <= l.limits.buffer_len
    BY <1>3, <1>4 DEF BufferOK
  <2>2. /\ c.space = h.space + v /\ Len(c.data) = k - v
        /\ Len(h.data) = k /\ h.space \in Nat
    BY <1>5, <1>6, <1>7
  <2>3. c.space + Len(c.data) = h.space + Len(h.data)
    BY <2>2
  <2> QED
    BY <2>1, <2>3
<1>11. c.data # <<>>
  <2>1. v < k
    BY <1>0, <1>a, <1>5
  <2>2. B # <<>>
    BY <2>1, <1>6
  <2> QED
    BY <2>2, <1>7
<1>12. /\ Shape(m) /\ m.bufs = [l.bufs EXCEPT ![q] = c]
       /\ m.data_bytes = z /\ m.limits = l.limits
  <2>1. q < l.data_tail => c.data # <<>>
    BY <1>11
  <2>2. CanPut(l, q, c, z)
    BY <2>1, <1>0, <1>3, <1>10 DEF CanPut
  <2> QED
    BY <2>2, <1>9, PutFacts
<1>13. Joined(m.bufs) = B \o Joined(Tail(l.bufs))
  <2>1. PICK a \in Seq(Buffer) : a = l.bufs /\ q \in 1..Len(a)
    BY <1>1
  <2>2. /\ [a EXCEPT ![q] = c] \in Seq(Buffer)
        /\ Len([a EXCEPT ![q] = c]) = Len(a)
        /\ \A j \in 1..Len(a) : [a EXCEPT ![q] = c][j] = IF j = q THEN c ELSE a[j]
    BY <2>1, ExceptSeq
  <2>3. PICK b \in Seq(Buffer) : b = [a EXCEPT ![q] = c]
    BY <2>2
  <2>4. /\ b # <<>> /\ b[1] = c /\ Len(b) = Len(a)
        /\ \A j \in 1..Len(a) : j # 1 => b[j] = a[j]
    BY <2>1, <2>2, <2>3, <1>2
  <2>5. a # <<>>
    BY <2>1, <1>0
  <2>6. Tail(b) = Tail(a)
    <3>1. /\ Tail(a) \in Seq(Buffer) /\ Len(Tail(a)) = Len(a) - 1
          /\ \A j \in 1..Len(Tail(a)) : Tail(a)[j] = a[j + 1]
      BY <2>5, HeadTailProperties
    <3>2. /\ Tail(b) \in Seq(Buffer) /\ Len(Tail(b)) = Len(b) - 1
          /\ \A j \in 1..Len(Tail(b)) : Tail(b)[j] = b[j + 1]
      BY <2>4, HeadTailProperties
    <3>3. PICK x \in Seq(Buffer), y \in Seq(Buffer), e \in Nat :
             x = Tail(a) /\ y = Tail(b) /\ e = Len(a)
      BY <3>1, <3>2, LenProperties
    <3>4. ASSUME NEW j \in 1..(e - 1)
          PROVE  y[j] = x[j]
      <4>1. PICK f \in 1..e : f = j + 1 /\ f # 1
        <5>1. j + 1 \in 1..e /\ j + 1 # 1
          OBVIOUS
        <5> QED
          BY <5>1
      <4>2. y[j] = b[f] /\ x[j] = a[f]
        BY <4>1, <3>1, <3>2, <3>3, <2>4
      <4> QED
        BY <4>1, <4>2, <3>3, <2>4
    <3>5. Len(x) = Len(y) /\ \A j \in 1..Len(y) : y[j] = x[j]
      BY <3>1, <3>2, <3>3, <3>4, <2>4
    <3> QED
      BY <3>3, <3>5, SeqEqual
  <2>7. Joined(b) = b[1].data \o Joined(Tail(b))
    BY <2>4, JoinedHead
  <2> QED
    BY <2>1, <2>3, <2>4, <2>6, <2>7, <1>7, <1>12
<1> QED
  BY <1>a, <1>b, <1>c, <1>6, <1>8, <1>12, <1>13

-----------------------------------------------------------------------------
(***************************************************************************)
(* Drop.  In every turn bytes C = D \o Joined of the list, of which D are  *)
(* gone, and the turns left are enough for the bytes that are left.        *)
(***************************************************************************)
Dropped(C, bufs, k) ==
    \E D \in Seq(Nat) : Len(D) = k /\ C = D \o Joined(bufs)

DropStates(C, limits, z, n, i) ==
    {s \in [list : List, left : 0..(n - i)] :
        /\ Shape(s.list)
        /\ s.list.limits = limits
        /\ s.list.data_bytes = z
        /\ Dropped(C, s.list.bufs, n - s.left)}

\* One turn of the loop of ustream_consume.
LEMMA DropStepFacts ==
    ASSUME NEW C \in Seq(Nat), NEW limits, NEW z \in Int, NEW n \in Nat,
           n <= Len(C), NEW i \in 1..n, NEW s \in DropStates(C, limits, z, n, i - 1)
    PROVE  DropStep(s) \in DropStates(C, limits, z, n, i)
<1>1. PICK l \in List, v \in Nat : l = s.list /\ v = s.left /\ v <= n - (i - 1)
  BY DEF DropStates
<1>2. /\ s = [list |-> l, left |-> v]
      /\ Shape(l) /\ l.limits = limits /\ l.data_bytes = z
      /\ Dropped(C, l.bufs, n - v)
  BY <1>1 DEF DropStates
<1>3. PICK D \in Seq(Nat) : Len(D) = n - v /\ C = D \o Joined(l.bufs)
  BY <1>2 DEF Dropped
<1>4. PICK J \in Seq(Nat) : J = Joined(l.bufs)
  <2>1. l.bufs \in Seq(Buffer)
    BY ListFields
  <2>2. Joined(l.bufs) \in Seq(Nat)
    BY <2>1, JoinedConcat
  <2> QED
    BY <2>2
<1>5. v <= Len(J)
  <2>1. Len(C) = Len(D) + Len(J)
    BY <1>3, <1>4, ConcatProperties
  <2>2. Len(C) \in Nat /\ Len(J) \in Nat
    BY LenProperties
  <2> QED
    BY <2>1, <2>2, <1>3
<1>6. ASSUME NEW m \in List, NEW u \in 0..(n - i), Shape(m), m.limits = limits,
             m.data_bytes = z, Dropped(C, m.bufs, n - u)
      PROVE  [list |-> m, left |-> u] \in DropStates(C, limits, z, n, i)
  BY <1>6 DEF DropStates
<1>7. CASE v = 0
  <2>1. DropStep(s) = s
    BY <1>1, <1>7 DEF DropStep
  <2>2. 0 \in 0..(n - i)
    OBVIOUS
  <2>3. [list |-> l, left |-> 0] \in DropStates(C, limits, z, n, i)
    BY <2>2, <1>2, <1>6, <1>7
  <2> QED
    BY <2>1, <2>3, <1>2, <1>7
<1>8. CASE v # 0
  <2>1. J # <<>>
    BY <1>5, <1>8
  <2>2. l.bufs # <<>>
    BY <2>1, <1>4, JoinedEmpty
  <2>3. PICK h \in Buffer : h = l.bufs[1] /\ 1 \in 1..Len(l.bufs)
    <3>1. l.bufs \in Seq(Buffer)
      BY ListFields
    <3>2. 1 \in 1..Len(l.bufs)
      BY <3>1, <2>2
    <3>3. l.bufs[1] \in Buffer
      BY <3>1, <3>2, ElementOfSeq
    <3> QED
      BY <3>2, <3>3
  <2>4. PICK T \in Seq(Nat) : /\ T = Joined(Tail(l.bufs))
                              /\ J = h.data \o T
    <3>1. PICK a \in Seq(Buffer) : a = l.bufs /\ a # <<>>
      BY <2>2, ListFields
    <3>2. Joined(a) = a[1].data \o Joined(Tail(a))
      BY <3>1, JoinedHead
    <3>3. Tail(a) \in Seq(Buffer)
      BY <3>1, HeadTailProperties
    <3>4. Joined(Tail(a)) \in Seq(Nat)
      BY <3>3, JoinedConcat
    <3> QED
      BY <3>1, <3>2, <3>4, <2>3, <1>4
  <2>5. PICK H \in Seq(Nat), k \in Nat : H = h.data /\ k = Len(H)
    BY BufferFields
  <2>6. /\ l.data_tail \in 1..Len(l.bufs)
        /\ \A j \in 1..Len(l.bufs) : BufferOK(l, j)
    BY SMTT(60), <1>2, <2>2, ListFields DEF Shape
  <2>7. CASE v < k
    <3>1. PICK A \in Seq(Nat), B \in Seq(Nat) :
             /\ B = SubSeq(H, v + 1, k) /\ Len(A) = v /\ H = A \o B
      <4>1. v \in 0..Len(H)
        BY <2>5, <2>7
      <4>2. \E a \in Seq(Nat), b \in Seq(Nat) :
               /\ a = SubSeq(H, 1, v) /\ b = SubSeq(H, v + 1, Len(H))
               /\ Len(a) = v /\ Len(b) = Len(H) - v /\ H = a \o b
        BY <4>1, SplitFacts
      <4> QED
        BY <4>2, <2>5
    <3>2. PICK m : m = Shorten(l, v)
      OBVIOUS
    <3>3. DropStep(s) = [list |-> m, left |-> 0]
      BY <3>2, <1>1, <1>8, <2>3, <2>5, <2>7 DEF DropStep, Shorten
    <3>4. /\ Shape(m) /\ m.data_bytes = z /\ m.limits = limits
          /\ Joined(m.bufs) = B \o T
      <4>1. H = l.bufs[1].data /\ v < Len(H) /\ B = SubSeq(H, v + 1, Len(H))
        BY <3>1, <2>3, <2>5, <2>7
      <4>2. /\ Shape(m) /\ m.data_bytes = l.data_bytes /\ m.limits = l.limits
            /\ Joined(m.bufs) = B \o Joined(Tail(l.bufs))
        <5>1. CanShorten(l, v)
          BY <4>1, <2>2, <1>2 DEF CanShorten
        <5> QED
          BY <5>1, <4>1, <3>2, ShortenFacts
      <4> QED
        BY <4>2, <2>4, <1>2
    <3>5. Dropped(C, m.bufs, n - 0)
      <4>1. D \o A \in Seq(Nat) /\ Len(D \o A) = n
        <5>1. D \o A \in Seq(Nat) /\ Len(D \o A) = Len(D) + Len(A)
          BY ConcatProperties
        <5>2. Len(D) = n - v /\ Len(A) = v
          BY <3>1, <1>3
        <5> QED
          BY <5>1, <5>2
      <4>2. C = D \o ((A \o B) \o T)
        BY <3>1, <2>4, <2>5, <1>3, <1>4
      <4>3. D \o ((A \o B) \o T) = (D \o A) \o (B \o T)
        <5>1. B \o T \in Seq(Nat)
          BY ConcatProperties
        <5>2. (A \o B) \o T = A \o (B \o T)
          <6>1. \A V \in Seq(Nat) : (A \o B) \o V = A \o (B \o V)
            BY Associative, Zenon
          <6> QED
            BY <6>1, Zenon
        <5>3. \A V \in Seq(Nat) : (D \o A) \o V = D \o (A \o V)
          BY Associative
        <5> QED
          BY <5>1, <5>2, <5>3, Zenon
      <4>4. n - 0 = n
        OBVIOUS
      <4>5. PICK E \in Seq(Nat) : E = D \o A
        BY <4>1
      <4>6. Len(E) = n - 0 /\ C = E \o Joined(m.bufs)
        BY <4>1, <4>2, <4>3, <4>4, <4>5, <3>4
      <4> QED
        BY <4>6 DEF Dropped
    <3>6. 0 \in 0..(n - i) /\ m \in List
      BY <3>4 DEF Shape
    <3>7. [list |-> m, left |-> 0] \in DropStates(C, limits, z, n, i)
      BY <3>4, <3>5, <3>6, <1>6
    <3> QED
      BY <3>3, <3>7
  <2>8. CASE ~ (v < k)
    <3>1. PICK m : m = ustream_free_buf(l)
      OBVIOUS
    <3>2. DropStep(s) = [list |-> m, left |-> v - k]
      BY <3>1, <1>1, <1>8, <2>3, <2>5, <2>8 DEF DropStep
    <3>3. /\ Shape(m) /\ Joined(m.bufs) = T /\ m.data_bytes = z
          /\ m.limits = limits
      BY <3>1, <2>2, <2>4, <1>2, FreeBufFacts
    <3>4. k > 0
      <4>1. SUFFICES ASSUME k = 0 PROVE FALSE
        OBVIOUS
      <4>2. h.data = <<>>
        BY <4>1, <2>5
      <4>3. ~ (1 < l.data_tail)
        BY <4>2, <2>3, <2>6 DEF BufferOK
      <4>4. l.data_tail = 1
        BY <4>3, <2>6, ListFields
      <4>5. ASSUME NEW j \in 1..Len(l.bufs)
            PROVE  l.bufs[j].data = <<>>
        <5>1. CASE j = 1
          BY <5>1, <4>2, <2>3
        <5>2. CASE j # 1
          <6>1. j > l.data_tail
            BY <5>2, <4>4
          <6> QED
            BY <6>1, <2>6, EmptyBufFacts DEF BufferOK
        <5> QED
          BY <5>1, <5>2
      <4>6. PICK a \in Seq(Buffer) : a = l.bufs
        BY ListFields
      <4>7. Joined(a) = <<>>
        BY <4>5, <4>6, JoinedNone
      <4> QED
        BY <4>6, <4>7, <2>1, <1>4
    <3>5. v - k \in 0..(n - i)
      <4>1. v <= n - (i - 1)
        BY <1>1
      <4> QED
        BY <4>1, <3>4, <2>8
    <3>6. Dropped(C, m.bufs, n - (v - k))
      <4>1. D \o H \in Seq(Nat) /\ Len(D \o H) = n - (v - k)
        <5>1. D \o H \in Seq(Nat) /\ Len(D \o H) = Len(D) + Len(H)
          BY ConcatProperties
        <5> QED
          BY <5>1, <2>5, <1>3
      <4>2. C = D \o (H \o T)
        BY <2>4, <2>5, <1>3, <1>4
      <4>3. D \o (H \o T) = (D \o H) \o T
        <5>1. \A V \in Seq(Nat) : (D \o H) \o V = D \o (H \o V)
          BY Associative, Zenon
        <5> QED
          BY <5>1, Zenon
      <4>4. PICK E \in Seq(Nat) : E = D \o H
        BY <4>1
      <4>5. Len(E) = n - (v - k) /\ C = E \o Joined(m.bufs)
        BY <4>1, <4>2, <4>3, <4>4, <3>3
      <4> QED
        BY <4>5 DEF Dropped
    <3>7. m \in List
      BY <3>3 DEF Shape
    <3>8. [list |-> m, left |-> v - k] \in DropStates(C, limits, z, n, i)
      BY <3>3, <3>5, <3>6, <3>7, <1>6
    <3> QED
      BY <3>2, <3>8
  <2> QED
    BY <2>7, <2>8
<1> QED
  BY <1>7, <1>8

\* The counter of bytes has no part in the shape of a list.
LEMMA CountFacts ==
    ASSUME NEW l, Shape(l), NEW z \in Int
    PROVE  /\ Shape([l EXCEPT !.data_bytes = z])
           /\ [l EXCEPT !.data_bytes = z].bufs = l.bufs
           /\ [l EXCEPT !.data_bytes = z].limits = l.limits
           /\ [l EXCEPT !.data_bytes = z].data_bytes = z
<1>1. PICK m : m = [l EXCEPT !.data_bytes = z]
  OBVIOUS
<1>2. l \in List
  BY DEF Shape
<1>3. m \in List
  BY <1>1, <1>2 DEF List
<1>4. /\ m.bufs = l.bufs /\ m.data_tail = l.data_tail /\ m.limits = l.limits
      /\ m.buffers = l.buffers /\ m.data_bytes = z
  BY <1>1, <1>2 DEF List
<1>5. \A i \in 1..Len(l.bufs) : BufferOK(m, i)
  BY <1>4 DEF Shape, BufferOK
<1>6. Shape(m)
  BY <1>3, <1>4, <1>5 DEF Shape
<1> QED
  BY <1>1, <1>4, <1>6

\* ustream_consume and ustream_write_pending: exactly n bytes go, from the
\* head.
LEMMA DropFacts ==
    ASSUME NEW l, ListOK(l), NEW n \in Nat, n <= l.data_bytes
    PROVE  /\ ListOK(Drop(l, n))
           /\ Drop(l, n).data_bytes = l.data_bytes - n
           /\ Drop(l, n).limits = l.limits
           /\ Dropped(Joined(l.bufs), Drop(l, n).bufs, n)
<1> DEFINE Eq(g) ==
             g = [i \in 0..n |->
                    IF i = 0
                    THEN [list |-> [l EXCEPT !.data_bytes = @ - n], left |-> n]
                    ELSE DropStep(g[i - 1])]
<1>1. Shape(l) /\ l \in List /\ l.bufs \in Seq(Buffer) /\ l.data_bytes \in Int
  BY ListFields DEF ListOK, Shape
<1>2. PICK C \in Seq(Nat), c \in Nat :
         C = Joined(l.bufs) /\ c = Len(C) /\ c = l.data_bytes /\ n <= c
  <2>1. Joined(l.bufs) \in Seq(Nat)
    BY <1>1, JoinedConcat
  <2>2. Len(Joined(l.bufs)) \in Nat
    BY <2>1, LenProperties
  <2> QED
    BY <2>1, <2>2 DEF ListOK
<1>3. PICK z \in Int : z = l.data_bytes - n /\ z = c - n
  BY <1>1, <1>2
<1>4. PICK lim : lim = l.limits
  OBVIOUS
<1>5. PICK k : k = [l EXCEPT !.data_bytes = @ - n]
  OBVIOUS
<1>6. /\ Shape(k) /\ k.bufs = l.bufs /\ k.limits = lim /\ k.data_bytes = z
      /\ k \in List
  <2>1. k = [l EXCEPT !.data_bytes = z]
    BY <1>1, <1>3, <1>5 DEF List
  <2>2. Shape(k) /\ k.bufs = l.bufs /\ k.limits = lim /\ k.data_bytes = z
    BY <2>1, <1>1, <1>4, CountFacts
  <2> QED
    BY <2>2 DEF Shape
<1>7. PICK x : x = [list |-> k, left |-> n]
  OBVIOUS
<1>8. PICK S : S = [i \in 0..n |-> DropStates(C, lim, z, n, i)]
  OBVIOUS
<1>9. x \in S[0]
  <2>1. Dropped(C, k.bufs, n - n)
    <3>1. <<>> \in Seq(Nat) /\ Len(<<>>) = n - n
      OBVIOUS
    <3>2. C = <<>> \o Joined(k.bufs)
      BY <1>2, <1>6, ConcatEmptySeq
    <3> QED
      BY <3>1, <3>2 DEF Dropped
  <2>2. n \in 0..(n - 0)
    OBVIOUS
  <2>3. x \in DropStates(C, lim, z, n, 0)
    BY <2>1, <2>2, <1>6, <1>7 DEF DropStates
  <2>4. 0 \in 0..n
    OBVIOUS
  <2> QED
    BY <2>3, <2>4, <1>8
<1>10. ASSUME NEW i \in 1..n, NEW s \in S[i - 1]
       PROVE  DropStep(s) \in S[i]
  <2>1. i \in 0..n /\ i - 1 \in 0..n
    OBVIOUS
  <2>2. s \in DropStates(C, lim, z, n, i - 1)
    BY <2>1, <1>8, <1>10
  <2>3. DropStep(s) \in DropStates(C, lim, z, n, i)
    BY <2>2, <1>2, DropStepFacts
  <2> QED
    BY <2>1, <2>3, <1>8
<1>11. PICK F : F = [i \in 1..n |-> [s \in S[i - 1] |-> DropStep(s)]]
  OBVIOUS
<1>12. PICK g : Loops(g, n, F, x)
  BY LoopExists
<1>13. g[0] = x /\ \A i \in 1..n : g[i] = F[i][g[i - 1]]
  BY <1>12 DEF Loops
<1>14. ASSUME NEW i \in 1..n, g[i - 1] \in S[i - 1]
       PROVE  g[i] = DropStep(g[i - 1]) /\ g[i] \in S[i]
  <2>1. g[i] = DropStep(g[i - 1])
    BY <1>11, <1>13, <1>14
  <2> QED
    BY <2>1, <1>10, <1>14
<1>15. \A i \in 0..n : g[i] \in S[i]
  BY <1>9, <1>13, <1>14, LoopInvariant
<1>16. Eq([i \in 0..n |-> g[i]])
  <2>1. PICK h : h = [i \in 0..n |-> g[i]]
    OBVIOUS
  <2>2. ASSUME NEW i \in 0..n
        PROVE  g[i] = IF i = 0 THEN x ELSE DropStep(h[i - 1])
    <3>1. CASE i = 0
      BY <3>1, <1>13
    <3>2. CASE i # 0
      <4>1. i \in 1..n /\ i - 1 \in 0..n
        BY <3>2
      <4>2. h[i - 1] = g[i - 1] /\ g[i] = DropStep(g[i - 1])
        BY <4>1, <2>1, <1>14, <1>15
      <4> QED
        BY <3>2, <4>2
    <3> QED
      BY <3>1, <3>2
  <2>3. h = [i \in 0..n |-> IF i = 0 THEN x ELSE DropStep(h[i - 1])]
    BY <2>1, <2>2
  <2> QED
    BY <2>1, <2>3, <1>5, <1>7
<1>17. PICK step : step = (CHOOSE h : Eq(h)) /\ Eq(step)
  BY <1>16
<1>18. Drop(l, n) = step[n].list
  BY <1>17 DEF Drop
<1>19. step = [i \in 0..n |-> IF i = 0 THEN x ELSE DropStep(step[i - 1])]
  BY <1>5, <1>7, <1>17
<1>20. step[0] = x /\ \A i \in 1..n : step[i] = DropStep(step[i - 1])
  <2>1. 0 \in 0..n /\ \A i \in 1..n : i \in 0..n /\ i # 0
    OBVIOUS
  <2> QED
    BY <2>1, <1>19
<1>21. \A i \in 0..n : step[i] \in S[i]
  <2>1. step[0] \in S[0]
    BY <1>9, <1>20
  <2>2. \A i \in 1..n : step[i - 1] \in S[i - 1] => step[i] \in S[i]
    BY <1>10, <1>20
  <2> QED
    BY <2>1, <2>2, LoopInvariant
<1>22. step[n] \in DropStates(C, lim, z, n, n)
  BY <1>8, <1>21
<1>23. PICK q \in List : /\ q = Drop(l, n) /\ Shape(q) /\ q.limits = lim
                         /\ q.data_bytes = z /\ Dropped(C, q.bufs, n)
  <2>1. /\ step[n].list \in List /\ Shape(step[n].list)
        /\ step[n].list.limits = lim /\ step[n].list.data_bytes = z
        /\ step[n].left \in 0..(n - n)
        /\ Dropped(C, step[n].list.bufs, n - step[n].left)
    BY <1>22 DEF DropStates
  <2>2. step[n].left = 0 /\ n - 0 = n
    BY <2>1
  <2> QED
    BY <2>1, <2>2, <1>18
<1>24. PICK D \in Seq(Nat) : Len(D) = n /\ C = D \o Joined(q.bufs)
  BY <1>23 DEF Dropped
<1>25. PICK J \in Seq(Nat) : J = Joined(q.bufs)
  BY <1>23, ListFields, JoinedConcat
<1>26. Len(C) = n + Len(J)
  BY <1>24, <1>25, ConcatProperties
<1>27. q.data_bytes = Len(J)
  <2>1. PICK j \in Nat : j = Len(J)
    BY LenProperties
  <2>2. c = n + j
    BY <2>1, <1>2, <1>26
  <2>3. z = j
    BY <2>2, <1>3
  <2> QED
    BY <2>1, <2>3, <1>23
<1>28. ListOK(q)
  BY <1>23, <1>25, <1>27 DEF ListOK
<1> QED
  BY <1>2, <1>3, <1>4, <1>23, <1>28

-----------------------------------------------------------------------------
(***************************************************************************)
(* ustream_write_buffered.  In every turn the bytes D that are gone from   *)
(* the data are behind the bytes C of the list.                            *)
(***************************************************************************)
Moved(C, data, s) ==
    \E D \in Seq(Nat) : data = D \o s.left /\ Joined(s.list.bufs) = C \o D

WriteStates(C, limits, data) ==
    {s \in [list : List, left : Seq(Nat)] :
        ListOK(s.list) /\ s.list.limits = limits /\ Moved(C, data, s)}

\* One turn of the loop of ustream_write_buffered.
LEMMA WriteStepFacts ==
    ASSUME NEW C \in Seq(Nat), NEW limits, NEW data \in Seq(Nat),
           NEW s \in WriteStates(C, limits, data)
    PROVE  WriteStep(s) \in WriteStates(C, limits, data)
<1>1. PICK l \in List, left \in Seq(Nat), len \in Nat :
         l = s.list /\ left = s.left /\ len = Len(left)
  BY LenProperties DEF WriteStates
<1>2. s = [list |-> l, left |-> left] /\ ListOK(l) /\ l.limits = limits
  BY <1>1 DEF WriteStates
<1>3. PICK D \in Seq(Nat) : data = D \o left /\ Joined(l.bufs) = C \o D
  BY <1>1 DEF WriteStates, Moved
<1>4. ASSUME NEW m \in List, NEW u \in Seq(Nat), ListOK(m), m.limits = limits,
             NEW E \in Seq(Nat), data = E \o u, Joined(m.bufs) = C \o E
      PROVE  [list |-> m, left |-> u] \in WriteStates(C, limits, data)
  BY <1>4 DEF WriteStates, Moved
<1>5. CASE left = <<>>
  BY <1>1, <1>5 DEF WriteStep
<1>6. CASE left # <<>> /\ ~CanPrepare(l, len)
  <2>1. PICK m : m = Compacted(l, len)
    OBVIOUS
  <2>2. WriteStep(s) = [list |-> m, left |-> left]
    BY <2>1, <1>1, <1>2, <1>6 DEF WriteStep
  <2>3. /\ Shape(m) /\ Joined(m.bufs) = Joined(l.bufs)
        /\ m.data_bytes = l.data_bytes /\ m.limits = l.limits
    BY <2>1, <1>2, CompactedFacts DEF ListOK
  <2>4. ListOK(m) /\ m \in List
    BY <2>3, <1>2 DEF ListOK, Shape
  <2>5. [list |-> m, left |-> left] \in WriteStates(C, limits, data)
    BY <2>3, <2>4, <1>2, <1>3, <1>4
  <2> QED
    BY <2>2, <2>5
<1>7. CASE left # <<>> /\ CanPrepare(l, len)
  <2>1. PICK p : p = ustream_prepare_buf(l, len)
    OBVIOUS
  <2>2. /\ Shape(p) /\ p.data_tail \in 1..Len(p.bufs)
        /\ RoomIn(p, p.bufs[p.data_tail]) \in Nat
        /\ Joined(p.bufs) = Joined(l.bufs)
        /\ p.data_bytes = l.data_bytes /\ p.limits = l.limits
    <3>1. Shape(l)
      BY <1>2 DEF ListOK
    <3> QED
      BY <3>1, <2>1, <1>7, PrepareFacts
  <2>3. PICK n \in 0..len : n = Smaller(RoomIn(p, p.bufs[p.data_tail]), len)
                            /\ n <= RoomIn(p, p.bufs[p.data_tail])
    <3>1. PICK room1 \in Nat : room1 = RoomIn(p, p.bufs[p.data_tail])
      BY <2>2
    <3>2. Smaller(room1, len) \in 0..len /\ Smaller(room1, len) <= room1
      BY DEF Smaller
    <3> QED
      BY <3>1, <3>2
  <2>4. PICK a \in Seq(Nat), b \in Seq(Nat) :
           /\ a = SubSeq(left, 1, n) /\ b = SubSeq(left, n + 1, len)
           /\ Len(a) = n /\ left = a \o b
    <3>1. n \in 0..Len(left)
      BY <1>1
    <3>2. \E a \in Seq(Nat), b \in Seq(Nat) :
             /\ a = SubSeq(left, 1, n) /\ b = SubSeq(left, n + 1, Len(left))
             /\ Len(a) = n /\ Len(b) = Len(left) - n /\ left = a \o b
      BY <3>1, SplitFacts
    <3> QED
      BY <3>2, <1>1
  <2>5. PICK m : m = Fill(p, a)
    OBVIOUS
  <2>6. WriteStep(s) = [list |-> m, left |-> b]
    BY <2>1, <2>3, <2>4, <2>5, <1>1, <1>7 DEF WriteStep
  <2>7. /\ Shape(m) /\ Joined(m.bufs) = Joined(p.bufs) \o a
        /\ m.data_bytes = p.data_bytes + n /\ m.limits = p.limits
    <3>1. Len(a) <= RoomIn(p, p.bufs[p.data_tail])
      BY <2>3, <2>4
    <3>2. /\ Shape(Fill(p, a)) /\ Joined(Fill(p, a).bufs) = Joined(p.bufs) \o a
          /\ Fill(p, a).data_bytes = p.data_bytes + Len(a)
          /\ Fill(p, a).limits = p.limits
      BY <3>1, <2>2, FillFacts
    <3> QED
      BY <3>2, <2>4, <2>5
  <2>8. PICK E \in Seq(Nat) : E = D \o a
    <3>1. D \o a \in Seq(Nat)
      BY ConcatProperties
    <3> QED
      BY <3>1
  <2>9. Joined(m.bufs) = C \o E
    <3>1. (C \o D) \o a = C \o (D \o a)
      <4>1. \A z \in Seq(Nat) : (C \o D) \o z = C \o (D \o z)
        BY Associative, Zenon
      <4> QED
        BY <4>1, Zenon
    <3> QED
      BY <3>1, <2>2, <2>7, <2>8, <1>3
  <2>10. data = E \o b
    <3>1. D \o (a \o b) = (D \o a) \o b
      <4>1. \A z \in Seq(Nat) : (D \o a) \o z = D \o (a \o z)
        BY Associative, Zenon
      <4> QED
        BY <4>1, Zenon
    <3> QED
      BY <3>1, <2>4, <2>8, <1>3
  <2>11. ListOK(m)
    <3>1. PICK J \in Seq(Nat) : J = Joined(p.bufs)
      <4>1. p.bufs \in Seq(Buffer)
        BY <2>2, ListFields DEF Shape
      <4> QED
        BY <4>1, JoinedConcat
    <3>2. Len(J \o a) = Len(J) + n
      <4>1. Len(J \o a) = Len(J) + Len(a)
        BY ConcatProperties
      <4> QED
        BY <4>1, <2>4
    <3>3. l.data_bytes = Len(J)
      BY <3>1, <2>2, <1>2 DEF ListOK
    <3> QED
      BY <3>1, <3>2, <3>3, <2>2, <2>7 DEF ListOK
  <2>12. m \in List /\ m.limits = limits
    BY <2>2, <2>7, <1>2 DEF Shape
  <2>13. [list |-> m, left |-> b] \in WriteStates(C, limits, data)
    BY <2>9, <2>10, <2>11, <2>12, <1>4
  <2> QED
    BY <2>6, <2>13
<1> QED
  BY <1>5, <1>6, <1>7

\* The list and what is left of the data are the list before and the data.
Wrote(l, data, buf) ==
    /\ ListOK(buf.list)
    /\ buf.list.limits = l.limits
    /\ buf.left \in Seq(Nat)
    /\ \E D \in Seq(Nat) : /\ data = D \o buf.left
                           /\ Joined(buf.list.bufs) = Joined(l.bufs) \o D

\* ustream_write_buffered: a front of the data is behind all other bytes, the
\* rest is left.
LEMMA WriteFacts ==
    ASSUME NEW l, ListOK(l), NEW data \in Seq(Nat)
    PROVE  Wrote(l, data, ustream_write_buffered(l, data))
<1> SUFFICES ASSUME NEW buf, buf = ustream_write_buffered(l, data)
             PROVE  /\ ListOK(buf.list)
                    /\ buf.list.limits = l.limits
                    /\ buf.left \in Seq(Nat)
                    /\ \E D \in Seq(Nat) :
                          /\ data = D \o buf.left
                          /\ Joined(buf.list.bufs) = Joined(l.bufs) \o D
  BY DEF Wrote
<1> DEFINE Eq(g) ==
             g = [i \in 0..Len(data) |->
                    IF i = 0 THEN [list |-> l, left |-> data]
                    ELSE WriteStep(g[i - 1])]
<1>1. l \in List /\ l.bufs \in Seq(Buffer)
  BY ListFields DEF ListOK, Shape
<1>2. PICK C \in Seq(Nat), n \in Nat : C = Joined(l.bufs) /\ n = Len(data)
  <2>1. Joined(l.bufs) \in Seq(Nat)
    BY <1>1, JoinedConcat
  <2> QED
    BY <2>1, LenProperties
<1>3. PICK x : x = [list |-> l, left |-> data]
  OBVIOUS
<1>4. PICK W : W = WriteStates(C, l.limits, data)
  OBVIOUS
<1>5. PICK S : S = [i \in 0..n |-> W]
  OBVIOUS
<1>6. x \in W
  <2>1. data = <<>> \o data
    BY ConcatEmptySeq
  <2>2. C = C \o <<>>
    BY ConcatEmptySeq
  <2>3. <<>> \in Seq(Nat)
    OBVIOUS
  <2>4. x.list = l /\ x.left = data
    BY <1>3
  <2>5. Moved(C, data, x)
    BY <2>1, <2>2, <2>3, <2>4, <1>2 DEF Moved
  <2>6. x \in [list : List, left : Seq(Nat)]
    BY <1>1, <1>3
  <2> QED
    BY <2>4, <2>5, <2>6, <1>4 DEF WriteStates
<1>7. \A s \in W : WriteStep(s) \in W
  BY <1>4, WriteStepFacts
<1>8. PICK F : F = [i \in 1..n |-> [s \in W |-> WriteStep(s)]]
  OBVIOUS
<1>9. PICK g : Loops(g, n, F, x)
  BY LoopExists
<1>10. g[0] = x /\ \A i \in 1..n : g[i] = F[i][g[i - 1]]
  BY <1>9 DEF Loops
<1>11. \A i \in 0..n : S[i] = W
  BY <1>5
<1>12. \A i \in 1..n : i \in 0..n /\ i - 1 \in 0..n
  OBVIOUS
<1>13. ASSUME NEW i \in 1..n, g[i - 1] \in W
       PROVE  g[i] = WriteStep(g[i - 1]) /\ g[i] \in W
  <2>1. g[i] = WriteStep(g[i - 1])
    BY <1>8, <1>10, <1>13
  <2> QED
    BY <2>1, <1>7, <1>13
<1>14. \A i \in 0..n : g[i] \in W
  <2>1. 0 \in 0..n
    OBVIOUS
  <2>2. g[0] \in S[0]
    BY <2>1, <1>6, <1>10, <1>11
  <2>3. \A i \in 1..n : g[i - 1] \in S[i - 1] => g[i] \in S[i]
    BY <1>11, <1>12, <1>13
  <2>4. \A i \in 0..n : g[i] \in S[i]
    BY <2>2, <2>3, LoopInvariant
  <2> QED
    BY <2>4, <1>11
<1>15. Eq([i \in 0..n |-> g[i]])
  <2>1. PICK h : h = [i \in 0..n |-> g[i]]
    OBVIOUS
  <2>2. ASSUME NEW i \in 0..n
        PROVE  g[i] = IF i = 0 THEN x ELSE WriteStep(h[i - 1])
    <3>1. CASE i = 0
      BY <3>1, <1>10
    <3>2. CASE i # 0
      <4>1. i \in 1..n /\ i - 1 \in 0..n
        BY <3>2
      <4>2. h[i - 1] = g[i - 1] /\ g[i] = WriteStep(g[i - 1])
        BY <4>1, <2>1, <1>13, <1>14
      <4> QED
        BY <3>2, <4>2
    <3> QED
      BY <3>1, <3>2
  <2>3. h = [i \in 0..n |-> IF i = 0 THEN x ELSE WriteStep(h[i - 1])]
    BY <2>1, <2>2
  <2> QED
    BY <2>1, <2>3, <1>2, <1>3
<1>16. PICK step : step = (CHOOSE h : Eq(h)) /\ Eq(step)
  BY <1>15
<1>17. buf = step[n]
  BY <1>2, <1>16 DEF ustream_write_buffered
<1>18. step = [i \in 0..n |-> IF i = 0 THEN x ELSE WriteStep(step[i - 1])]
  BY <1>2, <1>3, <1>16
<1>19. step[0] = x /\ \A i \in 1..n : step[i] = WriteStep(step[i - 1])
  <2>1. 0 \in 0..n /\ \A i \in 1..n : i \in 0..n /\ i # 0
    OBVIOUS
  <2> QED
    BY <2>1, <1>18
<1>20. step[n] \in W
  <2>1. 0 \in 0..n /\ n \in 0..n
    OBVIOUS
  <2>2. step[0] \in S[0]
    BY <2>1, <1>6, <1>11, <1>19
  <2>3. \A i \in 1..n : step[i - 1] \in S[i - 1] => step[i] \in S[i]
    BY <1>7, <1>11, <1>12, <1>19
  <2>4. \A i \in 0..n : step[i] \in S[i]
    BY <2>2, <2>3, LoopInvariant
  <2> QED
    BY <2>1, <2>4, <1>11
<1> QED
  BY <1>2, <1>4, <1>17, <1>20 DEF WriteStates, Moved

-----------------------------------------------------------------------------
(***************************************************************************)
(* The numbered bytes.                                                     *)
(***************************************************************************)
LEMMA BytesFacts ==
    ASSUME NEW a \in Nat, NEW b \in Nat, a <= b
    PROVE  /\ Bytes(a, b) \in Seq(Nat)
           /\ Len(Bytes(a, b)) = b - a
           /\ \A i \in 1..(b - a) : Bytes(a, b)[i] = a + i
<1>1. b - a \in Nat
  OBVIOUS
<1>2. Bytes(a, b) \in [1..(b - a) -> Nat]
  BY DEF Bytes
<1>3. Bytes(a, b) \in Seq(Nat) /\ Len(Bytes(a, b)) = b - a
  BY <1>1, <1>2, FunctionIsSeq
<1> QED
  BY <1>3 DEF Bytes

\* Consecutive numbers.
LEMMA BytesConcat ==
    ASSUME NEW a \in Nat, NEW b \in Nat, NEW c \in Nat, a <= b, b <= c
    PROVE  Bytes(a, b) \o Bytes(b, c) = Bytes(a, c)
<1>1. PICK m \in Nat, n \in Nat : m = b - a /\ n = c - b /\ c - a = m + n
  OBVIOUS
<1>2. PICK x \in Seq(Nat) : /\ x = Bytes(a, b) /\ Len(x) = m
                            /\ \A i \in 1..m : x[i] = a + i
  BY <1>1, BytesFacts
<1>3. PICK y \in Seq(Nat) : /\ y = Bytes(b, c) /\ Len(y) = n
                            /\ \A i \in 1..n : y[i] = b + i
  BY <1>1, BytesFacts
<1>4. PICK z \in Seq(Nat) : /\ z = Bytes(a, c) /\ Len(z) = m + n
                            /\ \A i \in 1..(m + n) : z[i] = a + i
  <2>1. a <= c
    OBVIOUS
  <2>2. /\ Bytes(a, c) \in Seq(Nat) /\ Len(Bytes(a, c)) = c - a
        /\ \A i \in 1..(c - a) : Bytes(a, c)[i] = a + i
    BY <2>1, BytesFacts
  <2> QED
    BY <2>2, <1>1
<1>5. PICK u \in Seq(Nat) :
         /\ u = x \o y /\ Len(u) = m + n
         /\ \A i \in 1..(m + n) : u[i] = IF i <= m THEN x[i] ELSE y[i - m]
  <2>1. /\ x \o y \in Seq(Nat) /\ Len(x \o y) = Len(x) + Len(y)
        /\ \A i \in 1..(Len(x) + Len(y)) :
              (x \o y)[i] = IF i <= Len(x) THEN x[i] ELSE y[i - Len(x)]
    BY ConcatProperties
  <2>2. PICK v \in Seq(Nat) : v = x \o y
    BY <2>1
  <2>3. /\ Len(v) = m + n
        /\ \A i \in 1..(m + n) : v[i] = IF i <= m THEN x[i] ELSE y[i - m]
    <3>1. Len(x) = m /\ Len(y) = n
      BY <1>2, <1>3
    <3> QED
      BY <2>1, <2>2, <3>1
  <2> QED
    BY <2>2, <2>3
<1>6. ASSUME NEW i \in 1..(m + n)
      PROVE  u[i] = a + i
  <2>1. CASE i <= m
    BY <2>1, <1>2, <1>5
  <2>2. CASE ~ (i <= m)
    <3>1. PICK j \in 1..n : j = i - m /\ b + j = a + i
      <4>1. i - m \in 1..n /\ b + (i - m) = a + i
        BY <2>2, <1>1
      <4> QED
        BY <4>1
    <3> QED
      BY <2>2, <3>1, <1>3, <1>5
  <2> QED
    BY <2>1, <2>2
<1>7. u = z
  <2>1. Len(u) = Len(z) /\ \A i \in 1..Len(u) : u[i] = z[i]
    BY <1>4, <1>5, <1>6
  <2> QED
    BY <2>1, SeqEqual
<1> QED
  BY <1>2, <1>3, <1>4, <1>5, <1>7

\* Whatever numbered bytes are split into is numbered likewise.
AreBytes(x, y, a, b) ==
    /\ x \in Seq(Nat) /\ y \in Seq(Nat)
    /\ a \in Nat /\ b \in Nat /\ a <= b
    /\ x \o y = Bytes(a, b)

\* The two parts of consecutive numbers are consecutive numbers.
LEMMA BytesSplit ==
    ASSUME NEW x, NEW y, NEW a, NEW b, AreBytes(x, y, a, b)
    PROVE  /\ Len(x) + Len(y) = b - a
           /\ x = Bytes(a, a + Len(x))
           /\ y = Bytes(a + Len(x), b)
<1> USE DEF AreBytes
<1>1. PICK z \in Seq(Nat) : /\ z = Bytes(a, b) /\ Len(z) = b - a
                            /\ \A i \in 1..(b - a) : z[i] = a + i
  BY BytesFacts
<1>2. PICK m \in Nat, n \in Nat : m = Len(x) /\ n = Len(y)
  BY LenProperties
<1>3. /\ Len(x \o y) = Len(x) + Len(y)
      /\ \A i \in 1..(Len(x) + Len(y)) :
            (x \o y)[i] = IF i <= Len(x) THEN x[i] ELSE y[i - Len(x)]
  BY ConcatProperties
<1>4. /\ b - a = m + n
      /\ \A i \in 1..(m + n) : z[i] = IF i <= m THEN x[i] ELSE y[i - m]
  BY <1>1, <1>2, <1>3
<1>5. \A i \in 1..m : x[i] = a + i
  <2>1. ASSUME NEW i \in 1..m
        PROVE  x[i] = a + i
    <3>1. i \in 1..(m + n) /\ i <= m
      OBVIOUS
    <3> QED
      BY <3>1, <1>1, <1>4
  <2> QED
    BY <2>1
<1>6. \A i \in 1..n : y[i] = a + m + i
  <2>1. ASSUME NEW i \in 1..n
        PROVE  y[i] = a + m + i
    <3>1. PICK j \in 1..(m + n) : j = m + i
      <4>1. m + i \in 1..(m + n)
        OBVIOUS
      <4> QED
        BY <4>1
    <3>2. ~ (j <= m) /\ j - m = i /\ a + j = a + m + i
      BY <3>1
    <3>3. z[j] = y[j - m] /\ z[j] = a + j
      BY <3>2, <1>1, <1>4
    <3> QED
      BY <3>2, <3>3
  <2> QED
    BY <2>1
<1>7. a + m \in Nat /\ a <= a + m /\ a + m <= b /\ a + m - a = m
      /\ b - (a + m) = n
  BY <1>4
<1>8. x = Bytes(a, a + m)
  <2>1. PICK u \in Seq(Nat) : /\ u = Bytes(a, a + m) /\ Len(u) = m
                              /\ \A i \in 1..m : u[i] = a + i
    <3>1. PICK e \in Nat : e = a + m /\ a <= e /\ e - a = m
      BY <1>7
    <3>2. /\ Bytes(a, e) \in Seq(Nat) /\ Len(Bytes(a, e)) = e - a
          /\ \A i \in 1..(e - a) : Bytes(a, e)[i] = a + i
      BY <3>1, BytesFacts
    <3> QED
      BY <3>1, <3>2
  <2>2. Len(x) = Len(u) /\ \A i \in 1..Len(x) : x[i] = u[i]
    BY <2>1, <1>2, <1>5
  <2> QED
    BY <2>1, <2>2, SeqEqual
<1>9. y = Bytes(a + m, b)
  <2>1. PICK u \in Seq(Nat) : /\ u = Bytes(a + m, b) /\ Len(u) = n
                              /\ \A i \in 1..n : u[i] = a + m + i
    <3>1. /\ Bytes(a + m, b) \in Seq(Nat) /\ Len(Bytes(a + m, b)) = b - (a + m)
          /\ \A i \in 1..(b - (a + m)) : Bytes(a + m, b)[i] = a + m + i
      BY <1>7, BytesFacts
    <3> QED
      BY <3>1, <1>7
  <2>2. Len(y) = Len(u) /\ \A i \in 1..Len(y) : y[i] = u[i]
    BY <2>1, <1>2, <1>6
  <2> QED
    BY <2>1, <2>2, SeqEqual
<1> QED
  BY <1>2, <1>4, <1>8, <1>9

-----------------------------------------------------------------------------
(***************************************************************************)
(* The inductive invariant.                                                *)
(***************************************************************************)
TypeOK ==
    /\ read_blocked \in SUBSET {"USER", "FULL"}
    /\ eof \in BOOLEAN /\ write_error \in BOOLEAN /\ state_change \in BOOLEAN
    /\ fd_error \in BOOLEAN /\ armed \in BOOLEAN
    /\ closed \in BOOLEAN /\ failed \in BOOLEAN
    /\ interest \in SUBSET {"READ", "WRITE"}
    /\ events \in SUBSET {"READ", "WRITE"}
    /\ pc \in {"idle", "read", "notify_read", "write", "notify_write",
               "written", "error", "freed"}
    /\ inbox \in Seq(Nat)
    /\ wr \in Nat /\ room \in Nat
    /\ sent \in Nat /\ got \in Nat /\ accepted \in Nat /\ taken \in Nat
    /\ told \in [eof : BOOLEAN, write_error : BOOLEAN, flushed : BOOLEAN]

Alive == pc # "freed"

\* After a write error the counters of the write list are not kept.
Lists == Alive => ListOK(r) /\ (~write_error => ListOK(w))

Order ==
    /\ got <= sent /\ taken <= accepted
    /\ Alive => /\ Joined(r.bufs) \o inbox = Bytes(got, sent)
                /\ ~write_error => Joined(w.bufs) = Bytes(taken, accepted)

\* A full list has data.
Blocked == Alive /\ "FULL" \in read_blocked => r.data_bytes > 0

\* What uloop is asked for is what the stream waits for.
Polled ==
    Alive => /\ "READ" \in interest <=> read_blocked = {} /\ ~eof
             /\ w.data_bytes # 0 /\ ~write_error => "WRITE" \in interest

\* An edge that is not reported any more is being handled.
ReadArmed ==
    Alive /\ read_blocked = {} /\ ~eof /\ (inbox # <<>> \/ closed \/ failed)
        => armed \/ (pc \in {"read", "notify_read"} /\ "READ" \in events)

WriteArmed ==
    Alive /\ w.data_bytes # 0 /\ ~write_error /\ room > 0
        => armed \/ (pc \in {"read", "notify_read", "write"}
                        /\ "WRITE" \in events)

\* ustream_write_pending still has to tell that it has emptied the list.
Told ==
    Alive => \/ state_change
             \/ /\ eof => told.eof
                /\ write_error => told.write_error
                /\ (eof /\ w.data_bytes = 0 /\ ~write_error)
                      => \/ told.flushed
                         \/ pc \in {"notify_write", "written"} /\ wr # 0

Inv ==
    /\ TypeOK /\ Lists /\ Order
    /\ Blocked /\ Polled /\ ReadArmed /\ WriteArmed /\ Told

\* ustream_fd_init establishes the invariant.
LEMMA InitInv ==
    ASSUME Init
    PROVE  Inv
<1>1. /\ ReadLimits[1] \in Nat /\ ReadLimits[2] \in Int
      /\ ReadLimits[3] \in Nat \ {0}
      /\ WriteLimits[1] \in Nat /\ WriteLimits[2] \in Int
      /\ WriteLimits[3] \in Nat \ {0} /\ SockRoom \in Nat
  BY StreamAssumption
<1>2. ListOK(r) /\ Joined(r.bufs) = <<>> /\ r.data_bytes = 0
  BY <1>1, NewListFacts DEF Init
<1>3. ListOK(w) /\ Joined(w.bufs) = <<>> /\ w.data_bytes = 0
  BY <1>1, NewListFacts DEF Init
<1>4. Bytes(0, 0) = <<>>
  BY DEF Bytes
<1>5. TypeOK
  <2>1. <<>> \in Seq(Nat)
    OBVIOUS
  <2>2. told \in [eof : BOOLEAN, write_error : BOOLEAN, flushed : BOOLEAN]
    BY DEF Init
  <2>3. interest \in SUBSET {"READ", "WRITE"} /\ events \in SUBSET {"READ", "WRITE"}
    BY DEF Init
  <2> QED
    BY <2>1, <2>2, <2>3, <1>1 DEF Init, TypeOK
<1>6. Order
  <2>1. inbox = <<>> /\ <<>> \o <<>> = <<>>
    BY DEF Init
  <2> QED
    BY <2>1, <1>2, <1>3, <1>4 DEF Init, Order
<1> QED
  BY <1>2, <1>3, <1>5, <1>6
     DEF Init, Inv, Lists, Blocked, Polled, ReadArmed, WriteArmed, Told

(***************************************************************************)
(* Steps that leave the bytes where they are.                              *)
(***************************************************************************)
LEMMA SameBytes ==
    ASSUME Lists, Order, r' = r, w' = w, inbox' = inbox,
           got' = got, sent' = sent, taken' = taken, accepted' = accepted,
           Alive' => Alive, write_error => write_error'
    PROVE  Lists' /\ Order'
<1>1. Lists'
  BY DEF Lists, Alive
<1>2. Order'
  BY DEF Order, Alive
<1> QED
  BY <1>1, <1>2

\* Inv is kept by ustream_poll.
LEMMA PollInv ==
    ASSUME Inv, ustream_poll
    PROVE  Inv'
<1> USE DEF buffers, state, poll, socket, uloop
<1>1. TypeOK'
  BY DEF Inv, TypeOK, ustream_poll
<1>2. Lists' /\ Order'
  BY SameBytes DEF Inv, ustream_poll, Alive
<1>3. Blocked' /\ Polled'
  BY DEF Inv, ustream_poll, Alive, Blocked, Polled
<1>4. ReadArmed' /\ WriteArmed'
  BY DEF Inv, ustream_poll, Alive, ReadArmed, WriteArmed
<1>5. Told'
  BY DEF Inv, ustream_poll, Alive, Told
<1> QED
  BY <1>1, <1>2, <1>3, <1>4, <1>5 DEF Inv

\* Inv is kept by ustream_free: nothing is promised after it.
LEMMA FreeInv ==
    ASSUME Inv, ustream_free
    PROVE  Inv'
<1> USE DEF buffers, state, poll, socket, uloop
<1>1. TypeOK'
  BY DEF Inv, TypeOK, ustream_free
<1>2. ~Alive'
  BY DEF ustream_free, Alive
<1>3. Order'
  BY <1>2 DEF Inv, Order, ustream_free
<1> QED
  BY <1>1, <1>2, <1>3
     DEF Inv, Lists, Blocked, Polled, ReadArmed, WriteArmed, Told

\* Inv is kept by ustream_uloop_cb: the edge it uses up is handled in this
\* poll.
LEMMA UloopCbInv ==
    ASSUME Inv, ustream_uloop_cb
    PROVE  Inv'
<1> USE DEF buffers, state, poll, socket, uloop
<1>1. TypeOK'
  BY DEF Inv, TypeOK, ustream_uloop_cb, Ready
<1>2. Lists' /\ Order'
  BY SameBytes DEF Inv, ustream_uloop_cb, Alive
<1>3. Blocked' /\ Polled'
  BY DEF Inv, ustream_uloop_cb, Alive, Blocked, Polled
<1>4. ReadArmed' /\ WriteArmed'
  BY DEF Inv, ustream_uloop_cb, Alive, ReadArmed, WriteArmed, Polled, Ready
<1>5. Told'
  BY DEF Inv, ustream_uloop_cb, Alive, Told
<1> QED
  BY <1>1, <1>2, <1>3, <1>4, <1>5 DEF Inv

\* A list with data has a buffer: ustream_fd_set_uloop looks at both.
LEMMA DataMeansBuffers ==
    ASSUME NEW l, ListOK(l), l.data_bytes # 0
    PROVE  l.bufs # <<>>
<1>1. l.bufs = <<>> => Len(Joined(l.bufs)) = 0
  BY JoinedEmpty
<1> QED
  BY <1>1 DEF ListOK

\* __ustream_set_read_blocked from the application.
LEMMA ReadBlockedInv ==
    ASSUME Inv, Alive, Lists', InApplication,
           IF (read_blocked' = {}) = (read_blocked = {}) THEN UNCHANGED uloop
           ELSE uloop_fd_add(Flags(read_blocked', eof', w', FALSE)),
           UNCHANGED <<w, state, poll, socket>>
    PROVE  /\ interest' \in SUBSET {"READ", "WRITE"}
           /\ armed' \in BOOLEAN /\ fd_error' \in BOOLEAN
           /\ Polled' /\ ReadArmed' /\ WriteArmed'
<1> USE DEF state, poll, socket, uloop
<1>1. w'.data_bytes # 0 /\ ~write_error' => w'.bufs # <<>>
  <2>1. w'.data_bytes # 0 /\ ~write_error' => ListOK(w')
    BY DEF Lists, Alive
  <2> QED
    BY <2>1, DataMeansBuffers
<1>2. CASE UNCHANGED uloop /\ (read_blocked' = {}) = (read_blocked = {})
  BY <1>2 DEF Inv, TypeOK, Alive, Polled, ReadArmed, WriteArmed
<1>3. CASE /\ (read_blocked' = {}) # (read_blocked = {})
           /\ uloop_fd_add(Flags(read_blocked', eof', w', FALSE))
  <2>1. /\ interest' \in SUBSET {"READ", "WRITE"}
        /\ armed' \in BOOLEAN /\ fd_error' \in BOOLEAN
    BY <1>3 DEF Inv, TypeOK, uloop_fd_add, Flags
  <2>2. "READ" \in interest' <=> read_blocked' = {} /\ ~eof'
    BY <1>3 DEF uloop_fd_add, Flags
  <2>3. w'.data_bytes # 0 /\ ~write_error' => "WRITE" \in interest'
    BY <1>1, <1>3 DEF uloop_fd_add, Flags
  <2>4. Polled'
    BY <2>2, <2>3 DEF Polled
  <2>5. interest' # {} => armed'
    BY <1>3 DEF uloop_fd_add
  <2>6. ReadArmed'
    BY <2>2, <2>5 DEF ReadArmed
  <2>7. WriteArmed'
    BY <2>3, <2>5 DEF WriteArmed
  <2> QED
    BY <2>1, <2>4, <2>6, <2>7
<1> QED
  BY <1>2, <1>3

\* Inv is kept by ustream_set_read_blocked: an unblocked stream is polled for
\* reading again.
LEMMA SetReadBlockedInv ==
    ASSUME Inv, NEW set \in BOOLEAN, ustream_set_read_blocked(set)
    PROVE  Inv'
<1> USE DEF buffers, state, poll, socket, uloop
<1>1. Alive /\ InApplication
  BY DEF ustream_set_read_blocked, InApplication, Alive
<1>2. Lists' /\ Order'
  BY SameBytes DEF Inv, ustream_set_read_blocked, Alive
<1>3. /\ read_blocked' \in SUBSET {"USER", "FULL"}
      /\ "FULL" \in read_blocked' => "FULL" \in read_blocked
  BY DEF Inv, TypeOK, ustream_set_read_blocked, SetReadBlocked
<1>4. /\ interest' \in SUBSET {"READ", "WRITE"}
      /\ armed' \in BOOLEAN /\ fd_error' \in BOOLEAN
      /\ Polled' /\ ReadArmed' /\ WriteArmed'
  <2>1. IF (read_blocked' = {}) = (read_blocked = {}) THEN UNCHANGED uloop
        ELSE uloop_fd_add(Flags(read_blocked', eof', w', FALSE))
    BY DEF ustream_set_read_blocked, SetReadBlocked
  <2>2. UNCHANGED <<w, state, poll, socket>>
    BY DEF ustream_set_read_blocked
  <2> QED
    BY <2>1, <2>2, <1>1, <1>2, ReadBlockedInv
<1>5. TypeOK'
  BY <1>3, <1>4 DEF Inv, TypeOK, ustream_set_read_blocked
<1>6. Blocked'
  BY <1>1, <1>3 DEF Inv, Blocked, Alive, ustream_set_read_blocked
<1>7. Told'
  BY DEF Inv, Told, Alive, ustream_set_read_blocked
<1> QED
  BY <1>2, <1>4, <1>5, <1>6, <1>7 DEF Inv

\* Inv is kept by ustream_write that fails.
LEMMA WriteFailsInv ==
    ASSUME Inv, WriteFails
    PROVE  Inv'
<1> USE DEF buffers, state, poll, socket, uloop
<1>1. TypeOK'
  BY DEF Inv, TypeOK, WriteFails, ustream_write_error
<1>2. Lists' /\ Order'
  BY SameBytes DEF Inv, WriteFails, ustream_write_error, Alive
<1>3. Blocked' /\ Polled'
  BY DEF Inv, WriteFails, ustream_write_error, Alive, Blocked, Polled
<1>4. ReadArmed' /\ WriteArmed'
  BY DEF Inv, WriteFails, ustream_write_error, Alive, ReadArmed, WriteArmed
<1>5. Told'
  BY DEF WriteFails, ustream_write_error, Told
<1> QED
  BY <1>1, <1>2, <1>3, <1>4, <1>5 DEF Inv

\* Inv is kept by ustream_state_change_cb: what it tells is what is the case.
LEMMA StateChangeInv ==
    ASSUME Inv, ustream_state_change_cb
    PROVE  Inv'
<1> USE DEF buffers, state, poll, socket, uloop
<1>1. TypeOK'
  BY DEF Inv, TypeOK, ustream_state_change_cb
<1>2. Alive /\ pc = "idle" /\ (write_error \/ w' = w) /\ r' = r
  BY DEF ustream_state_change_cb, Alive
<1>3. Lists'
  BY <1>2 DEF Inv, Lists, ustream_state_change_cb, Alive
<1>4. Order'
  BY <1>2 DEF Inv, Order, ustream_state_change_cb, Alive
<1>5. Blocked' /\ Polled'
  BY <1>2 DEF Inv, ustream_state_change_cb, Alive, Blocked, Polled
<1>6. ReadArmed' /\ WriteArmed'
  BY <1>2 DEF Inv, ustream_state_change_cb, Alive, ReadArmed, WriteArmed
<1>7. Told'
  BY <1>2 DEF ustream_state_change_cb, Told
<1> QED
  BY <1>1, <1>3, <1>4, <1>5, <1>6, <1>7 DEF Inv

\* Inv is kept by __ustream_fd_poll without ustream_write_pending.
LEMMA WriteEndsInv ==
    ASSUME Inv, WriteEnds
    PROVE  Inv'
<1> USE DEF buffers, state, poll, socket, uloop
<1>1. TypeOK'
  BY DEF Inv, TypeOK, WriteEnds
<1>2. Lists' /\ Order'
  BY SameBytes DEF Inv, WriteEnds, Alive
<1>3. Blocked' /\ Polled'
  BY DEF Inv, WriteEnds, Alive, Blocked, Polled
<1>4. ReadArmed' /\ WriteArmed'
  BY DEF Inv, WriteEnds, Alive, ReadArmed, WriteArmed
<1>5. Told'
  BY DEF Inv, WriteEnds, Alive, Told
<1> QED
  BY <1>1, <1>2, <1>3, <1>4, <1>5 DEF Inv

\* Inv is kept by ustream_write_pending that fails.
LEMMA WritePendingFailsInv ==
    ASSUME Inv, WritePendingFails
    PROVE  Inv'
<1> USE DEF buffers, state, poll, socket, uloop
<1>1. TypeOK'
  BY DEF Inv, TypeOK, WritePendingFails, ustream_write_error
<1>2. Lists' /\ Order'
  BY SameBytes DEF Inv, WritePendingFails, ustream_write_error, Alive
<1>3. Blocked' /\ Polled'
  BY DEF Inv, WritePendingFails, ustream_write_error, Alive, Blocked, Polled
<1>4. ReadArmed' /\ WriteArmed'
  BY DEF Inv, WritePendingFails, ustream_write_error, Alive, ReadArmed,
         WriteArmed
<1>5. Told'
  BY DEF WritePendingFails, ustream_write_error, Told
<1> QED
  BY <1>1, <1>2, <1>3, <1>4, <1>5 DEF Inv

\* Inv is kept by the return of notify_read or notify_write.
LEMMA NotifyReturnsInv ==
    ASSUME Inv, NotifyReturns
    PROVE  Inv'
<1> USE DEF buffers, state, poll, socket, uloop
<1>1. TypeOK'
  BY DEF Inv, TypeOK, NotifyReturns
<1>2. Lists' /\ Order'
  BY SameBytes DEF Inv, NotifyReturns, Alive
<1>3. Blocked' /\ Polled'
  BY DEF Inv, NotifyReturns, Alive, Blocked, Polled
<1>4. ReadArmed' /\ WriteArmed'
  BY DEF Inv, NotifyReturns, Alive, ReadArmed, WriteArmed
<1>5. Told'
  BY DEF Inv, NotifyReturns, Alive, Told
<1> QED
  BY <1>1, <1>2, <1>3, <1>4, <1>5 DEF Inv

\* Inv is kept by the end of ustream_write_pending: an emptied list is
\* reported after eof.
LEMMA WrittenInv ==
    ASSUME Inv, Written
    PROVE  Inv'
<1> USE DEF buffers, state, poll, socket, uloop
<1>1. TypeOK'
  BY DEF Inv, TypeOK, Written, FlushedAfterEof, uloop_fd_add, Flags
<1>2. Lists' /\ Order'
  BY SameBytes DEF Inv, Written, Alive
<1>3. Blocked'
  BY DEF Inv, Written, Alive, Blocked
<1>4. Polled'
  BY DEF Inv, Written, Alive, Polled, uloop_fd_add, Flags
<1>5. ReadArmed' /\ WriteArmed'
  BY DEF Inv, Written, Alive, ReadArmed, WriteArmed, uloop_fd_add
<1>6. Told'
  BY DEF Inv, Written, Alive, Told, FlushedAfterEof
<1> QED
  BY <1>1, <1>2, <1>3, <1>4, <1>5, <1>6 DEF Inv

\* Inv is kept by the end of __ustream_fd_poll.
LEMMA PollEndsInv ==
    ASSUME Inv, PollEnds
    PROVE  Inv'
<1> USE DEF buffers, state, poll, socket, uloop
<1>1. TypeOK'
  <2>1. /\ interest' \in SUBSET {"READ", "WRITE"}
        /\ armed' \in BOOLEAN /\ fd_error' \in BOOLEAN
        /\ state_change' \in BOOLEAN /\ write_error' \in BOOLEAN
    BY DEF Inv, TypeOK, PollEnds, ustream_write_error, uloop_fd_add, Flags
  <2>2. events' \in SUBSET {"READ", "WRITE"} /\ pc' = "idle"
    BY DEF PollEnds
  <2> QED
    BY <2>1, <2>2 DEF Inv, TypeOK, PollEnds
<1>2. Lists' /\ Order'
  BY SameBytes DEF Inv, PollEnds, ustream_write_error, Alive
<1>3. Blocked'
  BY DEF Inv, PollEnds, Alive, Blocked
<1>4. Polled'
  BY DEF Inv, PollEnds, Alive, Polled, ustream_write_error, uloop_fd_add, Flags
<1>5. ReadArmed' /\ WriteArmed'
  BY DEF Inv, PollEnds, Alive, ReadArmed, WriteArmed, ustream_write_error,
         uloop_fd_add
<1>6. Told'
  BY DEF Inv, PollEnds, Alive, Told, ustream_write_error
<1> QED
  BY <1>1, <1>2, <1>3, <1>4, <1>5, <1>6 DEF Inv

\* Inv is kept by bytes that arrive: an edge.
LEMMA PeerSendsInv ==
    ASSUME Inv, PeerSends
    PROVE  Inv'
<1> USE DEF buffers, state, poll, socket, uloop
<1>1. inbox \in Seq(Nat) /\ sent \in Nat /\ got \in Nat /\ got <= sent
  BY DEF Inv, TypeOK, Order
<1>2. PICK c \in Nat : c = sent + 1
  BY <1>1
<1>3. Append(inbox, c) \in Seq(Nat) /\ Append(inbox, c) = inbox \o <<c>>
  BY <1>1, AppendProperties, AppendIsConcat
<1>4. TypeOK'
  BY <1>1, <1>2, <1>3 DEF Inv, TypeOK, PeerSends
<1>5. Lists'
  BY DEF Inv, Lists, PeerSends, Alive
<1>6. Order'
  <2>1. /\ got' <= sent' /\ taken' <= accepted'
    BY <1>1 DEF Inv, Order, PeerSends
  <2>2. ASSUME Alive
        PROVE  Joined(r.bufs) \o Append(inbox, c) = Bytes(got, c)
    <3>1. Joined(r.bufs) \in Seq(Nat)
      BY <2>2, ListFields, JoinedConcat DEF Inv, Lists, ListOK, Shape
    <3>2. PICK J \in Seq(Nat), x \in Seq(Nat), y \in Seq(Nat) :
             J = Joined(r.bufs) /\ x = inbox /\ y = <<c>>
      <4>1. <<c>> \in Seq(Nat)
        OBVIOUS
      <4> QED
        BY <4>1, <3>1, <1>1
    <3>3. (J \o x) \o y = J \o (x \o y)
      BY Associative
    <3>4. J \o x = Bytes(got, sent)
      BY <2>2, <3>2 DEF Inv, Order
    <3>5. Bytes(sent, c) = y
      <4>1. c - sent = 1 /\ sent + 1 = c
        BY <1>1, <1>2
      <4>2. Bytes(sent, c) = [i \in 1..1 |-> sent + i]
        BY <4>1 DEF Bytes
      <4> QED
        BY <4>1, <4>2, <3>2
    <3>6. Bytes(got, sent) \o Bytes(sent, c) = Bytes(got, c)
      <4>1. sent <= c
        BY <1>1, <1>2
      <4> QED
        BY <4>1, <1>1, BytesConcat
    <3> QED
      BY <3>2, <3>3, <3>4, <3>5, <3>6, <1>3
  <2> QED
    BY <2>1, <2>2, <1>2 DEF Inv, Order, PeerSends, Alive
<1>7. Blocked' /\ Polled'
  BY DEF Inv, PeerSends, Alive, Blocked, Polled
<1>8. ReadArmed' /\ WriteArmed'
  BY DEF PeerSends, ReadArmed, WriteArmed
<1>9. Told'
  BY DEF Inv, PeerSends, Alive, Told
<1> QED
  BY <1>4, <1>5, <1>6, <1>7, <1>8, <1>9 DEF Inv

\* Inv is kept by the end of the stream arrives: an edge.
LEMMA PeerClosesInv ==
    ASSUME Inv, PeerCloses
    PROVE  Inv'
<1> USE DEF buffers, state, poll, socket, uloop
<1>1. TypeOK'
  BY DEF Inv, TypeOK, PeerCloses
<1>2. Lists' /\ Order'
  BY SameBytes DEF Inv, PeerCloses, Alive
<1>3. Blocked' /\ Polled'
  BY DEF Inv, PeerCloses, Alive, Blocked, Polled
<1>4. ReadArmed' /\ WriteArmed'
  BY DEF PeerCloses, ReadArmed, WriteArmed
<1>5. Told'
  BY DEF Inv, PeerCloses, Alive, Told
<1> QED
  BY <1>1, <1>2, <1>3, <1>4, <1>5 DEF Inv

\* Inv is kept by room in the socket: an edge.
LEMMA PeerReadsInv ==
    ASSUME Inv, PeerReads
    PROVE  Inv'
<1> USE DEF buffers, state, poll, socket, uloop
<1>1. room' \in Nat
  BY StreamAssumption DEF Inv, TypeOK, PeerReads
<1>2. TypeOK'
  BY <1>1 DEF Inv, TypeOK, PeerReads
<1>3. Lists' /\ Order'
  BY SameBytes DEF Inv, PeerReads, Alive
<1>4. Blocked' /\ Polled'
  BY DEF Inv, PeerReads, Alive, Blocked, Polled
<1>5. ReadArmed' /\ WriteArmed'
  BY DEF PeerReads, ReadArmed, WriteArmed
<1>6. Told'
  BY DEF Inv, PeerReads, Alive, Told
<1> QED
  BY <1>2, <1>3, <1>4, <1>5, <1>6 DEF Inv

\* Inv is kept by an error of the socket: an edge.
LEMMA SocketFailsInv ==
    ASSUME Inv, SocketFails
    PROVE  Inv'
<1> USE DEF buffers, state, poll, socket, uloop
<1>1. TypeOK'
  BY DEF Inv, TypeOK, SocketFails
<1>2. Lists' /\ Order'
  BY SameBytes DEF Inv, SocketFails, Alive
<1>3. Blocked' /\ Polled'
  BY DEF Inv, SocketFails, Alive, Blocked, Polled
<1>4. ReadArmed' /\ WriteArmed'
  BY DEF SocketFails, ReadArmed, WriteArmed
<1>5. Told'
  BY DEF Inv, SocketFails, Alive, Told
<1> QED
  BY <1>1, <1>2, <1>3, <1>4, <1>5 DEF Inv

\* What ustream_prepare_buf does to a list that is in order.
LEMMA PreparedOK ==
    ASSUME NEW l, ListOK(l), NEW len, CanPrepare(l, len),
           NEW p, p = ustream_prepare_buf(l, len)
    PROVE  /\ ListOK(p)
           /\ Joined(p.bufs) = Joined(l.bufs)
           /\ p.data_bytes = l.data_bytes
<1>1. Shape(l)
  BY DEF ListOK
<1>2. /\ Shape(p) /\ Joined(p.bufs) = Joined(l.bufs)
      /\ p.data_bytes = l.data_bytes
  BY <1>1, PrepareFacts
<1> QED
  BY <1>2 DEF ListOK

\* Steps that move no bytes between buffers, but the buffers perhaps.
LEMMA SameJoined ==
    ASSUME Lists, Order, Alive, ListOK(r'), Joined(r'.bufs) = Joined(r.bufs),
           w' = w, inbox' = inbox, write_error' = write_error,
           got' = got, sent' = sent, taken' = taken, accepted' = accepted
    PROVE  Lists' /\ Order'
<1>1. Lists'
  BY DEF Lists
<1>2. Order'
  BY DEF Order
<1> QED
  BY <1>1, <1>2

\* Inv is kept by the end of the loop of ustream_fd_read_pending.
LEMMA ReadEndsInv ==
    ASSUME Inv, ReadEnds
    PROVE  Inv'
<1> USE DEF buffers, state, poll, socket, uloop
<1>1. Alive /\ ListOK(r)
  BY DEF Inv, Lists, Alive, ReadEnds
<1>2. ListOK(r') /\ Joined(r'.bufs) = Joined(r.bufs)
         /\ r'.data_bytes = r.data_bytes
  <2>1. CASE r' = r
    BY <2>1, <1>1
  <2>2. CASE CanPrepare(r, 1) /\ r' = ustream_prepare_buf(r, 1)
    BY <2>2, <1>1, PreparedOK
  <2> QED
    BY <2>1, <2>2 DEF ReadEnds
<1>3. Lists' /\ Order'
  BY <1>1, <1>2, SameJoined DEF Inv, ReadEnds
<1>4. TypeOK'
  BY DEF Inv, TypeOK, ReadEnds
<1>5. Blocked' /\ Polled'
  BY <1>1, <1>2 DEF Inv, ReadEnds, Blocked, Polled
<1>6. ReadArmed' /\ WriteArmed'
  BY <1>1 DEF Inv, ReadEnds, ReadArmed, WriteArmed
<1>7. Told'
  BY <1>1 DEF Inv, ReadEnds, Told
<1> QED
  BY <1>3, <1>4, <1>5, <1>6, <1>7 DEF Inv

\* A list without room for a byte has data.
LEMMA FullFacts ==
    ASSUME NEW l, ListOK(l), NEW len, ~CanPrepare(l, len),
           NEW m, m = Compacted(l, len)
    PROVE  /\ ListOK(m) /\ Joined(m.bufs) = Joined(l.bufs)
           /\ m.data_bytes > 0
<1>1. Shape(l) /\ l.data_bytes = Len(Joined(l.bufs))
  BY DEF ListOK
<1>2. /\ Shape(m) /\ Len(m.bufs) = Len(l.bufs)
      /\ Joined(m.bufs) = Joined(l.bufs) /\ m.data_bytes = l.data_bytes
      /\ m.data_tail = l.data_tail /\ m.limits = l.limits
      /\ m.buffers = l.buffers
  BY <1>1, CompactedFacts
<1>3. ListOK(m)
  BY <1>1, <1>2 DEF ListOK
<1>4. ~HasRoom(m) /\ ~ustream_can_alloc(m)
  BY DEF CanPrepare
<1>5. m \in List /\ m.buffers = Len(m.bufs) /\ (m.data_tail = 0 => m.bufs = <<>>)
      /\ m.data_tail \in 0..Len(m.bufs)
  BY <1>2 DEF Shape
<1>6. m.data_tail # 0
  <2>1. m.limits.max_buffers > 0 /\ m.buffers >= m.limits.max_buffers
    <3>1. m.limits.max_buffers \in Int /\ m.buffers \in Int
      BY <1>5, ListFields
    <3> QED
      BY <3>1, <1>4 DEF ustream_can_alloc
  <2>2. m.data_tail = 0 => Len(m.bufs) = 0
    BY <1>5
  <2>3. m.limits.max_buffers \in Int
    BY <1>5, ListFields
  <2> QED
    BY <2>1, <2>2, <2>3, <1>5
<1>7. l.data_tail \in 1..Len(l.bufs)
  <2>1. Len(m.bufs) \in Nat
    BY <1>5, ListFields
  <2> QED
    BY <2>1, <1>2, <1>5, <1>6
<1>8. l.bufs[l.data_tail].data # <<>>
  BY <1>1, <1>2, <1>4, <1>6, FullHasData
<1>9. PICK a \in Seq(Buffer) : a = l.bufs
  <2>1. l.bufs \in Seq(Buffer)
    BY <1>1, ListFields DEF Shape
  <2> QED
    BY <2>1
<1>10. Len(Joined(a)) > 0
  <2>1. PICK k \in 1..Len(a) : k = l.data_tail
    BY <1>7, <1>9
  <2> QED
    BY <2>1, <1>8, <1>9, JoinedSome
<1> QED
  BY <1>1, <1>2, <1>3, <1>9, <1>10

\* Inv is kept by no room to read: there is data that will be consumed.
LEMMA ReadFullInv ==
    ASSUME Inv, ReadFull
    PROVE  Inv'
<1> USE DEF buffers, state, poll, socket, uloop
<1>1. Alive /\ ListOK(r)
  BY DEF Inv, Lists, Alive, ReadFull
<1>2. ListOK(r') /\ Joined(r'.bufs) = Joined(r.bufs) /\ r'.data_bytes > 0
  BY <1>1, FullFacts DEF ReadFull
<1>3. Lists' /\ Order'
  BY <1>1, <1>2, SameJoined DEF Inv, ReadFull
<1>4. /\ read_blocked' = {"FULL"}
      /\ uloop_fd_add(Flags({"FULL"}, eof', w', FALSE))
  BY DEF ReadFull, SetReadBlocked
<1>5. TypeOK'
  BY <1>4 DEF Inv, TypeOK, ReadFull, uloop_fd_add, Flags
<1>6. Blocked'
  BY <1>2 DEF Blocked
<1>7. w'.data_bytes # 0 /\ ~write_error' => w'.bufs # <<>>
  <2>1. w'.data_bytes # 0 /\ ~write_error' => ListOK(w')
    BY <1>1 DEF Inv, Lists, ReadFull
  <2> QED
    BY <2>1, DataMeansBuffers
<1>8. Polled'
  BY <1>4, <1>7 DEF Polled, uloop_fd_add, Flags
<1>9. ReadArmed'
  BY <1>4 DEF ReadArmed
<1>10. WriteArmed'
  BY <1>1, <1>4, <1>7, <1>8 DEF Inv, ReadFull, WriteArmed, Polled, uloop_fd_add
<1>11. Told'
  BY <1>1 DEF Inv, ReadFull, Told
<1> QED
  BY <1>3, <1>5, <1>6, <1>8, <1>9, <1>10, <1>11 DEF Inv

\* data_bytes counts the bytes of a list that is in order.
LEMMA JoinedFields ==
    ASSUME NEW l, ListOK(l)
    PROVE  /\ Joined(l.bufs) \in Seq(Nat)
           /\ l.data_bytes \in Nat /\ l.data_bytes = Len(Joined(l.bufs))
<1>1. l.bufs \in Seq(Buffer)
  BY ListFields DEF ListOK, Shape
<1>2. Joined(l.bufs) \in Seq(Nat)
  BY <1>1, JoinedConcat
<1>3. Len(Joined(l.bufs)) \in Nat
  BY <1>2, LenProperties
<1> QED
  BY <1>2, <1>3 DEF ListOK

\* Data behind the data of a list, in the buffer that was prepared for it.
LEMMA FilledOK ==
    ASSUME NEW l, ListOK(l), NEW len, CanPrepare(l, len),
           NEW p, p = ustream_prepare_buf(l, len), NEW d \in Seq(Nat),
           Len(d) <= RoomIn(p, p.bufs[p.data_tail])
    PROVE  /\ ListOK(Fill(p, d))
           /\ Joined(Fill(p, d).bufs) = Joined(l.bufs) \o d
           /\ Fill(p, d).data_bytes = l.data_bytes + Len(d)
<1>1. Shape(l)
  BY DEF ListOK
<1>2. /\ Shape(p) /\ p.data_tail \in 1..Len(p.bufs)
      /\ Joined(p.bufs) = Joined(l.bufs) /\ p.data_bytes = l.data_bytes
  BY <1>1, PrepareFacts
<1>3. /\ Shape(Fill(p, d)) /\ Joined(Fill(p, d).bufs) = Joined(p.bufs) \o d
      /\ Fill(p, d).data_bytes = p.data_bytes + Len(d)
  BY <1>2, FillFacts
<1>4. Joined(l.bufs) \in Seq(Nat) /\ l.data_bytes = Len(Joined(l.bufs))
  BY JoinedFields
<1>5. Len(Joined(l.bufs) \o d) = Len(Joined(l.bufs)) + Len(d)
  BY <1>4, ConcatProperties
<1> QED
  BY <1>2, <1>3, <1>4, <1>5 DEF ListOK

\* What read() can put into the list p that is prepared from l.
CanRead(l, p, x, n) ==
    /\ ListOK(l) /\ CanPrepare(l, 1) /\ x \in Seq(Nat)
    /\ p = ustream_prepare_buf(l, 1)
    /\ n = Smaller(Len(x), RoomIn(p, p.bufs[p.data_tail]))

\* What they are afterwards: the front of x is in p.
DidRead(l, p, x, n) ==
    \E a \in Seq(Nat), b \in Seq(Nat) :
        /\ a = SubSeq(x, 1, n) /\ b = SubSeq(x, n + 1, Len(x))
        /\ x = a \o b
        /\ ListOK(Fill(p, a))
        /\ Joined(Fill(p, a).bufs) = Joined(l.bufs) \o a

\* ustream_fill_read: bytes move from the socket to the end of the list.
LEMMA ReadFacts ==
    ASSUME NEW l, NEW p, NEW x, NEW n, CanRead(l, p, x, n)
    PROVE  DidRead(l, p, x, n)
<1> USE DEF CanRead
<1>1. PICK room1 \in Nat : room1 = RoomIn(p, p.bufs[p.data_tail])
  <2>1. Shape(l)
    BY DEF ListOK
  <2> QED
    BY <2>1, PrepareFacts
<1>2. PICK m \in Nat : m = Len(x)
  BY LenProperties
<1>3. n \in 0..m /\ n <= room1
  BY <1>1, <1>2 DEF Smaller
<1>4. n \in 0..Len(x)
  BY <1>2, <1>3
<1>5. PICK a \in Seq(Nat), b \in Seq(Nat) :
         /\ a = SubSeq(x, 1, n) /\ b = SubSeq(x, n + 1, Len(x))
         /\ Len(a) = n /\ x = a \o b
  <2>1. \E a \in Seq(Nat), b \in Seq(Nat) :
           /\ a = SubSeq(x, 1, n) /\ b = SubSeq(x, n + 1, Len(x))
           /\ Len(a) = n /\ Len(b) = Len(x) - n /\ x = a \o b
    BY <1>4, SplitFacts
  <2> QED
    BY <2>1
<1>6. Len(a) <= RoomIn(p, p.bufs[p.data_tail])
  BY <1>1, <1>3, <1>5
<1>7. ListOK(Fill(p, a)) /\ Joined(Fill(p, a).bufs) = Joined(l.bufs) \o a
  BY <1>6, FilledOK
<1> QED
  BY <1>5, <1>7 DEF DidRead

\* Inv is kept by bytes move from the socket to the read list.
LEMMA ReadDataInv ==
    ASSUME Inv, ReadData
    PROVE  Inv'
<1> USE DEF buffers, state, poll, socket, uloop
<1>1. Alive /\ ListOK(r)
  BY DEF Inv, Lists, Alive, ReadData
<1>2. PICK x \in Seq(Nat) : x = inbox
  BY DEF Inv, TypeOK
<1>3. PICK p : p = ustream_prepare_buf(r, 1)
  OBVIOUS
<1>4. PICK n : n = Smaller(Len(x), RoomIn(p, p.bufs[p.data_tail]))
  OBVIOUS
<1>5. /\ CanPrepare(r, 1)
      /\ r' = Fill(p, SubSeq(x, 1, n)) /\ inbox' = SubSeq(x, n + 1, Len(x))
  BY <1>2, <1>3, <1>4 DEF ReadData
<1>6. /\ inbox' \in Seq(Nat) /\ ListOK(r')
      /\ Joined(r'.bufs) \o inbox' = Joined(r.bufs) \o x
  <2>1. CanRead(r, p, x, n)
    BY <1>1, <1>3, <1>4, <1>5 DEF CanRead
  <2>2. PICK a \in Seq(Nat), b \in Seq(Nat) :
           /\ a = SubSeq(x, 1, n) /\ b = SubSeq(x, n + 1, Len(x))
           /\ x = a \o b
           /\ ListOK(Fill(p, a))
           /\ Joined(Fill(p, a).bufs) = Joined(r.bufs) \o a
    <3>1. DidRead(r, p, x, n)
      BY <2>1, ReadFacts
    <3> QED
      BY <3>1 DEF DidRead
  <2>3. PICK J \in Seq(Nat) : J = Joined(r.bufs)
    BY <1>1, JoinedFields
  <2>4. (J \o a) \o b = J \o (a \o b)
    <3>1. \A z \in Seq(Nat) : (J \o a) \o z = J \o (a \o z)
      BY Associative, Zenon
    <3> QED
      BY <3>1, Zenon
  <2>5. r' = Fill(p, a) /\ inbox' = b
    BY <1>5, <2>2
  <2> QED
    BY <2>2, <2>3, <2>4, <2>5
<1>7. /\ pc = "read" /\ "READ" \in events /\ read_blocked = {}
      /\ pc' = "notify_read"
      /\ UNCHANGED <<w, read_blocked, state, events, wr, closed, failed, room,
                     sent, taken, uloop, got, accepted>>
  BY DEF ReadData
<1>8. TypeOK'
  BY <1>5, <1>6, <1>7 DEF Inv, TypeOK
<1>9. Lists'
  BY <1>1, <1>5, <1>6, <1>7 DEF Inv, Lists
<1>10. Order'
  BY <1>1, <1>2, <1>5, <1>6, <1>7 DEF Inv, Order
<1>11. Blocked' /\ Polled'
  BY <1>1, <1>7 DEF Inv, Blocked, Polled
<1>12. ReadArmed' /\ WriteArmed'
  BY <1>1, <1>7 DEF Inv, ReadArmed, WriteArmed
<1>13. Told'
  BY <1>1, <1>7 DEF Inv, Told
<1> QED
  BY <1>8, <1>9, <1>10, <1>11, <1>12, <1>13 DEF Inv

\* Inv is kept by the end of the stream is noted and will be reported.
LEMMA ReadEofInv ==
    ASSUME Inv, ReadEof
    PROVE  Inv'
<1> USE DEF buffers, state, poll, socket, uloop
<1>1. Alive /\ ListOK(r)
  BY DEF Inv, Lists, Alive, ReadEof
<1>2. ListOK(r') /\ Joined(r'.bufs) = Joined(r.bufs)
  BY <1>1, PreparedOK DEF ReadEof
<1>3. Lists' /\ Order'
  BY <1>1, <1>2, SameJoined DEF Inv, ReadEof
<1>4. TypeOK'
  BY DEF Inv, TypeOK, ReadEof, uloop_fd_add, Flags
<1>5. Blocked'
  BY DEF ReadEof, Blocked
<1>6. w.data_bytes # 0 /\ ~write_error => w.bufs # <<>>
  <2>1. w.data_bytes # 0 /\ ~write_error => ListOK(w)
    BY <1>1 DEF Inv, Lists
  <2> QED
    BY <2>1, DataMeansBuffers
<1>7. Polled'
  BY <1>6 DEF ReadEof, Polled, uloop_fd_add, Flags
<1>8. ReadArmed'
  BY DEF ReadEof, ReadArmed
<1>9. WriteArmed'
  BY <1>1, <1>7 DEF ReadEof, WriteArmed, Polled, uloop_fd_add
<1>10. Told'
  BY <1>1 DEF Inv, ReadEof, Told
<1> QED
  BY <1>3, <1>4, <1>5, <1>7, <1>8, <1>9, <1>10 DEF Inv

(***************************************************************************)
(* The bytes of a list l before others, x, are those with the numbers      *)
(* a + 1 to b; n of them are dropped.                                      *)
(***************************************************************************)
CanDrop(l, n, x, a, b) ==
    /\ ListOK(l) /\ n \in Nat /\ n <= l.data_bytes
    /\ x \in Seq(Nat) /\ a \in Nat /\ b \in Nat /\ a <= b
    /\ Joined(l.bufs) \o x = Bytes(a, b)

DidDrop(m, l, n, x, a, b) ==
    /\ ListOK(m)
    /\ m.data_bytes = l.data_bytes - n
    /\ a + n <= b
    /\ Joined(m.bufs) \o x = Bytes(a + n, b)

\* The remaining bytes are then those with the numbers a + n + 1 to b.
LEMMA DropOrder ==
    ASSUME NEW l, NEW n, NEW x, NEW a, NEW b, CanDrop(l, n, x, a, b)
    PROVE  DidDrop(Drop(l, n), l, n, x, a, b)
<1>0. n \in Nat /\ x \in Seq(Nat) /\ a \in Nat /\ b \in Nat /\ a <= b
  BY DEF CanDrop
<1>1. PICK m : m = Drop(l, n)
  OBVIOUS
<1>2. /\ ListOK(m) /\ m.data_bytes = l.data_bytes - n
      /\ Dropped(Joined(l.bufs), m.bufs, n)
  BY <1>1, DropFacts DEF CanDrop
<1>3. PICK J \in Seq(Nat), K \in Seq(Nat) :
         J = Joined(l.bufs) /\ K = Joined(m.bufs)
  <2>1. Joined(l.bufs) \in Seq(Nat)
    BY JoinedFields DEF CanDrop
  <2>2. Joined(m.bufs) \in Seq(Nat)
    BY <1>2, JoinedFields
  <2> QED
    BY <2>1, <2>2
<1>4. PICK D \in Seq(Nat) : Len(D) = n /\ J = D \o K
  BY <1>2, <1>3 DEF Dropped
<1>5. PICK y \in Seq(Nat) : y = K \o x
  <2>1. K \o x \in Seq(Nat)
    BY <1>0, ConcatProperties
  <2> QED
    BY <2>1
<1>6. D \o y = Bytes(a, b)
  <2>1. (D \o K) \o x = D \o (K \o x)
    <3>1. \A z \in Seq(Nat) : (D \o K) \o z = D \o (K \o z)
      BY Associative, Zenon
    <3> QED
      BY <3>1, <1>0, Zenon
  <2> QED
    BY <2>1, <1>3, <1>4, <1>5 DEF CanDrop
<1>7. Len(D) + Len(y) = b - a /\ y = Bytes(a + Len(D), b)
  <2>1. AreBytes(D, y, a, b)
    BY <1>0, <1>6 DEF AreBytes
  <2> QED
    BY <2>1, BytesSplit
<1>8. Len(y) \in Nat
  BY LenProperties
<1>9. a + n <= b
  BY <1>0, <1>4, <1>7, <1>8
<1> QED
  BY <1>1, <1>2, <1>3, <1>4, <1>5, <1>7, <1>9 DEF DidDrop

(***************************************************************************)
(* The bytes of a list l are those with the numbers t + 1 to a, and the    *)
(* next n are written behind them, as far as there is room.                *)
(***************************************************************************)
CanWrite(l, t, a, n, buf) ==
    /\ ListOK(l) /\ t \in Nat /\ a \in Nat /\ n \in Nat /\ t <= a
    /\ Joined(l.bufs) = Bytes(t, a)
    /\ buf = ustream_write_buffered(l, Bytes(a, a + n))

DidWrite(t, a, n, buf) ==
    /\ ListOK(buf.list)
    /\ Len(buf.left) \in 0..n
    /\ Joined(buf.list.bufs) = Bytes(t, a + n - Len(buf.left))
    /\ buf.list.data_bytes = a + n - Len(buf.left) - t

\* The bytes of the list are then still consecutive, and what is left is what
\* the stream has not accepted.
LEMMA WriteOrder ==
    ASSUME NEW l, NEW t, NEW a, NEW n, NEW buf, CanWrite(l, t, a, n, buf)
    PROVE  DidWrite(t, a, n, buf)
<1>0. t \in Nat /\ a \in Nat /\ n \in Nat /\ t <= a
  BY DEF CanWrite
<1>1. a + n \in Nat /\ a <= a + n /\ a + n - a = n
  BY <1>0
<1>2. PICK data \in Seq(Nat) : data = Bytes(a, a + n)
  BY <1>0, <1>1, BytesFacts
<1>3. /\ ListOK(buf.list) /\ buf.left \in Seq(Nat)
      /\ \E D \in Seq(Nat) : /\ data = D \o buf.left
                             /\ Joined(buf.list.bufs) = Joined(l.bufs) \o D
  <2>1. Wrote(l, data, buf)
    BY <1>2, WriteFacts DEF CanWrite
  <2> QED
    BY <2>1 DEF Wrote
<1>4. PICK left \in Seq(Nat), D \in Seq(Nat) :
         /\ left = buf.left /\ data = D \o left
         /\ Joined(buf.list.bufs) = Joined(l.bufs) \o D
  BY <1>3
<1>5. PICK d \in Nat, u \in Nat : d = Len(D) /\ u = Len(left)
  BY LenProperties
<1>6. D \o left = Bytes(a, a + n)
  BY <1>2, <1>4
<1>7. Len(D) + Len(left) = (a + n) - a /\ D = Bytes(a, a + Len(D))
  <2>1. AreBytes(D, left, a, a + n)
    BY <1>0, <1>1, <1>6 DEF AreBytes
  <2> QED
    BY <2>1, BytesSplit
<1>8. d + u = n /\ a + d = a + n - u /\ u \in 0..n
  <2>1. d + u = (a + n) - a
    BY <1>5, <1>7
  <2> QED
    BY <2>1, <1>0
<1>9. D = Bytes(a, a + d)
  BY <1>5, <1>7
<1>10. Bytes(t, a) \o Bytes(a, a + d) = Bytes(t, a + d)
  <2>1. a <= a + d /\ a + d \in Nat
    BY <1>0
  <2> QED
    BY <2>1, <1>0, BytesConcat
<1>11. Joined(buf.list.bufs) = Bytes(t, a + d)
  BY <1>4, <1>9, <1>10 DEF CanWrite
<1>12. Len(Bytes(t, a + d)) = a + d - t
  <2>1. t <= a + d /\ a + d \in Nat
    BY <1>0
  <2> QED
    BY <2>1, <1>0, BytesFacts
<1>13. buf.list.data_bytes = Len(Joined(buf.list.bufs))
  BY <1>3 DEF ListOK
<1>14. buf.list.data_bytes = a + d - t
  BY <1>11, <1>12, <1>13
<1>15. Len(buf.left) = u
  BY <1>4, <1>5
<1>16. /\ Joined(buf.list.bufs) = Bytes(t, a + n - u)
       /\ buf.list.data_bytes = a + n - u - t
  BY <1>8, <1>11, <1>14
<1> QED
  BY <1>3, <1>8, <1>15, <1>16 DEF DidWrite

\* Inv is kept by ustream_consume: it unblocks reading.
LEMMA ConsumeInv ==
    ASSUME Inv, NEW n \in 1..MaxIn, ustream_consume(n)
    PROVE  Inv'
<1> USE DEF buffers, state, poll, socket, uloop
<1>1. Alive /\ InApplication
  BY DEF ustream_consume, InApplication, Alive
<1>2. n \in Nat /\ got \in Nat /\ sent \in Nat /\ inbox \in Seq(Nat)
  BY StreamAssumption DEF Inv, TypeOK
<1>3. /\ r' = Drop(r, n) /\ got' = got + n
      /\ UNCHANGED <<w, state, poll, socket, accepted>>
      /\ SetReadBlocked(read_blocked \ {"FULL"})
  BY DEF ustream_consume
<1>4. DidDrop(r', r, n, inbox, got, sent)
  <2>1. CanDrop(r, n, inbox, got, sent)
    BY <1>1, <1>2 DEF Inv, Lists, Order, CanDrop, ustream_consume
  <2> QED
    BY <2>1, <1>3, DropOrder
<1>5. ListOK(r') /\ got' <= sent /\ Joined(r'.bufs) \o inbox = Bytes(got', sent)
  BY <1>3, <1>4 DEF DidDrop
<1>6. Lists' /\ Order'
  BY <1>1, <1>3, <1>5 DEF Inv, Lists, Order, Alive
<1>7. read_blocked' = read_blocked \ {"FULL"}
  BY <1>3 DEF SetReadBlocked
<1>8. /\ interest' \in SUBSET {"READ", "WRITE"}
      /\ armed' \in BOOLEAN /\ fd_error' \in BOOLEAN
      /\ Polled' /\ ReadArmed' /\ WriteArmed'
  <2>1. IF (read_blocked' = {}) = (read_blocked = {}) THEN UNCHANGED uloop
        ELSE uloop_fd_add(Flags(read_blocked', eof', w', FALSE))
    BY <1>3, <1>7 DEF SetReadBlocked
  <2>2. UNCHANGED <<w, state, poll, socket>>
    BY <1>3
  <2> QED
    BY <2>1, <2>2, <1>1, <1>6, ReadBlockedInv
<1>9. TypeOK'
  <2>1. got' \in Nat
    BY <1>2, <1>3
  <2> QED
    BY <2>1, <1>3, <1>7, <1>8 DEF Inv, TypeOK
<1>10. Blocked'
  BY <1>7 DEF Blocked
<1>11. Told'
  BY <1>1, <1>3 DEF Inv, Told
<1> QED
  BY <1>6, <1>8, <1>9, <1>10, <1>11 DEF Inv

\* Inv is kept by ustream_write behind buffered bytes.
LEMMA WriteBehindInv ==
    ASSUME Inv, NEW n \in 1..MaxOut, WriteBehind(n)
    PROVE  Inv'
<1> USE DEF buffers, state, poll, socket, uloop
<1>1. Alive /\ ~write_error /\ w.data_bytes # 0
  BY DEF WriteBehind, InApplication, Alive
<1>2. n \in Nat /\ taken \in Nat /\ accepted \in Nat /\ taken <= accepted
  BY StreamAssumption DEF Inv, TypeOK, Order
<1>3. PICK buf : buf = ustream_write_buffered(w, Bytes(accepted, accepted + n))
  OBVIOUS
<1>4. /\ accepted' = accepted + n - Len(buf.left) /\ w' = buf.list
      /\ UNCHANGED <<r, read_blocked, state, poll, socket, uloop, got>>
  BY <1>3 DEF WriteBehind
<1>5. Joined(w.bufs) = Bytes(taken, accepted) /\ ListOK(w)
  BY <1>1 DEF Inv, Lists, Order
<1>6. DidWrite(taken, accepted, n, buf)
  <2>1. CanWrite(w, taken, accepted, n, buf)
    BY <1>2, <1>3, <1>5 DEF CanWrite
  <2> QED
    BY <2>1, WriteOrder
<1>7. w.data_bytes = accepted - taken
  <2>1. Len(Bytes(taken, accepted)) = accepted - taken
    BY <1>2, BytesFacts
  <2> QED
    BY <2>1, <1>5 DEF ListOK
<1>8. /\ ListOK(w') /\ Joined(w'.bufs) = Bytes(taken, accepted')
      /\ accepted' \in Nat /\ taken <= accepted' /\ w'.data_bytes # 0
  <2>1. PICK u \in 0..n : u = Len(buf.left)
    BY <1>6 DEF DidWrite
  <2>2. /\ ListOK(w') /\ Joined(w'.bufs) = Bytes(taken, accepted + n - u)
        /\ w'.data_bytes = accepted + n - u - taken
    BY <2>1, <1>4, <1>6 DEF DidWrite
  <2>3. accepted' = accepted + n - u
    BY <2>1, <1>4
  <2> QED
    BY <2>1, <2>2, <2>3, <1>1, <1>2, <1>7
<1>9. Lists' /\ Order'
  BY <1>1, <1>4, <1>8 DEF Inv, Lists, Order, Alive
<1>10. TypeOK'
  BY <1>4, <1>8 DEF Inv, TypeOK
<1>11. Blocked' /\ Polled'
  BY <1>1, <1>4 DEF Inv, Alive, Blocked, Polled
<1>12. ReadArmed' /\ WriteArmed'
  BY <1>1, <1>4 DEF Inv, Alive, ReadArmed, WriteArmed
<1>13. Told'
  BY <1>1, <1>4, <1>8 DEF Inv, Alive, Told
<1> QED
  BY <1>9, <1>10, <1>11, <1>12, <1>13 DEF Inv

\* Text that leaves a byte of the buffer for the final 0 is in it completely.
LEMMA PrintedFacts ==
    ASSUME NEW l, NEW a \in Nat, NEW room1 \in Nat,
           room1 = RoomIn(l, l.bufs[l.data_tail]), a = accepted,
           NEW k \in Nat, k < room1
    PROVE  PrintedBytes(l, k) = Bytes(a, a + k)
<1>1. (a + k) - a = k
  OBVIOUS
<1>2. Bytes(a, a + k) = [i \in 1..k |-> a + i]
  BY <1>1 DEF Bytes
<1>3. PrintedBytes(l, k) = [i \in 1..k |-> IF i = room1 THEN 0 ELSE a + i]
  BY DEF PrintedBytes
<1>4. \A i \in 1..k : i # room1
  OBVIOUS
<1> QED
  BY <1>2, <1>3, <1>4

\* Inv is kept by ustream_vprintf: what it prints into the last buffer and
\* what follows.
LEMMA VprintfInv ==
    ASSUME Inv, NEW n \in 1..MaxOut, ustream_vprintf(n)
    PROVE  Inv'
<1> USE DEF buffers, state, poll, socket, uloop
<1>1. Alive /\ ~write_error /\ w.data_bytes # 0 /\ CanPrepare(w, 1)
  BY DEF ustream_vprintf, InApplication, Alive
<1>2. n \in Nat /\ taken \in Nat /\ accepted \in Nat /\ taken <= accepted
  BY StreamAssumption DEF Inv, TypeOK, Order
<1>3. PICK p : p = ustream_prepare_buf(w, 1)
  OBVIOUS
<1>4. PICK k : k = Printed(p, n)
  OBVIOUS
<1>5. PICK q : q = Fill(p, PrintedBytes(p, k))
  OBVIOUS
<1>6. PICK buf :
         buf = ustream_write_buffered(q, Bytes(accepted + k, accepted + n))
  OBVIOUS
<1>7. /\ accepted' = accepted + n - Len(buf.left) /\ w' = buf.list
      /\ UNCHANGED <<r, read_blocked, state, poll, socket, uloop, got>>
  BY <1>3, <1>4, <1>5, <1>6 DEF ustream_vprintf
<1>8. Joined(w.bufs) = Bytes(taken, accepted) /\ ListOK(w)
  BY <1>1 DEF Inv, Lists, Order
<1>9. PICK room1 \in Nat : room1 = RoomIn(p, p.bufs[p.data_tail]) /\ room1 > 0
  <2>1. Shape(w)
    BY <1>8 DEF ListOK
  <2> QED
    BY <2>1, <1>1, <1>3, PrepareFacts
<1>10. k \in Nat /\ k <= n /\ k < room1
  BY <1>2, <1>4, <1>9 DEF Printed, Smaller
<1>11. PICK a \in Nat, d \in Seq(Nat) :
          /\ a = accepted + k /\ d = Bytes(accepted, a) /\ Len(d) = k
          /\ d = PrintedBytes(p, k)
  <2>1. accepted + k \in Nat /\ accepted <= accepted + k
        /\ (accepted + k) - accepted = k
    BY <1>2, <1>10
  <2>2. /\ Bytes(accepted, accepted + k) \in Seq(Nat)
        /\ Len(Bytes(accepted, accepted + k)) = k
    BY <2>1, <1>2, BytesFacts
  <2>3. PrintedBytes(p, k) = Bytes(accepted, accepted + k)
    <3>1. PICK c \in Nat : c = accepted
      BY <1>2
    <3>2. PrintedBytes(p, k) = Bytes(c, c + k)
      BY <3>1, <1>9, <1>10, PrintedFacts
    <3> QED
      BY <3>1, <3>2
  <2> QED
    BY <2>1, <2>2, <2>3
<1>12. /\ ListOK(q) /\ Joined(q.bufs) = Joined(w.bufs) \o d
       /\ q.data_bytes = w.data_bytes + k
  <2>1. Len(d) <= RoomIn(p, p.bufs[p.data_tail])
    BY <1>9, <1>10, <1>11
  <2>2. /\ ListOK(Fill(p, d)) /\ Joined(Fill(p, d).bufs) = Joined(w.bufs) \o d
        /\ Fill(p, d).data_bytes = w.data_bytes + Len(d)
    BY <2>1, <1>1, <1>3, <1>8, FilledOK
  <2> QED
    BY <2>2, <1>5, <1>11
<1>13. Joined(q.bufs) = Bytes(taken, a)
  <2>1. Bytes(taken, accepted) \o Bytes(accepted, a) = Bytes(taken, a)
    <3>1. accepted <= a
      BY <1>2, <1>10, <1>11
    <3> QED
      BY <3>1, <1>2, BytesConcat
  <2> QED
    BY <2>1, <1>8, <1>11, <1>12
<1>14. PICK m \in Nat : m = n - k /\ a + m = accepted + n
  BY <1>2, <1>10, <1>11
<1>15. taken <= a
  BY <1>2, <1>10, <1>11
<1>16. DidWrite(taken, a, m, buf)
  <2>1. buf = ustream_write_buffered(q, Bytes(a, a + m))
    BY <1>6, <1>11, <1>14
  <2>2. CanWrite(q, taken, a, m, buf)
    BY <2>1, <1>2, <1>12, <1>13, <1>15 DEF CanWrite
  <2> QED
    BY <2>2, WriteOrder
<1>17. q.data_bytes = a - taken /\ a - taken > 0
  <2>1. Len(Bytes(taken, a)) = a - taken
    BY <1>2, <1>15, BytesFacts
  <2>2. q.data_bytes = a - taken
    BY <2>1, <1>12, <1>13 DEF ListOK
  <2>3. w.data_bytes \in Nat
    BY <1>8, JoinedFields
  <2> QED
    BY <2>2, <2>3, <1>1, <1>10, <1>12
<1>18. /\ ListOK(w') /\ Joined(w'.bufs) = Bytes(taken, accepted')
       /\ accepted' \in Nat /\ taken <= accepted' /\ w'.data_bytes # 0
  <2>1. PICK u \in 0..m : u = Len(buf.left)
    BY <1>16 DEF DidWrite
  <2>2. /\ ListOK(w') /\ Joined(w'.bufs) = Bytes(taken, a + m - u)
        /\ w'.data_bytes = a + m - u - taken
    BY <2>1, <1>7, <1>16 DEF DidWrite
  <2>3. accepted' = a + m - u
    <3>1. accepted' = accepted + n - u
      BY <2>1, <1>7
    <3> QED
      BY SMTT(60), <3>1, <1>2, <1>14
  <2> QED
    BY <2>1, <2>2, <2>3, <1>2, <1>15, <1>17
<1>19. Lists' /\ Order'
  BY <1>1, <1>7, <1>18 DEF Inv, Lists, Order, Alive
<1>20. TypeOK'
  BY <1>7, <1>18 DEF Inv, TypeOK
<1>21. Blocked' /\ Polled'
  BY <1>1, <1>7 DEF Inv, Alive, Blocked, Polled
<1>22. ReadArmed' /\ WriteArmed'
  BY <1>1, <1>7 DEF Inv, Alive, ReadArmed, WriteArmed
<1>23. Told'
  BY <1>1, <1>7, <1>18 DEF Inv, Alive, Told
<1> QED
  BY <1>19, <1>20, <1>21, <1>22, <1>23 DEF Inv

\* Inv is kept by ustream_write to an empty list: what the socket does not
\* take is polled for.
LEMMA WriteDirectInv ==
    ASSUME Inv, NEW n \in 1..MaxOut, WriteDirect(n)
    PROVE  Inv'
<1> USE DEF buffers, state, poll, socket, uloop
<1>1. Alive /\ ~write_error /\ w.data_bytes = 0
  BY DEF WriteDirect, InApplication, Alive
<1>2. /\ n \in Nat /\ taken \in Nat /\ accepted \in Nat /\ taken <= accepted
      /\ room \in Nat
  BY StreamAssumption DEF Inv, TypeOK, Order
<1>3. PICK k \in Nat : k = Smaller(n, room) /\ k <= n /\ k <= room
                       /\ (k < n => k = room)
  BY <1>2 DEF Smaller
<1>4. PICK buf :
         buf = ustream_write_buffered(w, Bytes(accepted + k, accepted + n))
  OBVIOUS
<1>5. /\ taken' = taken + k /\ room' = room - k
      /\ accepted' = accepted + n - Len(buf.left) /\ w' = buf.list
      /\ UNCHANGED <<r, read_blocked, state, poll, inbox, closed, failed,
                     sent, got>>
      /\ IF k < n THEN uloop_fd_add(Flags(read_blocked, eof, w, TRUE))
                  ELSE UNCHANGED uloop
  BY <1>3, <1>4 DEF WriteDirect
<1>6. /\ ListOK(w) /\ taken = accepted /\ Joined(w.bufs) = <<>>
  <2>1. ListOK(w) /\ Joined(w.bufs) = Bytes(taken, accepted)
    BY <1>1 DEF Inv, Lists, Order
  <2>2. Len(Bytes(taken, accepted)) = accepted - taken
    BY <1>2, BytesFacts
  <2>3. taken = accepted
    BY <2>1, <2>2, <1>1, <1>2 DEF ListOK
  <2>4. Joined(w.bufs) \in Seq(Nat) /\ Len(Joined(w.bufs)) = 0
    BY <2>1, <1>1, JoinedFields
  <2> QED
    BY <2>1, <2>3, <2>4, EmptySeq
<1>7. PICK a \in Nat, m \in Nat : /\ a = accepted + k /\ m = n - k
                                  /\ a + m = accepted + n /\ a = taken'
  BY <1>2, <1>3, <1>5, <1>6
<1>8. DidWrite(a, a, m, buf)
  <2>1. Bytes(a, a) = <<>>
    BY DEF Bytes
  <2>2. buf = ustream_write_buffered(w, Bytes(a, a + m))
    BY <1>4, <1>7
  <2>3. CanWrite(w, a, a, m, buf)
    BY <2>1, <2>2, <1>6 DEF CanWrite
  <2> QED
    BY <2>3, WriteOrder
<1>9. /\ ListOK(w') /\ Joined(w'.bufs) = Bytes(taken', accepted')
      /\ accepted' \in Nat /\ taken' \in Nat /\ taken' <= accepted'
      /\ (k = n => w'.data_bytes = 0)
  <2>1. PICK u \in 0..m : u = Len(buf.left)
    BY <1>8 DEF DidWrite
  <2>2. /\ ListOK(w') /\ Joined(w'.bufs) = Bytes(a, a + m - u)
        /\ w'.data_bytes = a + m - u - a
    BY <2>1, <1>5, <1>8 DEF DidWrite
  <2>3. accepted' = a + m - u
    BY <2>1, <1>2, <1>5, <1>7
  <2>4. Bytes(a, a + m - u) = Bytes(taken', accepted')
    BY <2>3, <1>7
  <2>5. accepted' \in Nat /\ taken' \in Nat /\ taken' <= accepted'
    <3>1. a + m - u \in Nat /\ a <= a + m - u
      BY <2>1
    <3> QED
      BY <2>3, <3>1, <1>7
  <2>6. k = n => w'.data_bytes = 0
    <3>1. k = n => m = 0
      BY <1>2, <1>7
    <3>2. m = 0 => a + m - u - a = 0
      BY <2>1
    <3> QED
      BY <2>2, <3>1, <3>2
  <2> QED
    BY <2>2, <2>4, <2>5, <2>6
<1>10. Lists' /\ Order'
  BY <1>1, <1>5, <1>9 DEF Inv, Lists, Order, Alive
<1>11. TypeOK'
  <2>1. room' \in Nat
    BY <1>2, <1>3, <1>5
  <2>2. /\ interest' \in SUBSET {"READ", "WRITE"}
        /\ armed' \in BOOLEAN /\ fd_error' \in BOOLEAN
    BY <1>5 DEF Inv, TypeOK, uloop_fd_add, Flags
  <2> QED
    BY <2>1, <2>2, <1>5, <1>9 DEF Inv, TypeOK
<1>12. Blocked'
  BY <1>1, <1>5 DEF Inv, Alive, Blocked
<1>13. CASE k = n
  <2>1. w'.data_bytes = 0 /\ UNCHANGED uloop
    <3>1. ~(k < n)
      BY <1>2, <1>13
    <3> QED
      BY <3>1, <1>5, <1>9, <1>13, Zenon
  <2>2. Polled'
    BY <2>1, <1>1, <1>5 DEF Inv, Alive, Polled
  <2>3. ReadArmed' /\ WriteArmed'
    BY <2>1, <1>1, <1>5 DEF Inv, Alive, ReadArmed, WriteArmed
  <2>4. Told'
    BY <2>1, <1>1, <1>5 DEF Inv, Alive, Told
  <2> QED
    BY <2>2, <2>3, <2>4, <1>10, <1>11, <1>12 DEF Inv
<1>14. CASE k < n
  <2>1. room' = 0 /\ uloop_fd_add(Flags(read_blocked, eof, w, TRUE))
    <3>1. room' = 0
      BY <1>2, <1>3, <1>5, <1>14
    <3> QED
      BY <3>1, <1>5, <1>14, Zenon
  <2>2. Polled'
    BY <2>1, <1>5 DEF Polled, uloop_fd_add, Flags
  <2>3. ReadArmed'
    BY <2>1, <2>2, <1>5 DEF Polled, ReadArmed, uloop_fd_add
  <2>4. WriteArmed'
    BY <2>1 DEF WriteArmed
  <2>5. Told'
    BY <1>1, <1>5 DEF Inv, Alive, Told
  <2> QED
    BY <2>2, <2>3, <2>4, <2>5, <1>10, <1>11, <1>12 DEF Inv
<1> QED
  BY <1>2, <1>3, <1>13, <1>14

\* Inv is kept by ustream_write_pending: the socket takes the oldest bytes.
LEMMA WritePendingInv ==
    ASSUME Inv, WritePending
    PROVE  Inv'
<1> USE DEF buffers, state, poll, socket, uloop
<1>1. /\ Alive /\ ~write_error
      /\ pc = "write" /\ "WRITE" \in events /\ pc' = "notify_write"
  BY DEF WritePending, Alive
<1>2. ListOK(w) /\ Joined(w.bufs) = Bytes(taken, accepted)
  BY <1>1 DEF Inv, Lists, Order
<1>3. /\ taken \in Nat /\ accepted \in Nat /\ taken <= accepted /\ room \in Nat
      /\ w.data_bytes \in Nat /\ Joined(w.bufs) \in Seq(Nat)
  BY <1>2, JoinedFields DEF Inv, TypeOK, Order
<1>4. PICK n \in Nat : /\ n = Smaller(w.data_bytes, room)
                       /\ n <= w.data_bytes /\ n <= room
                       /\ (n < w.data_bytes => n = room)
  BY <1>3 DEF Smaller
<1>5. /\ w' = Drop(w, n) /\ taken' = taken + n /\ room' = room - n /\ wr' = n
      /\ UNCHANGED <<r, read_blocked, state, events, inbox, closed, failed,
                     sent, got, accepted>>
      /\ IF n < w.data_bytes
         THEN uloop_fd_add(Flags(read_blocked, eof, w', TRUE))
         ELSE UNCHANGED uloop
  BY <1>4 DEF WritePending
<1>6. DidDrop(w', w, n, <<>>, taken, accepted)
  <2>1. Joined(w.bufs) \o <<>> = Joined(w.bufs) /\ <<>> \in Seq(Nat)
    BY <1>3, ConcatEmptySeq
  <2>2. CanDrop(w, n, <<>>, taken, accepted)
    BY <2>1, <1>2, <1>3, <1>4 DEF CanDrop
  <2> QED
    BY <2>2, <1>5, DropOrder
<1>7. ListOK(w') /\ taken' <= accepted /\ Joined(w'.bufs) = Bytes(taken', accepted)
      /\ w'.data_bytes = w.data_bytes - n
  <2>1. ListOK(w') /\ Joined(w'.bufs) \o <<>> = Bytes(taken', accepted)
        /\ taken' <= accepted /\ w'.data_bytes = w.data_bytes - n
    BY <1>5, <1>6 DEF DidDrop
  <2>2. Joined(w'.bufs) \in Seq(Nat)
    BY <2>1, JoinedFields
  <2>3. Joined(w'.bufs) \o <<>> = Joined(w'.bufs)
    BY <2>2, ConcatEmptySeq
  <2> QED
    BY <2>1, <2>3
<1>8. Lists' /\ Order'
  BY <1>1, <1>5, <1>7 DEF Inv, Lists, Order, Alive
<1>9. TypeOK'
  <2>1. room' \in Nat /\ taken' \in Nat /\ wr' \in Nat
    BY <1>3, <1>4, <1>5
  <2>2. /\ interest' \in SUBSET {"READ", "WRITE"}
        /\ armed' \in BOOLEAN /\ fd_error' \in BOOLEAN
    BY <1>5 DEF Inv, TypeOK, uloop_fd_add, Flags
  <2> QED
    BY <2>1, <2>2, <1>1, <1>5 DEF Inv, TypeOK
<1>10. Blocked'
  BY <1>1, <1>5 DEF Inv, Alive, Blocked
<1>11. Told'
  <2>1. CASE n = 0
    <3>1. w'.data_bytes = w.data_bytes
      BY <2>1, <1>3, <1>7
    <3> QED
      BY <3>1, <1>1, <1>5 DEF Inv, Alive, Told
  <2>2. CASE n # 0
    BY <2>2, <1>1, <1>5 DEF Inv, Alive, Told
  <2> QED
    BY <2>1, <2>2
<1>12. CASE n = w.data_bytes
  <2>1. w'.data_bytes = 0 /\ UNCHANGED uloop
    <3>1. ~(n < w.data_bytes) /\ w'.data_bytes = 0
      BY <1>3, <1>7, <1>12
    <3> QED
      BY <3>1, <1>5, Zenon
  <2>2. Polled'
    BY <2>1, <1>1, <1>5 DEF Inv, Alive, Polled
  <2>3. ReadArmed' /\ WriteArmed'
    BY <2>1, <1>1, <1>5 DEF Inv, Alive, ReadArmed, WriteArmed
  <2> QED
    BY <2>2, <2>3, <1>8, <1>9, <1>10, <1>11 DEF Inv
<1>13. CASE n < w.data_bytes
  <2>1. room' = 0 /\ uloop_fd_add(Flags(read_blocked, eof, w', TRUE))
    <3>1. room' = 0
      BY <1>3, <1>4, <1>5, <1>13
    <3> QED
      BY <3>1, <1>5, <1>13, Zenon
  <2>2. Polled'
    BY <2>1, <1>5 DEF Polled, uloop_fd_add, Flags
  <2>3. ReadArmed'
    BY <2>1, <2>2, <1>5 DEF Polled, ReadArmed, uloop_fd_add
  <2>4. WriteArmed'
    BY <2>1 DEF WriteArmed
  <2> QED
    BY <2>2, <2>3, <2>4, <1>8, <1>9, <1>10, <1>11 DEF Inv
<1> QED
  BY <1>3, <1>4, <1>12, <1>13

-----------------------------------------------------------------------------
(***************************************************************************)
(* The invariant, and what the runs check.                                 *)
(***************************************************************************)
LEMMA StepInv ==
    ASSUME Inv, [Next]_vars
    PROVE  Inv'
<1>1. CASE Next
  <2>1. ASSUME NEW n \in 1..MaxIn, ustream_consume(n) PROVE Inv'
    BY <2>1, ConsumeInv
  <2>2. ASSUME NEW set \in BOOLEAN, ustream_set_read_blocked(set) PROVE Inv'
    BY <2>2, SetReadBlockedInv
  <2>3. ASSUME NEW n \in 1..MaxOut, WriteDirect(n) PROVE Inv'
    BY <2>3, WriteDirectInv
  <2>4. ASSUME NEW n \in 1..MaxOut, WriteBehind(n) PROVE Inv'
    BY <2>4, WriteBehindInv
  <2>5. ASSUME NEW n \in 1..MaxOut, ustream_vprintf(n) PROVE Inv'
    BY <2>5, VprintfInv
  <2>6. CASE WriteFails
    BY <2>6, WriteFailsInv
  <2>7. CASE ustream_poll
    BY <2>7, PollInv
  <2>8. CASE ustream_free
    BY <2>8, FreeInv
  <2>9. CASE ustream_state_change_cb
    BY <2>9, StateChangeInv
  <2>10. CASE ustream_uloop_cb
    BY <2>10, UloopCbInv
  <2>11. CASE ReadEnds
    BY <2>11, ReadEndsInv
  <2>12. CASE ReadFull
    BY <2>12, ReadFullInv
  <2>13. CASE ReadData
    BY <2>13, ReadDataInv
  <2>14. CASE ReadEof
    BY <2>14, ReadEofInv
  <2>15. CASE WriteEnds
    BY <2>15, WriteEndsInv
  <2>16. CASE WritePendingFails
    BY <2>16, WritePendingFailsInv
  <2>17. CASE WritePending
    BY <2>17, WritePendingInv
  <2>18. CASE NotifyReturns
    BY <2>18, NotifyReturnsInv
  <2>19. CASE Written
    BY <2>19, WrittenInv
  <2>20. CASE PollEnds
    BY <2>20, PollEndsInv
  <2>21. CASE PeerSends
    BY <2>21, PeerSendsInv
  <2>22. CASE PeerCloses
    BY <2>22, PeerClosesInv
  <2>23. CASE PeerReads
    BY <2>23, PeerReadsInv
  <2>24. CASE SocketFails
    BY <2>24, SocketFailsInv
  <2> QED
    BY <1>1, <2>1, <2>2, <2>3, <2>4, <2>5, <2>6, <2>7, <2>8, <2>9, <2>10,
       <2>11, <2>12, <2>13, <2>14, <2>15, <2>16, <2>17, <2>18, <2>19, <2>20,
       <2>21, <2>22, <2>23, <2>24 DEF Next
<1>2. CASE UNCHANGED vars
  <2> USE DEF vars, buffers, state, poll, socket, uloop
  <2>1. TypeOK'
    BY <1>2 DEF Inv, TypeOK
  <2>2. Lists' /\ Order'
    BY <1>2, SameBytes DEF Inv, Alive
  <2>3. Blocked' /\ Polled'
    BY <1>2 DEF Inv, Alive, Blocked, Polled
  <2>4. ReadArmed' /\ WriteArmed'
    BY <1>2 DEF Inv, Alive, ReadArmed, WriteArmed
  <2>5. Told'
    BY <1>2 DEF Inv, Alive, Told
  <2> QED
    BY <2>1, <2>2, <2>3, <2>4, <2>5 DEF Inv
<1> QED
  BY <1>1, <1>2

\* The invariant holds in every reachable state.
LEMMA Invariance == Spec => []Inv
<1>1. Init => Inv
  BY InitInv
<1>2. Inv /\ [Next]_vars => Inv'
  BY StepInv
<1> QED
  BY <1>1, <1>2, PTL DEF Spec

(***************************************************************************)
(* No byte is lost, repeated or reordered in either direction, whatever    *)
(* the limits of the lists: in the loops of ustream_consume and of         *)
(* ustream_write_buffered, when buffers are compacted, recycled and freed, *)
(* and when text is printed into the last of them.                         *)
(***************************************************************************)
THEOREM BytesStayInOrder == Spec => []BytesInOrder
<1>1. Inv => BytesInOrder
  <2>1. /\ Contents(r) = Joined(r.bufs)
        /\ Contents(w) = Joined(w.bufs)
    BY ContentsJoined
  <2> QED
    BY <2>1 DEF Inv, Order, Alive, BytesInOrder
<1> QED
  BY <1>1, Invariance, PTL

(***************************************************************************)
(* buffers and data_bytes count what is in a list, the limits of           *)
(* struct ustream_buf_list are kept, no buffer overflows, and the data     *)
(* lies in the buffers from the head to data_tail without a gap.           *)
(***************************************************************************)
THEOREM BuffersStayConsistent == Spec => []BuffersConsistent
<1>1. Inv => BuffersConsistent
  <2> SUFFICES ASSUME Inv, NEW l \in {r, w},
                      pc # "freed", l = r \/ ~write_error
               PROVE  /\ l.buffers = Len(l.bufs)
                      /\ l.data_bytes = Len(Contents(l))
                      /\ l.limits.max_buffers > 0
                            => l.buffers <= l.limits.max_buffers
                      /\ \A i \in DOMAIN l.bufs :
                            /\ l.bufs[i].space + Len(l.bufs[i].data)
                                  <= l.limits.buffer_len
                            /\ i < l.data_tail => l.bufs[i].data # <<>>
                            /\ i > l.data_tail => l.bufs[i].data = <<>>
    BY DEF BuffersConsistent
  <2>1. ListOK(l)
    BY DEF Inv, Lists, Alive
  <2>2. Contents(l) = Joined(l.bufs)
    BY ContentsJoined
  <2>3. DOMAIN l.bufs = 1..Len(l.bufs)
    BY <2>1, ListFields DEF ListOK, Shape
  <2>4. ASSUME NEW i \in DOMAIN l.bufs
        PROVE  /\ l.bufs[i].space + Len(l.bufs[i].data) <= l.limits.buffer_len
               /\ i < l.data_tail => l.bufs[i].data # <<>>
               /\ i > l.data_tail => l.bufs[i].data = <<>>
    <3>1. BufferOK(l, i)
      BY <2>1, <2>3 DEF ListOK, Shape
    <3> QED
      BY <3>1, EmptyBufFacts DEF BufferOK
  <2> QED
    BY <2>1, <2>2, <2>4 DEF ListOK, Shape
<1> QED
  BY <1>1, Invariance, PTL

(***************************************************************************)
(* What __ustream_set_read_blocked, ustream_fd_set_uloop and the callbacks *)
(* leave uloop to poll for is always what the stream waits for, and an     *)
(* edge that uloop has reported is used up only by the __ustream_fd_poll   *)
(* that reads and writes until there is nothing left to do.                *)
(***************************************************************************)
THEOREM StreamIsNeverStuck == Spec => []NeverStuck
<1>1. Inv => NeverStuck
  BY DEF Inv, TypeOK, Alive, Blocked, Polled, ReadArmed, WriteArmed, NeverStuck
<1> QED
  BY <1>1, Invariance, PTL

(***************************************************************************)
(* Between two polls the timer of notify_state is pending, or its last     *)
(* call has seen the end of the stream, the write error and, after the end *)
(* of the stream, the write list empty.                                    *)
(***************************************************************************)
THEOREM StateIsReported == Spec => []StateReported
<1>1. Inv => StateReported
  BY DEF Inv, Alive, Told, StateReported
<1> QED
  BY <1>1, Invariance, PTL

=============================================================================
