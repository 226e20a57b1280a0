----------------------------- MODULE ListLemmas -----------------------------
(***************************************************************************)
(* What linking an entry into a list and unlinking one from it do to the   *)
(* sequence of its entries (list_add, list_add_tail and list_del).         *)
(***************************************************************************)
EXTENDS Integers, Sequences, SequencesExt, SequenceTheorems,
        WellFoundedInduction, TLAPS

(* A nonempty set of natural numbers has a least one. *)
LEMMA LeastNumber ==
    ASSUME NEW T \in SUBSET Nat, T # {}
    PROVE  \E k \in T : \A j \in T : k <= j
<1> DEFINE R == OpToRel(<, Nat)
<1>1. IsWellFoundedOn(R, Nat)
  BY NatLessThanWellFounded
<1>2. PICK k \in T : \A j \in T : ~ (<<j, k>> \in R)
  BY <1>1, WFMin
<1>3. \A j \in T : ~ (j < k)
  BY <1>2 DEF OpToRel
<1> QED
  BY <1>3

(* A function on 1..n is a sequence of length n. *)
LEMMA FunctionIsSeq ==
    ASSUME NEW S, NEW n \in Nat, NEW f \in [1..n -> S]
    PROVE  f \in Seq(S) /\ Len(f) = n
  OBVIOUS

(* What follows the first k entries. *)
LEMMA SuffixFacts ==
    ASSUME NEW S, NEW s \in Seq(S), NEW k \in 0..Len(s)
    PROVE  /\ SubSeq(s, k + 1, Len(s)) \in Seq(S)
           /\ Len(SubSeq(s, k + 1, Len(s))) = Len(s) - k
           /\ \A i \in 1..(Len(s) - k) :
                 SubSeq(s, k + 1, Len(s))[i] = s[k + i]
  BY SubSeqProperties

(* InsertAt puts e at place k and moves what was there one place on. *)
LEMMA InsertAtFacts ==
    ASSUME NEW S, NEW s \in Seq(S), NEW e \in S, NEW k \in 1..(Len(s) + 1)
    PROVE  /\ InsertAt(s, k, e) \in Seq(S)
           /\ Len(InsertAt(s, k, e)) = Len(s) + 1
           /\ \A i \in 1..(Len(s) + 1) :
                 InsertAt(s, k, e)[i] = IF i < k THEN s[i]
                                        ELSE IF i = k THEN e ELSE s[i - 1]
<1> DEFINE a == SubSeq(s, 1, k - 1)
           b == SubSeq(s, k, Len(s))
<1>1. /\ a \in Seq(S)
      /\ Len(a) = k - 1
      /\ \A i \in 1..(k - 1) : a[i] = s[i]
  BY SubSeqProperties
<1>2. /\ b \in Seq(S)
      /\ Len(b) = Len(s) - k + 1
      /\ \A i \in 1..(Len(s) - k + 1) : b[i] = s[k + i - 1]
  BY SubSeqProperties
<1>3. /\ <<e>> \in Seq(S)
      /\ Len(<<e>>) = 1
      /\ <<e>>[1] = e
  OBVIOUS
<1> HIDE DEF a, b
<1>4. /\ a \o <<e>> \in Seq(S)
      /\ Len(a \o <<e>>) = k
      /\ \A i \in 1..k : (a \o <<e>>)[i] = IF i < k THEN a[i] ELSE e
  BY <1>1, <1>3, ConcatProperties
<1>5. /\ (a \o <<e>>) \o b \in Seq(S)
      /\ Len((a \o <<e>>) \o b) = Len(s) + 1
      /\ \A i \in 1..(Len(s) + 1) :
            ((a \o <<e>>) \o b)[i] = IF i <= k THEN (a \o <<e>>)[i]
                                     ELSE b[i - k]
  BY <1>2, <1>4, ConcatProperties
<1>6. InsertAt(s, k, e) = (a \o <<e>>) \o b
  BY DEF InsertAt, a, b
<1> QED
  BY <1>1, <1>2, <1>4, <1>5, <1>6

(* RemoveAt closes the gap at place k. *)
LEMMA RemoveAtFacts ==
    ASSUME NEW S, NEW s \in Seq(S), NEW k \in 1..Len(s)
    PROVE  /\ RemoveAt(s, k) \in Seq(S)
           /\ Len(RemoveAt(s, k)) = Len(s) - 1
           /\ \A i \in 1..(Len(s) - 1) :
                 RemoveAt(s, k)[i] = IF i < k THEN s[i] ELSE s[i + 1]
<1> DEFINE a == SubSeq(s, 1, k - 1)
           b == SubSeq(s, k + 1, Len(s))
<1>1. /\ a \in Seq(S)
      /\ Len(a) = k - 1
      /\ \A i \in 1..(k - 1) : a[i] = s[i]
  BY SubSeqProperties
<1>2. /\ b \in Seq(S)
      /\ Len(b) = Len(s) - k
      /\ \A i \in 1..(Len(s) - k) : b[i] = s[k + i]
  BY SubSeqProperties
<1> HIDE DEF a, b
<1>3. /\ a \o b \in Seq(S)
      /\ Len(a \o b) = Len(a) + Len(b)
      /\ \A i \in 1..(Len(a) + Len(b)) :
            (a \o b)[i] = IF i <= Len(a) THEN a[i] ELSE b[i - Len(a)]
  BY <1>1, <1>2, ConcatProperties
<1>4. RemoveAt(s, k) = a \o b
  BY DEF RemoveAt, a, b
<1>5. Len(s) \in Nat /\ Len(a) + Len(b) = Len(s) - 1
  BY <1>1, <1>2
<1>6. ASSUME NEW i \in 1..(Len(s) - 1)
      PROVE  (a \o b)[i] = IF i < k THEN s[i] ELSE s[i + 1]
  <2>1. CASE i < k
    <3>1. i \in 1..(k - 1)
      BY <2>1
    <3> QED
      BY <1>1, <1>3, <1>5, <2>1, <3>1
  <2>2. CASE ~(i < k)
    <3>1. i - (k - 1) \in 1..(Len(s) - k)
      BY <2>2, <1>5
    <3>2. b[i - (k - 1)] = s[k + (i - (k - 1))]
      BY <1>2, <3>1
    <3>3. k + (i - (k - 1)) = i + 1
      OBVIOUS
    <3>4. (a \o b)[i] = b[i - (k - 1)]
      BY <1>1, <1>3, <1>5, <2>2
    <3> QED
      BY <2>2, <3>2, <3>3, <3>4
  <2> QED
    BY <2>1, <2>2
<1> QED
  BY <1>3, <1>4, <1>5, <1>6

\* r is s with e linked at place k: the order of the old entries is kept, and
\* e is behind those that were in front of place k.
InsertedAt(s, k, e, r) ==
    /\ \A i, j \in 1..Len(s) : i <= j =>
          \E m, n \in 1..Len(r) :
              /\ m <= n
              /\ r[m] = s[i]
              /\ r[n] = s[j]
    /\ \A m, n \in 1..Len(r) : m < n =>
          \/ \E i, j \in 1..Len(s) :
                 /\ i < j
                 /\ r[m] = s[i]
                 /\ r[n] = s[j]
          \/ \E j \in 1..Len(s) : /\ j >= k
                                  /\ r[m] = e
                                  /\ r[n] = s[j]
          \/ \E i \in 1..Len(s) : /\ i < k
                                  /\ r[m] = s[i]
                                  /\ r[n] = e
    /\ \E m \in 1..Len(r) : r[m] = e
    /\ \A m \in 1..Len(r) :
          \/ r[m] = e
          \/ \E i \in 1..Len(s) : r[m] = s[i]

\* r is s with place k unlinked: the order of the other entries is kept.
RemovedFrom(s, k, r) ==
    /\ \A i, j \in 1..Len(s) : i <= j /\ i # k /\ j # k =>
          \E m, n \in 1..Len(r) :
              /\ m <= n
              /\ r[m] = s[i]
              /\ r[n] = s[j]
    /\ \A m, n \in 1..Len(r) : m < n =>
          \E i, j \in 1..Len(s) :
              /\ i < j /\ i # k /\ j # k
              /\ r[m] = s[i]
              /\ r[n] = s[j]
    /\ \A m \in 1..Len(r) :
          \E i \in 1..Len(s) : i # k /\ r[m] = s[i]

(* InsertAt links, and RemoveAt unlinks, one entry.                        *)
LEMMA InsertAtOrder ==
    ASSUME NEW S, NEW s \in Seq(S), NEW e \in S, NEW k \in 1..(Len(s) + 1),
           NEW r, r = InsertAt(s, k, e)
    PROVE  InsertedAt(s, k, e, r)
<1>1. /\ Len(s) \in Nat /\ Len(r) = Len(s) + 1
      /\ \A i \in 1..(Len(s) + 1) :
            r[i] = IF i < k THEN s[i] ELSE IF i = k THEN e ELSE s[i - 1]
  BY InsertAtFacts, SMTT(30)
<1>2. \A i \in 1..Len(s) : /\ i < k => r[i] = s[i]
                           /\ i >= k => r[i + 1] = s[i]
  BY <1>1
<1>3. ASSUME NEW i \in 1..Len(s), NEW j \in 1..Len(s), i <= j
      PROVE  \E m, n \in 1..Len(r) : m <= n /\ r[m] = s[i] /\ r[n] = s[j]
  <2>1. CASE j < k
    BY <1>1, <1>2, <1>3, <2>1
  <2>2. CASE i < k /\ j >= k
    <3>1. j + 1 \in 1..Len(r) /\ i \in 1..Len(r) /\ i <= j + 1
      BY <1>1, <1>3
    <3> QED
      BY <1>2, <2>2, <3>1
  <2>3. CASE i >= k
    <3>1. /\ j + 1 \in 1..Len(r) /\ i + 1 \in 1..Len(r) /\ i + 1 <= j + 1
          /\ j >= k
      BY <1>1, <1>3, <2>3
    <3> QED
      BY <1>2, <2>3, <3>1
  <2> QED
    BY <2>1, <2>2, <2>3
<1>4. ASSUME NEW m \in 1..Len(r), NEW n \in 1..Len(r), m < n
      PROVE  \/ \E i, j \in 1..Len(s) : i < j /\ r[m] = s[i] /\ r[n] = s[j]
             \/ \E j \in 1..Len(s) : j >= k /\ r[m] = e /\ r[n] = s[j]
             \/ \E i \in 1..Len(s) : i < k /\ r[m] = s[i] /\ r[n] = e
  <2>1. CASE n < k
    BY <1>1, <1>4, <2>1
  <2>2. CASE n = k
    BY <1>1, <1>4, <2>2
  <2>3. CASE n > k
    <3>1. n - 1 \in 1..Len(s) /\ r[n] = s[n - 1] /\ n - 1 >= k
      BY <1>1, <2>3
    <3>2. CASE m < k
      <4>1. m \in 1..Len(s) /\ r[m] = s[m] /\ m < n - 1
        BY <1>1, <2>3, <3>2
      <4> QED
        BY <3>1, <4>1
    <3>3. CASE m = k
      BY <1>1, <3>1, <3>3
    <3>4. CASE m > k
      <4>1. m - 1 \in 1..Len(s) /\ r[m] = s[m - 1] /\ m - 1 < n - 1
        BY <1>1, <1>4, <3>4
      <4> QED
        BY <3>1, <4>1
    <3> QED
      BY <3>2, <3>3, <3>4
  <2> QED
    BY <1>1, <2>1, <2>2, <2>3
<1>5. k \in 1..Len(r) /\ r[k] = e
  BY <1>1
<1>6. ASSUME NEW m \in 1..Len(r)
      PROVE  r[m] = e \/ \E i \in 1..Len(s) : r[m] = s[i]
  <2>1. CASE m > k
    <3>1. m - 1 \in 1..Len(s) /\ r[m] = s[m - 1]
      BY <1>1, <2>1
    <3> QED
      BY <3>1
  <2> QED
    BY <1>1, <2>1
<1> QED
  BY <1>3, <1>4, <1>5, <1>6, SMTT(30) DEF InsertedAt

LEMMA RemoveAtOrder ==
    ASSUME NEW S, NEW s \in Seq(S), NEW k \in 1..Len(s),
           NEW r, r = RemoveAt(s, k)
    PROVE  RemovedFrom(s, k, r)
<1>0. /\ Len(r) = Len(s) - 1
      /\ \A i \in 1..(Len(s) - 1) : r[i] = IF i < k THEN s[i] ELSE s[i + 1]
  BY RemoveAtFacts, ZenonT(60)
<1>1. /\ Len(s) \in Nat /\ Len(r) = Len(s) - 1
      /\ \A i \in 1..(Len(s) - 1) : r[i] = IF i < k THEN s[i] ELSE s[i + 1]
  BY <1>0
<1>2. ASSUME NEW i \in 1..Len(s), i # k
      PROVE  /\ i < k => i \in 1..Len(r) /\ r[i] = s[i]
             /\ i > k => i - 1 \in 1..Len(r) /\ r[i - 1] = s[i]
  <2>1. CASE i > k
    <3>1. i - 1 \in 1..(Len(s) - 1) /\ ~(i - 1 < k) /\ (i - 1) + 1 = i
      BY <1>1, <2>1
    <3>2. r[i - 1] = s[(i - 1) + 1]
      BY <1>1, <3>1
    <3> QED
      BY <1>1, <2>1, <3>1, <3>2
  <2> QED
    BY <1>1, <1>2, <2>1
<1>3. ASSUME NEW i \in 1..Len(s), NEW j \in 1..Len(s), i <= j,
             i # k, j # k
      PROVE  \E m, n \in 1..Len(r) : m <= n /\ r[m] = s[i] /\ r[n] = s[j]
  <2>1. CASE j < k
    <3>1. i < k
      BY <1>3, <2>1
    <3> QED
      BY <1>2, <1>3, <2>1, <3>1
  <2>2. CASE i < k /\ j > k
    <3>1. i <= j - 1
      BY <2>2
    <3> QED
      BY <1>2, <1>3, <2>2, <3>1
  <2>3. CASE i > k
    <3>1. i - 1 <= j - 1 /\ j > k
      BY <1>3, <2>3
    <3> QED
      BY <1>2, <1>3, <2>3, <3>1
  <2> QED
    BY <1>3, <2>1, <2>2, <2>3
\* The place in s of what is at place m of r.
<1>4. ASSUME NEW m \in 1..Len(r)
      PROVE  /\ m < k => m \in 1..Len(s) /\ r[m] = s[m]
             /\ m >= k => /\ m + 1 \in 1..Len(s) /\ m + 1 # k
                          /\ r[m] = s[m + 1]
  BY <1>1
<1>5. ASSUME NEW m \in 1..Len(r), NEW n \in 1..Len(r), m < n
      PROVE  \E i, j \in 1..Len(s) : /\ i < j /\ i # k /\ j # k
                                     /\ r[m] = s[i] /\ r[n] = s[j]
  <2>1. CASE n < k
    <3>1. m < k /\ m # k /\ n # k
      BY <1>5, <2>1
    <3> QED
      BY <1>4, <1>5, <2>1, <3>1
  <2>2. CASE m < k /\ n >= k
    <3>1. m < n + 1 /\ m # k
      BY <1>5, <2>2
    <3> QED
      BY <1>4, <2>2, <3>1
  <2>3. CASE m >= k
    <3>1. m + 1 < n + 1 /\ n >= k
      BY <1>5, <2>3
    <3> QED
      BY <1>4, <2>3, <3>1
  <2> QED
    BY <2>1, <2>2, <2>3
<1>6. ASSUME NEW m \in 1..Len(r)
      PROVE  \E i \in 1..Len(s) : i # k /\ r[m] = s[i]
  <2>1. CASE m < k
    <3>1. m # k
      BY <2>1
    <3> QED
      BY <1>4, <2>1, <3>1
  <2>2. CASE m >= k
    BY <1>4, <2>2
  <2> QED
    BY <2>1, <2>2
<1>7. \A i, j \in 1..Len(s) : i <= j /\ i # k /\ j # k =>
         \E m, n \in 1..Len(r) : m <= n /\ r[m] = s[i] /\ r[n] = s[j]
  BY <1>3
<1>8. \A m, n \in 1..Len(r) : m < n =>
         \E i, j \in 1..Len(s) : /\ i < j /\ i # k /\ j # k
                                 /\ r[m] = s[i] /\ r[n] = s[j]
  BY <1>5
<1> QED
  BY <1>6, <1>7, <1>8, ZenonT(60) DEF RemovedFrom
-----------------------------------------------------------------------------
(* The entries of a list.                                                  *)
LEMMA EntriesFacts ==
    ASSUME NEW S, NEW s \in Seq(S)
    PROVE  /\ ToSet(s) \subseteq S
           /\ \A x : x \in ToSet(s) <=> \E i \in 1..Len(s) : s[i] = x
           /\ \A i \in 1..Len(s) : s[i] \in ToSet(s)
           /\ s = <<>> <=> ToSet(s) = {}
<1>1. DOMAIN s = 1..Len(s) /\ Len(s) \in Nat
  OBVIOUS
<1>2. \A i \in 1..Len(s) : s[i] \in S
  BY ElementOfSeq
<1>3. \A x : x \in ToSet(s) <=> \E i \in 1..Len(s) : s[i] = x
  BY <1>1 DEF ToSet
<1>4. s = <<>> <=> ToSet(s) = {}
  <2>1. CASE s = <<>>
    <3>1. Len(s) = 0
      BY <2>1
    <3> QED
      BY <1>3, <2>1, <3>1
  <2>2. CASE s # <<>>
    <3>1. 1 \in 1..Len(s)
      BY <1>1, <2>2
    <3> QED
      BY <1>3, <2>2, <3>1
  <2> QED
    BY <2>1, <2>2
<1> QED
  BY <1>2, <1>3, <1>4

LEMMA EntriesOfOne ==
    ASSUME NEW S, NEW x \in S
    PROVE  /\ <<x>> \in Seq(S) /\ Len(<<x>>) = 1
           /\ ToSet(<<x>>) = {x}
           /\ IsInjective(<<x>>)
  BY DEF ToSet, IsInjective

LEMMA EntriesOfConcat ==
    ASSUME NEW S, NEW s \in Seq(S), NEW u \in Seq(S)
    PROVE  /\ s \o u \in Seq(S)
           /\ Len(s \o u) = Len(s) + Len(u)
           /\ ToSet(s \o u) = ToSet(s) \cup ToSet(u)
           /\ IsInjective(s) /\ IsInjective(u) /\ ToSet(s) \cap ToSet(u) = {}
                 => IsInjective(s \o u)
<1> DEFINE r == s \o u
<1>1. /\ r \in Seq(S) /\ Len(r) = Len(s) + Len(u)
      /\ \A i \in 1..(Len(s) + Len(u)) :
            r[i] = IF i <= Len(s) THEN s[i] ELSE u[i - Len(s)]
      /\ Len(s) \in Nat /\ Len(u) \in Nat
      /\ DOMAIN s = 1..Len(s) /\ DOMAIN u = 1..Len(u)
      /\ DOMAIN r = 1..(Len(s) + Len(u))
  BY ConcatProperties
<1> HIDE DEF r
<1>2. \A i \in 1..(Len(s) + Len(u)) :
         \/ i \in 1..Len(s) /\ r[i] = s[i]
         \/ i - Len(s) \in 1..Len(u) /\ r[i] = u[i - Len(s)]
  BY <1>1
<1>3. \A i \in 1..Len(s) : i \in DOMAIN r /\ r[i] = s[i]
  BY <1>1
<1>4. \A i \in 1..Len(u) : i + Len(s) \in DOMAIN r /\ r[i + Len(s)] = u[i]
  <2> SUFFICES ASSUME NEW i \in 1..Len(u)
               PROVE  i + Len(s) \in DOMAIN r /\ r[i + Len(s)] = u[i]
    OBVIOUS
  <2>1. /\ i + Len(s) \in 1..(Len(s) + Len(u))
        /\ ~(i + Len(s) <= Len(s)) /\ (i + Len(s)) - Len(s) = i
    BY <1>1
  <2>2. r[i + Len(s)] = u[(i + Len(s)) - Len(s)]
    BY <1>1, <2>1
  <2> QED
    BY <1>1, <2>1, <2>2
<1>5. ToSet(r) = ToSet(s) \cup ToSet(u)
  <2>1. \A x \in ToSet(r) : x \in ToSet(s) \cup ToSet(u)
    BY <1>1, <1>2 DEF ToSet
  <2>2. \A x \in ToSet(s) : x \in ToSet(r)
    BY <1>1, <1>3 DEF ToSet
  <2>3. \A x \in ToSet(u) : x \in ToSet(r)
    BY <1>1, <1>4 DEF ToSet
  <2> QED
    BY <2>1, <2>2, <2>3
<1>6. ASSUME IsInjective(s), IsInjective(u), ToSet(s) \cap ToSet(u) = {}
      PROVE  IsInjective(r)
  <2> SUFFICES ASSUME NEW i \in 1..(Len(s) + Len(u)),
                      NEW j \in 1..(Len(s) + Len(u)), r[i] = r[j]
               PROVE  i = j
    BY <1>1 DEF IsInjective
  <2>1. CASE i \in 1..Len(s) /\ j \in 1..Len(s)
    BY <1>1, <1>3, <1>6, <2>1 DEF IsInjective
  <2>2. CASE i \notin 1..Len(s) /\ j \notin 1..Len(s)
    <3>1. /\ i - Len(s) \in DOMAIN u /\ r[i] = u[i - Len(s)]
          /\ j - Len(s) \in DOMAIN u /\ r[j] = u[j - Len(s)]
      BY <1>1, <1>2, <2>2
    <3>2. \A k, l \in DOMAIN u : u[k] = u[l] => k = l
      BY <1>6 DEF IsInjective
    <3>3. i - Len(s) = j - Len(s)
      BY <3>1, <3>2
    <3> QED
      BY <1>1, <3>3
  <2>3. CASE i \in 1..Len(s) /\ j \notin 1..Len(s)
    BY <1>1, <1>2, <1>3, <1>6, <2>3 DEF ToSet
  <2>4. CASE i \notin 1..Len(s) /\ j \in 1..Len(s)
    BY <1>1, <1>2, <1>3, <1>6, <2>4 DEF ToSet
  <2> QED
    BY <2>1, <2>2, <2>3, <2>4
<1> QED
  BY <1>1, <1>5, <1>6 DEF r

LEMMA EntriesOfAppend ==
    ASSUME NEW S, NEW s \in Seq(S), NEW x \in S
    PROVE  /\ Append(s, x) \in Seq(S)
           /\ Len(Append(s, x)) = Len(s) + 1
           /\ ToSet(Append(s, x)) = ToSet(s) \cup {x}
           /\ IsInjective(s) /\ x \notin ToSet(s) => IsInjective(Append(s, x))
<1>1. Append(s, x) = s \o <<x>>
  BY AppendIsConcat
<1>2. /\ <<x>> \in Seq(S) /\ Len(<<x>>) = 1
      /\ ToSet(<<x>>) = {x} /\ IsInjective(<<x>>)
  BY EntriesOfOne
<1>3. /\ s \o <<x>> \in Seq(S)
      /\ Len(s \o <<x>>) = Len(s) + Len(<<x>>)
      /\ ToSet(s \o <<x>>) = ToSet(s) \cup ToSet(<<x>>)
  BY <1>2, EntriesOfConcat, ZenonT(60)
<1>4. ASSUME IsInjective(s), x \notin ToSet(s)
      PROVE  IsInjective(s \o <<x>>)
  <2>1. ToSet(s) \cap ToSet(<<x>>) = {}
    BY <1>2, <1>4
  <2> QED
    BY <1>2, <1>4, <2>1, EntriesOfConcat
<1> QED
  BY <1>1, <1>2, <1>3, <1>4

(* The last entry and those in front of it.                                *)
LEMMA FrontLastFacts ==
    ASSUME NEW S, NEW s \in Seq(S), s # <<>>
    PROVE  /\ Front(s) \in Seq(S)
           /\ Len(Front(s)) = Len(s) - 1
           /\ \A i \in 1..(Len(s) - 1) : Front(s)[i] = s[i]
           /\ Last(s) \in S
           /\ Last(s) = s[Len(s)]
           /\ Len(s) \in 1..Len(s)
           /\ ToSet(s) = ToSet(Front(s)) \cup {Last(s)}
<1> DEFINE n == Len(s) - 1
<1>1. Len(s) \in Nat /\ Len(s) > 0 /\ n \in Nat /\ 1 \in Int /\ n \in Int
  OBVIOUS
<1>2. \A i \in 1..n : s[i] \in S
  BY <1>1, ElementOfSeq
<1> HIDE DEF n
<1>14. \A i \in 1..n : i \in Int
  BY <1>1
<1>15. \A i \in Int : 1 + i - 1 = i
  OBVIOUS
<1>16. \A i \in 1..n : 1 + i - 1 = i
  BY <1>14, <1>15
<1>3. n - 1 + 1 = n /\ (n < 1 => n = 0)
  BY <1>1
<1>4. /\ SubSeq(s, 1, n) \in Seq(S)
      /\ Len(SubSeq(s, 1, n)) = IF 1 <= n THEN n - 1 + 1 ELSE 0
      /\ \A i \in 1..(n - 1 + 1) : SubSeq(s, 1, n)[i] = s[1 + i - 1]
  BY <1>1, <1>2, SubSeqProperties
<1>5. Len(SubSeq(s, 1, n)) = n
  BY <1>1, <1>4
<1>6. \A i \in 1..n : SubSeq(s, 1, n)[i] = s[i]
  BY <1>1, <1>3, <1>16, <1>4
<1>7. Front(s) = SubSeq(s, 1, n)
  BY DEF Front, n
<1>8. /\ Front(s) \in Seq(S) /\ Len(Front(s)) = n
      /\ \A i \in 1..n : Front(s)[i] = s[i]
  BY <1>4, <1>5, <1>6, <1>7
<1>9. Last(s) = s[Len(s)] /\ Len(s) \in 1..Len(s)
  BY <1>1 DEF Last
<1>10. Last(s) \in S
  BY <1>9, ElementOfSeq
<1>11. /\ \A x : x \in ToSet(s) <=> \E i \in 1..Len(s) : s[i] = x
       /\ \A x : x \in ToSet(Front(s)) <=>
                    \E i \in 1..n : Front(s)[i] = x
  BY <1>8, EntriesFacts
<1>12. \A i : i \in 1..Len(s) <=> i = Len(s) \/ i \in 1..n
  BY <1>1 DEF n
<1>13. ToSet(s) = ToSet(Front(s)) \cup {Last(s)}
  <2>1. ASSUME NEW x \in ToSet(s)
        PROVE  x \in ToSet(Front(s)) \cup {Last(s)}
    <3>1. PICK i \in 1..Len(s) : s[i] = x
      BY <1>11
    <3> QED
      BY <1>8, <1>9, <1>11, <1>12, <3>1
  <2>2. ASSUME NEW x \in ToSet(Front(s))
        PROVE  x \in ToSet(s)
    <3>1. PICK i \in 1..n : Front(s)[i] = x
      BY <1>11
    <3> QED
      BY <1>8, <1>11, <1>12, <3>1
  <2>3. Last(s) \in ToSet(s)
    BY <1>9, <1>11
  <2> QED
    BY <2>1, <2>2, <2>3
<1> QED
  BY <1>8, <1>9, <1>10, <1>13 DEF n

(* The first entry and those behind it.                                    *)
LEMMA HeadTailFacts ==
    ASSUME NEW S, NEW s \in Seq(S), s # <<>>
    PROVE  /\ Tail(s) \in Seq(S)
           /\ Len(Tail(s)) = Len(s) - 1
           /\ Head(s) \in S
           /\ Head(s) = s[1]
           /\ ToSet(s) = ToSet(Tail(s)) \cup {Head(s)}
           /\ IsInjective(s) => /\ Head(s) \notin ToSet(Tail(s))
                                /\ IsInjective(Tail(s))
<1>1. Len(s) \in Nat /\ Len(s) > 0 /\ DOMAIN s = 1..Len(s)
  OBVIOUS
<1>2. /\ Tail(s) \in Seq(S) /\ Len(Tail(s)) = Len(s) - 1
      /\ \A i \in 1..(Len(s) - 1) : Tail(s)[i] = s[i + 1]
      /\ Head(s) \in S /\ Head(s) = s[1]
  BY HeadTailProperties
<1>3. \A i \in 1..Len(s) :
         i = 1 \/ (i - 1 \in 1..(Len(s) - 1) /\ Tail(s)[i - 1] = s[i])
  <2> SUFFICES ASSUME NEW i \in 1..Len(s), i # 1
               PROVE  i - 1 \in 1..(Len(s) - 1) /\ Tail(s)[i - 1] = s[i]
    OBVIOUS
  <2>1. i - 1 \in 1..(Len(s) - 1) /\ (i - 1) + 1 = i
    BY <1>1
  <2> QED
    BY <1>2, <2>1
<1>4. \A i \in 1..(Len(s) - 1) : i + 1 \in 1..Len(s) /\ i + 1 # 1
  BY <1>1
<1>5. 1 \in 1..Len(s)
  BY <1>1
<1>6. /\ \A x : x \in ToSet(s) <=> \E i \in 1..Len(s) : s[i] = x
      /\ \A x : x \in ToSet(Tail(s)) <=>
                   \E i \in 1..Len(Tail(s)) : Tail(s)[i] = x
  BY <1>2, EntriesFacts
<1>7. ToSet(s) = ToSet(Tail(s)) \cup {Head(s)}
  <2>1. ASSUME NEW x \in ToSet(s)
        PROVE  x \in ToSet(Tail(s)) \cup {Head(s)}
    <3>1. PICK i \in 1..Len(s) : s[i] = x
      BY <1>6, <2>1
    <3> QED
      BY <1>2, <1>3, <1>6, <3>1
  <2>2. ASSUME NEW x \in ToSet(Tail(s))
        PROVE  x \in ToSet(s)
    <3>1. PICK i \in 1..(Len(s) - 1) : Tail(s)[i] = x
      BY <1>2, <1>6, <2>2
    <3> QED
      BY <1>2, <1>4, <1>6, <3>1
  <2>3. Head(s) \in ToSet(s)
    BY <1>2, <1>5, <1>6
  <2> QED
    BY <2>1, <2>2, <2>3
<1>8. ASSUME IsInjective(s)
      PROVE  Head(s) \notin ToSet(Tail(s)) /\ IsInjective(Tail(s))
  <2>1. \A i, j \in 1..Len(s) : s[i] = s[j] => i = j
    BY <1>1, <1>8 DEF IsInjective
  <2>2. Head(s) \notin ToSet(Tail(s))
    BY <1>2, <1>4, <1>5, <1>6, <2>1
  <2>3. ASSUME NEW i \in 1..(Len(s) - 1), NEW j \in 1..(Len(s) - 1),
               Tail(s)[i] = Tail(s)[j]
        PROVE  i = j
    <3>1. i + 1 = j + 1
      BY <1>2, <1>4, <2>1, <2>3
    <3> QED
      BY <1>1, <3>1
  <2>4. DOMAIN Tail(s) = 1..(Len(s) - 1)
    BY <1>2
  <2> QED
    BY <2>2, <2>3, <2>4 DEF IsInjective
<1> QED
  BY <1>2, <1>7, <1>8

(* Unlinking an entry that is on the list once.                            *)
LEMMA EntriesOfRemoveAt ==
    ASSUME NEW S, NEW s \in Seq(S), NEW k \in 1..Len(s), IsInjective(s)
    PROVE  /\ RemoveAt(s, k) \in Seq(S)
           /\ Len(RemoveAt(s, k)) = Len(s) - 1
           /\ ToSet(RemoveAt(s, k)) = ToSet(s) \ {s[k]}
           /\ IsInjective(RemoveAt(s, k))
<1> DEFINE r == RemoveAt(s, k)
<1>1. r \in Seq(S) /\ Len(r) = Len(s) - 1 /\ Len(s) \in Nat
  BY RemoveAtFacts
<1>2. RemovedFrom(s, k, r)
  BY RemoveAtOrder
<1> HIDE DEF r
<1>3. \A i, j \in 1..Len(s) : s[i] = s[j] => i = j
  BY DEF IsInjective
<1>4. /\ \A x : x \in ToSet(s) <=> \E i \in 1..Len(s) : s[i] = x
      /\ \A x : x \in ToSet(r) <=> \E i \in 1..Len(r) : r[i] = x
  BY <1>1, EntriesFacts
<1>5. \A m \in 1..Len(r) : \E i \in 1..Len(s) : i # k /\ r[m] = s[i]
  BY <1>2 DEF RemovedFrom
<1>6. \A i \in 1..Len(s) : i # k => \E m \in 1..Len(r) : r[m] = s[i]
  <2> SUFFICES ASSUME NEW i \in 1..Len(s), i # k
               PROVE  \E m \in 1..Len(r) : r[m] = s[i]
    OBVIOUS
  <2>1. i <= i
    BY <1>1
  <2> QED
    BY <1>2, <2>1 DEF RemovedFrom
<1>7. ToSet(r) = ToSet(s) \ {s[k]}
  <2>1. ASSUME NEW x \in ToSet(r)
        PROVE  x \in ToSet(s) \ {s[k]}
    <3>1. PICK m \in 1..Len(r) : r[m] = x
      BY <1>4, <2>1
    <3>2. PICK i \in 1..Len(s) : i # k /\ r[m] = s[i]
      BY <1>5
    <3> QED
      BY <1>3, <1>4, <3>1, <3>2
  <2>2. ASSUME NEW x \in ToSet(s) \ {s[k]}
        PROVE  x \in ToSet(r)
    <3>1. PICK i \in 1..Len(s) : s[i] = x
      BY <1>4, <2>2
    <3>2. i # k
      BY <2>2, <3>1
    <3> QED
      BY <1>4, <1>6, <3>1, <3>2
  <2> QED
    BY <2>1, <2>2
<1>8. IsInjective(r)
  <2>1. ASSUME NEW m \in 1..Len(r), NEW n \in 1..Len(r), m < n
        PROVE  r[m] # r[n]
    <3>1. PICK i \in 1..Len(s), j \in 1..Len(s) :
             i < j /\ r[m] = s[i] /\ r[n] = s[j]
      BY <1>2, <2>1 DEF RemovedFrom
    <3> QED
      BY <1>1, <1>3, <3>1
  <2>2. \A m, n \in 1..Len(r) : m # n => m < n \/ n < m
    BY <1>1
  <2>3. DOMAIN r = 1..Len(r)
    BY <1>1
  <2> QED
    BY <2>1, <2>2, <2>3 DEF IsInjective
<1> QED
  BY <1>1, <1>7, <1>8 DEF r
=============================================================================
