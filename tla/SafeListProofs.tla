--------------------------- MODULE SafeListProofs ---------------------------
(***************************************************************************)
(* Proofs about SafeList, for every finite set of entries and every depth  *)
(* of nested iterations.                                                   *)
(*                                                                         *)
(* The pointers are described by sequences: the list by that of its        *)
(* entries, and the chain of each node by that of its iterators.  The      *)
(* operations are first shown to change these sequences as expected, on    *)
(* any pointers; the inductive invariant then says that the sequences      *)
(* exist, and where in the list the iterators wait.                        *)
(***************************************************************************)
EXTENDS SafeList, ListLemmas, FunctionTheorems, FiniteSetTheorems, TLAPS

-----------------------------------------------------------------------------
(***************************************************************************)
(* The list.  Its nodes form a ring: HEAD, the entries of s in order, HEAD.*)
(***************************************************************************)
Node(s, k) == IF k \in 1..Len(s) THEN s[k] ELSE HEAD

IsRing(nx, pv, s) ==
    /\ nx \in [Nodes -> Nodes \cup {NULL}]
    /\ pv \in [Nodes -> Nodes \cup {NULL}]
    /\ s \in Seq(Entries)
    /\ IsInjective(s)
    /\ \A k \in 0..Len(s) : /\ nx[Node(s, k)] = Node(s, k + 1)
                            /\ pv[Node(s, k + 1)] = Node(s, k)
    /\ \A e \in Entries \ ToSet(s) : nx[e] = NULL

LEMMA NodeFacts ==
    ASSUME NEW s \in Seq(Entries)
    PROVE  /\ \A k : Node(s, k) \in Nodes
           /\ Node(s, 0) = HEAD
           /\ Node(s, Len(s) + 1) = HEAD
           /\ \A k \in 1..Len(s) : Node(s, k) = s[k] /\ s[k] \in Entries
<1>1. \A k \in 1..Len(s) : s[k] \in Entries
  BY ElementOfSeq
<1>2. Len(s) \in Nat
  OBVIOUS
<1> QED
  BY <1>1, <1>2 DEF Node, Nodes

(* The linked entries are those of the ring. *)
LEMMA RingLinked ==
    ASSUME NEW nx, NEW pv, NEW s, IsRing(nx, pv, s)
    PROVE  /\ {e \in Entries : nx[e] # NULL} = ToSet(s)
           /\ nx[HEAD] = Node(s, 1)
           /\ \A n \in Nodes : nx[n] # NULL => nx[n] \in Nodes /\ nx[nx[n]] # NULL
<1>1. /\ s \in Seq(Entries) /\ Len(s) \in Nat
      /\ \A k \in 0..Len(s) : nx[Node(s, k)] = Node(s, k + 1)
      /\ \A e \in Entries \ ToSet(s) : nx[e] = NULL
  BY DEF IsRing
<1>2. /\ \A k : Node(s, k) \in Nodes
      /\ Node(s, 0) = HEAD
      /\ Node(s, Len(s) + 1) = HEAD
      /\ \A k \in 1..Len(s) : Node(s, k) = s[k]
  BY <1>1, NodeFacts
<1>3. /\ \A x : x \in ToSet(s) <=> \E i \in 1..Len(s) : s[i] = x
      /\ ToSet(s) \subseteq Entries
  BY <1>1, EntriesFacts
<1>4. NULL \notin Nodes /\ Nodes = Entries \cup {HEAD}
  BY SafeListAssumption DEF Nodes
<1>5. \A k \in 0..Len(s) : nx[Node(s, k)] \in Nodes
  BY <1>1, <1>2
<1>6. \A e \in ToSet(s) : nx[e] # NULL
  BY <1>2, <1>3, <1>4, <1>5
<1>7. nx[HEAD] = Node(s, 1)
  BY <1>1, <1>2
<1>8. ASSUME NEW n \in Nodes, nx[n] # NULL
      PROVE  nx[n] \in Nodes /\ nx[nx[n]] # NULL
  <2>1. n = HEAD \/ n \in ToSet(s)
    BY <1>1, <1>4, <1>8
  <2>2. PICK k \in 0..Len(s) : n = Node(s, k)
    BY <2>1, <1>1, <1>2, <1>3
  <2>3. nx[n] = Node(s, k + 1)
    BY <2>2, <1>1
  <2>4. k + 1 \in 0..Len(s) \/ nx[n] = Node(s, 0)
    BY <2>2, <2>3, <1>1, <1>2
  <2>5. \E j \in 0..Len(s) : nx[n] = Node(s, j)
    BY <2>3, <2>4, <1>1
  <2> QED
    BY <2>3, <2>5, <1>2, <1>4, <1>5
<1> QED
  BY <1>1, <1>3, <1>6, <1>7, <1>8

(* Following nx from HEAD gives the entries of the ring. *)
LEMMA RingList ==
    ASSUME NEW nx, NEW pv, NEW s, IsRing(nx, pv, s)
    PROVE  ListOf(nx) = s
<1> DEFINE size == Cardinality({e \in Entries : nx[e] # NULL})
           step(f) == [k \in 0..size |-> IF k = 0 THEN HEAD ELSE nx[f[k - 1]]]
           walk == [k \in 0..size |-> Node(s, k)]
<1>1. /\ s \in Seq(Entries) /\ Len(s) \in Nat /\ IsInjective(s)
      /\ \A k \in 0..Len(s) : nx[Node(s, k)] = Node(s, k + 1)
  BY DEF IsRing
<1>2. /\ Node(s, 0) = HEAD
      /\ \A k \in 1..Len(s) : Node(s, k) = s[k]
  BY <1>1, NodeFacts
<1>3. size = Len(s)
  <2>1. {e \in Entries : nx[e] # NULL} = ToSet(s)
    BY RingLinked
  <2>2. \A x : x \in ToSet(s) <=> \E i \in 1..Len(s) : s[i] = x
    BY <1>1, EntriesFacts
  <2>3. s \in [1..Len(s) -> ToSet(s)]
    <3>1. \A i \in 1..Len(s) : s[i] \in ToSet(s)
      BY <2>2
    <3>2. s = [i \in 1..Len(s) |-> s[i]]
      BY <1>1
    <3> QED
      BY <3>1, <3>2
  <2>4. \A i, j \in 1..Len(s) : s[i] = s[j] => i = j
    BY <1>1 DEF IsInjective
  <2>5. s \in Bijection(1..Len(s), ToSet(s))
    BY <2>2, <2>3, <2>4, Fun_IsBij
  <2>6. ExistsBijection(1..Len(s), ToSet(s))
    BY <2>5 DEF ExistsBijection
  <2>7. IsFiniteSet(1..Len(s)) /\ Cardinality(1..Len(s)) = Len(s)
    <3>1. 1 \in Int /\ Len(s) \in Int
      BY <1>1
    <3>2. /\ IsFiniteSet(1..Len(s))
          /\ Cardinality(1..Len(s)) = IF 1 > Len(s) THEN 0 ELSE Len(s) - 1 + 1
      BY <3>1, FS_Interval
    <3> QED
      BY <3>2, <1>1
  <2>8. Cardinality(ToSet(s)) = Cardinality(1..Len(s))
    BY <2>6, <2>7, FS_Bijection
  <2> QED
    BY <2>1, <2>7, <2>8
<1>4. walk = step(walk)
  <2>1. ASSUME NEW k \in 0..size, k # 0
        PROVE  Node(s, k) = nx[walk[k - 1]]
    <3>1. k - 1 \in 0..size /\ k - 1 + 1 = k
      BY <2>1, <1>1, <1>3
    <3> QED
      BY <3>1, <1>1, <1>3
  <2> QED
    BY <2>1, <1>2
<1>5. ASSUME NEW f, f = step(f), NEW k \in 0..size
      PROVE  f[k] = Node(s, k)
  <2> DEFINE Bad == {j \in 0..size : f[j] # Node(s, j)}
  <2>1. SUFFICES ASSUME Bad # {} PROVE FALSE
    BY <1>5
  <2>2. Bad \subseteq Nat
    BY <1>1, <1>3
  <2>3. PICK j \in Bad : \A i \in Bad : j <= i
    BY <2>1, <2>2, LeastNumber
  <2>4. f[j] = IF j = 0 THEN HEAD ELSE nx[f[j - 1]]
    BY <2>3, <1>5
  <2>5. j # 0
    BY <2>3, <2>4, <1>2
  <2>6. j - 1 \in 0..size /\ j - 1 \notin Bad
    BY <2>3, <2>5, <1>1, <1>3
  <2>7. f[j] = nx[Node(s, j - 1)]
    BY <2>4, <2>5, <2>6
  <2>8. nx[Node(s, j - 1)] = Node(s, j)
    BY <2>6, <2>3, <1>1, <1>3
  <2> QED
    BY <2>3, <2>7, <2>8
<1>6. \E f : f = step(f)
  BY <1>4
<1>7. (CHOOSE f : f = step(f)) = step(CHOOSE f : f = step(f))
  BY <1>6
<1>8. ListOf(nx) = [k \in 1..size |-> (CHOOSE f : f = step(f))[k]]
  BY DEF ListOf
<1>9. \A k \in 1..size : (CHOOSE f : f = step(f))[k] = s[k]
  <2> DEFINE g == CHOOSE f : f = step(f)
  <2>1. g = step(g)
    BY <1>7
  <2> HIDE DEF g, step
  <2>2. \A k \in 0..size : g[k] = Node(s, k)
    BY <2>1, <1>5
  <2>3. \A k \in 1..size : g[k] = s[k]
    BY <2>2, <1>1, <1>2, <1>3
  <2> QED
    BY <2>3 DEF g
<1>10. s = [k \in 1..Len(s) |-> s[k]]
  BY <1>1
<1> QED
  BY <1>3, <1>8, <1>9, <1>10

(* No node is met twice on the way round. *)
LEMMA NodeInjective ==
    ASSUME NEW s \in Seq(Entries), IsInjective(s)
    PROVE  \A j, k \in 0..Len(s) : Node(s, j) = Node(s, k) => j = k
<1>1. /\ Len(s) \in Nat
      /\ \A j, k \in 1..Len(s) : s[j] = s[k] => j = k
  BY DEF IsInjective
<1>2. /\ Node(s, 0) = HEAD
      /\ \A k \in 1..Len(s) : Node(s, k) = s[k] /\ s[k] \in Entries
  BY NodeFacts
<1>3. HEAD \notin Entries
  BY SafeListAssumption
<1> QED
  BY <1>1, <1>2, <1>3

(* Linking e behind the node at place p. *)
LEMMA RingInsert ==
    ASSUME NEW nx, NEW pv, NEW s, IsRing(nx, pv, s),
           NEW e \in Entries \ ToSet(s), NEW p \in 0..Len(s),
           NEW r \in Seq(Entries), Len(r) = Len(s) + 1, IsInjective(r),
           ToSet(r) = ToSet(s) \cup {e},
           \A i \in 1..(Len(s) + 1) : r[i] = IF i <= p THEN s[i]
                                              ELSE IF i = p + 1 THEN e
                                              ELSE s[i - 1]
    PROVE  IsRing([nx EXCEPT ![e] = Node(s, p + 1), ![Node(s, p)] = e],
                  [pv EXCEPT ![Node(s, p + 1)] = e, ![e] = Node(s, p)], r)
<1> DEFINE nx2 == [nx EXCEPT ![e] = Node(s, p + 1), ![Node(s, p)] = e]
           pv2 == [pv EXCEPT ![Node(s, p + 1)] = e, ![e] = Node(s, p)]
           L == Len(s)
<1>1. /\ s \in Seq(Entries) /\ L \in Nat /\ IsInjective(s) /\ p \in 0..L
      /\ nx \in [Nodes -> Nodes \cup {NULL}]
      /\ pv \in [Nodes -> Nodes \cup {NULL}]
      /\ \A k \in 0..L : /\ nx[Node(s, k)] = Node(s, k + 1)
                         /\ pv[Node(s, k + 1)] = Node(s, k)
      /\ \A x \in Entries \ ToSet(s) : nx[x] = NULL
  BY DEF IsRing
<1>2. /\ \A k : Node(s, k) \in Nodes /\ Node(r, k) \in Nodes
      /\ Node(s, 0) = HEAD /\ Node(r, 0) = HEAD
      /\ Node(s, L + 1) = HEAD /\ Node(r, L + 2) = HEAD
      /\ \A k \in 1..L : Node(s, k) = s[k] /\ s[k] \in ToSet(s)
      /\ \A k \in 1..(L + 1) : Node(r, k) = r[k]
  <2>1. \A k \in 1..L : s[k] \in ToSet(s)
    BY <1>1, EntriesFacts
  <2>2. Len(r) + 1 = L + 2
    BY <1>1
  <2>3. /\ \A k : Node(s, k) \in Nodes
        /\ Node(s, 0) = HEAD /\ Node(s, L + 1) = HEAD
        /\ \A k \in 1..L : Node(s, k) = s[k]
    BY <1>1, NodeFacts
  <2>4. /\ \A k : Node(r, k) \in Nodes
        /\ Node(r, 0) = HEAD /\ Node(r, Len(r) + 1) = HEAD
        /\ \A k \in 1..Len(r) : Node(r, k) = r[k]
    BY NodeFacts
  <2> QED
    BY <2>1, <2>2, <2>3, <2>4
<1>3. \A k \in 0..(L + 2) : Node(r, k) = IF k <= p THEN Node(s, k)
                                         ELSE IF k = p + 1 THEN e
                                         ELSE Node(s, k - 1)
  <2> SUFFICES ASSUME NEW k \in 0..(L + 2)
               PROVE  Node(r, k) = IF k <= p THEN Node(s, k)
                                   ELSE IF k = p + 1 THEN e
                                   ELSE Node(s, k - 1)
    OBVIOUS
  <2>1. CASE k = 0
    BY <2>1, <1>1, <1>2
  <2>2. CASE k = L + 2
    <3>1. k > p /\ k # p + 1 /\ k - 1 = L + 1
      BY <2>2, <1>1
    <3> QED
      BY <3>1, <2>2, <1>2
  <2>3. CASE k \in 1..(L + 1)
    <3>1. Node(r, k) = IF k <= p THEN s[k] ELSE IF k = p + 1 THEN e ELSE s[k - 1]
      BY <2>3, <1>2
    <3>2. k <= p => k \in 1..L
      BY <2>3, <1>1
    <3>3. k > p + 1 => k - 1 \in 1..L
      BY <2>3, <1>1
    <3> QED
      BY <3>1, <3>2, <3>3, <1>1, <1>2
  <2> QED
    BY <2>1, <2>2, <2>3, <1>1
<1>4. /\ \A j, k \in 0..L : Node(s, j) = Node(s, k) => j = k
      /\ \A k \in 0..(L + 1) : Node(s, k) # e
      /\ e \in Nodes /\ e # HEAD
  <2>1. \A j, k \in 0..L : Node(s, j) = Node(s, k) => j = k
    BY <1>1, NodeInjective
  <2>2. e # HEAD /\ e \in Nodes
    BY SafeListAssumption DEF Nodes
  <2> QED
    BY <2>1, <2>2, <1>1, <1>2
<1>5. /\ nx2 \in [Nodes -> Nodes \cup {NULL}]
      /\ pv2 \in [Nodes -> Nodes \cup {NULL}]
      /\ nx2[e] = Node(s, p + 1) /\ nx2[Node(s, p)] = e
      /\ pv2[Node(s, p + 1)] = e /\ pv2[e] = Node(s, p)
      /\ \A n \in Nodes : n # e /\ n # Node(s, p) => nx2[n] = nx[n]
      /\ \A n \in Nodes : n # e /\ n # Node(s, p + 1) => pv2[n] = pv[n]
  BY <1>1, <1>2, <1>4
<1> HIDE DEF nx2, pv2, L
<1>6. ASSUME NEW k \in 0..(L + 1)
      PROVE  nx2[Node(r, k)] = Node(r, k + 1) /\ pv2[Node(r, k + 1)] = Node(r, k)
  <2>1. CASE k < p
    <3>1. /\ Node(r, k) = Node(s, k) /\ Node(r, k + 1) = Node(s, k + 1)
          /\ k \in 0..L /\ k + 1 \in 0..L
      BY <2>1, <1>1, <1>3
    <3>2. Node(s, k) # Node(s, p) /\ Node(s, k + 1) # Node(s, p + 1)
      BY <3>1, <2>1, <1>1, <1>2, <1>4
    <3> QED
      BY <3>1, <3>2, <1>1, <1>2, <1>4, <1>5
  <2>2. CASE k = p
    BY <2>2, <1>1, <1>3, <1>5
  <2>3. CASE k = p + 1
    BY <2>3, <1>1, <1>3, <1>5
  <2>4. CASE k > p + 1
    <3>1. /\ Node(r, k) = Node(s, k - 1) /\ Node(r, k + 1) = Node(s, k)
          /\ k - 1 \in 0..L /\ k - 1 + 1 = k
      BY <2>4, <1>1, <1>3
    <3>2. Node(s, k - 1) # Node(s, p) /\ Node(s, k) # Node(s, p + 1)
      BY <3>1, <2>4, <1>1, <1>2, <1>4
    <3>3. /\ Node(s, k - 1) # e /\ Node(s, k) # e
          /\ Node(s, k - 1) \in Nodes /\ Node(s, k) \in Nodes
      BY <3>1, <1>1, <1>2, <1>4
    <3>4. nx[Node(s, k - 1)] = Node(s, k) /\ pv[Node(s, k)] = Node(s, k - 1)
      BY <3>1, <1>1
    <3>5. nx2[Node(s, k - 1)] = Node(s, k)
      BY <3>2, <3>3, <3>4, <1>5
    <3>6. pv2[Node(s, k)] = Node(s, k - 1)
      BY <3>2, <3>3, <3>4, <1>5
    <3> QED
      BY <3>1, <3>5, <3>6
  <2>5. k < p \/ k = p \/ k = p + 1 \/ k > p + 1
    BY <1>1
  <2> QED
    BY <2>1, <2>2, <2>3, <2>4, <2>5
<1>7. ASSUME NEW x \in Entries \ ToSet(r)
      PROVE  nx2[x] = NULL
  <2>1. x \in Nodes /\ x # HEAD /\ x # e /\ x \notin ToSet(s)
    BY SafeListAssumption DEF Nodes
  <2>2. p = 0 \/ p \in 1..L
    BY <1>1
  <2>3. x # Node(s, p)
    BY <2>1, <2>2, <1>2
  <2> QED
    BY <2>1, <2>3, <1>1, <1>5
<1>8. Len(r) = L + 1
  BY DEF L
<1> QED
  BY <1>5, <1>6, <1>7, <1>8 DEF IsRing, nx2, pv2

(* The neighbours of the entry at place p; it is not its own. *)
LEMMA RingAround ==
    ASSUME NEW nx, NEW pv, NEW s, IsRing(nx, pv, s), NEW p \in 1..Len(s)
    PROVE  /\ nx[s[p]] = Node(s, p + 1) /\ pv[s[p]] = Node(s, p - 1)
           /\ Node(s, p + 1) # s[p] /\ Node(s, p - 1) # s[p]
<1>1. /\ s \in Seq(Entries) /\ Len(s) \in Nat /\ IsInjective(s)
      /\ \A k \in 0..Len(s) : /\ nx[Node(s, k)] = Node(s, k + 1)
                              /\ pv[Node(s, k + 1)] = Node(s, k)
  BY DEF IsRing
<1>2. /\ Node(s, 0) = HEAD /\ Node(s, Len(s) + 1) = HEAD
      /\ \A k \in 1..Len(s) : Node(s, k) = s[k] /\ s[k] \in Entries
  BY <1>1, NodeFacts
<1>3. \A j, k \in 0..Len(s) : Node(s, j) = Node(s, k) => j = k
  BY <1>1, NodeInjective
<1>4. /\ s[p] = Node(s, p) /\ s[p] # HEAD
      /\ p \in 0..Len(s) /\ p - 1 \in 0..Len(s) /\ p - 1 + 1 = p
  BY <1>1, <1>2, SafeListAssumption
<1>5. nx[s[p]] = Node(s, p + 1) /\ pv[s[p]] = Node(s, p - 1)
  BY <1>1, <1>4
<1>6. p + 1 = Len(s) + 1 \/ p + 1 \in 0..Len(s)
  BY <1>1
<1>7. Node(s, p + 1) # s[p] /\ Node(s, p - 1) # s[p]
  BY <1>1, <1>2, <1>3, <1>4, <1>6
<1> QED
  BY <1>5, <1>7

(* Unlinking the entry at place p. *)
LEMMA RingRemove ==
    ASSUME NEW nx, NEW pv, NEW s, IsRing(nx, pv, s), NEW p \in 1..Len(s)
    PROVE  IsRing([nx EXCEPT ![Node(s, p - 1)] = Node(s, p + 1), ![s[p]] = NULL],
                  [pv EXCEPT ![Node(s, p + 1)] = Node(s, p - 1), ![s[p]] = NULL],
                  RemoveAt(s, p))
<1> DEFINE nx2 == [nx EXCEPT ![Node(s, p - 1)] = Node(s, p + 1), ![s[p]] = NULL]
           pv2 == [pv EXCEPT ![Node(s, p + 1)] = Node(s, p - 1), ![s[p]] = NULL]
           L == Len(s)
           r == RemoveAt(s, p)
<1>1. /\ s \in Seq(Entries) /\ L \in Nat /\ IsInjective(s)
      /\ nx \in [Nodes -> Nodes \cup {NULL}]
      /\ pv \in [Nodes -> Nodes \cup {NULL}]
      /\ \A k \in 0..L : /\ nx[Node(s, k)] = Node(s, k + 1)
                         /\ pv[Node(s, k + 1)] = Node(s, k)
      /\ \A x \in Entries \ ToSet(s) : nx[x] = NULL
  BY DEF IsRing
<1>2. /\ r \in Seq(Entries) /\ Len(r) = L - 1
      /\ ToSet(r) = ToSet(s) \ {s[p]} /\ IsInjective(r)
      /\ \A i \in 1..(L - 1) : r[i] = IF i < p THEN s[i] ELSE s[i + 1]
  <2>1. /\ r \in Seq(Entries) /\ Len(r) = L - 1
        /\ ToSet(r) = ToSet(s) \ {s[p]} /\ IsInjective(r)
    BY <1>1, EntriesOfRemoveAt
  <2>2. \A i \in 1..(L - 1) : r[i] = IF i < p THEN s[i] ELSE s[i + 1]
    BY <1>1, RemoveAtFacts
  <2> QED
    BY <2>1, <2>2
<1>3. /\ \A k : Node(s, k) \in Nodes
      /\ Node(s, 0) = HEAD /\ Node(s, L + 1) = HEAD
      /\ \A k \in 1..L : Node(s, k) = s[k] /\ s[k] \in Entries
  BY <1>1, NodeFacts
<1>4. \A k \in 0..L : Node(r, k) = IF k < p THEN Node(s, k) ELSE Node(s, k + 1)
  <2>1. /\ Node(r, 0) = HEAD /\ Node(r, Len(r) + 1) = HEAD
        /\ \A k \in 1..Len(r) : Node(r, k) = r[k]
    BY <1>2, NodeFacts
  <2> QED
    BY <2>1, <1>1, <1>2, <1>3, SMTT(30)
<1>5. /\ \A j, k \in 0..L : Node(s, j) = Node(s, k) => j = k
      /\ s[p] = Node(s, p) /\ s[p] \in Nodes /\ s[p] # HEAD
      /\ p \in 0..L /\ p - 1 \in 0..L /\ p - 1 + 1 = p
  <2>1. \A j, k \in 0..L : Node(s, j) = Node(s, k) => j = k
    BY <1>1, NodeInjective
  <2>2. s[p] # HEAD /\ s[p] \in Nodes
    BY <1>3, SafeListAssumption DEF Nodes
  <2> QED
    BY <2>1, <2>2, <1>1, <1>3
<1>7. Node(s, p + 1) # s[p] /\ Node(s, p - 1) # s[p]
  BY RingAround
<1>8. /\ nx2 \in [Nodes -> Nodes \cup {NULL}]
      /\ pv2 \in [Nodes -> Nodes \cup {NULL}]
      /\ nx2[s[p]] = NULL /\ nx2[Node(s, p - 1)] = Node(s, p + 1)
      /\ pv2[Node(s, p + 1)] = Node(s, p - 1)
      /\ \A n \in Nodes : n # s[p] /\ n # Node(s, p - 1) => nx2[n] = nx[n]
      /\ \A n \in Nodes : n # s[p] /\ n # Node(s, p + 1) => pv2[n] = pv[n]
  BY <1>1, <1>3, <1>5, <1>7
<1> HIDE DEF nx2, pv2, L, r
<1>9. ASSUME NEW k \in 0..(L - 1)
      PROVE  nx2[Node(r, k)] = Node(r, k + 1) /\ pv2[Node(r, k + 1)] = Node(r, k)
  <2>1. CASE k < p - 1
    <3>1. /\ Node(r, k) = Node(s, k) /\ Node(r, k + 1) = Node(s, k + 1)
          /\ k \in 0..L /\ k + 1 \in 0..L
      BY <2>1, <1>1, <1>4
    <3>2. /\ Node(s, k) # Node(s, p - 1) /\ Node(s, k) # s[p]
          /\ Node(s, k + 1) # Node(s, p + 1) /\ Node(s, k + 1) # s[p]
      BY <3>1, <2>1, <1>1, <1>3, <1>5
    <3> QED
      BY <3>1, <3>2, <1>1, <1>3, <1>8
  <2>2. CASE k = p - 1
    <3>1. Node(r, k) = Node(s, p - 1) /\ Node(r, k + 1) = Node(s, p + 1)
      BY <2>2, <1>1, <1>4, <1>5
    <3> QED
      BY <3>1, <1>8
  <2>3. CASE k > p - 1
    <3>1. /\ Node(r, k) = Node(s, k + 1) /\ Node(r, k + 1) = Node(s, k + 2)
          /\ k + 1 \in 0..L /\ k + 1 + 1 = k + 2 /\ k + 1 > p /\ p + 1 \in 0..L
      BY <2>3, <1>1, <1>4, <1>5
    <3>2. /\ Node(s, k + 1) # Node(s, p - 1) /\ Node(s, k + 1) # s[p]
          /\ Node(s, k + 2) # s[p]
      <4>1. k + 1 # p /\ k + 1 # p - 1
        BY <3>1, <1>5
      <4>2. Node(s, k + 1) # Node(s, p - 1) /\ Node(s, k + 1) # s[p]
        BY <4>1, <3>1, <1>5
      <4>3. CASE k + 2 \in 0..L
        <5>1. k + 2 # p
          BY <3>1, <1>5
        <5> QED
          BY <4>2, <4>3, <5>1, <1>5
      <4>4. CASE k + 2 = L + 1
        BY <4>2, <4>4, <1>3, <1>5
      <4> QED
        BY <4>3, <4>4, <1>1
    <3>3. Node(s, k + 2) # Node(s, p + 1)
      BY <3>1, <1>1, <1>3, <1>5
    <3> QED
      BY <3>1, <3>2, <3>3, <1>1, <1>3, <1>8
  <2> QED
    BY <2>1, <2>2, <2>3, <1>1
<1>10. ASSUME NEW x \in Entries \ ToSet(r)
       PROVE  nx2[x] = NULL
  <2>1. CASE x = s[p]
    BY <2>1, <1>8
  <2>2. CASE x # s[p]
    <3>1. x \in Nodes /\ x # HEAD /\ x \notin ToSet(s)
      BY <2>2, <1>2, SafeListAssumption DEF Nodes
    <3>2. \A k \in 1..L : s[k] \in ToSet(s)
      BY <1>1, EntriesFacts DEF L
    <3>3. x # Node(s, p - 1)
      BY <3>1, <3>2, <1>1, <1>3, <1>5
    <3> QED
      BY <3>1, <3>3, <2>2, <1>1, <1>8
  <2> QED
    BY <2>1, <2>2
<1>11. IsRing(nx2, pv2, r)
  <2>1. 0..Len(r) = 0..(L - 1)
    BY <1>2
  <2> QED
    BY <2>1, <1>2, <1>8, <1>9, <1>10 DEF IsRing
<1> QED
  BY <1>11 DEF nx2, pv2, r

-----------------------------------------------------------------------------
(***************************************************************************)
(* The chains of iterators.  The chain c of node n leads from n through    *)
(* the iterators of c, which wait for n, to NULL.                          *)
(***************************************************************************)
Spot(n, c, k) == IF k = 0 THEN n ELSE IF k = Len(c) + 1 THEN NULL ELSE c[k]

Pointers == [ptr   : [Nodes \cup Iterators -> Iterators \cup {NULL}],
             head  : [Iterators -> Nodes \cup Iterators \cup {NULL}],
             inext : [Iterators -> Nodes \cup {NULL}]]

IsChain(m, n, c) ==
    /\ c \in Seq(Iterators)
    /\ IsInjective(c)
    /\ \A k \in 0..Len(c) : m.ptr[Spot(n, c, k)] = Spot(n, c, k + 1)
    /\ \A k \in 1..Len(c) : m.head[c[k]] = Spot(n, c, k - 1)
    /\ \A k \in 1..Len(c) : m.inext[c[k]] = n

\* ch gives every node its chain, and A are the iterators in them.
Chains(m, ch, A) ==
    /\ m \in Pointers
    /\ DOMAIN ch = Nodes
    /\ \A n \in Nodes : IsChain(m, n, ch[n])
    /\ A \subseteq Iterators
    /\ \A i \in Iterators : i \in A <=> \E n \in Nodes : i \in ToSet(ch[n])

LEMMA SpotFacts ==
    ASSUME NEW n \in Nodes, NEW c \in Seq(Iterators), IsInjective(c)
    PROVE  /\ Spot(n, c, 0) = n
           /\ Spot(n, c, Len(c) + 1) = NULL
           /\ \A k \in 1..Len(c) : Spot(n, c, k) = c[k] /\ c[k] \in Iterators
           /\ \A j, k \in 0..(Len(c) + 1) :
                 Spot(n, c, j) = Spot(n, c, k) => j = k
<1>1. /\ Len(c) \in Nat
      /\ \A j, k \in 1..Len(c) : c[j] = c[k] => j = k
  BY DEF IsInjective
<1>2. \A k \in 1..Len(c) : c[k] \in Iterators
  BY ElementOfSeq
<1>3. n \notin Iterators /\ NULL \notin Iterators /\ n # NULL
  BY SafeListAssumption
<1> QED
  BY <1>1, <1>2, <1>3 DEF Spot

(* A chain is kept by what changes the pointers of other nodes and         *)
(* iterators only.                                                         *)
LEMMA ChainFrame ==
    ASSUME NEW m, NEW m2, NEW n \in Nodes, NEW c, IsChain(m, n, c),
           m2.ptr[n] = m.ptr[n],
           \A i \in ToSet(c) : /\ m2.ptr[i] = m.ptr[i]
                               /\ m2.head[i] = m.head[i]
                               /\ m2.inext[i] = m.inext[i]
    PROVE  IsChain(m2, n, c)
<1>1. /\ c \in Seq(Iterators) /\ IsInjective(c) /\ Len(c) \in Nat
      /\ \A k \in 0..Len(c) : m.ptr[Spot(n, c, k)] = Spot(n, c, k + 1)
      /\ \A k \in 1..Len(c) : m.head[c[k]] = Spot(n, c, k - 1)
      /\ \A k \in 1..Len(c) : m.inext[c[k]] = n
  BY DEF IsChain
<1>2. \A k \in 1..Len(c) : c[k] \in ToSet(c)
  BY <1>1, EntriesFacts
<1>3. Spot(n, c, 0) = n /\ \A k \in 1..Len(c) : Spot(n, c, k) = c[k]
  BY <1>1, SpotFacts
<1>4. \A k \in 0..Len(c) : m2.ptr[Spot(n, c, k)] = m.ptr[Spot(n, c, k)]
  BY <1>1, <1>2, <1>3
<1> QED
  BY <1>1, <1>2, <1>4 DEF IsChain

(* What the invariant says of single iterators: each belongs to the chain  *)
(* of the node it waits for, and its head pointer leads back to it.        *)
LEMMA ChainsFacts ==
    ASSUME NEW m, NEW ch, NEW A, Chains(m, ch, A)
    PROVE  /\ \A n \in Nodes : ToSet(ch[n]) = {i \in A : m.inext[i] = n}
           /\ \A i \in A : /\ m.ptr[m.head[i]] = i
                           /\ m.inext[i] \in Nodes
                           /\ m.head[i] \in Nodes \cup A
           /\ \A n \in Nodes : /\ m.ptr[n] # NULL => m.ptr[n] \in ToSet(ch[n])
                               /\ m.ptr[n] = NULL <=> ch[n] = <<>>
<1>1. ASSUME NEW n \in Nodes
      PROVE  /\ ch[n] \in Seq(Iterators) /\ Len(ch[n]) \in Nat
             /\ \A x : x \in ToSet(ch[n]) <=> \E k \in 1..Len(ch[n]) : ch[n][k] = x
             /\ \A k \in 1..Len(ch[n]) : /\ ch[n][k] \in ToSet(ch[n])
                                         /\ ch[n][k] \in Iterators
             /\ Spot(n, ch[n], 0) = n
             /\ Spot(n, ch[n], Len(ch[n]) + 1) = NULL
             /\ \A k \in 1..Len(ch[n]) : Spot(n, ch[n], k) = ch[n][k]
             /\ \A k \in 0..Len(ch[n]) :
                   m.ptr[Spot(n, ch[n], k)] = Spot(n, ch[n], k + 1)
             /\ \A k \in 1..Len(ch[n]) : m.head[ch[n][k]] = Spot(n, ch[n], k - 1)
             /\ \A k \in 1..Len(ch[n]) : m.inext[ch[n][k]] = n
  <2>1. IsChain(m, n, ch[n])
    BY <1>1 DEF Chains
  <2>2. ch[n] \in Seq(Iterators) /\ IsInjective(ch[n])
    BY <2>1 DEF IsChain
  <2>3. /\ Spot(n, ch[n], 0) = n
        /\ Spot(n, ch[n], Len(ch[n]) + 1) = NULL
        /\ \A k \in 1..Len(ch[n]) : Spot(n, ch[n], k) = ch[n][k]
    BY <2>2, SpotFacts
  <2>4. /\ \A x : x \in ToSet(ch[n]) <=> \E k \in 1..Len(ch[n]) : ch[n][k] = x
        /\ ToSet(ch[n]) \subseteq Iterators
    BY <2>2, EntriesFacts
  <2> QED
    BY <2>1, <2>2, <2>3, <2>4 DEF IsChain
<1>2. ASSUME NEW i \in A
      PROVE  \E n \in Nodes : \E k \in 1..Len(ch[n]) : ch[n][k] = i
  <2>1. PICK n \in Nodes : i \in ToSet(ch[n])
    BY DEF Chains
  <2>2. ch[n] \in Seq(Iterators)
    BY <1>1
  <2>3. \E k \in 1..Len(ch[n]) : ch[n][k] = i
    BY <2>1, <2>2, EntriesFacts
  <2> QED
    BY <2>3
<1>3. ASSUME NEW n \in Nodes
      PROVE  ToSet(ch[n]) = {i \in A : m.inext[i] = n}
  <2>1. ASSUME NEW i \in ToSet(ch[n])
        PROVE  i \in A /\ m.inext[i] = n
    <3>1. PICK k \in 1..Len(ch[n]) : ch[n][k] = i
      BY <1>1, SMTT(30)
    <3>2. i \in Iterators
      BY <3>1, <1>1
    <3>3. m.inext[ch[n][k]] = n
      BY <1>1
    <3>4. i \in A <=> \E x \in Nodes : i \in ToSet(ch[x])
      BY <3>2 DEF Chains
    <3> QED
      BY <3>1, <3>3, <3>4
  <2>2. ASSUME NEW i \in A, m.inext[i] = n
        PROVE  i \in ToSet(ch[n])
    <3>0. PICK n2 \in Nodes : \E k \in 1..Len(ch[n2]) : ch[n2][k] = i
      BY <1>2
    <3>1. PICK k \in 1..Len(ch[n2]) : ch[n2][k] = i
      BY <3>0
    <3>2. n2 = n
      BY <3>1, <2>2, <1>1
    <3> QED
      BY <3>1, <3>2, <1>1
  <2> QED
    BY <2>1, <2>2
<1>4. ASSUME NEW i \in A
      PROVE  /\ m.ptr[m.head[i]] = i
             /\ m.inext[i] \in Nodes
             /\ m.head[i] \in Nodes \cup A
  <2>0. PICK n \in Nodes : \E k \in 1..Len(ch[n]) : ch[n][k] = i
    BY <1>2
  <2>1. PICK k \in 1..Len(ch[n]) : ch[n][k] = i
    BY <2>0
  <2>2. /\ m.head[i] = Spot(n, ch[n], k - 1) /\ m.inext[i] = n
        /\ Spot(n, ch[n], k) = i
    BY <2>1, <1>1
  <2>3. k - 1 \in 0..Len(ch[n]) /\ k - 1 + 1 = k
    BY <1>1
  <2>4. m.ptr[Spot(n, ch[n], k - 1)] = Spot(n, ch[n], k)
    BY <2>3, <1>1
  <2>5. k = 1 \/ k - 1 \in 1..Len(ch[n])
    BY <1>1
  <2>6. Spot(n, ch[n], k - 1) \in Nodes \cup ToSet(ch[n])
    BY <2>5, <1>1
  <2> QED
    BY <2>2, <2>4, <2>6, <1>3
<1>5. ASSUME NEW n \in Nodes
      PROVE  /\ m.ptr[n] # NULL => m.ptr[n] \in ToSet(ch[n])
             /\ m.ptr[n] = NULL <=> ch[n] = <<>>
  <2>1. m.ptr[n] = Spot(n, ch[n], 1)
    BY <1>1
  <2>2. CASE ch[n] = <<>>
    <3>1. Len(ch[n]) + 1 = 1
      BY <2>2
    <3> QED
      BY <3>1, <2>1, <2>2, <1>1
  <2>3. CASE ch[n] # <<>>
    <3>1. 1 \in 1..Len(ch[n])
      BY <2>3, <1>1
    <3>2. m.ptr[n] = ch[n][1] /\ ch[n][1] \in ToSet(ch[n]) /\ ch[n][1] \in Iterators
      BY <3>1, <2>1, <1>1
    <3> QED
      BY <3>2, <2>3, SafeListAssumption
  <2> QED
    BY <2>2, <2>3
<1> QED
  BY <1>3, <1>4, <1>5

(* Following the pointers from a node finds the iterators of its chain.    *)
LEMMA ChainFound ==
    ASSUME NEW m, NEW n \in Nodes, NEW c, IsChain(m, n, c)
    PROVE  Chain(m, n) = ToSet(c)
<1> DEFINE Closed(C) == \A a \in C \cup {n} : m.ptr[a] \in C \cup {NULL}
<1>1. /\ c \in Seq(Iterators) /\ IsInjective(c) /\ Len(c) \in Nat
      /\ \A k \in 0..Len(c) : m.ptr[Spot(n, c, k)] = Spot(n, c, k + 1)
  BY DEF IsChain
<1>2. /\ Spot(n, c, 0) = n /\ Spot(n, c, Len(c) + 1) = NULL
      /\ \A k \in 1..Len(c) : Spot(n, c, k) = c[k] /\ c[k] \in Iterators
  BY <1>1, SpotFacts
<1>3. \A x : x \in ToSet(c) <=> \E k \in 1..Len(c) : c[k] = x
  BY <1>1, EntriesFacts
<1>4. Closed(ToSet(c))
  <2>1. ASSUME NEW a \in ToSet(c) \cup {n}
        PROVE  m.ptr[a] \in ToSet(c) \cup {NULL}
    <3>1. PICK k \in 0..Len(c) : a = Spot(n, c, k)
      BY <2>1, <1>1, <1>2, <1>3
    <3>2. m.ptr[a] = Spot(n, c, k + 1)
      BY <3>1, <1>1
    <3>3. k + 1 \in 1..Len(c) \/ k + 1 = Len(c) + 1
      BY <3>1, <1>1
    <3> QED
      BY <3>2, <3>3, <1>2, <1>3
  <2> QED
    BY <2>1
<1>5. ASSUME NEW C \in SUBSET Iterators, Closed(C), NEW k \in 1..Len(c)
      PROVE  c[k] \in C
  <2> DEFINE Bad == {j \in 1..Len(c) : c[j] \notin C}
  <2>1. SUFFICES ASSUME Bad # {} PROVE FALSE
    BY <1>5
  <2>2. Bad \in SUBSET Nat
    BY <1>1
  <2>3. PICK j \in Bad : \A i \in Bad : j <= i
    BY <2>1, <2>2, LeastNumber
  <2>4. j - 1 \in 0..Len(c) /\ j - 1 + 1 = j /\ j - 1 \notin Bad
    BY <2>3, <1>1
  <2>5. j - 1 = 0 \/ j - 1 \in 1..Len(c)
    BY <2>3, <1>1
  <2>6. Spot(n, c, j - 1) \in C \cup {n}
    BY <2>4, <2>5, <1>2
  <2>7. m.ptr[Spot(n, c, j - 1)] = c[j]
    BY <2>3, <2>4, <1>1, <1>2
  <2>8. m.ptr[Spot(n, c, j - 1)] \in C \cup {NULL}
    BY <2>6, <1>5
  <2>9. c[j] \in Iterators /\ NULL \notin Iterators
    BY <2>3, <1>2, SafeListAssumption
  <2> QED
    BY <2>3, <2>7, <2>8, <2>9
<1>6. ToSet(c) \subseteq Iterators
  BY <1>2, <1>3
<1>7. Chain(m, n) = {i \in Iterators : \A C \in SUBSET Iterators : Closed(C) => i \in C}
  BY DEF Chain
<1> HIDE DEF Closed
<1> QED
  BY <1>3, <1>4, <1>5, <1>6, <1>7

(* __safe_list_del_iterator takes an iterator out of its chain.            *)
LEMMA DelChains ==
    ASSUME NEW m, NEW ch, NEW A, Chains(m, ch, A), NEW i \in A
    PROVE  \E ch2 : Chains(DelIterator(m, i), ch2, A \ {i})
<1> DEFINE m2 == DelIterator(m, i)
<1>1. PICK n \in Nodes : i \in ToSet(ch[n])
  BY DEF Chains
<1> DEFINE c == ch[n]
<1>2. /\ c \in Seq(Iterators) /\ IsInjective(c) /\ Len(c) \in Nat
      /\ \A k \in 0..Len(c) : m.ptr[Spot(n, c, k)] = Spot(n, c, k + 1)
      /\ \A k \in 1..Len(c) : m.head[c[k]] = Spot(n, c, k - 1)
      /\ \A k \in 1..Len(c) : m.inext[c[k]] = n
  BY DEF Chains, IsChain
<1>3. PICK p \in 1..Len(c) : c[p] = i
  BY <1>1, <1>2, EntriesFacts
<1> DEFINE r == RemoveAt(c, p)
           L == Len(c)
           ch2 == [x \in Nodes |-> IF x = n THEN r ELSE ch[x]]
<1>4. /\ r \in Seq(Iterators) /\ Len(r) = L - 1
      /\ ToSet(r) = ToSet(c) \ {i} /\ IsInjective(r)
      /\ \A k \in 1..(L - 1) : r[k] = IF k < p THEN c[k] ELSE c[k + 1]
  <2>1. c \in Seq(Iterators) /\ IsInjective(c) /\ p \in 1..Len(c)
    BY <1>2
  <2>2. /\ r \in Seq(Iterators) /\ Len(r) = L - 1
        /\ ToSet(r) = ToSet(c) \ {c[p]} /\ IsInjective(r)
    <3> HIDE DEF c
    <3> QED
      BY <2>1, EntriesOfRemoveAt
  <2>3. \A k \in 1..(L - 1) : r[k] = IF k < p THEN c[k] ELSE c[k + 1]
    <3> HIDE DEF c
    <3> QED
      BY <2>1, RemoveAtFacts
  <2> QED
    BY <2>2, <2>3, <1>3, SMTT(30)
<1>5. /\ Spot(n, c, 0) = n /\ Spot(n, c, L + 1) = NULL
      /\ \A k \in 1..L : Spot(n, c, k) = c[k] /\ c[k] \in Iterators
      /\ \A j, k \in 0..(L + 1) : Spot(n, c, j) = Spot(n, c, k) => j = k
  BY <1>2, SpotFacts
<1>6. \A k \in 0..L : Spot(n, r, k) = IF k < p THEN Spot(n, c, k)
                                      ELSE Spot(n, c, k + 1)
  <2>1. /\ Spot(n, r, 0) = n /\ Spot(n, r, Len(r) + 1) = NULL
        /\ \A k \in 1..Len(r) : Spot(n, r, k) = r[k]
    BY <1>4, SpotFacts
  <2> SUFFICES ASSUME NEW k \in 0..L
               PROVE  Spot(n, r, k) = IF k < p THEN Spot(n, c, k)
                                      ELSE Spot(n, c, k + 1)
    OBVIOUS
  <2> HIDE DEF r
  <2>2. CASE k = 0
    BY <2>1, <2>2, <1>2, <1>5
  <2>3. CASE k = L /\ k # 0
    BY <2>1, <2>3, <1>2, <1>4, <1>5
  <2>4. CASE k \in 1..(L - 1)
    <3>1. Spot(n, r, k) = IF k < p THEN c[k] ELSE c[k + 1]
      BY <2>1, <2>4, <1>4
    <3>2. k \in 1..L /\ k + 1 \in 1..L
      BY <2>4, <1>2
    <3> QED
      BY <3>1, <3>2, <1>5
  <2> QED
    BY <2>2, <2>3, <2>4, <1>2
<1>7. /\ L \in Nat /\ p \in 1..L /\ p - 1 \in 0..L /\ p - 1 + 1 = p /\ p + 1 \in 0..(L + 1)
      /\ Spot(n, c, p) = i /\ i \in Iterators
      /\ m.head[i] = Spot(n, c, p - 1) /\ m.ptr[i] = Spot(n, c, p + 1)
  <2>1. L \in Nat /\ p \in 1..L /\ p - 1 \in 0..L /\ p - 1 + 1 = p /\ p \in 0..L
    BY <1>2
  <2>2. p + 1 \in 0..(L + 1)
    BY <2>1
  <2> QED
    BY <2>1, <2>2, <1>2, <1>3, <1>5
<1>8. /\ m \in Pointers
      /\ \A x \in Nodes : IsChain(m, x, ch[x])
      /\ A \subseteq Iterators
      /\ \A j \in Iterators : j \in A <=> \E x \in Nodes : j \in ToSet(ch[x])
  BY DEF Chains
<1>9. Spot(n, c, p - 1) \in Nodes \cup Iterators
  <2>1. p - 1 = 0 \/ p - 1 \in 1..L
    BY <1>7
  <2> QED
    BY <2>1, <1>5
<1>10. Spot(n, c, p + 1) \in Iterators \cup {NULL}
  <2>1. p + 1 = L + 1 \/ p + 1 \in 1..L
    BY <1>7
  <2> QED
    BY <2>1, <1>5
<1>11. /\ m2 \in Pointers
       /\ m2.ptr[Spot(n, c, p - 1)] = Spot(n, c, p + 1)
       /\ \A x \in Nodes \cup Iterators :
             x # Spot(n, c, p - 1) => m2.ptr[x] = m.ptr[x]
       /\ \A j \in Iterators :
             m2.head[j] = IF j = Spot(n, c, p + 1) THEN Spot(n, c, p - 1)
                          ELSE m.head[j]
       /\ m2.inext = m.inext
  BY <1>7, <1>8, <1>9, <1>10, SafeListAssumption DEF DelIterator, Pointers
<1> HIDE DEF m2, c, r, L
<1>12. IsChain(m2, n, r)
  <2>1. ASSUME NEW k \in 0..(L - 1)
        PROVE  m2.ptr[Spot(n, r, k)] = Spot(n, r, k + 1)
    <3>1. CASE k < p - 1
      <4>1. /\ Spot(n, r, k) = Spot(n, c, k) /\ Spot(n, r, k + 1) = Spot(n, c, k + 1)
            /\ k \in 0..L /\ k # p - 1
        BY <3>1, <1>6, <1>7
      <4>2. Spot(n, c, k) # Spot(n, c, p - 1) /\ Spot(n, c, k) \in Nodes \cup Iterators
        BY <4>1, <1>5, <1>7
      <4> QED
        BY <4>1, <4>2, <1>2, <1>11 DEF L
    <3>2. CASE k = p - 1
      <4>1. Spot(n, r, k) = Spot(n, c, p - 1) /\ Spot(n, r, k + 1) = Spot(n, c, p + 1)
        BY <3>2, <1>6, <1>7
      <4> QED
        BY <4>1, <1>11
    <3>3. CASE k > p - 1
      <4>1. /\ Spot(n, r, k) = Spot(n, c, k + 1)
            /\ Spot(n, r, k + 1) = Spot(n, c, k + 1 + 1)
            /\ k + 1 \in 1..L /\ k + 1 # p - 1 /\ k + 1 \in 0..L
        BY <3>3, <1>6, <1>7
      <4>2. Spot(n, c, k + 1) # Spot(n, c, p - 1) /\ Spot(n, c, k + 1) \in Iterators
        BY <4>1, <1>5, <1>7
      <4>3. m.ptr[Spot(n, c, k + 1)] = Spot(n, c, k + 1 + 1)
        BY <4>1, <1>2 DEF L
      <4> QED
        BY <4>1, <4>2, <4>3, <1>11
    <3> QED
      BY <3>1, <3>2, <3>3, <1>7
  <2>2. ASSUME NEW k \in 1..(L - 1)
        PROVE  m2.head[r[k]] = Spot(n, r, k - 1) /\ m2.inext[r[k]] = n
    <3>1. CASE k < p
      <4>1. /\ r[k] = c[k] /\ Spot(n, r, k - 1) = Spot(n, c, k - 1)
            /\ k \in 1..L /\ k \in 0..(L + 1) /\ k # p + 1
        BY <3>1, <1>4, <1>6, <1>7
      <4>2. c[k] # Spot(n, c, p + 1) /\ c[k] \in Iterators
        BY <4>1, <1>5, <1>7
      <4> QED
        BY <4>1, <4>2, <1>2, <1>11 DEF L
    <3>2. CASE k = p
      <4>1. /\ r[k] = c[p + 1] /\ Spot(n, r, k - 1) = Spot(n, c, p - 1)
            /\ p + 1 \in 1..L
        BY <3>2, <1>4, <1>6, <1>7, SMTT(30)
      <4>2. c[p + 1] = Spot(n, c, p + 1) /\ c[p + 1] \in Iterators
        BY <4>1, <1>5
      <4> QED
        BY <4>1, <4>2, <1>2, <1>11 DEF L
    <3>3. CASE k > p
      <4>1. /\ r[k] = c[k + 1] /\ Spot(n, r, k - 1) = Spot(n, c, k)
            /\ k + 1 \in 1..L /\ k + 1 \in 0..(L + 1) /\ k + 1 # p + 1
            /\ k + 1 - 1 = k
        <5>1. /\ k \in 1..(L - 1) /\ k - 1 \in 0..L /\ ~ (k - 1 < p) /\ ~ (k < p)
              /\ k - 1 + 1 = k /\ k + 1 \in 1..L /\ k + 1 # p + 1 /\ k + 1 - 1 = k
              /\ k + 1 \in 0..(L + 1)
          BY <3>3, <1>7
        <5>2. Spot(n, r, k - 1) = Spot(n, c, k - 1 + 1)
          BY <5>1, <1>6
        <5>3. r[k] = c[k + 1]
          BY <5>1, <1>4
        <5> QED
          BY <5>1, <5>2, <5>3
      <4>2. c[k + 1] # Spot(n, c, p + 1) /\ c[k + 1] \in Iterators
        BY <4>1, <1>5, <1>7
      <4>3. m.head[c[k + 1]] = Spot(n, c, k) /\ m.inext[c[k + 1]] = n
        BY <4>1, <1>2 DEF L
      <4> QED
        BY <4>1, <4>2, <4>3, <1>11
    <3> QED
      BY <3>1, <3>2, <3>3, <1>7
  <2> QED
    BY <2>1, <2>2, <1>4 DEF IsChain
<1>13. ASSUME NEW x \in Nodes, x # n
       PROVE  IsChain(m2, x, ch[x])
  <2>1. IsChain(m, x, ch[x])
    BY <1>8
  <2>2. ASSUME NEW j \in ToSet(ch[x])
        PROVE  j \in Iterators /\ j \notin ToSet(c)
    <3>1. ToSet(ch[x]) = {a \in A : m.inext[a] = x} /\ ToSet(ch[n]) = {a \in A : m.inext[a] = n}
      BY ChainsFacts
    <3> QED
      BY <3>1, <1>8, <1>13 DEF c
  <2>3. \A k \in 1..L : c[k] \in ToSet(c)
    BY <1>2, EntriesFacts DEF L
  <2>4. /\ Spot(n, c, p - 1) = n \/ Spot(n, c, p - 1) \in ToSet(c)
        /\ Spot(n, c, p + 1) = NULL \/ Spot(n, c, p + 1) \in ToSet(c)
    <3>1. p - 1 = 0 \/ p - 1 \in 1..L
      BY <1>7
    <3>2. p + 1 = L + 1 \/ p + 1 \in 1..L
      BY <1>7
    <3> QED
      BY <3>1, <3>2, <2>3, <1>5
  <2>5. m2.ptr[x] = m.ptr[x]
    <3>1. x \notin ToSet(c)
      BY <1>2, <1>13, EntriesFacts, SafeListAssumption
    <3> QED
      BY <3>1, <2>4, <1>11, <1>13
  <2>6. \A j \in ToSet(ch[x]) : /\ m2.ptr[j] = m.ptr[j]
                                /\ m2.head[j] = m.head[j]
                                /\ m2.inext[j] = m.inext[j]
    BY <2>2, <2>4, <1>11, SafeListAssumption
  <2> QED
    BY <2>1, <2>5, <2>6, ChainFrame
<1>14. ASSUME NEW j \in Iterators
       PROVE  j \in A \ {i} <=> \E x \in Nodes : j \in ToSet(ch2[x])
  <2>1. \A x \in Nodes : x # n => i \notin ToSet(ch[x])
    <3>1. /\ \A x \in Nodes : ToSet(ch[x]) = {a \in A : m.inext[a] = x}
      BY ChainsFacts
    <3> QED
      BY <3>1, <1>1
  <2> QED
    BY <2>1, <1>4, <1>8 DEF c
<1>15. Chains(m2, ch2, A \ {i})
  BY <1>8, <1>11, <1>12, <1>13, <1>14 DEF Chains
<1> QED
  BY <1>15 DEF m2

(* What an iterator that is in no chain points to makes no difference, so  *)
(* the iterator of a call that returns is gone.                            *)
LEMMA EndChains ==
    ASSUME NEW m, NEW ch, NEW A, Chains(m, ch, A), NEW i \in A
    PROVE  \E ch2 : Chains(EndIterator(m, i), ch2, A \ {i})
<1> DEFINE d == DelIterator(m, i)
           m2 == EndIterator(m, i)
<1>1. PICK ch2 : Chains(d, ch2, A \ {i})
  BY DelChains
<1>2. /\ d \in Pointers /\ DOMAIN ch2 = Nodes
      /\ \A x \in Nodes : IsChain(d, x, ch2[x])
      /\ A \ {i} \subseteq Iterators
      /\ \A j \in Iterators : j \in A \ {i} <=> \E x \in Nodes : j \in ToSet(ch2[x])
  BY <1>1 DEF Chains
<1>3. m2 = [d EXCEPT !.ptr[i] = NULL, !.head[i] = NULL, !.inext[i] = NULL]
  BY DEF EndIterator
<1>4. i \in Iterators
  BY DEF Chains
<1> HIDE DEF d, m2
<1>5. /\ m2 \in Pointers
      /\ \A x \in Nodes \cup Iterators : x # i => m2.ptr[x] = d.ptr[x]
      /\ \A j \in Iterators : j # i => /\ m2.head[j] = d.head[j]
                                       /\ m2.inext[j] = d.inext[j]
  BY <1>2, <1>3, <1>4 DEF Pointers
<1>6. ASSUME NEW x \in Nodes
      PROVE  IsChain(m2, x, ch2[x])
  <2>1. x # i
    BY <1>4, SafeListAssumption
  <2>2. \A j \in ToSet(ch2[x]) : j \in Iterators /\ j # i
    <3>1. ch2[x] \in Seq(Iterators)
      BY <1>2 DEF IsChain
    <3>2. ToSet(ch2[x]) \subseteq Iterators
      BY <3>1, EntriesFacts
    <3> QED
      BY <3>2, <1>2
  <2>3. \A j \in ToSet(ch2[x]) : /\ m2.ptr[j] = d.ptr[j]
                                 /\ m2.head[j] = d.head[j]
                                 /\ m2.inext[j] = d.inext[j]
    BY <2>2, <1>5
  <2>4. m2.ptr[x] = d.ptr[x]
    BY <2>1, <1>5
  <2> QED
    BY <2>3, <2>4, <1>2, ChainFrame
<1>7. Chains(m2, ch2, A \ {i})
  BY <1>2, <1>5, <1>6 DEF Chains
<1> QED
  BY <1>7 DEF m2

\* What SetIterator does, in terms of the node i will wait for.
Hooked(m, to, i) ==
    [ptr   |-> [m.ptr EXCEPT ![to] = i, ![i] = m.ptr[to]],
     head  |-> [j \in Iterators |-> IF j = m.ptr[to] THEN i
                                    ELSE IF j = i THEN to ELSE m.head[j]],
     inext |-> [m.inext EXCEPT ![i] = to]]

LEMMA SetIteratorHooks ==
    ASSUME NEW m, NEW n, NEW i
    PROVE  SetIterator(m, n, i) = Hooked(m, next[n], i)
  BY DEF SetIterator, Hooked

(* __safe_list_set_iterator puts an iterator in front of a chain.          *)
LEMMA SetChains ==
    ASSUME NEW m, NEW ch, NEW A, Chains(m, ch, A),
           NEW i \in Iterators \ A, NEW to \in Nodes
    PROVE  \E ch2 : Chains(Hooked(m, to, i), ch2, A \cup {i})
<1> DEFINE m2 == Hooked(m, to, i)
           c == ch[to]
           r == <<i>> \o c
           L == Len(c)
           ch2 == [x \in Nodes |-> IF x = to THEN r ELSE ch[x]]
<1>1. /\ c \in Seq(Iterators) /\ IsInjective(c) /\ L \in Nat
      /\ \A k \in 0..L : m.ptr[Spot(to, c, k)] = Spot(to, c, k + 1)
      /\ \A k \in 1..L : m.head[c[k]] = Spot(to, c, k - 1)
      /\ \A k \in 1..L : m.inext[c[k]] = to
  BY DEF Chains, IsChain
<1>2. /\ m \in Pointers
      /\ \A x \in Nodes : IsChain(m, x, ch[x])
      /\ A \subseteq Iterators
      /\ \A j \in Iterators : j \in A <=> \E x \in Nodes : j \in ToSet(ch[x])
  BY DEF Chains
<1>3. /\ \A k \in 1..L : c[k] \in ToSet(c) /\ c[k] \in Iterators /\ c[k] # i
      /\ ToSet(c) \subseteq Iterators /\ i \notin ToSet(c)
  <2>1. ToSet(c) \subseteq Iterators /\ \A k \in 1..L : c[k] \in ToSet(c)
    BY <1>1, EntriesFacts
  <2> QED
    BY <2>1, <1>2
<1>4. /\ r \in Seq(Iterators) /\ Len(r) = L + 1
      /\ ToSet(r) = {i} \cup ToSet(c) /\ IsInjective(r)
      /\ r[1] = i /\ \A k \in 1..L : r[k + 1] = c[k]
  <2> DEFINE one == <<i>>
  <2>1. /\ one \in Seq(Iterators) /\ Len(one) = 1 /\ ToSet(one) = {i}
        /\ IsInjective(one) /\ one[1] = i
    BY EntriesOfOne
  <2> HIDE DEF one
  <2>2. /\ one \o c \in Seq(Iterators) /\ Len(one \o c) = Len(one) + Len(c)
        /\ ToSet(one \o c) = ToSet(one) \cup ToSet(c)
        /\ IsInjective(one) /\ IsInjective(c) /\ ToSet(one) \cap ToSet(c) = {}
              => IsInjective(one \o c)
    <3>1. one \in Seq(Iterators) /\ c \in Seq(Iterators)
      BY <2>1, <1>1
    <3> HIDE DEF c
    <3> QED
      BY <3>1, EntriesOfConcat
  <2>3. \A k \in 1..(Len(one) + Len(c)) :
           (one \o c)[k] = IF k <= Len(one) THEN one[k] ELSE c[k - Len(one)]
    BY <2>1, <1>1, ConcatProperties
  <2>4. (one \o c)[1] = i /\ \A k \in 1..L : (one \o c)[k + 1] = c[k]
    <3>1. 1 \in 1..(Len(one) + Len(c)) /\ 1 <= Len(one)
      BY <2>1, <1>1
    <3>2. ASSUME NEW k \in 1..L
          PROVE  /\ k + 1 \in 1..(Len(one) + Len(c)) /\ ~ (k + 1 <= Len(one))
                 /\ k + 1 - Len(one) = k
      BY <2>1, <1>1
    <3> HIDE DEF c, L
    <3>3. (one \o c)[1] = i
      BY <3>1, <2>1, <2>3
    <3>4. ASSUME NEW k \in 1..L
          PROVE  (one \o c)[k + 1] = c[k]
      BY <3>2, <2>3
    <3> QED
      BY <3>3, <3>4
  <2>5. IsInjective(one \o c)
    BY <2>1, <2>2, <1>1, <1>3
  <2>6. Len(one \o c) = L + 1 /\ ToSet(one \o c) = {i} \cup ToSet(c)
    BY <2>1, <2>2, <1>1
  <2> QED
    BY <2>2, <2>4, <2>5, <2>6 DEF one
<1>5. /\ Spot(to, c, 0) = to /\ Spot(to, c, L + 1) = NULL
      /\ \A k \in 1..L : Spot(to, c, k) = c[k] /\ c[k] \in Iterators
      /\ \A j, k \in 0..(L + 1) : Spot(to, c, j) = Spot(to, c, k) => j = k
  BY <1>1, SpotFacts
<1> HIDE DEF r
<1>6. /\ Spot(to, r, 0) = to /\ Spot(to, r, 1) = i
      /\ \A k \in 1..(L + 1) : Spot(to, r, k + 1) = Spot(to, c, k)
  <2>1. /\ Spot(to, r, 0) = to /\ Spot(to, r, Len(r) + 1) = NULL
        /\ \A k \in 1..Len(r) : Spot(to, r, k) = r[k]
    BY <1>4, SpotFacts
  <2>2. Spot(to, r, 1) = i
    BY <2>1, <1>1, <1>4
  <2>3. ASSUME NEW k \in 1..L
        PROVE  Spot(to, r, k + 1) = Spot(to, c, k)
    <3>1. k + 1 \in 1..Len(r)
      BY <1>1, <1>4
    <3> QED
      BY <3>1, <2>1, <1>4, <1>5
  <2>4. Spot(to, r, L + 1 + 1) = Spot(to, c, L + 1)
    BY <2>1, <1>4, <1>5
  <2>5. \A k \in 1..(L + 1) : k \in 1..L \/ k = L + 1
    BY <1>1
  <2> QED
    BY <2>1, <2>2, <2>3, <2>4, <2>5
<1>7. /\ m.ptr[to] = Spot(to, c, 1)
      /\ Spot(to, c, 1) = NULL \/ Spot(to, c, 1) \in ToSet(c)
  <2>1. m.ptr[to] = Spot(to, c, 1)
    BY <1>1, <1>5
  <2>2. 1 = L + 1 \/ 1 \in 1..L
    BY <1>1
  <2> QED
    BY <2>1, <2>2, <1>3, <1>5
<1>8. to \notin Iterators /\ to # i /\ to # NULL /\ NULL \notin Iterators
  BY SafeListAssumption
<1>9. /\ m2 \in Pointers
      /\ m2.ptr[to] = i /\ m2.ptr[i] = Spot(to, c, 1)
      /\ \A x \in Nodes \cup Iterators : x # to /\ x # i => m2.ptr[x] = m.ptr[x]
      /\ m2.head[i] = to
      /\ \A j \in Iterators :
            j # i => m2.head[j] = IF j = Spot(to, c, 1) THEN i ELSE m.head[j]
      /\ m2.inext[i] = to
      /\ \A j \in Iterators : j # i => m2.inext[j] = m.inext[j]
  <2>1. m2.ptr = [m.ptr EXCEPT ![to] = i, ![i] = m.ptr[to]]
    BY DEF Hooked
  <2>2. m2.inext = [m.inext EXCEPT ![i] = to]
    BY DEF Hooked
  <2>3. \A j \in Iterators : m2.head[j] = IF j = m.ptr[to] THEN i
                                          ELSE IF j = i THEN to
                                          ELSE m.head[j]
    BY DEF Hooked
  <2>4. m2.ptr \in [Nodes \cup Iterators -> Iterators \cup {NULL}]
    BY <2>1, <1>2 DEF Pointers
  <2>5. m2.head \in [Iterators -> Nodes \cup Iterators \cup {NULL}]
    <3>1. \A j \in Iterators : m2.head[j] \in Nodes \cup Iterators \cup {NULL}
      BY <2>3, <1>2 DEF Pointers
    <3>2. m2.head = [j \in Iterators |-> m2.head[j]]
      BY DEF Hooked
    <3> QED
      BY <3>1, <3>2
  <2>6. m2.inext \in [Iterators -> Nodes \cup {NULL}]
    BY <2>2, <1>2 DEF Pointers
  <2>7. m2 \in Pointers
    <3>1. m2 = [ptr |-> m2.ptr, head |-> m2.head, inext |-> m2.inext]
      BY DEF Hooked
    <3> HIDE DEF m2
    <3> QED
      BY <3>1, <2>4, <2>5, <2>6 DEF Pointers
  <2> QED
    BY <2>1, <2>2, <2>3, <2>7, <1>2, <1>7, <1>8 DEF Pointers
<1> HIDE DEF m2, c, L
<1>10. IsChain(m2, to, r)
  <2>1. ASSUME NEW k \in 0..(L + 1)
        PROVE  m2.ptr[Spot(to, r, k)] = Spot(to, r, k + 1)
    <3>1. CASE k = 0
      BY <3>1, <1>6, <1>9
    <3>2. CASE k = 1
      <4>1. 1 \in 1..(L + 1)
        BY <1>1
      <4> QED
        BY <3>2, <4>1, <1>6, <1>9
    <3>3. CASE k > 1
      <4>1. /\ k - 1 \in 1..L /\ k - 1 \in 0..L /\ k - 1 \in 1..(L + 1)
            /\ k - 1 + 1 = k /\ k \in 1..(L + 1)
        BY <3>3, <1>1
      <4>2. Spot(to, r, k) = Spot(to, c, k - 1) /\ Spot(to, r, k + 1) = Spot(to, c, k)
        BY <4>1, <1>6
      <4>3. m.ptr[Spot(to, c, k - 1)] = Spot(to, c, k)
        BY <4>1, <1>1
      <4>4. /\ Spot(to, c, k - 1) \in Iterators
            /\ Spot(to, c, k - 1) # i /\ Spot(to, c, k - 1) # to
        BY <4>1, <1>3, <1>5, <1>8
      <4> QED
        BY <4>2, <4>3, <4>4, <1>9
    <3> QED
      BY <3>1, <3>2, <3>3, <1>1
  <2>2. ASSUME NEW k \in 1..(L + 1)
        PROVE  m2.head[r[k]] = Spot(to, r, k - 1) /\ m2.inext[r[k]] = to
    <3>1. CASE k = 1
      BY <3>1, <1>4, <1>6, <1>9
    <3>2. CASE k = 2
      <4>1. 1 \in 1..L /\ 1 + 1 = 2 /\ 2 - 1 = 1
        BY <3>2, <1>1
      <4>2. r[2] = c[1] /\ c[1] = Spot(to, c, 1) /\ c[1] \in Iterators /\ c[1] # i
        BY <4>1, <1>3, <1>4, <1>5
      <4>3. m.inext[c[1]] = to
        BY <4>1, <1>1
      <4> QED
        BY <3>2, <4>1, <4>2, <4>3, <1>6, <1>9
    <3>3. CASE k > 2
      <4>1. /\ k - 1 \in 1..L /\ k - 1 + 1 = k /\ k - 2 \in 1..(L + 1)
            /\ k - 2 + 1 = k - 1 /\ k - 1 - 1 = k - 2 /\ k - 1 # 1
            /\ k - 1 \in 0..(L + 1) /\ 1 \in 0..(L + 1)
        BY <3>3, <1>1
      <4>2. /\ r[k] = c[k - 1] /\ c[k - 1] \in Iterators /\ c[k - 1] # i
            /\ c[k - 1] = Spot(to, c, k - 1)
        BY <4>1, <1>3, <1>4, <1>5
      <4>3. c[k - 1] # Spot(to, c, 1)
        BY <4>1, <4>2, <1>5
      <4>4. Spot(to, r, k - 1) = Spot(to, c, k - 2)
        BY <4>1, <1>6
      <4>5. m.head[c[k - 1]] = Spot(to, c, k - 2) /\ m.inext[c[k - 1]] = to
        BY <4>1, <1>1
      <4> QED
        BY <4>2, <4>3, <4>4, <4>5, <1>9
    <3> QED
      BY <3>1, <3>2, <3>3, <1>1
  <2>3. \A k \in 0..Len(r) : m2.ptr[Spot(to, r, k)] = Spot(to, r, k + 1)
    BY <2>1, <1>4
  <2>4. \A k \in 1..Len(r) : m2.head[r[k]] = Spot(to, r, k - 1) /\ m2.inext[r[k]] = to
    BY <2>2, <1>4
  <2> QED
    BY <2>3, <2>4, <1>4 DEF IsChain
<1>11. ASSUME NEW x \in Nodes, x # to
       PROVE  IsChain(m2, x, ch[x])
  <2>1. IsChain(m, x, ch[x])
    BY <1>2
  <2>2. ASSUME NEW j \in ToSet(ch[x])
        PROVE  j \in Iterators /\ j \notin ToSet(c) /\ j # i
    <3>1. ToSet(ch[x]) = {a \in A : m.inext[a] = x} /\ ToSet(ch[to]) = {a \in A : m.inext[a] = to}
      BY ChainsFacts
    <3> QED
      BY <3>1, <1>2, <1>11 DEF c
  <2>3. m2.ptr[x] = m.ptr[x]
    BY <1>9, <1>11, SafeListAssumption
  <2>4. \A j \in ToSet(ch[x]) : /\ m2.ptr[j] = m.ptr[j]
                                /\ m2.head[j] = m.head[j]
                                /\ m2.inext[j] = m.inext[j]
    BY <2>2, <1>7, <1>8, <1>9
  <2> QED
    BY <2>1, <2>3, <2>4, ChainFrame
<1>12. ASSUME NEW j \in Iterators
       PROVE  j \in A \cup {i} <=> \E x \in Nodes : j \in ToSet(ch2[x])
  BY <1>2, <1>4 DEF c
<1>13. Chains(m2, ch2, A \cup {i})
  BY <1>2, <1>9, <1>10, <1>11, <1>12 DEF Chains
<1> QED
  BY <1>13 DEF m2

(* safe_list_del moves the whole chain of the deleted entry in front of    *)
(* that of its successor.                                                  *)
LEMMA HandOverChains ==
    ASSUME NEW m, NEW ch, NEW A, Chains(m, ch, A),
           NEW e \in Nodes, NEW to \in Nodes, e # to, m.ptr[e] # NULL
    PROVE  \E ch2 : /\ Chains(HandOver(m, e, to), ch2, A)
                    /\ ch2[e] = <<>>
                    /\ \A x \in Nodes \ {e, to} : ch2[x] = ch[x]
<1> DEFINE m2 == HandOver(m, e, to)
           c == ch[e]
           d == ch[to]
           r == c \o d
           L == Len(c)
           D == Len(d)
           ch2 == [x \in Nodes |-> IF x = to THEN r ELSE IF x = e THEN <<>> ELSE ch[x]]
<1>1. /\ c \in Seq(Iterators) /\ IsInjective(c) /\ L \in Nat
      /\ \A k \in 0..L : m.ptr[Spot(e, c, k)] = Spot(e, c, k + 1)
      /\ \A k \in 1..L : m.head[c[k]] = Spot(e, c, k - 1)
      /\ \A k \in 1..L : m.inext[c[k]] = e
  <2>1. IsChain(m, e, ch[e])
    BY DEF Chains
  <2> QED
    BY <2>1 DEF IsChain
<1>2. /\ d \in Seq(Iterators) /\ IsInjective(d) /\ D \in Nat
      /\ \A k \in 0..D : m.ptr[Spot(to, d, k)] = Spot(to, d, k + 1)
      /\ \A k \in 1..D : m.head[d[k]] = Spot(to, d, k - 1)
      /\ \A k \in 1..D : m.inext[d[k]] = to
  <2>1. IsChain(m, to, ch[to])
    BY DEF Chains
  <2> QED
    BY <2>1 DEF IsChain
<1>3. /\ m \in Pointers
      /\ \A x \in Nodes : IsChain(m, x, ch[x])
      /\ A \subseteq Iterators
      /\ \A j \in Iterators : j \in A <=> \E x \in Nodes : j \in ToSet(ch[x])
  BY DEF Chains
<1>4. /\ \A x \in Nodes : ToSet(ch[x]) = {i \in A : m.inext[i] = x}
      /\ \A x \in Nodes : /\ m.ptr[x] # NULL => m.ptr[x] \in ToSet(ch[x])
                          /\ m.ptr[x] = NULL <=> ch[x] = <<>>
  BY ChainsFacts
<1>5. c # <<>> /\ 1 \in 1..L /\ L \in 1..L
  BY <1>1, <1>4
<1>6. /\ Spot(e, c, 0) = e /\ Spot(e, c, L + 1) = NULL
      /\ \A k \in 1..L : Spot(e, c, k) = c[k] /\ c[k] \in Iterators
      /\ \A j, k \in 0..(L + 1) : Spot(e, c, j) = Spot(e, c, k) => j = k
  BY <1>1, SpotFacts
<1>7. /\ Spot(to, d, 0) = to /\ Spot(to, d, D + 1) = NULL
      /\ \A k \in 1..D : Spot(to, d, k) = d[k] /\ d[k] \in Iterators
      /\ \A j, k \in 0..(D + 1) : Spot(to, d, j) = Spot(to, d, k) => j = k
  BY <1>2, SpotFacts
<1>8. /\ \A k \in 1..L : c[k] \in ToSet(c)
      /\ \A k \in 1..D : d[k] \in ToSet(d)
      /\ ToSet(c) \cap ToSet(d) = {}
      /\ ToSet(c) \subseteq Iterators /\ ToSet(d) \subseteq Iterators
      /\ \A j \in ToSet(c) : \E k \in 1..L : c[k] = j
  <2>1. /\ \A k \in 1..L : c[k] \in ToSet(c)
        /\ ToSet(c) \subseteq Iterators
        /\ \A j \in ToSet(c) : \E k \in 1..L : c[k] = j
    BY <1>1, EntriesFacts
  <2>2. /\ \A k \in 1..D : d[k] \in ToSet(d)
        /\ ToSet(d) \subseteq Iterators
    BY <1>2, EntriesFacts
  <2> QED
    BY <2>1, <2>2, <1>4
<1>9. /\ r \in Seq(Iterators) /\ Len(r) = L + D
      /\ ToSet(r) = ToSet(c) \cup ToSet(d) /\ IsInjective(r)
      /\ \A k \in 1..(L + D) : r[k] = IF k <= L THEN c[k] ELSE d[k - L]
  <2>1. c \in Seq(Iterators) /\ d \in Seq(Iterators)
    BY <1>1, <1>2
  <2>2. IsInjective(c) /\ IsInjective(d) /\ ToSet(c) \cap ToSet(d) = {}
    BY <1>1, <1>2, <1>8
  <2> HIDE DEF c, d
  <2>3. /\ r \in Seq(Iterators) /\ Len(r) = L + D
        /\ ToSet(r) = ToSet(c) \cup ToSet(d) /\ IsInjective(r)
    BY <2>1, <2>2, EntriesOfConcat
  <2>4. \A k \in 1..(L + D) : r[k] = IF k <= L THEN c[k] ELSE d[k - L]
    BY <2>1, ConcatProperties
  <2> QED
    BY <2>3, <2>4
<1>10. Chain(m, e) = ToSet(c)
  BY <1>3, ChainFound
<1>11. m.ptr[e] = c[1] /\ m.ptr[to] = Spot(to, d, 1)
  BY <1>1, <1>2, <1>5, <1>6, <1>7
<1>12. (CHOOSE i \in Chain(m, e) : m.ptr[i] = NULL) = c[L]
  <2>1. c[L] \in ToSet(c) /\ m.ptr[c[L]] = NULL
    <3>1. L \in 0..L /\ L \in 1..L
      BY <1>1, <1>5
    <3>2. m.ptr[Spot(e, c, L)] = Spot(e, c, L + 1) /\ Spot(e, c, L) = c[L]
      BY <3>1, <1>1, <1>6
    <3> QED
      BY <3>1, <3>2, <1>6, <1>8
  <2>2. ASSUME NEW i \in ToSet(c), m.ptr[i] = NULL
        PROVE  i = c[L]
    <3>1. PICK k \in 1..L : c[k] = i
      BY <1>8
    <3>2. m.ptr[i] = Spot(e, c, k + 1)
      BY <3>1, <1>1, <1>6
    <3>3. k + 1 \in 0..(L + 1) /\ L + 1 \in 0..(L + 1)
      BY <1>1
    <3>4. k + 1 = L + 1
      BY <3>2, <3>3, <2>2, <1>6
    <3> QED
      BY <3>1, <3>4, <1>1
  <2>3. \A i \in Chain(m, e) : m.ptr[i] = NULL <=> i = c[L]
    BY <2>1, <2>2, <1>10
  <2> HIDE DEF c, L
  <2> QED
    BY <2>1, <2>3, <1>10
<1>13. e \notin Iterators /\ to \notin Iterators /\ NULL \notin Iterators \cup Nodes
  BY SafeListAssumption
<1>14. Spot(to, d, 1) = NULL \/ Spot(to, d, 1) \in ToSet(d)
  <2>1. 1 = D + 1 \/ 1 \in 1..D
    BY <1>2
  <2> QED
    BY <2>1, <1>7, <1>8
<1> HIDE DEF c, d, r, L, D
<1>15. /\ m2 \in Pointers
       /\ m2.ptr[to] = c[1] /\ m2.ptr[c[L]] = Spot(to, d, 1) /\ m2.ptr[e] = NULL
       /\ \A x \in Nodes \cup Iterators :
             x \notin {to, e, c[L]} => m2.ptr[x] = m.ptr[x]
       /\ \A j \in Iterators :
             m2.head[j] = IF j = Spot(to, d, 1) THEN c[L]
                          ELSE IF j = c[1] THEN to ELSE m.head[j]
       /\ \A j \in Iterators :
             m2.inext[j] = IF j \in ToSet(c) THEN to ELSE m.inext[j]
  <2>1. m2 = [ptr   |-> [m.ptr EXCEPT ![to] = c[1], ![c[L]] = Spot(to, d, 1), ![e] = NULL],
              head  |-> [j \in Iterators |-> IF j = Spot(to, d, 1) THEN c[L]
                                             ELSE IF j = c[1] THEN to
                                             ELSE m.head[j]],
              inext |-> [j \in Iterators |->
                            IF j \in ToSet(c) THEN to ELSE m.inext[j]]]
    BY <1>10, <1>11, <1>12 DEF HandOver
  <2> HIDE DEF m2
  <2>2. c[L] \in Iterators /\ c[1] \in Iterators
    BY <1>5, <1>6
  <2>3. m2.ptr = [m.ptr EXCEPT ![to] = c[1], ![c[L]] = Spot(to, d, 1), ![e] = NULL]
    BY <2>1
  <2>4. \A j \in Iterators :
             m2.head[j] = IF j = Spot(to, d, 1) THEN c[L]
                          ELSE IF j = c[1] THEN to ELSE m.head[j]
    BY <2>1
  <2>5. \A j \in Iterators :
             m2.inext[j] = IF j \in ToSet(c) THEN to ELSE m.inext[j]
    BY <2>1
  <2>6. m.ptr \in [Nodes \cup Iterators -> Iterators \cup {NULL}]
    BY <1>3 DEF Pointers
  <2>7. Spot(to, d, 1) \in Iterators \cup {NULL}
    BY <1>8, <1>14
  <2>8. m2.ptr \in [Nodes \cup Iterators -> Iterators \cup {NULL}]
    BY <2>2, <2>3, <2>6, <2>7
  <2>9. m2.head \in [Iterators -> Nodes \cup Iterators \cup {NULL}]
    <3>1. \A j \in Iterators : m2.head[j] \in Nodes \cup Iterators \cup {NULL}
      BY <2>2, <2>4, <1>3 DEF Pointers
    <3>2. m2.head = [j \in Iterators |-> m2.head[j]]
      BY <2>1
    <3> QED
      BY <3>1, <3>2
  <2>10. m2.inext \in [Iterators -> Nodes \cup {NULL}]
    <3>1. \A j \in Iterators : m2.inext[j] \in Nodes \cup {NULL}
      BY <2>5, <1>3 DEF Pointers
    <3>2. m2.inext = [j \in Iterators |-> m2.inext[j]]
      BY <2>1
    <3> QED
      BY <3>1, <3>2
  <2>11. m2 \in Pointers
    <3>1. m2 = [ptr |-> m2.ptr, head |-> m2.head, inext |-> m2.inext]
      BY <2>1
    <3> QED
      BY <3>1, <2>8, <2>9, <2>10 DEF Pointers
  <2>12. /\ m2.ptr[to] = c[1] /\ m2.ptr[c[L]] = Spot(to, d, 1) /\ m2.ptr[e] = NULL
         /\ \A x \in Nodes \cup Iterators :
               x \notin {to, e, c[L]} => m2.ptr[x] = m.ptr[x]
    BY <2>2, <2>3, <2>6, <1>13
  <2> QED
    BY <2>4, <2>5, <2>11, <2>12
<1> HIDE DEF m2
<1>16. /\ Spot(to, r, 0) = to
       /\ \A k \in 1..L : Spot(to, r, k) = c[k]
       /\ \A k \in 1..(D + 1) : Spot(to, r, L + k) = Spot(to, d, k)
  <2>1. /\ Spot(to, r, 0) = to /\ Spot(to, r, Len(r) + 1) = NULL
        /\ \A k \in 1..Len(r) : Spot(to, r, k) = r[k]
    BY <1>9, SpotFacts
  <2>2. ASSUME NEW k \in 1..L
        PROVE  Spot(to, r, k) = c[k]
    <3>1. k \in 1..(L + D) /\ k <= L
      BY <1>1, <1>2 DEF L, D
    <3> QED
      BY <3>1, <2>1, <1>9
  <2>3. ASSUME NEW k \in 1..D
        PROVE  Spot(to, r, L + k) = Spot(to, d, k)
    <3>1. L + k \in 1..(L + D) /\ ~ (L + k <= L) /\ L + k - L = k
      BY <1>1, <1>2 DEF L, D
    <3>2. Spot(to, r, L + k) = r[L + k]
      BY <3>1, <2>1, <1>9
    <3>3. PICK j \in 1..(L + D) : j = L + k /\ ~ (j <= L) /\ j - L = k
      BY <3>1, <1>1, <1>2
    <3>4. r[j] = d[k]
      BY <3>3, <1>9
    <3> QED
      BY <3>2, <3>3, <3>4, <1>7
  <2>4. Spot(to, r, L + (D + 1)) = Spot(to, d, D + 1)
    <3>1. L + (D + 1) = Len(r) + 1
      BY <1>1, <1>2, <1>9
    <3> QED
      BY <3>1, <2>1, <1>7
  <2>5. \A k \in 1..(D + 1) : k \in 1..D \/ k = D + 1
    BY <1>2
  <2> QED
    BY <2>1, <2>2, <2>3, <2>4, <2>5
<1>17. IsChain(m2, to, r)
  <2>1. ASSUME NEW k \in 0..(L + D)
        PROVE  m2.ptr[Spot(to, r, k)] = Spot(to, r, k + 1)
    <3>1. CASE k = 0
      BY <3>1, <1>5, <1>15, <1>16
    <3>2. CASE k \in 1..(L - 1)
      <4>1. k \in 1..L /\ k + 1 \in 1..L /\ k \in 0..L /\ k # L
            /\ k \in 0..(L + 1) /\ L \in 0..(L + 1)
        BY <3>2, <1>1
      <4>2. /\ Spot(to, r, k) = c[k] /\ Spot(to, r, k + 1) = c[k + 1]
            /\ c[k] = Spot(e, c, k) /\ c[k + 1] = Spot(e, c, k + 1)
            /\ c[L] = Spot(e, c, L) /\ c[k] \in Iterators
        BY <4>1, <1>5, <1>6, <1>16
      <4>3. c[k] # c[L] /\ c[k] # to /\ c[k] # e
        BY <4>1, <4>2, <1>6, <1>13
      <4>4. m.ptr[c[k]] = c[k + 1]
        BY <4>1, <4>2, <1>1
      <4> QED
        BY <4>2, <4>3, <4>4, <1>15
    <3>3. CASE k = L
      <4>1. 1 \in 1..(D + 1)
        BY <1>2
      <4> QED
        BY <4>1, <3>3, <1>5, <1>15, <1>16
    <3>4. CASE k > L
      <4> DEFINE j == k - L
      <4>1. /\ j \in 1..D /\ j \in 0..D /\ j \in 1..(D + 1) /\ j + 1 \in 1..(D + 1)
            /\ k = L + j /\ k + 1 = L + (j + 1)
        BY <3>4, <1>1, <1>2
      <4> HIDE DEF j
      <4>2. /\ Spot(to, r, k) = d[j] /\ Spot(to, r, k + 1) = Spot(to, d, j + 1)
            /\ d[j] = Spot(to, d, j) /\ d[j] \in Iterators
        BY <4>1, <1>7, <1>16
      <4>3. d[j] # c[L] /\ d[j] # to /\ d[j] # e
        BY <4>1, <4>2, <1>5, <1>8, <1>13
      <4>4. m.ptr[d[j]] = Spot(to, d, j + 1)
        BY <4>1, <4>2, <1>2
      <4> QED
        BY <4>2, <4>3, <4>4, <1>15
    <3>5. k = 0 \/ k \in 1..(L - 1) \/ k = L \/ k > L
      BY <1>1, <1>2
    <3> QED
      BY <3>1, <3>2, <3>3, <3>4, <3>5
  <2>2. ASSUME NEW k \in 1..(L + D)
        PROVE  m2.head[r[k]] = Spot(to, r, k - 1) /\ m2.inext[r[k]] = to
    <3>1. CASE k = 1
      <4>1. r[k] = c[1] /\ c[1] \in ToSet(c) /\ c[1] \in Iterators
        BY <3>1, <1>5, <1>6, <1>8, <1>9
      <4>2. c[1] # Spot(to, d, 1)
        BY <4>1, <1>8, <1>13, <1>14
      <4> QED
        BY <3>1, <4>1, <4>2, <1>15, <1>16
    <3>2. CASE k \in 2..L
      <4>1. /\ k \in 1..L /\ k - 1 \in 1..L /\ k <= L /\ k # 1
            /\ k \in 0..(L + 1) /\ 1 \in 0..(L + 1)
        BY <3>2, <1>1
      <4>2. /\ r[k] = c[k] /\ c[k] \in ToSet(c) /\ c[k] \in Iterators
            /\ c[k] = Spot(e, c, k) /\ c[1] = Spot(e, c, 1)
            /\ c[k - 1] = Spot(e, c, k - 1) /\ Spot(to, r, k - 1) = c[k - 1]
        BY <4>1, <1>5, <1>6, <1>8, <1>9, <1>16
      <4>3. c[k] # c[1] /\ c[k] # Spot(to, d, 1)
        BY <4>1, <4>2, <1>6, <1>8, <1>13, <1>14
      <4>4. m.head[c[k]] = c[k - 1]
        BY <4>1, <4>2, <1>1
      <4> QED
        BY <4>2, <4>3, <4>4, <1>15
    <3>3. CASE k = L + 1
      <4>1. /\ 1 \in 1..D /\ ~ (k <= L) /\ k - L = 1 /\ k - 1 = L
        BY <3>3, <1>1, <1>2
      <4>2. /\ r[k] = d[1] /\ d[1] \in ToSet(d) /\ d[1] \in Iterators
            /\ d[1] = Spot(to, d, 1) /\ Spot(to, r, k - 1) = c[L]
        BY <4>1, <1>5, <1>7, <1>8, <1>9, <1>16
      <4>3. d[1] \notin ToSet(c) /\ m.inext[d[1]] = to
        BY <4>1, <4>2, <1>2, <1>8
      <4> QED
        BY <4>2, <4>3, <1>15
    <3>4. CASE k > L + 1
      <4> DEFINE j == k - L
      <4>1. /\ j \in 1..D /\ j - 1 \in 1..(D + 1) /\ j # 1
            /\ j \in 0..(D + 1) /\ 1 \in 0..(D + 1)
            /\ k - L = j /\ ~ (k <= L) /\ k - 1 = L + (j - 1)
        BY <3>4, <1>1, <1>2
      <4> HIDE DEF j
      <4>2. /\ r[k] = d[j] /\ d[j] \in ToSet(d) /\ d[j] \in Iterators
            /\ d[j] = Spot(to, d, j) /\ Spot(to, r, k - 1) = Spot(to, d, j - 1)
        BY <4>1, <1>7, <1>8, <1>9, <1>16
      <4>3. d[j] # Spot(to, d, 1) /\ d[j] # c[1] /\ d[j] \notin ToSet(c)
        BY <4>1, <4>2, <1>5, <1>7, <1>8
      <4>4. m.head[d[j]] = Spot(to, d, j - 1) /\ m.inext[d[j]] = to
        BY <4>1, <1>2
      <4> QED
        BY <4>2, <4>3, <4>4, <1>15
    <3>5. k = 1 \/ k \in 2..L \/ k = L + 1 \/ k > L + 1
      BY <1>1, <1>2
    <3> QED
      BY <3>1, <3>2, <3>3, <3>4, <3>5
  <2>3. \A k \in 0..Len(r) : m2.ptr[Spot(to, r, k)] = Spot(to, r, k + 1)
    BY <2>1, <1>9
  <2>4. \A k \in 1..Len(r) : m2.head[r[k]] = Spot(to, r, k - 1) /\ m2.inext[r[k]] = to
    BY <2>2, <1>9
  <2> QED
    BY <2>3, <2>4, <1>9 DEF IsChain
<1>18. IsChain(m2, e, <<>>)
  <2>1. Spot(e, <<>>, 0) = e /\ Spot(e, <<>>, 1) = NULL
    BY DEF Spot
  <2> QED
    BY <2>1, <1>15 DEF IsChain, IsInjective
<1>19. ASSUME NEW x \in Nodes, x # to, x # e
       PROVE  IsChain(m2, x, ch[x])
  <2>1. IsChain(m, x, ch[x])
    BY <1>3
  <2>2. \A j \in ToSet(ch[x]) : j \in Iterators /\ j \notin ToSet(c) /\ j \notin ToSet(d)
    BY <1>3, <1>4, <1>19 DEF c, d
  <2>3. c[1] \in ToSet(c) /\ c[L] \in ToSet(c)
    BY <1>5, <1>8
  <2>4. m2.ptr[x] = m.ptr[x]
    BY <2>3, <1>8, <1>15, <1>19, SafeListAssumption
  <2>5. \A j \in ToSet(ch[x]) : /\ m2.ptr[j] = m.ptr[j]
                                /\ m2.head[j] = m.head[j]
                                /\ m2.inext[j] = m.inext[j]
    BY <2>2, <2>3, <1>13, <1>14, <1>15
  <2> QED
    BY <2>1, <2>4, <2>5, ChainFrame
<1>20. ASSUME NEW j \in Iterators
       PROVE  j \in A <=> \E x \in Nodes : j \in ToSet(ch2[x])
  <2>1. ToSet(<<>>) = {}
    BY DEF ToSet
  <2>2. /\ ToSet(ch2[to]) = ToSet(ch[e]) \cup ToSet(ch[to])
        /\ ToSet(ch2[e]) = {}
        /\ \A x \in Nodes \ {e, to} : ch2[x] = ch[x]
    BY <2>1, <1>9 DEF c, d
  <2> HIDE DEF ch2
  <2> QED
    BY <2>2, <1>3
<1>21. \A x \in Nodes : IsChain(m2, x, ch2[x])
  BY <1>17, <1>18, <1>19
<1>22. Chains(m2, ch2, A)
  BY <1>3, <1>15, <1>20, <1>21 DEF Chains
<1>23. ch2[e] = <<>> /\ \A x \in Nodes \ {e, to} : ch2[x] = ch[x]
  OBVIOUS
<1> HIDE DEF ch2
<1> QED
  BY <1>22, <1>23 DEF m2

-----------------------------------------------------------------------------
(***************************************************************************)
(* The inductive invariant: the nodes form a ring, the active iterators    *)
(* are in the chains, and each waits at a place p of the list with all it  *)
(* has seen in front of p and all it owes from p on.                       *)
(***************************************************************************)
Call == [cur : Entries, owed : SUBSET Entries, seen : SUBSET Entries,
         odd : BOOLEAN]

Active == 1..Len(calls)

CallsOK == calls \in Seq(Call) /\ Len(calls) <= MaxDepth

Ring == IsRing(next, prev, Listed)

Hooks == \E ch : Chains(iters, ch, Active)

CursorAt(s, n, call, p) ==
    /\ n = Node(s, p)
    /\ \A f \in call.owed : \E j \in 1..Len(s) : p <= j /\ s[j] = f
    /\ \A f \in call.seen : \E j \in 1..Len(s) : j < p /\ s[j] = f

Cursor(s, n, call) == \E p \in 1..(Len(s) + 1) : CursorAt(s, n, call, p)

Cursors == \A i \in Active : Cursor(Listed, inext[i], calls[i])

Inv == CallsOK /\ Ring /\ Hooks /\ Cursors

(* A cursor stays where it is when an entry is linked anywhere. *)
LEMMA CursorInsert ==
    ASSUME NEW s \in Seq(Entries), NEW e \in Entries, NEW q \in 0..Len(s),
           NEW r \in Seq(Entries), Len(r) = Len(s) + 1,
           \A i \in 1..(Len(s) + 1) : r[i] = IF i <= q THEN s[i]
                                              ELSE IF i = q + 1 THEN e
                                              ELSE s[i - 1],
           NEW n, NEW call, Cursor(s, n, call)
    PROVE  Cursor(r, n, call)
<1> DEFINE to(j) == IF j <= q THEN j ELSE j + 1
<1>1. Len(s) \in Nat
  OBVIOUS
<1>2. PICK p \in 1..(Len(s) + 1) : CursorAt(s, n, call, p)
  BY DEF Cursor
<1>3. ASSUME NEW j \in 1..Len(s)
      PROVE  to(j) \in 1..Len(r) /\ r[to(j)] = s[j]
  BY <1>1
<1>4. to(p) \in 1..(Len(r) + 1)
  BY <1>1
<1>5. Node(s, p) = Node(r, to(p))
  <2>1. CASE p \in 1..Len(s)
    BY <2>1, <1>3 DEF Node
  <2>2. CASE p = Len(s) + 1
    <3>1. to(p) = Len(r) + 1
      BY <2>2, <1>1
    <3> QED
      BY <3>1, <2>2, NodeFacts
  <2> QED
    BY <2>1, <2>2, <1>1
<1>6. ASSUME NEW j \in 1..Len(s)
      PROVE  (p <= j => to(p) <= to(j)) /\ (j < p => to(j) < to(p))
  BY <1>1
<1> HIDE DEF to
<1>7. n = Node(r, to(p))
  BY <1>2, <1>5 DEF CursorAt
<1>8. ASSUME NEW f \in call.owed
      PROVE  \E j \in 1..Len(r) : to(p) <= j /\ r[j] = f
  <2>1. PICK j \in 1..Len(s) : p <= j /\ s[j] = f
    BY <1>2 DEF CursorAt
  <2> QED
    BY <2>1, <1>3, <1>6
<1>9. ASSUME NEW f \in call.seen
      PROVE  \E j \in 1..Len(r) : j < to(p) /\ r[j] = f
  <2>1. PICK j \in 1..Len(s) : j < p /\ s[j] = f
    BY <1>2 DEF CursorAt
  <2> QED
    BY <2>1, <1>3, <1>6
<1> QED
  BY <1>4, <1>7, <1>8, <1>9 DEF Cursor, CursorAt

(* When an entry is unlinked, a cursor at this entry moves on to the next  *)
(* one, and every other stays where it is.                                 *)
LEMMA CursorRemove ==
    ASSUME NEW s \in Seq(Entries), IsInjective(s), NEW q \in 1..Len(s),
           NEW n, NEW call \in Call, Cursor(s, n, call)
    PROVE  Cursor(RemoveAt(s, q), IF n = s[q] THEN Node(s, q + 1) ELSE n,
                  [call EXCEPT !.owed = @ \ {s[q]}, !.seen = @ \ {s[q]}])
<1> DEFINE r == RemoveAt(s, q)
           n2 == IF n = s[q] THEN Node(s, q + 1) ELSE n
           call2 == [call EXCEPT !.owed = @ \ {s[q]}, !.seen = @ \ {s[q]}]
           to(j) == IF j <= q THEN j ELSE j - 1
<1>1. /\ Len(s) \in Nat /\ r \in Seq(Entries) /\ Len(r) = Len(s) - 1
      /\ \A i \in 1..(Len(s) - 1) : r[i] = IF i < q THEN s[i] ELSE s[i + 1]
  <2>1. Len(s) \in Nat /\ r \in Seq(Entries) /\ Len(r) = Len(s) - 1
    BY RemoveAtFacts
  <2>2. \A i \in 1..(Len(s) - 1) : r[i] = IF i < q THEN s[i] ELSE s[i + 1]
    BY RemoveAtFacts
  <2> QED
    BY <2>1, <2>2
<1>2. PICK p \in 1..(Len(s) + 1) : CursorAt(s, n, call, p)
  BY DEF Cursor
<1> HIDE DEF r
<1>3. ASSUME NEW j \in 1..Len(s), j # q
      PROVE  to(j) \in 1..Len(r) /\ r[to(j)] = s[j]
  BY <1>1, <1>3
<1>4. to(p) \in 1..(Len(r) + 1)
  BY <1>1
<1>5. /\ Node(s, Len(s) + 1) = HEAD /\ Node(r, Len(r) + 1) = HEAD
      /\ \A j \in 1..Len(s) : Node(s, j) = s[j] /\ s[j] \in Entries
      /\ \A j \in 1..Len(r) : Node(r, j) = r[j]
  BY <1>1, NodeFacts
<1>6. \A j \in 0..Len(s) : Node(s, j) = s[q] => j = q
  <2>1. q \in 0..Len(s) /\ Node(s, q) = s[q]
    BY <1>1, <1>5
  <2> QED
    BY <2>1, NodeInjective
<1>7. ASSUME NEW j \in 1..(Len(s) + 1), j # q
      PROVE  Node(s, j) = Node(r, to(j))
  <2>1. CASE j \in 1..Len(s)
    BY <2>1, <1>3, <1>5, <1>7
  <2>2. CASE j = Len(s) + 1
    <3>1. to(j) = Len(r) + 1
      BY <2>2, <1>1
    <3> QED
      BY <3>1, <2>2, <1>5
  <2>3. j \in 1..Len(s) \/ j = Len(s) + 1
    <3>1. Len(s) \in Nat
      OBVIOUS
    <3> HIDE DEF to
    <3> QED
      BY <3>1
  <2> QED
    BY <2>1, <2>2, <2>3
<1>8. n = Node(s, p)
  BY <1>2 DEF CursorAt
<1>9. n2 = Node(r, to(p))
  <2>1. CASE p = q
    <3>1. n2 = Node(s, q + 1)
      BY <2>1, <1>5, <1>8
    <3>2. q + 1 \in 1..(Len(s) + 1) /\ q + 1 # q /\ to(q + 1) = q /\ to(p) = q
      BY <2>1, <1>1
    <3> HIDE DEF to
    <3> QED
      BY <3>1, <3>2, <1>7
  <2>2. CASE p # q
    <3>1. n # s[q]
      <4>1. p \in 0..Len(s) \/ p = Len(s) + 1
        BY <1>1
      <4>2. s[q] \in Entries
        BY <1>5
      <4> QED
        BY <4>1, <4>2, <2>2, <1>5, <1>6, <1>8, SafeListAssumption
    <3> QED
      BY <3>1, <2>2, <1>7, <1>8
  <2> QED
    BY <2>1, <2>2
<1>10. ASSUME NEW j \in 1..Len(s), j # q
       PROVE  (p <= j => to(p) <= to(j)) /\ (j < p => to(j) < to(p))
  BY <1>1, <1>10
<1> HIDE DEF to, n2
<1>11. call2.owed = call.owed \ {s[q]} /\ call2.seen = call.seen \ {s[q]}
  BY DEF Call
<1> HIDE DEF call2
<1>12. ASSUME NEW f \in call2.owed
       PROVE  \E j \in 1..Len(r) : to(p) <= j /\ r[j] = f
  <2>1. PICK j \in 1..Len(s) : p <= j /\ s[j] = f
    BY <1>2, <1>11 DEF CursorAt
  <2>2. j # q
    BY <2>1, <1>11
  <2> QED
    BY <2>1, <2>2, <1>3, <1>10
<1>13. ASSUME NEW f \in call2.seen
       PROVE  \E j \in 1..Len(r) : j < to(p) /\ r[j] = f
  <2>1. PICK j \in 1..Len(s) : j < p /\ s[j] = f
    BY <1>2, <1>11 DEF CursorAt
  <2>2. j # q
    BY <2>1, <1>11
  <2> QED
    BY <2>1, <2>2, <1>3, <1>10
<1>14. CursorAt(r, n2, call2, to(p))
  BY <1>9, <1>12, <1>13 DEF CursorAt
<1>15. Cursor(r, n2, call2)
  BY <1>4, <1>14 DEF Cursor
<1> QED
  BY <1>15 DEF r, n2, call2

LEMMA ItersAre ==
    ASSUME NEW m, m \in Pointers, SetIters(m)
    PROVE  iters' = m
<1>1. m = [ptr |-> m.ptr, head |-> m.head, inext |-> m.inext]
  BY DEF Pointers
<1>2. iters' = [ptr |-> ptr', head |-> head', inext |-> inext']
  BY DEF iters
<1> QED
  BY <1>1, <1>2 DEF SetIters

(* What the invariant says of the list, unfolded. *)
LEMMA RingFacts ==
    ASSUME Inv
    PROVE  /\ Listed \in Seq(Entries) /\ Len(Listed) \in Nat /\ IsInjective(Listed)
           /\ IsRing(next, prev, Listed)
           /\ \A k \in 0..Len(Listed) : /\ next[Node(Listed, k)] = Node(Listed, k + 1)
                                        /\ prev[Node(Listed, k + 1)] = Node(Listed, k)
           /\ \A e \in Entries : IsLinked(e) <=> e \in ToSet(Listed)
<1>1. IsRing(next, prev, Listed)
  BY DEF Inv, Ring
<1>2. {e \in Entries : next[e] # NULL} = ToSet(Listed)
  BY <1>1, RingLinked
<1> QED
  BY <1>1, <1>2 DEF IsRing, IsLinked

(* No iterator waits for an entry that is not linked. *)
LEMMA WaitersLinked ==
    ASSUME Inv
    PROVE  /\ \A i \in Active : inext[i] \in Nodes /\ IsLinked(inext[i])
           /\ \A e \in Entries : ~ IsLinked(e) => ptr[e] = NULL
<1>1. ASSUME NEW i \in Active
      PROVE  inext[i] \in Nodes /\ IsLinked(inext[i])
  <2>1. PICK p \in 1..(Len(Listed) + 1) : inext[i] = Node(Listed, p)
    BY DEF Inv, Cursors, Cursor, CursorAt
  <2>2. p - 1 \in 0..Len(Listed) /\ p - 1 + 1 = p
    BY RingFacts
  <2>3. inext[i] = next[Node(Listed, p - 1)]
    BY <2>1, <2>2, RingFacts
  <2>4. /\ Node(Listed, p - 1) \in Nodes /\ Node(Listed, p) \in Nodes
        /\ NULL \notin Nodes
    BY RingFacts, NodeFacts, SafeListAssumption
  <2>5. IsRing(next, prev, Listed)
    BY RingFacts
  <2>6. next[inext[i]] # NULL
    BY <2>1, <2>3, <2>4, <2>5, RingLinked
  <2> QED
    BY <2>1, <2>4, <2>6 DEF IsLinked
<1>2. ASSUME NEW e \in Entries, ~ IsLinked(e)
      PROVE  ptr[e] = NULL
  <2>1. PICK ch : Chains(iters, ch, Active)
    BY DEF Inv, Hooks
  <2>2. e \in Nodes
    BY DEF Nodes
  <2>3. /\ iters.ptr[e] # NULL => iters.ptr[e] \in ToSet(ch[e])
        /\ ToSet(ch[e]) = {i \in Active : iters.inext[i] = e}
    BY <2>1, <2>2, ChainsFacts
  <2> QED
    BY <2>3, <1>1, <1>2 DEF iters
<1> QED
  BY <1>1, <1>2

(* The entry e is linked behind the node at place q. *)
LEMMA LinkKeepsInv ==
    ASSUME Inv, NEW e \in Entries, ~ IsLinked(e), NEW q \in 0..Len(Listed),
           NEW r \in Seq(Entries), Len(r) = Len(Listed) + 1, IsInjective(r),
           ToSet(r) = ToSet(Listed) \cup {e},
           \A i \in 1..(Len(Listed) + 1) :
              r[i] = IF i <= q THEN Listed[i]
                     ELSE IF i = q + 1 THEN e ELSE Listed[i - 1],
           _list_add(e, Node(Listed, q), Node(Listed, q + 1)),
           ptr' = [ptr EXCEPT ![e] = NULL],
           UNCHANGED <<head, inext, calls, ret>>
    PROVE  Inv' /\ Listed' = r
<1> DEFINE s == Listed
<1>1. e \in Entries \ ToSet(s) /\ s \in Seq(Entries) /\ IsRing(next, prev, s)
  BY RingFacts
<1>2. /\ next' = [next EXCEPT ![e] = Node(s, q + 1), ![Node(s, q)] = e]
      /\ prev' = [prev EXCEPT ![Node(s, q + 1)] = e, ![e] = Node(s, q)]
  BY DEF _list_add
<1> HIDE DEF s
<1>3. IsRing(next', prev', r)
  BY <1>1, <1>2, RingInsert DEF s
<1>4. Listed' = r
  <2>1. ListOf(next') = r
    BY <1>3, RingList
  <2> QED
    BY <2>1 DEF Listed
<1>5. Ring'
  BY <1>3, <1>4 DEF Ring
<1>6. iters' = iters /\ Active' = Active
  <2>1. ptr[e] = NULL
    BY WaitersLinked
  <2>2. ptr \in [Nodes \cup Iterators -> Iterators \cup {NULL}]
    BY DEF Inv, Hooks, Chains, Pointers, iters
  <2>3. ptr' = ptr
    BY <2>1, <2>2
  <2> QED
    BY <2>3 DEF iters, Active
<1>7. Hooks'
  BY <1>6 DEF Hooks, Inv
<1>8. Cursors'
  <2>1. ASSUME NEW i \in Active
        PROVE  Cursor(r, inext[i], calls[i])
    <3>1. Cursor(s, inext[i], calls[i])
      BY DEF Inv, Cursors, s
    <3> QED
      BY <3>1, <1>1, CursorInsert DEF s
  <2> QED
    BY <2>1, <1>4, <1>6 DEF Cursors
<1>9. CallsOK'
  BY DEF Inv, CallsOK
<1> QED
  BY <1>4, <1>5, <1>7, <1>8, <1>9 DEF Inv

LEMMA AddKeepsInv ==
    ASSUME Inv, NEW e \in Entries, safe_list_add(e)
    PROVE  Inv' /\ Listed' = Append(Listed, e)
<1> DEFINE s == Listed
           r == Append(s, e)
<1>1. /\ s \in Seq(Entries) /\ Len(s) \in Nat /\ IsInjective(s)
      /\ e \notin ToSet(s) /\ ~ IsLinked(e)
      /\ prev[Node(s, Len(s) + 1)] = Node(s, Len(s))
  <2>1. Len(s) \in 0..Len(s)
    BY RingFacts
  <2> QED
    BY <2>1, RingFacts DEF safe_list_add
<1> HIDE DEF s
<1>2. /\ r \in Seq(Entries) /\ Len(r) = Len(s) + 1
      /\ ToSet(r) = ToSet(s) \cup {e} /\ IsInjective(r)
  BY <1>1, EntriesOfAppend
<1>3. \A i \in 1..(Len(s) + 1) : r[i] = IF i <= Len(s) THEN s[i]
                                          ELSE IF i = Len(s) + 1 THEN e
                                          ELSE s[i - 1]
  BY <1>1
<1>4. Node(s, Len(s) + 1) = HEAD
  BY <1>1, NodeFacts
<1>5. _list_add(e, Node(s, Len(s)), Node(s, Len(s) + 1))
  BY <1>1, <1>4 DEF safe_list_add
<1>6. ptr' = [ptr EXCEPT ![e] = NULL] /\ UNCHANGED <<head, inext, calls, ret>>
  BY DEF safe_list_add
<1>7. Len(s) \in 0..Len(s)
  BY <1>1
<1> HIDE DEF r
<1> QED
  BY <1>1, <1>2, <1>3, <1>5, <1>6, <1>7, LinkKeepsInv DEF s, r

LEMMA AddFirstKeepsInv ==
    ASSUME Inv, NEW e \in Entries, safe_list_add_first(e)
    PROVE  Inv' /\ Listed' = <<e>> \o Listed
<1> DEFINE s == Listed
           one == <<e>>
           r == one \o s
<1>1. /\ s \in Seq(Entries) /\ Len(s) \in Nat /\ IsInjective(s)
      /\ e \notin ToSet(s) /\ ~ IsLinked(e)
      /\ next[Node(s, 0)] = Node(s, 0 + 1)
      /\ 0 \in 0..Len(s)
  <2>1. 0 \in 0..Len(s)
    BY RingFacts
  <2> QED
    BY <2>1, RingFacts DEF safe_list_add_first
<1> HIDE DEF s
<1>2. /\ one \in Seq(Entries) /\ Len(one) = 1 /\ ToSet(one) = {e}
      /\ IsInjective(one) /\ one[1] = e
  BY EntriesOfOne
<1> HIDE DEF one
<1>3. /\ r \in Seq(Entries) /\ Len(r) = Len(one) + Len(s)
      /\ ToSet(r) = ToSet(one) \cup ToSet(s)
      /\ IsInjective(one) /\ IsInjective(s) /\ ToSet(one) \cap ToSet(s) = {}
            => IsInjective(r)
  <2>1. one \in Seq(Entries) /\ s \in Seq(Entries)
    BY <1>1, <1>2
  <2> QED
    BY <2>1, EntriesOfConcat
<1>4. \A i \in 1..(Len(one) + Len(s)) :
         r[i] = IF i <= Len(one) THEN one[i] ELSE s[i - Len(one)]
  BY <1>1, <1>2, ConcatProperties
<1> HIDE DEF r
<1>5. /\ Len(r) = Len(s) + 1 /\ IsInjective(r)
      /\ ToSet(r) = ToSet(s) \cup {e}
  BY <1>1, <1>2, <1>3
<1>6. \A i \in 1..(Len(s) + 1) : r[i] = IF i <= 0 THEN s[i]
                                          ELSE IF i = 0 + 1 THEN e
                                          ELSE s[i - 1]
  BY <1>1, <1>2, <1>4
<1>7. Node(s, 0) = HEAD
  BY <1>1, NodeFacts
<1>8. _list_add(e, Node(s, 0), Node(s, 0 + 1))
  BY <1>1, <1>7 DEF safe_list_add_first
<1>9. ptr' = [ptr EXCEPT ![e] = NULL] /\ UNCHANGED <<head, inext, calls, ret>>
  BY DEF safe_list_add_first
<1>10. Inv' /\ Listed' = r
  BY <1>1, <1>3, <1>5, <1>6, <1>8, <1>9, LinkKeepsInv DEF s
<1> QED
  BY <1>10 DEF r, one, s

(* The pointers after safe_list_del: the iterators that waited for e wait  *)
(* for its successor.                                                      *)
LEMMA DelIters ==
    ASSUME Inv, NEW e \in Entries, safe_list_del(e)
    PROVE  /\ \E ch : Chains(iters', ch, Active)
           /\ \A i \in Active : inext'[i] = IF inext[i] = e THEN next[e] ELSE inext[i]
<1> DEFINE to == next[e]
<1>1. PICK ch : Chains(iters, ch, Active)
  BY DEF Inv, Hooks
<1>2. e \in Nodes /\ to \in Nodes /\ e # to
  <2>1. PICK k \in 1..Len(Listed) : Listed[k] = e
    BY RingFacts, EntriesFacts DEF safe_list_del
  <2>2. next[e] = Node(Listed, k + 1) /\ Node(Listed, k + 1) # e
    <3>1. IsRing(next, prev, Listed)
      BY RingFacts
    <3>2. /\ next[Listed[k]] = Node(Listed, k + 1)
          /\ Node(Listed, k + 1) # Listed[k]
      BY <3>1, RingAround
    <3> QED
      BY <3>2, <2>1
  <2> QED
    BY <2>2, RingFacts, NodeFacts DEF Nodes
<1>3. SetIters(IF ptr[e] = NULL THEN iters ELSE HandOver(iters, e, to))
  BY DEF safe_list_del
<1>4. ToSet(ch[e]) = {i \in Active : inext[i] = e}
  BY <1>1, <1>2, ChainsFacts DEF iters
<1>5. CASE ptr[e] = NULL
  <2>1. iters' = iters
    BY <1>3, <1>5 DEF SetIters, iters
  <2>2. ch[e] = <<>>
    BY <1>1, <1>2, <1>5, ChainsFacts DEF iters
  <2>3. \A i \in Active : inext[i] # e
    <3>1. ToSet(<<>>) = {}
      BY DEF ToSet
    <3> QED
      BY <3>1, <2>2, <1>4
  <2> QED
    BY <2>1, <2>3, <1>1 DEF iters
<1>6. CASE ptr[e] # NULL
  <2> DEFINE m2 == HandOver(iters, e, to)
  <2>1. PICK ch2 : Chains(m2, ch2, Active)
    BY <1>1, <1>2, <1>6, HandOverChains DEF iters
  <2>2. iters' = m2
    <3>1. m2 \in Pointers
      BY <2>1 DEF Chains
    <3> HIDE DEF m2
    <3> QED
      BY <3>1, <1>3, <1>6, ItersAre DEF m2
  <2>3. Chain(iters, e) = ToSet(ch[e])
    BY <1>1, <1>2, ChainFound DEF Chains
  <2>4. m2.inext = [j \in Iterators |-> IF j \in ToSet(ch[e]) THEN to ELSE inext[j]]
    BY <2>3 DEF HandOver, iters
  <2>5. Active \subseteq Iterators
    BY <1>1 DEF Chains
  <2>6. inext' = m2.inext
    BY <2>2 DEF iters
  <2> QED
    BY <2>1, <2>2, <2>4, <2>5, <2>6, <1>4
<1> QED
  BY <1>5, <1>6

LEMMA DelKeepsInv ==
    ASSUME Inv, NEW e \in Entries, safe_list_del(e)
    PROVE  /\ Inv'
           /\ \E k \in 1..Len(Listed) : /\ Listed[k] = e
                                        /\ Listed' = RemoveAt(Listed, k)
<1> DEFINE s == Listed
           Forget(call) == [call EXCEPT !.owed = @ \ {e}, !.seen = @ \ {e}]
<1>1. /\ s \in Seq(Entries) /\ Len(s) \in Nat /\ IsInjective(s)
      /\ IsRing(next, prev, s) /\ e \in ToSet(s)
  BY RingFacts DEF safe_list_del
<1>2. PICK k \in 1..Len(s) : s[k] = e
  BY <1>1, EntriesFacts
<1> DEFINE r == RemoveAt(s, k)
<1> HIDE DEF s, r
<1>3. /\ next[e] = Node(s, k + 1) /\ prev[e] = Node(s, k - 1)
      /\ IsRing([next EXCEPT ![Node(s, k - 1)] = Node(s, k + 1), ![e] = NULL],
                [prev EXCEPT ![Node(s, k + 1)] = Node(s, k - 1), ![e] = NULL], r)
  <2>1. next[s[k]] = Node(s, k + 1) /\ prev[s[k]] = Node(s, k - 1)
    BY <1>1, RingAround
  <2>2. IsRing([next EXCEPT ![Node(s, k - 1)] = Node(s, k + 1), ![s[k]] = NULL],
               [prev EXCEPT ![Node(s, k + 1)] = Node(s, k - 1), ![s[k]] = NULL], r)
    BY <1>1, RingRemove DEF r
  <2> QED
    BY <1>2, <2>1, <2>2
<1>4. IsRing(next', prev', r)
  BY <1>3 DEF safe_list_del, list_del
<1>5. Listed' = r
  <2>1. ListOf(next') = r
    BY <1>4, RingList
  <2> QED
    BY <2>1 DEF Listed
<1>6. Ring'
  BY <1>4, <1>5 DEF Ring
<1>7. calls \in Seq(Call) /\ Len(calls) \in Nat /\ Len(calls) <= MaxDepth
  BY DEF Inv, CallsOK
<1>8. calls' = [i \in Active |-> Forget(calls[i])]
  <2>1. DOMAIN calls = Active
    BY <1>7 DEF Active
  <2> QED
    BY <2>1 DEF safe_list_del
<1>9. \A i \in Active : calls[i] \in Call /\ Forget(calls[i]) \in Call
  <2>1. \A i \in Active : calls[i] \in Call
    BY <1>7 DEF Active
  <2> QED
    BY <2>1 DEF Call
<1> HIDE DEF Forget
<1>10. CallsOK' /\ Active' = Active
  <2>1. calls' \in [1..Len(calls) -> Call]
    BY <1>8, <1>9 DEF Active
  <2>2. calls' \in Seq(Call) /\ Len(calls') = Len(calls)
    BY <2>1, <1>7, FunctionIsSeq
  <2> QED
    BY <2>2, <1>7 DEF CallsOK, Active
<1>11. Hooks'
  BY <1>10, DelIters DEF Hooks
<1>12. ASSUME NEW i \in Active
       PROVE  Cursor(r, inext'[i], calls'[i])
  <2>1. Cursor(s, inext[i], calls[i])
    BY DEF Inv, Cursors, s
  <2>2. inext'[i] = IF inext[i] = s[k] THEN Node(s, k + 1) ELSE inext[i]
    BY <1>2, <1>3, DelIters
  <2>3. calls'[i] = [calls[i] EXCEPT !.owed = @ \ {s[k]}, !.seen = @ \ {s[k]}]
    BY <1>2, <1>8 DEF Forget
  <2>4. s \in Seq(Entries) /\ IsInjective(s) /\ calls[i] \in Call
    BY <1>1, <1>9
  <2>5. Cursor(RemoveAt(s, k), IF inext[i] = s[k] THEN Node(s, k + 1) ELSE inext[i],
               [calls[i] EXCEPT !.owed = @ \ {s[k]}, !.seen = @ \ {s[k]}])
    BY <2>1, <2>4, CursorRemove
  <2> QED
    BY <2>2, <2>3, <2>5 DEF r
<1>13. Cursors'
  BY <1>5, <1>10, <1>12 DEF Cursors
<1> QED
  BY <1>2, <1>5, <1>6, <1>10, <1>11, <1>13 DEF Inv, s, r

(* What __safe_list_set_iterator does to chains and waiting iterators. *)
LEMMA SetKeepsHooks ==
    ASSUME NEW m, NEW ch, NEW A, Chains(m, ch, A),
           NEW i \in Iterators \ A, NEW n, next[n] \in Nodes
    PROVE  \E ch2 : Chains(SetIterator(m, n, i), ch2, A \cup {i})
  BY SetChains, SetIteratorHooks

LEMMA SetWaits ==
    ASSUME NEW m, m \in Pointers, NEW i \in Iterators, NEW n
    PROVE  /\ SetIterator(m, n, i).inext[i] = next[n]
           /\ \A j \in Iterators \ {i} :
                 SetIterator(m, n, i).inext[j] = m.inext[j]
<1>1. SetIterator(m, n, i).inext = [m.inext EXCEPT ![i] = next[n]]
  BY DEF SetIterator
<1>2. m.inext \in [Iterators -> Nodes \cup {NULL}]
  BY DEF Pointers
<1> QED
  BY <1>1, <1>2

(* The list, where nothing is linked or unlinked. *)
LEMMA ListKept ==
    ASSUME Inv, UNCHANGED links
    PROVE  Ring' /\ Listed' = Listed
<1>1. next' = next /\ prev' = prev
  BY DEF links
<1>2. Listed' = Listed
  BY <1>1 DEF Listed
<1> QED
  BY <1>1, <1>2 DEF Inv, Ring

LEMMA CallsFacts ==
    ASSUME Inv
    PROVE  /\ calls \in Seq(Call) /\ Len(calls) \in Nat /\ Len(calls) <= MaxDepth
           /\ Active \subseteq Iterators
           /\ \A i \in Active : calls[i] \in Call
           /\ calls # <<>> => Len(calls) \in Active /\ Last(calls) = calls[Len(calls)]
<1>1. calls \in Seq(Call) /\ Len(calls) \in Nat /\ Len(calls) <= MaxDepth
  BY DEF Inv, CallsOK
<1>2. MaxDepth \in Nat
  BY SafeListAssumption
<1>3. Active \subseteq Iterators
  BY <1>1, <1>2 DEF Active, Iterators
<1>4. \A i \in Active : calls[i] \in Call
  BY <1>1, ElementOfSeq DEF Active
<1>5. calls # <<>> => Len(calls) \in Active /\ Last(calls) = calls[Len(calls)]
  BY <1>1 DEF Active, Last
<1> QED
  BY <1>1, <1>3, <1>4, <1>5

LEMMA BeginKeepsInv ==
    ASSUME Inv, ForEachBegin
    PROVE  Inv' /\ Listed' = Listed /\ Listed # <<>> /\ next[HEAD] = Listed[1]
<1> DEFINE s == Listed
           i == Len(calls) + 1
           new == [cur |-> next[HEAD], owed |-> ToSet(Listed) \ {next[HEAD]},
                   seen |-> {next[HEAD]}, odd |-> TRUE]
<1>1. /\ s \in Seq(Entries) /\ Len(s) \in Nat /\ IsInjective(s)
      /\ IsRing(next, prev, s)
      /\ \A k \in 0..Len(s) : next[Node(s, k)] = Node(s, k + 1)
  BY RingFacts
<1>2. Ring' /\ Listed' = Listed
  BY ListKept DEF ForEachBegin
<1>3. /\ s # <<>> /\ 1 \in 1..Len(s) /\ next[HEAD] = s[1] /\ s[1] \in Entries
      /\ next[s[1]] = Node(s, 2) /\ Node(s, 2) \in Nodes
  <2>1. Node(s, 0) = HEAD /\ Node(s, Len(s) + 1) = HEAD
    BY <1>1, NodeFacts
  <2>2. next[HEAD] = Node(s, 1)
    BY <1>1, <2>1
  <2>3. next[HEAD] # HEAD
    BY DEF ForEachBegin
  <2>4. Len(s) # 0
    BY <2>1, <2>2, <2>3
  <2>5. 1 \in 1..Len(s) /\ 1 \in 0..Len(s) /\ 1 + 1 = 2
    BY <2>4, <1>1
  <2>6. Node(s, 1) = s[1] /\ s[1] \in Entries /\ Node(s, 2) \in Nodes
    BY <2>5, <1>1, NodeFacts
  <2>7. next[s[1]] = Node(s, 2)
    BY <2>5, <2>6, <1>1
  <2> QED
    BY <1>1, <2>2, <2>5, <2>6, <2>7
<1>4. /\ calls \in Seq(Call) /\ Len(calls) \in Nat /\ Active \subseteq Iterators
      /\ i \in Iterators \ Active
      /\ calls' = Append(calls, new)
  BY CallsFacts DEF ForEachBegin, Active
<1>5. new \in Call
  <2>1. ToSet(s) \subseteq Entries
    BY <1>1, EntriesFacts
  <2> QED
    BY <2>1, <1>3 DEF Call
<1> HIDE DEF s, new
<1>6. /\ calls' \in Seq(Call) /\ Len(calls') = i
      /\ \A j \in Active : calls'[j] = calls[j]
      /\ calls'[i] = new
  BY <1>4, <1>5 DEF Active
<1>7. Active' = Active \cup {i}
  BY <1>4, <1>6 DEF Active
<1>8. CallsOK'
  BY <1>4, <1>6, SafeListAssumption DEF CallsOK, Iterators
<1> DEFINE m2 == SetIterator(iters, next[HEAD], i)
<1> HIDE DEF i
<1>9. /\ \E ch2 : Chains(m2, ch2, Active \cup {i})
      /\ \A j \in Active \cup {i} :
            m2.inext[j] = IF j = i THEN Node(s, 2) ELSE inext[j]
  <2>1. PICK ch : Chains(iters, ch, Active)
    BY DEF Inv, Hooks
  <2>2. next[HEAD] \in Nodes /\ next[next[HEAD]] \in Nodes
    BY <1>3 DEF Nodes
  <2>3. \E ch2 : Chains(m2, ch2, Active \cup {i})
    BY <2>1, <2>2, <1>4, SetKeepsHooks
  <2>4. /\ m2.inext[i] = next[next[HEAD]]
        /\ \A j \in Iterators \ {i} : m2.inext[j] = iters.inext[j]
    <3>1. iters \in Pointers
      BY <2>1 DEF Chains
    <3> QED
      BY <3>1, <1>4, SetWaits
  <2> HIDE DEF m2
  <2> QED
    BY <2>3, <2>4, <1>3, <1>4 DEF iters
<1>10. iters' = m2
  <2>1. SetIters(m2)
    BY DEF ForEachBegin, i
  <2>2. m2 \in Pointers
    BY <1>9 DEF Chains
  <2> HIDE DEF m2
  <2> QED
    BY <2>1, <2>2, ItersAre
<1> HIDE DEF m2
<1>11. Hooks'
  BY <1>7, <1>9, <1>10 DEF Hooks
<1>12. \A j \in Active \cup {i} : inext'[j] = IF j = i THEN Node(s, 2) ELSE inext[j]
  BY <1>9, <1>10 DEF iters
<1>13. Cursor(s, inext'[i], new)
  <2>1. 2 \in 1..(Len(s) + 1)
    BY <1>1, <1>3
  <2>2. new.owed = ToSet(s) \ {s[1]} /\ new.seen = {s[1]}
    BY <1>3 DEF new, s
  <2>3. \A f \in new.owed : \E j \in 1..Len(s) : 2 <= j /\ s[j] = f
    <3>1. \A f \in new.owed : f # s[1] /\ \E j \in 1..Len(s) : s[j] = f
      BY <2>2, <1>1, EntriesFacts
    <3>2. \A j \in 1..Len(s) : j # 1 => 2 <= j
      BY <1>1
    <3> QED
      BY <3>1, <3>2
  <2>4. \A f \in new.seen : \E j \in 1..Len(s) : j < 2 /\ s[j] = f
    BY <2>2, <1>3
  <2>5. CursorAt(s, inext'[i], new, 2)
    BY <2>3, <2>4, <1>12 DEF CursorAt
  <2> QED
    BY <2>1, <2>5 DEF Cursor
<1>14. Cursors'
  <2>1. ASSUME NEW j \in Active \cup {i}
        PROVE  Cursor(s, inext'[j], calls'[j])
    <3>1. CASE j = i
      BY <3>1, <1>6, <1>13
    <3>2. CASE j # i
      BY <3>2, <1>6, <1>12 DEF Inv, Cursors, s
    <3> QED
      BY <3>1, <3>2
  <2> QED
    BY <2>1, <1>2, <1>7 DEF Cursors, s
<1> QED
  BY <1>2, <1>3, <1>8, <1>11, <1>14 DEF Inv, s

(* Moving an iterator on leaves it among the active ones.                  *)
LEMMA MoveChains ==
    ASSUME NEW m, NEW ch, NEW A, Chains(m, ch, A),
           NEW i \in A, NEW n, next[n] \in Nodes
    PROVE  \E ch2 : Chains(MoveIterator(m, n, i), ch2, A)
<1>1. PICK ch2 : Chains(DelIterator(m, i), ch2, A \ {i})
  BY DelChains
<1>2. i \in Iterators \ (A \ {i}) /\ (A \ {i}) \cup {i} = A
  BY DEF Chains
<1>3. \E ch3 : Chains(SetIterator(DelIterator(m, i), n, i), ch3, (A \ {i}) \cup {i})
  BY <1>1, <1>2, SetKeepsHooks
<1> QED
  BY <1>2, <1>3 DEF MoveIterator

LEMMA DelWaits ==
    ASSUME NEW m, m \in Pointers, NEW i \in Iterators
    PROVE  /\ DelIterator(m, i).inext = m.inext
           /\ \A j \in Iterators \ {i} : EndIterator(m, i).inext[j] = m.inext[j]
<1>1. DelIterator(m, i).inext = m.inext
  BY DEF DelIterator, Pointers
<1>2. "inext" \in DOMAIN DelIterator(m, i) /\ "inext" \in DOMAIN m
  BY DEF DelIterator, Pointers
<1>3. EndIterator(m, i).inext = [m.inext EXCEPT ![i] = NULL]
  BY <1>1, <1>2 DEF EndIterator
<1>4. m.inext \in [Iterators -> Nodes \cup {NULL}]
  BY DEF Pointers
<1> QED
  BY <1>1, <1>3, <1>4

LEMMA MoveWaits ==
    ASSUME NEW m, NEW ch, NEW A, Chains(m, ch, A), NEW i \in A, NEW n
    PROVE  /\ MoveIterator(m, n, i).inext[i] = next[n]
           /\ \A j \in Iterators \ {i} : MoveIterator(m, n, i).inext[j] = m.inext[j]
<1> DEFINE d == DelIterator(m, i)
<1>1. PICK ch2 : Chains(d, ch2, A \ {i})
  BY DelChains
<1>2. m \in Pointers /\ d \in Pointers /\ i \in Iterators
  BY <1>1 DEF Chains
<1>3. d.inext = m.inext
  BY <1>2, DelWaits
<1> HIDE DEF d
<1>4. /\ SetIterator(d, n, i).inext[i] = next[n]
      /\ \A j \in Iterators \ {i} : SetIterator(d, n, i).inext[j] = d.inext[j]
  BY <1>2, SetWaits
<1> QED
  BY <1>3, <1>4 DEF MoveIterator, d

(* The next entry was not seen and is passed over by no entry that is owed.*)
LEMMA CursorNext ==
    ASSUME NEW s \in Seq(Entries), IsInjective(s), NEW n, n # HEAD,
           NEW call, Cursor(s, n, call), NEW call2,
           call2.owed = call.owed \ {n}, call2.seen = call.seen \cup {n}
    PROVE  \E q \in 1..Len(s) :
              /\ n = s[q]
              /\ Cursor(s, Node(s, q + 1), call2)
              /\ n \notin call.seen
              /\ \A f \in call.owed : \E j \in 1..Len(s) : q <= j /\ s[j] = f
<1>1. PICK q \in 1..(Len(s) + 1) : CursorAt(s, n, call, q)
  BY DEF Cursor
<1>2. /\ Len(s) \in Nat
      /\ \A j, k \in 1..Len(s) : s[j] = s[k] => j = k
  BY DEF IsInjective
<1>3. q \in 1..Len(s) /\ n = s[q]
  BY <1>1, <1>2 DEF CursorAt, Node
<1>4. n \notin call.seen
  BY <1>1, <1>2, <1>3 DEF CursorAt
<1>5. \A f \in call.owed : \E j \in 1..Len(s) : q <= j /\ s[j] = f
  BY <1>1 DEF CursorAt
<1>6. ASSUME NEW f \in call2.owed
      PROVE  \E j \in 1..Len(s) : q + 1 <= j /\ s[j] = f
  <2>1. PICK j \in 1..Len(s) : q <= j /\ s[j] = f
    BY <1>5
  <2>2. j # q
    BY <2>1, <1>3
  <2>3. q + 1 <= j
    BY <2>1, <2>2, <1>2, <1>3
  <2> QED
    BY <2>1, <2>3
<1>7. ASSUME NEW f \in call2.seen
      PROVE  \E j \in 1..Len(s) : j < q + 1 /\ s[j] = f
  <2>1. CASE f = n
    <3>1. q < q + 1
      BY <1>2, <1>3
    <3> QED
      BY <3>1, <2>1, <1>3
  <2>2. CASE f \in call.seen
    <3>1. PICK j \in 1..Len(s) : j < q /\ s[j] = f
      BY <2>2, <1>1 DEF CursorAt
    <3>2. j < q + 1
      BY <3>1, <1>2, <1>3
    <3> QED
      BY <3>1, <3>2
  <2> QED
    BY <2>1, <2>2
<1>8. q + 1 \in 1..(Len(s) + 1)
  BY <1>2, <1>3
<1>9. CursorAt(s, Node(s, q + 1), call2, q + 1)
  BY <1>6, <1>7 DEF CursorAt
<1>10. Cursor(s, Node(s, q + 1), call2)
  BY <1>8, <1>9 DEF Cursor
<1> QED
  BY <1>3, <1>4, <1>5, <1>10

LEMMA NextKeepsInv ==
    ASSUME Inv, ForEachNext
    PROVE  /\ Inv' /\ Listed' = Listed
           /\ LET n == inext[Len(calls)]
                  call == calls[Len(calls)]
              IN  \E q \in 1..Len(Listed) :
                     /\ n = Listed[q]
                     /\ n \notin call.seen
                     /\ \A f \in call.owed :
                           \E j \in 1..Len(Listed) : q <= j /\ Listed[j] = f
<1> DEFINE s == Listed
           i == Len(calls)
           n == inext[i]
           call == calls[i]
           call2 == [cur |-> n, owed |-> call.owed \ {n},
                     seen |-> call.seen \cup {n}, odd |-> ~ call.odd]
<1>1. /\ s \in Seq(Entries) /\ Len(s) \in Nat /\ IsInjective(s)
      /\ \A k \in 0..Len(s) : next[Node(s, k)] = Node(s, k + 1)
  BY RingFacts
<1>2. Ring' /\ Listed' = Listed
  BY ListKept DEF ForEachNext
<1>3. /\ calls \in Seq(Call) /\ Len(calls) \in Nat /\ Len(calls) <= MaxDepth
      /\ Active \subseteq Iterators /\ i \in Active
      /\ \A j \in Active : calls[j] \in Call
  BY CallsFacts DEF ForEachNext
<1>4. calls' = [calls EXCEPT ![i] = call2] /\ n # HEAD
  BY DEF ForEachNext
<1>5. Cursor(s, n, call)
  BY <1>3 DEF Inv, Cursors
<1>6. call2.owed = call.owed \ {n} /\ call2.seen = call.seen \cup {n}
  OBVIOUS
<1> HIDE DEF s, i, n, call, call2
<1>7. PICK q \in 1..Len(s) :
         /\ n = s[q]
         /\ Cursor(s, Node(s, q + 1), call2)
         /\ n \notin call.seen
         /\ \A f \in call.owed : \E j \in 1..Len(s) : q <= j /\ s[j] = f
  <2>1. s \in Seq(Entries) /\ IsInjective(s) /\ n # HEAD
    BY <1>1, <1>4
  <2> QED
    BY <2>1, <1>5, <1>6, CursorNext
<1>8. next[n] = Node(s, q + 1) /\ next[n] \in Nodes /\ n \in Entries
  <2>1. /\ q \in 0..Len(s) /\ Node(s, q) = s[q] /\ s[q] \in Entries
        /\ Node(s, q + 1) \in Nodes
    BY <1>1, NodeFacts
  <2> QED
    BY <2>1, <1>1, <1>7
<1>9. call \in Call
  BY <1>3 DEF call
<1>10. call2 \in Call
  BY <1>8, <1>9 DEF Call, call2
<1>11. /\ calls' \in Seq(Call) /\ Len(calls') = Len(calls)
       /\ calls'[i] = call2
       /\ \A j \in Active : j # i => calls'[j] = calls[j]
  BY <1>3, <1>4, <1>10 DEF Active
<1>12. CallsOK' /\ Active' = Active
  BY <1>3, <1>11 DEF CallsOK, Active
<1> DEFINE m2 == MoveIterator(iters, n, i)
<1>13. PICK ch : Chains(iters, ch, Active)
  BY DEF Inv, Hooks
<1>14. PICK ch2 : Chains(m2, ch2, Active)
  BY <1>3, <1>8, <1>13, MoveChains
<1>15. iters' = m2
  <2>1. SetIters(m2)
    BY DEF ForEachNext, i, n
  <2>2. m2 \in Pointers
    BY <1>14 DEF Chains
  <2> HIDE DEF m2
  <2> QED
    BY <2>1, <2>2, ItersAre
<1>16. /\ m2.inext[i] = next[n]
       /\ \A j \in Iterators \ {i} : m2.inext[j] = iters.inext[j]
  BY <1>3, <1>13, MoveWaits
<1> HIDE DEF m2
<1>17. Hooks'
  BY <1>12, <1>14, <1>15 DEF Hooks
<1>18. /\ inext'[i] = Node(s, q + 1)
       /\ \A j \in Active : j # i => inext'[j] = inext[j]
  BY <1>3, <1>8, <1>15, <1>16 DEF iters
<1>19. Cursors'
  <2>1. ASSUME NEW j \in Active
        PROVE  Cursor(s, inext'[j], calls'[j])
    <3>1. CASE j = i
      BY <3>1, <1>7, <1>11, <1>18
    <3>2. CASE j # i
      BY <3>2, <1>11, <1>18 DEF Inv, Cursors, s
    <3> QED
      BY <3>1, <3>2
  <2> QED
    BY <2>1, <1>2, <1>12 DEF Cursors, s
<1> QED
  BY <1>2, <1>7, <1>12, <1>17, <1>19 DEF Inv, s, n, call, i

(* An iteration that leaves the loop takes its iterator along.             *)
LEMMA ReturnKeepsInv ==
    ASSUME Inv, UNCHANGED links, calls # <<>>, calls' = Front(calls),
           NEW m, NEW ch, Chains(m, ch, Active),
           \A j \in Active \ {Len(calls)} : m.inext[j] = inext[j],
           SetIters(EndIterator(m, Len(calls)))
    PROVE  Inv' /\ Listed' = Listed
<1> DEFINE i == Len(calls)
           m2 == EndIterator(m, i)
<1>1. Ring' /\ Listed' = Listed
  BY ListKept
<1>2. /\ calls \in Seq(Call) /\ Len(calls) \in Nat /\ Len(calls) <= MaxDepth
      /\ Active \subseteq Iterators /\ i \in Active
  BY CallsFacts
<1>3. /\ calls' \in Seq(Call) /\ Len(calls') = i - 1
      /\ \A j \in 1..(i - 1) : calls'[j] = calls[j]
  BY <1>2, FrontLastFacts
<1>4. Active' = Active \ {i} /\ Active' = 1..(i - 1)
  BY <1>2, <1>3 DEF Active
<1>5. CallsOK'
  BY <1>2, <1>3, SafeListAssumption DEF CallsOK
<1>6. PICK ch2 : Chains(m2, ch2, Active \ {i})
  BY <1>2, EndChains
<1>7. iters' = m2
  <2>1. SetIters(m2) /\ m2 \in Pointers
    BY <1>6 DEF Chains
  <2> HIDE DEF m2
  <2> QED
    BY <2>1, ItersAre
<1>8. \A j \in Iterators \ {i} : m2.inext[j] = m.inext[j]
  <2>1. m \in Pointers /\ i \in Iterators
    BY <1>2 DEF Chains
  <2> QED
    BY <2>1, DelWaits
<1> HIDE DEF m2, i
<1>9. Hooks'
  BY <1>4, <1>6, <1>7 DEF Hooks
<1>10. \A j \in Active \ {i} : inext'[j] = inext[j] /\ calls'[j] = calls[j]
  BY <1>2, <1>3, <1>4, <1>7, <1>8 DEF iters, i
<1>11. Cursors'
  <2>1. \A j \in Active \ {i} : Cursor(Listed, inext'[j], calls'[j])
    BY <1>10 DEF Inv, Cursors
  <2> QED
    BY <2>1, <1>1, <1>4 DEF Cursors
<1> QED
  BY <1>1, <1>5, <1>9, <1>11 DEF Inv

LEMMA EndKeepsInv ==
    ASSUME Inv, ForEachEnd
    PROVE  Inv' /\ Listed' = Listed /\ calls[Len(calls)].owed = {}
<1> DEFINE i == Len(calls)
           m == MoveIterator(iters, HEAD, i)
<1>1. i \in Active /\ Active \subseteq Iterators
  BY CallsFacts DEF ForEachEnd
<1>2. PICK ch : Chains(iters, ch, Active)
  BY DEF Inv, Hooks
<1>3. next[HEAD] \in Nodes
  <2>1. 0 \in 0..Len(Listed) /\ Node(Listed, 0) = HEAD /\ Node(Listed, 0 + 1) \in Nodes
    BY RingFacts, NodeFacts
  <2> QED
    BY <2>1, RingFacts
<1>4. PICK ch2 : Chains(m, ch2, Active)
  BY <1>1, <1>2, <1>3, MoveChains
<1>5. \A j \in Iterators \ {i} : m.inext[j] = iters.inext[j]
  BY <1>1, <1>2, MoveWaits
<1>6. \A j \in Active \ {Len(calls)} : m.inext[j] = inext[j]
  BY <1>1, <1>5 DEF iters
<1>7. /\ UNCHANGED links /\ calls # <<>> /\ calls' = Front(calls)
      /\ SetIters(EndIterator(m, Len(calls)))
      /\ inext[i] = HEAD
  BY DEF ForEachEnd
<1> HIDE DEF m
<1>8. Inv' /\ Listed' = Listed
  BY <1>4, <1>6, <1>7, ReturnKeepsInv
<1>9. calls[i].owed = {}
  <2>1. PICK p \in 1..(Len(Listed) + 1) : CursorAt(Listed, inext[i], calls[i], p)
    BY <1>1 DEF Inv, Cursors, Cursor
  <2>2. /\ Len(Listed) \in Nat
        /\ \A k \in 1..Len(Listed) : Node(Listed, k) \in Entries
    BY RingFacts, NodeFacts
  <2>3. HEAD \notin Entries
    BY SafeListAssumption
  <2>4. ~ (p \in 1..Len(Listed))
    BY <2>1, <2>2, <2>3, <1>7 DEF CursorAt
  <2>5. \A j \in 1..Len(Listed) : ~ (p <= j)
    BY <2>2, <2>4
  <2> QED
    BY <2>1, <2>5 DEF CursorAt
<1> QED
  BY <1>8, <1>9

LEMMA BreakKeepsInv ==
    ASSUME Inv, ForEachBreak
    PROVE  Inv' /\ Listed' = Listed
<1>1. PICK ch : Chains(iters, ch, Active)
  BY DEF Inv, Hooks
<1>2. \A j \in Active \ {Len(calls)} : iters.inext[j] = inext[j]
  BY DEF iters
<1>3. /\ UNCHANGED links /\ calls # <<>> /\ calls' = Front(calls)
      /\ SetIters(EndIterator(iters, Len(calls)))
  BY DEF ForEachBreak
<1> QED
  BY <1>1, <1>2, <1>3, ReturnKeepsInv

LEMMA EmptyKeepsInv ==
    ASSUME Inv, ForEachEmpty
    PROVE  Inv' /\ Listed' = Listed /\ Listed = <<>>
<1> DEFINE i == Len(calls) + 1
           m == SetIterator(iters, HEAD, i)
           m2 == EndIterator(m, i)
<1>1. /\ Active \subseteq Iterators /\ i \in Iterators \ Active
      /\ calls' = calls
  BY CallsFacts DEF ForEachEmpty, Active
<1>2. Ring' /\ Listed' = Listed
  BY ListKept DEF ForEachEmpty
<1>3. PICK ch : Chains(iters, ch, Active)
  BY DEF Inv, Hooks
<1>4. next[HEAD] \in Nodes /\ next[HEAD] = HEAD
  BY DEF ForEachEmpty, Nodes
<1>5. PICK ch2 : Chains(m, ch2, Active \cup {i})
  BY <1>1, <1>3, <1>4, SetKeepsHooks
<1>6. i \in Active \cup {i} /\ (Active \cup {i}) \ {i} = Active
  BY <1>1
<1> HIDE DEF m
<1>7. PICK ch3 : Chains(m2, ch3, Active)
  <2>1. \E ch3 : Chains(m2, ch3, (Active \cup {i}) \ {i})
    BY <1>5, <1>6, EndChains
  <2> QED
    BY <2>1, <1>6
<1>8. iters' = m2
  <2>1. SetIters(m2) /\ m2 \in Pointers
    BY <1>7 DEF Chains, ForEachEmpty, m
  <2> HIDE DEF m2
  <2> QED
    BY <2>1, ItersAre
<1>9. \A j \in Iterators \ {i} : m2.inext[j] = inext[j]
  <2>1. \A j \in Iterators \ {i} : m.inext[j] = inext[j]
    <3>1. iters \in Pointers
      BY <1>3 DEF Chains
    <3>2. \A j \in Iterators \ {i} : m.inext[j] = iters.inext[j]
      BY <3>1, <1>1, SetWaits DEF m
    <3> QED
      BY <3>2 DEF iters
  <2>2. \A j \in Iterators \ {i} : m2.inext[j] = m.inext[j]
    <3>1. m \in Pointers /\ i \in Iterators
      BY <1>1, <1>5 DEF Chains
    <3> QED
      BY <3>1, DelWaits
  <2> QED
    BY <2>1, <2>2
<1> HIDE DEF m2, i
<1>10. Active' = Active
  BY <1>1 DEF Active
<1>11. Hooks'
  BY <1>7, <1>8, <1>10 DEF Hooks
<1>12. \A j \in Active : inext'[j] = inext[j]
  BY <1>1, <1>8, <1>9 DEF iters
<1>13. Cursors'
  BY <1>1, <1>2, <1>10, <1>12 DEF Inv, Cursors
<1>14. CallsOK'
  BY <1>1 DEF Inv, CallsOK
<1>15. Listed = <<>>
  <2>1. /\ Node(Listed, 0) = HEAD /\ 0 \in 0..Len(Listed) /\ 0 + 1 = 1
        /\ Listed \in Seq(Entries) /\ Len(Listed) \in Nat
        /\ \A k \in 1..Len(Listed) : Node(Listed, k) \in Entries
    BY RingFacts, NodeFacts
  <2>2. Node(Listed, 1) = HEAD
    BY <2>1, <1>4, RingFacts
  <2>3. ~ (1 \in 1..Len(Listed))
    BY <2>1, <2>2, SafeListAssumption
  <2>4. Len(Listed) = 0
    BY <2>1, <2>3
  <2> QED
    BY <2>1, <2>4
<1> QED
  BY <1>2, <1>11, <1>13, <1>14, <1>15 DEF Inv

-----------------------------------------------------------------------------
LEMMA InitInv ==
    ASSUME Init
    PROVE  Inv /\ Listed = <<>>
<1> DEFINE ch == [n \in Nodes |-> <<>>]
<1>1. NULL \notin Nodes /\ HEAD \notin Entries /\ HEAD \in Nodes /\ MaxDepth \in Nat
  BY SafeListAssumption DEF Nodes
<1>2. <<>> \in Seq(Entries) /\ Len(<<>>) = 0 /\ ToSet(<<>>) = {} /\ IsInjective(<<>>)
      /\ <<>> \in Seq(Call)
  BY DEF ToSet, IsInjective
<1>3. \A k : Node(<<>>, k) = HEAD
  BY DEF Node
<1>4. /\ next = [n \in Nodes |-> IF n = HEAD THEN HEAD ELSE NULL]
      /\ prev = next
  BY DEF Init
<1>5. IsRing(next, prev, <<>>)
  <2>1. /\ next \in [Nodes -> Nodes \cup {NULL}] /\ next[HEAD] = HEAD
        /\ \A e \in Entries : next[e] = NULL
    BY <1>1, <1>4 DEF Nodes
  <2> QED
    BY <2>1, <1>2, <1>3, <1>4 DEF IsRing
<1>6. Listed = <<>>
  <2>1. ListOf(next) = <<>>
    BY <1>5, RingList
  <2> QED
    BY <2>1 DEF Listed
<1>7. Ring
  BY <1>5, <1>6 DEF Ring
<1>8. calls = <<>> /\ CallsOK /\ Active = {}
  <2>1. calls = <<>>
    BY DEF Init
  <2>2. Active = {}
    BY <2>1 DEF Active
  <2> QED
    BY <2>1, <2>2, <1>1, <1>2 DEF CallsOK
<1>9. Chains(iters, ch, Active)
  <2>1. iters \in Pointers
    BY DEF Init, iters, Pointers
  <2>2. \A n \in Nodes : IsChain(iters, n, <<>>)
    <3>1. \A n \in Nodes : iters.ptr[n] = NULL
      BY DEF Init, iters
    <3>2. \A n : Spot(n, <<>>, 0) = n /\ Spot(n, <<>>, 0 + 1) = NULL
      BY DEF Spot
    <3> QED
      BY <3>1, <3>2, <1>2 DEF IsChain
  <2> QED
    BY <2>1, <2>2, <1>2, <1>8 DEF Chains
<1>10. Hooks
  BY <1>9 DEF Hooks
<1>11. Cursors
  BY <1>8 DEF Cursors
<1> QED
  BY <1>6, <1>7, <1>8, <1>10, <1>11 DEF Inv

LEMMA StutterInv ==
    ASSUME Inv, UNCHANGED vars
    PROVE  Inv'
<1>1. /\ next' = next /\ prev' = prev /\ iters' = iters
      /\ inext' = inext /\ calls' = calls
  BY DEF vars, iters
<1>2. Listed' = Listed /\ Active' = Active
  BY <1>1 DEF Listed, Active
<1>3. CallsOK' /\ Ring'
  BY <1>1, <1>2 DEF Inv, CallsOK, Ring
<1>4. Hooks' /\ Cursors'
  BY <1>1, <1>2 DEF Inv, Hooks, Cursors
<1> QED
  BY <1>3, <1>4 DEF Inv

LEMMA StepInv ==
    ASSUME Inv, [Next]_vars
    PROVE  Inv'
<1>1. ASSUME NEW e \in Entries, safe_list_add(e)
      PROVE  Inv'
  BY <1>1, AddKeepsInv
<1>2. ASSUME NEW e \in Entries, safe_list_add_first(e)
      PROVE  Inv'
  BY <1>2, AddFirstKeepsInv
<1>3. ASSUME NEW e \in Entries, safe_list_del(e)
      PROVE  Inv'
  BY <1>3, DelKeepsInv
<1>4. CASE ForEachBegin
  BY <1>4, BeginKeepsInv
<1>5. CASE ForEachEmpty
  BY <1>5, EmptyKeepsInv
<1>6. CASE ForEachNext
  BY <1>6, NextKeepsInv
<1>7. CASE ForEachEnd
  BY <1>7, EndKeepsInv
<1>8. CASE ForEachBreak
  BY <1>8, BreakKeepsInv
<1>9. CASE UNCHANGED vars
  BY <1>9, StutterInv
<1> QED
  BY <1>1, <1>2, <1>3, <1>4, <1>5, <1>6, <1>7, <1>8, <1>9 DEF Next

LEMMA InvImpliesChainsExact ==
    ASSUME Inv
    PROVE  ChainsExact
<1>1. PICK ch : Chains(iters, ch, Active)
  BY DEF Inv, Hooks
<1>2. ASSUME NEW n \in Nodes
      PROVE  Chain(iters, n) = {i \in 1..Len(calls) : inext[i] = n}
  <2>1. Chain(iters, n) = ToSet(ch[n])
    BY <1>1, ChainFound DEF Chains
  <2>2. ToSet(ch[n]) = {i \in Active : iters.inext[i] = n}
    BY <1>1, ChainsFacts
  <2> QED
    BY <2>1, <2>2 DEF Active, iters
<1>3. ASSUME NEW i \in 1..Len(calls)
      PROVE  ptr[head[i]] = i /\ IsLinked(inext[i])
  <2>1. iters.ptr[iters.head[i]] = i
    BY <1>1, ChainsFacts DEF Active
  <2> QED
    BY <2>1, WaitersLinked DEF Active, iters
<1> QED
  BY <1>2, <1>3 DEF ChainsExact

LEMMA InvHolds == Spec => []Inv
<1>1. Init => Inv
  BY InitInv
<1>2. Inv /\ [Next]_vars => Inv'
  BY StepInv
<1> QED
  BY <1>1, <1>2, PTL DEF Spec

(* The iterators that wait for an entry are exactly those in its chain,    *)
(* each can be unhooked through its head pointer, and none waits for an    *)
(* entry that safe_list_del has unlinked, whatever the callbacks of nested *)
(* iterations add and delete.                                              *)
THEOREM IteratorsHooked == Spec => []ChainsExact
  BY InvHolds, InvImpliesChainsExact, PTL

-----------------------------------------------------------------------------
(***************************************************************************)
(* The refinement: each operation on the pointers is the one that          *)
(* SafeIteration describes on the list.                                    *)
(***************************************************************************)
LEMMA PositionIs ==
    ASSUME Inv, NEW k \in 1..Len(Listed)
    PROVE  Abstract!Position(Listed[k]) = k
<1>1. \A i \in 1..Len(Listed) : Listed[i] = Listed[k] => i = k
  BY RingFacts DEF IsInjective
<1> QED
  BY <1>1 DEF Abstract!Position

LEMMA LinkedIs ==
    ASSUME Inv
    PROVE  /\ Abstract!Linked = ToSet(Listed)
           /\ \A k \in 1..Len(Listed) : Listed[k] \in ToSet(Listed)
           /\ \A e \in Entries : IsLinked(e) <=> e \in Abstract!Linked
<1>1. Listed \in Seq(Entries)
  BY RingFacts
<1>2. \A k \in 1..Len(Listed) : Listed[k] \in ToSet(Listed)
  BY <1>1, EntriesFacts
<1>3. Abstract!Linked = ToSet(Listed)
  BY DEF Abstract!Linked, Abstract!ToSet, ToSet
<1>4. \A e \in Entries : IsLinked(e) <=> e \in ToSet(Listed)
  BY RingFacts
<1> QED
  BY <1>2, <1>3, <1>4

LEMMA AddRefines ==
    ASSUME Inv, NEW e \in Entries, safe_list_add(e)
    PROVE  Abstract!AddLast(e)
<1>1. e \notin Abstract!Linked /\ UNCHANGED <<calls, ret>>
  BY LinkedIs DEF safe_list_add
<1> QED
  BY <1>1, AddKeepsInv DEF Abstract!AddLast

LEMMA AddFirstRefines ==
    ASSUME Inv, NEW e \in Entries, safe_list_add_first(e)
    PROVE  Abstract!AddFirst(e)
<1>1. e \notin Abstract!Linked /\ UNCHANGED <<calls, ret>>
  BY LinkedIs DEF safe_list_add_first
<1> QED
  BY <1>1, AddFirstKeepsInv DEF Abstract!AddFirst

LEMMA DelRefines ==
    ASSUME Inv, NEW e \in Entries, safe_list_del(e)
    PROVE  Abstract!Delete(e)
<1>1. e \in Abstract!Linked /\ UNCHANGED ret
  BY LinkedIs DEF safe_list_del
<1>2. calls' = [k \in DOMAIN calls |-> Abstract!Forget(calls[k], e)]
  BY DEF safe_list_del, Abstract!Forget
<1>3. PICK k \in 1..Len(Listed) : Listed[k] = e /\ Listed' = RemoveAt(Listed, k)
  BY DelKeepsInv
<1>4. Abstract!Position(e) = k
  BY <1>3, PositionIs
<1>5. Listed' = RemoveAt(Listed, Abstract!Position(e))
  BY <1>3, <1>4
<1> QED
  BY <1>1, <1>2, <1>5
     DEF Abstract!Delete, Abstract!RemoveAt, RemoveAt

LEMMA BeginRefines ==
    ASSUME Inv, ForEachBegin
    PROVE  Abstract!Begin
<1>1. Listed' = Listed /\ Listed # <<>> /\ next[HEAD] = Listed[1]
  BY BeginKeepsInv
<1>2. Head(Listed) = Listed[1]
  BY <1>1, RingFacts
<1>3. Len(calls) < MaxDepth
  BY CallsFacts, SafeListAssumption DEF ForEachBegin, Iterators
<1>4. calls' = Append(calls, [cur  |-> Head(Listed),
                              owed |-> Abstract!Linked \ {Head(Listed)},
                              seen |-> {Head(Listed)},
                              odd  |-> TRUE])
  BY <1>1, <1>2, LinkedIs DEF ForEachBegin
<1>5. UNCHANGED ret
  BY DEF ForEachBegin
<1> QED
  BY <1>1, <1>3, <1>4, <1>5 DEF Abstract!Begin

LEMMA NextRefines ==
    ASSUME Inv, ForEachNext
    PROVE  \E e \in Entries : Abstract!Visit(e)
<1> DEFINE n == inext[Len(calls)]
           call == calls[Len(calls)]
<1>1. /\ Listed' = Listed
      /\ \E q \in 1..Len(Listed) :
            /\ n = Listed[q]
            /\ n \notin call.seen
            /\ \A f \in call.owed :
                  \E j \in 1..Len(Listed) : q <= j /\ Listed[j] = f
  BY NextKeepsInv
<1>2. PICK q \in 1..Len(Listed) :
         /\ n = Listed[q]
         /\ n \notin call.seen
         /\ \A f \in call.owed :
               \E j \in 1..Len(Listed) : q <= j /\ Listed[j] = f
  BY <1>1
<1>3. calls # <<>> /\ Last(calls) = call /\ UNCHANGED ret
  BY CallsFacts DEF ForEachNext
<1>4. n \in Entries /\ n \in Abstract!Linked \ Last(calls).seen
  <2>1. n \in Abstract!Linked
    BY <1>2, LinkedIs
  <2>2. Listed \in Seq(Entries)
    BY RingFacts
  <2> QED
    BY <2>1, <2>2, <1>2, <1>3, ElementOfSeq
<1>5. ASSUME NEW f \in Last(calls).owed
      PROVE  Abstract!Position(n) <= Abstract!Position(f)
  <2>1. PICK j \in 1..Len(Listed) : q <= j /\ Listed[j] = f
    BY <1>2, <1>3
  <2>2. Abstract!Position(n) = q /\ Abstract!Position(f) = j
    BY <2>1, <1>2, PositionIs
  <2> QED
    BY <2>1, <2>2
<1>6. calls' = [calls EXCEPT ![Len(calls)] =
                   [cur |-> n, owed |-> @.owed \ {n},
                    seen |-> @.seen \cup {n}, odd |-> ~@.odd]]
  BY DEF ForEachNext
<1>7. \A f \in Last(calls).owed : Abstract!Position(n) <= Abstract!Position(f)
  BY <1>5
<1>8. Abstract!Visit(n)
  <2> HIDE DEF n, call
  <2>1. n \in Abstract!Linked \ Last(calls).seen /\ calls # <<>>
    BY <1>3, <1>4
  <2>2. Listed' = Listed /\ ret' = ret
    BY <1>1, <1>3
  <2> QED
    BY <2>1, <2>2, <1>6, <1>7, ZenonT(30)
       DEF Abstract!Visit, Abstract!Last, Last
<1> QED
  BY <1>4, <1>8

LEMMA EmptyRefines ==
    ASSUME Inv, ForEachEmpty
    PROVE  Abstract!Empty
<1>1. Len(calls) < MaxDepth
  BY CallsFacts, SafeListAssumption DEF ForEachEmpty, Iterators
<1> QED
  BY <1>1, EmptyKeepsInv DEF ForEachEmpty, Abstract!Empty

LEMMA EndRefines ==
    ASSUME Inv, ForEachEnd
    PROVE  Abstract!Finish
<1>1. calls # <<>> /\ Last(calls) = calls[Len(calls)]
  BY CallsFacts DEF ForEachEnd
<1>2. calls' = Front(calls) /\ ret' = FALSE
  BY DEF ForEachEnd
<1>3. Listed' = Listed /\ calls[Len(calls)].owed = {}
  BY EndKeepsInv
<1>4. Last(calls).owed = {}
  BY <1>1, <1>3
<1> QED
  BY <1>1, <1>2, <1>3, <1>4
     DEF Abstract!Finish, Abstract!Last, Abstract!Front, Last, Front

LEMMA BreakRefines ==
    ASSUME Inv, ForEachBreak
    PROVE  Abstract!Break
<1>1. calls # <<>> /\ calls' = Front(calls) /\ ret' = TRUE
  BY DEF ForEachBreak
<1>2. Listed' = Listed
  BY BreakKeepsInv
<1> QED
  BY <1>1, <1>2 DEF Abstract!Break, Abstract!Front, Front

(* safe_list.c keeps what safe_list.h promises: every iteration, at any    *)
(* depth, visits what is linked throughout, in the order of the list,      *)
(* nothing twice and nothing that was deleted, before safe_list_for_each   *)
(* returns 0.                                                              *)
THEOREM PointersIterate == Spec => ImplementsSafeIteration
<1>1. Init => Abstract!Init
  BY InitInv DEF Init, Abstract!Init
<1>2. ASSUME Inv, [Next]_vars
      PROVE  [Abstract!Next]_(Abstract!vars)
  <2>1. ASSUME NEW e \in Entries, safe_list_add(e)
        PROVE  Abstract!Next
    BY <2>1, <1>2, AddRefines DEF Abstract!Next
  <2>2. ASSUME NEW e \in Entries, safe_list_add_first(e)
        PROVE  Abstract!Next
    BY <2>2, <1>2, AddFirstRefines DEF Abstract!Next
  <2>3. ASSUME NEW e \in Entries, safe_list_del(e)
        PROVE  Abstract!Next
    BY <2>3, <1>2, DelRefines DEF Abstract!Next
  <2>4. CASE ForEachBegin
    BY <2>4, <1>2, BeginRefines DEF Abstract!Next
  <2>5. CASE ForEachEmpty
    BY <2>5, <1>2, EmptyRefines DEF Abstract!Next
  <2>6. CASE ForEachNext
    BY <2>6, <1>2, NextRefines DEF Abstract!Next
  <2>7. CASE ForEachEnd
    BY <2>7, <1>2, EndRefines DEF Abstract!Next
  <2>8. CASE ForEachBreak
    BY <2>8, <1>2, BreakRefines DEF Abstract!Next
  <2>9. CASE UNCHANGED vars
    BY <2>9 DEF vars, Listed, Abstract!vars
  <2> QED
    BY <2>1, <2>2, <2>3, <2>4, <2>5, <2>6, <2>7, <2>8, <2>9, <1>2 DEF Next
<1> QED
  BY <1>1, <1>2, InvHolds, PTL DEF Spec, ImplementsSafeIteration, Abstract!Spec

=============================================================================
