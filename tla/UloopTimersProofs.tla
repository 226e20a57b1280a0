------------------------- MODULE UloopTimersProofs -------------------------
(***************************************************************************)
(* Proofs about UloopTimers, for every set of timers, every set of delays  *)
(* and clock steps, and every depth of nesting.                            *)
(*                                                                         *)
(* The argument: tv_diff is exact up to a millisecond as long as it does   *)
(* not overflow an int (TvDiffFacts; DeadlinesInRange excludes overflow);  *)
(* linking at the position uloop_timeout_add chooses keeps the list nearly *)
(* sorted (InsertKeepsOrder); hence looking at the head alone is enough    *)
(* for dispatching (TimelyDispatch) and for sleeping (SleepBounded).       *)
(***************************************************************************)
EXTENDS UloopTimers, ListLemmas
-----------------------------------------------------------------------------
(* C's division by 1000 rounds towards zero. *)
LEMMA TruncDivFacts ==
    ASSUME NEW a \in Int
    PROVE  /\ TruncDiv(a, 1000) \in Int
           /\ a >= 0 => /\ TruncDiv(a, 1000) * 1000 <= a
                        /\ a < TruncDiv(a, 1000) * 1000 + 1000
           /\ a < 0  => /\ TruncDiv(a, 1000) * 1000 >= a
                        /\ a > TruncDiv(a, 1000) * 1000 - 1000
  BY DEF TruncDiv

(* A value in the range of an int survives the conversion. *)
LEMMA ToIntFacts ==
    ASSUME NEW n \in Int, -IntHalf <= n, n < IntHalf
    PROVE  ToInt(n) = n
  BY RangeAssumption DEF ToInt

(* tv_diff of times that are not too far apart is less than a millisecond  *)
(* off; its sign tells the order of the times, up to a millisecond within  *)
(* the same second.                                                        *)
LEMMA TvDiffFacts ==
    ASSUME NEW a \in Time, NEW b \in Time,
           Micros(a) - Micros(b) <= 2 * MaxLag,
           Micros(b) - Micros(a) <= 2 * MaxLag
    PROVE  /\ tv_diff(a, b) \in Int
           /\ tv_diff(a, b) * 1000 - (Micros(a) - Micros(b)) < 1000
           /\ (Micros(a) - Micros(b)) - tv_diff(a, b) * 1000 < 1000
           /\ tv_diff(a, b) > 0 => /\ Micros(a) > Micros(b)
                                   /\ \/ Micros(a) - Micros(b) >= 1000
                                      \/ a.sec > b.sec
           /\ tv_diff(a, b) <= 0 => /\ Micros(a) - Micros(b) < 1000
                                    /\ Micros(a) > Micros(b)
                                          => a.sec <= b.sec
<1> DEFINE s == a.sec - b.sec
           u == a.usec - b.usec
           q == TruncDiv(u, 1000)
<1>1. /\ a.sec \in Int /\ b.sec \in Int /\ a.usec \in Int /\ b.usec \in Int
      /\ s \in Int /\ u \in Int
  BY DEF Time
<1>2. /\ q \in Int
      /\ u >= 0 => q * 1000 <= u /\ u < q * 1000 + 1000
      /\ u < 0  => q * 1000 >= u /\ u > q * 1000 - 1000
  BY <1>1, TruncDivFacts
<1>3. Micros(a) - Micros(b) = s * 1000000 + u
  BY <1>1 DEF Micros
<1>4. tv_diff(a, b) = ToInt(s * 1000 + q)
  BY DEF tv_diff
<1>5. (a.sec > b.sec) <=> (s > 0)
  BY <1>1
<1>8. Micros(a) \in Int /\ Micros(b) \in Int
  BY <1>1 DEF Micros
<1> HIDE DEF s, u, q
<1>6. -IntHalf <= s * 1000 + q /\ s * 1000 + q < IntHalf
  <2>1. /\ MaxLag \in Nat /\ IntHalf \in Nat
        /\ 2 * MaxLag + 1000 < IntHalf * 1000
    BY RangeAssumption
  <2>2. s * 1000000 + u <= 2 * MaxLag /\ -(s * 1000000 + u) <= 2 * MaxLag
    BY <1>1, <1>3, <1>8, <2>1
  <2> QED
    BY <1>1, <1>2, <2>1, <2>2
<1>7. tv_diff(a, b) = s * 1000 + q
  BY <1>1, <1>2, <1>4, <1>6, ToIntFacts
<1> QED
  BY <1>1, <1>2, <1>3, <1>5, <1>7, <1>8

(* uloop_gettime is exact and normalised. *)
LEMMA GettimeFacts ==
    ASSUME NEW c \in Nat
    PROVE  /\ uloop_gettime(c) \in Time
           /\ Micros(uloop_gettime(c)) = c
           /\ uloop_gettime(c).usec >= 0
           /\ uloop_gettime(c).usec < 1000000
  BY DEF uloop_gettime, Micros, Time

(* Carrying does not change the instant. *)
LEMMA CarryFacts ==
    ASSUME NEW sec \in Int, NEW usec \in Int
    PROVE  /\ Carry(sec, usec) \in Time
           /\ Micros(Carry(sec, usec)) = sec * 1000000 + usec
<1>1. CASE usec > 1000000
  BY <1>1 DEF Carry, Time, Micros
<1>2. CASE ~(usec > 1000000)
  BY <1>2 DEF Carry, Time, Micros
<1> QED
  BY <1>1, <1>2

(* The deadline uloop_timeout_set stores is msecs milliseconds away. *)
LEMMA TimeAfterFacts ==
    ASSUME NEW c \in Nat, NEW m \in Int
    PROVE  /\ TimeAfter(c, m) \in Time
           /\ Micros(TimeAfter(c, m)) = c + m * 1000
<1> DEFINE sec  == uloop_gettime(c).sec + TruncDiv(m, 1000)
           usec == uloop_gettime(c).usec + TruncMod(m, 1000) * 1000
<1>1. /\ uloop_gettime(c).sec \in Int /\ uloop_gettime(c).usec \in Int
      /\ uloop_gettime(c).sec * 1000000 + uloop_gettime(c).usec = c
  BY GettimeFacts DEF Time, Micros
<1>2. /\ TruncDiv(m, 1000) \in Int /\ TruncMod(m, 1000) \in Int
      /\ m = 1000 * TruncDiv(m, 1000) + TruncMod(m, 1000)
  BY TruncDivFacts DEF TruncMod
<1>3. sec \in Int /\ usec \in Int /\ sec * 1000000 + usec = c + m * 1000
  BY <1>1, <1>2
<1>4. TimeAfter(c, m) = Carry(sec, usec)
  BY DEF TimeAfter
<1> HIDE DEF sec, usec
<1>5. /\ Carry(sec, usec) \in Time
      /\ Micros(Carry(sec, usec)) = sec * 1000000 + usec
  BY <1>3, CarryFacts
<1> QED
  BY <1>3, <1>4, <1>5

(* Times are integers. *)
LEMMA MicrosInt ==
    ASSUME NEW x \in Time
    PROVE  Micros(x) \in Int /\ x.sec \in Int /\ x.usec \in Int
  BY DEF Time, Micros

\* A timer with time a may be linked in front of one with time b.
Before(a, b) ==
    /\ Micros(a) - Micros(b) < 1000
    /\ Micros(a) > Micros(b) => a.sec <= b.sec

(* What may follow a timer of time b may also follow one with an earlier   *)
(* time a, if a is a millisecond earlier or in an earlier second.          *)
LEMMA BeforeShift ==
    ASSUME NEW a \in Time, NEW b \in Time, NEW c \in Time,
           Micros(b) > Micros(a),
           Micros(b) - Micros(a) >= 1000 \/ b.sec > a.sec,
           Before(b, c)
    PROVE  Before(a, c)
<1>1. /\ Micros(a) \in Int /\ Micros(b) \in Int /\ Micros(c) \in Int
      /\ a.sec \in Int /\ b.sec \in Int /\ c.sec \in Int
  BY MicrosInt
<1> QED
  BY <1>1 DEF Before

(* A timer may precede itself, and one that is later. *)
LEMMA BeforeLater ==
    ASSUME NEW a \in Time, NEW b \in Time, Micros(a) <= Micros(b)
    PROVE  Before(a, b)
<1>1. Micros(a) \in Int /\ Micros(b) \in Int
  BY MicrosInt
<1> QED
  BY <1>1 DEF Before
-----------------------------------------------------------------------------
(***************************************************************************)
(* Lists, for any assignment tm of times to the timers.                    *)
(***************************************************************************)
Entries(list) == {list[i] : i \in 1..Len(list)}

Distinct(list) == \A i, j \in 1..Len(list) : list[i] = list[j] => i = j

Ordered(list, tm) ==
    \A i, j \in 1..Len(list) : i < j => Before(tm[list[i]], tm[list[j]])

(* Linking t at a position that uloop_timeout_add may choose keeps the     *)
(* order, although the comparison it uses is not transitive.               *)
LEMMA InsertKeepsOrder ==
    ASSUME NEW list \in Seq(Timers), NEW t \in Timers,
           NEW tm \in [Timers -> Time],
           Ordered(list, tm),
           \A i \in 1..Len(list) :
               /\ Micros(tm[list[i]]) - Micros(tm[t]) <= 2 * MaxLag
               /\ Micros(tm[t]) - Micros(tm[list[i]]) <= 2 * MaxLag,
           NEW k \in 1..(Len(list) + 1),
           \A i \in 1..(k - 1) : tv_diff(tm[list[i]], tm[t]) <= 0,
           k <= Len(list) => tv_diff(tm[list[k]], tm[t]) > 0
    PROVE  Ordered(InsertAt(list, k, t), tm)
<1> DEFINE l == InsertAt(list, k, t)
<1>0. Len(list) \in Nat /\ \A i \in 1..Len(list) : list[i] \in Timers
  OBVIOUS
<1>1. /\ Len(l) = Len(list) + 1
      /\ \A i \in 1..(Len(list) + 1) :
            l[i] = IF i < k THEN list[i]
                   ELSE IF i = k THEN t ELSE list[i - 1]
  BY InsertAtFacts, SMTT(30)
<1> HIDE DEF l
<1>2. ASSUME NEW i \in 1..(k - 1)
      PROVE  Before(tm[list[i]], tm[t])
  <2>1. i \in 1..Len(list)
    BY <1>0
  <2>2. tm[list[i]] \in Time /\ tm[t] \in Time
    BY <1>0, <2>1
  <2> QED
    BY <2>1, <2>2, TvDiffFacts DEF Before
<1>3. ASSUME NEW j \in k..Len(list)
      PROVE  Before(tm[t], tm[list[j]])
  <2>1. k \in 1..Len(list) /\ j \in 1..Len(list)
    BY <1>0
  <2>2. tm[list[k]] \in Time /\ tm[t] \in Time /\ tm[list[j]] \in Time
    BY <1>0, <2>1
  <2>3. /\ Micros(tm[list[k]]) > Micros(tm[t])
        /\ \/ Micros(tm[list[k]]) - Micros(tm[t]) >= 1000
           \/ tm[list[k]].sec > tm[t].sec
    BY <2>1, <2>2, TvDiffFacts
  <2>4. \/ j = k
        \/ Before(tm[list[k]], tm[list[j]])
    BY <2>1, <1>0 DEF Ordered
  <2>5. CASE j = k
    <3>1. Micros(tm[t]) <= Micros(tm[list[j]])
      BY <2>2, <2>3, <2>5, MicrosInt
    <3> QED
      BY <2>2, <3>1, BeforeLater
  <2>6. CASE Before(tm[list[k]], tm[list[j]])
    BY <2>2, <2>3, <2>6, BeforeShift
  <2> QED
    BY <2>4, <2>5, <2>6
<1>4. ASSUME NEW i \in 1..Len(l), NEW j \in 1..Len(l), i < j
      PROVE  Before(tm[l[i]], tm[l[j]])
  <2>1. CASE i < k /\ j < k
    BY <1>0, <1>1, <1>4, <2>1 DEF Ordered
  <2>2. CASE i < k /\ j = k
    BY <1>0, <1>1, <1>2, <1>4, <2>2
  <2>3. CASE i < k /\ j > k
    <3>1. i \in 1..Len(list) /\ j - 1 \in 1..Len(list) /\ i < j - 1
      BY <1>0, <1>1, <1>4, <2>3
    <3> QED
      BY <1>1, <2>3, <3>1 DEF Ordered
  <2>4. CASE i = k
    <3>1. j - 1 \in k..Len(list)
      BY <1>0, <1>1, <1>4, <2>4
    <3> QED
      BY <1>0, <1>1, <1>3, <1>4, <2>4, <3>1
  <2>5. CASE i > k
    <3>1. i - 1 \in 1..Len(list) /\ j - 1 \in 1..Len(list) /\ i - 1 < j - 1
      BY <1>0, <1>1, <1>4, <2>5
    <3>2. l[i] = list[i - 1] /\ l[j] = list[j - 1]
      BY <1>0, <1>1, <1>4, <2>5
    <3> QED
      BY <3>1, <3>2 DEF Ordered
  <2> QED
    BY <1>1, <1>4, <2>1, <2>2, <2>3, <2>4, <2>5
<1> QED
  BY <1>4 DEF Ordered, l

(* Linking a timer that is not linked: exactly that one is new. *)
LEMMA InsertKeepsDistinct ==
    ASSUME NEW list \in Seq(Timers), NEW t \in Timers, Distinct(list),
           t \notin Entries(list), NEW k \in 1..(Len(list) + 1)
    PROVE  /\ InsertAt(list, k, t) \in Seq(Timers)
           /\ Distinct(InsertAt(list, k, t))
           /\ Entries(InsertAt(list, k, t)) = Entries(list) \cup {t}
<1> DEFINE l == InsertAt(list, k, t)
<1>0. Len(list) \in Nat
  OBVIOUS
<1>a. \A i \in 1..Len(list) : list[i] # t
  BY DEF Entries
<1>1. /\ l \in Seq(Timers)
      /\ Len(l) = Len(list) + 1
      /\ \A i \in 1..(Len(list) + 1) :
            l[i] = IF i < k THEN list[i]
                   ELSE IF i = k THEN t ELSE list[i - 1]
  <2> HIDE DEF l
  <2>1. l = InsertAt(list, k, t)
    BY DEF l
  <2> QED
    BY <2>1, InsertAtFacts, SMTT(60)
<1> HIDE DEF l
<1>2. Distinct(l)
  <2> USE <1>a
  <2> SUFFICES ASSUME NEW i \in 1..Len(l), NEW j \in 1..Len(l), l[i] = l[j],
                      i < j
               PROVE  FALSE
    BY <1>0, <1>1 DEF Distinct
  <2>1. CASE j < k
    BY <1>0, <1>1, <2>1 DEF Distinct
  <2>2. CASE j = k
    BY <1>0, <1>1, <2>2
  <2>3. CASE j > k /\ i < k
    <3>1. j - 1 \in 1..Len(list) /\ i \in 1..Len(list) /\ i # j - 1
      BY <1>0, <1>1, <2>3
    <3> QED
      BY <1>1, <2>3, <3>1, SMTT(30) DEF Distinct
  <2>4. CASE j > k /\ i = k
    <3>1. j - 1 \in 1..Len(list)
      BY <1>0, <1>1, <2>4
    <3> QED
      BY <1>1, <2>4, <3>1
  <2>5. CASE i > k
    <3>1. j - 1 \in 1..Len(list) /\ i - 1 \in 1..Len(list) /\ i - 1 # j - 1
      BY <1>0, <1>1, <2>5
    <3> QED
      BY <1>1, <2>5, <3>1 DEF Distinct
  <2> QED
    BY <1>0, <1>1, <2>1, <2>2, <2>3, <2>4, <2>5
<1>3. ASSUME NEW i \in 1..Len(l)
      PROVE  l[i] = t \/ \E n \in 1..Len(list) : list[n] = l[i]
  <2>1. i < k => i \in 1..Len(list)
    BY <1>0, <1>1
  <2>2. i > k => i - 1 \in 1..Len(list)
    BY <1>0, <1>1
  <2>3. CASE i < k
    BY <1>1, <2>1, <2>3
  <2>4. CASE i = k
    BY <1>1, <2>4
  <2>5. CASE i > k
    BY <1>1, <2>2, <2>5
  <2> QED
    BY <1>0, <1>1, <2>3, <2>4, <2>5
<1>4. l[k] = t /\ k \in 1..Len(l)
  BY <1>0, <1>1
<1>5. ASSUME NEW n \in 1..Len(list)
      PROVE  \E i \in 1..Len(l) : l[i] = list[n]
  <2>1. CASE n < k
    BY <1>0, <1>1, <2>1, SMTT(30)
  <2>2. CASE ~(n < k)
    <3>1. n + 1 \in 1..Len(l) /\ l[n + 1] = list[n]
      BY <1>0, <1>1, <2>2
    <3> QED
      BY <3>1
  <2> QED
    BY <2>1, <2>2
<1>6. Entries(l) = Entries(list) \cup {t}
  <2>1. \A i \in 1..Len(l) : l[i] \in Entries(list) \cup {t}
    BY <1>3 DEF Entries
  <2>2. \A n \in 1..Len(list) : list[n] \in Entries(l)
    BY <1>5 DEF Entries
  <2>3. t \in Entries(l)
    BY <1>4 DEF Entries
  <2>4. Entries(l) \subseteq Entries(list) \cup {t}
    BY <2>1 DEF Entries
  <2>5. Entries(list) \subseteq Entries(l)
    BY <2>2 DEF Entries
  <2> QED
    BY <2>3, <2>4, <2>5
<1> QED
  BY <1>1, <1>2, <1>6 DEF l

(* Unlinking a linked timer: exactly that one is gone, the order stays. *)
LEMMA UnlinkFacts ==
    ASSUME NEW list \in Seq(Timers), NEW t \in Entries(list), Distinct(list)
    PROVE  /\ Unlink(list, t) \in Seq(Timers)
           /\ Distinct(Unlink(list, t))
           /\ Entries(Unlink(list, t)) = Entries(list) \ {t}
           /\ \A tm : Ordered(list, tm) => Ordered(Unlink(list, t), tm)
<1> DEFINE k == CHOOSE n \in 1..Len(list) : list[n] = t
           l == RemoveAt(list, k)
<1>0. Len(list) \in Nat
  OBVIOUS
<1>1. k \in 1..Len(list) /\ list[k] = t
  BY DEF Entries
<1> HIDE DEF k
<1>2. /\ l \in Seq(Timers)
      /\ Len(l) = Len(list) - 1
      /\ \A i \in 1..(Len(list) - 1) :
            l[i] = IF i < k THEN list[i] ELSE list[i + 1]
  BY <1>1, RemoveAtFacts
<1>3. Unlink(list, t) = l
  BY DEF Unlink, k
<1> HIDE DEF l
<1>4. Distinct(l)
  <2> SUFFICES ASSUME NEW i \in 1..Len(l), NEW j \in 1..Len(l), l[i] = l[j]
               PROVE  i = j
    BY DEF Distinct
  <2> DEFINE p(n) == IF n < k THEN n ELSE n + 1
  <2>1. /\ p(i) \in 1..Len(list) /\ p(j) \in 1..Len(list)
        /\ l[i] = list[p(i)] /\ l[j] = list[p(j)]
    BY <1>0, <1>1, <1>2
  <2>2. p(i) = p(j) => i = j
    BY <1>0, <1>1
  <2> HIDE DEF p
  <2>3. p(i) = p(j)
    BY <2>1, Zenon DEF Distinct
  <2> QED
    BY <2>2, <2>3
<1>5. ASSUME NEW i \in 1..Len(l)
      PROVE  l[i] # t /\ \E n \in 1..Len(list) : list[n] = l[i]
  <2>1. CASE i < k
    BY <1>0, <1>1, <1>2, <2>1 DEF Distinct
  <2>2. CASE ~(i < k)
    <3>1. i + 1 \in 1..Len(list) /\ l[i] = list[i + 1] /\ i + 1 # k
      BY <1>0, <1>1, <1>2, <2>2
    <3> QED
      BY <1>1, <3>1 DEF Distinct
  <2> QED
    BY <2>1, <2>2
<1>6. ASSUME NEW n \in 1..Len(list), list[n] # t
      PROVE  \E i \in 1..Len(l) : l[i] = list[n]
  <2>1. CASE n < k
    <3>1. n \in 1..Len(l) /\ l[n] = list[n]
      BY <1>0, <1>1, <1>2, <2>1
    <3> QED
      BY <3>1
  <2>2. CASE ~(n < k)
    <3>1. n - 1 \in 1..Len(l) /\ l[n - 1] = list[(n - 1) + 1]
      BY <1>0, <1>1, <1>2, <1>6, <2>2
    <3>2. (n - 1) + 1 = n
      OBVIOUS
    <3> QED
      BY <3>1, <3>2
  <2> QED
    BY <2>1, <2>2
<1>7. ASSUME NEW tm, Ordered(list, tm)
      PROVE  Ordered(l, tm)
  <2> SUFFICES ASSUME NEW i \in 1..Len(l), NEW j \in 1..Len(l), i < j
               PROVE  Before(tm[l[i]], tm[l[j]])
    BY DEF Ordered
  <2> DEFINE p(n) == IF n < k THEN n ELSE n + 1
  <2>1. /\ p(i) \in 1..Len(list) /\ p(j) \in 1..Len(list) /\ p(i) < p(j)
        /\ l[i] = list[p(i)] /\ l[j] = list[p(j)]
    BY <1>0, <1>1, <1>2
  <2> QED
    BY <1>7, <2>1 DEF Ordered
<1>8. Entries(l) = Entries(list) \ {t}
  <2>1. \A i \in 1..Len(l) : l[i] \in Entries(list) \ {t}
    BY <1>5 DEF Entries
  <2>2. \A n \in 1..Len(list) : list[n] # t => list[n] \in Entries(l)
    BY <1>6 DEF Entries
  <2>3. Entries(l) \subseteq Entries(list) \ {t}
    BY <2>1 DEF Entries
  <2>4. Entries(list) \ {t} \subseteq Entries(l)
    BY <2>2 DEF Entries
  <2> QED
    BY <2>3, <2>4
<1> QED
  BY <1>2, <1>3, <1>4, <1>7, <1>8, Zenon
-----------------------------------------------------------------------------
(***************************************************************************)
(* The inductive invariant.                                                *)
(***************************************************************************)

\* No difference of times that the code computes overflows.
DeadlinesInRange ==
    \A t \in Timers :
        pending[t] => /\ clock - MaxLag <= due[t]
                      /\ due[t] <= clock + MaxLag

\* tv is a normalised time of the past; while timers are dispatched with it,
\* it is not older than MaxLag.
TvInRange ==
    /\ \A i \in Depths : /\ tv[i].usec >= 0
                         /\ tv[i].usec < 1000000
                         /\ Micros(tv[i]) <= clock
    /\ \A i \in 1..depth :
          pc[i] \in {"timeouts", "timer_cb"}
             => clock - Micros(tv[i]) <= MaxLag

PendingTimers == {t \in Timers : pending[t]}

ListInv ==
    /\ LinkedIffPending
    /\ DeadlineExact
    /\ Ordered(timeouts, time)
    /\ DeadlinesInRange

Inv == TypeOK /\ ListInv /\ TvInRange /\ TimelyDispatch /\ SleepBounded

(* LinkedIffPending as an equation between sets, in a state and in the     *)
(* next one.                                                               *)
LEMMA LinkedByEntries ==
    ASSUME TypeOK
    PROVE  LinkedIffPending <=>
              Distinct(timeouts) /\ Entries(timeouts) = PendingTimers
<1>1. timeouts \in Seq(Timers)
  BY DEF TypeOK
<1>2. Entries(timeouts) \subseteq Timers
  BY <1>1 DEF Entries
<1> QED
  BY <1>2 DEF LinkedIffPending, Distinct, Entries, PendingTimers

(* The same of the next state, in the direction the steps need. *)
LEMMA LinkedByEntriesNext ==
    ASSUME timeouts' \in Seq(Timers), Distinct(timeouts'),
           Entries(timeouts') = PendingTimers'
    PROVE  LinkedIffPending'
  BY DEF LinkedIffPending, Distinct, Entries, PendingTimers

(* ListInv speaks of these variables only. *)
LEMMA ListInvUnchanged ==
    ASSUME ListInv, UNCHANGED <<clock, timerVars>>
    PROVE  ListInv'
  BY DEF ListInv, LinkedIffPending, DeadlineExact, Ordered,
         DeadlinesInRange, timerVars

(* Linking a timer with a deadline in range: the common part of            *)
(* uloop_timeout_add and uloop_timeout_set, which start from the list      *)
(* without that timer.                                                     *)
LEMMA LinkKeepsListInv ==
    ASSUME TypeOK, ListInv,
           NEW list \in Seq(Timers), NEW t \in Timers,
           Distinct(list), Ordered(list, time),
           Entries(list) = PendingTimers \ {t},
           NEW x \in Time,
           clock - MaxLag <= Micros(x), Micros(x) <= clock + MaxLag,
           NEW k \in InsertPositions(list, x),
           timeouts' = InsertAt(list, k, t),
           pending' = [pending EXCEPT ![t] = TRUE],
           time' = [time EXCEPT ![t] = x],
           due' = [due EXCEPT ![t] = Micros(x)],
           clock' = clock
    PROVE  timeouts' \in Seq(Timers) /\ ListInv'
<1>0. /\ Len(list) \in Nat
      /\ \A i \in 1..Len(list) : list[i] \in Timers /\ list[i] # t
                                 /\ pending[list[i]]
  <2>1. \A i \in 1..Len(list) : list[i] \in Entries(list)
    BY DEF Entries
  <2> QED
    BY <2>1 DEF PendingTimers
<1>1. /\ k \in 1..(Len(list) + 1)
      /\ \A i \in 1..(k - 1) : tv_diff(time[list[i]], x) <= 0
      /\ k <= Len(list) => tv_diff(time[list[k]], x) > 0
  BY DEF InsertPositions
<1>2. /\ time' \in [Timers -> Time]
      /\ time'[t] = x
      /\ \A u \in Timers : u # t => time'[u] = time[u]
  BY DEF TypeOK
<1>3. /\ timeouts' \in Seq(Timers)
      /\ Distinct(timeouts')
      /\ Entries(timeouts') = PendingTimers \cup {t}
  <2>1. t \notin Entries(list)
    OBVIOUS
  <2>2. /\ InsertAt(list, k, t) \in Seq(Timers)
        /\ Distinct(InsertAt(list, k, t))
        /\ Entries(InsertAt(list, k, t)) = Entries(list) \cup {t}
    BY <1>1, <2>1, InsertKeepsDistinct, Zenon
  <2> QED
    BY <2>2
<1>4. LinkedIffPending'
  <2>1. PendingTimers' = PendingTimers \cup {t}
    BY DEF PendingTimers, TypeOK
  <2> QED
    BY <1>3, <2>1, LinkedByEntriesNext
<1>5. DeadlineExact'
  BY <1>2 DEF DeadlineExact, ListInv, TypeOK
<1>6. DeadlinesInRange'
  BY DEF DeadlinesInRange, ListInv, TypeOK
<1>7. Ordered(timeouts', time')
  <2>1. Ordered(list, time')
    BY <1>0, <1>2 DEF Ordered
  <2>2. ASSUME NEW i \in 1..Len(list)
        PROVE  /\ Micros(time'[list[i]]) - Micros(time'[t]) <= 2 * MaxLag
               /\ Micros(time'[t]) - Micros(time'[list[i]]) <= 2 * MaxLag
    <3>1. /\ clock - MaxLag <= Micros(time[list[i]])
          /\ Micros(time[list[i]]) <= clock + MaxLag
      BY <1>0 DEF DeadlineExact, DeadlinesInRange, ListInv, TypeOK
    <3>2. Micros(time[list[i]]) \in Int /\ Micros(x) \in Int
      BY <1>0, MicrosInt DEF TypeOK
    <3>3. clock \in Nat /\ MaxLag \in Nat
      BY RangeAssumption DEF TypeOK
    <3>4. time'[list[i]] = time[list[i]] /\ time'[t] = x
      BY <1>0, <1>2
    <3> QED
      BY <3>1, <3>2, <3>3, <3>4
  <2>3. /\ \A i \in 1..(k - 1) : tv_diff(time'[list[i]], time'[t]) <= 0
        /\ k <= Len(list) => tv_diff(time'[list[k]], time'[t]) > 0
    BY <1>0, <1>1, <1>2
  <2> QED
    <3>1. Ordered(InsertAt(list, k, t), time')
      BY <1>1, <1>2, <2>1, <2>2, <2>3, InsertKeepsOrder, Zenon
    <3> QED
      BY <3>1
<1> QED
  BY <1>3, <1>4, <1>5, <1>6, <1>7 DEF ListInv

(* The list without a linked timer is still good; the timer is no longer   *)
(* pending.                                                                *)
LEMMA UnlinkKeepsListInv ==
    ASSUME TypeOK, ListInv, NEW t \in Timers, pending[t],
           timeouts' = Unlink(timeouts, t),
           pending' = [pending EXCEPT ![t] = FALSE],
           UNCHANGED <<clock, time, due>>
    PROVE  timeouts' \in Seq(Timers) /\ ListInv'
<1>1. /\ timeouts \in Seq(Timers)
      /\ Distinct(timeouts)
      /\ t \in Entries(timeouts)
      /\ Ordered(timeouts, time)
      /\ Entries(timeouts) = PendingTimers
  <2>1. Distinct(timeouts) /\ Entries(timeouts) = PendingTimers
    BY LinkedByEntries DEF ListInv
  <2>2. t \in PendingTimers
    BY DEF PendingTimers
  <2> QED
    BY <2>1, <2>2 DEF TypeOK, ListInv
<1>2. /\ timeouts' \in Seq(Timers)
      /\ Distinct(timeouts')
      /\ Entries(timeouts') = PendingTimers \ {t}
      /\ Ordered(timeouts', time)
  <2>1. /\ Unlink(timeouts, t) \in Seq(Timers)
        /\ Distinct(Unlink(timeouts, t))
        /\ Entries(Unlink(timeouts, t)) = Entries(timeouts) \ {t}
        /\ Ordered(Unlink(timeouts, t), time)
    BY <1>1, UnlinkFacts, Zenon
  <2> QED
    BY <1>1, <2>1
<1>3. LinkedIffPending'
  <2>1. PendingTimers' = PendingTimers \ {t}
    BY DEF PendingTimers, TypeOK
  <2> QED
    BY <1>2, <2>1, LinkedByEntriesNext
<1>4. DeadlineExact' /\ DeadlinesInRange'
  BY DEF DeadlineExact, DeadlinesInRange, ListInv, TypeOK
<1> QED
  BY <1>2, <1>3, <1>4 DEF ListInv
-----------------------------------------------------------------------------
(***************************************************************************)
(* Initially, and after each step.                                         *)
(***************************************************************************)
LEMMA InitInv == Init => Inv
<1> SUFFICES ASSUME Init PROVE Inv
  OBVIOUS
<1> USE DEF Init
<1>1. TypeOK
  <2>1. clock \in Nat /\ depth \in 0..MaxDepth /\ due \in [Timers -> Int]
    BY ClockAssumption
  <2>2. time \in [Timers -> Time] /\ tv \in [Depths -> Time]
    BY DEF Time
  <2>3. pending \in [Timers -> BOOLEAN]
    BY Zenon
  <2>5. uloop_cancelled \in BOOLEAN
    BY Zenon
  <2>6. timeouts \in Seq(Timers)
    OBVIOUS
  <2>4. pc \in [Depths -> Phase]
    BY DEF Phase
  <2> QED
    BY <2>1, <2>2, <2>3, <2>4, <2>5, <2>6 DEF TypeOK
<1>2. ListInv
  BY DEF ListInv, LinkedIffPending, DeadlineExact, Ordered, DeadlinesInRange
<1>3. TvInRange
  BY ClockAssumption DEF TvInRange, Micros, Depths
<1>4. TimelyDispatch /\ SleepBounded
  BY DEF TimelyDispatch, SleepBounded
<1> QED
  BY <1>1, <1>2, <1>3, <1>4 DEF Inv

(* A step of the application leaves the loop where it was, in a callback.  *)
LEMMA ApplicationStep ==
    ASSUME Inv, InApplication,
           timeouts' \in Seq(Timers), ListInv',
           pending' \in [Timers -> BOOLEAN], time' \in [Timers -> Time],
           due' \in [Timers -> Int],
           UNCHANGED <<clock, uloop_cancelled, depth, pc, tv>>
    PROVE  Inv'
<1>1. TypeOK'
  BY DEF Inv, TypeOK
<1>2. TvInRange'
  BY DEF Inv, TvInRange
<1>3. TimelyDispatch' /\ SleepBounded'
  BY DEF InApplication, InCallback, TimelyDispatch, SleepBounded
<1> QED
  BY <1>1, <1>2, <1>3 DEF Inv

(* uloop_timeout_add links a timer that is not pending. *)
LEMMA AddInv ==
    ASSUME Inv, NEW t \in Timers, uloop_timeout_add(t)
    PROVE  Inv'
<1>1. TypeOK /\ ListInv /\ time[t] \in Time /\ Micros(time[t]) \in Int
  BY MicrosInt DEF Inv, TypeOK
<1>2. PICK k \in InsertPositions(timeouts, time[t]) :
         timeouts' = InsertAt(timeouts, k, t)
  BY DEF uloop_timeout_add
<1>3. time' = [time EXCEPT ![t] = time[t]]
  BY <1>1 DEF uloop_timeout_add, TypeOK
<1>4. /\ timeouts \in Seq(Timers)
      /\ Distinct(timeouts)
      /\ Ordered(timeouts, time)
      /\ Entries(timeouts) = PendingTimers \ {t}
  <2>1. Distinct(timeouts) /\ Entries(timeouts) = PendingTimers
    BY <1>1, LinkedByEntries DEF ListInv
  <2>2. t \notin PendingTimers
    BY DEF PendingTimers, uloop_timeout_add
  <2> QED
    BY <1>1, <2>1, <2>2 DEF TypeOK, ListInv
<1>5. clock - MaxLag <= Micros(time[t]) /\ Micros(time[t]) <= clock + MaxLag
  BY <1>1, RangeAssumption DEF uloop_timeout_add, TypeOK
<1>6. timeouts' \in Seq(Timers) /\ ListInv'
  <2>1. /\ pending' = [pending EXCEPT ![t] = TRUE]
        /\ due' = [due EXCEPT ![t] = Micros(time[t])]
        /\ clock' = clock
    BY DEF uloop_timeout_add
  <2> QED
    BY <1>1, <1>2, <1>3, <1>4, <1>5, <2>1, LinkKeepsListInv, Zenon
<1> QED
  BY <1>1, <1>6, ApplicationStep DEF uloop_timeout_add, TypeOK

(* uloop_timeout_set links a timer, pending or not, with a new deadline. *)
LEMMA SetInv ==
    ASSUME Inv, NEW t \in Timers, NEW m \in Msecs, uloop_timeout_set(t, m)
    PROVE  Inv'
<1> DEFINE x == TimeAfter(clock, m)
           list == Cancelled(t)
<1>1. TypeOK /\ ListInv /\ clock \in Nat /\ MaxLag \in Nat
  BY RangeAssumption DEF Inv, TypeOK
<1>2. /\ m \in Int
      /\ -MaxLag <= m * 1000 /\ m * 1000 <= MaxLag
  BY RangeAssumption
<1>3. x \in Time /\ Micros(x) = clock + m * 1000
  BY <1>1, <1>2, TimeAfterFacts
<1>4. /\ list \in Seq(Timers)
      /\ Distinct(list)
      /\ Ordered(list, time)
      /\ Entries(list) = PendingTimers \ {t}
  <2>1. /\ timeouts \in Seq(Timers)
        /\ Distinct(timeouts)
        /\ Ordered(timeouts, time)
        /\ Entries(timeouts) = PendingTimers
    BY <1>1, LinkedByEntries DEF TypeOK, ListInv
  <2>2. CASE pending[t]
    <3>1. list = Unlink(timeouts, t)
      BY <2>2 DEF Cancelled
    <3>2. t \in Entries(timeouts)
      BY <2>1, <2>2 DEF PendingTimers
    <3>3. /\ Unlink(timeouts, t) \in Seq(Timers)
          /\ Distinct(Unlink(timeouts, t))
          /\ Entries(Unlink(timeouts, t)) = Entries(timeouts) \ {t}
          /\ Ordered(Unlink(timeouts, t), time)
      BY <2>1, <3>2, UnlinkFacts, Zenon
    <3> HIDE DEF list
    <3> QED
      BY <2>1, <3>1, <3>3
  <2>3. CASE ~pending[t]
    <3>1. list = timeouts
      BY <2>3 DEF Cancelled
    <3>2. t \notin PendingTimers
      BY <2>3 DEF PendingTimers
    <3> HIDE DEF list
    <3> QED
      BY <2>1, <3>1, <3>2
  <2> QED
    BY <2>2, <2>3
<1>5. PICK k \in InsertPositions(list, x) : timeouts' = InsertAt(list, k, t)
  BY DEF uloop_timeout_set
<1>6. /\ pending' = [pending EXCEPT ![t] = TRUE]
      /\ time' = [time EXCEPT ![t] = x]
      /\ due' = [due EXCEPT ![t] = Micros(x)]
      /\ InApplication
      /\ UNCHANGED <<clock, uloop_cancelled, depth, pc, tv>>
  BY <1>3 DEF uloop_timeout_set
<1> HIDE DEF x, list
<1>7. clock - MaxLag <= Micros(x) /\ Micros(x) <= clock + MaxLag
  BY <1>1, <1>2, <1>3
<1>8. timeouts' \in Seq(Timers) /\ ListInv'
  BY <1>1, <1>3, <1>4, <1>5, <1>6, <1>7, LinkKeepsListInv, Zenon
<1>9. /\ pending' \in [Timers -> BOOLEAN] /\ time' \in [Timers -> Time]
      /\ due' \in [Timers -> Int]
  BY <1>1, <1>3, <1>6, MicrosInt DEF TypeOK
<1> QED
  BY <1>6, <1>8, <1>9, ApplicationStep

(* uloop_timeout_cancel unlinks a pending timer. *)
LEMMA CancelInv ==
    ASSUME Inv, NEW t \in Timers, uloop_timeout_cancel(t)
    PROVE  Inv'
<1>1. TypeOK /\ ListInv
  BY DEF Inv
<1>2. timeouts' \in Seq(Timers) /\ ListInv'
  <2>1. /\ pending[t]
        /\ timeouts' = Unlink(timeouts, t)
        /\ pending' = [pending EXCEPT ![t] = FALSE]
        /\ UNCHANGED <<clock, time, due>>
    BY DEF uloop_timeout_cancel
  <2> QED
    BY <1>1, <2>1, UnlinkKeepsListInv, Zenon
<1> QED
  BY <1>1, <1>2, ApplicationStep DEF uloop_timeout_cancel, TypeOK

(* uloop_done unlinks all timers. *)
LEMMA ClearInv == ASSUME Inv, uloop_clear_timeouts PROVE Inv'
<1>1. TypeOK /\ ListInv
  BY DEF Inv
<1>2. timeouts' = <<>> /\ timeouts' \in Seq(Timers)
  BY DEF uloop_clear_timeouts
<1>3. \A t \in Timers : ~pending'[t]
  BY <1>1 DEF uloop_clear_timeouts, ListInv, LinkedIffPending, TypeOK
<1>4. ListInv'
  BY <1>2, <1>3
  DEF ListInv, LinkedIffPending, DeadlineExact, Ordered, DeadlinesInRange
<1>5. pending' \in [Timers -> BOOLEAN]
  BY <1>1 DEF uloop_clear_timeouts, TypeOK
<1> QED
  BY <1>1, <1>2, <1>4, <1>5, ApplicationStep DEF uloop_clear_timeouts, TypeOK
-----------------------------------------------------------------------------
(* uloop_process_timeouts unlinks the head and calls it. *)
LEMMA FireInv == ASSUME Inv, FireHead PROVE Inv'
<1> DEFINE t == Head(timeouts)
<1>1. TypeOK /\ ListInv /\ depth \in Depths /\ pc \in [Depths -> Phase]
  BY ClockAssumption DEF Inv, FireHead, TypeOK, Depths
<1>2. t \in Timers /\ pending[t]
  <2>1. timeouts \in Seq(Timers) /\ timeouts # <<>>
    BY <1>1 DEF TypeOK, FireHead, HeadExpired
  <2>2. 1 \in 1..Len(timeouts) /\ t = timeouts[1] /\ t \in Timers
    BY <2>1
  <2> QED
    BY <1>1, <2>2 DEF ListInv, LinkedIffPending
<1>3. /\ timeouts' = Unlink(timeouts, t)
      /\ pending' = [pending EXCEPT ![t] = FALSE]
      /\ UNCHANGED <<clock, time, due, uloop_cancelled, depth, tv>>
      /\ pc[depth] = "timeouts"
      /\ pc' = [pc EXCEPT ![depth] = "timer_cb"]
  BY DEF FireHead, Goto
<1> HIDE DEF t
<1>4. timeouts' \in Seq(Timers) /\ ListInv'
  <2>1. UNCHANGED <<clock, time, due>>
    BY <1>3
  <2> QED
    BY <1>1, <1>2, <1>3, <2>1, UnlinkKeepsListInv, Zenon
<1>5. TypeOK'
  BY <1>1, <1>3, <1>4 DEF TypeOK, Phase
<1>6. TvInRange'
  BY <1>1, <1>3 DEF Inv, TvInRange, Depths
<1>7. TimelyDispatch' /\ SleepBounded'
  BY <1>1, <1>3 DEF TimelyDispatch, SleepBounded
<1> QED
  BY <1>4, <1>5, <1>6, <1>7 DEF Inv

(* The head is not due: neither is any other pending timer. *)
LEMMA HeadDecides ==
    ASSUME TypeOK, ListInv, NEW t \in Timers, pending[t]
    PROVE  /\ timeouts # <<>>
           /\ Head(timeouts) \in Timers /\ pending[Head(timeouts)]
           /\ Before(time[Head(timeouts)], time[t])
<1>1. PICK i \in 1..Len(timeouts) : timeouts[i] = t
  BY DEF ListInv, LinkedIffPending
<1>2. timeouts \in Seq(Timers) /\ Len(timeouts) \in Nat
  BY DEF TypeOK
<1>3. timeouts # <<>> /\ 1 \in 1..Len(timeouts)
  BY <1>1, <1>2
<1>4. Head(timeouts) = timeouts[1] /\ timeouts[1] \in Timers
  BY <1>2, <1>3
<1>5. pending[timeouts[1]]
  BY <1>3, <1>4 DEF ListInv, LinkedIffPending
<1>6. CASE i = 1
  <2>1. time[t] \in Time /\ Micros(time[t]) \in Int
    BY MicrosInt DEF TypeOK
  <2>2. Micros(time[t]) <= Micros(time[t])
    BY <2>1
  <2> QED
    BY <1>1, <1>3, <1>4, <1>5, <1>6, <2>1, <2>2, BeforeLater
<1>7. CASE i # 1
  <2>1. 1 < i
    BY <1>2, <1>7
  <2> QED
    BY <1>1, <1>3, <1>4, <1>5, <2>1 DEF ListInv, Ordered
<1> QED
  BY <1>6, <1>7

(* The deadline of a pending timer is close enough to the clock and to a   *)
(* recent tv for tv_diff not to overflow.                                  *)
LEMMA DiffInRange ==
    ASSUME TypeOK, ListInv, NEW t \in Timers, pending[t], NEW x \in Time,
           Micros(x) <= clock, clock - Micros(x) <= MaxLag
    PROVE  /\ time[t] \in Time /\ due[t] = Micros(time[t])
           /\ Micros(time[t]) - Micros(x) <= 2 * MaxLag
           /\ Micros(x) - Micros(time[t]) <= 2 * MaxLag
<1>1. time[t] \in Time /\ due[t] = Micros(time[t])
  BY DEF TypeOK, ListInv, DeadlineExact
<1>2. clock - MaxLag <= due[t] /\ due[t] <= clock + MaxLag
  BY DEF ListInv, DeadlinesInRange
<1>3. /\ clock \in Nat /\ MaxLag \in Nat
      /\ Micros(x) \in Int /\ Micros(time[t]) \in Int
  BY <1>1, RangeAssumption, MicrosInt DEF TypeOK
<1> QED
  BY <1>1, <1>2, <1>3
-----------------------------------------------------------------------------
(* The arithmetic of TimelyDispatch: a is the time of the head, which has  *)
(* not expired at v, and b that of a timer behind it.                      *)
LEMMA BehindUnexpired ==
    ASSUME NEW a \in Time, NEW b \in Time, NEW v \in Time,
           v.usec >= 0, v.usec < 1000000,
           Micros(a) > Micros(v),
           Micros(a) - Micros(v) >= 1000 \/ a.sec > v.sec,
           Before(a, b)
    PROVE  /\ Micros(b) > Micros(v) - 1000
           /\ b.usec >= 0 => Micros(b) > Micros(v)
<1>1. /\ Micros(a) \in Int /\ Micros(b) \in Int /\ Micros(v) \in Int
      /\ a.sec \in Int /\ b.sec \in Int /\ v.sec \in Int
      /\ b.usec \in Int /\ v.usec \in Int
  BY MicrosInt
<1>2. /\ Micros(b) = b.sec * 1000000 + b.usec
      /\ Micros(v) = v.sec * 1000000 + v.usec
  BY DEF Micros
<1>3. /\ Micros(a) - Micros(b) < 1000
      /\ Micros(a) > Micros(b) => a.sec <= b.sec
  BY DEF Before
<1>4. Micros(b) > Micros(v) - 1000
  BY <1>1, <1>3
<1>5. ASSUME b.usec >= 0 PROVE Micros(b) > Micros(v)
  <2>1. CASE ~(Micros(a) > Micros(b))
    BY <1>1, <2>1
  <2>2. CASE Micros(a) - Micros(v) >= 1000
    BY <1>1, <1>3, <2>2
  <2>3. CASE Micros(a) > Micros(b) /\ a.sec > v.sec
    <3>1. b.sec >= v.sec + 1
      BY <1>1, <1>3, <2>3
    <3> QED
      BY <1>1, <1>2, <1>5, <3>1
  <2> QED
    BY <2>1, <2>2, <2>3
<1> QED
  BY <1>4, <1>5

(* uloop_process_timeouts returns: nothing that was due is left. *)
LEMMA TimeoutsDoneInv == ASSUME Inv, TimeoutsDone PROVE Inv'
<1>1. TypeOK /\ ListInv /\ TvInRange
      /\ depth \in Depths /\ depth \in 1..depth /\ pc \in [Depths -> Phase]
  BY ClockAssumption DEF Inv, TimeoutsDone, TypeOK, Depths
<1>2. /\ pc[depth] = "timeouts" /\ ~HeadExpired
      /\ pc' = [pc EXCEPT ![depth] = "timed"]
      /\ UNCHANGED <<clock, timerVars, uloop_cancelled, depth, tv>>
  BY DEF TimeoutsDone, Goto
<1>3. TypeOK'
  BY <1>1, <1>2 DEF TypeOK, Phase, timerVars
<1>4. ListInv'
  BY <1>1, <1>2, ListInvUnchanged
<1>5. TvInRange'
  BY <1>1, <1>2 DEF TvInRange, Depths
<1>6. SleepBounded'
  BY <1>1, <1>2 DEF SleepBounded
<1>7. ASSUME NEW t \in Timers, pending[t]
      PROVE  /\ due[t] > Micros(tv[depth]) - 1000
             /\ time[t].usec >= 0 => due[t] > Micros(tv[depth])
  <2> DEFINE h == Head(timeouts)
             v == tv[depth]
  <2>1. /\ timeouts # <<>> /\ h \in Timers /\ pending[h]
        /\ Before(time[h], time[t])
    BY <1>1, <1>7, HeadDecides
  <2>2. /\ v \in Time /\ v.usec >= 0 /\ v.usec < 1000000
        /\ Micros(v) <= clock /\ clock - Micros(v) <= MaxLag
    BY <1>1, <1>2 DEF TypeOK, TvInRange
  <2>3. /\ time[h] \in Time /\ time[t] \in Time /\ due[t] = Micros(time[t])
        /\ Micros(time[h]) - Micros(v) <= 2 * MaxLag
        /\ Micros(v) - Micros(time[h]) <= 2 * MaxLag
    BY <1>1, <1>7, <2>1, <2>2, DiffInRange
  <2>4. ~(tv_diff(time[h], v) <= 0)
    BY <1>2, <2>1 DEF HeadExpired
  <2> HIDE DEF h, v
  <2>5. /\ Micros(time[h]) > Micros(v)
        /\ Micros(time[h]) - Micros(v) >= 1000 \/ time[h].sec > v.sec
    BY <2>2, <2>3, <2>4, TvDiffFacts
  <2>6. /\ Micros(time[t]) > Micros(v) - 1000
        /\ time[t].usec >= 0 => Micros(time[t]) > Micros(v)
    BY <2>1, <2>2, <2>3, <2>5, BehindUnexpired
  <2> QED
    BY <2>3, <2>6 DEF v
<1>8. TimelyDispatch'
  BY <1>2, <1>7 DEF TimelyDispatch, timerVars
<1> QED
  BY <1>3, <1>4, <1>5, <1>6, <1>8 DEF Inv

(* epoll_wait is called with a timeout that respects every deadline. *)
LEMMA PollInv == ASSUME Inv, Poll PROVE Inv'
<1> DEFINE v == uloop_gettime(clock)
<1>1. TypeOK /\ ListInv /\ TvInRange /\ clock \in Nat /\ MaxLag \in Nat
      /\ depth \in Depths /\ pc \in [Depths -> Phase]
      /\ tv \in [Depths -> Time]
  BY ClockAssumption, RangeAssumption DEF Inv, Poll, TypeOK, Depths
<1>2. /\ tv' = [tv EXCEPT ![depth] = v]
      /\ pc' = [pc EXCEPT ![depth] = "polling"]
      /\ UNCHANGED <<clock, timerVars, uloop_cancelled, depth>>
  BY DEF Poll, Goto
<1>3. /\ v \in Time /\ Micros(v) = clock
      /\ v.usec >= 0 /\ v.usec < 1000000
  BY <1>1, GettimeFacts
<1> HIDE DEF v
<1>4. TypeOK'
  BY <1>1, <1>2, <1>3 DEF TypeOK, Phase, timerVars
<1>5. ListInv'
  BY <1>1, <1>2, ListInvUnchanged
<1>6. TvInRange'
  BY <1>1, <1>2, <1>3 DEF TvInRange, Depths
<1>7. TimelyDispatch'
  BY <1>1, <1>2 DEF TimelyDispatch
<1>8. ASSUME NEW t \in Timers, pending[t]
      PROVE  LET sleep == uloop_get_next_timeout(v)
             IN  \/ sleep = 0
                 \/ /\ sleep > 0
                    /\ Micros(v) + sleep * 1000 < due[t] + 2000
  <2> DEFINE h == Head(timeouts)
  <2>1. /\ timeouts # <<>> /\ h \in Timers /\ pending[h]
        /\ Before(time[h], time[t])
    BY <1>1, <1>8, HeadDecides
  <2>2. Micros(v) <= clock /\ clock - Micros(v) <= MaxLag
    BY <1>1, <1>3
  <2>3. /\ time[h] \in Time /\ time[t] \in Time /\ due[t] = Micros(time[t])
        /\ Micros(time[h]) - Micros(v) <= 2 * MaxLag
        /\ Micros(v) - Micros(time[h]) <= 2 * MaxLag
    BY <1>1, <1>3, <1>8, <2>1, <2>2, DiffInRange
  <2>4. uloop_get_next_timeout(v) =
           IF tv_diff(time[h], v) < 0 THEN 0 ELSE tv_diff(time[h], v)
    BY <2>1 DEF uloop_get_next_timeout
  <2> HIDE DEF h
  <2>5. /\ tv_diff(time[h], v) \in Int
        /\ tv_diff(time[h], v) * 1000 - (Micros(time[h]) - Micros(v)) < 1000
    BY <1>3, <2>3, TvDiffFacts
  <2>6. /\ Micros(time[h]) - Micros(time[t]) < 1000
        /\ Micros(time[h]) \in Int /\ Micros(time[t]) \in Int
        /\ Micros(v) \in Int
    BY <1>3, <2>1, <2>3, MicrosInt DEF Before
  <2> QED
    BY <2>3, <2>4, <2>5, <2>6
<1>9. SleepBounded'
  <2>1. tv'[depth'] = v
    BY <1>1, <1>2
  <2>2. uloop_get_next_timeout(tv[depth])' = uloop_get_next_timeout(v)
    BY <1>2, <2>1 DEF uloop_get_next_timeout, timerVars
  <2> QED
    BY <1>2, <1>8, <2>1, <2>2 DEF SleepBounded, timerVars
<1> QED
  BY <1>4, <1>5, <1>6, <1>7, <1>9 DEF Inv
-----------------------------------------------------------------------------
(* A new turn of the loop takes the time. *)
LEMMA StartIterationInv == ASSUME Inv, StartIteration PROVE Inv'
<1> DEFINE v == uloop_gettime(clock)
<1>1. TypeOK /\ ListInv /\ TvInRange /\ clock \in Nat /\ MaxLag \in Nat
      /\ depth \in Depths /\ pc \in [Depths -> Phase]
      /\ tv \in [Depths -> Time]
  BY ClockAssumption, RangeAssumption DEF Inv, StartIteration, TypeOK, Depths
<1>2. /\ tv' = [tv EXCEPT ![depth] = v]
      /\ pc' = [pc EXCEPT ![depth] = "timeouts"]
      /\ UNCHANGED <<clock, timerVars, uloop_cancelled, depth>>
  BY DEF StartIteration, Goto
<1>3. /\ v \in Time /\ Micros(v) = clock
      /\ v.usec >= 0 /\ v.usec < 1000000
  BY <1>1, GettimeFacts
<1> HIDE DEF v
<1>4. TypeOK'
  BY <1>1, <1>2, <1>3 DEF TypeOK, Phase, timerVars
<1>5. ListInv'
  BY <1>1, <1>2, ListInvUnchanged
<1>6. TvInRange'
  BY <1>1, <1>2, <1>3 DEF TvInRange, Depths
<1>7. TimelyDispatch' /\ SleepBounded'
  BY <1>1, <1>2 DEF TimelyDispatch, SleepBounded
<1> QED
  BY <1>4, <1>5, <1>6, <1>7 DEF Inv

(* A step that moves the topmost loop to a phase in which neither the      *)
(* timers have just been dispatched nor epoll_wait is called.              *)
LEMMA MoveInv ==
    ASSUME Inv, depth > 0,
           NEW ph \in Phase \ {"timed", "polling"}, Goto(ph),
           ph = "timeouts" => pc[depth] = "timer_cb",
           ph # "timer_cb",
           UNCHANGED <<clock, timerVars, uloop_cancelled, depth, tv>>
    PROVE  Inv'
<1>1. TypeOK /\ ListInv /\ TvInRange
      /\ depth \in Depths /\ depth \in 1..depth /\ pc \in [Depths -> Phase]
  BY ClockAssumption DEF Inv, TypeOK, Depths
<1>2. TypeOK'
  BY <1>1 DEF TypeOK, Goto, timerVars
<1>3. ListInv'
  BY <1>1, ListInvUnchanged
<1>4. TvInRange'
  BY <1>1 DEF TvInRange, Goto, Depths
<1>5. TimelyDispatch' /\ SleepBounded'
  BY <1>1 DEF TimelyDispatch, SleepBounded, Goto
<1> QED
  BY <1>2, <1>3, <1>4, <1>5 DEF Inv

(* uloop_run is called, by the main program or by a callback. *)
LEMMA EnterInv == ASSUME Inv, EnterRun PROVE Inv'
<1>1. TypeOK /\ ListInv /\ TvInRange /\ pc \in [Depths -> Phase]
      /\ depth \in 0..MaxDepth /\ depth + 1 \in Depths /\ MaxDepth \in Nat
  BY ClockAssumption DEF Inv, EnterRun, TypeOK, Depths
<1>2. /\ depth' = depth + 1
      /\ pc' = [pc EXCEPT ![depth + 1] = "top"]
      /\ uloop_cancelled' = FALSE
      /\ UNCHANGED <<clock, timerVars, tv>>
  BY DEF EnterRun
<1>3. TypeOK'
  <2>1. pc' \in [Depths -> Phase]
    BY <1>1, <1>2 DEF Phase
  <2>2. depth' \in 0..MaxDepth
    BY <1>1, <1>2 DEF Depths
  <2>3. uloop_cancelled' \in BOOLEAN
    BY <1>2, Zenon
  <2> QED
    BY <1>1, <1>2, <2>1, <2>2, <2>3 DEF TypeOK, timerVars
<1>4. ListInv'
  BY <1>1, <1>2, ListInvUnchanged
<1>5. TvInRange'
  BY <1>1, <1>2 DEF TvInRange, Depths
<1>6. TimelyDispatch' /\ SleepBounded'
  BY <1>1, <1>2 DEF TimelyDispatch, SleepBounded
<1> QED
  BY <1>3, <1>4, <1>5, <1>6 DEF Inv

(* The loops below the topmost one are all in a callback. *)
OuterInCallback ==
    \A i \in 1..(depth - 1) : InCallback(pc[i])

(* uloop_run returns to the callback that called it. *)
LEMMA LeaveInv == ASSUME Inv, OuterInCallback, LeaveRun PROVE Inv'
<1>1. TypeOK /\ ListInv /\ TvInRange /\ pc \in [Depths -> Phase]
      /\ depth \in Depths /\ MaxDepth \in Nat /\ tv \in [Depths -> Time]
      /\ clock \in Nat
  BY ClockAssumption DEF Inv, LeaveRun, TypeOK, Depths
<1>2. /\ depth' = depth - 1
      /\ pc' = [pc EXCEPT ![depth] = "top"]
      /\ tv' = [tv EXCEPT ![depth] = [sec |-> 0, usec |-> 0]]
      /\ UNCHANGED <<clock, timerVars, uloop_cancelled>>
  BY DEF LeaveRun
<1>3. TypeOK'
  BY <1>1, <1>2 DEF TypeOK, Phase, Depths, Time, timerVars
<1>4. ListInv'
  BY <1>1, <1>2, ListInvUnchanged
<1>5. TvInRange'
  BY <1>1, <1>2 DEF TvInRange, Depths, Micros
<1>6. depth' > 0 => InCallback(pc'[depth'])
  BY <1>1, <1>2 DEF OuterInCallback, Depths
<1>7. TimelyDispatch' /\ SleepBounded'
  BY <1>6 DEF TimelyDispatch, SleepBounded, InCallback
<1> QED
  BY <1>3, <1>4, <1>5, <1>7 DEF Inv

(* Time passes, within the lag. *)
LEMMA TickInv == ASSUME Inv, Tick PROVE Inv'
<1>1. TypeOK /\ ListInv /\ TvInRange /\ clock \in Nat /\ MaxLag \in Nat
      /\ depth \in 0..MaxDepth /\ MaxDepth \in Nat
  BY ClockAssumption, RangeAssumption DEF Inv, TypeOK
<1>2. PICK d \in Steps :
        /\ \A t \in Timers :
              pending[t] => clock + d - Micros(time[t]) <= MaxLag
        /\ \A i \in 1..depth :
              pc[i] \in {"timeouts", "timer_cb"}
                 => clock + d - Micros(tv[i]) <= MaxLag
        /\ clock' = clock + d
        /\ UNCHANGED <<timerVars, uloop_cancelled, depth, pc, tv>>
  BY DEF Tick
<1>3. d \in Nat
  BY ClockAssumption
<1>4. TypeOK'
  BY <1>1, <1>2, <1>3 DEF TypeOK, timerVars
<1>5. ListInv'
  <2>1. DeadlinesInRange'
    <3>0. clock' = clock + d /\ pending' = pending /\ due' = due
      BY <1>2 DEF timerVars
    <3> SUFFICES ASSUME NEW t \in Timers, pending'[t]
                 PROVE  clock' - MaxLag <= due'[t] /\ due'[t] <= clock' + MaxLag
      BY DEF DeadlinesInRange
    <3>a. pending[t]
      BY <3>0
    <3>1. due[t] = Micros(time[t]) /\ due[t] \in Int
      BY <1>1, <3>a DEF ListInv, DeadlineExact, TypeOK
    <3>2. due[t] <= clock + MaxLag
      BY <1>1, <3>a DEF ListInv, DeadlinesInRange
    <3>3. clock + d - due[t] <= MaxLag
      BY <1>2, <3>1, <3>a
    <3> QED
      BY <1>1, <1>3, <3>0, <3>1, <3>2, <3>3
  <2> QED
    BY <1>1, <1>2, <2>1
    DEF ListInv, LinkedIffPending, DeadlineExact, Ordered, timerVars
<1>6. TvInRange'
  <2>1. ASSUME NEW i \in Depths PROVE Micros(tv[i]) <= clock + d
    <3>1. Micros(tv[i]) \in Int /\ Micros(tv[i]) <= clock
      BY <1>1, MicrosInt DEF TypeOK, TvInRange
    <3> QED
      BY <1>1, <1>3, <3>1
  <2>2. clock' = clock + d /\ tv' = tv /\ depth' = depth /\ pc' = pc
    BY <1>2
  <2>3. \A i \in Depths : /\ tv'[i].usec >= 0
                          /\ tv'[i].usec < 1000000
                          /\ Micros(tv'[i]) <= clock'
    BY <1>1, <2>1, <2>2 DEF TvInRange
  <2>4. ASSUME NEW i \in 1..depth', pc'[i] \in {"timeouts", "timer_cb"}
        PROVE  clock' - Micros(tv'[i]) <= MaxLag
    <3>1. i \in 1..depth /\ pc[i] \in {"timeouts", "timer_cb"}
      BY <2>2, <2>4, SMT
    <3>2. clock + d - Micros(tv[i]) <= MaxLag
      BY <1>2, <3>1, SMT
    <3>3. i \in Depths /\ tv[i] \in Time
      BY <1>1, <3>1 DEF Depths, TypeOK
    <3>4. Micros(tv[i]) \in Int
      BY <3>3, MicrosInt
    <3>5. Micros(tv'[i]) = Micros(tv[i])
      BY <2>2
    <3> QED
      BY <1>1, <1>3, <2>2, <3>2, <3>4, <3>5
  <2> QED
    BY <2>3, <2>4, SMT DEF TvInRange
<1>7. TimelyDispatch' /\ SleepBounded'
  BY <1>2 DEF Inv, TimelyDispatch, SleepBounded, uloop_get_next_timeout,
              timerVars
<1> QED
  BY <1>4, <1>5, <1>6, <1>7 DEF Inv
-----------------------------------------------------------------------------
(* uloop_end does not touch the timers. *)
LEMMA CancelFlagInv == ASSUME Inv, Cancel PROVE Inv'
<1>1. /\ UNCHANGED <<clock, timerVars, depth, pc, tv>>
      /\ uloop_cancelled' = TRUE
  BY DEF Cancel
<1>2. TypeOK'
  BY <1>1 DEF Inv, TypeOK, timerVars
<1>3. ListInv'
  BY <1>1, ListInvUnchanged DEF Inv
<1>4. TvInRange' /\ TimelyDispatch' /\ SleepBounded'
  BY <1>1 DEF Inv, TvInRange, TimelyDispatch, SleepBounded,
              uloop_get_next_timeout, timerVars
<1> QED
  BY <1>2, <1>3, <1>4 DEF Inv

(* Neither does anybody else. *)
LEMMA StutterInv == ASSUME Inv, UNCHANGED vars PROVE Inv'
<1>1. UNCHANGED <<clock, timerVars, uloop_cancelled, depth, pc, tv>>
  BY DEF vars, timerVars
<1>2. TypeOK'
  BY <1>1 DEF Inv, TypeOK, timerVars
<1>3. ListInv'
  BY <1>1, ListInvUnchanged DEF Inv
<1>4. TvInRange' /\ TimelyDispatch' /\ SleepBounded'
  BY <1>1 DEF Inv, TvInRange, TimelyDispatch, SleepBounded,
              uloop_get_next_timeout, timerVars
<1> QED
  BY <1>2, <1>3, <1>4 DEF Inv

(* A loop below the topmost one waits for its callback to return: only the *)
(* topmost loop moves, and a new one is started by a callback.             *)
LEMMA OuterInv ==
    ASSUME Inv, OuterInCallback, [Next]_vars
    PROVE  OuterInCallback'
<1>1. depth \in 0..MaxDepth /\ MaxDepth \in Nat /\ pc \in [Depths -> Phase]
  BY ClockAssumption DEF Inv, TypeOK
<1>2. CASE depth' = depth /\ pc' = pc
  BY <1>2 DEF OuterInCallback
<1>3. CASE depth > 0 /\ depth' = depth /\ \E ph \in Phase : Goto(ph)
  BY <1>1, <1>3 DEF OuterInCallback, Goto, Depths
<1>4. CASE EnterRun
  BY <1>1, <1>4 DEF OuterInCallback, EnterRun, InApplication, Depths
<1>5. CASE LeaveRun
  BY <1>1, <1>5 DEF OuterInCallback, LeaveRun, Depths
<1>6. ASSUME NEW t \in Timers,
             \/ uloop_timeout_add(t)
             \/ \E msecs \in Msecs : uloop_timeout_set(t, msecs)
             \/ uloop_timeout_cancel(t)
      PROVE  depth' = depth /\ pc' = pc
  BY <1>6 DEF uloop_timeout_add, uloop_timeout_set, uloop_timeout_cancel
<1>7. uloop_clear_timeouts \/ Cancel \/ Tick \/ UNCHANGED vars
         => depth' = depth /\ pc' = pc
  BY DEF uloop_clear_timeouts, Cancel, Tick, vars
<1>8. StartIteration \/ FireHead \/ TimeoutsDone \/ ProcessCallback \/ Poll
         \/ Wake \/ CallbackReturns
         => depth > 0 /\ depth' = depth /\ \E ph \in Phase : Goto(ph)
  BY DEF StartIteration, FireHead, TimeoutsDone, ProcessCallback, Poll,
         Wake, CallbackReturns, Phase
<1> QED
  BY <1>2, <1>3, <1>4, <1>5, <1>6, <1>7, <1>8 DEF Next

(* Every step preserves the inductive invariant. *)
LEMMA NextInv ==
    ASSUME Inv, OuterInCallback, [Next]_vars
    PROVE  Inv'
<1>1. ASSUME NEW t \in Timers, uloop_timeout_add(t) PROVE Inv'
  BY <1>1, AddInv
<1>2. ASSUME NEW t \in Timers, NEW m \in Msecs, uloop_timeout_set(t, m)
      PROVE  Inv'
  BY <1>2, SetInv
<1>3. ASSUME NEW t \in Timers, uloop_timeout_cancel(t) PROVE Inv'
  BY <1>3, CancelInv
<1>4. CASE uloop_clear_timeouts
  BY <1>4, ClearInv
<1>5. CASE EnterRun
  BY <1>5, EnterInv
<1>6. CASE StartIteration
  BY <1>6, StartIterationInv
<1>7. CASE FireHead
  BY <1>7, FireInv
<1>8. CASE TimeoutsDone
  BY <1>8, TimeoutsDoneInv
<1>9. CASE ProcessCallback
  BY <1>9, MoveInv DEF ProcessCallback, Phase
<1>10. CASE Poll
  BY <1>10, PollInv
<1>11. CASE Wake
  BY <1>11, MoveInv DEF Wake, Phase
<1>12. CASE CallbackReturns
  BY <1>12, MoveInv DEF CallbackReturns, Phase
<1>13. CASE LeaveRun
  BY <1>13, LeaveInv
<1>14. CASE Cancel
  BY <1>14, CancelFlagInv
<1>15. CASE Tick
  BY <1>15, TickInv
<1>16. CASE UNCHANGED vars
  BY <1>16, StutterInv
<1> QED
  BY <1>1, <1>2, <1>3, <1>4, <1>5, <1>6, <1>7, <1>8, <1>9, <1>10, <1>11,
     <1>12, <1>13, <1>14, <1>15, <1>16 DEF Next
-----------------------------------------------------------------------------
(* The inductive invariant holds in every behaviour. *)
LEMMA InvAlways == Spec => [](Inv /\ OuterInCallback)
<1>1. Init => Inv /\ OuterInCallback
  BY InitInv DEF OuterInCallback, Init
<1>2. Inv /\ OuterInCallback /\ [Next]_vars => (Inv /\ OuterInCallback)'
  BY NextInv, OuterInv
<1> QED
  BY <1>1, <1>2, PTL DEF Spec

(***************************************************************************)
(* Every variable keeps its type, whatever the callbacks do.               *)
(***************************************************************************)
THEOREM TypeCorrect == Spec => []TypeOK
<1>1. Inv /\ OuterInCallback => TypeOK
  BY DEF Inv
<1> QED
  BY <1>1, InvAlways, PTL

(***************************************************************************)
(* The struct timeval of a pending timer is the deadline the application   *)
(* asked for, carries and negative delays included.                        *)
(***************************************************************************)
THEOREM DeadlinesExact == Spec => []DeadlineExact
<1>1. Inv /\ OuterInCallback => DeadlineExact
  BY DEF Inv, ListInv
<1> QED
  BY <1>1, InvAlways, PTL

(***************************************************************************)
(* uloop_timeout_remaining tells the time to the deadline, to less than a  *)
(* millisecond, for every delay and lag in range.                          *)
(***************************************************************************)
THEOREM RemainingIsAccurate == Spec => []RemainingAccurate
<1>1. ASSUME Inv PROVE RemainingAccurate
  <2> SUFFICES ASSUME NEW t \in Timers, pending[t]
               PROVE  /\ uloop_timeout_remaining(t) * 1000 - (due[t] - clock)
                             < 1000
                      /\ (due[t] - clock) - uloop_timeout_remaining(t) * 1000
                             < 1000
    BY DEF RemainingAccurate
  <2> DEFINE x == uloop_gettime(clock)
  <2>1. TypeOK /\ ListInv /\ clock \in Nat /\ MaxLag \in Nat
    BY <1>1, RangeAssumption DEF Inv, TypeOK
  <2>2. x \in Time /\ Micros(x) = clock
    BY <2>1, GettimeFacts
  <2>3. uloop_timeout_remaining(t) = tv_diff(time[t], x)
    BY DEF uloop_timeout_remaining
  <2> HIDE DEF x
  <2>4. Micros(x) <= clock /\ clock - Micros(x) <= MaxLag
    BY <2>1, <2>2
  <2>5. /\ time[t] \in Time /\ due[t] = Micros(time[t])
        /\ Micros(time[t]) - Micros(x) <= 2 * MaxLag
        /\ Micros(x) - Micros(time[t]) <= 2 * MaxLag
    BY <2>1, <2>2, <2>4, DiffInRange, Zenon
  <2>a. tv_diff(time[t], x) \in Int
    BY <2>2, <2>5, TvDiffFacts
  <2>6. /\ tv_diff(time[t], x) * 1000 - (Micros(time[t]) - Micros(x)) < 1000
        /\ (Micros(time[t]) - Micros(x)) - tv_diff(time[t], x) * 1000 < 1000
    BY <2>2, <2>5, TvDiffFacts
  <2>7. due[t] = Micros(time[t]) /\ Micros(time[t]) \in Int
    BY <2>5, MicrosInt
  <2> DEFINE d == tv_diff(time[t], x)
             m == Micros(time[t])
  <2>8. d \in Int /\ m \in Int /\ clock \in Int
        /\ d * 1000 - (m - clock) < 1000 /\ (m - clock) - d * 1000 < 1000
    BY <2>1, <2>2, <2>6, <2>7, <2>a
  <2>9. uloop_timeout_remaining(t) = d /\ due[t] = m
    BY <2>3, <2>7
  <2> HIDE DEF d, m
  <2> QED
    BY <2>8, <2>9
<1>2. Inv /\ OuterInCallback => RemainingAccurate
  BY <1>1
<1> QED
  BY <1>2, InvAlways, PTL

(***************************************************************************)
(* timeout->pending is the truth about the list, and no timer is linked    *)
(* twice, for any interleaving of add, set, cancel, clear and dispatch.    *)
(***************************************************************************)
THEOREM ListConsistent == Spec => []LinkedIffPending
<1>1. Inv /\ OuterInCallback => LinkedIffPending
  BY DEF Inv, ListInv
<1> QED
  BY <1>1, InvAlways, PTL

(***************************************************************************)
(* The list that uloop_timeout_add builds is sorted up to a millisecond.   *)
(***************************************************************************)
THEOREM ListNearSorted == Spec => []NearSorted
<1>1. ASSUME Inv PROVE NearSorted
  <2> SUFFICES ASSUME NEW i \in 1..Len(timeouts), NEW j \in 1..Len(timeouts),
                      i < j
               PROVE  LET t == timeouts[i]
                          u == timeouts[j]
                      IN  /\ due[t] - due[u] < 1000
                          /\ due[t] > due[u] => time[t].sec <= time[u].sec
    BY DEF NearSorted
  <2>1. /\ timeouts[i] \in Timers /\ pending[timeouts[i]]
        /\ timeouts[j] \in Timers /\ pending[timeouts[j]]
    BY <1>1 DEF Inv, ListInv, LinkedIffPending, TypeOK
  <2>2. /\ due[timeouts[i]] = Micros(time[timeouts[i]])
        /\ due[timeouts[j]] = Micros(time[timeouts[j]])
    BY <1>1, <2>1 DEF Inv, ListInv, DeadlineExact
  <2>3. Before(time[timeouts[i]], time[timeouts[j]])
    BY <1>1 DEF Inv, ListInv, Ordered
  <2> QED
    BY <2>2, <2>3 DEF Before
<1> QED
  BY <1>1, InvAlways, PTL

(***************************************************************************)
(* When uloop_process_timeouts(tv) returns, every timer that was due by tv *)
(* has been run, also when callbacks ran the loop recursively.             *)
(***************************************************************************)
THEOREM DispatchIsTimely == Spec => []TimelyDispatch
<1>1. Inv /\ OuterInCallback => TimelyDispatch
  BY DEF Inv
<1> QED
  BY <1>1, InvAlways, PTL

(***************************************************************************)
(* The loop does not ask epoll_wait to sleep two milliseconds or more past *)
(* any pending deadline.                                                   *)
(***************************************************************************)
THEOREM SleepIsBounded == Spec => []SleepBounded
<1>1. Inv /\ OuterInCallback => SleepBounded
  BY DEF Inv
<1> QED
  BY <1>1, InvAlways, PTL

(***************************************************************************)
(* No timer fires a millisecond or more early, or a millisecond or more    *)
(* out of order.                                                           *)
(***************************************************************************)
THEOREM FiringNeverEarly == Spec => NeverEarly
<1>1. ASSUME Inv, FireHead, NEW t \in Timers, pending[t], ~pending'[t]
      PROVE  /\ due[t] < clock + 1000
             /\ \A u \in Timers : pending[u] => due[t] - due[u] < 1000
  <2> DEFINE v == tv[depth]
  <2>0. TypeOK /\ ListInv /\ TvInRange /\ clock \in Nat
    BY <1>1 DEF Inv, TypeOK
  <2>1. t = Head(timeouts)
    BY <1>1, <2>0 DEF FireHead, TypeOK
  <2>2. tv_diff(time[t], v) <= 0 /\ pc[depth] = "timeouts" /\ depth > 0
    BY <1>1, <2>1 DEF FireHead, HeadExpired
  <2>3. depth \in Depths /\ depth \in 1..depth
    BY <2>0, <2>2, ClockAssumption DEF TypeOK, Depths
  <2>4. v \in Time /\ Micros(v) <= clock /\ clock - Micros(v) <= MaxLag
    BY <2>0, <2>2, <2>3 DEF TypeOK, TvInRange
  <2>5. /\ time[t] \in Time /\ due[t] = Micros(time[t])
        /\ Micros(time[t]) - Micros(v) <= 2 * MaxLag
        /\ Micros(v) - Micros(time[t]) <= 2 * MaxLag
    BY <1>1, <2>0, <2>4, DiffInRange
  <2> HIDE DEF v
  <2>6. Micros(time[t]) - Micros(v) < 1000
    BY <2>2, <2>4, <2>5, TvDiffFacts
  <2>7. due[t] < clock + 1000
    BY <2>0, <2>4, <2>5, <2>6, MicrosInt
  <2>8. ASSUME NEW u \in Timers, pending[u]
        PROVE  due[t] - due[u] < 1000
    <3>1. Before(time[t], time[u])
      BY <2>0, <2>1, <2>8, HeadDecides
    <3>2. due[u] = Micros(time[u])
      BY <2>0, <2>8 DEF ListInv, DeadlineExact
    <3> QED
      BY <2>5, <3>1, <3>2 DEF Before
  <2> QED
    BY <2>7, <2>8
<1>2. Inv /\ OuterInCallback /\ [Next]_vars =>
        [\A t \in Timers :
           (FireHead /\ pending[t] /\ ~pending'[t]) =>
               /\ due[t] < clock + 1000
               /\ \A u \in Timers :
                     pending[u] => due[t] - due[u] < 1000]_vars
  BY <1>1
<1> QED
  BY <1>2, InvAlways, PTL DEF Spec, NeverEarly
=============================================================================
