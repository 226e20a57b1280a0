--------------------------- MODULE RunqueueProofs ---------------------------
(***************************************************************************)
(* What runqueue.c guarantees for any number of tasks, any limit and any   *)
(* nesting of callbacks.                                                   *)
(*                                                                         *)
(* What the properties say of an idle queue has to be said of a busy one   *)
(* as well to be inductive: instead of the timer there may be a function   *)
(* on the stack that will look at the queue (Wakeups), and a process may   *)
(* be watched until the kill callback that is about to be called           *)
(* (KillsPend).                                                            *)
(***************************************************************************)
EXTENDS Runqueue, ListLemmas, FunctionTheorems, FiniteSetTheorems

\* The callbacks, and the functions that go on when one has returned.
CallNames == {"run", "complete", "cancel", "kill", "empty",
              "start_next", "completing", "killing", "killed", "for_each",
              "cancel_active", "kill_all", "kill_done"}

Frame == [fn : CallNames, task : Tasks \cup {NULL}, wasRunning : BOOLEAN]

\* The functions that will call runqueue_start_next, or are called by the
\* timer that it arms.
Waking == {"start_next", "completing", "killing", "killed"}

WillWake(calls) == \E c \in ToSet(calls) : c.fn \in Waking

\* runqueue_task_kill has not yet called the kill callback of t.
KillPends(calls, t) ==
    \E c \in ToSet(calls) : c.fn = "killing" /\ c.task = t /\ c.wasRunning

\* The iterations wait for entries of Q.
CursorsIn(calls, Q) ==
    \A c \in ToSet(calls) : c.fn = "for_each" => c.task \in Q \cup {NULL}

\* All that r may have lost of the calls of s are iterations.
Carries(s, r) ==
    \A c \in ToSet(s) : c.fn = "for_each" \/ c \in ToSet(r)
-----------------------------------------------------------------------------
TypeOK ==
    /\ tasks_active \in Seq(Tasks) /\ tasks_inactive \in Seq(Tasks)
    /\ queued \subseteq Tasks /\ proc_pending \subseteq Tasks
    /\ adopted \subseteq Tasks
    /\ timeout \in {"off", "next", "empty"}
    /\ wakeup \in {"never", "called", "dropped"}
    /\ stopped \in BOOLEAN /\ empty \in BOOLEAN
    /\ stack \in Seq(Frame)

Lists ==
    /\ running = ToSet(tasks_active)
    /\ queued = running \cup ToSet(tasks_inactive)
    /\ IsInjective(tasks_active) /\ IsInjective(tasks_inactive)
    /\ running \cap ToSet(tasks_inactive) = {}
    /\ running_tasks = Len(tasks_active)

\* With calls active, what NoLostWakeup says of an idle queue holds unless one
\* of them is about to look at the queue.
Wakeups ==
    /\ MayStart /\ wakeup # "dropped" => timeout = "next" \/ WillWake(stack)
    /\ queued = {} /\ wakeup = "called" =>
           empty \/ timeout = "next" \/ WillWake(stack)
    /\ empty \/ timeout = "empty" => queued = {} /\ empty
    /\ wakeup = "never" => queued = {}

Timers ==
    /\ task_timeout \subseteq running
    /\ cancelled \subseteq running
    /\ cancelled \cap HasCancelTimeout \subseteq task_timeout
    /\ (running \ (adopted \cup cancelled)) \cap HasRunTimeout
          \subseteq task_timeout

KillsPend == \A t \in proc_pending \ running : KillPends(stack, t)

Inv ==
    /\ TypeOK
    /\ Lists
    /\ CursorsIn(stack, queued)
    /\ Wakeups
    /\ Timers
    /\ KillsPend
    /\ LimitKept
-----------------------------------------------------------------------------
(***************************************************************************)
(* The lists of the queue, on which no task is twice.                      *)
(***************************************************************************)
LEMMA PlaceInFacts ==
    ASSUME NEW list \in Seq(Tasks), NEW t \in ToSet(list)
    PROVE  PlaceIn(list, t) \in 1..Len(list) /\ list[PlaceIn(list, t)] = t
<1>1. \E i \in 1..Len(list) : list[i] = t
  BY EntriesFacts
<1> QED
  BY <1>1 DEF PlaceIn

LEMMA WithoutFacts ==
    ASSUME NEW list \in Seq(Tasks), IsInjective(list), NEW t
    PROVE  /\ Without(list, t) \in Seq(Tasks)
           /\ IsInjective(Without(list, t))
           /\ ToSet(Without(list, t)) = ToSet(list) \ {t}
           /\ t \in ToSet(list) => Len(Without(list, t)) = Len(list) - 1
           /\ t \notin ToSet(list) => Without(list, t) = list
<1>1. CASE t \in ToSet(list)
  <2>1. Without(list, t) = RemoveAt(list, PlaceIn(list, t))
    BY <1>1 DEF Without
  <2>2. PlaceIn(list, t) \in 1..Len(list) /\ list[PlaceIn(list, t)] = t
    BY <1>1, PlaceInFacts
  <2> QED
    BY <1>1, <2>1, <2>2, EntriesOfRemoveAt
<1>2. CASE t \notin ToSet(list)
  BY <1>2 DEF Without
<1> QED
  BY <1>1, <1>2

LEMMA BehindFacts ==
    ASSUME NEW list \in Seq(Tasks), IsInjective(list), NEW t \in ToSet(list)
    PROVE  Behind(list, t) \in (ToSet(list) \ {t}) \cup {NULL}
<1> DEFINE i == PlaceIn(list, t)
<1>1. i \in 1..Len(list) /\ list[i] = t /\ Len(list) \in Nat
  BY PlaceInFacts
<1>2. Behind(list, t) = IF i = Len(list) THEN NULL ELSE list[i + 1]
  BY DEF Behind
<1>3. CASE i = Len(list)
  BY <1>2, <1>3
<1>4. CASE i # Len(list)
  <2>1. i + 1 \in 1..Len(list) /\ i + 1 # i
    BY <1>1, <1>4
  <2>2. list[i + 1] # t
    BY <1>1, <2>1 DEF IsInjective
  <2>3. list[i + 1] \in ToSet(list)
    BY <2>1, EntriesFacts
  <2> QED
    BY <1>2, <1>4, <2>2, <2>3
<1> QED
  BY <1>3, <1>4

LEMMA FirstFacts ==
    ASSUME NEW list \in Seq(Tasks)
    PROVE  First(list) \in ToSet(list) \cup {NULL}
<1>1. CASE list = <<>>
  BY <1>1 DEF First
<1>2. CASE list # <<>>
  <2>1. Len(list) \in Nat /\ 1 \in 1..Len(list)
    BY <1>2
  <2>2. Head(list) = list[1]
    BY <1>2, HeadTailFacts
  <2>3. First(list) = list[1]
    BY <1>2, <2>2 DEF First
  <2> QED
    BY <2>1, <2>3, EntriesFacts
<1> QED
  BY <1>1, <1>2

(* As many tasks run as the list of active tasks is long.                  *)
LEMMA EntriesCounted ==
    ASSUME NEW list \in Seq(Tasks), IsInjective(list)
    PROVE  IsFiniteSet(ToSet(list)) /\ Cardinality(ToSet(list)) = Len(list)
<1>1. Len(list) \in Nat /\ DOMAIN list = 1..Len(list)
  OBVIOUS
<1>2. IsFiniteSet(1..Len(list)) /\ Cardinality(1..Len(list)) = Len(list)
  <2>1. 1 \in Int /\ Len(list) \in Int
    BY <1>1
  <2>2. /\ IsFiniteSet(1..Len(list))
        /\ Cardinality(1..Len(list)) =
              IF 1 > Len(list) THEN 0 ELSE Len(list) - 1 + 1
    BY <2>1, FS_Interval
  <2> QED
    BY <1>1, <2>2
<1>3. \A i \in 1..Len(list) : list[i] \in ToSet(list)
  BY EntriesFacts
<1>4. list \in [1..Len(list) -> ToSet(list)]
  BY <1>1, <1>3
<1>5. \A x \in ToSet(list) : \E i \in 1..Len(list) : list[i] = x
  BY EntriesFacts
<1>6. \A i, j \in 1..Len(list) : list[i] = list[j] => i = j
  BY <1>1 DEF IsInjective
<1>7. list \in Bijection(1..Len(list), ToSet(list))
  BY <1>4, <1>5, <1>6, Fun_IsBij
<1>8. ExistsBijection(1..Len(list), ToSet(list))
  BY <1>7 DEF ExistsBijection
<1> QED
  BY <1>2, <1>8, FS_Bijection
-----------------------------------------------------------------------------
(***************************************************************************)
(* The active calls.                                                       *)
(***************************************************************************)
LEMMA CallFacts ==
    ASSUME NEW fn \in CallNames, NEW t \in Tasks \cup {NULL}
    PROVE  /\ Call(fn, t) \in Frame
           /\ Call(fn, t).fn = fn /\ Call(fn, t).task = t
  BY DEF Call, Frame

(* A function of the library calls back.                                   *)
LEMMA CallsPushed ==
    ASSUME NEW s \in Seq(Frame), NEW c \in Frame
    PROVE  /\ s \o <<c>> \in Seq(Frame) /\ Append(s, c) \in Seq(Frame)
           /\ ToSet(s \o <<c>>) = ToSet(s) \cup {c}
           /\ ToSet(Append(s, c)) = ToSet(s) \cup {c}
<1> DEFINE u == <<c>>
<1>1. u \in Seq(Frame) /\ ToSet(u) = {c}
  BY EntriesOfOne
<1> HIDE DEF u
<1>2. s \o u \in Seq(Frame) /\ ToSet(s \o u) = ToSet(s) \cup {c}
  BY <1>1, EntriesOfConcat
<1>3. Append(s, c) \in Seq(Frame) /\ ToSet(Append(s, c)) = ToSet(s) \cup {c}
  BY EntriesOfAppend
<1> QED
  BY <1>2, <1>3 DEF u

LEMMA TwoCallsPushed ==
    ASSUME NEW s \in Seq(Frame), NEW c \in Frame, NEW d \in Frame
    PROVE  /\ s \o <<c, d>> \in Seq(Frame)
           /\ ToSet(s \o <<c, d>>) = ToSet(s) \cup {c, d}
<1> DEFINE u == <<c, d>>
<1>1. u \in Seq(Frame) /\ Len(u) = 2 /\ u[1] = c /\ u[2] = d
  OBVIOUS
<1> HIDE DEF u
<1>2. \A i : i \in 1..2 <=> i = 1 \/ i = 2
  OBVIOUS
<1>3. \A x : x \in ToSet(u) <=> \E i \in 1..Len(u) : u[i] = x
  BY <1>1, EntriesFacts
<1>4. ToSet(u) = {c, d}
  BY <1>1, <1>2, <1>3
<1>5. s \o u \in Seq(Frame) /\ ToSet(s \o u) = ToSet(s) \cup ToSet(u)
  BY <1>1, EntriesOfConcat
<1> QED
  BY <1>4, <1>5 DEF u

(* The innermost call returns.                                             *)
LEMMA CallReturns ==
    ASSUME NEW s \in Seq(Frame), s # <<>>
    PROVE  /\ Front(s) \in Seq(Frame)
           /\ Last(s) \in Frame
           /\ ToSet(s) = ToSet(Front(s)) \cup {Last(s)}
  BY FrontLastFacts

(* What is carried along wakes the queue and calls the kill callbacks.     *)
LEMMA CarriesFacts ==
    ASSUME NEW s, NEW r, Carries(s, r)
    PROVE  /\ WillWake(s) => WillWake(r)
           /\ \A t : KillPends(s, t) => KillPends(r, t)
  BY DEF Carries, WillWake, KillPends, Waking

(* An iteration that waits for t waits for another queued task instead, or *)
(* for the end of its list.                                                *)
LEMMA AfterFacts ==
    ASSUME TypeOK, Lists, NEW t \in queued
    PROVE  After(t) \in (queued \ {t}) \cup {NULL}
<1>1. tasks_active \in Seq(Tasks) /\ tasks_inactive \in Seq(Tasks)
  BY DEF TypeOK
<1>2. CASE t \in ToSet(tasks_active)
  <2>1. After(t) = Behind(tasks_active, t)
    BY <1>2 DEF After
  <2>2. Behind(tasks_active, t) \in (ToSet(tasks_active) \ {t}) \cup {NULL}
    BY <1>1, <1>2, BehindFacts DEF Lists
  <2> QED
    BY <2>1, <2>2 DEF Lists
<1>3. CASE t \notin ToSet(tasks_active)
  <2>1. After(t) = Behind(tasks_inactive, t)
    BY <1>3 DEF After
  <2>2. t \in ToSet(tasks_inactive)
    BY <1>3 DEF Lists
  <2>3. Behind(tasks_inactive, t) \in (ToSet(tasks_inactive) \ {t}) \cup {NULL}
    BY <1>1, <2>2, BehindFacts DEF Lists
  <2> QED
    BY <2>1, <2>3 DEF Lists
<1> QED
  BY <1>2, <1>3

LEMMA MovePastFacts ==
    ASSUME TypeOK, Lists, NEW t \in queued,
           NEW calls \in Seq(Frame), CursorsIn(calls, queued)
    PROVE  /\ MovePast(calls, t) \in Seq(Frame)
           /\ Carries(calls, MovePast(calls, t))
           /\ CursorsIn(MovePast(calls, t), queued \ {t})
<1> DEFINE r == MovePast(calls, t)
           moved(c) == c.fn = "for_each" /\ c.task = t
           next(c) == [c EXCEPT !.task = After(t)]
<1>1. Len(calls) \in Nat /\ DOMAIN calls = 1..Len(calls)
  OBVIOUS
<1>2. After(t) \in (queued \ {t}) \cup {NULL} /\ queued \subseteq Tasks
  BY AfterFacts DEF TypeOK
<1>3. \A c \in Frame : /\ next(c) \in Frame /\ next(c).fn = c.fn
                       /\ next(c).task = After(t)
  BY <1>2 DEF Frame
<1>4. \A k \in 1..Len(calls) : calls[k] \in Frame
  BY ElementOfSeq
<1>5. r = [k \in 1..Len(calls) |->
              IF moved(calls[k]) THEN next(calls[k]) ELSE calls[k]]
  BY <1>1 DEF MovePast
<1> HIDE DEF r, next
<1>6. \A k \in 1..Len(calls) :
         r[k] = IF moved(calls[k]) THEN next(calls[k]) ELSE calls[k]
  BY <1>5
<1>7. r \in [1..Len(calls) -> Frame]
  BY <1>3, <1>4, <1>5
<1>8. r \in Seq(Frame) /\ Len(r) = Len(calls)
  BY <1>1, <1>7, FunctionIsSeq
<1>9. /\ \A c : c \in ToSet(calls) <=> \E k \in 1..Len(calls) : calls[k] = c
      /\ \A c : c \in ToSet(r) <=> \E k \in 1..Len(calls) : r[k] = c
  BY <1>8, EntriesFacts
<1>10. Carries(calls, r)
  BY <1>6, <1>9 DEF Carries
<1>11. CursorsIn(r, queued \ {t})
  <2> SUFFICES ASSUME NEW c \in ToSet(r), c.fn = "for_each"
               PROVE  c.task \in (queued \ {t}) \cup {NULL}
    BY DEF CursorsIn
  <2>1. PICK k \in 1..Len(calls) : r[k] = c
    BY <1>9
  <2>2. CASE moved(calls[k])
    BY <1>2, <1>3, <1>4, <1>6, <2>1, <2>2
  <2>3. CASE ~moved(calls[k])
    <3>1. calls[k] = c /\ c \in ToSet(calls) /\ c.task # t
      BY <1>6, <1>9, <2>1, <2>3
    <3> QED
      BY <3>1 DEF CursorsIn
  <2> QED
    BY <2>2, <2>3
<1> QED
  BY <1>8, <1>10, <1>11 DEF r
-----------------------------------------------------------------------------
(***************************************************************************)
(* runqueue_task_complete, called from anywhere: `calls` are the active    *)
(* calls, of which only iterations may have gone on since.                 *)
(***************************************************************************)
LEMMA CompleteLists ==
    ASSUME TypeOK, Lists, NEW t \in queued, NEW calls, Complete(t, calls)
    PROVE  /\ tasks_active' \in Seq(Tasks) /\ tasks_inactive' \in Seq(Tasks)
           /\ Lists'
<1>1. /\ tasks_active \in Seq(Tasks) /\ tasks_inactive \in Seq(Tasks)
      /\ IsInjective(tasks_active) /\ IsInjective(tasks_inactive)
  BY DEF TypeOK, Lists
<1>2. /\ tasks_active' = Without(tasks_active, t)
      /\ tasks_inactive' = Without(tasks_inactive, t)
      /\ running' = running \ {t} /\ queued' = queued \ {t}
      /\ running_tasks' = IF t \in running THEN running_tasks - 1
                                           ELSE running_tasks
  BY DEF Complete, CountAfter
<1>3. /\ tasks_active' \in Seq(Tasks) /\ IsInjective(tasks_active')
      /\ ToSet(tasks_active') = ToSet(tasks_active) \ {t}
      /\ t \in ToSet(tasks_active) => Len(tasks_active') = Len(tasks_active) - 1
      /\ t \notin ToSet(tasks_active) => tasks_active' = tasks_active
  BY <1>1, <1>2, WithoutFacts
<1>4. /\ tasks_inactive' \in Seq(Tasks) /\ IsInjective(tasks_inactive')
      /\ ToSet(tasks_inactive') = ToSet(tasks_inactive) \ {t}
  BY <1>1, <1>2, WithoutFacts
<1>5. running_tasks' = Len(tasks_active')
  BY <1>2, <1>3 DEF Lists
<1>6. /\ running' = ToSet(tasks_active')
      /\ queued' = running' \cup ToSet(tasks_inactive')
      /\ running' \cap ToSet(tasks_inactive') = {}
  BY <1>2, <1>3, <1>4 DEF Lists
<1> QED
  BY <1>3, <1>4, <1>5, <1>6 DEF Lists

(* The queue has no more tasks running than it had.                        *)
LEMMA LimitStep ==
    ASSUME TypeOK, Lists, LimitKept,
           running' \ adopted' \subseteq running \ adopted
    PROVE  LimitKept'
<1> DEFINE before == running \ adopted
           after == running' \ adopted'
<1>1. IsFiniteSet(running)
  BY EntriesCounted DEF TypeOK, Lists
<1>2. IsFiniteSet(before)
  BY <1>1, FS_Subset
<1>3. after \in SUBSET before
  OBVIOUS
<1> HIDE DEF before, after
<1>4. IsFiniteSet(after) /\ Cardinality(after) <= Cardinality(before)
  BY <1>2, <1>3, FS_Subset
<1>5. Cardinality(after) \in Nat /\ Cardinality(before) \in Nat
  BY <1>2, <1>4, FS_CardinalityType
<1>6. max_running_tasks # 0 => Cardinality(before) <= max_running_tasks
  BY DEF LimitKept, before
<1>7. max_running_tasks # 0 => Cardinality(after) <= max_running_tasks
  BY <1>4, <1>5, <1>6, RunqueueAssumption
<1> QED
  BY <1>7 DEF LimitKept, after

LEMMA CompleteStep ==
    ASSUME Inv, NEW t \in queued, NEW calls \in Seq(Frame),
           Carries(stack, calls), CursorsIn(calls, queued),
           proc_pending' \subseteq proc_pending,
           t \in running /\ t \in proc_pending' => KillPends(calls, t),
           Complete(t, calls)
    PROVE  Inv'
<1> DEFINE moved == MovePast(calls, t)
           now == Call("completing", t)
           next == Call("complete", t)
<1>1. /\ queued' = queued \ {t} /\ running' = running \ {t}
      /\ cancelled' = cancelled \ {t} /\ adopted' = adopted \ {t}
      /\ task_timeout' = task_timeout \ {t}
      /\ stack' = moved \o <<now, next>>
      /\ UNCHANGED <<timeout, wakeup, stopped, empty>>
  BY DEF Complete, ArmedAfter, timer
<1>2. TypeOK /\ Lists /\ Timers /\ KillsPend /\ Wakeups
  BY DEF Inv
<1>3. t \in Tasks
  BY <1>2 DEF TypeOK
<1>4. /\ now \in Frame /\ now.fn = "completing"
      /\ next \in Frame /\ next.fn = "complete"
  <2>1. "completing" \in CallNames /\ "complete" \in CallNames
    BY DEF CallNames
  <2>2. now \in Frame /\ now.fn = "completing"
    BY <1>3, <2>1, CallFacts
  <2>3. next \in Frame /\ next.fn = "complete"
    BY <1>3, <2>1, CallFacts
  <2> QED
    BY <2>2, <2>3
<1>5. /\ moved \in Seq(Frame) /\ Carries(calls, moved)
      /\ CursorsIn(moved, queued \ {t})
  BY <1>2, MovePastFacts
<1> HIDE DEF moved, now, next
<1>6. stack' \in Seq(Frame) /\ ToSet(stack') = ToSet(moved) \cup {now, next}
  BY <1>1, <1>4, <1>5, TwoCallsPushed
<1>7. Carries(calls, stack') /\ Carries(stack, stack')
  BY <1>5, <1>6 DEF Carries
<1>8. CursorsIn(stack', queued')
  BY <1>1, <1>4, <1>5, <1>6 DEF CursorsIn
<1>9. WillWake(stack')
  BY <1>4, <1>6 DEF WillWake, Waking
<1>10. tasks_active' \in Seq(Tasks) /\ tasks_inactive' \in Seq(Tasks) /\ Lists'
  BY <1>2, CompleteLists
<1>11. TypeOK'
  BY <1>1, <1>2, <1>6, <1>10 DEF TypeOK
<1>12. Wakeups'
  BY <1>1, <1>2, <1>9 DEF Wakeups
<1>13. Timers'
  BY <1>1, <1>2 DEF Timers
<1>14. KillsPend'
  <2> SUFFICES ASSUME NEW p \in proc_pending', p \notin running'
               PROVE  KillPends(stack', p)
    BY DEF KillsPend
  <2>1. CASE p \in running
    <3>1. p = t
      BY <1>1, <2>1
    <3>2. KillPends(calls, p)
      BY <2>1, <3>1
    <3> QED
      BY <1>7, <3>2, CarriesFacts
  <2>2. CASE p \notin running
    <3>1. KillPends(stack, p)
      BY <1>2, <2>2 DEF KillsPend
    <3> QED
      BY <1>7, <3>1, CarriesFacts
  <2> QED
    BY <2>1, <2>2
<1>15. LimitKept'
  <2>1. running' \ adopted' \subseteq running \ adopted
    BY <1>1
  <2> QED
    BY <1>2, <2>1, LimitStep DEF Inv
<1> QED
  BY <1>8, <1>10, <1>11, <1>12, <1>13, <1>14, <1>15 DEF Inv
-----------------------------------------------------------------------------
(***************************************************************************)
(* The other steps.                                                        *)
(***************************************************************************)
LEMMA CancelStep ==
    ASSUME Inv, NEW t \in queued, NEW calls \in Seq(Frame),
           Carries(stack, calls), CursorsIn(calls, queued),
           NEW armed, armed \subseteq task_timeout,
           task_timeout \ {t} \subseteq armed,
           UNCHANGED proc_pending,
           Cancel(t, calls, armed)
    PROVE  Inv'
<1>1. TypeOK /\ Lists /\ Timers /\ KillsPend /\ Wakeups /\ LimitKept
  BY DEF Inv
<1>2. CASE t \notin running
  <2>1. Complete(t, calls)
    BY <1>2 DEF Cancel
  <2> QED
    BY <1>2, <2>1, CompleteStep
<1>3. CASE t \in running
  <2> DEFINE c == Call("cancel", t)
  <2>1. /\ cancelled' = cancelled \cup {t}
        /\ task_timeout' = armed \cup ({t} \cap HasCancelTimeout)
        /\ stack' = calls \o <<c>>
        /\ UNCHANGED <<tasks_active, tasks_inactive, queued, running, adopted,
                       timeout, wakeup, running_tasks, stopped, empty>>
    BY <1>3 DEF Cancel, lists, timer
  <2>2. "cancel" \in CallNames /\ t \in Tasks
    BY <1>1 DEF CallNames, TypeOK
  <2>3. c \in Frame /\ c.fn = "cancel"
    BY <2>2, CallFacts
  <2> HIDE DEF c
  <2>4. stack' \in Seq(Frame) /\ ToSet(stack') = ToSet(calls) \cup {c}
    BY <2>1, <2>3, CallsPushed
  <2>5. Carries(stack, stack')
    BY <2>4 DEF Carries
  <2>6. CursorsIn(stack', queued')
    BY <2>1, <2>3, <2>4 DEF CursorsIn
  <2>7. TypeOK' /\ Lists'
    BY <1>1, <2>1, <2>4 DEF TypeOK, Lists
  <2>8. WillWake(stack) => WillWake(stack')
    BY <2>5, CarriesFacts
  <2>9. Wakeups'
    BY <1>1, <2>1, <2>8 DEF Wakeups, MayStart
  <2>10. Timers'
    BY <1>1, <1>3, <2>1 DEF Timers
  <2>11. \A p : KillPends(stack, p) => KillPends(stack', p)
    BY <2>5, CarriesFacts
  <2>12. KillsPend'
    BY <1>1, <2>1, <2>11 DEF KillsPend
  <2>13. LimitKept'
    BY <1>1, <2>1 DEF LimitKept
  <2> QED
    BY <2>6, <2>7, <2>9, <2>10, <2>12, <2>13 DEF Inv
<1> QED
  BY <1>2, <1>3

(* A step that touches no task.                                            *)
LEMMA QueueStep ==
    ASSUME Inv,
           UNCHANGED <<lists, taskVars, running_tasks>>,
           timeout' \in {"off", "next", "empty"},
           wakeup' \in {"never", "called", "dropped"},
           stopped' \in BOOLEAN, empty' \in BOOLEAN,
           stack' \in Seq(Frame), CursorsIn(stack', queued),
           Wakeups',
           proc_pending' \subseteq proc_pending,
           \A p \in proc_pending' :
               KillPends(stack, p) => KillPends(stack', p)
    PROVE  Inv'
<1>1. TypeOK /\ Lists /\ Timers /\ KillsPend /\ LimitKept
  BY DEF Inv
<1>2. /\ UNCHANGED <<tasks_active, tasks_inactive, queued, running, cancelled,
                     task_timeout, adopted, running_tasks>>
  BY DEF lists, taskVars
<1>3. TypeOK'
  BY <1>1, <1>2 DEF TypeOK
<1>4. Lists'
  BY <1>1, <1>2 DEF Lists
<1>5. Timers'
  BY <1>1, <1>2 DEF Timers
<1>6. KillsPend'
  BY <1>1, <1>2 DEF KillsPend
<1>7. LimitKept'
  BY <1>1, <1>2 DEF LimitKept
<1>8. CursorsIn(stack', queued')
  BY <1>2
<1> QED
  BY <1>3, <1>4, <1>5, <1>6, <1>7, <1>8 DEF Inv

(* A step that only calls or returns.                                      *)
LEMMA CallStep ==
    ASSUME Inv,
           UNCHANGED <<lists, taskVars, proc_pending, timer, running_tasks,
                       stopped, empty>>,
           stack' \in Seq(Frame), CursorsIn(stack', queued),
           WillWake(stack) => WillWake(stack'),
           \A p : KillPends(stack, p) => KillPends(stack', p)
    PROVE  Inv'
<1>1. TypeOK /\ Wakeups
  BY DEF Inv
<1>2. /\ UNCHANGED <<tasks_active, tasks_inactive, queued, timeout, wakeup,
                     running_tasks, stopped, empty, proc_pending>>
  BY DEF lists, taskVars, timer
<1>3. Wakeups'
  BY <1>1, <1>2 DEF Wakeups, MayStart
<1>4. /\ timeout' \in {"off", "next", "empty"}
      /\ wakeup' \in {"never", "called", "dropped"}
      /\ stopped' \in BOOLEAN /\ empty' \in BOOLEAN
  BY <1>1, <1>2 DEF TypeOK
<1>5. proc_pending' \subseteq proc_pending
  BY <1>2
<1> QED
  BY <1>3, <1>4, <1>5, QueueStep

(* runqueue_start_next arms the timer, or there is nothing to wake for.    *)
LEMMA StartNextWakes ==
    ASSUME TypeOK, Lists, Wakeups,
           UNCHANGED <<lists, queued, empty>>,
           runqueue_start_next(empty)
    PROVE  /\ Wakeups'
           /\ timeout' \in {"off", "next", "empty"}
           /\ wakeup' \in {"never", "called", "dropped"}
<1>1. UNCHANGED <<tasks_active, tasks_inactive, queued, empty>>
  BY DEF lists
<1>2. CASE empty
  <2>1. UNCHANGED <<timeout, wakeup>>
    BY <1>2 DEF runqueue_start_next, timer
  <2>2. queued = {}
    BY <1>2 DEF Wakeups
  <2>3. tasks_inactive = <<>>
    BY <2>2, EntriesFacts DEF Lists, TypeOK
  <2>4. ~MayStart'
    BY <1>1, <2>3 DEF MayStart
  <2> QED
    BY <1>1, <1>2, <2>1, <2>4 DEF Wakeups, TypeOK
<1>3. CASE ~empty
  <2>1. timeout' = "next" /\ wakeup' = Woken
    BY <1>3 DEF runqueue_start_next
  <2>2. wakeup' \in {"never", "called"} /\ (wakeup' = "never" => queued' = {})
    BY <2>1 DEF Woken
  <2> QED
    BY <1>1, <1>3, <2>1, <2>2 DEF Wakeups
<1> QED
  BY <1>2, <1>3 DEF TypeOK
-----------------------------------------------------------------------------
(* What is left when the innermost call has returned.                      *)
LEMMA ReturnFacts ==
    ASSUME Inv, stack # <<>>
    PROVE  /\ Front(stack) \in Seq(Frame) /\ Last(stack) \in Frame
           /\ Last(stack) \in ToSet(stack)
           /\ CursorsIn(Front(stack), queued)
           /\ WillWake(stack) =>
                 WillWake(Front(stack)) \/ Last(stack).fn \in Waking
           /\ \A p : KillPends(stack, p) =>
                 \/ KillPends(Front(stack), p)
                 \/ /\ Last(stack).fn = "killing"
                    /\ Last(stack).task = p
                    /\ Last(stack).wasRunning
<1>1. stack \in Seq(Frame) /\ CursorsIn(stack, queued)
  BY DEF Inv, TypeOK
<1>2. /\ Front(stack) \in Seq(Frame) /\ Last(stack) \in Frame
      /\ ToSet(stack) = ToSet(Front(stack)) \cup {Last(stack)}
  BY <1>1, CallReturns
<1>3. CursorsIn(Front(stack), queued)
  BY <1>1, <1>2 DEF CursorsIn
<1>4. WillWake(stack) =>
         WillWake(Front(stack)) \/ Last(stack).fn \in Waking
  BY <1>2 DEF WillWake
<1>5. \A p : KillPends(stack, p) =>
         \/ KillPends(Front(stack), p)
         \/ /\ Last(stack).fn = "killing"
            /\ Last(stack).task = p
            /\ Last(stack).wasRunning
  BY <1>2 DEF KillPends
<1> QED
  BY <1>2, <1>3, <1>4, <1>5

(* One more call.                                                          *)
LEMMA PushFacts ==
    ASSUME NEW s \in Seq(Frame), NEW Q, CursorsIn(s, Q), NEW c \in Frame,
           c.fn = "for_each" => c.task \in Q \cup {NULL}
    PROVE  /\ s \o <<c>> \in Seq(Frame) /\ Append(s, c) \in Seq(Frame)
           /\ CursorsIn(s \o <<c>>, Q) /\ CursorsIn(Append(s, c), Q)
           /\ WillWake(s) => WillWake(s \o <<c>>) /\ WillWake(Append(s, c))
           /\ c.fn \in Waking =>
                 WillWake(s \o <<c>>) /\ WillWake(Append(s, c))
           /\ \A p : KillPends(s, p) => /\ KillPends(s \o <<c>>, p)
                                        /\ KillPends(Append(s, c), p)
<1>1. /\ s \o <<c>> \in Seq(Frame) /\ Append(s, c) \in Seq(Frame)
      /\ ToSet(s \o <<c>>) = ToSet(s) \cup {c}
      /\ ToSet(Append(s, c)) = ToSet(s) \cup {c}
  BY CallsPushed
<1> DEFINE u == s \o <<c>>
           v == Append(s, c)
<1>2. ToSet(u) = ToSet(s) \cup {c} /\ ToSet(v) = ToSet(s) \cup {c}
  BY <1>1
<1> HIDE DEF u, v
<1>3. CursorsIn(u, Q) /\ CursorsIn(v, Q)
  BY <1>2 DEF CursorsIn
<1>4. WillWake(s) \/ c.fn \in Waking => WillWake(u) /\ WillWake(v)
  BY <1>2 DEF WillWake
<1>5. \A p : KillPends(s, p) => KillPends(u, p) /\ KillPends(v, p)
  BY <1>2 DEF KillPends
<1> QED
  BY <1>1, <1>3, <1>4, <1>5 DEF u, v

LEMMA ReturnStep ==
    ASSUME Inv, Return
    PROVE  Inv'
<1>1. /\ stack # <<>> /\ Last(stack).fn \in Callbacks
      /\ stack' = Front(stack)
      /\ UNCHANGED <<lists, taskVars, proc_pending, timer, running_tasks,
                     stopped, empty>>
  BY DEF Return
<1>2. Last(stack).fn \notin Waking /\ Last(stack).fn # "killing"
  BY <1>1 DEF Callbacks, Waking
<1> QED
  BY <1>1, <1>2, ReturnFacts, CallStep

LEMMA ForEachDoneStep ==
    ASSUME Inv, ForEachDone
    PROVE  Inv'
<1>1. /\ stack # <<>> /\ Last(stack).fn = "for_each"
      /\ stack' = Front(stack)
      /\ UNCHANGED <<lists, taskVars, proc_pending, timer, running_tasks,
                     stopped, empty>>
  BY DEF ForEachDone, Innermost
<1>2. Last(stack).fn \notin Waking /\ Last(stack).fn # "killing"
  BY <1>1 DEF Waking
<1> QED
  BY <1>1, <1>2, ReturnFacts, CallStep

(* An iteration starts at an entry of its list, or at its end.             *)
LEMMA IterationFacts ==
    ASSUME Inv, NEW list \in {tasks_active, tasks_inactive}
    PROVE  /\ Call("for_each", First(list)) \in Frame
           /\ Call("for_each", First(list)).fn = "for_each"
           /\ Call("for_each", First(list)).task \in queued \cup {NULL}
<1>1. list \in Seq(Tasks) /\ ToSet(list) \subseteq queued
  BY DEF Inv, TypeOK, Lists
<1>2. First(list) \in queued \cup {NULL} /\ queued \subseteq Tasks
  BY <1>1, FirstFacts DEF Inv, TypeOK
<1>3. "for_each" \in CallNames
  BY DEF CallNames
<1> QED
  BY <1>2, <1>3, CallFacts

LEMMA CancelActiveStep ==
    ASSUME Inv, CancelActive
    PROVE  Inv'
<1> DEFINE c == Call("for_each", First(tasks_active))
<1>1. /\ stack # <<>> /\ Last(stack).fn = "cancel_active"
      /\ stack' = Append(Front(stack), c)
      /\ UNCHANGED <<lists, taskVars, proc_pending, timer, running_tasks,
                     stopped, empty>>
  BY DEF CancelActive, Innermost
<1>2. Last(stack).fn \notin Waking /\ Last(stack).fn # "killing"
  BY <1>1 DEF Waking
<1>3. /\ c \in Frame /\ c.fn = "for_each" /\ c.task \in queued \cup {NULL}
  BY IterationFacts
<1> HIDE DEF c
<1>4. /\ Front(stack) \in Seq(Frame) /\ CursorsIn(Front(stack), queued)
      /\ WillWake(stack) => WillWake(Front(stack))
      /\ \A p : KillPends(stack, p) => KillPends(Front(stack), p)
  BY <1>1, <1>2, ReturnFacts
<1>5. /\ stack' \in Seq(Frame) /\ CursorsIn(stack', queued)
      /\ WillWake(Front(stack)) => WillWake(stack')
      /\ \A p : KillPends(Front(stack), p) => KillPends(stack', p)
  BY <1>1, <1>3, <1>4, PushFacts
<1> QED
  BY <1>1, <1>4, <1>5, CallStep

LEMMA PushTwoFacts ==
    ASSUME NEW s \in Seq(Frame), NEW Q, CursorsIn(s, Q),
           NEW c \in Frame, c.fn = "for_each" => c.task \in Q \cup {NULL},
           NEW d \in Frame, d.fn = "for_each" => d.task \in Q \cup {NULL}
    PROVE  /\ s \o <<c, d>> \in Seq(Frame)
           /\ CursorsIn(s \o <<c, d>>, Q)
           /\ WillWake(s) => WillWake(s \o <<c, d>>)
           /\ \A p : KillPends(s, p) => KillPends(s \o <<c, d>>, p)
<1> DEFINE u == s \o <<c, d>>
<1>1. u \in Seq(Frame) /\ ToSet(u) = ToSet(s) \cup {c, d}
  BY TwoCallsPushed
<1> HIDE DEF u
<1>2. CursorsIn(u, Q)
  BY <1>1 DEF CursorsIn
<1>3. WillWake(s) => WillWake(u)
  BY <1>1 DEF WillWake
<1>4. \A p : KillPends(s, p) => KillPends(u, p)
  BY <1>1 DEF KillPends
<1> QED
  BY <1>1, <1>2, <1>3, <1>4 DEF u

LEMMA CancelOrKillAllStep ==
    ASSUME Inv, CancelOrKillAll
    PROVE  Inv'
<1> DEFINE each == Call("for_each", First(tasks_inactive))
           active == Call("cancel_active", NULL)
           kill == Call("kill_all", NULL)
<1>1. /\ \/ stack' = stack \o <<each>>
         \/ stack' = stack \o <<active>>
         \/ stack' = stack \o <<active, each>>
         \/ stack' = stack \o <<kill>>
      /\ UNCHANGED <<lists, taskVars, proc_pending, timer, running_tasks,
                     stopped, empty>>
  BY DEF CancelOrKillAll
<1>2. stack \in Seq(Frame) /\ CursorsIn(stack, queued)
  BY DEF Inv, TypeOK
<1>3. each \in Frame /\ each.fn = "for_each" /\ each.task \in queued \cup {NULL}
  BY IterationFacts
<1>4. "cancel_active" \in CallNames /\ "kill_all" \in CallNames
  BY DEF CallNames
<1>5. active \in Frame /\ active.fn = "cancel_active"
  BY <1>4, CallFacts
<1>6. kill \in Frame /\ kill.fn = "kill_all"
  BY <1>4, CallFacts
<1> HIDE DEF each, active, kill
<1>7. /\ stack' \in Seq(Frame) /\ CursorsIn(stack', queued)
      /\ WillWake(stack) => WillWake(stack')
      /\ \A p : KillPends(stack, p) => KillPends(stack', p)
  <2>1. CASE stack' = stack \o <<each>>
    BY <1>2, <1>3, <2>1, PushFacts
  <2>2. CASE stack' = stack \o <<active>>
    BY <1>2, <1>5, <2>2, PushFacts
  <2>3. CASE stack' = stack \o <<active, each>>
    BY <1>2, <1>3, <1>5, <2>3, PushTwoFacts
  <2>4. CASE stack' = stack \o <<kill>>
    BY <1>2, <1>6, <2>4, PushFacts
  <2> QED
    BY <1>1, <2>1, <2>2, <2>3, <2>4
<1> QED
  BY <1>1, <1>7, CallStep

LEMMA KillPendingStep ==
    ASSUME Inv, KillPending
    PROVE  Inv'
<1> DEFINE done == Call("kill_done", NULL)
           each == Call("for_each", First(tasks_inactive))
<1>1. /\ stack # <<>> /\ Last(stack).fn = "kill_all"
      /\ stack' = Front(stack) \o <<done, each>>
      /\ UNCHANGED <<lists, taskVars, proc_pending, timer, running_tasks,
                     stopped, empty>>
  BY DEF KillPending, Innermost
<1>2. Last(stack).fn \notin Waking /\ Last(stack).fn # "killing"
  BY <1>1 DEF Waking
<1>3. each \in Frame /\ each.fn = "for_each" /\ each.task \in queued \cup {NULL}
  BY IterationFacts
<1>4. "kill_done" \in CallNames
  BY DEF CallNames
<1>5. done \in Frame /\ done.fn = "kill_done"
  BY <1>4, CallFacts
<1> HIDE DEF done, each
<1>6. /\ Front(stack) \in Seq(Frame) /\ CursorsIn(Front(stack), queued)
      /\ WillWake(stack) => WillWake(Front(stack))
      /\ \A p : KillPends(stack, p) => KillPends(Front(stack), p)
  BY <1>1, <1>2, ReturnFacts
<1>7. /\ stack' \in Seq(Frame) /\ CursorsIn(stack', queued)
      /\ WillWake(Front(stack)) => WillWake(stack')
      /\ \A p : KillPends(Front(stack), p) => KillPends(stack', p)
  BY <1>1, <1>3, <1>5, <1>6, PushTwoFacts
<1> QED
  BY <1>1, <1>6, <1>7, CallStep

(* runqueue_kill cancels the timer: only with a wakeup pending is one lost. *)
LEMMA KillDoneStep ==
    ASSUME Inv, KillDone
    PROVE  Inv'
<1>1. /\ stack # <<>> /\ Last(stack).fn = "kill_done"
      /\ stack' = Front(stack)
      /\ timeout' = "off"
      /\ wakeup' = IF timeout = "next" /\ wakeup = "called" THEN "dropped"
                                                           ELSE wakeup
      /\ UNCHANGED <<lists, taskVars, proc_pending, running_tasks, stopped,
                     empty>>
  BY DEF KillDone, Innermost
<1>2. UNCHANGED <<tasks_inactive, queued>>
  BY <1>1 DEF lists, taskVars
<1>3. Last(stack).fn \notin Waking /\ Last(stack).fn # "killing"
  BY <1>1 DEF Waking
<1>4. /\ stack' \in Seq(Frame) /\ CursorsIn(stack', queued)
      /\ WillWake(stack) => WillWake(stack')
      /\ \A p : KillPends(stack, p) => KillPends(stack', p)
  BY <1>1, <1>3, ReturnFacts
<1>5. TypeOK /\ Lists /\ Wakeups
  BY DEF Inv
<1>6. MayStart' <=> MayStart
  BY <1>1, <1>2 DEF MayStart
<1>7. MayStart => queued # {}
  BY <1>5, EntriesFacts DEF MayStart, Lists, TypeOK
<1>8. MayStart' /\ wakeup' # "dropped" => WillWake(stack')
  BY <1>1, <1>4, <1>5, <1>6, <1>7 DEF Wakeups, TypeOK
<1>9. queued' = {} /\ wakeup' = "called" => empty' \/ WillWake(stack')
  BY <1>1, <1>2, <1>4, <1>5 DEF Wakeups
<1>10. empty' \/ timeout' = "empty" => queued' = {} /\ empty'
  BY <1>1, <1>2, <1>5 DEF Wakeups
<1>11. wakeup' = "never" => queued' = {}
  BY <1>1, <1>2, <1>5 DEF Wakeups
<1>12. Wakeups'
  BY <1>8, <1>9, <1>10, <1>11 DEF Wakeups
<1>13. /\ timeout' \in {"off", "next", "empty"}
       /\ wakeup' \in {"never", "called", "dropped"}
       /\ stopped' \in BOOLEAN /\ empty' \in BOOLEAN
  BY <1>1, <1>5 DEF TypeOK
<1> QED
  BY <1>1, <1>4, <1>12, <1>13, QueueStep
-----------------------------------------------------------------------------
(* A function that has nothing left to do but runqueue_start_next.         *)
LEMMA LastStatementStep ==
    ASSUME Inv, stack # <<>>,
           Last(stack).fn = "killing" => ~Last(stack).wasRunning,
           stack' = Front(stack),
           UNCHANGED <<lists, taskVars, proc_pending, running_tasks, stopped,
                       empty>>,
           runqueue_start_next(empty)
    PROVE  Inv'
<1>1. /\ stack' \in Seq(Frame) /\ CursorsIn(stack', queued)
      /\ \A p : KillPends(stack, p) => KillPends(stack', p)
  BY ReturnFacts
<1>2. TypeOK /\ Lists /\ Wakeups
  BY DEF Inv
<1>3. UNCHANGED <<lists, queued, empty>>
  BY DEF taskVars
<1>4. /\ Wakeups'
      /\ timeout' \in {"off", "next", "empty"}
      /\ wakeup' \in {"never", "called", "dropped"}
  BY <1>2, <1>3, StartNextWakes
<1>5. stopped' \in BOOLEAN /\ empty' \in BOOLEAN
  BY <1>2 DEF TypeOK
<1> QED
  BY <1>1, <1>4, <1>5, QueueStep

LEMMA TaskCompletedStep ==
    ASSUME Inv, TaskCompleted
    PROVE  Inv'
<1>1. /\ stack # <<>> /\ Last(stack).fn = "completing"
      /\ stack' = Front(stack)
      /\ UNCHANGED <<lists, taskVars, proc_pending, running_tasks, stopped,
                     empty>>
      /\ runqueue_start_next(empty)
  BY DEF TaskCompleted, Innermost
<1> QED
  BY <1>1, LastStatementStep

LEMMA TaskKilledStep ==
    ASSUME Inv, TaskKilled
    PROVE  Inv'
<1>1. /\ stack # <<>>
      /\ \/ Last(stack).fn = "killed"
         \/ Last(stack).fn = "killing" /\ ~Last(stack).wasRunning
      /\ stack' = Front(stack)
      /\ UNCHANGED <<lists, taskVars, proc_pending, running_tasks, stopped,
                     empty>>
      /\ runqueue_start_next(empty)
  BY DEF TaskKilled, Innermost
<1> QED
  BY <1>1, LastStatementStep

(* The kill callback leaves no process of its task watched.                *)
LEMMA KillCallbackStep ==
    ASSUME Inv, KillCallback
    PROVE  Inv'
<1> DEFINE t == Last(stack).task
           killed == Call("killed", t)
           kill == Call("kill", t)
           base == Append(Front(stack), killed)
<1>1. /\ stack # <<>> /\ Last(stack).fn = "killing"
      /\ proc_pending' = proc_pending \ {t}
      /\ stack' = base \o (IF t \in Processes THEN <<>> ELSE <<kill>>)
      /\ UNCHANGED <<lists, taskVars, timer, running_tasks, stopped, empty>>
  BY DEF KillCallback, Innermost, Watched
<1>2. /\ Front(stack) \in Seq(Frame) /\ Last(stack) \in Frame
      /\ CursorsIn(Front(stack), queued)
      /\ \A p : KillPends(stack, p) => KillPends(Front(stack), p) \/ p = t
  BY <1>1, ReturnFacts
<1>3. t \in Tasks \cup {NULL}
  BY <1>2 DEF Frame
<1>4. "killed" \in CallNames /\ "kill" \in CallNames
  BY DEF CallNames
<1>5. killed \in Frame /\ killed.fn = "killed"
  BY <1>3, <1>4, CallFacts
<1>6. kill \in Frame /\ kill.fn = "kill"
  BY <1>3, <1>4, CallFacts
<1> HIDE DEF killed, kill, t
<1>7. killed.fn \in Waking
  BY <1>5 DEF Waking
<1>8. /\ base \in Seq(Frame) /\ CursorsIn(base, queued) /\ WillWake(base)
      /\ \A p : KillPends(Front(stack), p) => KillPends(base, p)
  BY <1>2, <1>5, <1>7, PushFacts
<1> HIDE DEF base
<1>9. /\ stack' \in Seq(Frame) /\ CursorsIn(stack', queued)
      /\ WillWake(stack')
      /\ \A p : KillPends(base, p) => KillPends(stack', p)
  <2>1. CASE t \in Processes
    <3>1. stack' = base
      BY <1>1, <1>8, <2>1, ConcatEmptySeq
    <3> QED
      BY <1>8, <3>1
  <2>2. CASE t \notin Processes
    <3>1. stack' = base \o <<kill>>
      BY <1>1, <2>2
    <3> QED
      BY <1>6, <1>8, <3>1, PushFacts
  <2> QED
    BY <2>1, <2>2
<1>10. proc_pending' \subseteq proc_pending /\ t \notin proc_pending'
  BY <1>1
<1>11. \A p \in proc_pending' : KillPends(stack, p) => KillPends(stack', p)
  BY <1>2, <1>8, <1>9, <1>10
<1>12. /\ TypeOK /\ Wakeups
       /\ UNCHANGED <<tasks_inactive, queued, timeout, wakeup, running_tasks,
                      stopped, empty>>
  BY <1>1 DEF Inv, lists, taskVars, timer
<1>13. Wakeups'
  BY <1>9, <1>12 DEF Wakeups
<1>14. /\ timeout' \in {"off", "next", "empty"}
       /\ wakeup' \in {"never", "called", "dropped"}
       /\ stopped' \in BOOLEAN /\ empty' \in BOOLEAN
  BY <1>12 DEF TypeOK
<1> QED
  BY <1>1, <1>9, <1>10, <1>11, <1>13, <1>14, QueueStep

(* The timer has expired: __runqueue_start_next is on its way.             *)
LEMMA TimerExpiresStep ==
    ASSUME Inv, TimerExpires
    PROVE  Inv'
<1> DEFINE c == Call("start_next", NULL)
           d == Call("empty", NULL)
<1>1. /\ stack = <<>> /\ timeout # "off" /\ timeout' = "off"
      /\ timeout = "next" => stack' = <<c>>
      /\ timeout # "next" => stack' = <<d>>
      /\ UNCHANGED <<lists, taskVars, proc_pending, running_tasks, stopped,
                     empty, wakeup>>
  BY DEF TimerExpires
<1>2. "start_next" \in CallNames /\ "empty" \in CallNames
  BY DEF CallNames
<1>3. c \in Frame /\ c.fn = "start_next"
  BY <1>2, CallFacts
<1>4. d \in Frame /\ d.fn = "empty"
  BY <1>2, CallFacts
<1> HIDE DEF c, d
<1>5. TypeOK /\ Lists /\ Wakeups
  BY DEF Inv
<1>6. ~WillWake(stack) /\ \A p : ~KillPends(stack, p)
  BY <1>1 DEF WillWake, KillPends, ToSet
<1>7. UNCHANGED <<tasks_inactive, queued>>
  BY <1>1 DEF lists, taskVars
<1>8. /\ timeout' \in {"off", "next", "empty"}
      /\ wakeup' \in {"never", "called", "dropped"}
      /\ stopped' \in BOOLEAN /\ empty' \in BOOLEAN
  BY <1>1, <1>5 DEF TypeOK
<1>9. CASE timeout = "next"
  <2>1. stack' \in Seq(Frame) /\ ToSet(stack') = {c}
    BY <1>1, <1>3, <1>9, EntriesOfOne
  <2>2. CursorsIn(stack', queued) /\ WillWake(stack')
    BY <1>3, <2>1 DEF CursorsIn, WillWake, Waking
  <2>3. Wakeups'
    BY <1>1, <1>5, <1>7, <2>2 DEF Wakeups
  <2> QED
    BY <1>1, <1>6, <1>8, <2>1, <2>2, <2>3, QueueStep
<1>10. CASE timeout # "next"
  <2>1. stack' \in Seq(Frame) /\ ToSet(stack') = {d}
    BY <1>1, <1>4, <1>10, EntriesOfOne
  <2>2. CursorsIn(stack', queued)
    BY <1>4, <2>1 DEF CursorsIn
  <2>3. queued = {} /\ empty
    BY <1>1, <1>5, <1>10 DEF Wakeups, TypeOK
  <2>4. tasks_inactive = <<>>
    BY <1>5, <2>3, EntriesFacts DEF Lists, TypeOK
  <2>5. ~MayStart'
    BY <1>7, <2>4 DEF MayStart
  <2>6. Wakeups'
    BY <1>1, <1>7, <2>3, <2>5 DEF Wakeups
  <2> QED
    BY <1>1, <1>6, <1>8, <2>1, <2>2, <2>6, QueueStep
<1> QED
  BY <1>9, <1>10
-----------------------------------------------------------------------------
LEMMA StartTasksDoneStep ==
    ASSUME Inv, StartTasksDone
    PROVE  Inv'
<1>1. /\ stack # <<>> /\ Last(stack).fn = "start_next"
      /\ ~MayStart
      /\ stack' = Front(stack)
      /\ UNCHANGED <<lists, taskVars, proc_pending, wakeup, running_tasks,
                     stopped>>
  BY DEF StartTasksDone, Innermost
<1>2. \/ /\ ~empty /\ tasks_active = <<>> /\ tasks_inactive = <<>>
         /\ empty' = TRUE /\ timeout' = "empty"
      \/ /\ empty \/ tasks_active # <<>> \/ tasks_inactive # <<>>
         /\ UNCHANGED <<empty, timeout>>
  BY DEF StartTasksDone
<1>3. TypeOK /\ Lists /\ Wakeups
  BY DEF Inv
<1>4. UNCHANGED <<tasks_active, tasks_inactive, queued>>
  BY <1>1 DEF lists, taskVars
<1>5. /\ stack' \in Seq(Frame) /\ CursorsIn(stack', queued)
      /\ \A p : KillPends(stack, p) => KillPends(stack', p)
  BY <1>1, ReturnFacts
<1>6. queued = {} <=> tasks_active = <<>> /\ tasks_inactive = <<>>
  <2>1. /\ tasks_active = <<>> <=> ToSet(tasks_active) = {}
        /\ tasks_inactive = <<>> <=> ToSet(tasks_inactive) = {}
    BY <1>3, EntriesFacts DEF TypeOK
  <2> QED
    BY <1>3, <2>1 DEF Lists
<1>7. ~MayStart'
  BY <1>1, <1>4 DEF MayStart
<1>8. Wakeups'
  BY <1>1, <1>2, <1>3, <1>4, <1>6, <1>7 DEF Wakeups
<1>9. /\ timeout' \in {"off", "next", "empty"}
      /\ wakeup' \in {"never", "called", "dropped"}
      /\ stopped' \in BOOLEAN /\ empty' \in BOOLEAN
  BY <1>1, <1>2, <1>3 DEF TypeOK
<1> QED
  BY <1>1, <1>5, <1>8, <1>9, QueueStep

LEMMA StopStep ==
    ASSUME Inv, runqueue_stop
    PROVE  Inv'
<1>1. /\ stopped' = TRUE
      /\ UNCHANGED <<lists, taskVars, proc_pending, timer, running_tasks,
                     empty, stack>>
  BY DEF runqueue_stop
<1>2. TypeOK /\ Wakeups /\ CursorsIn(stack, queued)
  BY DEF Inv
<1>3. UNCHANGED <<tasks_inactive, queued, timeout, wakeup>>
  BY <1>1 DEF lists, taskVars, timer
<1>4. ~MayStart'
  BY <1>1 DEF MayStart
<1>5. Wakeups'
  BY <1>1, <1>2, <1>3, <1>4 DEF Wakeups
<1>6. /\ timeout' \in {"off", "next", "empty"}
      /\ wakeup' \in {"never", "called", "dropped"}
      /\ stopped' \in BOOLEAN /\ empty' \in BOOLEAN
      /\ stack' \in Seq(Frame) /\ CursorsIn(stack', queued)
  BY <1>1, <1>2, <1>3 DEF TypeOK
<1> QED
  BY <1>1, <1>5, <1>6, QueueStep

LEMMA ResumeStep ==
    ASSUME Inv, runqueue_resume
    PROVE  Inv'
<1>1. /\ stopped' = FALSE
      /\ UNCHANGED <<lists, taskVars, proc_pending, running_tasks, empty,
                     stack>>
      /\ runqueue_start_next(empty)
  BY DEF runqueue_resume
<1>2. TypeOK /\ Lists /\ Wakeups /\ CursorsIn(stack, queued)
  BY DEF Inv
<1>3. UNCHANGED <<lists, queued, empty>>
  BY <1>1 DEF taskVars
<1>4. /\ Wakeups'
      /\ timeout' \in {"off", "next", "empty"}
      /\ wakeup' \in {"never", "called", "dropped"}
  BY <1>1, <1>2, <1>3, StartNextWakes
<1>5. /\ stopped' \in BOOLEAN /\ empty' \in BOOLEAN
      /\ stack' \in Seq(Frame) /\ CursorsIn(stack', queued)
  BY <1>1, <1>2 DEF TypeOK
<1> QED
  BY <1>1, <1>4, <1>5, QueueStep

(* The task at the head of the pending ones moves to the active ones.      *)
LEMMA StartTaskLists ==
    ASSUME TypeOK, Lists, StartTask
    PROVE  /\ Head(tasks_inactive) \in queued \ running
           /\ tasks_active' \in Seq(Tasks) /\ tasks_inactive' \in Seq(Tasks)
           /\ Lists'
<1> DEFINE t == Head(tasks_inactive)
<1>1. /\ tasks_inactive # <<>>
      /\ tasks_inactive' = Tail(tasks_inactive)
      /\ tasks_active' = Append(tasks_active, t)
      /\ running' = running \cup {t}
      /\ running_tasks' = running_tasks + 1
      /\ queued' = queued
  BY DEF StartTask, MayStart
<1>2. /\ tasks_active \in Seq(Tasks) /\ tasks_inactive \in Seq(Tasks)
      /\ IsInjective(tasks_active) /\ IsInjective(tasks_inactive)
  BY DEF TypeOK, Lists
<1>3. /\ tasks_inactive' \in Seq(Tasks) /\ t \in Tasks
      /\ ToSet(tasks_inactive) = ToSet(tasks_inactive') \cup {t}
      /\ t \notin ToSet(tasks_inactive') /\ IsInjective(tasks_inactive')
  BY <1>1, <1>2, HeadTailFacts
<1> HIDE DEF t
<1>4. t \in queued \ running /\ t \notin ToSet(tasks_active)
  BY <1>3 DEF Lists
<1>5. /\ tasks_active' \in Seq(Tasks)
      /\ Len(tasks_active') = Len(tasks_active) + 1
      /\ ToSet(tasks_active') = ToSet(tasks_active) \cup {t}
      /\ IsInjective(tasks_active')
  BY <1>1, <1>2, <1>3, <1>4, EntriesOfAppend
<1>6. /\ running' = ToSet(tasks_active')
      /\ queued' = running' \cup ToSet(tasks_inactive')
      /\ running' \cap ToSet(tasks_inactive') = {}
      /\ running_tasks' = Len(tasks_active')
  BY <1>1, <1>3, <1>4, <1>5 DEF Lists
<1> QED
  BY <1>3, <1>4, <1>5, <1>6 DEF Lists, t

LEMMA StartTaskLimit ==
    ASSUME Inv, StartTask
    PROVE  LimitKept'
<1> DEFINE t == Head(tasks_inactive)
           before == running \ adopted
<1>1. /\ max_running_tasks # 0 => running_tasks < max_running_tasks
      /\ running' = running \cup {t} /\ adopted' = adopted
  BY DEF StartTask, MayStart
<1>2. TypeOK /\ Lists
  BY DEF Inv
<1>3. t \notin running
  BY <1>2, StartTaskLists
<1>4. /\ IsFiniteSet(running) /\ Cardinality(running) = running_tasks
      /\ running_tasks \in Nat
  BY <1>2, EntriesCounted DEF TypeOK, Lists
<1>5. before \in SUBSET running
  OBVIOUS
<1>6. IsFiniteSet(before) /\ Cardinality(before) <= running_tasks
  BY <1>4, <1>5, FS_Subset
<1>7. IsFiniteSet(before \cup {t})
  BY <1>6, FS_AddElement
<1>8. running' \ adopted' \in SUBSET (before \cup {t})
  BY <1>1
<1> DEFINE after == running' \ adopted'
           limit == before \cup {t}
<1>9. after \in SUBSET limit /\ IsFiniteSet(limit)
  BY <1>7, <1>8
<1>10. Cardinality(before) \in Nat
  BY <1>6, FS_CardinalityType
<1>11. Cardinality(limit) =
          IF t \in before THEN Cardinality(before) ELSE Cardinality(before) + 1
  BY <1>6, FS_AddElement
<1> HIDE DEF before, after, limit, t
<1>12. IsFiniteSet(after) /\ Cardinality(after) <= Cardinality(limit)
  BY <1>9, FS_Subset
<1>13. Cardinality(after) \in Nat
  BY <1>12, FS_CardinalityType
<1>14. Cardinality(limit) \in Nat /\ Cardinality(limit) <= running_tasks + 1
  BY <1>4, <1>6, <1>10, <1>11
<1>15. max_running_tasks # 0 => Cardinality(after) <= max_running_tasks
  BY <1>1, <1>4, <1>12, <1>13, <1>14, RunqueueAssumption
<1> QED
  BY <1>15 DEF LimitKept, after

LEMMA StartTaskStep ==
    ASSUME Inv, StartTask
    PROVE  Inv'
<1> DEFINE t == Head(tasks_inactive)
           run == Call("run", t)
           moved == MovePast(stack, t)
<1>1. /\ stack # <<>> /\ Last(stack).fn = "start_next"
      /\ running' = running \cup {t}
      /\ task_timeout' = task_timeout \cup ({t} \cap HasRunTimeout)
      /\ stack' = moved \o <<run>>
      /\ UNCHANGED <<queued, cancelled, proc_pending, timeout, wakeup, stopped,
                     empty, adopted>>
  BY DEF StartTask, Innermost, timer
<1>2. /\ TypeOK /\ Lists /\ Wakeups /\ Timers /\ KillsPend
      /\ CursorsIn(stack, queued)
  BY DEF Inv
<1>3. /\ t \in queued \ running
      /\ tasks_active' \in Seq(Tasks) /\ tasks_inactive' \in Seq(Tasks)
      /\ Lists'
  BY <1>2, StartTaskLists
<1>4. "run" \in CallNames /\ t \in Tasks
  BY <1>2, <1>3 DEF CallNames, TypeOK
<1>5. run \in Frame /\ run.fn = "run"
  BY <1>4, CallFacts
<1>6. /\ moved \in Seq(Frame) /\ Carries(stack, moved)
      /\ CursorsIn(moved, queued \ {t})
  BY <1>2, <1>3, MovePastFacts DEF TypeOK
<1>7. Last(stack) \in ToSet(stack)
  BY <1>1, ReturnFacts
<1> HIDE DEF t, run, moved
<1>8. stack' \in Seq(Frame) /\ ToSet(stack') = ToSet(moved) \cup {run}
  BY <1>1, <1>5, <1>6, CallsPushed
<1>9. CursorsIn(stack', queued')
  BY <1>1, <1>5, <1>6, <1>8 DEF CursorsIn
<1>10. Carries(stack, stack')
  BY <1>6, <1>8 DEF Carries
<1>11. WillWake(stack)
  BY <1>1, <1>7 DEF WillWake, Waking
<1>12. WillWake(stack')
  BY <1>10, <1>11, CarriesFacts
<1>13. Wakeups'
  BY <1>1, <1>2, <1>12 DEF Wakeups
<1>14. TypeOK'
  BY <1>1, <1>2, <1>3, <1>8 DEF TypeOK
<1>15. Timers'
  BY <1>1, <1>2 DEF Timers
<1>16. \A p : KillPends(stack, p) => KillPends(stack', p)
  BY <1>10, CarriesFacts
<1>17. KillsPend'
  BY <1>1, <1>2, <1>16 DEF KillsPend
<1>18. LimitKept'
  BY StartTaskLimit
<1> QED
  BY <1>3, <1>9, <1>13, <1>14, <1>15, <1>17, <1>18 DEF Inv
-----------------------------------------------------------------------------
(***************************************************************************)
(* A task is added, at either end of either list.                          *)
(***************************************************************************)
LEMMA PrependedFacts ==
    ASSUME NEW list \in Seq(Tasks), IsInjective(list),
           NEW t \in Tasks, t \notin ToSet(list),
           NEW u \in Seq(Tasks), Len(u) = 1, ToSet(u) = {t}, IsInjective(u)
    PROVE  /\ u \o list \in Seq(Tasks)
           /\ Len(u \o list) = Len(list) + 1
           /\ ToSet(u \o list) = ToSet(list) \cup {t}
           /\ IsInjective(u \o list)
<1>1. ToSet(u) \cap ToSet(list) = {} /\ Len(list) \in Nat
  OBVIOUS
<1>2. u \o list \in Seq(Tasks) /\ Len(u \o list) = Len(list) + 1
  <2>1. u \o list \in Seq(Tasks)
    OBVIOUS
  <2>2. Len(u \o list) = Len(u) + Len(list)
    BY ConcatProperties
  <2> QED
    BY <1>1, <2>1, <2>2
<1>3. ToSet(u \o list) = ToSet(u) \cup ToSet(list)
  BY EntriesOfConcat
<1>4. IsInjective(u \o list)
  BY <1>1, EntriesOfConcat
<1> QED
  BY <1>2, <1>3, <1>4

LEMMA AddedFacts ==
    ASSUME NEW list \in Seq(Tasks), IsInjective(list),
           NEW t \in Tasks, t \notin ToSet(list), NEW first \in BOOLEAN,
           NEW r, r = IF first THEN <<t>> \o list ELSE Append(list, t)
    PROVE  /\ r \in Seq(Tasks) /\ Len(r) = Len(list) + 1
           /\ ToSet(r) = ToSet(list) \cup {t}
           /\ IsInjective(r)
<1> DEFINE u == <<t>>
           w == Append(list, t)
<1>1. u \in Seq(Tasks) /\ Len(u) = 1 /\ ToSet(u) = {t} /\ IsInjective(u)
  BY EntriesOfOne
<1>2. first => r = u \o list
  OBVIOUS
<1>3. ~first => r = w
  OBVIOUS
<1>4. /\ w \in Seq(Tasks) /\ Len(w) = Len(list) + 1
      /\ ToSet(w) = ToSet(list) \cup {t}
      /\ IsInjective(w)
  BY EntriesOfAppend
<1> HIDE DEF u, w
<1>5. CASE first
  BY <1>1, <1>2, <1>5, PrependedFacts
<1>6. CASE ~first
  BY <1>3, <1>4, <1>6
<1> QED
  BY <1>5, <1>6

LEMMA AddLists ==
    ASSUME TypeOK, Lists, NEW t \in Tasks,
           NEW isRunning \in BOOLEAN, NEW first \in BOOLEAN,
           _runqueue_task_add(t, isRunning, first)
    PROVE  /\ tasks_active' \in Seq(Tasks) /\ tasks_inactive' \in Seq(Tasks)
           /\ Lists'
<1>1. /\ t \notin queued
      /\ queued' = queued \cup {t}
  BY DEF _runqueue_task_add
<1>2. /\ tasks_active \in Seq(Tasks) /\ tasks_inactive \in Seq(Tasks)
      /\ IsInjective(tasks_active) /\ IsInjective(tasks_inactive)
      /\ t \notin ToSet(tasks_active) /\ t \notin ToSet(tasks_inactive)
      /\ t \notin running
  BY <1>1 DEF TypeOK, Lists
<1>3. CASE isRunning
  <2>1. /\ tasks_active' = IF first THEN <<t>> \o tasks_active
                                    ELSE Append(tasks_active, t)
        /\ running_tasks' = running_tasks + 1
        /\ running' = running \cup {t}
        /\ UNCHANGED tasks_inactive
    BY <1>3 DEF _runqueue_task_add
  <2>2. /\ tasks_active' \in Seq(Tasks)
        /\ Len(tasks_active') = Len(tasks_active) + 1
        /\ ToSet(tasks_active') = ToSet(tasks_active) \cup {t}
        /\ IsInjective(tasks_active')
    BY <1>2, <2>1, AddedFacts
  <2>3. /\ running' = ToSet(tasks_active')
        /\ queued' = running' \cup ToSet(tasks_inactive')
        /\ running' \cap ToSet(tasks_inactive') = {}
        /\ running_tasks' = Len(tasks_active')
    BY <1>1, <1>2, <2>1, <2>2 DEF Lists
  <2> QED
    BY <1>2, <2>1, <2>2, <2>3 DEF Lists
<1>4. CASE ~isRunning
  <2>1. /\ tasks_inactive' = IF first THEN <<t>> \o tasks_inactive
                                      ELSE Append(tasks_inactive, t)
        /\ UNCHANGED <<tasks_active, running_tasks, running>>
    BY <1>4 DEF _runqueue_task_add
  <2>2. /\ tasks_inactive' \in Seq(Tasks)
        /\ ToSet(tasks_inactive') = ToSet(tasks_inactive) \cup {t}
        /\ IsInjective(tasks_inactive')
    BY <1>2, <2>1, AddedFacts
  <2>3. /\ running' = ToSet(tasks_active')
        /\ queued' = running' \cup ToSet(tasks_inactive')
        /\ running' \cap ToSet(tasks_inactive') = {}
        /\ running_tasks' = Len(tasks_active')
    BY <1>1, <1>2, <2>1, <2>2 DEF Lists
  <2> QED
    BY <1>2, <2>1, <2>2, <2>3 DEF Lists
<1> QED
  BY <1>3, <1>4

(* The process of a task that is added may be watched, if the task runs.   *)
LEMMA AddStep ==
    ASSUME Inv, NEW t \in Tasks,
           NEW isRunning \in BOOLEAN, NEW first \in BOOLEAN,
           _runqueue_task_add(t, isRunning, first),
           \/ UNCHANGED proc_pending
           \/ isRunning /\ proc_pending' = proc_pending \cup {t}
    PROVE  Inv'
<1>1. /\ t \notin queued
      /\ queued' = queued \cup {t}
      /\ cancelled' = cancelled \ {t}
      /\ empty' = FALSE
      /\ UNCHANGED <<task_timeout, stopped, stack>>
  BY DEF _runqueue_task_add
<1>2. /\ isRunning => /\ running' = running \cup {t}
                      /\ adopted' = adopted \cup {t}
      /\ ~isRunning => UNCHANGED <<running, adopted>>
  BY DEF _runqueue_task_add
<1>3. timeout' = "next" /\ wakeup' = Woken
  BY DEF _runqueue_task_add, runqueue_start_next
<1>4. wakeup' = "called"
  BY <1>1, <1>3 DEF Woken
<1>5. /\ TypeOK /\ Lists /\ Timers /\ KillsPend /\ LimitKept
      /\ CursorsIn(stack, queued)
  BY DEF Inv
<1>6. tasks_active' \in Seq(Tasks) /\ tasks_inactive' \in Seq(Tasks) /\ Lists'
  BY <1>5, AddLists
<1>7. proc_pending' \subseteq Tasks
  BY <1>5 DEF TypeOK
<1>8. adopted' \subseteq Tasks
  BY <1>2, <1>5 DEF TypeOK
<1>9. TypeOK'
  BY <1>1, <1>3, <1>4, <1>5, <1>6, <1>7, <1>8 DEF TypeOK
<1>10. CursorsIn(stack', queued')
  BY <1>1, <1>5 DEF CursorsIn
<1>11. Wakeups'
  BY <1>1, <1>3, <1>4 DEF Wakeups
<1>12. t \notin running
  BY <1>1, <1>5 DEF Lists
<1>13. Timers'
  BY <1>1, <1>2, <1>5, <1>12 DEF Timers
<1>14. KillsPend'
  <2> SUFFICES ASSUME NEW p \in proc_pending', p \notin running'
               PROVE  KillPends(stack', p)
    BY DEF KillsPend
  <2>1. p \in proc_pending /\ p \notin running
    BY <1>2
  <2> QED
    BY <1>1, <1>5, <2>1 DEF KillsPend
<1>15. running' \ adopted' \subseteq running \ adopted
  BY <1>2
<1>16. LimitKept'
  BY <1>5, <1>15, LimitStep
<1> QED
  BY <1>6, <1>9, <1>10, <1>11, <1>13, <1>14, <1>16 DEF Inv

(* A process whose task the queue has started gets watched.                *)
LEMMA ProcessAddStep ==
    ASSUME Inv, NEW t \in Tasks, runqueue_process_add(t)
    PROVE  Inv'
<1>1. proc_pending' = proc_pending \cup {t}
  BY DEF runqueue_process_add
<1>2. CASE _runqueue_task_add(t, TRUE, FALSE)
  BY <1>1, <1>2, AddStep
<1>3. CASE ~_runqueue_task_add(t, TRUE, FALSE)
  <2>1. /\ t \in running
        /\ UNCHANGED <<lists, taskVars, timer, running_tasks, stopped, empty,
                       stack>>
    BY <1>3 DEF runqueue_process_add
  <2>2. UNCHANGED <<tasks_active, tasks_inactive, queued, running, cancelled,
                    task_timeout, adopted, timeout, wakeup, running_tasks,
                    stopped, empty, stack>>
    BY <2>1 DEF lists, taskVars, timer
  <2>3. /\ TypeOK /\ Lists /\ Wakeups /\ Timers /\ KillsPend /\ LimitKept
        /\ CursorsIn(stack, queued)
    BY DEF Inv
  <2>4. TypeOK' /\ Lists'
    BY <1>1, <2>2, <2>3 DEF TypeOK, Lists
  <2>5. CursorsIn(stack', queued')
    BY <2>2, <2>3
  <2>6. Wakeups' /\ Timers' /\ LimitKept'
    BY <2>2, <2>3 DEF Wakeups, MayStart, Timers, LimitKept
  <2>7. KillsPend'
    BY <1>1, <2>1, <2>2, <2>3 DEF KillsPend
  <2> QED
    BY <2>4, <2>5, <2>6, <2>7 DEF Inv
<1> QED
  BY <1>2, <1>3
-----------------------------------------------------------------------------
(***************************************************************************)
(* Tasks are completed, cancelled and killed.                              *)
(***************************************************************************)
LEMMA CarriesItself == \A s : Carries(s, s)
  BY DEF Carries

LEMMA TaskCompleteStep ==
    ASSUME Inv, NEW t \in Tasks, runqueue_task_complete(t)
    PROVE  Inv'
<1>1. /\ t \in queued /\ t \notin proc_pending
      /\ Complete(t, stack)
      /\ UNCHANGED proc_pending
  BY DEF runqueue_task_complete
<1>2. stack \in Seq(Frame) /\ CursorsIn(stack, queued)
  BY DEF Inv, TypeOK
<1> QED
  BY <1>1, <1>2, CarriesItself, CompleteStep

LEMMA TaskCancelStep ==
    ASSUME Inv, NEW t \in Tasks, runqueue_task_cancel(t)
    PROVE  Inv'
<1>1. /\ t \in queued
      /\ Cancel(t, stack, task_timeout)
      /\ UNCHANGED proc_pending
  BY DEF runqueue_task_cancel
<1>2. stack \in Seq(Frame) /\ CursorsIn(stack, queued)
  BY DEF Inv, TypeOK
<1> QED
  BY <1>1, <1>2, CarriesItself, CancelStep

(* The call that will kill a running task is among the active ones before  *)
(* the task completes.                                                     *)
LEMMA KillStep ==
    ASSUME Inv, NEW t \in queued, Kill(t, stack), UNCHANGED proc_pending
    PROVE  Inv'
<1> DEFINE c == [fn |-> "killing", task |-> t, wasRunning |-> t \in running]
           calls == Append(stack, c)
<1>1. Complete(t, calls)
  BY DEF Kill
<1>2. t \in Tasks /\ "killing" \in CallNames
  BY DEF Inv, TypeOK, CallNames
<1>3. /\ c \in Frame /\ c.fn = "killing" /\ c.task = t
      /\ t \in running => c.wasRunning
  <2>1. c.fn = "killing" /\ c.task = t
    OBVIOUS
  <2>2. t \in running => c.wasRunning
    OBVIOUS
  <2>3. (t \in running) \in BOOLEAN
    OBVIOUS
  <2>4. c \in Frame
    BY <1>2, <2>3 DEF Frame
  <2> QED
    BY <2>1, <2>2, <2>4
<1> HIDE DEF c
<1>4. stack \in Seq(Frame) /\ CursorsIn(stack, queued)
  BY DEF Inv, TypeOK
<1>5. calls \in Seq(Frame) /\ ToSet(calls) = ToSet(stack) \cup {c}
  BY <1>3, <1>4, CallsPushed
<1> HIDE DEF calls
<1>6. Carries(stack, calls)
  BY <1>5 DEF Carries
<1>7. CursorsIn(calls, queued)
  BY <1>3, <1>4, <1>5 DEF CursorsIn
<1>8. t \in running => KillPends(calls, t)
  BY <1>3, <1>5 DEF KillPends
<1>9. proc_pending' \subseteq proc_pending
  OBVIOUS
<1> QED
  BY <1>1, <1>5, <1>6, <1>7, <1>8, <1>9, CompleteStep

LEMMA TaskKillStep ==
    ASSUME Inv, NEW t \in Tasks, runqueue_task_kill(t)
    PROVE  Inv'
  BY KillStep DEF runqueue_task_kill

LEMMA KillNextStep ==
    ASSUME Inv, KillNext
    PROVE  Inv'
<1>1. /\ tasks_active # <<>>
      /\ Kill(Head(tasks_active), stack)
      /\ UNCHANGED proc_pending
  BY DEF KillNext
<1>2. tasks_active \in Seq(Tasks)
  BY DEF Inv, TypeOK
<1>3. Head(tasks_active) \in ToSet(tasks_active)
  BY <1>1, <1>2, HeadTailFacts
<1>4. Head(tasks_active) \in queued
  BY <1>3 DEF Inv, Lists
<1> QED
  BY <1>1, <1>4, KillStep

LEMMA TaskTimeoutStep ==
    ASSUME Inv, NEW t \in Tasks, __runqueue_task_timeout(t)
    PROVE  Inv'
<1>1. t \in task_timeout /\ UNCHANGED proc_pending
  BY DEF __runqueue_task_timeout
<1>2. t \in queued
  BY <1>1 DEF Inv, Timers, Lists
<1>3. stack \in Seq(Frame) /\ CursorsIn(stack, queued)
  BY DEF Inv, TypeOK
<1>4. CASE t \in cancelled
  <2>1. Kill(t, stack)
    BY <1>4 DEF __runqueue_task_timeout
  <2> QED
    BY <1>1, <1>2, <2>1, KillStep
<1>5. CASE t \notin cancelled
  <2>1. Cancel(t, stack, task_timeout \ {t})
    BY <1>5 DEF __runqueue_task_timeout
  <2>2. task_timeout \ {t} \subseteq task_timeout
    OBVIOUS
  <2> QED
    BY <1>1, <1>2, <1>3, <2>1, <2>2, CarriesItself, CancelStep
<1> QED
  BY <1>4, <1>5

LEMMA ProcCbStep ==
    ASSUME Inv, NEW t \in Tasks, __runqueue_proc_cb(t)
    PROVE  Inv'
<1>1. proc_pending' = proc_pending \ {t}
  BY DEF __runqueue_proc_cb
<1>2. stack \in Seq(Frame) /\ CursorsIn(stack, queued) /\ TypeOK /\ Wakeups
  BY DEF Inv, TypeOK
<1>3. proc_pending' \subseteq proc_pending /\ t \notin proc_pending'
  BY <1>1
<1>4. CASE t \in queued
  <2>1. Complete(t, stack)
    BY <1>4 DEF __runqueue_proc_cb
  <2> QED
    BY <1>2, <1>3, <1>4, <2>1, CarriesItself, CompleteStep
<1>5. CASE t \notin queued
  <2>1. UNCHANGED <<lists, taskVars, timer, running_tasks, stopped, empty,
                    stack>>
    BY <1>5 DEF __runqueue_proc_cb
  <2>2. UNCHANGED <<tasks_inactive, queued, timeout, wakeup>>
    BY <2>1 DEF lists, taskVars, timer
  <2>3. Wakeups'
    BY <1>2, <2>1, <2>2 DEF Wakeups, MayStart
  <2>4. /\ timeout' \in {"off", "next", "empty"}
        /\ wakeup' \in {"never", "called", "dropped"}
        /\ stopped' \in BOOLEAN /\ empty' \in BOOLEAN
        /\ stack' \in Seq(Frame) /\ CursorsIn(stack', queued)
    BY <1>2, <2>1, <2>2 DEF TypeOK
  <2> QED
    BY <1>3, <2>1, <2>3, <2>4, QueueStep
<1> QED
  BY <1>4, <1>5

(* safe_list_for_each has the entry behind t to visit next when t is       *)
(* cancelled.                                                              *)
LEMMA ForEachStep ==
    ASSUME Inv, ForEach
    PROVE  Inv'
<1> DEFINE n == Len(stack)
           t == stack[n].task
           calls == [stack EXCEPT ![n].task = After(t)]
<1>1. stack # <<>> /\ Last(stack).fn = "for_each" /\ Last(stack).task # NULL
  BY DEF ForEach, Innermost
<1>2. stack \in Seq(Frame) /\ CursorsIn(stack, queued) /\ TypeOK /\ Lists
  BY DEF Inv, TypeOK
<1>3. /\ Last(stack) = stack[n] /\ n \in 1..n /\ stack[n] \in Frame
      /\ Last(stack) \in ToSet(stack)
  BY <1>1, <1>2, FrontLastFacts
<1>4. Cancel(t, calls, task_timeout) /\ UNCHANGED proc_pending
  BY <1>3 DEF ForEach
<1>5. t \in queued
  BY <1>1, <1>2, <1>3 DEF CursorsIn
<1>6. After(t) \in queued \cup {NULL} /\ queued \subseteq Tasks
  BY <1>2, <1>5, AfterFacts DEF TypeOK
<1>7. /\ [stack[n] EXCEPT !.task = After(t)] \in Frame
      /\ [stack[n] EXCEPT !.task = After(t)].fn = "for_each"
      /\ [stack[n] EXCEPT !.task = After(t)].task = After(t)
  BY <1>1, <1>3, <1>6 DEF Frame
<1> DEFINE next == [stack[n] EXCEPT !.task = After(t)]
<1>8. calls = [stack EXCEPT ![n] = next]
  OBVIOUS
<1>9. next \in Frame /\ next.fn = "for_each" /\ next.task \in queued \cup {NULL}
  BY <1>6, <1>7
<1> HIDE DEF next, calls, t
<1>10. /\ calls \in Seq(Frame) /\ Len(calls) = Len(stack)
       /\ \A k \in 1..Len(stack) :
             calls[k] = IF k = n THEN next ELSE stack[k]
  BY <1>2, <1>3, <1>8, <1>9
<1>11. /\ \A c : c \in ToSet(stack) <=> \E k \in 1..Len(stack) : stack[k] = c
       /\ \A c : c \in ToSet(calls) <=> \E k \in 1..Len(stack) : calls[k] = c
  BY <1>2, <1>10, EntriesFacts
<1>12. Carries(stack, calls)
  BY <1>1, <1>3, <1>10, <1>11 DEF Carries
<1>13. \A c \in ToSet(calls) : c = next \/ c \in ToSet(stack)
  BY <1>10, <1>11
<1>14. CursorsIn(calls, queued)
  BY <1>2, <1>9, <1>13 DEF CursorsIn
<1> QED
  BY <1>4, <1>5, <1>10, <1>12, <1>14, CancelStep
-----------------------------------------------------------------------------
LEMMA InitStep ==
    ASSUME Init
    PROVE  Inv
<1>1. ToSet(<<>>) = {} /\ IsInjective(<<>>)
  BY DEF ToSet, IsInjective
<1>2. TypeOK
  <2>1. <<>> \in Seq(Tasks) /\ <<>> \in Seq(Frame)
    OBVIOUS
  <2>2. stack \in Seq(Frame)
    BY <2>1 DEF Init
  <2>3. tasks_active \in Seq(Tasks) /\ tasks_inactive \in Seq(Tasks)
    BY <2>1 DEF Init
  <2>4. /\ queued \subseteq Tasks /\ proc_pending \subseteq Tasks
        /\ adopted \subseteq Tasks
    BY DEF Init
  <2>5. /\ timeout \in {"off", "next", "empty"}
        /\ wakeup \in {"never", "called", "dropped"}
        /\ stopped \in BOOLEAN /\ empty \in BOOLEAN
    BY DEF Init
  <2> QED
    BY <2>2, <2>3, <2>4, <2>5 DEF TypeOK
<1>3. Lists
  BY <1>1 DEF Init, Lists
<1>4. CursorsIn(stack, queued)
  BY <1>1 DEF Init, CursorsIn
<1>5. Wakeups
  BY DEF Init, Wakeups, MayStart
<1>6. Timers /\ KillsPend
  BY DEF Init, Timers, KillsPend
<1>7. LimitKept
  <2>1. running \ adopted = {}
    BY DEF Init
  <2>2. Cardinality(running \ adopted) = 0
    BY <2>1, FS_EmptySet
  <2> QED
    BY <2>2, RunqueueAssumption DEF LimitKept
<1> QED
  BY <1>2, <1>3, <1>4, <1>5, <1>6, <1>7 DEF Inv

LEMMA NextStep ==
    ASSUME Inv, Next
    PROVE  Inv'
<1>1. ASSUME NEW t \in Tasks, NEW isRunning \in BOOLEAN, NEW first \in BOOLEAN,
             runqueue_task_add(t, isRunning, first)
      PROVE  Inv'
  BY <1>1, AddStep DEF runqueue_task_add
<1>2. ASSUME NEW t \in Tasks, runqueue_process_add(t)
      PROVE  Inv'
  BY <1>2, ProcessAddStep
<1>3. ASSUME NEW t \in Tasks, \/ runqueue_task_complete(t)
                              \/ runqueue_task_cancel(t)
                              \/ runqueue_task_kill(t)
      PROVE  Inv'
  BY <1>3, TaskCompleteStep, TaskCancelStep, TaskKillStep
<1>4. ASSUME NEW t \in Tasks, \/ __runqueue_task_timeout(t)
                              \/ __runqueue_proc_cb(t)
      PROVE  Inv'
  BY <1>4, TaskTimeoutStep, ProcCbStep
<1>5. CASE runqueue_stop \/ runqueue_resume \/ CancelOrKillAll \/ TimerExpires
  BY <1>5, StopStep, ResumeStep, CancelOrKillAllStep, TimerExpiresStep
<1>6. CASE Return \/ StartTask \/ StartTasksDone \/ TaskCompleted
  BY <1>6, ReturnStep, StartTaskStep, StartTasksDoneStep, TaskCompletedStep
<1>7. CASE KillCallback \/ TaskKilled \/ ForEach \/ ForEachDone \/ CancelActive
  BY <1>7, KillCallbackStep, TaskKilledStep, ForEachStep, ForEachDoneStep,
     CancelActiveStep
<1>8. CASE KillNext \/ KillPending \/ KillDone
  BY <1>8, KillNextStep, KillPendingStep, KillDoneStep
<1> QED
  BY <1>1, <1>2, <1>3, <1>4, <1>5, <1>6, <1>7, <1>8 DEF Next

LEMMA StutterStep ==
    ASSUME Inv, UNCHANGED vars
    PROVE  Inv'
<1>1. UNCHANGED <<lists, taskVars, proc_pending, timer, running_tasks,
                  stopped, empty, stack>>
  BY DEF vars
<1>2. stack' \in Seq(Frame) /\ CursorsIn(stack', queued)
  BY <1>1 DEF Inv, TypeOK
<1> QED
  BY <1>1, <1>2, CallStep

LEMMA Invariance == Spec => []Inv
<1>1. Inv /\ [Next]_vars => Inv'
  BY NextStep, StutterStep
<1> QED
  BY <1>1, InitStep, PTL DEF Spec

(***************************************************************************)
(* The flags of a task always say on which list it is, it is on no list    *)
(* twice, and running_tasks counts the active ones, however deeply the     *)
(* callbacks nest calls that add, complete, cancel and kill tasks.         *)
(***************************************************************************)
THEOREM FlagsTellTheLists == Spec => []ListsConsistent
<1>1. Inv => ListsConsistent
  <2> SUFFICES ASSUME Inv
               PROVE  ListsConsistent
    OBVIOUS
  <2>1. TypeOK /\ Lists
    BY DEF Inv
  <2>2. tasks_active \in Seq(Tasks) /\ tasks_inactive \in Seq(Tasks)
    BY <2>1 DEF TypeOK
  <2>3. ToSet(tasks_active) \cap ToSet(tasks_inactive) = {}
    BY <2>1 DEF Lists
  <2>4. IsInjective(tasks_active) /\ IsInjective(tasks_inactive)
    BY <2>1 DEF Lists
  <2>5. /\ ToSet(tasks_active \o tasks_inactive)
              = ToSet(tasks_active) \cup ToSet(tasks_inactive)
        /\ IsInjective(tasks_active \o tasks_inactive)
    BY <2>2, <2>3, <2>4, EntriesOfConcat
  <2> QED
    BY <2>1, <2>5 DEF Lists, ListsConsistent
<1> QED
  BY <1>1, Invariance, PTL

(***************************************************************************)
(* The queue never has more than max_running_tasks tasks running that it   *)
(* has started itself, for any limit and any number of tasks.              *)
(***************************************************************************)
THEOREM LimitNeverExceeded == Spec => []LimitKept
<1>1. Inv => LimitKept
  BY DEF Inv
<1> QED
  BY <1>1, Invariance, PTL

(***************************************************************************)
(* When the event loop runs and a task could be started, or the last one   *)
(* has gone, the timer is pending that will start it, or notice it: every  *)
(* call that adds a task or lets one go ends in runqueue_start_next, and   *)
(* the flag `empty` holds it back only while there is no task.             *)
(***************************************************************************)
THEOREM WakeupsArrive == Spec => []NoLostWakeup
<1>1. Inv => NoLostWakeup
  <2> SUFFICES ASSUME Inv
               PROVE  NoLostWakeup
    OBVIOUS
  <2>1. stack = <<>> => ~WillWake(stack)
    BY DEF WillWake, ToSet
  <2>2. Wakeups
    BY DEF Inv
  <2> QED
    BY <2>1, <2>2 DEF Wakeups, NoLostWakeup
<1> QED
  BY <1>1, Invariance, PTL

(***************************************************************************)
(* The timer of a task, and the watcher of its process, are there for as   *)
(* long as the task needs them and, but for the process that runqueue_kill *)
(* is about to forget, no longer.                                          *)
(***************************************************************************)
THEOREM WatchedWhileRunning == Spec => []TasksWatched
<1>1. Inv => TasksWatched
  <2> SUFFICES ASSUME Inv
               PROVE  TasksWatched
    OBVIOUS
  <2>1. stack \in Seq(Frame) /\ Timers /\ KillsPend
    BY DEF Inv, TypeOK
  <2>2. ASSUME NEW t \in proc_pending \ running
        PROVE  \E k \in 1..Len(stack) : /\ stack[k].fn = "killing"
                                        /\ stack[k].task = t
                                        /\ stack[k].wasRunning
    <3>1. PICK c \in ToSet(stack) :
             c.fn = "killing" /\ c.task = t /\ c.wasRunning
      BY <2>1 DEF KillsPend, KillPends
    <3>2. PICK k \in 1..Len(stack) : stack[k] = c
      BY <2>1, EntriesFacts
    <3> QED
      BY <3>1, <3>2
  <2> QED
    BY <2>1, <2>2 DEF Timers, TasksWatched
<1> QED
  BY <1>1, Invariance, PTL
=============================================================================
