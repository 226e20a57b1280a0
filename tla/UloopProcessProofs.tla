------------------------- MODULE UloopProcessProofs -------------------------
(***************************************************************************)
(* Proofs about UloopProcess, for every set of watchers, every number of   *)
(* children and every depth of nested loops.                               *)
(*                                                                         *)
(* The properties speak of walks over the list that are interrupted by     *)
(* callbacks, which change the list and start walks of their own.  Two     *)
(* facts carry them over such a change: a child is waited for once, so two *)
(* walks under way are never about the same pid (ReapedOnce); and the      *)
(* entry that a walk saved is, until its callback returns, linked or has a *)
(* pid greater than the one the walk is about (CursorsSafe).               *)
(***************************************************************************)
EXTENDS UloopProcess, ListLemmas

Callbacks == {"timerCb", "fdCb", "procCb"}
Places == Callbacks \cup {"loop", "timers", "waitpid", "walk", "break",
                          "poll", "asleep"}
Run == [at : Places, pid : Nat, cursor : Procs \cup {NULL, Dangling}]

TypeOK ==
    /\ processes \in Seq(Procs)
    /\ pending \in [Procs -> BOOLEAN]
    /\ pid \in [Procs -> Nat]
    /\ do_sigchld \in BOOLEAN /\ uloop_cancelled \in BOOLEAN
    /\ stack \in Seq(Run)
    /\ child \in [Pids -> {"none", "running", "zombie", "reaped"}]
    /\ unsignalled \subseteq Pids

\* Only the innermost loop is not waiting for a callback to return.
OuterInCallbacks ==
    \A i \in 1..Len(stack) : i > 1 => stack[i].at \in Callbacks

\* Each walk is about a child of its own, that was waited for.
ReapedOnce ==
    \A i \in 1..Len(stack) :
        Walking(stack[i]) =>
            /\ stack[i].pid \in Pids
            /\ child[stack[i].pid] = "reaped"
            /\ \A j \in 1..Len(stack) :
                  Walking(stack[j]) /\ stack[j].pid = stack[i].pid => j = i

\* The entry a walk looks at next is linked or ends the walk; while the
\* callback runs it is also not before the place of the walk.
CursorsSafe ==
    \A i \in 1..Len(stack) :
        Walking(stack[i]) =>
            /\ stack[i].cursor # Dangling
            /\ stack[i].cursor \in Procs =>
                  /\ \/ pending[stack[i].cursor]
                     \/ pid[stack[i].cursor] > stack[i].pid
                  /\ stack[i].at = "procCb" =>
                        pid[stack[i].cursor] >= stack[i].pid

\* Only children with a pid are watched.
PidsKnown == \A p \in Procs : pending[p] => pid[p] \in Pids

\* Any child that exited under a uloop_run is noticed, watched or not.
AnyZombieNoticed ==
    \A n \in Pids :
        child[n] = "zombie" /\ n \notin unsignalled =>
            \/ do_sigchld
            \/ \E i \in 1..Len(stack) :
                  Walking(stack[i]) \/ stack[i].at = "waitpid"

Inv ==
    /\ TypeOK
    /\ OuterInCallbacks
    /\ ReapedOnce
    /\ CursorsSafe
    /\ PidsKnown
    /\ AnyZombieNoticed
    /\ ListSorted
    /\ NoWatcherLeftBehind
-----------------------------------------------------------------------------
(* What the list and the stack of loops consist of.                        *)
LEMMA ElementFacts ==
    ASSUME TypeOK
    PROVE  /\ Len(processes) \in Nat /\ Len(stack) \in Nat
           /\ \A i \in 1..Len(processes) : processes[i] \in Procs
           /\ \A p \in Procs : pid[p] \in Nat
           /\ \A i \in 1..Len(stack) :
                 /\ stack[i] \in Run
                 /\ stack[i].at \in Places
                 /\ stack[i].pid \in Nat
                 /\ stack[i].cursor \in Procs \cup {NULL, Dangling}
<1>1. processes \in Seq(Procs) /\ stack \in Seq(Run) /\ pid \in [Procs -> Nat]
  BY DEF TypeOK
<1>2. /\ Len(processes) \in Nat /\ Len(stack) \in Nat
      /\ \A i \in 1..Len(processes) : processes[i] \in Procs
      /\ \A i \in 1..Len(stack) : stack[i] \in Run
  BY <1>1, ElementOfSeq
<1>3. \A f \in Run : /\ f.at \in Places /\ f.pid \in Nat
                     /\ f.cursor \in Procs \cup {NULL, Dangling}
  BY DEF Run
<1> QED
  BY <1>1, <1>2, <1>3

(* The place of a linked entry, and list.next of it.                       *)
LEMMA SuccessorFacts ==
    ASSUME TypeOK, ListSorted, NEW p \in Procs, pending[p]
    PROVE  /\ PlaceOf(p) \in 1..Len(processes)
           /\ processes[PlaceOf(p)] = p
           /\ \A j \in 1..Len(processes) : processes[j] = p => j = PlaceOf(p)
           /\ Successor(p) = IF PlaceOf(p) = Len(processes) THEN NULL
                             ELSE processes[PlaceOf(p) + 1]
<1>1. Linked(p)
  BY DEF ListSorted
<1>2. PlaceOf(p) \in 1..Len(processes) /\ processes[PlaceOf(p)] = p
  BY <1>1 DEF Linked, PlaceOf
<1>3. Len(processes) \in Nat
  BY ElementFacts
<1>4. \A j \in 1..Len(processes) : processes[j] = p => j = PlaceOf(p)
  BY <1>2, <1>3 DEF ListSorted
<1> QED
  BY <1>1, <1>2, <1>4 DEF Successor

(* uloop_process_delete of a pending entry: the others stay in order.      *)
LEMMA UnlinkFacts ==
    ASSUME Inv, NEW p \in Procs, pending[p], Unlink(p), pid' = pid
    PROVE  /\ processes' \in Seq(Procs)
           /\ pending' \in [Procs -> BOOLEAN]
           /\ \A q \in Procs : pending'[q] <=> pending[q] /\ q # p
           /\ ListSorted'
           /\ \A i, j \in 1..Len(processes) :
                 i <= j /\ processes[i] # p /\ processes[j] # p =>
                    \E m, n \in 1..Len(processes') :
                       /\ m <= n
                       /\ processes'[m] = processes[i]
                       /\ processes'[n] = processes[j]
<1> DEFINE k == PlaceOf(p)
<1>1. TypeOK /\ ListSorted /\ processes \in Seq(Procs)
  BY DEF Inv, TypeOK
<1>2. /\ k \in 1..Len(processes) /\ processes[k] = p
      /\ \A j \in 1..Len(processes) : processes[j] = p => j = k
  BY <1>1, SuccessorFacts
<1>3. processes' = RemoveAt(processes, k)
  BY DEF Unlink
<1>4. /\ pending' \in [Procs -> BOOLEAN]
      /\ \A q \in Procs : pending'[q] <=> pending[q] /\ q # p
  BY <1>1 DEF Unlink, TypeOK
<1> HIDE DEF k
<1>5. processes' \in Seq(Procs)
  BY <1>1, <1>2, <1>3, RemoveAtFacts
<1>5a. RemovedFrom(processes, k, processes')
  BY <1>1, <1>2, <1>3, RemoveAtOrder
<1>6. /\ \A i, j \in 1..Len(processes) : i <= j /\ i # k /\ j # k =>
            \E m, n \in 1..Len(processes') :
                /\ m <= n
                /\ processes'[m] = processes[i]
                /\ processes'[n] = processes[j]
  BY <1>5a DEF RemovedFrom
<1>9. \A m, n \in 1..Len(processes') : m < n =>
         \E i, j \in 1..Len(processes) :
             /\ i < j /\ i # k /\ j # k
             /\ processes'[m] = processes[i]
             /\ processes'[n] = processes[j]
  BY <1>5a DEF RemovedFrom
<1>10. \A m \in 1..Len(processes') :
          \E i \in 1..Len(processes) : i # k /\ processes'[m] = processes[i]
  BY <1>5a DEF RemovedFrom
<1>7. \A q \in Procs : Linked(q)' <=> Linked(q) /\ q # p
  <2> SUFFICES ASSUME NEW q \in Procs PROVE Linked(q)' <=> Linked(q) /\ q # p
    OBVIOUS
  <2>1. Linked(q)' => Linked(q) /\ q # p
    BY <1>2, <1>10 DEF Linked
  <2>2. ASSUME Linked(q), q # p PROVE Linked(q)'
    <3>1. PICK i \in 1..Len(processes) : processes[i] = q
      BY <2>2 DEF Linked
    <3>2. i # k /\ i <= i
      BY <1>1, <1>2, <2>2, <3>1, ElementFacts
    <3> QED
      BY <1>6, <3>1, <3>2 DEF Linked
  <2> QED
    BY <2>1, <2>2
<1>8. ListSorted'
  <2>1. \A q \in Procs : pending'[q] <=> Linked(q)'
    BY <1>1, <1>4, <1>7 DEF ListSorted
  <2>2. ASSUME NEW m \in 1..Len(processes'), NEW n \in 1..Len(processes'),
               m < n
        PROVE  /\ processes'[m] # processes'[n]
               /\ pid[processes'[m]] <= pid[processes'[n]]
    <3>1. PICK i, j \in 1..Len(processes) :
             /\ i < j
             /\ processes'[m] = processes[i]
             /\ processes'[n] = processes[j]
      BY <1>9, <2>2
    <3> QED
      BY <1>1, <3>1 DEF ListSorted
  <2> QED
    BY <2>1, <2>2 DEF ListSorted
<1> QED
  BY <1>2, <1>4, <1>5, <1>6, <1>8

(* uloop_process_add links the entry where its pid belongs.                *)
LEMMA LinkFacts ==
    ASSUME Inv, NEW p \in Procs, NEW n \in Pids, ~pending[p],
           NEW k \in InsertPositions(n),
           processes' = InsertAt(processes, k, p),
           pending' = [pending EXCEPT ![p] = TRUE],
           pid' = [pid EXCEPT ![p] = n]
    PROVE  /\ processes' \in Seq(Procs)
           /\ pending' \in [Procs -> BOOLEAN]
           /\ pid' \in [Procs -> Nat]
           /\ \A q \in Procs : /\ pending'[q] <=> pending[q] \/ q = p
                               /\ pid'[q] = IF q = p THEN n ELSE pid[q]
           /\ ListSorted'
           /\ \A i, j \in 1..Len(processes) : i <= j =>
                 \E l, m \in 1..Len(processes') :
                    /\ l <= m
                    /\ processes'[l] = processes[i]
                    /\ processes'[m] = processes[j]
<1>1. /\ TypeOK /\ ListSorted /\ processes \in Seq(Procs)
      /\ Len(processes) \in Nat /\ n \in Nat
      /\ \A i \in 1..Len(processes) : processes[i] \in Procs
      /\ \A q \in Procs : pid[q] \in Nat
  BY ElementFacts, ProcAssumption DEF Inv, TypeOK, Pids
<1>2. /\ k \in 1..(Len(processes) + 1)
      /\ \A i \in 1..(k - 1) : pid[processes[i]] <= n
      /\ k <= Len(processes) => pid[processes[k]] > n
  BY DEF InsertPositions
<1>3. /\ pending' \in [Procs -> BOOLEAN]
      /\ pid' \in [Procs -> Nat]
      /\ \A q \in Procs : /\ pending'[q] <=> pending[q] \/ q = p
                          /\ pid'[q] = IF q = p THEN n ELSE pid[q]
  BY <1>1 DEF TypeOK
<1>4. \A i \in 1..Len(processes) :
         /\ processes[i] # p
         /\ pid'[processes[i]] = pid[processes[i]]
         /\ i < k => pid[processes[i]] <= n
         /\ i >= k => n <= pid[processes[i]]
  <2> SUFFICES ASSUME NEW i \in 1..Len(processes)
               PROVE  /\ processes[i] # p
                      /\ i < k => pid[processes[i]] <= n
                      /\ i >= k => n <= pid[processes[i]]
    BY <1>1, <1>3
  <2>1. processes[i] # p
    BY DEF Inv, ListSorted, Linked
  <2>2. i < k => pid[processes[i]] <= n
    BY <1>2
  <2>3. CASE i >= k
    <3>1. k \in 1..Len(processes) /\ pid[processes[k]] > n
      BY <1>1, <1>2, <2>3
    <3>2. pid[processes[k]] <= pid[processes[i]]
      BY <1>1, <2>3, <3>1 DEF ListSorted
    <3> QED
      BY <1>1, <2>1, <2>2, <3>1, <3>2
  <2> QED
    BY <1>1, <1>2, <2>1, <2>2, <2>3
<1>5. processes' \in Seq(Procs)
  BY <1>1, <1>2, InsertAtFacts
<1>5a. InsertedAt(processes, k, p, processes')
  BY <1>1, <1>2, InsertAtOrder
<1>6. /\ \A i, j \in 1..Len(processes) : i <= j =>
            \E l, m \in 1..Len(processes') :
                /\ l <= m
                /\ processes'[l] = processes[i]
                /\ processes'[m] = processes[j]
  BY <1>5a DEF InsertedAt
<1>9. \A l, m \in 1..Len(processes') : l < m =>
            \/ \E i, j \in 1..Len(processes) : /\ i < j
                                               /\ processes'[l] = processes[i]
                                               /\ processes'[m] = processes[j]
            \/ \E j \in 1..Len(processes) : /\ j >= k
                                            /\ processes'[l] = p
                                            /\ processes'[m] = processes[j]
            \/ \E i \in 1..Len(processes) : /\ i < k
                                            /\ processes'[l] = processes[i]
                                            /\ processes'[m] = p
  BY <1>5a DEF InsertedAt
<1>10. \E m \in 1..Len(processes') : processes'[m] = p
  BY <1>5a DEF InsertedAt
<1>11. \A m \in 1..Len(processes') :
            \/ processes'[m] = p
            \/ \E i \in 1..Len(processes) : processes'[m] = processes[i]
  BY <1>5a DEF InsertedAt
<1>7. \A q \in Procs : Linked(q)' <=> Linked(q) \/ q = p
  <2> SUFFICES ASSUME NEW q \in Procs
               PROVE  Linked(q)' <=> Linked(q) \/ q = p
    OBVIOUS
  <2>1. Linked(q)' => Linked(q) \/ q = p
    BY <1>11 DEF Linked
  <2>2. Linked(q) => Linked(q)'
    <3>1. \A i \in 1..Len(processes) : i <= i
      BY <1>1
    <3> QED
      BY <1>6, <3>1 DEF Linked
  <2>3. Linked(p)'
    BY <1>10 DEF Linked
  <2> QED
    BY <2>1, <2>2, <2>3
<1>8. ListSorted'
  <2>1. \A q \in Procs : pending'[q] <=> Linked(q)'
    BY <1>1, <1>3, <1>7 DEF ListSorted
  <2>2. ASSUME NEW l \in 1..Len(processes'), NEW m \in 1..Len(processes'),
               l < m
        PROVE  /\ processes'[l] # processes'[m]
               /\ pid'[processes'[l]] <= pid'[processes'[m]]
    <3>1. CASE \E i, j \in 1..Len(processes) : /\ i < j
                                               /\ processes'[l] = processes[i]
                                               /\ processes'[m] = processes[j]
      <4>1. PICK i, j \in 1..Len(processes) : /\ i < j
                                              /\ processes'[l] = processes[i]
                                              /\ processes'[m] = processes[j]
        BY <3>1
      <4>2. /\ processes[i] # processes[j]
            /\ pid[processes[i]] <= pid[processes[j]]
        BY <1>1, <4>1 DEF ListSorted
      <4> QED
        BY <1>4, <4>1, <4>2
    <3>2. CASE \E j \in 1..Len(processes) : /\ j >= k
                                            /\ processes'[l] = p
                                            /\ processes'[m] = processes[j]
      BY <1>3, <1>4, <3>2
    <3>3. CASE \E i \in 1..Len(processes) : /\ i < k
                                            /\ processes'[l] = processes[i]
                                            /\ processes'[m] = p
      BY <1>3, <1>4, <3>3
    <3> QED
      BY <1>9, <2>2, <3>1, <3>2, <3>3
  <2> QED
    BY <2>1, <2>2 DEF ListSorted
<1> QED
  BY <1>3, <1>5, <1>6, <1>8-----------------------------------------------------------------------------
(* The innermost loop goes to another place.                               *)
LEMMA GotoFacts ==
    ASSUME TypeOK, stack # <<>>, NEW place \in Places, stack' = Goto(place)
    PROVE  /\ stack' \in Seq(Run)
           /\ Len(stack') = Len(stack)
           /\ 1 \in 1..Len(stack)
           /\ \A i \in 1..Len(stack) :
                 /\ stack'[i].at = IF i = 1 THEN place ELSE stack[i].at
                 /\ stack'[i].pid = stack[i].pid
                 /\ stack'[i].cursor = stack[i].cursor
<1>1. stack \in Seq(Run) /\ Len(stack) \in Nat /\ 1 \in 1..Len(stack)
  BY DEF TypeOK
<1>2. \A i \in 1..Len(stack) : stack[i] \in Run
  BY <1>1, ElementOfSeq
<1> DEFINE f == [stack[1] EXCEPT !.at = place]
<1>3. /\ f \in Run /\ f.at = place
      /\ f.pid = stack[1].pid /\ f.cursor = stack[1].cursor
  BY <1>1, <1>2 DEF Run
<1>4. stack' = [stack EXCEPT ![1] = f]
  BY DEF Goto
<1> HIDE DEF f
<1>5. /\ stack' \in Seq(Run) /\ Len(stack') = Len(stack)
      /\ \A i \in 1..Len(stack) : stack'[i] = IF i = 1 THEN f ELSE stack[i]
  BY <1>1, <1>3, <1>4, ExceptSeq
<1> QED
  BY <1>1, <1>3, <1>5

(* No list operation, and nothing is waited for.                           *)
ListAndReapedKept ==
    /\ UNCHANGED listVars
    /\ \A n \in Pids : child'[n] = "reaped" <=> child[n] = "reaped"

OthersTyped ==
    /\ do_sigchld \in BOOLEAN /\ uloop_cancelled \in BOOLEAN
    /\ child \in [Pids -> {"none", "running", "zombie", "reaped"}]
    /\ unsignalled \subseteq Pids

(* The walks under way go on, or one returns from a callback.              *)
LEMMA PlaceChangeInv ==
    ASSUME Inv, stack # <<>>, NEW place \in Places, stack' = Goto(place),
           Walking(stack[1]) <=> place \in {"walk", "procCb"},
           place = "procCb" => stack[1].at = "procCb",
           ListAndReapedKept, OthersTyped', AnyZombieNoticed'
    PROVE  Inv'
<1>1. /\ TypeOK /\ OuterInCallbacks /\ ReapedOnce /\ CursorsSafe /\ PidsKnown
      /\ ListSorted /\ NoWatcherLeftBehind
  BY DEF Inv
<1>2. /\ stack' \in Seq(Run)
      /\ Len(stack') = Len(stack)
      /\ 1 \in 1..Len(stack)
      /\ \A i \in 1..Len(stack) :
            /\ stack'[i].at = IF i = 1 THEN place ELSE stack[i].at
            /\ stack'[i].pid = stack[i].pid
            /\ stack'[i].cursor = stack[i].cursor
  BY <1>1, GotoFacts
<1>3. processes' = processes /\ pending' = pending /\ pid' = pid
  BY DEF ListAndReapedKept, listVars
<1>4. \A i \in 1..Len(stack) : /\ Walking(stack'[i]) <=> Walking(stack[i])
                               /\ stack'[i].at = "procCb" =>
                                     stack[i].at = "procCb"
  BY <1>2 DEF Walking
<1>5. TypeOK'
  BY <1>1, <1>2, <1>3 DEF TypeOK, OthersTyped
<1>6. OuterInCallbacks'
  BY <1>1, <1>2 DEF OuterInCallbacks
<1>7. ReapedOnce'
  BY <1>1, <1>2, <1>4 DEF ReapedOnce, ListAndReapedKept
<1>8. CursorsSafe'
  BY <1>1, <1>2, <1>3, <1>4 DEF CursorsSafe
<1>9. PidsKnown' /\ ListSorted'
  BY <1>1, <1>3 DEF PidsKnown, ListSorted, Linked
<1>10. NoWatcherLeftBehind'
  <2> SUFFICES ASSUME NEW p \in Procs, pending[p], child'[pid[p]] = "reaped"
               PROVE  \E f \in 1..Len(stack') : \E i, j \in 1..Len(processes) :
                         /\ Walking(stack'[f])
                         /\ stack'[f].pid = pid[p]
                         /\ processes[i] = stack'[f].cursor
                         /\ processes[j] = p
                         /\ i <= j
    BY <1>3 DEF NoWatcherLeftBehind
  <2>1. child[pid[p]] = "reaped"
    BY <1>1 DEF PidsKnown, ListAndReapedKept
  <2>2. PICK f \in 1..Len(stack), i \in 1..Len(processes),
             j \in 1..Len(processes) :
           /\ Walking(stack[f])
           /\ stack[f].pid = pid[p]
           /\ processes[i] = stack[f].cursor
           /\ processes[j] = p
           /\ i <= j
    BY <1>1, <2>1 DEF NoWatcherLeftBehind
  <2> QED
    BY <1>2, <1>4, <2>2
<1> QED
  BY <1>5, <1>6, <1>7, <1>8, <1>9, <1>10 DEF Inv

(* The loops stay where they are.                                          *)
LEMMA StackUnchangedInv ==
    ASSUME Inv, stack' = stack, ListAndReapedKept, OthersTyped',
           AnyZombieNoticed'
    PROVE  Inv'
<1>1. /\ TypeOK /\ OuterInCallbacks /\ ReapedOnce /\ CursorsSafe /\ PidsKnown
      /\ ListSorted /\ NoWatcherLeftBehind
  BY DEF Inv
<1>2. processes' = processes /\ pending' = pending /\ pid' = pid
  BY DEF ListAndReapedKept, listVars
<1>3. TypeOK'
  BY <1>1, <1>2 DEF TypeOK, OthersTyped
<1>4. OuterInCallbacks' /\ ReapedOnce'
  BY <1>1 DEF OuterInCallbacks, ReapedOnce, ListAndReapedKept
<1>5. CursorsSafe' /\ PidsKnown' /\ ListSorted'
  BY <1>1, <1>2 DEF CursorsSafe, PidsKnown, ListSorted, Linked
<1>6. NoWatcherLeftBehind'
  BY <1>1, <1>2
     DEF NoWatcherLeftBehind, PidsKnown, ListAndReapedKept
<1> QED
  BY <1>3, <1>4, <1>5, <1>6 DEF Inv
(* uloop_run is entered, by the main program or from a callback.           *)
LEMMA EnterRunInv == ASSUME Inv, EnterRun PROVE Inv'
<1> DEFINE f == [at |-> "loop", pid |-> 0, cursor |-> NULL]
<1>1. /\ TypeOK /\ OuterInCallbacks /\ ReapedOnce /\ CursorsSafe /\ PidsKnown
      /\ AnyZombieNoticed /\ ListSorted /\ NoWatcherLeftBehind
  BY DEF Inv
<1>2. /\ AppCode /\ stack' = <<f>> \o stack /\ uloop_cancelled' = FALSE
      /\ UNCHANGED <<processes, pending, pid, do_sigchld, child, unsignalled>>
  BY DEF EnterRun, listVars, kernelVars
<1>3. f \in Run /\ f.at = "loop" /\ stack \in Seq(Run) /\ Len(stack) \in Nat
  BY <1>1 DEF Run, Places, TypeOK
<1> HIDE DEF f
<1>4. /\ stack' \in Seq(Run)
      /\ Len(stack') = Len(stack) + 1
      /\ stack'[1] = f
      /\ \A i \in 1..Len(stack) : stack'[i + 1] = stack[i]
  <2>1. /\ <<f>> \o stack \in Seq(Run)
        /\ Len(<<f>> \o stack) = 1 + Len(stack)
        /\ \A i \in 1..(1 + Len(stack)) :
              (<<f>> \o stack)[i] = IF i <= 1 THEN f ELSE stack[i - 1]
    BY <1>3, ConcatProperties
  <2> QED
    BY <1>2, <1>3, <2>1
<1>5. ~Walking(stack'[1]) /\ 1 \in 1..Len(stack')
  BY <1>3, <1>4 DEF Walking
<1>6. \A i \in 1..Len(stack') : i = 1 \/ \E k \in 1..Len(stack) : i = k + 1
  <2> SUFFICES ASSUME NEW i \in 1..Len(stack'), i # 1
               PROVE  \E k \in 1..Len(stack) : i = k + 1
    OBVIOUS
  <2>1. i - 1 \in 1..Len(stack) /\ i = (i - 1) + 1
    BY <1>3, <1>4
  <2> QED
    BY <2>1
<1>7. \A k \in 1..Len(stack) : k + 1 \in 1..Len(stack')
  BY <1>3, <1>4
<1>8. TypeOK'
  BY <1>1, <1>2, <1>4 DEF TypeOK
<1>9. OuterInCallbacks'
  <2> SUFFICES ASSUME NEW k \in 1..Len(stack) PROVE stack[k].at \in Callbacks
    BY <1>4, <1>6 DEF OuterInCallbacks
  <2>1. CASE k = 1
    BY <1>2, <1>3, <2>1 DEF AppCode, Callbacks
  <2>2. CASE k > 1
    BY <1>1, <2>2 DEF OuterInCallbacks
  <2> QED
    BY <2>1, <2>2
<1>10. ReapedOnce'
  <2> SUFFICES ASSUME NEW i \in 1..Len(stack'), Walking(stack'[i])
               PROVE  /\ stack'[i].pid \in Pids
                      /\ child[stack'[i].pid] = "reaped"
                      /\ \A j \in 1..Len(stack') :
                            Walking(stack'[j])
                              /\ stack'[j].pid = stack'[i].pid => j = i
    BY <1>2 DEF ReapedOnce
  <2>1. PICK k \in 1..Len(stack) : i = k + 1 /\ stack'[i] = stack[k]
    BY <1>4, <1>5, <1>6
  <2>2. ASSUME NEW j \in 1..Len(stack'), Walking(stack'[j]),
               stack'[j].pid = stack'[i].pid
        PROVE  j = i
    <3>1. PICK l \in 1..Len(stack) : j = l + 1 /\ stack'[j] = stack[l]
      BY <1>4, <1>5, <1>6, <2>2
    <3>2. l = k
      BY <1>1, <2>1, <2>2, <3>1 DEF ReapedOnce
    <3> QED
      BY <2>1, <3>1, <3>2
  <2> QED
    BY <1>1, <2>1, <2>2 DEF ReapedOnce
<1>11. CursorsSafe'
  <2>1. \A i \in 1..Len(stack') : Walking(stack'[i]) =>
           \E k \in 1..Len(stack) : stack'[i] = stack[k]
    BY <1>4, <1>5, <1>6
  <2> QED
    BY <1>1, <1>2, <2>1, ZenonT(60) DEF CursorsSafe
<1>12. PidsKnown' /\ ListSorted'
  BY <1>1, <1>2 DEF PidsKnown, ListSorted, Linked
<1>13. AnyZombieNoticed'
  BY <1>1, <1>2, <1>4, <1>7 DEF AnyZombieNoticed
<1>14. NoWatcherLeftBehind'
  <2> SUFFICES ASSUME NEW p \in Procs, pending[p], child[pid[p]] = "reaped"
               PROVE  \E f1 \in 1..Len(stack') :
                         \E i, j \in 1..Len(processes) :
                            /\ Walking(stack'[f1])
                            /\ stack'[f1].pid = pid[p]
                            /\ processes[i] = stack'[f1].cursor
                            /\ processes[j] = p
                            /\ i <= j
    BY <1>2 DEF NoWatcherLeftBehind
  <2>1. PICK k \in 1..Len(stack), i \in 1..Len(processes),
             j \in 1..Len(processes) :
           /\ Walking(stack[k])
           /\ stack[k].pid = pid[p]
           /\ processes[i] = stack[k].cursor
           /\ processes[j] = p
           /\ i <= j
    BY <1>1 DEF NoWatcherLeftBehind
  <2>2. k + 1 \in 1..Len(stack') /\ stack'[k + 1] = stack[k]
    BY <1>4, <1>7
  <2> QED
    BY <2>1, <2>2
<1> QED
  BY <1>8, <1>9, <1>10, <1>11, <1>12, <1>13, <1>14 DEF Inv

(* uloop_run returns to the callback that called it.                       *)
LEMMA LeaveRunInv ==
    ASSUME Inv, stack # <<>>, ~Walking(stack[1]), stack[1].at # "waitpid",
           stack' = Tail(stack),
           UNCHANGED <<processes, pending, pid, do_sigchld, uloop_cancelled,
                       child, unsignalled>>
    PROVE  Inv'
<1>1. /\ TypeOK /\ OuterInCallbacks /\ ReapedOnce /\ CursorsSafe /\ PidsKnown
      /\ AnyZombieNoticed /\ ListSorted /\ NoWatcherLeftBehind
  BY DEF Inv
<1>2. stack \in Seq(Run) /\ Len(stack) \in Nat /\ Len(stack) > 0
  BY <1>1 DEF TypeOK
<1>3. /\ stack' \in Seq(Run)
      /\ Len(stack') = Len(stack) - 1
      /\ \A i \in 1..(Len(stack) - 1) : stack'[i] = stack[i + 1]
  BY <1>2, HeadTailProperties
<1>4. \A i \in 1..Len(stack') : /\ i + 1 \in 1..Len(stack) /\ i + 1 > 1
                                /\ stack'[i] = stack[i + 1]
  BY <1>2, <1>3
<1>5. \A i \in 1..Len(stack) :
         i = 1 \/ (i - 1 \in 1..Len(stack') /\ stack'[i - 1] = stack[i])
  <2> SUFFICES ASSUME NEW i \in 1..Len(stack), i # 1
               PROVE  i - 1 \in 1..Len(stack') /\ stack'[i - 1] = stack[i]
    OBVIOUS
  <2>1. i - 1 \in 1..(Len(stack) - 1) /\ (i - 1) + 1 = i
    BY <1>2
  <2> QED
    BY <1>3, <2>1
<1>6. TypeOK'
  BY <1>1, <1>3 DEF TypeOK
<1>7. OuterInCallbacks'
  BY <1>1, <1>4 DEF OuterInCallbacks
<1>8. ReapedOnce'
  <2> SUFFICES ASSUME NEW i \in 1..Len(stack'), Walking(stack'[i])
               PROVE  /\ stack'[i].pid \in Pids
                      /\ child[stack'[i].pid] = "reaped"
                      /\ \A j \in 1..Len(stack') :
                            Walking(stack'[j])
                              /\ stack'[j].pid = stack'[i].pid => j = i
    BY DEF ReapedOnce
  <2>1. ASSUME NEW j \in 1..Len(stack'), Walking(stack'[j]),
               stack'[j].pid = stack'[i].pid
        PROVE  j = i
    <3>1. j + 1 = i + 1
      BY <1>1, <1>4, <2>1 DEF ReapedOnce
    <3> QED
      BY <1>2, <1>3, <3>1
  <2> QED
    BY <1>1, <1>4, <2>1 DEF ReapedOnce
<1>9. CursorsSafe'
  BY <1>1, <1>4 DEF CursorsSafe
<1>10. PidsKnown' /\ ListSorted'
  BY <1>1 DEF PidsKnown, ListSorted, Linked
<1>11. AnyZombieNoticed'
  <2> SUFFICES ASSUME NEW n \in Pids, child[n] = "zombie", n \notin unsignalled,
                      ~do_sigchld
               PROVE  \E i \in 1..Len(stack') :
                         Walking(stack'[i]) \/ stack'[i].at = "waitpid"
    BY DEF AnyZombieNoticed
  <2>1. PICK i \in 1..Len(stack) : Walking(stack[i]) \/ stack[i].at = "waitpid"
    BY <1>1 DEF AnyZombieNoticed
  <2> QED
    BY <1>5, <2>1
<1>12. NoWatcherLeftBehind'
  <2> SUFFICES ASSUME NEW p \in Procs, pending[p], child[pid[p]] = "reaped"
               PROVE  \E f \in 1..Len(stack') :
                         \E i, j \in 1..Len(processes) :
                            /\ Walking(stack'[f])
                            /\ stack'[f].pid = pid[p]
                            /\ processes[i] = stack'[f].cursor
                            /\ processes[j] = p
                            /\ i <= j
    BY DEF NoWatcherLeftBehind
  <2>1. PICK k \in 1..Len(stack), i \in 1..Len(processes),
             j \in 1..Len(processes) :
           /\ Walking(stack[k])
           /\ stack[k].pid = pid[p]
           /\ processes[i] = stack[k].cursor
           /\ processes[j] = p
           /\ i <= j
    BY <1>1 DEF NoWatcherLeftBehind
  <2>2. k - 1 \in 1..Len(stack') /\ stack'[k - 1] = stack[k]
    BY <1>5, <2>1
  <2> QED
    BY <2>1, <2>2
<1> QED
  BY <1>6, <1>7, <1>8, <1>9, <1>10, <1>11, <1>12 DEF Inv-----------------------------------------------------------------------------
(* waitpid found a dead child, and a walk for it starts at the head of the *)
(* list: all the watchers of the child are ahead.                          *)
LEMMA WaitpidSomeInv == ASSUME Inv, WaitpidSome PROVE Inv'
<1>1. /\ TypeOK /\ OuterInCallbacks /\ ReapedOnce /\ CursorsSafe /\ PidsKnown
      /\ AnyZombieNoticed /\ ListSorted /\ NoWatcherLeftBehind
  BY DEF Inv
<1>2. PICK n \in Pids :
         /\ child[n] = "zombie"
         /\ child' = [child EXCEPT ![n] = "reaped"]
         /\ stack' = [stack EXCEPT ![1] =
               [at |-> "walk", pid |-> n, cursor |-> First(processes)]]
  BY DEF WaitpidSome
<1>3. /\ stack # <<>> /\ stack[1].at = "waitpid"
      /\ UNCHANGED <<processes, pending, pid, do_sigchld, uloop_cancelled,
                     unsignalled>>
  BY DEF WaitpidSome, Top, listVars
<1> DEFINE f == [at |-> "walk", pid |-> n, cursor |-> First(processes)]
<1>4. /\ Len(processes) \in Nat
      /\ processes = <<>> => First(processes) = NULL
      /\ processes # <<>> => /\ 1 \in 1..Len(processes)
                             /\ First(processes) = processes[1]
                             /\ processes[1] \in Procs
  <2>1. processes \in Seq(Procs)
    BY <1>1 DEF TypeOK
  <2> QED
    BY <2>1, ElementOfSeq DEF First
<1>5. f \in Run /\ f.at = "walk" /\ f.pid = n /\ f.cursor = First(processes)
  BY <1>4, ProcAssumption DEF Run, Places, Pids
<1>6. stack \in Seq(Run) /\ 1 \in 1..Len(stack) /\ Len(stack) \in Nat
  BY <1>1, <1>3 DEF TypeOK
<1>7. stack' = [stack EXCEPT ![1] = f]
  BY <1>2
<1> HIDE DEF f
<1>8. /\ stack' \in Seq(Run) /\ Len(stack') = Len(stack)
      /\ \A i \in 1..Len(stack) : stack'[i] = IF i = 1 THEN f ELSE stack[i]
  BY <1>5, <1>6, <1>7, ExceptSeq
<1>9. /\ child' \in [Pids -> {"none", "running", "zombie", "reaped"}]
      /\ \A m \in Pids : child'[m] = IF m = n THEN "reaped" ELSE child[m]
  BY <1>1, <1>2 DEF TypeOK
<1>10. Walking(f) /\ ~Walking(stack[1])
  BY <1>3, <1>5 DEF Walking
<1>11. TypeOK'
  BY <1>1, <1>3, <1>8, <1>9 DEF TypeOK
<1>12. OuterInCallbacks'
  BY <1>1, <1>8 DEF OuterInCallbacks
<1>13. ReapedOnce'
  <2>1. \A i \in 1..Len(stack) : Walking(stack[i]) => stack[i].pid # n
    BY <1>1, <1>2 DEF ReapedOnce
  <2> QED
    BY <1>1, <1>5, <1>8, <1>9, <1>10, <2>1 DEF ReapedOnce
<1>14. CursorsSafe'
  <2> SUFFICES ASSUME NEW i \in 1..Len(stack), Walking(stack'[i])
               PROVE  /\ stack'[i].cursor # Dangling
                      /\ stack'[i].cursor \in Procs =>
                            /\ \/ pending[stack'[i].cursor]
                               \/ pid[stack'[i].cursor] > stack'[i].pid
                            /\ stack'[i].at = "procCb" =>
                                  pid[stack'[i].cursor] >= stack'[i].pid
    BY <1>3, <1>8 DEF CursorsSafe
  <2>1. CASE i # 1
    BY <1>1, <1>8, <2>1 DEF CursorsSafe
  <2>2. CASE i = 1
    <3>1. stack'[i].cursor = First(processes) /\ stack'[i].at = "walk"
      BY <1>5, <1>8, <2>2
    <3>2. First(processes) \in Procs => pending[First(processes)]
      BY <1>1, <1>4, ProcAssumption DEF ListSorted, Linked
    <3>3. First(processes) # Dangling
      BY <1>4, ProcAssumption
    <3> QED
      BY <3>1, <3>2, <3>3
  <2> QED
    BY <2>1, <2>2
<1>15. PidsKnown' /\ ListSorted'
  BY <1>1, <1>3 DEF PidsKnown, ListSorted, Linked
<1>16. AnyZombieNoticed'
  BY <1>6, <1>8, <1>10 DEF AnyZombieNoticed
<1>17. NoWatcherLeftBehind'
  <2> SUFFICES ASSUME NEW p \in Procs, pending[p], child'[pid[p]] = "reaped"
               PROVE  \E k \in 1..Len(stack) :
                         \E i, j \in 1..Len(processes) :
                            /\ Walking(stack'[k])
                            /\ stack'[k].pid = pid[p]
                            /\ processes[i] = stack'[k].cursor
                            /\ processes[j] = p
                            /\ i <= j
    BY <1>3, <1>8 DEF NoWatcherLeftBehind
  <2>1. CASE pid[p] = n
    <3>1. PICK j \in 1..Len(processes) : processes[j] = p
      BY <1>1 DEF ListSorted, Linked
    <3>2. 1 \in 1..Len(processes) /\ 1 <= j /\ processes[1] = f.cursor
      BY <1>4, <1>5, <3>1
    <3> QED
      BY <1>5, <1>6, <1>8, <1>10, <2>1, <3>1, <3>2
  <2>2. CASE pid[p] # n
    <3>1. child[pid[p]] = "reaped"
      BY <1>1, <1>9, <2>2 DEF PidsKnown
    <3>2. PICK k \in 1..Len(stack), i \in 1..Len(processes),
               j \in 1..Len(processes) :
             /\ Walking(stack[k])
             /\ stack[k].pid = pid[p]
             /\ processes[i] = stack[k].cursor
             /\ processes[j] = p
             /\ i <= j
      BY <1>1, <3>1 DEF NoWatcherLeftBehind
    <3>3. stack'[k] = stack[k]
      BY <1>8, <1>10, <3>2
    <3> QED
      BY <3>2, <3>3
  <2> QED
    BY <2>1, <2>2
<1> QED
  BY <1>11, <1>12, <1>13, <1>14, <1>15, <1>16, <1>17 DEF Inv

(* The walk ends: no watcher of its child is left, because the list is     *)
(* ordered by pid.                                                         *)
LEMMA WalkEndsInv == ASSUME Inv, WalkEnds PROVE Inv'
<1>1. /\ TypeOK /\ OuterInCallbacks /\ ReapedOnce /\ CursorsSafe /\ PidsKnown
      /\ AnyZombieNoticed /\ ListSorted /\ NoWatcherLeftBehind
  BY DEF Inv
<1>2. /\ stack # <<>> /\ stack[1].at = "walk" /\ WalkDone(stack[1])
      /\ stack' = Goto("waitpid")
      /\ UNCHANGED <<processes, pending, pid, do_sigchld, uloop_cancelled,
                     child, unsignalled>>
  BY DEF WalkEnds, Top, listVars, kernelVars
<1>3. /\ stack' \in Seq(Run)
      /\ Len(stack') = Len(stack)
      /\ 1 \in 1..Len(stack)
      /\ \A i \in 1..Len(stack) :
            /\ stack'[i].at = IF i = 1 THEN "waitpid" ELSE stack[i].at
            /\ stack'[i].pid = stack[i].pid
            /\ stack'[i].cursor = stack[i].cursor
  BY <1>1, <1>2, GotoFacts DEF Places
<1>4. \A i \in 1..Len(stack) : Walking(stack'[i]) <=> Walking(stack[i]) /\ i # 1
  BY <1>3 DEF Walking
<1>5. TypeOK'
  BY <1>1, <1>2, <1>3 DEF TypeOK
<1>6. OuterInCallbacks'
  BY <1>1, <1>3 DEF OuterInCallbacks
<1>7. ReapedOnce'
  BY <1>1, <1>2, <1>3, <1>4 DEF ReapedOnce
<1>8. CursorsSafe'
  BY <1>1, <1>2, <1>3, <1>4 DEF CursorsSafe
<1>9. PidsKnown' /\ ListSorted'
  BY <1>1, <1>2 DEF PidsKnown, ListSorted, Linked
<1>10. AnyZombieNoticed'
  BY <1>2, <1>3 DEF AnyZombieNoticed
<1>11. NoWatcherLeftBehind'
  <2> SUFFICES ASSUME NEW p \in Procs, pending[p], child[pid[p]] = "reaped"
               PROVE  \E k \in 1..Len(stack) :
                         \E i, j \in 1..Len(processes) :
                            /\ Walking(stack'[k])
                            /\ stack'[k].pid = pid[p]
                            /\ processes[i] = stack'[k].cursor
                            /\ processes[j] = p
                            /\ i <= j
    BY <1>2, <1>3 DEF NoWatcherLeftBehind
  <2>1. PICK k \in 1..Len(stack), i \in 1..Len(processes),
             j \in 1..Len(processes) :
           /\ Walking(stack[k])
           /\ stack[k].pid = pid[p]
           /\ processes[i] = stack[k].cursor
           /\ processes[j] = p
           /\ i <= j
    BY <1>1 DEF NoWatcherLeftBehind
  <2>2. k # 1
    <3> SUFFICES ASSUME k = 1 PROVE FALSE
      OBVIOUS
    <3>1. /\ Len(processes) \in Nat /\ processes[i] \in Procs
          /\ pid[processes[i]] \in Nat /\ pid[p] \in Nat
      BY <1>1, ElementFacts
    <3>2. pid[processes[i]] > pid[p]
      BY <1>2, <2>1, <3>1 DEF WalkDone
    <3>3. pid[processes[i]] <= pid[processes[j]]
      BY <1>1, <2>1, <3>1 DEF ListSorted
    <3> QED
      BY <2>1, <3>1, <3>2, <3>3
  <2> QED
    BY <1>3, <1>4, <2>1, <2>2
<1> QED
  BY <1>5, <1>6, <1>7, <1>8, <1>9, <1>10, <1>11 DEF Inv

(* The walk passes the watcher of a child with a smaller pid.              *)
LEMMA WalkSkipsInv == ASSUME Inv, WalkSkips PROVE Inv'
<1>1. /\ TypeOK /\ OuterInCallbacks /\ ReapedOnce /\ CursorsSafe /\ PidsKnown
      /\ AnyZombieNoticed /\ ListSorted /\ NoWatcherLeftBehind
  BY DEF Inv
<1> DEFINE p == stack[1].cursor
<1>2. /\ stack # <<>> /\ stack[1].at = "walk"
      /\ p \in Procs /\ ~(pid[p] > stack[1].pid) /\ pid[p] # stack[1].pid
      /\ stack' = [stack EXCEPT ![1].cursor = Successor(@)]
      /\ UNCHANGED <<processes, pending, pid, do_sigchld, uloop_cancelled,
                     child, unsignalled>>
  BY DEF WalkSkips, WalkDone, WalkMatches, Top, listVars, kernelVars
<1>3. stack \in Seq(Run) /\ 1 \in 1..Len(stack) /\ Len(stack) \in Nat
  BY <1>1, <1>2 DEF TypeOK
<1>4. /\ stack[1] \in Run /\ stack[1].pid \in Nat /\ pid[p] \in Nat
      /\ Len(processes) \in Nat
      /\ \A i \in 1..Len(processes) : processes[i] \in Procs
  BY <1>1, <1>2, <1>3, ElementFacts
<1>5. Walking(stack[1]) /\ pending[p]
  BY <1>1, <1>2, <1>3 DEF Walking, CursorsSafe
<1> HIDE DEF p
<1>6. /\ PlaceOf(p) \in 1..Len(processes)
      /\ processes[PlaceOf(p)] = p
      /\ \A j \in 1..Len(processes) : processes[j] = p => j = PlaceOf(p)
      /\ Successor(p) = IF PlaceOf(p) = Len(processes) THEN NULL
                        ELSE processes[PlaceOf(p) + 1]
  BY <1>1, <1>2, <1>5, SuccessorFacts
<1>7. /\ Successor(p) \in Procs \cup {NULL}
      /\ Successor(p) \in Procs => pending[Successor(p)]
      /\ Successor(p) # Dangling
  <2>1. CASE PlaceOf(p) = Len(processes)
    BY <1>6, <2>1, ProcAssumption
  <2>2. CASE PlaceOf(p) # Len(processes)
    <3>1. PlaceOf(p) + 1 \in 1..Len(processes)
      BY <1>4, <1>6, <2>2
    <3> QED
      BY <1>1, <1>4, <1>6, <2>2, <3>1, ProcAssumption DEF ListSorted, Linked
  <2> QED
    BY <2>1, <2>2
<1> DEFINE f == [stack[1] EXCEPT !.cursor = Successor(p)]
<1>8. /\ f \in Run /\ f.at = "walk" /\ f.pid = stack[1].pid
      /\ f.cursor = Successor(p)
  BY <1>2, <1>4, <1>7 DEF Run
<1>9. stack' = [stack EXCEPT ![1] = f]
  BY <1>2 DEF p
<1> HIDE DEF f
<1>10. /\ stack' \in Seq(Run) /\ Len(stack') = Len(stack)
       /\ \A i \in 1..Len(stack) : stack'[i] = IF i = 1 THEN f ELSE stack[i]
  BY <1>3, <1>8, <1>9, ExceptSeq
<1>11. \A i \in 1..Len(stack) : /\ Walking(stack'[i]) <=> Walking(stack[i])
                                /\ stack'[i].pid = stack[i].pid
  BY <1>5, <1>8, <1>10 DEF Walking
<1>12. TypeOK'
  BY <1>1, <1>2, <1>10 DEF TypeOK
<1>13. OuterInCallbacks'
  BY <1>1, <1>10 DEF OuterInCallbacks
<1>14. ReapedOnce'
  BY <1>1, <1>2, <1>10, <1>11 DEF ReapedOnce
<1>15. CursorsSafe'
  <2> SUFFICES ASSUME NEW i \in 1..Len(stack), Walking(stack'[i])
               PROVE  /\ stack'[i].cursor # Dangling
                      /\ stack'[i].cursor \in Procs =>
                            /\ \/ pending[stack'[i].cursor]
                               \/ pid[stack'[i].cursor] > stack'[i].pid
                            /\ stack'[i].at = "procCb" =>
                                  pid[stack'[i].cursor] >= stack'[i].pid
    BY <1>2, <1>10 DEF CursorsSafe
  <2>1. CASE i # 1
    BY <1>1, <1>10, <2>1 DEF CursorsSafe
  <2>2. CASE i = 1
    BY <1>7, <1>8, <1>10, <2>2
  <2> QED
    BY <2>1, <2>2
<1>16. PidsKnown' /\ ListSorted'
  BY <1>1, <1>2 DEF PidsKnown, ListSorted, Linked
<1>17. AnyZombieNoticed'
  BY <1>2, <1>3, <1>5, <1>10, <1>11 DEF AnyZombieNoticed
<1>18. NoWatcherLeftBehind'
  <2> SUFFICES ASSUME NEW q \in Procs, pending[q], child[pid[q]] = "reaped"
               PROVE  \E k \in 1..Len(stack) :
                         \E i, j \in 1..Len(processes) :
                            /\ Walking(stack'[k])
                            /\ stack'[k].pid = pid[q]
                            /\ processes[i] = stack'[k].cursor
                            /\ processes[j] = q
                            /\ i <= j
    BY <1>2, <1>10 DEF NoWatcherLeftBehind
  <2>1. PICK k \in 1..Len(stack), i \in 1..Len(processes),
             j \in 1..Len(processes) :
           /\ Walking(stack[k])
           /\ stack[k].pid = pid[q]
           /\ processes[i] = stack[k].cursor
           /\ processes[j] = q
           /\ i <= j
    BY <1>1 DEF NoWatcherLeftBehind
  <2>2. CASE k # 1
    BY <1>10, <1>11, <2>1, <2>2
  <2>3. CASE k = 1
    <3>1. processes[i] = p /\ i = PlaceOf(p)
      BY <1>6, <2>1, <2>3 DEF p
    <3>2. i # j
      BY <1>2, <2>1, <2>3, <3>1
    <3>3. i + 1 \in 1..Len(processes) /\ i + 1 <= j
      BY <1>4, <2>1, <3>2
    <3>4. f.cursor = processes[i + 1]
      BY <1>4, <1>6, <1>8, <3>1, <3>3
    <3> QED
      BY <1>10, <1>11, <2>1, <2>3, <3>3, <3>4
  <2> QED
    BY <2>2, <2>3
<1> QED
  BY <1>12, <1>13, <1>14, <1>15, <1>16, <1>17, <1>18 DEF Inv
(* The walk removes a watcher of its child and calls its callback, having  *)
(* saved the entry after it.                                               *)
LEMMA WalkCallsInv == ASSUME Inv, WalkCalls PROVE Inv'
<1>1. /\ TypeOK /\ OuterInCallbacks /\ ReapedOnce /\ CursorsSafe /\ PidsKnown
      /\ AnyZombieNoticed /\ ListSorted /\ NoWatcherLeftBehind
  BY DEF Inv
<1> DEFINE p == stack[1].cursor
<1>2. /\ stack # <<>> /\ stack[1].at = "walk"
      /\ p \in Procs /\ pid[p] = stack[1].pid
      /\ stack' = [stack EXCEPT ![1].at = "procCb", ![1].cursor = Successor(p)]
      /\ Unlink(p)
      /\ UNCHANGED <<pid, do_sigchld, uloop_cancelled, child, unsignalled>>
  BY DEF WalkCalls, WalkDone, WalkMatches, Top, listVars, kernelVars
<1>3. stack \in Seq(Run) /\ 1 \in 1..Len(stack) /\ Len(stack) \in Nat
  BY <1>1, <1>2 DEF TypeOK
<1>4. /\ stack[1] \in Run /\ stack[1].pid \in Nat /\ pid[p] \in Nat
      /\ Len(processes) \in Nat
      /\ \A i \in 1..Len(processes) : processes[i] \in Procs
      /\ \A q \in Procs : pid[q] \in Nat
      /\ \A i \in 1..Len(stack) : stack[i].pid \in Nat
  BY <1>1, <1>2, <1>3, ElementFacts
<1>5. Walking(stack[1]) /\ pending[p]
  BY <1>1, <1>2, <1>3, <1>4 DEF Walking, CursorsSafe
<1> HIDE DEF p
<1>6. /\ PlaceOf(p) \in 1..Len(processes)
      /\ processes[PlaceOf(p)] = p
      /\ \A j \in 1..Len(processes) : processes[j] = p => j = PlaceOf(p)
      /\ Successor(p) = IF PlaceOf(p) = Len(processes) THEN NULL
                        ELSE processes[PlaceOf(p) + 1]
  BY <1>1, <1>2, <1>5, SuccessorFacts
<1>7. /\ Successor(p) \in Procs \cup {NULL}
      /\ Successor(p) \in Procs => /\ pending[Successor(p)]
                                   /\ Successor(p) # p
                                   /\ pid[Successor(p)] >= pid[p]
      /\ Successor(p) # Dangling
  <2>1. CASE PlaceOf(p) = Len(processes)
    BY <1>6, <2>1, ProcAssumption
  <2>2. CASE PlaceOf(p) # Len(processes)
    <3>1. /\ PlaceOf(p) + 1 \in 1..Len(processes)
          /\ PlaceOf(p) < PlaceOf(p) + 1
      BY <1>4, <1>6, <2>2
    <3>2. Successor(p) \in Procs /\ Successor(p) = processes[PlaceOf(p) + 1]
      BY <1>4, <1>6, <2>2, <3>1
    <3>3. pending[Successor(p)]
      BY <1>1, <3>1, <3>2 DEF ListSorted, Linked
    <3>4. Successor(p) # p /\ pid[p] <= pid[Successor(p)]
      BY <1>1, <1>6, <3>1, <3>2 DEF ListSorted
    <3> QED
      BY <1>4, <3>2, <3>3, <3>4, ProcAssumption
  <2> QED
    BY <2>1, <2>2
<1> DEFINE f == [stack[1] EXCEPT !.at = "procCb", !.cursor = Successor(p)]
<1>8. /\ f \in Run /\ f.at = "procCb" /\ f.pid = stack[1].pid
      /\ f.cursor = Successor(p)
  BY <1>2, <1>4, <1>7 DEF Run, Places, Callbacks
<1>9. stack' = [stack EXCEPT ![1] = f]
  BY <1>2, <1>3
<1> HIDE DEF f
<1>10. /\ stack' \in Seq(Run) /\ Len(stack') = Len(stack)
       /\ \A i \in 1..Len(stack) : stack'[i] = IF i = 1 THEN f ELSE stack[i]
  BY <1>3, <1>8, <1>9, ExceptSeq
<1>11. \A i \in 1..Len(stack) : /\ Walking(stack'[i]) <=> Walking(stack[i])
                                /\ stack'[i].pid = stack[i].pid
  BY <1>5, <1>8, <1>10 DEF Walking
<1>12. /\ processes' \in Seq(Procs)
       /\ pending' \in [Procs -> BOOLEAN]
       /\ \A q \in Procs : pending'[q] <=> pending[q] /\ q # p
       /\ ListSorted'
       /\ \A i, j \in 1..Len(processes) :
             i <= j /\ processes[i] # p /\ processes[j] # p =>
                \E m, n \in 1..Len(processes') :
                   /\ m <= n
                   /\ processes'[m] = processes[i]
                   /\ processes'[n] = processes[j]
  BY <1>2, <1>5, UnlinkFacts
\* A loop around this one that saved p is about a smaller pid.
<1>13. ASSUME NEW i \in 1..Len(stack), i # 1, Walking(stack[i]),
              stack[i].cursor = p
       PROVE  pid[p] > stack[i].pid
  <2>1. stack[i].at = "procCb"
    BY <1>1, <1>3, <1>13 DEF OuterInCallbacks, Walking, Callbacks
  <2>2. pid[p] >= stack[i].pid
    BY <1>1, <1>2, <1>13, <2>1 DEF CursorsSafe
  <2>3. stack[i].pid # stack[1].pid
    BY <1>1, <1>3, <1>5, <1>13 DEF ReapedOnce
  <2> QED
    BY <1>2, <1>4, <2>2, <2>3
<1>14. TypeOK'
  BY <1>1, <1>2, <1>10, <1>12 DEF TypeOK
<1>15. OuterInCallbacks'
  BY <1>1, <1>10 DEF OuterInCallbacks
<1>16. ReapedOnce'
  BY <1>1, <1>2, <1>10, <1>11 DEF ReapedOnce
<1>17. CursorsSafe'
  <2> SUFFICES ASSUME NEW i \in 1..Len(stack), Walking(stack'[i])
               PROVE  /\ stack'[i].cursor # Dangling
                      /\ stack'[i].cursor \in Procs =>
                            /\ \/ pending'[stack'[i].cursor]
                               \/ pid[stack'[i].cursor] > stack'[i].pid
                            /\ stack'[i].at = "procCb" =>
                                  pid[stack'[i].cursor] >= stack'[i].pid
    BY <1>2, <1>10 DEF CursorsSafe
  <2>1. CASE i # 1
    <3>1. stack'[i] = stack[i] /\ Walking(stack[i])
      BY <1>10, <2>1
    <3>2. CASE stack[i].cursor = p
      BY <1>1, <1>13, <2>1, <3>1, <3>2 DEF CursorsSafe
    <3>3. CASE stack[i].cursor # p
      BY <1>1, <1>12, <3>1, <3>3 DEF CursorsSafe
    <3> QED
      BY <3>2, <3>3
  <2>2. CASE i = 1
    BY <1>2, <1>7, <1>8, <1>10, <1>12, <2>2
  <2> QED
    BY <2>1, <2>2
<1>18. PidsKnown'
  BY <1>1, <1>2, <1>12 DEF PidsKnown
<1>19. AnyZombieNoticed'
  BY <1>2, <1>3, <1>5, <1>10, <1>11 DEF AnyZombieNoticed
<1>20. NoWatcherLeftBehind'
  <2> SUFFICES ASSUME NEW q \in Procs, pending[q], q # p,
                      child[pid[q]] = "reaped"
               PROVE  \E k \in 1..Len(stack) :
                         \E m, n \in 1..Len(processes') :
                            /\ Walking(stack'[k])
                            /\ stack'[k].pid = pid[q]
                            /\ processes'[m] = stack'[k].cursor
                            /\ processes'[n] = q
                            /\ m <= n
    <3>1. \A q \in Procs : pending'[q] => pending[q] /\ q # p
      BY <1>12
    <3> QED
      BY <1>2, <1>10, <3>1, SMTT(30) DEF NoWatcherLeftBehind
  <2>1. PICK k \in 1..Len(stack), i \in 1..Len(processes),
             j \in 1..Len(processes) :
           /\ Walking(stack[k])
           /\ stack[k].pid = pid[q]
           /\ processes[i] = stack[k].cursor
           /\ processes[j] = q
           /\ i <= j
    BY <1>1 DEF NoWatcherLeftBehind
  <2>2. CASE k # 1
    <3>1. processes[i] # p
      <4> SUFFICES ASSUME processes[i] = p PROVE FALSE
        OBVIOUS
      <4>1. pid[p] > pid[q]
        BY <1>13, <2>1, <2>2
      <4>2. i < j
        BY <2>1
      <4>3. pid[p] <= pid[q]
        BY <1>1, <2>1, <4>2 DEF ListSorted
      <4> QED
        BY <1>2, <1>4, <4>1, <4>3
    <3>2. PICK m \in 1..Len(processes'), n \in 1..Len(processes') :
             /\ m <= n
             /\ processes'[m] = processes[i]
             /\ processes'[n] = processes[j]
      BY <1>12, <2>1, <3>1
    <3> QED
      BY <1>10, <1>11, <2>1, <2>2, <3>2
  <2>3. CASE k = 1
    <3>1. processes[i] = p /\ i = PlaceOf(p)
      BY <1>6, <2>1, <2>3 DEF p
    <3>2. i # j
      BY <2>1, <3>1
    <3>3. i + 1 \in 1..Len(processes) /\ i + 1 <= j /\ i + 1 # i
      BY <1>4, <2>1, <3>2
    <3>4. f.cursor = processes[i + 1] /\ processes[i + 1] # p
      BY <1>4, <1>6, <1>8, <3>1, <3>3
    <3>5. PICK m \in 1..Len(processes'), n \in 1..Len(processes') :
             /\ m <= n
             /\ processes'[m] = processes[i + 1]
             /\ processes'[n] = processes[j]
      BY <1>12, <2>1, <3>3, <3>4
    <3> QED
      BY <1>10, <1>11, <2>1, <2>3, <3>4, <3>5, SMTT(30)
  <2> QED
    BY <2>2, <2>3
<1> QED
  BY <1>12, <1>14, <1>15, <1>16, <1>17, <1>18, <1>19, <1>20 DEF Inv
-----------------------------------------------------------------------------
\* The application runs: no loop looks at the list just now.
LEMMA AppCodeFacts ==
    ASSUME Inv, AppCode, NEW i \in 1..Len(stack), Walking(stack[i])
    PROVE  stack[i].at = "procCb"
<1>1. Len(stack) \in Nat /\ stack # <<>>
  BY ElementFacts DEF Inv
<1>2. CASE i = 1
  BY <1>1, <1>2 DEF AppCode, Walking
<1>3. CASE i > 1
  BY <1>3 DEF Inv, OuterInCallbacks, Walking, Callbacks
<1> QED
  BY <1>2, <1>3

(* uloop_process_add, of an entry that no walk will look at by mistake.    *)
LEMMA AddInv ==
    ASSUME Inv, NEW p \in Procs, NEW n \in Pids, uloop_process_add(p, n)
    PROVE  Inv'
<1>1. /\ TypeOK /\ OuterInCallbacks /\ ReapedOnce /\ CursorsSafe /\ PidsKnown
      /\ AnyZombieNoticed /\ ListSorted /\ NoWatcherLeftBehind
  BY DEF Inv
<1>2. /\ AppCode /\ ~pending[p] /\ child[n] \in {"running", "zombie"}
      /\ SafeForWalks(p, n)
      /\ pid' = [pid EXCEPT ![p] = n]
      /\ pending' = [pending EXCEPT ![p] = TRUE]
      /\ \E k \in InsertPositions(n) : processes' = InsertAt(processes, k, p)
      /\ UNCHANGED <<do_sigchld, uloop_cancelled, stack, child, unsignalled>>
  BY DEF uloop_process_add, kernelVars
<1>3. /\ processes' \in Seq(Procs)
      /\ pending' \in [Procs -> BOOLEAN]
      /\ pid' \in [Procs -> Nat]
      /\ \A q \in Procs : /\ pending'[q] <=> pending[q] \/ q = p
                          /\ pid'[q] = IF q = p THEN n ELSE pid[q]
      /\ ListSorted'
      /\ \A i, j \in 1..Len(processes) : i <= j =>
            \E l, m \in 1..Len(processes') :
               /\ l <= m
               /\ processes'[l] = processes[i]
               /\ processes'[m] = processes[j]
  BY <1>2, LinkFacts
<1>4. TypeOK'
  BY <1>1, <1>2, <1>3 DEF TypeOK
<1>5. OuterInCallbacks' /\ ReapedOnce' /\ AnyZombieNoticed'
  BY <1>1, <1>2 DEF OuterInCallbacks, ReapedOnce, AnyZombieNoticed
<1>6. CursorsSafe'
  <2> SUFFICES ASSUME NEW i \in 1..Len(stack), Walking(stack[i])
               PROVE  /\ stack[i].cursor # Dangling
                      /\ stack[i].cursor \in Procs =>
                            /\ \/ pending'[stack[i].cursor]
                               \/ pid'[stack[i].cursor] > stack[i].pid
                            /\ stack[i].at = "procCb" =>
                                  pid'[stack[i].cursor] >= stack[i].pid
    BY <1>2 DEF CursorsSafe
  <2>1. CASE stack[i].cursor = p
    <3>1. i \in SavedByWalk(p)
      BY <1>2, <2>1, AppCodeFacts DEF SavedByWalk
    <3>2. n > stack[i].pid /\ stack[i].pid \in Nat /\ n \in Nat
      BY <1>1, <1>2, <3>1, ElementFacts, ProcAssumption DEF SafeForWalks, Pids
    <3> QED
      BY <1>1, <1>3, <2>1, <3>2 DEF CursorsSafe
  <2>2. CASE stack[i].cursor # p
    BY <1>1, <1>3, <2>2 DEF CursorsSafe
  <2> QED
    BY <2>1, <2>2
<1>7. PidsKnown'
  BY <1>1, <1>3 DEF PidsKnown
<1>8. NoWatcherLeftBehind'
  <2> SUFFICES ASSUME NEW q \in Procs, pending'[q], child[pid'[q]] = "reaped"
               PROVE  \E k \in 1..Len(stack) :
                         \E l, m \in 1..Len(processes') :
                            /\ Walking(stack[k])
                            /\ stack[k].pid = pid'[q]
                            /\ processes'[l] = stack[k].cursor
                            /\ processes'[m] = q
                            /\ l <= m
    BY <1>2 DEF NoWatcherLeftBehind
  <2>1. q # p /\ pending[q] /\ pid'[q] = pid[q]
    BY <1>2, <1>3
  <2>2. PICK k \in 1..Len(stack), i \in 1..Len(processes),
             j \in 1..Len(processes) :
           /\ Walking(stack[k])
           /\ stack[k].pid = pid[q]
           /\ processes[i] = stack[k].cursor
           /\ processes[j] = q
           /\ i <= j
    BY <1>1, <2>1 DEF NoWatcherLeftBehind
  <2>3. PICK l \in 1..Len(processes'), m \in 1..Len(processes') :
           /\ l <= m
           /\ processes'[l] = processes[i]
           /\ processes'[m] = processes[j]
    BY <1>3, <2>2, ZenonT(60)
  <2> QED
    BY <2>1, <2>2, <2>3
<1> QED
  BY <1>3, <1>4, <1>5, <1>6, <1>7, <1>8 DEF Inv

(* uloop_process_delete by a callback, of any entry but a watcher that a   *)
(* walk is about to look at for its pid.                                   *)
LEMMA DeleteInv ==
    ASSUME Inv, NEW p \in Procs, uloop_process_delete(p) PROVE Inv'
<1>1. /\ TypeOK /\ OuterInCallbacks /\ ReapedOnce /\ CursorsSafe /\ PidsKnown
      /\ AnyZombieNoticed /\ ListSorted /\ NoWatcherLeftBehind
  BY DEF Inv
<1>2. /\ AppCode /\ pending[p] /\ SafeForWalks(p, pid[p]) /\ Unlink(p)
      /\ UNCHANGED <<pid, do_sigchld, uloop_cancelled, stack, child,
                     unsignalled>>
  BY DEF uloop_process_delete, kernelVars
<1>3. /\ processes' \in Seq(Procs)
      /\ pending' \in [Procs -> BOOLEAN]
      /\ \A q \in Procs : pending'[q] <=> pending[q] /\ q # p
      /\ ListSorted'
      /\ \A i, j \in 1..Len(processes) :
            i <= j /\ processes[i] # p /\ processes[j] # p =>
               \E m, n \in 1..Len(processes') :
                  /\ m <= n
                  /\ processes'[m] = processes[i]
                  /\ processes'[n] = processes[j]
  BY <1>2, UnlinkFacts
<1>4. /\ Len(processes) \in Nat
      /\ \A i \in 1..Len(processes) : processes[i] \in Procs
      /\ \A q \in Procs : pid[q] \in Nat
      /\ \A i \in 1..Len(stack) : stack[i].pid \in Nat
  BY <1>1, ElementFacts
<1>5. ASSUME NEW i \in 1..Len(stack), Walking(stack[i]), stack[i].cursor = p
      PROVE  pid[p] > stack[i].pid
  BY <1>2, <1>5, AppCodeFacts DEF SavedByWalk, SafeForWalks
<1>6. TypeOK'
  BY <1>1, <1>2, <1>3 DEF TypeOK
<1>7. OuterInCallbacks' /\ ReapedOnce' /\ AnyZombieNoticed'
  BY <1>1, <1>2 DEF OuterInCallbacks, ReapedOnce, AnyZombieNoticed
<1>8. CursorsSafe'
  <2> SUFFICES ASSUME NEW i \in 1..Len(stack), Walking(stack[i])
               PROVE  /\ stack[i].cursor # Dangling
                      /\ stack[i].cursor \in Procs =>
                            /\ \/ pending'[stack[i].cursor]
                               \/ pid[stack[i].cursor] > stack[i].pid
                            /\ stack[i].at = "procCb" =>
                                  pid[stack[i].cursor] >= stack[i].pid
    BY <1>2 DEF CursorsSafe
  <2>1. CASE stack[i].cursor = p
    BY <1>1, <1>5, <2>1 DEF CursorsSafe
  <2>2. CASE stack[i].cursor # p
    BY <1>1, <1>3, <2>2 DEF CursorsSafe
  <2> QED
    BY <2>1, <2>2
<1>9. PidsKnown'
  BY <1>1, <1>2, <1>3 DEF PidsKnown
<1>10. NoWatcherLeftBehind'
  <2> SUFFICES ASSUME NEW q \in Procs, pending[q], q # p,
                      child[pid[q]] = "reaped"
               PROVE  \E k \in 1..Len(stack) :
                         \E m, n \in 1..Len(processes') :
                            /\ Walking(stack[k])
                            /\ stack[k].pid = pid[q]
                            /\ processes'[m] = stack[k].cursor
                            /\ processes'[n] = q
                            /\ m <= n
    BY <1>2, <1>3 DEF NoWatcherLeftBehind
  <2>1. PICK k \in 1..Len(stack), i \in 1..Len(processes),
             j \in 1..Len(processes) :
           /\ Walking(stack[k])
           /\ stack[k].pid = pid[q]
           /\ processes[i] = stack[k].cursor
           /\ processes[j] = q
           /\ i <= j
    BY <1>1 DEF NoWatcherLeftBehind
  <2>2. processes[i] # p
    <3> SUFFICES ASSUME processes[i] = p PROVE FALSE
      OBVIOUS
    <3>1. pid[p] > pid[q] /\ i < j
      BY <1>5, <2>1
    <3>2. pid[p] <= pid[q]
      BY <1>1, <2>1, <3>1 DEF ListSorted
    <3> QED
      BY <1>4, <3>1, <3>2
  <2>3. PICK m \in 1..Len(processes'), n \in 1..Len(processes') :
           /\ m <= n
           /\ processes'[m] = processes[i]
           /\ processes'[n] = processes[j]
    BY <1>3, <2>1, <2>2
  <2> QED
    BY <2>1, <2>3
<1> QED
  BY <1>3, <1>6, <1>7, <1>8, <1>9, <1>10 DEF Inv

(* uloop_done clears the list when no loop is active.                      *)
LEMMA DoneInv == ASSUME Inv, uloop_done PROVE Inv'
<1>1. /\ TypeOK /\ AnyZombieNoticed
  BY DEF Inv
<1>2. /\ stack = <<>> /\ processes' = <<>>
      /\ pending' = [p \in Procs |-> FALSE]
      /\ UNCHANGED <<pid, do_sigchld, uloop_cancelled, stack, child,
                     unsignalled>>
  BY DEF uloop_done, kernelVars
<1>3. Len(stack') = 0 /\ Len(processes') = 0 /\ processes' \in Seq(Procs)
  BY <1>2
<1>4. TypeOK'
  BY <1>1, <1>2, <1>3 DEF TypeOK
<1>5. OuterInCallbacks' /\ ReapedOnce' /\ CursorsSafe'
  BY <1>3 DEF OuterInCallbacks, ReapedOnce, CursorsSafe
<1>6. PidsKnown' /\ ListSorted' /\ NoWatcherLeftBehind'
  BY <1>2, <1>3 DEF PidsKnown, ListSorted, Linked, NoWatcherLeftBehind
<1>7. AnyZombieNoticed'
  BY <1>1, <1>2 DEF AnyZombieNoticed
<1> QED
  BY <1>4, <1>5, <1>6, <1>7 DEF Inv
(* Children are forked and exit, and signals arrive: the SIGCHLD handler   *)
(* sets the flag whenever a loop is active.                                *)
LEMMA SignalInv ==
    ASSUME Inv,
           \/ \E n \in Pids : Fork(n) \/ Exit(n)
           \/ Interrupt
           \/ uloop_end
    PROVE  Inv'
<1>1. TypeOK /\ AnyZombieNoticed /\ OthersTyped
  BY DEF Inv, TypeOK, OthersTyped
<1>2. CASE \E n \in Pids : Fork(n)
  <2>1. PICK n \in Pids :
           /\ child[n] = "none"
           /\ child' = [child EXCEPT ![n] = "running"]
           /\ UNCHANGED <<listVars, do_sigchld, uloop_cancelled, stack,
                          unsignalled>>
    BY <1>2 DEF Fork
  <2>2. ListAndReapedKept /\ OthersTyped' /\ stack' = stack
    BY <1>1, <2>1 DEF ListAndReapedKept, OthersTyped
  <2>3. AnyZombieNoticed'
    BY <1>1, <2>1 DEF AnyZombieNoticed, OthersTyped
  <2> QED
    BY <2>2, <2>3, StackUnchangedInv
<1>3. CASE \E n \in Pids : Exit(n)
  <2>1. PICK n \in Pids :
           /\ child[n] = "running"
           /\ child' = [child EXCEPT ![n] = "zombie"]
           /\ IF stack # <<>>
              THEN do_sigchld' = TRUE /\ UNCHANGED unsignalled
              ELSE /\ unsignalled' = unsignalled \cup {n}
                   /\ UNCHANGED do_sigchld
           /\ stack' = Interrupted
           /\ UNCHANGED <<listVars, uloop_cancelled>>
    BY <1>3 DEF Exit
  <2>2. ListAndReapedKept /\ OthersTyped'
    BY <1>1, <2>1 DEF ListAndReapedKept, OthersTyped
  <2>3. AnyZombieNoticed'
    <3>1. CASE stack # <<>>
      BY <2>1, <3>1 DEF AnyZombieNoticed
    <3>2. CASE stack = <<>>
      <4>1. Len(stack) = 0
        BY <3>2
      <4> QED
        BY <1>1, <2>1, <3>2, <4>1 DEF AnyZombieNoticed, OthersTyped
    <3> QED
      BY <3>1, <3>2
  <2>4. CASE Top("asleep")
    <3>1. /\ stack # <<>> /\ stack' = Goto("loop") /\ "loop" \in Places
          /\ ~Walking(stack[1])
      BY <2>1, <2>4 DEF Interrupted, Top, Places, Walking
    <3> QED
      BY <2>2, <2>3, <3>1, PlaceChangeInv
  <2>5. CASE ~Top("asleep")
    BY <2>1, <2>2, <2>3, <2>5, StackUnchangedInv DEF Interrupted
  <2> QED
    BY <2>4, <2>5
<1>4. CASE Interrupt
  <2>1. /\ uloop_cancelled' = TRUE /\ stack' = Interrupted
        /\ UNCHANGED <<listVars, do_sigchld, child, unsignalled>>
    BY <1>4 DEF Interrupt, kernelVars
  <2>2. ListAndReapedKept /\ OthersTyped'
    BY <1>1, <2>1 DEF ListAndReapedKept, OthersTyped
  <2>3. CASE Top("asleep")
    <3>1. /\ stack # <<>> /\ stack' = Goto("loop") /\ "loop" \in Places
          /\ ~Walking(stack[1]) /\ stack[1].at # "waitpid"
      BY <2>1, <2>3 DEF Interrupted, Top, Places, Walking
    <3>2. /\ Len(stack') = Len(stack)
          /\ \A i \in 1..Len(stack) :
                stack'[i].at = IF i = 1 THEN "loop" ELSE stack[i].at
      BY <1>1, <3>1, GotoFacts
    <3>3. AnyZombieNoticed'
      BY <1>1, <2>1, <3>1, <3>2 DEF AnyZombieNoticed, Walking
    <3> QED
      BY <2>2, <3>1, <3>3, PlaceChangeInv
  <2>4. CASE ~Top("asleep")
    <3>1. stack' = stack /\ AnyZombieNoticed'
      BY <1>1, <2>1, <2>4 DEF Interrupted, AnyZombieNoticed
    <3> QED
      BY <2>2, <3>1, StackUnchangedInv
  <2> QED
    BY <2>3, <2>4
<1>5. CASE uloop_end
  <2>1. /\ uloop_cancelled' = TRUE
        /\ UNCHANGED <<listVars, do_sigchld, stack, child, unsignalled>>
    BY <1>5 DEF uloop_end, kernelVars
  <2>2. ListAndReapedKept /\ OthersTyped' /\ stack' = stack
    BY <1>1, <2>1 DEF ListAndReapedKept, OthersTyped
  <2>3. AnyZombieNoticed'
    BY <1>1, <2>1 DEF AnyZombieNoticed
  <2> QED
    BY <2>2, <2>3, StackUnchangedInv
<1> QED
  BY <1>2, <1>3, <1>4, <1>5

\* A step that only moves the innermost loop, between places at which it is
\* not handling dead children.
Moves(from, place) ==
    /\ Top(from) /\ stack' = Goto(place)
    /\ UNCHANGED <<listVars, do_sigchld, uloop_cancelled, child, unsignalled>>

LEMMA MovesInv ==
    ASSUME Inv, NEW from \in Places \ {"walk", "procCb", "waitpid"},
           NEW place \in Places \ {"walk", "procCb"}, Moves(from, place)
    PROVE  Inv'
<1>1. TypeOK /\ AnyZombieNoticed /\ OthersTyped
  BY DEF Inv, TypeOK, OthersTyped
<1>2. /\ stack # <<>> /\ stack[1].at = from
      /\ stack' = Goto(place)
      /\ UNCHANGED <<listVars, do_sigchld, uloop_cancelled, child, unsignalled>>
      /\ ~Walking(stack[1])
  BY DEF Moves, Top, Walking
<1>3. /\ Len(stack') = Len(stack)
      /\ \A i \in 1..Len(stack) :
            stack'[i].at = IF i = 1 THEN place ELSE stack[i].at
  BY <1>1, <1>2, GotoFacts
<1>4. AnyZombieNoticed'
  BY <1>1, <1>2, <1>3 DEF AnyZombieNoticed, Walking
<1>5. ListAndReapedKept /\ OthersTyped'
  BY <1>1, <1>2 DEF ListAndReapedKept, OthersTyped
<1> QED
  BY <1>2, <1>4, <1>5, PlaceChangeInv

(* while (!uloop_cancelled), and the test in front of epoll_wait.          *)
LEMMA TestCancelledInv == ASSUME Inv, LoopTest \/ BreakTest PROVE Inv'
<1>1. PICK from \in {"loop", "break"}, onward \in {"timers", "poll"} :
         TestCancelled(from, onward)
  BY DEF LoopTest, BreakTest
<1>2. CASE uloop_cancelled
  <2>1. /\ stack # <<>> /\ ~Walking(stack[1]) /\ stack[1].at # "waitpid"
        /\ stack' = Tail(stack)
        /\ UNCHANGED <<processes, pending, pid, do_sigchld, uloop_cancelled,
                       child, unsignalled>>
    BY <1>1, <1>2 DEF TestCancelled, Top, Walking, listVars, kernelVars
  <2> QED
    BY <2>1, LeaveRunInv
<1>3. CASE ~uloop_cancelled
  <2>1. Moves(from, onward)
    BY <1>1, <1>3 DEF TestCancelled, Moves, kernelVars
  <2> QED
    BY <1>1, <2>1, MovesInv DEF Places, Callbacks
<1> QED
  BY <1>2, <1>3

(* uloop_run looks at do_sigchld; the waitpid loop that answers it begins. *)
LEMMA CheckSigchldInv == ASSUME Inv, CheckSigchld PROVE Inv'
<1>1. TypeOK /\ AnyZombieNoticed /\ OthersTyped
  BY DEF Inv, TypeOK, OthersTyped
<1> DEFINE place == IF do_sigchld THEN "waitpid" ELSE "break"
<1>2. /\ stack # <<>> /\ stack[1].at = "timers" /\ ~Walking(stack[1])
      /\ stack' = Goto(place) /\ do_sigchld' = FALSE
      /\ place \in Places \ {"walk", "procCb"}
      /\ UNCHANGED <<listVars, uloop_cancelled, child, unsignalled>>
  BY DEF CheckSigchld, Top, Walking, Places, kernelVars
<1>3. place = "waitpid" <=> do_sigchld
  OBVIOUS
<1> HIDE DEF place
<1>4. /\ Len(stack') = Len(stack) /\ 1 \in 1..Len(stack)
      /\ \A i \in 1..Len(stack) :
            stack'[i].at = IF i = 1 THEN place ELSE stack[i].at
  BY <1>1, <1>2, GotoFacts
<1>5. AnyZombieNoticed'
  <2>1. CASE do_sigchld
    BY <1>3, <1>4, <2>1 DEF AnyZombieNoticed
  <2>2. CASE ~do_sigchld
    BY <1>1, <1>2, <1>4, <2>2 DEF AnyZombieNoticed, Walking
  <2> QED
    BY <2>1, <2>2
<1>6. ListAndReapedKept /\ OthersTyped'
  BY <1>1, <1>2 DEF ListAndReapedKept, OthersTyped
<1> QED
  BY <1>2, <1>5, <1>6, PlaceChangeInv

(* waitpid finds no dead child any more.                                   *)
LEMMA WaitpidNoneInv == ASSUME Inv, WaitpidNone PROVE Inv'
<1>1. TypeOK /\ OthersTyped
  BY DEF Inv, TypeOK, OthersTyped
<1>2. /\ stack # <<>> /\ ~Walking(stack[1]) /\ stack' = Goto("break")
      /\ \A n \in Pids : child[n] # "zombie"
      /\ UNCHANGED <<listVars, do_sigchld, uloop_cancelled, child, unsignalled>>
  BY DEF WaitpidNone, Top, Walking, kernelVars
<1>3. AnyZombieNoticed' /\ ListAndReapedKept /\ OthersTyped'
  BY <1>1, <1>2 DEF AnyZombieNoticed, ListAndReapedKept, OthersTyped
<1> QED
  BY <1>2, <1>3, PlaceChangeInv DEF Places

(* A callback returns to the loop, or to the walk that called it.          *)
LEMMA CallbackReturnsInv == ASSUME Inv, CallbackReturns PROVE Inv'
<1>1. TypeOK /\ AnyZombieNoticed /\ OthersTyped
  BY DEF Inv, TypeOK, OthersTyped
<1>2. /\ stack # <<>> /\ stack[1].at \in {"timerCb", "fdCb", "procCb"}
      /\ UNCHANGED <<listVars, do_sigchld, uloop_cancelled, child, unsignalled>>
      /\ stack[1].at = "timerCb" => stack' = Goto("timers")
      /\ stack[1].at = "procCb" => stack' = Goto("walk")
      /\ stack[1].at = "fdCb" => stack' = Goto("loop")
  BY DEF CallbackReturns, AppCode, kernelVars
<1>3. CASE stack[1].at = "procCb"
  <2>1. Walking(stack[1]) /\ stack' = Goto("walk") /\ "walk" \in Places
    BY <1>2, <1>3 DEF Walking, Places
  <2>2. /\ Len(stack') = Len(stack) /\ 1 \in 1..Len(stack)
        /\ \A i \in 1..Len(stack) :
              stack'[i].at = IF i = 1 THEN "walk" ELSE stack[i].at
    BY <1>1, <1>2, <2>1, GotoFacts
  <2>3. AnyZombieNoticed'
    BY <2>2 DEF AnyZombieNoticed, Walking
  <2>4. ListAndReapedKept /\ OthersTyped'
    BY <1>1, <1>2 DEF ListAndReapedKept, OthersTyped
  <2> QED
    BY <1>2, <2>1, <2>3, <2>4, PlaceChangeInv
<1>4. CASE stack[1].at # "procCb"
  <2>1. \/ Moves("timerCb", "timers")
        \/ Moves("fdCb", "loop")
    BY <1>2, <1>4 DEF Moves, Top
  <2> QED
    BY <2>1, MovesInv DEF Places, Callbacks
<1> QED
  BY <1>3, <1>4
-----------------------------------------------------------------------------
LEMMA InvInit == Init => Inv
<1> SUFFICES ASSUME Init PROVE Inv
  OBVIOUS
<1>1. /\ processes = <<>> /\ stack = <<>>
      /\ processes \in Seq(Procs) /\ stack \in Seq(Run)
      /\ Len(processes) = 0 /\ Len(stack) = 0
  BY DEF Init
<1>2. /\ pending = [p \in Procs |-> FALSE]
      /\ child = [n \in Pids |-> "none"]
  BY DEF Init
<1>3. TypeOK
  BY <1>1 DEF Init, TypeOK
<1>4. OuterInCallbacks /\ ReapedOnce /\ CursorsSafe
  BY <1>1 DEF OuterInCallbacks, ReapedOnce, CursorsSafe
<1>5. PidsKnown /\ AnyZombieNoticed /\ ListSorted /\ NoWatcherLeftBehind
  BY <1>1, <1>2
     DEF PidsKnown, AnyZombieNoticed, ListSorted, Linked, NoWatcherLeftBehind
<1> QED
  BY <1>3, <1>4, <1>5 DEF Inv

(* The inductive step: every operation, signal and step of the loop.       *)
LEMMA InvNext == Inv /\ [Next]_vars => Inv'
<1> SUFFICES ASSUME Inv, [Next]_vars PROVE Inv'
  OBVIOUS
<1>1. ASSUME NEW p \in Procs, NEW n \in Pids, uloop_process_add(p, n)
      PROVE  Inv'
  BY <1>1, AddInv
<1>2. ASSUME NEW p \in Procs, uloop_process_delete(p) PROVE Inv'
  BY <1>2, DeleteInv
<1>3. CASE uloop_done
  BY <1>3, DoneInv
<1>4. CASE \/ \E n \in Pids : Fork(n) \/ Exit(n)
           \/ Interrupt
           \/ uloop_end
  BY <1>4, SignalInv
<1>5. CASE EnterRun
  BY <1>5, EnterRunInv
<1>6. CASE LoopTest \/ BreakTest
  BY <1>6, TestCancelledInv
<1>7. CASE TimerCallback \/ FdCallback \/ FallAsleep \/ PollTimesOut
  <2>1. \/ Moves("timers", "timerCb") \/ Moves("poll", "fdCb")
        \/ Moves("asleep", "fdCb") \/ Moves("poll", "asleep")
        \/ Moves("asleep", "loop")
    BY <1>7
       DEF TimerCallback, FdCallback, FallAsleep, PollTimesOut, Moves,
           kernelVars
  <2> QED
    BY <2>1, MovesInv DEF Places, Callbacks
<1>8. CASE CheckSigchld
  BY <1>8, CheckSigchldInv
<1>9. CASE WaitpidSome
  BY <1>9, WaitpidSomeInv
<1>10. CASE WaitpidNone
  BY <1>10, WaitpidNoneInv
<1>11. CASE WalkEnds
  BY <1>11, WalkEndsInv
<1>12. CASE WalkSkips
  BY <1>12, WalkSkipsInv
<1>13. CASE WalkCalls
  BY <1>13, WalkCallsInv
<1>14. CASE CallbackReturns
  BY <1>14, CallbackReturnsInv
<1>15. CASE UNCHANGED vars
  <2>1. ListAndReapedKept /\ OthersTyped' /\ stack' = stack
        /\ AnyZombieNoticed'
    BY <1>15
       DEF vars, listVars, kernelVars, ListAndReapedKept, Inv, TypeOK,
           OthersTyped, AnyZombieNoticed
  <2> QED
    BY <2>1, StackUnchangedInv
<1> QED
  BY <1>1, <1>2, <1>3, <1>4, <1>5, <1>6, <1>7, <1>8, <1>9, <1>10, <1>11,
     <1>12, <1>13, <1>14, <1>15 DEF Next

LEMMA InvAlways == Spec => []Inv
  BY InvInit, InvNext, PTL DEF Spec
-----------------------------------------------------------------------------
(* uloop_process_add and uloop_process_delete keep the list ordered by pid *)
(* and equal to the pending processes.                                     *)
THEOREM ListStaysSorted == Spec => []ListSorted
<1>1. Inv => ListSorted
  BY DEF Inv
<1> QED
  BY <1>1, InvAlways, PTL

(* The walk of uloop_handle_processes never follows the links of an entry  *)
(* that a callback, or a loop nested in it, removed.                       *)
THEOREM WalkStaysInList == Spec => []WalkNotLost
<1>1. Inv => WalkNotLost
  BY DEF Inv, CursorsSafe, Walking, WalkNotLost
<1> QED
  BY <1>1, InvAlways, PTL

(* The SIGCHLD handler and the order in which uloop_run and                *)
(* uloop_handle_processes clear the flag and call waitpid lose no child.   *)
THEOREM NoZombieForgotten == Spec => []ZombieNoticed
<1>1. Inv => ZombieNoticed
  BY DEF Inv, PidsKnown, AnyZombieNoticed, ZombieNoticed
<1> QED
  BY <1>1, InvAlways, PTL

(* uloop_handle_processes finds every watcher of a child that it waited    *)
(* for, whatever the callbacks do to the list.                             *)
THEOREM AllWatchersFound == Spec => []NoWatcherLeftBehind
<1>1. Inv => NoWatcherLeftBehind
  BY DEF Inv
<1> QED
  BY <1>1, InvAlways, PTL
=============================================================================
