------------------------------ MODULE SafeList ------------------------------
(***************************************************************************)
(* safe_list.c on the doubly linked lists of list.h, with the pointers of  *)
(* the code.  An active safe_list_for_each has an iterator on the stack,   *)
(* here the number of the call, which holds the entry to visit next.  Each *)
(* entry is the head of a chain of the iterators that wait in front of it; *)
(* deleting the entry moves its chain on to the next one.                  *)
(*                                                                         *)
(* The chain pointers node->i and iterator->next_i are kept in one         *)
(* function `ptr`, because iterator->head points to either.                *)
(***************************************************************************)
EXTENDS Naturals, Sequences, SequencesExt, FiniteSets

CONSTANTS
    Entries,   \* the struct safe_list objects the application links
    HEAD,      \* the list head
    NULL,
    MaxDepth   \* bound on nested calls of safe_list_for_each

Nodes == Entries \cup {HEAD}
Iterators == 1..MaxDepth

ASSUME SafeListAssumption ==
    /\ IsFiniteSet(Entries)
    /\ HEAD \notin Entries /\ NULL \notin Nodes \cup Iterators
    /\ MaxDepth \in Nat
    /\ Nodes \cap Iterators = {}

VARIABLES
    next, prev,  \* list.next and list.prev of every node
    ptr,         \* node->i of every node, iterator->next_i of every iterator
    head,        \* iterator->head: where the pointer to the iterator is
    inext,       \* iterator->next: the entry it waits for
    calls,       \* the active calls of safe_list_for_each: cur, and what
                 \* they owe and have seen (history, see SafeIteration)
    ret          \* what safe_list_for_each last returned, as a Boolean

vars == <<next, prev, ptr, head, inext, calls, ret>>
links == <<next, prev>>
iters == [ptr |-> ptr, head |-> head, inext |-> inext]

SetIters(m) == ptr' = m.ptr /\ head' = m.head /\ inext' = m.inext
-----------------------------------------------------------------------------
(***************************************************************************)
(* list.h                                                                  *)
(***************************************************************************)
_list_add(e, p, n) ==
    /\ prev' = [prev EXCEPT ![n] = e, ![e] = p]
    /\ next' = [next EXCEPT ![e] = n, ![p] = e]

list_del(e) ==
    /\ prev' = [prev EXCEPT ![next[e]] = prev[e], ![e] = NULL]
    /\ next' = [next EXCEPT ![prev[e]] = next[e], ![e] = NULL]

IsLinked(e) == next[e] # NULL

\* The nodes that nx leads to from HEAD, as many as are linked.
ListOf(nx) ==
    LET size == Cardinality({e \in Entries : nx[e] # NULL})
        at[k \in 0..size] == IF k = 0 THEN HEAD ELSE nx[at[k - 1]]
    IN  [k \in 1..size |-> at[k]]

Listed == ListOf(next)
-----------------------------------------------------------------------------
(***************************************************************************)
(* Iterators.  The operators map the iterator pointers before to those     *)
(* after a statement.                                                      *)
(***************************************************************************)

\* mutant: the iterator waits for n itself
SetIteratorHere(m, n, i) ==
    [ptr   |-> [m.ptr EXCEPT ![n] = i, ![i] = m.ptr[n]],
     head  |-> [j \in Iterators |-> IF j = m.ptr[n] THEN i
                                    ELSE IF j = i THEN n ELSE m.head[j]],
     inext |-> [m.inext EXCEPT ![i] = n]]

\* __safe_list_set_iterator: i becomes the first in the chain of the node
\* after n.
SetIterator(m, n, i) ==
    LET to    == next[n]
        after == m.ptr[to]
    IN  [ptr   |-> [m.ptr EXCEPT ![to] = i, ![i] = after],
         head  |-> [j \in Iterators |-> IF j = after THEN i
                                        ELSE IF j = i THEN to ELSE m.head[j]],
         inext |-> [m.inext EXCEPT ![i] = to]]

\* mutant: the back pointer of the iterator behind i is not updated
DelIteratorHalf(m, i) == [m EXCEPT !.ptr[m.head[i]] = m.ptr[i]]

\* __safe_list_del_iterator
DelIterator(m, i) ==
    [m EXCEPT !.ptr[m.head[i]] = m.ptr[i],
              !.head = [j \in Iterators |->
                           IF j = m.ptr[i] THEN m.head[i] ELSE @[j]]]

\* __safe_list_move_iterator
MoveIterator(m, n, i) == SetIterator(DelIterator(m, i), n, i)

\* safe_list_for_each removes its iterator and returns: the iterator is gone.
EndIterator(m, i) ==
    [DelIterator(m, i) EXCEPT !.ptr[i] = NULL,
                              !.head[i] = NULL, !.inext[i] = NULL]

\* The iterators in the chain that starts at node n: the first of them, and
\* with each of them the one behind it.
Chain(m, n) ==
    LET Closed(C) == \A a \in C \cup {n} : m.ptr[a] \in C \cup {NULL}
    IN  {i \in Iterators : \A C \in SUBSET Iterators : Closed(C) => i \in C}

\* safe_list_del, once the entry e with iterators waiting is unlinked: they
\* go in front of those that wait for its successor `to`.
HandOver(m, e, to) ==
    LET chain  == Chain(m, e)
        first  == m.ptr[e]
        tail   == CHOOSE i \in chain : m.ptr[i] = NULL
        next_i == m.ptr[to]
    IN  [ptr   |-> [m.ptr EXCEPT ![to] = first, ![tail] = next_i, ![e] = NULL],
         head  |-> [j \in Iterators |-> IF j = next_i THEN tail
                                        ELSE IF j = first THEN to
                                        ELSE m.head[j]],
         inext |-> [j \in Iterators |->
                       IF j \in chain THEN to ELSE m.inext[j]]]
-----------------------------------------------------------------------------
(***************************************************************************)
(* The operations.  Each may be called at any time by the application:     *)
(* outside any iteration, or from a callback of the innermost one.         *)
(***************************************************************************)
safe_list_add(e) ==
    /\ ~IsLinked(e)
    /\ _list_add(e, prev[HEAD], HEAD)
    /\ ptr' = [ptr EXCEPT ![e] = NULL]
    /\ UNCHANGED <<head, inext, calls, ret>>

safe_list_add_first(e) ==
    /\ ~IsLinked(e)
    /\ _list_add(e, HEAD, next[HEAD])
    /\ ptr' = [ptr EXCEPT ![e] = NULL]
    /\ UNCHANGED <<head, inext, calls, ret>>

safe_list_del(e) ==
    /\ IsLinked(e)
    /\ list_del(e)
    /\ SetIters(IF ptr[e] = NULL THEN iters ELSE HandOver(iters, e, next[e]))
    /\ calls' = [k \in DOMAIN calls |->
                    [calls[k] EXCEPT !.owed = @ \ {e}, !.seen = @ \ {e}]]
    /\ UNCHANGED ret

\* safe_list_for_each up to its first callback.
ForEachBegin ==
    LET cur == next[HEAD]
        i   == Len(calls) + 1
    IN  /\ i \in Iterators
        /\ cur # HEAD
        /\ SetIters(SetIterator(iters, cur, i))
        /\ calls' = Append(calls, [cur  |-> cur,
                                   owed |-> ToSet(Listed) \ {cur},
                                   seen |-> {cur},
                                   odd  |-> TRUE])
        /\ UNCHANGED <<links, ret>>

\* A call on an empty list sets its iterator, removes it, and returns.
ForEachEmpty ==
    LET i == Len(calls) + 1
    IN  /\ i \in Iterators
        /\ next[HEAD] = HEAD
        /\ SetIters(EndIterator(SetIterator(iters, HEAD, i), i))
        /\ ret' = FALSE
        /\ UNCHANGED <<links, calls>>

\* The callback returned 0: on to the next entry.
ForEachNext ==
    LET i   == Len(calls)
        cur == inext[i]
    IN  /\ calls # <<>>
        /\ cur # HEAD
        /\ SetIters(MoveIterator(iters, cur, i))
        /\ calls' = [calls EXCEPT ![i] = [cur  |-> cur,
                                          owed |-> @.owed \ {cur},
                                          seen |-> @.seen \cup {cur},
                                          odd  |-> ~@.odd]]
        /\ UNCHANGED <<links, ret>>

\* The callback returned 0 and there is no next entry: the iterator is moved
\* once more, past the head, before it is removed.
ForEachEnd ==
    LET i == Len(calls)
    IN  /\ calls # <<>>
        /\ inext[i] = HEAD
        /\ SetIters(EndIterator(MoveIterator(iters, HEAD, i), i))
        /\ calls' = Front(calls)
        /\ ret' = FALSE
        /\ UNCHANGED links

\* The callback returned something else.
ForEachBreak ==
    /\ calls # <<>>
    /\ SetIters(EndIterator(iters, Len(calls)))
    /\ calls' = Front(calls)
    /\ ret' = TRUE
    /\ UNCHANGED links

Init ==
    /\ next = [n \in Nodes |-> IF n = HEAD THEN HEAD ELSE NULL]
    /\ prev = next
    /\ ptr = [a \in Nodes \cup Iterators |-> NULL]
    /\ head = [i \in Iterators |-> NULL]
    /\ inext = [i \in Iterators |-> NULL]
    /\ calls = <<>>
    /\ ret = FALSE

Next ==
    \/ \E e \in Entries : \/ safe_list_add(e)
                          \/ safe_list_add_first(e)
                          \/ safe_list_del(e)
    \/ ForEachBegin \/ ForEachEmpty \/ ForEachNext
    \/ ForEachEnd \/ ForEachBreak

Spec == Init /\ [][Next]_vars
-----------------------------------------------------------------------------
(***************************************************************************)
(* The iterators that wait for an entry are exactly those in its chain,    *)
(* every one can be unhooked through its head pointer, and none waits for  *)
(* an entry that has been deleted (and may have been freed).               *)
(***************************************************************************)
ChainsExact ==
    /\ \A n \in Nodes :
          Chain(iters, n) = { i \in 1..Len(calls) : inext[i] = n }
    /\ \A i \in 1..Len(calls) : ptr[head[i]] = i /\ IsLinked(inext[i])

(***************************************************************************)
(* Every iteration, at any depth, visits what is linked throughout, in the *)
(* order of the list, nothing twice and nothing that was deleted, before   *)
(* it returns 0.                                                           *)
(***************************************************************************)
Abstract == INSTANCE SafeIteration WITH list <- Listed

ImplementsSafeIteration == Abstract!Spec
=============================================================================
