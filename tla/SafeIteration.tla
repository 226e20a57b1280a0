--------------------------- MODULE SafeIteration ---------------------------
(***************************************************************************)
(* What safe_list.h promises: a list from which a callback may delete any  *)
(* entry and to which it may add entries, in any of the iterations that    *)
(* are active.  There are no iterators here: an active safe_list_for_each  *)
(* is described by the entries it still owes a visit and by those it has   *)
(* visited; `odd` says whether it has made an odd number of visits, so     *)
(* that visiting an entry again is a step.                                 *)
(***************************************************************************)
EXTENDS Naturals, Sequences, SequencesExt

CONSTANTS
    Entries,   \* the struct safe_list objects
    MaxDepth   \* bound on nested calls of safe_list_for_each

VARIABLES
    list,      \* the entries that are linked, in order
    calls,     \* the active calls of safe_list_for_each, the innermost last
    ret        \* whether the last that returned was broken off

vars == <<list, calls, ret>>

Linked == ToSet(list)

Position(e) == CHOOSE i \in 1..Len(list) : list[i] = e

Forget(call, e) == [call EXCEPT !.owed = @ \ {e}, !.seen = @ \ {e}]

AddLast(e) ==
    /\ e \notin Linked
    /\ list' = Append(list, e)
    /\ UNCHANGED <<calls, ret>>

AddFirst(e) ==
    /\ e \notin Linked
    /\ list' = <<e>> \o list
    /\ UNCHANGED <<calls, ret>>

Delete(e) ==
    /\ e \in Linked
    /\ list' = RemoveAt(list, Position(e))
    /\ calls' = [k \in DOMAIN calls |-> Forget(calls[k], e)]
    /\ UNCHANGED ret

\* The first callback of a new iteration.
Begin ==
    /\ list # <<>>
    /\ Len(calls) < MaxDepth
    /\ calls' = Append(calls, [cur  |-> Head(list),
                               owed |-> Linked \ {Head(list)},
                               seen |-> {Head(list)},
                               odd  |-> TRUE])
    /\ UNCHANGED <<list, ret>>

\* The innermost iteration goes on to e, which it has not visited since e was
\* linked, and passes over no entry that it owes a visit.
Visit(e) ==
    /\ calls # <<>>
    /\ e \in Linked \ Last(calls).seen
    /\ \A f \in Last(calls).owed : Position(e) <= Position(f)
    /\ calls' = [calls EXCEPT ![Len(calls)] =
                    [cur |-> e, owed |-> @.owed \ {e},
                     seen |-> @.seen \cup {e}, odd |-> ~@.odd]]
    /\ UNCHANGED <<list, ret>>

\* An iteration that finds the list empty returns.
Empty ==
    /\ list = <<>>
    /\ Len(calls) < MaxDepth
    /\ ret' = FALSE
    /\ UNCHANGED <<list, calls>>

\* The innermost iteration ends: it owes nothing, or its callback asked it to.
Finish ==
    /\ calls # <<>>
    /\ Last(calls).owed = {}
    /\ calls' = Front(calls)
    /\ ret' = FALSE
    /\ UNCHANGED list

Break ==
    /\ calls # <<>>
    /\ calls' = Front(calls)
    /\ ret' = TRUE
    /\ UNCHANGED list

Init == list = <<>> /\ calls = <<>> /\ ret = FALSE

Next ==
    \/ \E e \in Entries : AddLast(e) \/ AddFirst(e) \/ Delete(e) \/ Visit(e)
    \/ Begin \/ Empty \/ Finish \/ Break

Spec == Init /\ [][Next]_vars
=============================================================================
