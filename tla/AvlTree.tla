------------------------------ MODULE AvlTree ------------------------------
(***************************************************************************)
(* avl.c, as operators on a record that holds the tree and, as functions   *)
(* of the nodes, the pointers and balances in them:                        *)
(*   root, count          of struct avl_tree                               *)
(*   list                 the nodes on list_head, in order                 *)
(*   parent, left, right, balance, leader   of the struct avl_nodes        *)
(* Nodes with the same key follow their leader on the list; only leaders   *)
(* are in the tree.  The code has a left and a right variant of most       *)
(* steps; here they share one operator with the side as a parameter.       *)
(***************************************************************************)
EXTENDS Integers, Sequences, SequencesExt, FiniteSetsExt

CONSTANTS
    Nodes,  \* the struct avl_nodes
    key,    \* their keys, as integers: the comparator is a total order
    NULL

ASSUME AvlAssumption ==
    /\ IsFiniteSet(Nodes) /\ NULL \notin Nodes
    /\ key \in [Nodes -> Int]

\* avl_init
EmptyTree ==
    [root |-> NULL, count |-> 0, list |-> <<>>,
     parent |-> [n \in Nodes |-> NULL], left |-> [n \in Nodes |-> NULL],
     right |-> [n \in Nodes |-> NULL], balance |-> [n \in Nodes |-> 0],
     leader |-> [n \in Nodes |-> FALSE]]

Sides == {"left", "right"}
Other(side) == IF side = "left" THEN "right" ELSE "left"
Weight(side) == IF side = "left" THEN -1 ELSE 1

Position(t, n) == CHOOSE i \in DOMAIN t.list : t.list[i] = n
SideOf(t, n) == IF n = t.left[t.parent[n]] THEN "left" ELSE "right"

\* if (node != NULL) node->parent = p
SetParent(t, n, p) ==
    IF n = NULL THEN t ELSE [t EXCEPT !.parent[n] = p]

\* What points to `old`, the root or a child pointer of p, points to new.
Relink(t, p, old, new) ==
    IF p = NULL THEN [t EXCEPT !.root = new]
    ELSE IF t.left[p] = old THEN [t EXCEPT !.left[p] = new]
    ELSE [t EXCEPT !.right[p] = new]
-----------------------------------------------------------------------------
(***************************************************************************)
(* Searching.                                                              *)
(***************************************************************************)

\* avl_find_rec from the root: the node with key k, or the one under which
\* it would be put
avl_find_rec(t, k) ==
    LET child(n) == IF k < key[n] THEN t.left[n]
                    ELSE IF k > key[n] THEN t.right[n] ELSE NULL
        from[n \in Nodes] == IF child(n) = NULL THEN n ELSE from[child(n)]
    IN  from[t.root]

avl_find(t, k) ==
    IF t.root = NULL \/ key[avl_find_rec(t, k)] # k THEN NULL
    ELSE avl_find_rec(t, k)

\* mutant: nodes with the same key behind the one found are passed over
LessEqualFound(t, k) ==
    IF t.root = NULL THEN NULL
    ELSE LET at == Position(t, avl_find_rec(t, k))
             le == { i \in 1..at : key[t.list[i]] <= k }
         IN  IF le = {} THEN NULL ELSE t.list[Max(le)]

\* To the left until the key is not greater, then to the right as long as
\* the next one is not greater either.
avl_find_lessequal(t, k) ==
    IF t.root = NULL THEN NULL
    ELSE LET at == Position(t, avl_find_rec(t, k))
             le == { i \in 1..at : key[t.list[i]] <= k }
         IN  IF le = {} THEN NULL
             ELSE t.list[Min({ i \in Max(le)..Len(t.list) :
                                 i < Len(t.list) => key[t.list[i + 1]] > k })]

avl_find_greaterequal(t, k) ==
    IF t.root = NULL THEN NULL
    ELSE LET at == Position(t, avl_find_rec(t, k))
             ge == { i \in at..Len(t.list) : key[t.list[i]] >= k }
         IN  IF ge = {} THEN NULL
             ELSE t.list[Max({ i \in 1..Min(ge) :
                                 i > 1 => key[t.list[i - 1]] < k })]
-----------------------------------------------------------------------------
(***************************************************************************)
(* Rotations: node goes down to the given side, and its other child up.    *)
(***************************************************************************)

\* mutant: the new balance of node is not taken into account for the child
\* that goes up
RotateBalancesCut(t, node, up, side) ==
    LET nb == IF side = "right"
              THEN t.balance[node] + 1 - Min({t.balance[up], 0})
              ELSE t.balance[node] - (1 + Max({t.balance[up], 0}))
    IN  [t.balance EXCEPT ![node] = nb,
                          ![up] = IF side = "right" THEN @ + 1 ELSE @ - 1]

\* The last two lines of avl_rotate_right and of avl_rotate_left
RotateBalances(t, node, up, side) ==
    LET nb == IF side = "right"
              THEN t.balance[node] + 1 - Min({t.balance[up], 0})
              ELSE t.balance[node] - (1 + Max({t.balance[up], 0}))
    IN  [t.balance EXCEPT ![node] = nb,
                          ![up] = IF side = "right" THEN @ + 1 + Max({nb, 0})
                                  ELSE @ - (1 - Min({nb, 0}))]

Rotate(t, node, side) ==
    LET up     == IF side = "right" THEN t.left[node] ELSE t.right[node]
        inner  == IF side = "right" THEN t.right[up] ELSE t.left[up]
        parent == t.parent[node]
        linked == Relink(t, parent, node, up)
        turned == [linked EXCEPT
                     !.parent = [@ EXCEPT ![up] = parent, ![node] = up],
                     !.left = IF side = "right" THEN [@ EXCEPT ![node] = inner]
                              ELSE [@ EXCEPT ![up] = node],
                     !.right = IF side = "right" THEN [@ EXCEPT ![up] = node]
                               ELSE [@ EXCEPT ![node] = inner],
                     !.balance = RotateBalances(t, node, up, side)]
    IN  SetParent(turned, inner, node)
-----------------------------------------------------------------------------
(***************************************************************************)
(* Insertion.                                                              *)
(***************************************************************************)

\* One call of post_insert: the subtree at n has grown.  `at` is the node of
\* the recursive call, NULL if there is none.
Grown(t, n) ==
    LET p    == t.parent[n]
        side == SideOf(t, n)
        u    == [t EXCEPT !.balance[p] = @ + Weight(side)]
        v    == Rotate(u, n, side)
    IN  CASE u.balance[p] = 0            -> [tree |-> u, at |-> NULL]
          [] u.balance[p] = Weight(side) -> [tree |-> u, at |-> p]
          [] OTHER ->
               [tree |-> IF u.balance[n] = Weight(side)
                         THEN Rotate(u, p, Other(side))
                         ELSE Rotate(v, v.parent[v.parent[n]], Other(side)),
                at   |-> NULL]

post_insert(tree, node) ==
    LET call[i \in 0..Cardinality(Nodes)] ==
          IF i = 0 THEN [tree |-> tree, at |-> node]
          ELSE LET c == call[i - 1]
               IN  IF c.at = NULL \/ c.tree.parent[c.at] = NULL THEN c
                   ELSE Grown(c.tree, c.at)
    IN  call[Cardinality(Nodes)].tree

\* The last node with the key of n: those behind n that are not leaders.
LastLike(t, n) ==
    LET from == Position(t, n)
    IN  Min({ i \in from..Len(t.list) :
                 i < Len(t.list) => t.leader[t.list[i + 1]] })

\* avl_insert, after the key collision has been ruled out
Inserted(t, new) ==
    LET node  == avl_find_rec(t, key[new])
        diff  == key[new] - key[node]
        side  == IF t.balance[node] = 1 \/ (t.balance[node] = 0 /\ diff < 0)
                 THEN "left" ELSE "right"
        u     == [t EXCEPT !.count = @ + 1, !.parent[new] = node,
                           !.leader[new] = TRUE]
    IN  IF t.root = NULL
        THEN [t EXCEPT !.list = <<new>>, !.root = new, !.count = 1,
                       !.leader[new] = TRUE]
        ELSE IF diff = 0
        THEN [t EXCEPT !.list = InsertAt(@, LastLike(t, node) + 1, new),
                       !.count = @ + 1]
        ELSE LET v == IF side = "left"
                      THEN [u EXCEPT !.list = InsertAt(@, Position(t, node), new),
                                     !.left[node] = new]
                      ELSE [u EXCEPT !.list = InsertAt(@, LastLike(t, node) + 1,
                                                       new),
                                     !.right[node] = new]
             IN  IF t.balance[node] # 0 THEN [v EXCEPT !.balance[node] = 0]
                 ELSE post_insert([v EXCEPT !.balance[node] = Weight(side)],
                                  node)

avl_insert(t, new, allow_dups) ==
    IF avl_find(t, key[new]) # NULL /\ ~allow_dups THEN t ELSE Inserted(t, new)
-----------------------------------------------------------------------------
(***************************************************************************)
(* Deletion.                                                               *)
(***************************************************************************)

\* The subtree of p on the given side has shrunk: avl_post_delete for that
\* child, and what avl_delete_worker does when it was a leaf.
Shrunk(t, p, side) ==
    LET far  == Other(side)
        u    == [t EXCEPT !.balance[p] = @ + Weight(far)]
        sib  == IF far = "left" THEN u.left[p] ELSE u.right[p]
        once == Rotate(u, p, side)
        both == Rotate(Rotate(u, sib, far), p, side)
    IN  CASE u.balance[p] = 0           -> [tree |-> u, at |-> p]
          [] u.balance[p] = Weight(far) -> [tree |-> u, at |-> NULL]
          [] OTHER ->
               IF u.balance[sib] = 0 THEN [tree |-> once, at |-> NULL]
               ELSE IF u.balance[sib] = Weight(far)
               THEN [tree |-> once, at |-> once.parent[p]]
               ELSE [tree |-> both, at |-> both.parent[p]]

avl_post_delete(tree, node) ==
    LET call[i \in 0..Cardinality(Nodes)] ==
          IF i = 0 THEN [tree |-> tree, at |-> node]
          ELSE LET c == call[i - 1]
               IN  IF c.at = NULL \/ c.tree.parent[c.at] = NULL THEN c
                   ELSE Shrunk(c.tree, c.tree.parent[c.at], SideOf(c.tree, c.at))
    IN  call[Cardinality(Nodes)].tree

\* mutant: the children of node keep pointing to it
ReplaceByHalf(t, node, m) ==
    Relink([t EXCEPT !.balance[m] = t.balance[node],
                     !.parent[m] = t.parent[node],
                     !.left[m] = t.left[node], !.right[m] = t.right[node]],
           t.parent[node], node, m)

\* The node m takes the place of node in the tree.
ReplaceBy(t, node, m) ==
    LET u == [t EXCEPT !.balance[m] = t.balance[node],
                       !.parent[m] = t.parent[node],
                       !.left[m] = t.left[node], !.right[m] = t.right[node]]
        v == SetParent(SetParent(u, u.left[m], m), u.right[m], m)
    IN  Relink(v, t.parent[node], node, m)

\* avl_delete_worker for a node without a left or without a right child
DeleteAtMostOneChild(t, node) ==
    LET parent == t.parent[node]
        child  == IF t.left[node] = NULL THEN t.right[node] ELSE t.left[node]
        u      == SetParent(Relink(t, parent, node, child), child, parent)
        s      == Shrunk(u, parent, SideOf(t, node))
    IN  IF parent = NULL THEN u
        ELSE IF child = NULL THEN avl_post_delete(s.tree, s.at)
        ELSE avl_post_delete(u, child)

avl_local_min(t, n) ==
    LET down[m \in Nodes] == IF t.left[m] = NULL THEN m ELSE down[t.left[m]]
    IN  down[n]

avl_delete_worker(t, node) ==
    IF t.left[node] = NULL \/ t.right[node] = NULL
    THEN DeleteAtMostOneChild(t, node)
    ELSE LET min == avl_local_min(t, t.right[node])
         IN  ReplaceBy(DeleteAtMostOneChild(t, min), node, min)

\* The fields of a node that is not in the tree are not used: avl_insert sets
\* all of them.
Forget(t, node) ==
    [t EXCEPT !.parent[node] = NULL, !.left[node] = NULL, !.right[node] = NULL,
              !.balance[node] = 0, !.leader[node] = FALSE]

\* A leader with others behind it hands its place to the next one.
avl_delete(t, node, allow_dups) ==
    LET i       == Position(t, node)
        hasNext == allow_dups /\ i < Len(t.list) /\ ~t.leader[t.list[i + 1]]
        u       == IF ~t.leader[node] THEN t
                   ELSE IF hasNext
                   THEN [ReplaceBy(t, node, t.list[i + 1])
                           EXCEPT !.leader[t.list[i + 1]] = TRUE]
                   ELSE avl_delete_worker(t, node)
    IN  Forget([u EXCEPT !.list = Remove(@, node), !.count = @ - 1], node)
=============================================================================
