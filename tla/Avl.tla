-------------------------------- MODULE Avl --------------------------------
(***************************************************************************)
(* A tree of avl.c under arbitrary insertions and deletions, compared with *)
(* what a sorted list says.  Stores composes it with its users.            *)
(***************************************************************************)
EXTENDS AvlTree

CONSTANTS
    SearchKeys, \* the keys that FindExact looks for
    MaxShared,  \* bound on the nodes of a tree that allows duplicates
    MaxGaps     \* bound on the keys that a tree lacks between its ends

VARIABLES
    tree,
    allow_dups  \* the argument of avl_init

vars == <<tree, allow_dups>>

Init ==
    /\ tree = EmptyTree
    /\ allow_dups \in BOOLEAN

\* Of the free nodes with the same key, any is as good as another.
FreeNodes ==
    LET free == Nodes \ ToSet(tree.list)
    IN  { CHOOSE m \in free : key[m] = key[n] : n \in free }

Bounded(t) ==
    LET held == { key[n] : n \in ToSet(t.list) }
    IN  /\ allow_dups => Len(t.list) <= MaxShared
        /\ t.list # <<>> =>
              Cardinality({ key[n] : n \in Nodes } \cap Min(held)..Max(held))
                 <= Cardinality(held) + MaxGaps

Insert(n) ==
    /\ tree' = avl_insert(tree, n, allow_dups)
    /\ Bounded(tree')
    /\ UNCHANGED allow_dups

Delete(n) ==
    /\ tree' = avl_delete(tree, n, allow_dups)
    /\ Bounded(tree')
    /\ UNCHANGED allow_dups

\* avl_remove_all_elements: the nodes are freed, not deleted one by one.
RemoveAll ==
    /\ tree' = EmptyTree
    /\ UNCHANGED allow_dups

\* avl_insert is for a node that is in no tree, avl_delete for one that is in.
Next ==
    \/ \E n \in FreeNodes : Insert(n)
    \/ \E n \in ToSet(tree.list) : Delete(n)
    \/ RemoveAll

-----------------------------------------------------------------------------
\* The nodes of the tree from left to right, and its height.
InOrder(t) ==
    LET under[n \in Nodes \cup {NULL}] ==
            IF n = NULL THEN <<>>
            ELSE under[t.left[n]] \o <<n>> \o under[t.right[n]]
    IN  under[t.root]

Height(t, n) ==
    LET of[m \in Nodes \cup {NULL}] ==
            IF m = NULL THEN 0
            ELSE 1 + Max({of[t.left[m]], of[t.right[m]]})
    IN  of[n]

(***************************************************************************)
(* The tree holds, from left to right, the first node of every key on the  *)
(* list, the list is in the order of the keys, nodes with the same key are *)
(* behind their leader, and pointers to parents and to children agree:     *)
(* rotations and replacements lose nothing.                                *)
(***************************************************************************)
SearchTree ==
    /\ tree.count = Len(tree.list)
    /\ InOrder(tree) = SelectSeq(tree.list, LAMBDA n : tree.leader[n])
    /\ \A i \in 2..Len(tree.list) :
          LET m == tree.list[i - 1]
              n == tree.list[i]
          IN  IF tree.leader[n] THEN key[m] < key[n] ELSE key[m] = key[n]
    /\ tree.root # NULL => tree.parent[tree.root] = NULL
    /\ \A n \in ToSet(InOrder(tree)) : \A c \in {tree.left[n], tree.right[n]} :
          c # NULL => tree.parent[c] = n

(***************************************************************************)
(* Every balance is the difference of the heights of the subtrees, and at  *)
(* most one: searching takes logarithmic time.                             *)
(***************************************************************************)
Balanced ==
    \A n \in ToSet(InOrder(tree)) :
        /\ tree.balance[n] =
              Height(tree, tree.right[n]) - Height(tree, tree.left[n])
        /\ tree.balance[n] \in -1..1

(***************************************************************************)
(* The three searches find what their comments say: the first node with    *)
(* the key, the last with one that is less or equal, the first with one    *)
(* that is greater or equal.  On a sorted list, as SearchTree says it is,  *)
(* the numbers of lesser and of equal keys tell where these are.           *)
(***************************************************************************)
FindExact ==
    LET Count(Test(_)) ==
            Cardinality({ i \in DOMAIN tree.list : Test(key[tree.list[i]]) })
        Ith(i) == IF i \in DOMAIN tree.list THEN tree.list[i] ELSE NULL
    IN  \A k \in SearchKeys :
          LET less == Count(LAMBDA j : j < k)
              upTo == Count(LAMBDA j : j <= k)
          IN  /\ avl_find(tree, k) = IF less = upTo THEN NULL ELSE Ith(less + 1)
              /\ avl_find_lessequal(tree, k) = Ith(upTo)
              /\ avl_find_greaterequal(tree, k) = Ith(less + 1)
=============================================================================
