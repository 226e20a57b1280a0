------------------------------- MODULE Vlist -------------------------------
(***************************************************************************)
(* vlist.c: an AVL tree that a program brings up to date by adding again   *)
(* what is still there, vlist_update ... vlist_add ... vlist_flush, which  *)
(* deletes what was not.  The program learns of every change from the      *)
(* callback update(new, old), in which it leaves the tree alone, but for   *)
(* deleting `old` itself when there is no `new` and no_delete is set.      *)
(***************************************************************************)
EXTENDS Avl

CONSTANTS
    VlistNodes,  \* the nodes a program uses
    MaxVersion   \* bound on tree->version

ASSUME VlistAssumption == VlistNodes \subseteq Nodes /\ MaxVersion \in Nat

VARIABLES
    vlist,  \* tree->version, node->version, keep_old and no_delete
    live    \* ghost: the nodes update() has told the program of, and for each
            \* whether it was added "now", since the last vlist_update,
            \* "before" that, or "for good", after vlist_flush_all

vlistVars == <<vlist, live>>

Static == -1
NotFlushed == vlist.version = Static

VlistInit ==
    /\ \E keep_old, no_delete \in BOOLEAN :
          vlist = [version |-> 1, of |-> [n \in VlistNodes |-> 0],
                   keep_old |-> keep_old, no_delete |-> no_delete]
    /\ live = [n \in {} |-> "now"]

\* What the program knows after update(new, old).
Told(new, old, when) ==
    [n \in (DOMAIN live \ {old}) \cup {new} |->
        IF n = new THEN when ELSE live[n]]

vlist_update ==
    /\ vlist.version < MaxVersion
    /\ vlist' = [vlist EXCEPT !.version = @ + 1]
    /\ live' = [n \in DOMAIN live |->
                    IF live[n] = "now" THEN "before" ELSE live[n]]
    /\ UNCHANGED tree

\* The node is not in the tree, or is added again.
vlist_add(node) ==
    LET old == avl_find(tree, key[node])
        when == IF NotFlushed THEN "for good" ELSE "now"
        Replaced(t) == avl_insert(t, node, FALSE)
    IN IF old # NULL /\ (vlist.keep_old \/ vlist.no_delete)
       THEN /\ vlist' = [vlist EXCEPT !.of[node] = IF node = old THEN @ ELSE 0,
                                      !.of[old] = vlist.version]
            /\ live' = Told(old, old, when)
            /\ UNCHANGED tree
       ELSE /\ tree' = Replaced(IF old = NULL THEN tree
                                ELSE avl_delete(tree, old, FALSE))
            /\ vlist' = [vlist EXCEPT !.of = [n \in VlistNodes |->
                            IF n = node THEN vlist.version
                            ELSE IF n = old THEN 0 ELSE @[n]]]
            /\ live' = Told(node, old, when)

vlist_delete(node) ==
    /\ node \in ToSet(tree.list)
    /\ tree' = avl_delete(tree, node, FALSE)
    /\ vlist' = [vlist EXCEPT !.of[node] = 0]
    /\ live' = [n \in DOMAIN live \ {node} |-> live[n]]

\* mutant: only older versions are taken for stale
StaleIfOlder(version) ==
    {n \in ToSet(tree.list) : vlist.of[n] < version}

\* What vlist_flush does not skip when tree->version is `version`.
Stale(version) ==
    {n \in ToSet(tree.list) :
        \/ vlist.of[n] # version /\ vlist.of[n] # Static
        \/ version = Static}

Flushed(version, gone) ==
    /\ LET DeleteIn(i, t) ==
              IF tree.list[i] \in gone THEN avl_delete(t, tree.list[i], FALSE)
              ELSE t
           from[i \in 0..Len(tree.list)] ==
              IF i = 0 THEN tree ELSE DeleteIn(i, from[i - 1])
       IN tree' = from[Len(tree.list)]
    /\ vlist' = [vlist EXCEPT !.version = version,
                              !.of = [n \in VlistNodes |->
                                        IF n \in gone THEN 0 ELSE @[n]]]

vlist_flush ==
    /\ Flushed(vlist.version, Stale(vlist.version))
    /\ live' = [n \in {m \in DOMAIN live : live[m] # "before" /\ ~NotFlushed}
                    |-> live[n]]

vlist_flush_all ==
    /\ Flushed(Static, Stale(Static))
    /\ live' = [n \in {} |-> "now"]

VlistNext ==
    \/ vlist_update
    \/ \E n \in VlistNodes : vlist_add(n) \/ vlist_delete(n)
    \/ vlist_flush
    \/ vlist_flush_all
=============================================================================
