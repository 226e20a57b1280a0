------------------------------- MODULE Kvlist -------------------------------
(***************************************************************************)
(* kvlist.c: an AVL tree from names to copies of data.  A name is the key  *)
(* of its node; the node that calloc_a returns for it is any unused node   *)
(* of that key.  The data of kvlist_set is not stored in the list itself:  *)
(* the node that holds it would be freed before it is copied.              *)
(***************************************************************************)
EXTENDS Avl

CONSTANTS
    KvNodes,  \* the nodes of a kvlist
    Values    \* what is stored

ASSUME KvlistAssumption == KvNodes \subseteq Nodes

VARIABLES
    data,  \* kvlist_node.data of the allocated nodes
    stored \* ghost: what the program stored last under each name

kvVars == <<data, stored>>

Names == {key[n] : n \in KvNodes}

KvlistInit ==
    /\ data = [n \in {} |-> 0]
    /\ stored = [k \in {} |-> 0]

\* NULL, or the data of the node with that name.
kvlist_get(name) ==
    LET Of(node) == IF node = NULL THEN NULL ELSE data[node]
    IN Of(avl_find(tree, name))

Without(t, node) == IF node = NULL THEN t ELSE avl_delete(t, node, FALSE)

kvlist_set(name, value) ==
    LET old == avl_find(tree, name)
    IN \E n \in KvNodes \ (DOMAIN data \ {old}) :
        /\ key[n] = name
        /\ tree' = avl_insert(Without(tree, old), n, FALSE)
        /\ data' = [m \in (DOMAIN data \ {old}) \cup {n} |->
                        IF m = n THEN value ELSE data[m]]
        /\ stored' = [k \in DOMAIN stored \cup {name} |->
                        IF k = name THEN value ELSE stored[k]]

kvlist_delete(name) ==
    LET old == avl_find(tree, name)
    IN /\ tree' = Without(tree, old)
       /\ data' = [m \in DOMAIN data \ {old} |-> data[m]]
       /\ stored' = [k \in DOMAIN stored \ {name} |-> stored[k]]

kvlist_free ==
    /\ tree' = EmptyTree
    /\ data' = [m \in {} |-> 0]
    /\ stored' = [k \in {} |-> 0]

KvlistNext ==
    \/ \E name \in Names : \/ \E value \in Values : kvlist_set(name, value)
                           \/ kvlist_delete(name)
    \/ kvlist_free
=============================================================================
