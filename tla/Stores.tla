------------------------------- MODULE Stores -------------------------------
(***************************************************************************)
(* One AVL tree in the hands of a program that uses avl.h itself, of       *)
(* vlist.c or of kvlist.c.                                                 *)
(***************************************************************************)
EXTENDS Vlist, Kvlist

VARIABLE owner \* who uses the tree

storesVars == <<vars, vlistVars, kvVars, owner>>

StoresInit ==
    /\ Init /\ VlistInit /\ KvlistInit
    /\ owner \in {"avl", "vlist", "kvlist"}
    /\ owner # "avl" => ~allow_dups
    /\ owner # "vlist" => ~vlist.keep_old /\ ~vlist.no_delete

AvlStep == owner = "avl" /\ Next /\ UNCHANGED <<vlistVars, kvVars, owner>>

VlistStep ==
    /\ owner = "vlist"
    /\ VlistNext
    /\ UNCHANGED <<allow_dups, kvVars, owner>>

KvlistStep ==
    /\ owner = "kvlist"
    /\ KvlistNext
    /\ UNCHANGED <<allow_dups, vlistVars, owner>>

Spec == StoresInit /\ [][AvlStep \/ VlistStep \/ KvlistStep]_storesVars
-----------------------------------------------------------------------------
(***************************************************************************)
(* What a program has been told by update(), or has stored, is what the    *)
(* tree holds: vlist_flush removes what was not added again since the last *)
(* vlist_update and nothing else, whatever versions came before, and a     *)
(* name has the value that was stored last.                                *)
(***************************************************************************)
ContentsExact ==
    /\ owner = "vlist" => /\ DOMAIN live = ToSet(tree.list)
                          /\ \A m, n \in DOMAIN live :
                                m # n => key[m] # key[n]
    /\ owner = "kvlist" => /\ \A name \in Names :
                                kvlist_get(name) = IF name \in DOMAIN stored
                                                   THEN stored[name] ELSE NULL
                           /\ DOMAIN data = ToSet(tree.list)
=============================================================================
