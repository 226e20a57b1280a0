------------------------------ MODULE JsonTree ------------------------------
(***************************************************************************)
(* The trees of src/json.c under every legal sequence of calls: items are  *)
(* created, linked, referred to, detached, replaced, deleted and printed.  *)
(* Each item caches the text it was last printed as.                       *)
(***************************************************************************)
EXTENDS JsonText, FiniteSets

CONSTANTS
    Items,      \* the addresses items are allocated at
    Kinds,      \* what is created: a set of [type, val]
    Names,      \* names of members
    MaxStale,   \* bound: so many cached texts are outdated at a time
    MaxMixed,   \* bound: with more items only the simplest are printed
    NULL

ASSUME TreeConstants ==
    NULL \notin Items /\ MaxStale \in Nat /\ MaxMixed \in Nat

VARIABLES
    item,       \* the struct of each item allocated
    edited      \* ghost: printed items whose text an edit below has outdated

vars == <<item, edited>>

Live == DOMAIN item

NewItem(kind) ==
    [type |-> kind.type, val |-> kind.val, name |-> NoName,
     next |-> NULL, prev |-> NULL, child |-> NULL,
     ref |-> FALSE,         \* JSON_T_IS_REFERENCE
     of |-> NULL,           \* ghost: the item a reference was made from
     out |-> <<>>,          \* print_out, <<>> for a null pointer
     fmt |-> FALSE]         \* print_fmt

Init ==
    /\ item = [x \in {} |-> NULL]
    /\ edited = {}

-----------------------------------------------------------------------------
(* Walking.                                                                *)

RECURSIVE Chain(_, _)
Chain(it, x) == IF x = NULL THEN <<>> ELSE <<x>> \o Chain(it, it[x].next)

Kids(it, x) == Chain(it, it[x].child)

RECURSIVE ValueOf(_, _)
ValueOf(it, x) ==
    Value(NoName, it[x].type, it[x].val,
          [i \in 1..Len(Kids(it, x)) |->
              LET k == Kids(it, x)[i]
              IN  IF it[x].type = "array" THEN ValueOf(it, k)
                  ELSE Named(ValueOf(it, k), it[k].name)])

(* Everything whose text is part of the text of x.                         *)
RECURSIVE Below(_, _)
Below(it, x) ==
    {x} \cup (IF it[x].of = NULL THEN {} ELSE Below(it, it[x].of))
        \cup UNION {Below(it, k) : k \in ToSet(Kids(it, x))}

IsContainer(x) == item[x].type \in {"array", "object"}

(* In no list of members: what a caller holds on its own.                  *)
IsRoot(x) == \A y \in Live : x \notin {item[y].child, item[y].next}

ReferredTo(x) == \E r \in Live : item[r].of = x

-----------------------------------------------------------------------------
(* The functions of json.c, from the items before to the items after.      *)

json_add_item_to_array(it, a, x) ==
    IF it[a].child = NULL THEN [it EXCEPT ![a].child = x]
    ELSE LET last == Last(Kids(it, a))
         IN  [it EXCEPT ![last].next = x, ![x].prev = last]

json_add_item_to_object(it, a, name, x) ==
    json_add_item_to_array([it EXCEPT ![x].name = name], a, x)

create_reference(it, x, r) ==
    (r :> [it[x] EXCEPT !.name = NoName, !.ref = TRUE, !.next = NULL,
                        !.prev = NULL, !.of = x]) @@ it

json_detach_item_from_array(it, a, x) ==
    LET p == it[x].prev
        n == it[x].next
        Linked(y, f) == [f EXCEPT !.next = IF y = p THEN n
                                           ELSE IF y = x THEN NULL ELSE @,
                                  !.prev = IF y = x THEN NULL
                                           ELSE IF y = n THEN p ELSE @,
                                  !.child = IF y = a /\ @ = x THEN n ELSE @]
    IN  [y \in DOMAIN it |-> Linked(y, it[y])]

(* x of a gives its place to y.                                            *)
json_replace_item_in_array(it, a, x, y) ==
    LET p == it[x].prev
        n == it[x].next
        Linked(z, f) == [f EXCEPT !.next = CASE z = y -> n
                                             [] z = x -> NULL
                                             [] z = p -> y
                                             [] OTHER -> @,
                                  !.prev = CASE z = y -> p
                                             [] z = x -> NULL
                                             [] z = n -> y
                                             [] OTHER -> @,
                                  !.child = IF z = a /\ @ = x THEN y ELSE @]
    IN  [z \in DOMAIN it |-> Linked(z, it[z])]

(* What json_delete frees: the item, the items after it and, except for a  *)
(* reference, the items below.                                             *)
RECURSIVE Freed(_, _)
Freed(it, x) ==
    IF x = NULL THEN {}
    ELSE {x} \cup Freed(it, it[x].next)
             \cup (IF it[x].ref THEN {} ELSE Freed(it, it[x].child))

(* *mutant* deleting a reference frees what it refers to.                  *)
DeleteBelowReference(it, x) ==
    LET owned == [y \in DOMAIN it |-> [it[y] EXCEPT !.ref = FALSE]]
    IN  [y \in DOMAIN it \ Freed(owned, x) |-> it[y]]

json_delete(it, x) == [y \in DOMAIN it \ Freed(it, x) |-> it[y]]

(* print_value with its cache.  The members are printed, and their texts   *)
(* cached, one after the other.                                            *)
(* *mutant* a cache that forgets which format it holds.                    *)
CachedAnyFormat(f, fmt) == f.out # <<>>

Cached(f, fmt) == f.fmt = fmt /\ f.out # <<>>

RECURSIVE PrintItem(_, _, _, _)
PrintItem(it, x, depth, fmt) ==
    LET kids == Kids(it, x)
        all  == FoldLeft(
                  LAMBDA acc, k : LET r == PrintItem(acc.it, k, depth + 1, fmt)
                                  IN [it |-> r.it,
                                      texts |-> Append(acc.texts, r.text)],
                  [it |-> it, texts |-> <<>>], kids)
        text == CASE it[x].type = "array"  -> print_array(all.texts, fmt)
                  [] it[x].type = "object" ->
                        print_object([i \in 1..Len(kids) |->
                                         print_string(it[kids[i]].name)],
                                     all.texts, depth, fmt)
                  [] OTHER -> print_value(ValueOf(it, x), depth, fmt)
    IN  IF Cached(it[x], fmt) THEN [it |-> it, text |-> it[x].out]
        ELSE [it   |-> [all.it EXCEPT ![x].out = text, ![x].fmt = fmt],
              text |-> text]

-----------------------------------------------------------------------------
(* With more than MaxMixed items, once anything has been printed all of     *)
(* them are arrays or unnamed leaves, and printed in the same format.      *)
Bounded(it) ==
    \/ Cardinality(DOMAIN it) <= MaxMixed
    \/ \A x \in DOMAIN it : it[x].out = <<>>
    \/ \A x \in DOMAIN it : /\ it[x].type # "object"
                             /\ it[x].name = NoName
                             /\ ~it[x].fmt

(***************************************************************************)
(* The calls.  What the application must not do, and the guards exclude:   *)
(* link an item that is in a list, or below itself; delete what is         *)
(* referred to, or take away the first member of it; refer to an item that *)
(* has been printed (both would own the cached text).                      *)
(***************************************************************************)
Edit(a) ==
    /\ Bounded(item')
    /\ edited' = (edited \cup {y \in Live : item[y].out # <<>>
                                             /\ a \in Below(item, y)})
                    \cap DOMAIN item'
    /\ Cardinality(edited') <= MaxStale

(* The arrays and objects that may be edited.                              *)
Editable == {a \in Live : IsContainer(a) /\ ~item[a].ref}

MayLink(a, x) == a \notin Below(item, x)

MayUnlink(a, x) ==
    /\ x \in ToSet(Kids(item, a))
    /\ ReferredTo(a) => x # item[a].child

MayFree(x) ==
    \A y \in Freed(item, x), r \in Live :
        item[r].of = y => r \in Freed(item, x)

Create(x, kind) ==
    /\ x \notin Live
    /\ item' = (x :> NewItem(kind)) @@ item
    /\ Bounded(item')
    /\ UNCHANGED edited

NameFor(a) == IF item[a].type = "object" THEN Names ELSE {NoName}

Add(a, x, name) ==
    /\ IsRoot(x)
    /\ MayLink(a, x)
    /\ item' = IF name = NoName
               THEN json_add_item_to_array(item, a, x)
               ELSE json_add_item_to_object(item, a, name, x)
    /\ Edit(a)

AddReference(a, x, r, name) ==
    /\ r \notin Live
    /\ item[x].out = <<>>
    /\ MayLink(a, x)
    /\ LET it == create_reference(item, x, r)
       IN  item' = IF name = NoName
                   THEN json_add_item_to_array(it, a, r)
                   ELSE json_add_item_to_object(it, a, name, r)
    /\ Edit(a)

Detach(a, x) ==
    /\ MayUnlink(a, x)
    /\ item' = json_detach_item_from_array(item, a, x)
    /\ Edit(a)

DeleteFrom(a, x) ==
    /\ MayUnlink(a, x)
    /\ LET it == json_detach_item_from_array(item, a, x)
       IN  /\ \A y \in Freed(it, x), r \in Live :
                 item[r].of = y => r \in Freed(it, x)
           /\ item' = json_delete(it, x)
    /\ Edit(a)

Replace(a, x, y, name) ==
    /\ MayUnlink(a, x)
    /\ IsRoot(y)
    /\ MayLink(a, y)
    /\ name # NoName => item[x].name = name
    /\ LET it == json_replace_item_in_array([item EXCEPT ![y].name = name],
                                            a, x, y)
       IN  /\ \A z \in Freed(it, x), r \in Live :
                 item[r].of = z => r \in Freed(it, x)
           /\ item' = json_delete(it, x)
    /\ Edit(a)

Delete(x) ==
    /\ IsRoot(x)
    /\ MayFree(x)
    /\ item' = json_delete(item, x)
    /\ edited' = edited \cap DOMAIN item'

(* (With the text in the cache nothing changes; a leaf is printed with     *)
(* what it is in.)                                                         *)
json_to_string(x, fmt) ==
    /\ IsContainer(x)
    /\ ~Cached(item[x], fmt)
    /\ item' = PrintItem(item, x, 0, fmt).it
    /\ Bounded(item')
    /\ LET again == {y \in Live : y \in Below(item, x)
                                  /\ item'[y] # item[y]}
           stale == edited \ again
       IN  /\ edited' = stale \cup {y \in again :
                                    Below(item, y) \cap stale # {}}
           /\ Cardinality(edited') <= MaxStale

Next ==
    \/ \E x \in Items, kind \in Kinds : Create(x, kind)
    \/ \E a \in Editable, x \in Live :
          \/ \E name \in NameFor(a) :
                \/ Add(a, x, name)
                \/ \E r \in Items : AddReference(a, x, r, name)
                \/ \E y \in Live : Replace(a, x, y, name)
          \/ Detach(a, x)
          \/ DeleteFrom(a, x)
    \/ \E x \in Live : Delete(x) \/ \E fmt \in BOOLEAN : json_to_string(x, fmt)

Spec == Init /\ [][Next]_vars
-----------------------------------------------------------------------------
(* Properties.                                                             *)

(***************************************************************************)
(* Through additions, detaching, replacing and deletion the links stay     *)
(* those of trees: an item is a member of at most one array or object, the *)
(* members are linked in both directions, what is freed is not reachable   *)
(* any more, and a detached item is alone, so that json_delete, which also *)
(* frees the items after the one it is given, frees nothing else.          *)
(***************************************************************************)
LinksConsistent ==
    /\ \A x \in Live : {item[x].next, item[x].prev, item[x].child}
                          \subseteq Live \cup {NULL}
    /\ \A x \in Live :
          /\ item[x].next # NULL => item[item[x].next].prev = x
          /\ item[x].prev # NULL => item[item[x].prev].next = x
          /\ x \notin UNION {Below(item, k) : k \in ToSet(Kids(item, x))}
          /\ IsRoot(x) => item[x].next = NULL /\ item[x].prev = NULL
    /\ \A x, y \in Live :
          /\ x # y
          /\ ToSet(Kids(item, x)) \cap ToSet(Kids(item, y)) # {}
          => \/ item[x].of # NULL
             \/ item[y].of # NULL

(* The indentation is that of the depth at which the item was printed.     *)
Dense(s) == SelectSeq(s, LAMBDA c : c \notin Blank)

(***************************************************************************)
(* A cached text is the text of the item as it is now, unless something    *)
(* below was edited since: printing in the other format, printing a part   *)
(* first, references and moving printed items leave no outdated text.      *)
(***************************************************************************)
CacheCurrent ==
    \A x \in Live :
        item[x].out # <<>> /\ Below(item, x) \cap edited = {} =>
            LET now == print_value(ValueOf(item, x), 0, item[x].fmt)
            IN  IF item[x].fmt THEN Dense(item[x].out) = Dense(now)
                               ELSE item[x].out = now

(***************************************************************************)
(* What is printed fits the memory allocated for it and parses back to     *)
(* what was printed; and any beginning of it, which is what the readers of *)
(* a socket see, is told apart from an error by *end_ptr, which has then   *)
(* reached the end.  Excepted are a text that ends with a literal, after   *)
(* which stream_cmp reads on past the end, and one that ends within an     *)
(* escape.  (Looked at where nothing is cached: every tree is built so.)   *)
(***************************************************************************)
Fits(v, depth, fmt) ==
    LET es == [i \in 1..Len(v.kids) |-> print_value(v.kids[i], depth + 1, fmt)]
        ns == [i \in 1..Len(v.kids) |-> print_string(v.kids[i].name)]
    IN  /\ v.type = "array" =>
              Chars(print_array(es, fmt)) < ArrayRoom(es, fmt)
        /\ v.type = "object" =>
              Chars(print_object(ns, es, depth, fmt))
                 < ObjectRoom(ns, es, depth, fmt)

Unfinished(s) ==
    LET r == json_parse_stream(s, FALSE)
    IN  ~r.ok /\ (r.pos = Len(s) + 1 \/ Last(s) \in Literals \cup {"\\"})

TextRoundTrip ==
    (\A x \in Live : item[x].out = <<>>) =>
    \A x \in Live, fmt \in BOOLEAN :
        LET v == ValueOf(item, x)
            s == print_value(v, 0, fmt)
        IN  IsRoot(x) /\ IsContainer(x) =>
               /\ Fits(v, 0, fmt)
               /\ json_parse_stream(s, FALSE) = Good(Len(s) + 1, v)
               /\ \A n \in 1..Len(s) - 1 :
                     /\ Unfinished(SubSeq(s, 1, n))
                     /\ s[n] \in Literals =>
                           Unfinished(Append(SubSeq(s, 1, n - 1), "f"))
=============================================================================
