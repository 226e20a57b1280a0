------------------------------ MODULE Blobmsg -------------------------------
(***************************************************************************)
(* The messages of src/blobmsg.c: attributes with names, tables and        *)
(* arrays, and their conversion from and to JSON in src/blobmsg_json.c.    *)
(* Attributes are identified by the names of their types.                  *)
(***************************************************************************)
EXTENDS Blob, JsonText

CONSTANT IntHalf    \* a 32-bit integer lies in -IntHalf .. IntHalf - 1

-----------------------------------------------------------------------------
blobmsg_buf_init(buf) == blob_buf_init(buf, "TABLE")

(* A name takes its length, its characters and a 0, padded.                *)
blobmsg_hdrlen(namelen) == Pad(2 + namelen + 1)

blobmsg_name(buf, p) == Word(buf, p + 1).val

blobmsg_data(buf, p) ==
    p + 1 + (IF Word(buf, p).ext
             THEN blobmsg_hdrlen(Len(blobmsg_name(buf, p))) \div 4 ELSE 0)

blobmsg_data_len(buf, p) == blob_len(buf, p) - (blobmsg_data(buf, p) - p - 1) * 4

blobmsg_type(buf, p) == Word(buf, p).id

(* blobmsg_for_each_attr.                                                  *)
Members(buf, p) == Attrs(buf, blobmsg_data(buf, p), blobmsg_data_len(buf, p))

blobmsg_new(buf, type, name, payload) ==
    LET Titled(r) ==
            [r EXCEPT !.buf = Store(Store(@, r.attr, [Word(@, r.attr) EXCEPT !.ext = TRUE]),
                                    r.attr + 1, Content("name", name))]
    IN  Titled(blob_new(buf, type, blobmsg_hdrlen(Len(name)) + payload))

(* The buffer and the cookie.  The length of the outer attribute leaves    *)
(* out what blob_nest_end adds.                                            *)
blobmsg_open_nested(buf, name, type) ==
    LET Opened(b, attr) ==
            [blob_set_raw_len(b, b.head, blob_pad_len(b, b.head) - blobmsg_hdrlen(Len(name)))
                EXCEPT !.head = attr]
        In(r) == Opened(r.buf, r.attr)
    IN  [buf    |-> In(blobmsg_new(buf, type, name, 0)),
         cookie |-> attr_to_offset(buf, buf.head)]

blobmsg_add_field(buf, type, name, word, len) ==
    LET In(r) == Store(r.buf, blobmsg_data(r.buf, r.attr), word)
    IN  In(blobmsg_new(buf, type, name, len))

blobmsg_add_string(buf, name, cs) ==
    blobmsg_add_field(buf, "STRING", name, Content("string", cs), Len(cs) + 1)

(* A copy of the attribute at p of the message from.                       *)
blobmsg_add_blob(buf, from, p) ==
    LET len == blobmsg_data_len(from, p)
        Copied(b, dest, src) ==
            FoldLeft(LAMBDA c, i : Store(c, dest + i - 1, Word(from, src + i - 1)),
                     b, [i \in 1..(Pad(len) \div 4) |-> i])
        In(r) == Copied(r.buf, blobmsg_data(r.buf, r.attr), blobmsg_data(from, p))
    IN  In(blobmsg_new(buf, blobmsg_type(from, p), blobmsg_name(from, p), len))

(* A string written in pieces: room is allocated behind the head, grown    *)
(* as the pieces come, and the attribute is added when its length is       *)
(* known.                                                                  *)
blobmsg_alloc_string_buffer(buf, name, maxlen) ==
    LET Uncounted(b, attr) ==
            blob_set_raw_len(b, b.head, blob_pad_len(b, b.head) - blob_pad_len(b, attr))
        Emptied(b, attr) ==
            blob_set_raw_len(b, attr, blob_raw_len(b, attr) - maxlen)
        In(r) == Emptied(Uncounted(r.buf, r.attr), r.attr)
    IN  In(blobmsg_new(buf, "STRING", name, maxlen))

blobmsg_realloc_string_buffer(buf, maxlen) ==
    LET attr     == blob_next(buf, buf.head)
        offset   == attr_to_offset(buf, attr) * 4 + blob_pad_len(buf, attr)
        required == maxlen - (Len(buf.mem) * 4 - offset)
    IN  IF required <= 0 THEN buf ELSE blob_buf_grow(buf, required)

StringBuffer(buf) == blobmsg_data(buf, blob_next(buf, buf.head))

blobmsg_add_string_buffer(buf) ==
    LET attr == blob_next(buf, buf.head)
        len  == Len(Word(buf, StringBuffer(buf)).val) + 1
        Counted(b) == blob_set_raw_len(b, b.head,
                          blob_raw_len(b, b.head) + blob_pad_len(b, attr))
    IN  Counted(blob_set_raw_len(buf, attr, blob_raw_len(buf, attr) + len))

-----------------------------------------------------------------------------
(* Checking and parsing.                                                   *)

blobmsg_check_attr(buf, p, named) ==
    /\ blob_len(buf, p) >= 2
    /\ named => Len(blobmsg_name(buf, p)) > 0
    /\ Len(blobmsg_name(buf, p)) <= blob_len(buf, p) - 2
    /\ blob_check_type(Word(buf, blobmsg_data(buf, p)),
                       blobmsg_data_len(buf, p), blobmsg_type(buf, p))

(* The number of members, or -1.                                           *)
blobmsg_check_array(buf, p, type) ==
    LET named == blobmsg_type(buf, p) = "TABLE" IN
    IF /\ blobmsg_type(buf, p) \in {"TABLE", "ARRAY"}
       /\ \A q \in ToSet(Members(buf, p)) :
             /\ type = "UNSPEC" \/ blobmsg_type(buf, q) = type
             /\ blobmsg_check_attr(buf, q, named)
    THEN Len(Members(buf, p)) ELSE -1

Fit(buf, p, type) == type = "UNSPEC" \/ blobmsg_type(buf, p) = type

None == -1      \* a null pointer; addresses are not negative

(* Each place of the policy takes the next attribute of its type; those of *)
(* other types are passed over, and one that is not valid ends the search. *)
blobmsg_parse_array(buf, types, attrs) ==
    LET Take(r, p) ==
            IF r.over \/ Len(r.tb) = Len(types) \/ ~Fit(buf, p, types[Len(r.tb) + 1])
            THEN r
            ELSE IF blobmsg_check_attr(buf, p, FALSE)
            THEN [r EXCEPT !.tb = Append(@, p)]
            ELSE [r EXCEPT !.over = TRUE]
        found == FoldLeft(Take, [tb |-> <<>>, over |-> FALSE], attrs).tb
    IN  [i \in 1..Len(types) |-> IF i <= Len(found) THEN found[i] ELSE None]

(* An attribute that should have a name and has none, or is not valid,     *)
(* ends the search.                                                        *)
Stops(buf, policy, p) ==
    /\ ~blobmsg_check_attr(buf, p, TRUE)
    /\ \E i \in 1..Len(policy) :
          /\ Fit(buf, p, policy[i].type)
          /\ Len(blobmsg_name(buf, p)) = Len(policy[i].name)

Searched(buf, policy, attrs) ==
    LET n == SelectInSeq(attrs, LAMBDA p : Stops(buf, policy, p))
    IN  IF n = 0 THEN attrs ELSE SubSeq(attrs, 1, n - 1)

Fits(buf, place, p) ==
    Fit(buf, p, place.type) /\ blobmsg_name(buf, p) = place.name

(* *mutant* taking the last one, as blob_parse does.                       *)
ParseTakingLast(buf, policy, attrs) ==
    [i \in 1..Len(policy) |->
        LET n == SelectLastInSeq(Searched(buf, policy, attrs),
                                 LAMBDA p : Fits(buf, policy[i], p))
        IN  IF n = 0 THEN None ELSE attrs[n]]

(* Each place of the policy, a [name, type], takes the first attribute of  *)
(* that name and type.                                                     *)
blobmsg_parse(buf, policy, attrs) ==
    [i \in 1..Len(policy) |->
        LET n == SelectInSeq(Searched(buf, policy, attrs),
                             LAMBDA p : Fits(buf, policy[i], p))
        IN  IF n = 0 THEN None ELSE attrs[n]]

-----------------------------------------------------------------------------
(* From JSON.                                                              *)

DigitOf == [d \in Digits |-> CHOOSE n \in 0..9 : ToString(n) = d]

ToInt(ds) ==
    LET neg == ds[1] = "-"
        n   == FoldLeft(LAMBDA acc, d : acc * 10 + DigitOf[d], 0,
                        IF neg THEN Tail(ds) ELSE ds)
    IN  IF neg THEN -n ELSE n

RECURSIVE DigitsOf(_)
DigitsOf(n) ==
    IF n < 0 THEN <<"-">> \o DigitsOf(-n)
    ELSE IF n < 10 THEN <<ToString(n)>>
    ELSE Append(DigitsOf(n \div 10), ToString(n % 10))

(* A number is stored, and printed again, as a 32-bit integer.             *)
Wrap(n) == ((n + IntHalf) % (2 * IntHalf)) - IntHalf

Key(v) == IF v.name = NoName THEN <<>> ELSE v.name

(* The buffer and what the function returned.  A null ends the conversion  *)
(* of everything around it; the open tables and arrays are closed.         *)
ContainerType == [object |-> "TABLE", array |-> "ARRAY"]

RECURSIVE blobmsg_add_json_element(_, _)
blobmsg_add_object(buf, kids) ==
    FoldLeft(LAMBDA r, v : IF r.ok THEN blobmsg_add_json_element(r.buf, v) ELSE r,
             [buf |-> buf, ok |-> TRUE], kids)

blobmsg_add_json_element(buf, v) ==
    LET Field(type, len) ==
            [ok |-> TRUE, buf |-> blobmsg_add_field(buf, type, Key(v),
                             Content("data", v.val), len)]
        Nested(type) ==
            LET Closed(r, cookie) == [r EXCEPT !.buf = blob_nest_end(@, cookie)]
                In(o) == Closed(blobmsg_add_object(o.buf, v.kids), o.cookie)
            IN  In(blobmsg_open_nested(buf, Key(v), type))
    IN  CASE v.type \in DOMAIN ContainerType -> Nested(ContainerType[v.type])
          [] v.type = "string" ->
                [ok |-> TRUE, buf |-> blobmsg_add_string(buf, Key(v), v.val)]
          [] v.type = "number" ->
                [ok |-> TRUE, buf |-> blobmsg_add_field(buf, "INT32", Key(v),
                     Content("data", DigitsOf(Wrap(ToInt(v.val)))), 4)]
          [] v.type \in {"true", "false"} ->
                [ok |-> TRUE, buf |-> blobmsg_add_field(buf, "INT8", Key(v),
                     Content("data", <<v.type>>), 1)]
          [] OTHER -> [ok |-> FALSE, buf |-> buf]

(* __blobmsg_add_json on what json_parse made of a text: only an object is *)
(* taken.                                                                  *)
blobmsg_add_json(buf, r) ==
    IF r.ok /\ r.val.type = "object" THEN blobmsg_add_object(buf, r.val.kids)
    ELSE [buf |-> buf, ok |-> FALSE]

-----------------------------------------------------------------------------
(* To JSON text.  A slash is escaped, too.                                 *)

blobmsg_format_string(cs) ==
    <<"\"">> \o FlattenSeq([i \in 1..Len(cs) |->
                    IF cs[i] \in DOMAIN Escape THEN <<"\\", Escape[cs[i]]>>
                    ELSE IF cs[i] = "/" THEN <<"\\", "/">>
                    ELSE <<cs[i]>>]) \o <<"\"">>

Separator(level, indent) == IF indent THEN <<"NL">> \o Indent(level) ELSE <<>>

RECURSIVE blobmsg_format_element(_, _, _, _, _)
blobmsg_format_list(buf, p, level, indent) ==
    LET kids  == Members(buf, p)
        array == blobmsg_type(buf, p) = "ARRAY"
    IN  <<IF array THEN "[" ELSE "{">> \o Separator(level + 1, indent)
        \o FlattenSeq([i \in 1..Len(kids) |->
              (IF i = 1 THEN <<>> ELSE <<",">> \o Separator(level + 1, indent))
              \o blobmsg_format_element(buf, kids[i], array, level + 1, indent)])
        \o Separator(level, indent) \o <<IF array THEN "]" ELSE "}">>

blobmsg_format_element(buf, p, array, level, indent) ==
    LET word == Word(buf, blobmsg_data(buf, p)) IN
    IF ~blobmsg_check_attr(buf, p, FALSE) THEN <<>>
    ELSE (IF array \/ blobmsg_name(buf, p) = <<>> THEN <<>>
          ELSE blobmsg_format_string(blobmsg_name(buf, p))
               \o (IF indent THEN <<":", " ">> ELSE <<":">>))
         \o (CASE blobmsg_type(buf, p) = "STRING" -> blobmsg_format_string(word.val)
               [] blobmsg_type(buf, p) \in {"TABLE", "ARRAY"} ->
                     blobmsg_format_list(buf, p, level, indent)
               [] OTHER -> word.val)

(* blobmsg_format_json_with_cb without a callback.                         *)
blobmsg_format_json(buf, p, list, indent) ==
    IF list THEN blobmsg_format_list(buf, p, 0, indent)
            ELSE blobmsg_format_element(buf, p, FALSE, 0, indent)
=============================================================================
