------------------------------ MODULE JsonText ------------------------------
(***************************************************************************)
(* The text of JSON values, src/json.c: print_* and parse_*.               *)
(*                                                                         *)
(* A text is a sequence of tokens: one per character, except that a        *)
(* literal (true, false, null), the beginning of one at the end of a text  *)
(* and the u0001 of an escape are one token each.  A value is a record     *)
(*     [name, type, val, kids]                                             *)
(* with val the characters of a string or the digits of an integer, and    *)
(* kids the members of an array or an object; numbers with a fraction or   *)
(* an exponent are left out.                                               *)
(***************************************************************************)
EXTENDS Integers, Sequences, SequencesExt

Literals == {"null", "false", "true"}
Digits   == {"0", "1", "2", "3", "4", "5", "6", "7", "8", "9"}
Blank    == {" ", "TAB", "NL"}

NoName   == <<"-">>      \* item->string is a null pointer

Value(name, type, val, kids) ==
    [name |-> name, type |-> type, val |-> val, kids |-> kids]

Named(v, name) == [v EXCEPT !.name = name]

-----------------------------------------------------------------------------
(* Printing.                                                               *)

(* What follows the backslash for a character that is escaped.             *)
Escape == [c \in {"\"", "\\", "NL", "CTL"} |->
              CASE c = "NL"  -> "n"
                [] c = "CTL" -> "u0001"
                [] OTHER     -> c]

print_string(cs) ==
    <<"\"">> \o FlattenSeq([i \in 1..Len(cs) |->
                    IF cs[i] \in DOMAIN Escape THEN <<"\\", Escape[cs[i]]>>
                                               ELSE <<cs[i]>>]) \o <<"\"">>

Indent(n) == [i \in 1..n |-> "TAB"]

(* print_array and print_object put together what print_value and          *)
(* print_string returned for the members; fmt asks for white space.        *)
print_array(entries, fmt) ==
    LET n == Len(entries) IN
    <<"[">> \o FlattenSeq([i \in 1..n |->
                  entries[i] \o (IF i = n THEN <<>>
                                 ELSE IF fmt THEN <<",", " ">> ELSE <<",">>)])
            \o <<"]">>

print_object(names, entries, depth, fmt) ==
    LET n      == Len(entries)
        Only(t) == IF fmt THEN t ELSE <<>> IN
    <<"{">> \o Only(<<"NL">>)
            \o FlattenSeq([i \in 1..n |->
                  Only(Indent(depth + 1)) \o names[i] \o <<":">>
                  \o Only(<<"TAB">>) \o entries[i]
                  \o (IF i = n THEN <<>> ELSE <<",">>) \o Only(<<"NL">>)])
            \o Only(Indent(depth)) \o <<"}">>

(* The characters a token stands for, and what print_array and             *)
(* print_object allocate for the text and its final 0.                     *)
Chars(t) == FoldLeft(LAMBDA n, c : n + (CASE c \in {"true", "null"} -> 4
                                          [] c \in {"false", "u0001"} -> 5
                                          [] OTHER -> 1), 0, t)

ArrayRoom(entries, fmt) ==
    FoldLeft(LAMBDA n, e : n + Chars(e) + (IF fmt THEN 3 ELSE 2), 5, entries)

ObjectRoom(names, entries, depth, fmt) ==
    FoldLeft(LAMBDA n, i : n + Chars(names[i]) + Chars(entries[i])
                             + (IF fmt THEN 5 + depth ELSE 2),
             IF fmt THEN 8 + depth ELSE 7,
             [i \in 1..Len(entries) |-> i])

RECURSIVE print_value(_, _, _)
print_value(v, depth, fmt) ==
    CASE v.type = "number" -> v.val
      [] v.type = "string" -> print_string(v.val)
      [] v.type = "array"  ->
            print_array([i \in 1..Len(v.kids) |->
                            print_value(v.kids[i], depth + 1, fmt)], fmt)
      [] v.type = "object" ->
            print_object([i \in 1..Len(v.kids) |->
                             print_string(v.kids[i].name)],
                         [i \in 1..Len(v.kids) |->
                             print_value(v.kids[i], depth + 1, fmt)],
                         depth, fmt)
      [] OTHER -> <<v.type>>

-----------------------------------------------------------------------------
(***************************************************************************)
(* Parsing.  A result is [ok, pos, val]: pos is the place *value has been  *)
(* moved to, and Len(s) + 1 is the 0 that ends the text.  Past it lies     *)
(* memory nobody has written for this text: two places in the code read    *)
(* on there, and Past stands for whatever comes of it.                     *)
(***************************************************************************)
NoValue == Value(NoName, "none", <<>>, <<>>)

Good(p, v) == [ok |-> TRUE,  pos |-> p, val |-> v]
Bad(p)     == [ok |-> FALSE, pos |-> p, val |-> NoValue]
Past(s)    == Bad(Len(s) + 2)

At(s, p)   == IF p <= Len(s) THEN s[p] ELSE "NUL"

RECURSIVE skip(_, _)
skip(s, p) == IF At(s, p) \in Blank THEN skip(s, p + 1) ELSE p

(* *mutant* stream_cmp that gives back what a text only begins to match.   *)
StreamCmpBack(s, p) ==
    IF s[p] \notin Literals THEN Bad(p)
    ELSE IF p = Len(s)      THEN Past(s)
    ELSE Good(p + 1, Value(NoName, s[p], <<>>, <<>>))

(* stream_cmp goes on comparing when the literal and the text end          *)
(* together, 0 being equal to 0; it moves *value past a literal that the   *)
(* text only begins.                                                       *)
stream_cmp(s, p) ==
    IF s[p] \notin Literals THEN Bad(p + 1)
    ELSE IF p = Len(s)      THEN Past(s)
    ELSE Good(p + 1, Value(NoName, s[p], <<>>, <<>>))

Partial == {"n", "nu", "nul", "f", "fa", "fal", "fals", "t", "tr", "tru"}

RECURSIVE DigitsFrom(_, _)
DigitsFrom(s, p) ==
    IF At(s, p) \in Digits THEN <<At(s, p)>> \o DigitsFrom(s, p + 1) ELSE <<>>

(* One leading 0 is skipped, and what follows need not be there.           *)
parse_number(s, p) ==
    LET sign == IF s[p] = "-" THEN <<"-">> ELSE <<>>
        q    == p + Len(sign)
        z    == IF At(s, q) = "0" THEN q + 1 ELSE q
        ds   == IF At(s, z) = "0" THEN <<>> ELSE DigitsFrom(s, z)
    IN  Good(z + Len(ds),
             Value(NoName, "number", IF ds = <<>> THEN <<"0">> ELSE sign \o ds,
                   <<>>))

(* The characters of a string from p on.  The end of the text ends a       *)
(* string as a quote does, and a backslash skips what follows, be it the   *)
(* end of the text.                                                        *)
RECURSIVE StringFrom(_, _, _)
StringFrom(s, p, cs) ==
    CASE At(s, p) = "\""  -> [ok |-> TRUE, pos |-> p + 1, val |-> cs]
      [] At(s, p) = "NUL" -> [ok |-> TRUE, pos |-> p, val |-> cs]
      [] At(s, p) = "\\" /\ p = Len(s) ->
            [ok |-> FALSE, pos |-> Len(s) + 2, val |-> cs]
      [] At(s, p) = "\\" /\ p < Len(s) ->
            StringFrom(s, p + 2, Append(cs,
                IF \E c \in DOMAIN Escape : Escape[c] = s[p + 1]
                THEN CHOOSE c \in DOMAIN Escape : Escape[c] = s[p + 1]
                ELSE s[p + 1]))
      [] OTHER -> StringFrom(s, p + 1, Append(cs, At(s, p)))

parse_string(s, p) ==
    IF At(s, p) # "\"" THEN [ok |-> FALSE, pos |-> p, val |-> <<>>]
    ELSE StringFrom(s, p + 1, <<>>)

Opening == [array |-> "[", object |-> "{"]
Closing == [array |-> "]", object |-> "}"]

RECURSIVE parse_value(_, _), ParseMember(_, _, _), ParseRest(_, _, _, _)

(* A value, or in an object a name, a colon and a value.                   *)
ParseMember(s, p, type) ==
    IF type = "array" THEN parse_value(s, p)
    ELSE LET k == parse_string(s, p)
             c == skip(s, k.pos)
         IN  CASE ~k.ok           -> Bad(k.pos)
               [] At(s, c) # ":" /\ k.ok -> Bad(c)
               [] OTHER ->
                    LET r == parse_value(s, skip(s, c + 1))
                    IN  [r EXCEPT !.val = Named(@, k.val)]

(* The loop over the members that follow a comma.  After a comma that the  *)
(* closing bracket follows, the bracket is asked for a second time.        *)
ParseRest(s, p, kids, type) ==
    LET Close(q) == IF At(s, q) = Closing[type]
                    THEN Good(q + 1, Value(NoName, type, <<>>, kids))
                    ELSE Bad(q)
        next     == skip(s, p + 1)
    IN  IF At(s, p) # "," THEN Close(p)
        ELSE IF At(s, next) = Closing[type] THEN Close(next + 1)
        ELSE LET r == ParseMember(s, next, type)
             IN  IF ~r.ok THEN Bad(r.pos)
                 ELSE ParseRest(s, skip(s, r.pos), Append(kids, r.val), type)

ParseContainer(s, p, type) ==
    LET q == skip(s, p + 1)
        r == ParseMember(s, q, type)
    IN  IF At(s, q) = Closing[type]
        THEN Good(q + 1, Value(NoName, type, <<>>, <<>>))
        ELSE IF ~r.ok THEN Bad(r.pos)
        ELSE ParseRest(s, skip(s, r.pos), <<r.val>>, type)

parse_value(s, p) ==
    CASE At(s, p) \in Literals \cup Partial  -> stream_cmp(s, p)
      [] At(s, p) = "\""                     -> LET r == parse_string(s, p) IN
            [r EXCEPT !.val = Value(NoName, "string", @, <<>>)]
      [] At(s, p) \in Digits \cup {"-"}      -> parse_number(s, p)
      [] At(s, p) = "["                      -> ParseContainer(s, p, "array")
      [] At(s, p) = "{"                      -> ParseContainer(s, p, "object")
      [] OTHER                               -> Bad(p)

(* stale: whether the memory behind the text, read by mistake, holds       *)
(* something that passes for the rest of a value.                          *)
json_parse_stream(s, stale) ==
    LET r == parse_value(s, skip(s, 1))
    IN  IF r.pos > Len(s) + 1 THEN [r EXCEPT !.ok = stale] ELSE r
=============================================================================
