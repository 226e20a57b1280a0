------------------------- MODULE JsonScriptMeaning -------------------------
(***************************************************************************)
(* What the scripts of JsonScript mean, told by their JSON values alone:   *)
(* without memory, messages, frames or a file cache.                       *)
(***************************************************************************)
EXTENDS JsonScript

-----------------------------------------------------------------------------
(* What a script means, told by its JSON values alone.                     *)

RECURSIVE Whole(_), Kept(_)

(* No null in it.                                                          *)
Whole(v) == v.type # "null" /\ \A k \in ToSet(v.kids) : Whole(k)

(* What the conversion keeps of a value: integers of 32 bits, and nothing  *)
(* that comes after a null.                                                *)
Kept(v) ==
    LET UpTo(n) == IF n = 0 THEN v.kids
                   ELSE SubSeq(v.kids, 1, IF v.kids[n].type = "null" THEN n - 1 ELSE n)
        All(kids) == [i \in 1..Len(kids) |-> Kept(kids[i])]
    IN  [v EXCEPT !.val  = IF v.type = "number" THEN DigitsOf(Wrap(ToInt(@))) ELSE @,
                  !.kids = All(UpTo(SelectInSeq(@, LAMBDA k : ~Whole(k))))]

Strings(vs) == SelectSeq(vs, LAMBDA v : v.type = "string")
Arrays(vs)  == SelectSeq(vs, LAMBDA v : v.type = "array")

(* The values after the first string in vs.                                *)
AfterString(vs) ==
    SubSeq(vs, 1 + SelectInSeq(vs, LAMBDA v : v.type = "string"), Len(vs))

Lookup(name) ==
    LET Of(known) == IF known # <<>> THEN Head(known).val
                     ELSE IF name \in DOMAIN EnvVars THEN EnvVars[name] ELSE Missing
    IN  Of(SelectSeq(Strings(Kept(message).kids), LAMBDA v : v.name = name))

Failure(errs) == [is |-> "failed", errs |-> errs]
Truly(b) == [is |-> IF b THEN "yes" ELSE "no", errs |-> <<>>]

(* Whether test holds of a value, which may be a string, or of one of an   *)
(* array of strings.                                                       *)
AnyOf(v, test(_)) ==
    LET Decided(ks) == IF ks = <<>> THEN Truly(FALSE)
                       ELSE IF ks[1].type = "string" THEN Truly(TRUE)
                       ELSE Failure(<<Unexpected>>)
    IN  CASE v.type = "string" -> Truly(test(v.val))
          [] v.type = "array"  ->
                Decided(SelectSeq(v.kids, LAMBDA k : k.type # "string" \/ test(k.val)))
          [] OTHER -> Failure(<<Unexpected>>)

RECURSIVE Holds(_)

Compared(args, regex) ==
    LET To(var, v) == IF var = Missing THEN Truly(FALSE)
                      ELSE AnyOf(v, LAMBDA s : eq_regex_cmp(var, s, regex))
    IN  IF Strings(args) = <<>> \/ AfterString(args) = <<>> THEN Failure(<<>>)
        ELSE To(Lookup(Strings(args)[1].val), AfterString(args)[1])

Until(is, args) ==
    LET Decided(xs) == IF xs = <<>> THEN Truly(is = "yes") ELSE xs[1]
    IN  Decided(SelectSeq([i \in 1..Len(args) |-> Holds(args[i])],
                          LAMBDA x : x.is # is))

Negated(arrays) ==
    LET Not(x) == CASE x.is = "yes" -> Truly(FALSE)
                    [] x.is = "no"  -> Truly(TRUE)
                    [] OTHER        -> x
    IN  IF arrays = <<>> THEN Failure(<<>>) ELSE Not(Holds(arrays[1]))

Holds(e) ==
    LET By(name, args) ==
            CASE name \in {<<"eq">>, <<"regex">>} -> Compared(args, name = <<"regex">>)
              [] name = <<"has">> ->
                    IF args = <<>> THEN Failure(<<>>)
                    ELSE AnyOf(args[1], LAMBDA s : Lookup(s) # Missing)
              [] name \in {<<"and">>, <<"or">>} ->
                    Until(IF name = <<"and">> THEN "yes" ELSE "no", args)
              [] name = <<"not">>  -> Negated(Arrays(args))
              [] OTHER -> Failure(<<UnknownExpr>>)
    IN  IF e.type # "array" \/ e.kids[1].type # "string"
        THEN Failure(<<Unexpected>>)
        ELSE By(e.kids[1].val, Tail(e.kids))

(* A string with its %name% and %% replaced.                               *)
RECURSIVE Expand(_)
Expand(cs) ==
    LET i    == SelectInSeq(cs, LAMBDA c : c = "%")
        rest == SubSeq(cs, i + 1, Len(cs))
        j    == SelectInSeq(rest, LAMBDA c : c = "%")
        name == SubSeq(rest, 1, j - 1)
    IN  IF i = 0 THEN cs
        ELSE SubSeq(cs, 1, i - 1)
             \o (CASE name = <<>> -> <<"%">>
                   [] Lookup(name) = Missing -> <<>>
                   [] OTHER -> Lookup(name))
             \o Expand(SubSeq(rest, j + 1, Len(rest)))

Terminated(cs) == Len(SelectSeq(cs, LAMBDA c : c = "%")) % 2 = 0

(* Array members have no names, which the memory of a message tells by     *)
(* empty ones.                                                             *)
RECURSIVE Anonymous(_)
Anonymous(v) == [v EXCEPT !.name = Key(v),
                          !.kids = [i \in 1..Len(@) |-> Anonymous(@[i])]]

(* r is the events so far, the names of the files run and whether the      *)
(* present file has returned.                                              *)
RECURSIVE Does(_, _), Runs(_, _)

Runs(r, name) ==
    LET One(s, v) == [Does(s, Kept(v)) EXCEPT !.returned = FALSE]
    IN  IF name \in r.seen THEN [r EXCEPT !.out = Append(@, Recursive)]
        ELSE IF contents[name] = <<>> THEN r
        ELSE FoldLeft(One, [r EXCEPT !.seen = @ \cup {name}], contents[name])

(* if: what the arrays args say, the first of which comes to x.            *)
DoesIf(r, args, x) ==
    LET told == [r EXCEPT !.out = @ \o x.errs]
        n    == CASE x.is = "yes" -> 2 [] x.is = "no" -> 3 [] OTHER -> 4
    IN  IF n > 3 \/ n > Len(args) THEN told ELSE Does(told, args[n])

DoesCase(r, options, var) ==
    LET Chosen(ks) == IF ks = <<>> THEN r ELSE Does(r, ks[1])
    IN  Chosen(SelectSeq(options, LAMBDA k : k.name = var))

Issues(name, args) ==
    IF \E a \in ToSet(Strings(args)) : ~Terminated(a.val) THEN Unterminated
    ELSE [k |-> "command", name |-> name,
          args |-> [i \in 1..Len(args) |->
                      IF args[i].type = "string"
                      THEN Value(<<>>, "string", Expand(args[i].val), <<>>)
                      ELSE Anonymous(args[i])]]

DoesCommand(r, name, args) ==
    LET objects == SelectSeq(AfterString(args), LAMBDA a : a.type = "object") IN
    CASE name = <<"return">> -> [r EXCEPT !.returned = TRUE]
      [] name = <<"include">> ->
            IF Strings(args) = <<>> THEN r ELSE Runs(r, Strings(args)[1].val)
      [] name = <<"if">> ->
            IF Len(Arrays(args)) < 2 THEN r
            ELSE DoesIf(r, Arrays(args), Holds(Arrays(args)[1]))
      [] name = <<"case">> ->
            IF Strings(args) = <<>> \/ objects = <<>> THEN r
            ELSE DoesCase(r, objects[1].kids, Lookup(Strings(args)[1].val))
      [] OTHER -> [r EXCEPT !.out = Append(@, Issues(name, args))]

Does(r, v) ==
    CASE v.type # "array" -> [r EXCEPT !.out = Append(@, Unexpected)]
      [] v.type = "array" /\ v.kids = <<>> -> r
      [] OTHER ->
            IF v.kids[1].type = "string"
            THEN DoesCommand(r, v.kids[1].val, Tail(v.kids))
            ELSE FoldLeft(LAMBDA s, k : IF s.returned THEN s ELSE Does(s, k),
                          r, v.kids)

Meaning(name) ==
    Runs([out |-> <<>>, seen |-> {}, returned |-> FALSE], name).out

-----------------------------------------------------------------------------
(* Properties.                                                             *)

(***************************************************************************)
(* A run issues the commands and reports the errors that its JSON source   *)
(* means, in that order and with those arguments, through text, message,   *)
(* string buffers that move and a file cache that outlives runs: every     *)
(* file runs at most once in a run and an include of one that did is an    *)
(* error.  A run that was aborted does the beginning of it, and after the  *)
(* abort no more than finish the command it is at.  Excepted is a run      *)
(* during which a callback ran one of the same files, or aborted: a run    *)
(* within a run takes the marks file->seq and ctx->abort over.             *)
(***************************************************************************)
RunsAsWritten ==
    LET did == SelectSeq(done.log, LAMBDA e : e # Mark)
        n   == SelectInSeq(done.log, LAMBDA e : e = Mark)
        Shows(out) == IF n = 0 THEN did = out ELSE IsPrefix(did, out) /\ Len(did) <= n
    IN  done # NoRun => (~done.shaken /\ done.visited \cap done.alien = {} =>
                            Shows(Meaning(done.name)))

(* The attributes of the policy in kids, and that they are the first.      *)
Finds(b, kids) ==
    LET names  == SetToSeq({k.name : k \in ToSet(kids)})
        policy == [i \in 1..Len(names) |-> [name |-> names[i], type |-> "STRING"]]
        tb     == blobmsg_parse(b, policy, Members(b, b.head))
    IN  \A i \in 1..Len(names) :
            LET wanted == SelectSeq(Strings(kids), LAMBDA k : k.name = names[i])
            IN  IF wanted = <<>> THEN tb[i] = None
                ELSE tb[i] # None /\ Str(b, tb[i]) = Head(wanted).val

(***************************************************************************)
(* A message made from JSON is valid, its text parses back to the JSON it  *)
(* was made from (up to a null, with integers of 32 bits), and             *)
(* blobmsg_parse finds the first member of a name and type.  This holds of *)
(* the variables and of what the buffer of scripts, used again for every   *)
(* file, was filled with last.                                             *)
(***************************************************************************)
SameText(b, p, v) ==
    LET Parses(text) == json_parse_stream(text, FALSE) = Good(Len(text) + 1, Kept(v))
    IN  \A indent \in BOOLEAN : Parses(blobmsg_format_json(b, p, TRUE, indent))

BlobmsgRoundTrip ==
    /\ stack = <<>> /\ seq = 0 =>
          /\ SameText(b_vars, b_vars.head, message)
          /\ blobmsg_check_array(b_vars, b_vars.head, "UNSPEC") >= 0
          /\ Finds(b_vars, Kept(message).kids)
    /\ stack # <<>> =>
          (Top.k = "file" /\ Top.next = 1 =>
             \A i \in 1..Len(contents[Top.name]) :
                LET m == files[Top.name].chain[i] IN
                /\ SameText(m, 0, contents[Top.name][i])
                /\ blobmsg_check_array(m, 0, "UNSPEC") >= 0)
=============================================================================
