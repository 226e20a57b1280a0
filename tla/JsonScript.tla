----------------------------- MODULE JsonScript -----------------------------
(***************************************************************************)
(* The interpreter of src/json_script.c, run as examples/json_script.c     *)
(* does: handle_file parses the JSON text of a script and turns it into a  *)
(* message, and the interpreter walks the memory of that message.          *)
(*                                                                         *)
(* The recursion of json_process_cmd is a stack of frames, so that the     *)
(* callback handle_command may, wherever the code calls it, abort the run  *)
(* or run a script itself.  handle_var, called in the middle of strings    *)
(* and expressions, may abort the run, but runs no script.                 *)
(***************************************************************************)
EXTENDS Blobmsg

CONSTANTS
    Names,      \* of script files
    Contents,   \* what the files may hold: for each name a chain of JSON
                \* values, the empty chain if handle_file finds no file
    Messages,   \* the JSON objects the variables may be made from
    EnvVars,    \* the variables handle_var knows, and their values
    MaxRuns,    \* bound on the runs
    MaxTricks   \* bound on aborts and on runs within runs

VARIABLES
    contents, message, \* the choices above
    b_vars,     \* the message of the variables
    b_script,   \* the buffer handle_file converts in
    files,      \* ctx->files: the files loaded, [seq, chain] by name
    buf,        \* ctx->buf
    seq,        \* _seq
    abort,      \* ctx->abort
    stack,      \* the active calls, innermost first
    calls,      \* the active runs, innermost first, with what each did
    tricks, done

vars == <<contents, message, b_vars, b_script, files, buf, seq, abort, stack,
          calls, tricks, done>>

NoRun == <<>>

-----------------------------------------------------------------------------
(* Files.                                                                  *)

(* json_script_file_from_blobmsg: a copy of what the head of b holds.      *)
json_script_file_from_blobmsg(b) ==
    LET p == attr_to_offset(b, b.head) + 2
    IN  [base |-> 0, head |-> 0,
         mem  |-> SubSeq(b.mem, p, p - 1 + blob_len(b, b.head) \div 4)]

(* handle_file of the example, for each file of a chain.  What             *)
(* blobmsg_add_json_element returned is not looked at.                     *)
handle_file(b, values) ==
    LET obj(v) == json_parse_stream(print_value(v, 0, TRUE), FALSE).val
        Read(new, chain) ==
            [b |-> new, chain |-> Append(chain, json_script_file_from_blobmsg(new))]
    IN  FoldLeft(LAMBDA r, v :
            Read(blobmsg_add_json_element(blob_buf_init(r.b, "UNSPEC"), obj(v)).buf,
                 r.chain),
            [b |-> b, chain |-> <<>>], values)

(* The loaded files and b_script afterwards.                               *)
json_script_get_file(name) ==
    LET Loaded(r) == [files |-> (name :> [seq |-> 0, chain |-> r.chain]) @@ files,
                      b     |-> r.b]
    IN  IF name \in DOMAIN files \/ contents[name] = <<>>
        THEN [files |-> files, b |-> b_script]
        ELSE Loaded(handle_file(b_script, contents[name]))

-----------------------------------------------------------------------------
(* Variables.                                                              *)

Missing == <<"-">>      \* a null pointer instead of a string

(* The value, or Missing, and whether handle_var was asked.                *)
json_script_find_var(name) ==
    LET IsIt(p) == /\ blobmsg_type(b_vars, p) = "STRING"
                   /\ blobmsg_name(b_vars, p) = name
        known == SelectSeq(Members(b_vars, b_vars.head), IsIt)
    IN  IF known # <<>>
        THEN [val |-> Word(b_vars, blobmsg_data(b_vars, Head(known))).val,
              asked |-> FALSE]
        ELSE [val |-> IF name \in DOMAIN EnvVars THEN EnvVars[name] ELSE Missing,
              asked |-> TRUE]

-----------------------------------------------------------------------------
(* Expressions, in the memory m of a file.  A result is the value the C    *)
(* function returns, the errors reported and whether handle_var was asked. *)

Type(m, p)  == blobmsg_type(m, p)
Str(m, p)   == Word(m, blobmsg_data(m, p)).val
First(m, p) == blobmsg_data(m, p)

json_get_tuple(m, p, t1, t2) ==
    blobmsg_parse_array(m, <<"STRING", t1, t2>>, Members(m, p))

Result(ret, errs, asked) == [ret |-> ret, errs |-> errs, asked |-> asked]
Quiet(ret)   == Result(ret, <<>>, FALSE)
Unexpected   == [k |-> "error", what |-> "Unexpected element type"]
UnknownExpr  == [k |-> "error", what |-> "Unknown expression type"]
Recursive    == [k |-> "error", what |-> "Recursive include"]
Unterminated == [k |-> "error", what |-> "Unterminated variable reference"]

Truth(b) == IF b THEN 1 ELSE 0

(* regcomp and regexec know here a pattern that matches everything but the *)
(* empty string, one they refuse, and plain words.                         *)
RegexMatches(str, pattern) ==
    CASE pattern = <<".">> -> str # <<>>
      [] pattern = <<"(">> -> FALSE
      [] OTHER -> \E i \in 0..Len(str) : IsPrefix(pattern, SubSeq(str, i + 1, Len(str)))

eq_regex_cmp(str, pattern, regex) ==
    IF regex THEN RegexMatches(str, pattern) ELSE str = pattern

expr_eq_regex(m, p, regex) ==
    LET Agrees(var, q) == eq_regex_cmp(var.val, Str(m, q), regex)
        (* up to the first element that decides *)
        Decided(var, deciding) ==
            IF deciding = <<>> THEN Result(0, <<>>, var.asked)
            ELSE IF Type(m, deciding[1]) = "STRING" THEN Result(1, <<>>, var.asked)
            ELSE Result(-1, <<Unexpected>>, var.asked)
        Compare(var, q) ==
            IF var.val = Missing THEN Result(0, <<>>, var.asked)
            ELSE CASE Type(m, q) = "STRING" ->
                        Result(Truth(Agrees(var, q)), <<>>, var.asked)
                   [] Type(m, q) = "ARRAY" ->
                        Decided(var, SelectSeq(Members(m, q), LAMBDA e :
                                    Type(m, e) # "STRING" \/ Agrees(var, e)))
                   [] OTHER -> Result(-1, <<Unexpected>>, var.asked)
        In(tb) == IF tb[2] = None \/ tb[3] = None THEN Quiet(-1)
                  ELSE Compare(json_script_find_var(Str(m, tb[2])), tb[3])
    IN  In(json_get_tuple(m, p, "STRING", "UNSPEC"))

handle_expr_has(m, p) ==
    LET Try(r, q) ==
            IF r.ret # 0 THEN r
            ELSE IF Type(m, q) # "STRING"
            THEN [r EXCEPT !.ret = -1, !.errs = <<Unexpected>>]
            ELSE LET Found(var) == [r EXCEPT !.ret = Truth(var.val # Missing),
                                             !.asked = @ \/ var.asked]
                 IN  Found(json_script_find_var(Str(m, q)))
        In(q) == IF q = None THEN Quiet(-1)
                 ELSE FoldLeft(Try, Quiet(0),
                        IF Type(m, q) = "ARRAY" THEN Members(m, q) ELSE <<q>>)
    IN  In(json_get_tuple(m, p, "UNSPEC", "UNSPEC")[2])

RECURSIVE json_process_expr(_, _)
(* From the second element on, up to the first that decides.               *)
expr_and_or(m, p, and) ==
    LET Also(r, x) == Result(x.ret, r.errs \o x.errs, r.asked \/ x.asked)
    IN  FoldLeft(LAMBDA r, q : IF r.ret # and THEN r
                               ELSE Also(r, json_process_expr(m, q)),
                 Quiet(and), Tail(Members(m, p)))

handle_expr_not(m, p) ==
    LET Not(x) == IF x.ret < 0 THEN x ELSE [x EXCEPT !.ret = 1 - @]
        In(q)  == IF q = None THEN Quiet(-1) ELSE Not(json_process_expr(m, q))
    IN  In(json_get_tuple(m, p, "ARRAY", "UNSPEC")[2])

json_process_expr(m, p) ==
    IF Type(m, p) # "ARRAY" \/ Type(m, First(m, p)) # "STRING"
    THEN Result(-1, <<Unexpected>>, FALSE)
    ELSE LET name == Str(m, First(m, p)) IN
         CASE name \in {<<"eq">>, <<"regex">>} ->
                                     expr_eq_regex(m, p, name = <<"regex">>)
           [] name = <<"has">>   -> handle_expr_has(m, p)
           [] name \in {<<"and">>, <<"or">>} ->
                                     expr_and_or(m, p, Truth(name = <<"and">>))
           [] name = <<"not">>   -> handle_expr_not(m, p)
           [] OTHER              -> Result(-1, <<UnknownExpr>>, FALSE)

-----------------------------------------------------------------------------
(* Commands.                                                               *)

(* The pieces a string is cut into at each %: the second, the fourth, ...  *)
(* are names of variables.                                                 *)
Segments(cs) ==
    FoldLeft(LAMBDA segs, c : IF c = "%" THEN Append(segs, <<>>)
                              ELSE [segs EXCEPT ![Len(segs)] = Append(@, c)],
             << <<>> >>, cs)

(* Each piece is copied into a string buffer that grows with it.           *)
eval_string(b, pattern) ==
    LET Write(new, text) ==
            [text |-> text,
             buf  |-> Store(new, StringBuffer(new), Content("string", text))]
        Copy(r, piece) ==
            Write(blobmsg_realloc_string_buffer(r.buf, Len(r.text \o piece) + 1),
                  r.text \o piece)
        CopyVar(r, var) ==
            [(IF var.val = Missing THEN r ELSE Copy(r, var.val) @@ r)
                EXCEPT !.asked = @ \/ var.asked]
        Take(r, seg) ==
            [(CASE ~r.var /\ seg = <<>> -> r
               [] ~r.var /\ seg # <<>> -> Copy(r, seg) @@ r
               [] r.var /\ seg = <<>>  -> Copy(r, <<"%">>) @@ r
               [] OTHER -> CopyVar(r, json_script_find_var(seg)))
             EXCEPT !.var = ~@]
        Ended(r) == [buf   |-> blobmsg_add_string_buffer(r.buf),
                     ok    |-> r.var,
                     asked |-> r.asked]
        start == Write(blobmsg_alloc_string_buffer(b, <<>>, 1), <<>>)
    IN  Ended(FoldLeft(Take, start @@ [var |-> FALSE, asked |-> FALSE],
                       Segments(pattern)))

(* The array of what follows the name in the command at p.                 *)
cmd_process_strings(m, p) ==
    LET Added(r, x) == [x EXCEPT !.asked = x.asked \/ r.asked]
        Arg(r, q) ==
            IF ~r.ok THEN r
            ELSE IF Type(m, q) # "STRING"
            THEN [r EXCEPT !.buf = blobmsg_add_blob(@, m, q)]
            ELSE Added(r, eval_string(r.buf, Str(m, q)))
        Closed(r, cookie) ==
            IF r.ok THEN [r EXCEPT !.buf = blob_nest_end(@, cookie)] ELSE r
        In(open) == Closed(FoldLeft(Arg, [buf |-> open.buf, ok |-> TRUE, asked |-> FALSE],
                                    Tail(Members(m, p))), open.cookie)
    IN  In(blobmsg_open_nested(blob_buf_init(buf, "UNSPEC"), <<>>, "ARRAY"))

(* What a callback reads of the attribute at p.                            *)
RECURSIVE ValueAt(_, _)
ValueAt(b, p) ==
    LET name == blobmsg_name(b, p)
        kids == Members(b, p)
        Nested(type) == Value(name, type, <<>>,
                              [i \in 1..Len(kids) |-> ValueAt(b, kids[i])])
    IN  CASE Type(b, p) = "STRING" -> Value(name, "string", Str(b, p), <<>>)
          [] Type(b, p) = "INT32"  -> Value(name, "number", Str(b, p), <<>>)
          [] Type(b, p) = "INT8"   -> Value(name, Str(b, p)[1], <<>>, <<>>)
          [] Type(b, p) = "TABLE"  -> Nested("object")
          [] Type(b, p) = "ARRAY"  -> Nested("array")

(* The arguments given to handle_command: blob_data(ctx->buf.head).        *)
Arguments(b) == ValueAt(b, b.head + 1).kids

-----------------------------------------------------------------------------
(* The active calls.  A frame is a chain of files being run, or a block    *)
(* whose elements are being processed.                                     *)

FileFrame(name, top) == [k |-> "file", name |-> name, next |-> 1, top |-> top]

Block(f, p) == [k |-> "block", f |-> f, at |-> p,
                rest |-> Members(files[f[1]].chain[f[2]], p)]

Top    == stack[1]
Callers == Tail(stack)
Memory == files[Top.f[1]].chain[Top.f[2]]

Mark == [k |-> "abort"]

(* The events evs happen in the innermost run; a callback among the calls  *)
(* that lead to them may abort it.                                         *)
Happens(evs, asked) ==
    \E aborted \in (IF asked /\ tricks < MaxTricks THEN BOOLEAN ELSE {FALSE}) :
        /\ abort' = (abort \/ aborted)
        /\ tricks' = IF aborted THEN tricks + 1 ELSE tricks
        /\ calls' = [calls EXCEPT
              ![1].log = (IF aborted THEN Append(@, Mark) ELSE @) \o evs]

(* The beginning of json_process_cmd for p of the file f.                  *)
Descend(f, p, callers, evs, asked) ==
    LET array == Type(files[f[1]].chain[f[2]], p) = "ARRAY" IN
    /\ stack' = IF array THEN <<Block(f, p)>> \o callers ELSE callers
    /\ Happens(IF array THEN evs ELSE Append(evs, Unexpected), asked)

(* A run of name within the runs and calls there are.                      *)
Begin(name) ==
    \E new \in {json_script_get_file(name)} :
        /\ b_script' = new.b
        /\ IF name \notin DOMAIN new.files
           THEN files' = new.files /\ UNCHANGED <<seq, abort>>
           ELSE /\ seq' = seq + 1
                /\ abort' = FALSE
                /\ files' = [new.files EXCEPT ![name].seq = seq']

Call(name) == [seq |-> seq', name |-> name, log |-> <<>>, visited |-> {name},
               alien |-> {}, shaken |-> FALSE]

Constants == <<contents, message, b_vars>>

Init ==
    /\ message \in Messages
    /\ b_vars = blobmsg_add_json(blobmsg_buf_init(EmptyBuf),
                     json_parse_stream(print_value(message, 0, FALSE), FALSE)).buf
    /\ contents \in Contents
    /\ b_script = EmptyBuf
    /\ files = <<>>
    /\ buf = EmptyBuf
    /\ seq = 0
    /\ abort = FALSE
    /\ stack = <<>>
    /\ calls = <<>>
    /\ tricks = 0
    /\ done = NoRun

-----------------------------------------------------------------------------
(* json_script_run by the program.                                         *)
json_script_run(name) ==
    /\ calls = <<>>
    /\ seq < MaxRuns
    /\ Begin(name)
    /\ IF name \in DOMAIN files'
       THEN calls' = <<Call(name)>> /\ stack' = <<FileFrame(name, TRUE)>>
       ELSE UNCHANGED <<calls, stack>>
    /\ done' = NoRun
    /\ UNCHANGED <<Constants, buf, tricks>>

(* __json_script_run: the files of a chain, one after the other.           *)
NextFile ==
    /\ stack # <<>>
    /\ Top.k = "file"
    /\ Top.next <= Len(files[Top.name].chain)
    /\ Descend(<<Top.name, Top.next>>, 0,
               <<[Top EXCEPT !.next = @ + 1]>> \o Callers, <<>>, FALSE)
    /\ done' = NoRun
    /\ UNCHANGED <<Constants, b_script, files, buf, seq>>

(* Its end.  What the run within a run has done to the files and to abort  *)
(* is noted for the run around it.                                         *)
EndFile ==
    /\ stack # <<>>
    /\ Top.k = "file"
    /\ Top.next > Len(files[Top.name].chain)
    /\ stack' = Callers
    /\ LET inner   == calls[1]
           aborted == Mark \in ToSet(inner.log)
           Noted(outer) ==
               [outer EXCEPT !.alien = @ \cup inner.visited \cup inner.alien,
                             !.shaken = \/ @ \/ inner.shaken \/ aborted
                                        \/ Mark \in ToSet(outer.log)]
       IN  IF ~Top.top
           THEN UNCHANGED calls /\ done' = NoRun
           ELSE /\ calls' = IF Len(calls) = 1 THEN <<>>
                            ELSE <<Noted(calls[2])>> \o SubSeq(calls, 3, Len(calls))
                /\ done' = inner
    /\ UNCHANGED <<Constants, b_script, files, buf, seq, abort, tricks>>

InBlock == stack # <<>> /\ Top.k = "block"
AtCommand == /\ InBlock
             /\ Top.rest # <<>>
             /\ Top.rest = Members(Memory, Top.at)
             /\ Type(Memory, Top.rest[1]) = "STRING"

Step == /\ done' = NoRun
        /\ UNCHANGED <<Constants, seq>>

(* json_process_cmd: the end of the block, or of the run.                  *)
EndBlock ==
    /\ InBlock
    /\ abort \/ Top.rest = <<>>
    /\ stack' = Callers
    /\ Step
    /\ UNCHANGED <<b_script, files, buf, abort, calls, tricks>>

(* Its next element is not the name of a command.                          *)
NextElement ==
    /\ InBlock
    /\ ~abort
    /\ Top.rest # <<>>
    /\ ~AtCommand
    /\ Descend(Top.f, Top.rest[1],
               <<[Top EXCEPT !.rest = Tail(@)]>> \o Callers, <<>>, FALSE)
    /\ Step
    /\ UNCHANGED <<b_script, files, buf>>

(* The block is a command, whose name is one of names.  Its frame gives    *)
(* way to what it calls.                                                   *)
IsNamed(names) ==
    /\ AtCommand
    /\ ~abort
    /\ Str(Memory, Top.rest[1]) \in names

handle_if ==
    /\ IsNamed({<<"if">>})
    /\ \E tb \in {blobmsg_parse_array(Memory, <<"STRING", "ARRAY", "ARRAY", "ARRAY">>,
                                      Members(Memory, Top.at))} :
       \E x \in {IF tb[2] = None \/ tb[3] = None THEN Quiet(-1)
                 ELSE json_process_expr(Memory, tb[2])} :
       \E branch \in {CASE x.ret = 1 -> tb[3] [] x.ret = 0 -> tb[4] [] OTHER -> None} :
          IF branch = None
          THEN stack' = Callers /\ Happens(x.errs, x.asked)
          ELSE Descend(Top.f, branch, Callers, x.errs, x.asked)
    /\ Step
    /\ UNCHANGED <<b_script, files, buf>>

handle_case ==
    /\ IsNamed({<<"case">>})
    /\ \E tb \in {json_get_tuple(Memory, Top.at, "STRING", "TABLE")} :
       \E var \in {IF tb[2] = None \/ tb[3] = None
                   THEN [val |-> Missing, asked |-> FALSE]
                   ELSE json_script_find_var(Str(Memory, tb[2]))} :
       \E opts \in {IF var.val = Missing THEN <<>>
                    ELSE SelectSeq(Members(Memory, tb[3]), LAMBDA q :
                                      blobmsg_name(Memory, q) = var.val)} :
          IF opts = <<>>
          THEN stack' = Callers /\ Happens(<<>>, var.asked)
          ELSE Descend(Top.f, opts[1], Callers, <<>>, var.asked)
    /\ Step
    /\ UNCHANGED <<b_script, files, buf>>

(* -2 ends every block up to the file's.                                   *)
handle_return ==
    /\ IsNamed({<<"return">>})
    /\ LET n == SelectInSeq(stack, LAMBDA f : f.k = "file")
       IN  stack' = SubSeq(stack, n, Len(stack))
    /\ Step
    /\ UNCHANGED <<b_script, files, buf, abort, calls, tricks>>

(* *mutant* including a file without noting that it was run.               *)
IncludeUnnoted(fs, name) == fs

RunIn(fs, name) == [fs EXCEPT ![name].seq = calls[1].seq]

handle_include ==
    /\ IsNamed({<<"include">>})
    /\ \E p \in {json_get_tuple(Memory, Top.at, "STRING", "UNSPEC")[2]} :
       \E name \in {IF p = None THEN Missing ELSE Str(Memory, p)} :
       \E new \in {IF p = None THEN [files |-> files, b |-> b_script]
                   ELSE json_script_get_file(name)} :
          /\ b_script' = new.b
          /\ IF name \notin DOMAIN new.files
             THEN files' = new.files /\ stack' = Callers /\ UNCHANGED calls
             ELSE IF new.files[name].seq = calls[1].seq
             THEN /\ files' = new.files
                  /\ stack' = Callers
                  /\ calls' = [calls EXCEPT ![1].log = Append(@, Recursive)]
             ELSE /\ files' = RunIn(new.files, name)
                  /\ stack' = <<FileFrame(name, FALSE)>> \o Callers
                  /\ calls' = [calls EXCEPT ![1].visited = @ \cup {name}]
    /\ Step
    /\ UNCHANGED <<buf, abort, tricks>>

Builtin == {<<"if">>, <<"case">>, <<"return">>, <<"include">>}

(* Another command: either its strings cannot be evaluated, or it is given *)
(* to handle_command, which does nothing that matters here, aborts the run *)
(* or runs a script itself.                                                *)
Command == [k |-> "command", name |-> Str(Memory, Top.rest[1]),
            args |-> Arguments(buf')]

Return(r) ==
    /\ Happens(<<IF r.ok THEN Command ELSE Unterminated>>, r.asked)
    /\ stack' = Callers
    /\ UNCHANGED <<b_script, files, seq>>

Aborting(r) ==
    /\ r.ok
    /\ tricks < MaxTricks
    /\ tricks' = tricks + 1
    /\ abort' = TRUE
    /\ calls' = [calls EXCEPT ![1].log = @ \o <<Command, Mark>>]
    /\ stack' = Callers
    /\ UNCHANGED <<b_script, files, seq>>

Running(r, name) ==
    /\ r.ok
    /\ tricks < MaxTricks
    /\ tricks' = tricks + 1
    /\ Begin(name)
    /\ name \in DOMAIN files'
    /\ calls' = <<Call(name)>> \o [calls EXCEPT ![1].log = Append(@, Command)]
    /\ stack' = <<FileFrame(name, TRUE)>> \o Callers

handle_command ==
    /\ AtCommand
    /\ ~abort
    /\ Str(Memory, Top.rest[1]) \notin Builtin
    /\ \E r \in {cmd_process_strings(Memory, Top.at)} :
          /\ buf' = r.buf
          /\ \/ Return(r)
             \/ Aborting(r)
             \/ \E name \in Names : Running(r, name)
    /\ done' = NoRun
    /\ UNCHANGED Constants

(* json_script_free, after which the context is used anew.                 *)
json_script_free ==
    /\ calls = <<>>
    /\ files # <<>>
    /\ files' = <<>>
    /\ buf' = EmptyBuf
    /\ Step
    /\ UNCHANGED <<b_script, abort, stack, calls, tricks>>

Next ==
    \/ \E name \in Names : json_script_run(name)
    \/ json_script_free
    \/ NextFile
    \/ EndFile
    \/ EndBlock
    \/ NextElement
    \/ handle_if
    \/ handle_case
    \/ handle_return
    \/ handle_include
    \/ handle_command

Spec == Init /\ [][Next]_vars
=============================================================================
