---------------------------- MODULE MCJsonScript ----------------------------
(* JsonScript for TLC: scripts put together from a few commands.           *)
EXTENDS JsonScriptMeaning

Str_(cs)    == Value(NoName, "string", cs, <<>>)
Num(ds)     == Value(NoName, "number", ds, <<>>)
Arr(kids)   == Value(NoName, "array", <<>>, kids)
Obj(kids)   == Value(NoName, "object", <<>>, kids)
NullValue   == Value(NoName, "null", <<>>, <<>>)
W(w)        == Str_(<<w>>)

Expressions ==
    LET has == Arr(<<W("has"), W("u")>>)
        eq  == Arr(<<W("eq"), Num(<<"1">>), W("v"), W("x")>>)
    IN  { has, eq,
          Arr(<<W("eq"), W("v"), Arr(<<W("y"), W("x")>>)>>),
          Arr(<<W("eq"), W("v"), Num(<<"3">>)>>),
          Arr(<<W("regex"), W("e"), W(".")>>),
          Arr(<<W("has"), Arr(<<W("u"), Num(<<"3">>)>>)>>),
          Arr(<<W("and"), eq, has>>),
          Arr(<<W("or"), has, W("x"), eq>>),
          Arr(<<W("or"), has, eq>>),
          Arr(<<W("not"), has>>),
          Arr(<<W("nor"), eq>>) }

Simple ==
    { Arr(<<W("c"), Str_(<<"a", "%", "v", "%", "%", "%">>),
            Value(NoName, "object", <<>>, <<Named(Num(<<"7">>), <<"k">>)>>)>>),
      Arr(<<W("c"), Str_(<<"%", "e">>)>>),
      Arr(<<W("return")>>),
      Arr(<<W("include"), W("A")>>),
      Arr(<<W("include"), W("B")>>) }

Say(cs) == Arr(<<W("c"), Str_(cs)>>)

Compound ==
    {Arr(<<W("if"), e, Arr(<<Say(<<"1">>)>>), Say(<<"%", "e", "%", "0">>)>>) :
        e \in Expressions}
    \cup {Arr(<<W("case"), W("v"),
                Obj(<<Named(W("q"), <<"y">>), Named(c, <<"x">>)>>)>>) :
             c \in Simple}
    \cup {Arr(<<Arr(<<c>>), NullValue, Say(<<>>)>>) : c \in Simple}

FileA == {<<Arr(<<c, d>>)>> : c \in Simple \cup Compound, d \in Simple}
FileB == {<<Arr(<<Arr(<<W("include"), W("A")>>), Say(<<"b">>)>>)>>,
          <<Arr(<<Say(<<"%", "v", "%", "2">>), Arr(<<W("return")>>), Say(<<>>)>>),
            Arr(<<Num(<<"5">>), Say(<<"3">>)>>)>>,
          <<>>}

MCContents == [A : FileA, B : FileB]
MCContentsByName ==
    {(<<"A">> :> c.A) @@ (<<"B">> :> c.B) : c \in MCContents}
MCNames == {<<"A">>, <<"B">>}
MCMessages ==
    {Obj(<<Named(Num(<<"6">>), <<"v">>), Named(W("x"), <<"v">>),
           Named(W("y"), <<"v">>),
           Named(Arr(<<Num(<<"-", "2">>), Str_(<<"\"", "/">>),
                       Value(NoName, "false", <<>>, <<>>)>>), <<"w">>)>>)}
MCEnvVars == (<<"e">> :> <<"z", "z">>)
=============================================================================
