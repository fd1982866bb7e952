---------------------------- MODULE MCSqlAnalyzer ----------------------------
(* Six entities whose triads differ in priority, prefix, order and case,  *)
(* and formulas of up to three conditions, some of them nested queries     *)
(* with no, one or several values.                                         *)
EXTENDS SqlAnalyzer
Triad(p, v, priority, to) == [predicate |-> p, value |-> v, priority |-> priority, to |-> to]
Entity(id, triads) == [id |-> id, triads |-> triads]
T(p, v, n) == Triad(<<p>>, <<v>>, n, <<"-1">>)
Wife(v, to) == Triad(<<"wife">>, <<v>>, 1, to)
MCEntities == {
  Entity(<<"e1">>, <<T("born", "x", 1), Wife("z", <<"e2">>), Wife("y", <<"e3">>)>>),
  Entity(<<"e2">>, <<T("born", "y", 2), T("born", "x", 1), T("name", "z", 1)>>),
  Entity(<<"e3">>, <<T("born", "x", 1), T("born", "Y", 2),
                     Triad(<<"schema_", "name">>, <<"AND", "rew">>, 1, <<"-1">>)>>),
  Entity(<<"e4">>, <<Triad(<<"webfact_", "born">>, <<"y">>, 1, <<"-1">>), T("born", "X", 1),
                     T("weight", "x", 1), Wife("z", <<"-1">>)>>),
  Entity(<<"e5">>, <<T("name", "y", 1), Triad(<<"name">>, <<"p", "!=", "q">>, 1, <<"-1">>),
                     Triad(<<"name">>, <<"(", "y", ")">>, 1, <<"-1">>), T("secret", "x", 1)>>),
  Entity(<<"e6">>, <<Triad(<<"name">>, <<"p", ",", "q", ",">>, 1, <<"-1">>)>>)}
MCPropertyIds == [p \in {<<"born">>, <<"name">>, <<"weight">>, <<"wife">>} |->
                    CASE p[1] = "born" -> 1 [] p[1] = "name" -> 2
                      [] p[1] = "weight" -> 3 [] OTHER -> 4]
MCStopTerms == {<<"weight">>}
MCLower == [c \in {"X", "Y"} |-> IF c = "X" THEN "x" ELSE "y"]

Cond(key, oper, form, values, sub) ==
  [key |-> key, oper |-> oper, form |-> form, values |-> values, sub |-> sub]
Is(key, oper, v) == Cond(<<key>>, oper, "plain", <<<<v>>>>, <<>>)
Nest(key, oper, select, w) ==
  Cond(<<key>>, oper, "nested", <<>>, <<[select |-> <<select>>, where |-> w,
                                                tail |-> <<"LIMIT", "9">>]>>)
F(op, l, r, br) == [op |-> op, l |-> l, r |-> r, br |-> br]
Simple == {Is("born", "=", "x"), Is("born", "!=", "Y"), Is("ID", "=", "e3"),
           Cond(<<"name">>, "=", "quoted", <<<<"AND", "rew">>>>, <<>>),
           Cond(<<"born">>, "=", "set", <<<<"x">>, <<"Y">>>>, <<>>)}
Odd == {Is("secret", "!=", "x"), Is("weight", "=", "x"), Is("ID", "!=", "e3"), Is("name", "LIKE", "z"),
        Cond(<<"BR", "AND">>, "=", "plain", <<<<"x">>>>, <<>>),
        Cond(<<"name">>, "=", "quoted", <<<<"(", "y">>>>, <<>>),
        Cond(<<"name">>, "=", "quoted", <<<<"p", "!=", "q">>>>, <<>>),
        Cond(<<"name">>, "=", "plain", <<<<"AND", "rew">>>>, <<>>),
        Cond(<<"name">>, "!=", "quoted", <<<<"(", "Y", ")">>>>, <<>>),
        Cond(<<"name">>, "=", "set", <<<<"(", "y", ")">>, <<"z">>>>, <<>>),
        Cond(<<"name">>, "=", "quoted", <<<<"p", ",", "q">>>>, <<>>),
        Cond(<<"name">>, "=", "set", <<<<"p", ",", "q">>, <<"z">>>>, <<>>),
        Cond(<<"ID">>, "=", "set", <<<<"e1">>, <<"e4">>>>, <<>>)}
Inner == {Is("born", "=", "x"), Is("born", "=", "z"), Is("ID", "=", "e4"), Is("ID", "=", "e6"),
          F("OR", Is("born", "!=", "x"), Is("ID", "=", "e1"), FALSE)}
Nested == {Nest(key, "=", select, w) : key \in {"ID", "name"}, select \in {"wife", "name", "*"}, w \in Inner}
Deep == {Nest("ID", "!=", "*", Nest("ID", "=", "wife", Is("born", "=", "x"))),
         Nest("name", "!=", "wife", F("AND", Nest("ID", "=", "*", Is("born", "=", "x")),
                                      Is("born", "!=", "y"), FALSE))}
Operands == {Is("born", "=", "x"), Is("name", "!=", "z"),
             Cond(<<"name">>, "=", "quoted", <<<<"AND", "rew">>>>, <<>>),
             Nest("ID", "=", "wife", Is("born", "=", "x")),
             Nest("name", "=", "wife", Is("born", "=", "x"))}
Ops == {"AND", "OR"}
Pairs(C) == {F(op, l, r, br) : op \in Ops, l \in C, r \in C, br \in BOOLEAN}
Triples == {F(op, p, c, FALSE) : op \in Ops, p \in Pairs(Operands), c \in Operands}
             \cup {F(op, c, p, FALSE) : op \in Ops, p \in Pairs(Operands), c \in Operands}
(* As written: an OR below an AND has brackets.                            *)
Written(w) == \A f \in Formulas(w) : \A c \in {f.l, f.r} :
                f.op = "AND" /\ IsFormula(c) /\ c.op = "OR" => c.br
Wheres == Simple \cup Odd \cup Nested \cup Deep \cup Pairs(Simple \cup Odd \cup Deep)
            \cup {w \in Triples : Written(w)}
(* The gaps: none, those of the tests, and others around an operator or a  *)
(* word.                                                                   *)
Spaced == [word |-> 1, before |-> 1, after |-> 1, open |-> 0]
Uneven == {[word |-> n, before |-> b, after |-> a, open |-> o] :
             n \in 0..1, b \in 0..2, a \in 0..1, o \in 0..1}
Ask(select, w, tail, gaps) == [select |-> <<select>>, where |-> w, tail |-> tail, gaps |-> gaps]
Some == {Nest("ID", "=", "wife", Is("born", "=", "x")), Nest("ID", "!=", "wife", Is("born", "=", "x")),
         Cond(<<"ID">>, "=", "set", <<<<"e1">>, <<"e4">>>>, <<>>),
         Cond(<<"BIRTH", "ID">>, "=", "nested", <<>>, Nest("ID", "=", "wife", Is("born", "=", "x")).sub)}
MCRequests == {Ask("*", w, <<>>, gaps) : w \in Wheres, gaps \in {Tight, Spaced}}
                \cup {Ask("wife", w, tail, gaps) :
                        w \in Nested, tail \in {<<"LIMIT", "5">>, <<"ORDER BY", "weight", "LIMIT", "5">>},
                        gaps \in {Tight, Spaced}}
                \cup {Ask("*", w, <<>>, gaps) :
                        w \in Some \cup Pairs(Some \cup {Is("name", "!=", "z")}), gaps \in Uneven}
=============================================================================
