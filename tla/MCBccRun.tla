------------------------------ MODULE MCBccRun ------------------------------
(***************************************************************************)
(* Function bodies to compile: loops and switches in one another, with     *)
(* locals, left and entered by jumps; conditions; tables of cases.         *)
(***************************************************************************)
EXTENDS BccRun

CONSTANT done    \* the name of the label

Tok(t, n, x, len) == [t |-> t, n |-> n, x |-> x, len |-> len]
One(t, n) == <<Tok(t, n, <<>>, 1)>>
Pre(t, n, x, s) == <<Tok(t, n, x, 1 + Len(s))>> \o s
T == <<"test", 1>>
True == <<"const", 1>>
False == <<"const", 0>>
E == One("expr", 3)
Far == One("expr", 9)
Null == One(";", 0)
Break == One("break", 0)
Continue == One("continue", 0)
Goto == One("goto", done)
Return(n) == One("return", n)
Label(s) == Pre("label", done, <<>>, s)
Case(n, s) == Pre("case", n, <<>>, s)
Default(s) == Pre("default", 0, <<>>, s)
Block(n, ss) == LET inner == FoldLeft(LAMBDA x, y : x \o y, <<>>, ss)
                IN  <<Tok("{", n, <<>>, Len(inner) + 2)>> \o inner \o One("}", 0)
While(x, s) == Pre("while", 0, x, s)
For(n, x, s) == Pre("for", n, x, s)
Do(s, x) == <<Tok("do", 0, <<>>, Len(s) + 2)>> \o s \o <<Tok("do while", 0, x, 0)>>
If(x, s) == Pre("if", 0, x, s)
IfElse(x, s, r) == <<Tok("if", 0, x, Len(s) + Len(r) + 2)>> \o s \o One("else", 0) \o r
Switch(char, s) == Pre("switch", char, <<>>, s)
Prog(saved, s) == [tokens |-> s, saved |-> saved]

\* Loops and switches in one another, with a jump in the innermost, and where it may jump to.
Simple(l, x) == {While(T, Block(l, <<If(T, x), E>>)), For(1, T, If(T, x)), Do(Block(l, <<E, x>>), T),
                 Switch(0, Block(l, <<Case(1, If(T, x)), Default(E)>>))}
Enclosed(l, s) == {While(T, Block(l, <<s, E>>)), For(0, <<>>, Block(l, <<If(T, Return(0)), Label(E), s>>)), Do(s, T),
                  Switch(0, Block(0, <<Case(2, Block(l, <<Label(E), s>>)), Case(4, E)>>))}
Jumps == {Break, Goto, Return(1), Null}
Whole(s) == {Block(2, <<s, Label(E)>>), Block(130, <<E, s, E>>)}
Complete(s) == (\E i \in DOMAIN s : s[i].t = "goto") => Cardinality({i \in DOMAIN s : s[i].t = "label"}) = 1
AtMostOneLabel(s) == Cardinality({i \in DOMAIN s : s[i].t = "label"}) <= 1
InLoop(s) == \A p \in DOMAIN s : s[p].t = "continue" => \E q \in 1 .. p - 1 : s[q].t \in Loops /\ q + s[q].len > p
Fit(s) == Complete(s) /\ AtMostOneLabel(s) /\ InLoop(s)
Two == UNION {UNION {Whole(t) : t \in UNION {Enclosed(l1, s) : s \in Simple(l2, x)}}
                 : <<l1, l2, x>> \in {0, 4} \X {0, 4} \X (Jumps \cup {Continue})}
Three == UNION {{Block(2, <<u>>) : u \in UNION {Enclosed(l1, t) : t \in UNION {Enclosed(l2, s) : s \in Simple(2, x)}}}
                 : <<l1, l2, x>> \in {0, 4} \X {0, 4} \X {Continue, Break, Goto}}

\* Conditions.
Leaf(n) == {<<"test", n>>, <<"!", <<"test", n>>>>}
Binary(xs, ys) == UNION {{<<op, x, y>> : x \in xs, y \in ys} : op \in {"&&", "||"}}
Not(xs) == {<<"!", x>> : x \in xs}
Pairs == Binary(Leaf(1), Leaf(2) \cup {True, False})
Conditions == Pairs \cup Not(Pairs) \cup Binary(Pairs, {<<"test", 3>>}) \cup Binary({<<"test", 3>>}, Not(Pairs))
Tests == UNION {{Block(0, <<If(x, E), E>>), Block(2, <<IfElse(x, E, Block(2, <<E>>))>>), Block(2, <<While(x, Far)>>)} : x \in Conditions}

\* Branches as long as a short one can be, over others.
Sized == UNION {{Block(0, <<While(T, Block(0, <<If(T, Break), One("expr", n)>>))>>),
                 Block(0, <<IfElse(T, Block(0, <<If(T, E), One("expr", n)>>), If(T, E))>>),
                 Block(0, <<If(T, Label(E)), One("expr", n), If(T, Goto)>>),
                 Block(2, <<While(T, Block(0, <<If(T, Block(0, <<E, Continue>>)), If(T, One("expr", n)), E>>))>>)} : n \in 4 .. 30}

\* Tables.
Cased(char, default, vs) ==
    Block(2, <<Switch(char, Block(2, [i \in DOMAIN vs |-> Case(vs[i], IF i % 2 = 0 THEN E ELSE Block(0, <<E, Break>>))]
                                  \o (IF default THEN <<Default(E)>> ELSE <<>>))), E>>)
Lists == {<<>>, <<0>>, <<4, 0, 5, 1, 3, 2>>, <<5, 4, 2, 1, 0>>, <<0, 10, 20, 30, 40, 51>>, <<0, 10, 20, 31, 40, 41>>,
          <<1, 3, 5, 7, 9, 11, 250>>, <<40, 0, 1, 2, 3, 4, 5, 46, 45, 44, 43, 42>>, <<-3, -2, -1, 0, 1, 2>>, <<-32768, 32767, 7>>,
          <<-32768, 32760, 32762, 32763, 32764, 32767, 32765>>, <<255, 254, 253, 252, 251, 250>>, <<300, 1>>}
MCPrograms == [tokens : {s \in Two \cup Three : Fit(s)}, saved : {4}]
              \cup [tokens : Tests \cup Sized, saved : {0}]
              \cup [tokens : {Cased(char, d, vs) : <<char, d, vs>> \in {0, 1} \X BOOLEAN \X Lists}
                             \cup {Block(0, <<>>), Block(4, <<>>)}, saved : {0, 4}]
MCValues == {-32768, -32767, -3, 0, 1, 2, 4, 5, 6, 10, 20, 30, 41, 250, 255, 256, 32760, 32766, 32767}
=============================================================================
