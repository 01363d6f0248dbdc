-------------------------------- MODULE MCCpp --------------------------------
(* Programs for Cpp, in families that each aim at some of it.              *)
EXTENDS CppReference

K(k) == [k |-> k]
W(v) == Word(v)
Dir(op) == [k |-> "#", op |-> op, comment |-> FALSE]
IfIs(v) == [k |-> "#", op |-> "if", comment |-> FALSE, value |-> v]
ElifIs(v) == [k |-> "#", op |-> "elif", comment |-> FALSE, value |-> v]
Of(op, n) == [k |-> "#", op |-> op, comment |-> FALSE, name |-> n]
DefineOf(n, count, params, body) ==
    [k |-> "#", op |-> "define", comment |-> FALSE, name |-> n, count |-> count, params |-> params, body |-> body]
DefineAs(n, body) == DefineOf(n, -1, <<>>, body)
Commented(t) == [t EXCEPT !.comment = TRUE]

Lines(n, alphabet) == UNION {[1 .. m -> alphabet] : m \in 1 .. n}
Single(text) == [main |-> text, inc |-> <<>>]
Call(n, args) == <<W(n), K("(")>> \o args \o <<K(")")>>

(* Macros defined once, in terms of each other and of themselves, and text *)
(* that uses them.                                                         *)
Bodies(n) ==
    CASE n = "A" -> {<<>>, <<W("B")>>, <<W("A"), W("B")>>, <<W("y")>>, Call("F", <<W("B")>>)}
      [] n = "B" -> {<<W("A")>>, <<W("z"), W("A")>>, <<W("F")>>, <<W("y")>>}
      [] n = "F" -> {<<W("x")>>, <<W("x"), K("sp"), W("B"), W("x")>>, <<W("A"), K("("), W("x"), K(")")>>}
Items == {<<W("A")>>, Call("F", <<W("A")>>), Call("F", Call("F", <<W("B"), K(","), W("y")>>)),
          <<W("F"), K("sp")>> \o Tail(Call("F", <<W("y"), K(","), W("A")>>)), <<W("F"), W("y")>>, Call("F", <<>>)}
Params == {<<>>, <<"x">>, <<"w", "x">>}
\* F would replace more than one call of itself: that takes 2^MAX_DEFINE.
Doubles(a, b, f) == Len(a) > 1 /\ Last(b).v = "A" /\ Len(f) > 1 /\ f[2].k = "sp"
Macros == {Single(<<DefineAs("A", d[1]), DefineAs("B", d[2]), DefineOf("F", Len(ps), ps, d[3])>> \o s \o t \o <<K("nl")>>) :
    d \in {e \in Bodies("A") \X Bodies("B") \X Bodies("F") : ~Doubles(e[1], e[2], e[3])},
    ps \in Params, s \in Items, t \in {<<W("A")>>, <<W("F"), W("y")>>}}

(* Directives among what a macro takes as its arguments, which may begin   *)
(* in another macro.                                                       *)
Calls == {Single(<<DefineOf("F", 1, <<"x">>, <<W("x")>>), DefineAs("A", a)>> \o t \o <<K("nl")>>) :
    a \in {<<W("F"), K("(")>>, Call("F", <<W("A")>>)},
    t \in Lines(4, {W("A"), W("F"), K("("), K(")"), K("nl"), DefineAs("A", <<W("y")>>)})}

Conditionals == {Single(t) : t \in Lines(5, {IfIs(TRUE), IfIs(FALSE), ElifIs(TRUE), ElifIs(FALSE), Dir("else"), Dir("endif")})}
(* An #else of the outermost #if, forgotten by k more that are nested.     *)
Deeper == {Single(<<IfIs(v), Dir("else")>> \o [i \in 1 .. k |-> IfIs(TRUE)] \o [i \in 1 .. k |-> Dir("endif")] \o t) :
    v \in BOOLEAN, k \in 1 .. 4, t \in Lines(2, {IfIs(TRUE), ElifIs(TRUE), Dir("else"), Dir("endif")})}
Definitions == {Single(t) : t \in Lines(3, {Of("ifdef", "A"), Of("ifndef", "A"), Of("undef", "A"), DefineAs("A", <<>>),
    Dir("else"), ElifIs(TRUE), Dir("endif"), Dir("unknown"), Dir("pragma"), W("A")})}
Files == {[main |-> t, inc |-> u] : t \in Lines(3, {Of("include", "inc"), Of("ifndef", "A"), DefineAs("A", <<W("y")>>), W("A")}),
    u \in Lines(2, {Of("include", "inc"), Of("ifndef", "A"), DefineAs("A", <<W("z")>>), W("A"), Dir("endif")})}

\* Comments that end a line.
Comments == {Single(t) : t \in Lines(3, {W("y"), K("sp"), K("nl"), K("//"), K(" //"), DefineAs("A", <<>>),
    Commented(DefineAs("A", <<>>)), Commented(Of("include", "inc")), Commented(IfIs(FALSE))})}

AllPrograms == <<Macros, Calls, Conditionals, Deeper, Definitions, Files, Comments>>
Tokens ==
    {K(k) : k \in {"sp", "nl", "(", ")", ",", "//", " //"}} \cup {W(v) : v \in {"A", "B", "F", "w", "x", "y", "z"}} \cup
    {Dir(op) : op \in {"else", "endif", "unknown", "pragma"}} \cup {IfIs(v) : v \in BOOLEAN} \cup {ElifIs(v) : v \in BOOLEAN} \cup
    {Of(op, "A") : op \in {"ifdef", "ifndef", "undef"}} \cup {Of("include", "inc")} \cup
    {Commented(t) : t \in {DefineAs("A", <<>>), Of("include", "inc"), IfIs(FALSE)}} \cup
    {DefineAs("A", a) : a \in Bodies("A") \cup {<<W("F"), K("(")>>, Call("F", <<W("A")>>), <<W("z")>>}} \cup
    {DefineAs("B", b) : b \in Bodies("B")} \cup
    {DefineOf("F", Len(ps), ps, f) : ps \in Params, f \in Bodies("F")}
=============================================================================
