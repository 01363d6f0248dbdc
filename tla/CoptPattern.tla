----------------------------- MODULE CoptPattern ----------------------------
(***************************************************************************)
(* copt/copt.c: the language of the rules.  A text is a sequence of        *)
(* characters, where a character stands for a run that no pattern divides. *)
(* A pattern is a sequence of the things the lines of a rule are made of,  *)
(* well formed ones: the code that takes others for ordinary text is left  *)
(* out, as are the interning of texts (install) and the limit on the       *)
(* length of a line.                                                       *)
(***************************************************************************)
EXTENDS Integers, Sequences, TLC

(* What patterns and replacements are made of.                             *)
Star == 10                                           \* the * in place of a variable
Char(c) == [kind |-> "char", char |-> c]
Var(n) == [kind |-> "var", n |-> n]                  \* %n and %*
OneOf(of, n) == [kind |-> "oneof", of |-> of, n |-> n] \* %[..|..]n
NoneOf(of) == [kind |-> "noneof", of |-> of]         \* %![..|..]
Value(expr) == [kind |-> "value", expr |-> expr]     \* %(..)
Convert(from, to, n) == [kind |-> "convert", from |-> from, to |-> to, n |-> n] \* %=[..][..]n
Chars(s) == [i \in DOMAIN s |-> Char(s[i])]
From(s, n) == SubSeq(s, n + 1, Len(s))

-----------------------------------------------------------------------------
(* eval: the value of an expression, 0 if it is none.  retval, num, sign,  *)
(* base and op are globals, which the evaluation of a variable sets afresh;*)
(* state is a local.  Letters of either case are one; no rule divides.     *)
Digits == <<"0", "1", "2", "3", "4", "5", "6", "7", "8", "9", "A", "B", "C", "D", "E", "F">>
DigitsOf(base) == {Digits[i] : i \in 1 .. base}
Digit(c) == (CHOOSE i \in DOMAIN Digits : Digits[i] = c) - 1

Start == [retval |-> 0, num |-> 0, sign |-> 1, base |-> 10, op |-> "none", state |-> 0, bad |-> FALSE]

Applied(op, a, b) ==
    CASE op = "none" -> b
      [] op = "+" -> a + b
      [] op = "-" -> a - b
      [] op = "*" -> a * b
      [] op = "/" -> IF b = 0 THEN 0 ELSE IF (a < 0) = (b < 0) THEN a \div b ELSE -((-a) \div b)
      [] op = "<" -> a * 2 ^ b
      [] op = ">" -> a \div 2 ^ b

doretval(g) ==
    [g EXCEPT !.retval = Applied(g.op, @, IF g.op \in {"<", ">"} THEN g.num ELSE g.num * g.sign),
              !.op = "none", !.num = 0, !.sign = 1, !.base = 10]

Operand == {0, 1, 5}      \* states in which one may begin
Settled(g) == IF g.state = 3 THEN doretval(g) ELSE g

RECURSIVE Scan(_, _, _)
(* A number, as it is left when the text ends or makes no sense; value is  *)
(* what eval returns.                                                      *)
Result(g) == IF g.bad \/ g.state \notin {3, 4} THEN 0 ELSE Settled(g).retval
Left(g) == IF g.bad \/ g.state # 3 THEN g ELSE doretval(g)
Nested(text) == LET g == Scan(Chars(text), <<>>, Start)
                IN  doretval([Left(g) EXCEPT !.num = Result(g)])

Scanned(g, e, v) ==
    LET c == e.char
        t == g.state
    IN  CASE e.kind = "var" ->
               IF t \in Operand /\ e.n \in DOMAIN v
               THEN [Nested(v[e.n]) EXCEPT !.state = 4, !.bad = FALSE] ELSE [g EXCEPT !.bad = TRUE]
          [] e.kind = "char" ->
               CASE c \in {"-", "+"} /\ t \in {0, 5} ->
                      [g EXCEPT !.state = 1, !.sign = IF c = "-" THEN -1 ELSE 1]
                 [] c = "$" /\ t \in Operand -> [g EXCEPT !.state = 2, !.base = 16]
                 [] c \in DigitsOf(g.base) /\ t # 4 ->
                      [g EXCEPT !.state = 3, !.num = @ * g.base + Digit(c)]
                 [] c = " " /\ t \in 3 .. 5 ->
                      [Settled(g) EXCEPT !.state = IF t = 3 THEN 4 ELSE @]
                 [] c \in {"+", "-", "*", "/", "<", ">"} /\ t \in {3, 4} ->
                      [Settled(g) EXCEPT !.state = 5, !.op = c]
                 [] OTHER -> [g EXCEPT !.bad = TRUE]

Scan(expr, v, g) == IF expr = <<>> \/ g.bad THEN g ELSE Scan(Tail(expr), v, Scanned(g, Head(expr), v))

eval(expr, v) == Result(Scan(expr, v, Start))

-----------------------------------------------------------------------------
(* match: compares a line with a pattern, variables are bound on the way   *)
(* and stay so when an attempt fails; v maps those that are bound.         *)
Answer(ok, v) == [ok |-> ok, vars |-> v]
AgreesAlways(v, n, s) == TRUE
Agrees(v, n, s) == n \in DOMAIN v => v[n] = s
Bind(v, n, s) == IF n = Star \/ n \in DOMAIN v THEN v ELSE v @@ (n :> s)

RECURSIVE match(_, _, _)
RECURSIVE Shortest(_, _, _, _)
(* How many characters a variable takes: as few as let the rest match.     *)
Shortest(ins, n, pat, v) ==
    IF n = Len(ins) THEN [n |-> n, vars |-> v]
    ELSE LET rest == match(From(ins, n), pat, v)
         IN  IF rest.ok THEN [n |-> n, vars |-> rest.vars] ELSE Shortest(ins, n + 1, pat, rest.vars)

Bound(ins, n, taken, pat, v) ==
    LET s == SubSeq(ins, 1, taken)
    IN  IF Agrees(v, n, s) THEN match(From(ins, taken), pat, Bind(v, n, s)) ELSE Answer(FALSE, v)

match(ins, pat, v) ==
    IF ins = <<>> \/ pat = <<>> THEN Answer(Len(ins) = Len(pat), v)
    ELSE LET p == Head(pat)
             rest == Tail(pat)
             taken == Shortest(ins, 0, rest, v)
             after == match(Tail(ins), rest, v)
         IN  CASE p.kind = "char" -> IF p.char = Head(ins) THEN after ELSE Answer(FALSE, v)
               [] p.kind = "var" -> Bound(ins, p.n, taken.n, rest, taken.vars)
               [] p.kind = "oneof" ->
                    IF Head(ins) \notin p.of THEN Answer(FALSE, v)
                    ELSE IF after.ok THEN Bound(ins, p.n, 1, rest, after.vars) ELSE after
               [] p.kind = "noneof" -> IF Head(ins) \in p.of THEN Answer(FALSE, v) ELSE match(ins, rest, v)
               [] p.kind = "value" ->
                    IF eval(p.expr, v) = eval(Chars(SubSeq(ins, 1, taken.n)), taken.vars)
                    THEN match(From(ins, taken.n), rest, taken.vars) ELSE Answer(FALSE, taken.vars)

(* subst: a line of the replacement.                                       *)
RECURSIVE Hex(_)
Hex(n) == IF n < 16 THEN <<Digits[n + 1]>> ELSE Append(Hex(n \div 16), Digits[(n % 16) + 1])
Number(n) == IF n < 0 THEN <<"-", "$">> \o Hex(-n) ELSE <<"$">> \o Hex(n)

Substituted(p, v) ==
    CASE p.kind = "char" -> <<p.char>>
      [] p.kind = "var" -> IF p.n \in DOMAIN v THEN v[p.n] ELSE <<>>
      [] p.kind = "value" -> Number(eval(p.expr, v))
      [] p.kind = "convert" ->
           LET found == {i \in DOMAIN p.from : v[p.n] = <<p.from[i]>> /\ i \in DOMAIN p.to}
           IN  IF found = {} THEN <<>> ELSE <<p.to[CHOOSE i \in found : \A j \in found : i <= j]>>

RECURSIVE subst(_, _)
subst(pat, v) == IF pat = <<>> THEN <<>> ELSE Substituted(Head(pat), v) \o subst(Tail(pat), v)
=============================================================================
