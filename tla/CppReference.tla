---------------------------- MODULE CppReference ----------------------------
(***************************************************************************)
(* What the preprocessor of Cpp promises of macros: what they are replaced *)
(* by, told by value from the definitions instead of by reading text again.*)
(***************************************************************************)
EXTENDS Cpp

-----------------------------------------------------------------------------
(* Macros.  A word that was replaced as far as it can be is marked "value".*)
Value(ts) == [i \in DOMAIN ts |-> IF ts[i].k = "word" THEN [ts[i] EXCEPT !.k = "value"] ELSE ts[i]]
Unmarked(ts) == [i \in DOMAIN ts |-> IF ts[i].k = "value" THEN [ts[i] EXCEPT !.k = "word"] ELSE ts[i]]
Written(ts) == SelectSeq(ts, LAMBDA t : t.k \notin {"sp", "nl", "//", " //"})

\* The bracket that closes the one at ts[1].
Depth(ts, i) == Cardinality({j \in 1 .. i : ts[j].k = "("}) - Cardinality({j \in 1 .. i : ts[j].k = ")"})
Closing(ts) == CHOOSE i \in DOMAIN ts : Depth(ts, i) = 0 /\ \A j \in 1 .. i - 1 : Depth(ts, j) > 0
Commas(ts) == {i \in DOMAIN ts : ts[i].k = "," /\ Depth(ts, i) = 0}
\* Argument p of count: what is not there is empty, the last takes the rest.
ArgumentAt(ts, p, count) ==
    LET comma == SetToSortSeq(Commas(ts), <)
    IN  IF Len(comma) < p - 1 THEN <<>>
        ELSE SubSeq(ts, IF p = 1 THEN 1 ELSE comma[p - 1] + 1,
                        IF p = count \/ Len(comma) < p THEN Len(ts) ELSE comma[p] - 1)

\* The body with arguments in place of parameters.
Substituted(m, args) ==
    FlattenSeq([i \in DOMAIN m.body |->
        IF m.body[i].k = "word" /\ \E p \in DOMAIN m.params : m.params[p] = m.body[i].v
        THEN args[CHOOSE p \in DOMAIN m.params : m.params[p] = m.body[i].v]
        ELSE <<m.body[i]>>])

\* Macros in hide are being replaced.  No text that is left calls a macro
\* together with text of another origin.
RECURSIVE Expand(_, _)
Expand(ts, hide) ==
    IF ts = <<>> THEN <<>>
    ELSE LET t == Head(ts) IN
         IF t.k # "word" \/ ~Defined(t.v) \/ t.v \in hide
         THEN <<t>> \o Expand(Tail(ts), hide)
         ELSE LET d == def[t.v] IN
              IF d.count < 0
              THEN Expand(d.body, hide \cup {t.v}) \o Expand(Tail(ts), hide)
              ELSE IF Len(ts) < 2 \/ ts[2].k # "(" THEN <<t>> \o Expand(Tail(ts), hide)
              ELSE LET close == Closing(Tail(ts)) + 1
                       inner == SubSeq(ts, 3, close - 1)
                       args == [p \in 1 .. d.count |-> Value(Expand(ArgumentAt(inner, p, d.count), hide))]
                   IN  Expand(Substituted(d, args), hide) \o Expand(SubSeq(ts, close + 1, Len(ts)), hide)

\* Macros with arguments that lead to themselves are replaced up to MAX_DEFINE.
Uses(n) == {m \in Name : \E i \in DOMAIN def[n].body : def[n].body[i].k = "word" /\ def[n].body[i].v = m}
Reached(n) == LET more[i \in 0 .. Cardinality(Name)] ==
                      IF i = 0 THEN Uses(n) ELSE more[i - 1] \cup UNION {Uses(m) : m \in more[i - 1]}
              IN  more[Cardinality(Name)]
Acyclic == \A n \in Name : def[n].count >= 0 => n \notin Reached(n)

\* Programs that define their macros first: text is what follows.
Text(ts) == SelectSeq(ts, LAMBDA t : t.k # "#")

(* ReplacedByValue: macros that are replaced by reading the text again,    *)
(* with a mark on those in use and arguments taken over as they are        *)
(* (get_onetok, gen_substrings, insert_substrings, chget_raw), come to     *)
(* what replacing each argument first and then the body, and no macro in   *)
(* itself, would.                                                          *)
ReplacedByValue ==
    (pc = "done" /\ prog \in Programs[1] /\ Acyclic) =>
        out = Unmarked(Written(Expand(Written(Text(prog[Main])), {})))

(* DirectivesSeen: a # at the start of a line is a directive; a comment    *)
(* with // keeps the end of its line ("Keep the return", cpp.c:482).       *)
DirectivesSeen == ~line.missed

(* Terminates: every text is read to its end, also with macros that lead   *)
(* to themselves: marks (in_use) and MAX_DEFINE end the replacing.         *)
Terminates == <>(pc = "done")
=============================================================================
