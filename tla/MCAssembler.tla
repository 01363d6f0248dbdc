----------------------------- MODULE MCAssembler -----------------------------
(* Programs for Assembler, in families that each aim at some of it.        *)
EXTENDS Assembler

Op(op) == [op |-> op]
IfIs(x) == [op |-> "if", x |-> x]
ElseIfIs(x) == [op |-> "elseif", x |-> x]
LabelOf(n) == [op |-> "label", name |-> n]
EquTo(n, x) == [op |-> "equ", name |-> n, x |-> x]
Bytes1(n) == [op |-> "data", n |-> n]
WordOf(x) == [op |-> "word", x |-> x]
SkipBy(n) == [op |-> "skip", n |-> n]
AlignTo(n) == [op |-> "align", n |-> n]
InSegment(s) == [op |-> "seg", seg |-> s]
ImmediateOf(x) == [op |-> "imm", x |-> x]
JumpTo(x, n) == [op |-> "jump", x |-> x, n |-> n]
CallOf(m) == [op |-> "call", name |-> m]
GetFile(f) == [op |-> "get", file |-> f]
MacroOf(m) == [op |-> "macro", name |-> m]
ImportOf(n) == [op |-> "import", name |-> n]

Lines(n, alphabet) == [1 .. n -> alphabet]
Single(program) == [main |-> program, inc |-> <<>>]
Of(files, last, undef) == [files |-> files, last |-> last, undef |-> undef]

(* Conditionals to more than the nesting allowed, and conditions on a name *)
(* that is defined before, after, or in one branch.                        *)
Nested == {Of(Single(p), 1, FALSE) : p \in
    Lines(5, {IfIs(Num(0)), IfIs(Num(1)), ElseIfIs(Num(0)), ElseIfIs(Num(1)), Op("else"), Op("endif")})}
Defined == {Of(Single(p), 1, FALSE) : p \in
    Lines(4, {IfIs(Named("K")), ElseIfIs(Named("K")), Op("else"), Op("endif"),
              EquTo("K", Num(0)), EquTo("K", Num(1)), Bytes1(1)})}

(* Macros that call themselves, are defined twice or not closed; files     *)
(* that include themselves, close conditionals of others or end early.     *)
Sources == {Of([main |-> p, inc |-> q], 1, FALSE) :
    p \in Lines(3, {GetFile("inc"), MacroOf("M"), Op("mend"), CallOf("M"), Bytes1(1), Op("end")}),
    q \in Lines(2, {GetFile("inc"), CallOf("M"), Op("mend"), Op("end"), Bytes1(2)})}
Macros == {Of(Single(<<MacroOf("M")>> \o p), l, FALSE) : l \in {1, 2},
    p \in Lines(5, {MacroOf("M"), Op("mend"), CallOf("M"), Bytes1(1)})}

(* Jumps and operands whose length depends on labels behind them, with two *)
(* passes or as many as it takes.                                          *)
Times(p, op) == Cardinality({i \in DOMAIN p : p[i] = op})
Jumps == {Of(Single(p), l, FALSE) : l \in {1, 2}, p \in
    {q \in Lines(5, {JumpTo(Named("L"), 1), JumpTo(Named("K"), 3), LabelOf("L"), LabelOf("K"),
                     SkipBy(2), AlignTo(4)}) :
        Times(q, LabelOf("L")) = 1 /\ Times(q, LabelOf("K")) = 1 /\ Times(q, AlignTo(4)) <= 1}}
(* Jumps over each other and an alignment.  A longer jump may bring a      *)
(* label closer to the next one, which gets shorter, and so on for ever.   *)
Crossing == {Of(Single(<<SkipBy(gaps[1]), JumpTo(Named("K"), n[1]), JumpTo(Named("L"), n[2]), JumpTo(Named("K"), n[3]),
                         LabelOf("L"), SkipBy(gaps[2]), AlignTo(4), SkipBy(gaps[3]), LabelOf("K")>>), 2, FALSE) :
    n \in [1 .. 3 -> {1, 3}], gaps \in [1 .. 3 -> 0 .. 2]}
Symbols == {Of(Single(p), l, FALSE) : l \in {1, 2}, p \in
    {q \in Lines(4, {JumpTo(Named("L"), 1), LabelOf("L"), LabelOf("K"), EquTo("K", Num(1)),
                     EquTo("L", Named("K")), ImmediateOf(Named("K")), InSegment(1), Bytes1(1)}) :
        Times(q, JumpTo(Named("L"), 1)) + Times(q, ImmediateOf(Named("K"))) = 1}}

(* Bytes, gaps, segments and addresses, so that all that the writer holds  *)
(* back meets all that may follow.                                         *)
Object == {Of(Single(<<LabelOf("L")>> \o p), 1, FALSE) : p \in
    Lines(4, {Bytes1(3), SkipBy(2), InSegment(0), InSegment(1), WordOf(Named("L")), WordOf(Num(5))})}
Imports == {Of(Single(p), 1, u) : u \in BOOLEAN, p \in
    Lines(3, {Bytes1(1), InSegment(1), WordOf(Named("K")), WordOf(Num(5)), JumpTo(Named("K"), 1), ImportOf("K")})}

AllPrograms == <<Nested, Defined, Sources, Macros, Jumps, Crossing, Symbols, Object, Imports>>
Segments == {0, 1}
=============================================================================
