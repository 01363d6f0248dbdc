------------------------------- MODULE AsmCode -------------------------------
(***************************************************************************)
(* What a line of source does to the assembler's symbols, location         *)
(* counters and object code: as/assemble.c (labels), pops.c (EQU, segments *)
(* and data), express.c (names in expressions) and mops.c (jumps and       *)
(* immediate operands, whose length depends on what is known so far).      *)
(*                                                                         *)
(* A symbol's type and data bits are sets of flags, with the segment apart.*)
(* The operators take the state of the assembler as a record c:            *)
(*   pass, last   the pass and the one that writes the object file         *)
(*   lc, seg      location counters and the current segment                *)
(*   sym          the symbol table                                         *)
(*   dirty, err   a label moved in this pass; errors of this pass          *)
(*   todo, o      items of a line still to be written, the file's writer   *)
(*   cells, refs, stand    ghosts: what the lines of this pass say should  *)
(*     be where, the jumps, and where labels stand                         *)
(***************************************************************************)
EXTENDS AsmObject

CONSTANTS Name,     \* labels and constants of the program
          SHORT,    \* a short jump reaches -SHORT .. SHORT - 1; 128
          ANYSEG    \* SEGM, the segment of undefined symbols with -u

Bit(c) == c.pass = c.last
Undefined(c) == IF c.last = 1 THEN {"FOR", "UND"} ELSE {"UND"}
is8bitsignedoffset(v) == -SHORT <= v /\ v < SHORT

Error(c) == [c EXCEPT !.err = TRUE]
ErrorIf(c, wrong) == IF wrong THEN Error(c) ELSE c

NewSymbol(u) ==
    [type |-> {}, data |-> IF u THEN {"REL", "UND", "IMP"} ELSE {"REL", "UND"},
     seg |-> IF u THEN ANYSEG ELSE 0, value |-> 0]

-----------------------------------------------------------------------------
(* Expressions x: a name, or a number that has no name.  A value is a      *)
(* record like a symbol; operators that use one take it as v.              *)
Num(v) == [name |-> "", value |-> v]
Named(n) == [name |-> n, value |-> 0]
Constant(v) == [data |-> {}, seg |-> 0, value |-> v, name |-> ""]

(* Naming a symbol that is no label yet marks it as referred to in         *)
(* advance, so that both passes take the longest form for it.              *)
MentionNever(c, n) == c
Mention(c, n) ==
    IF c.last = 1 /\ "LAB" \notin c.sym[n].type
    THEN [c EXCEPT !.sym[n].data = @ \cup {"FOR"}] ELSE c

Expundefined(c, e) == [e EXCEPT !.data = Undefined(c), !.seg = 0]

Factor(c, n) ==
    LET s == Mention(c, n).sym[n]
        e == [data |-> s.data, seg |-> s.seg, value |-> s.value, name |-> n]
    IN  IF ~Bit(c) THEN [e EXCEPT !.data = @ \cap (IF c.last = 1 THEN {"FOR", "REL", "UND"}
                                                   ELSE {"REL", "UND"})]
        ELSE IF "IMP" \in s.data THEN [e EXCEPT !.value = 0]
        ELSE IF "UND" \in s.data THEN Expundefined(c, e)
        ELSE e

\* In the last pass a name must be defined or imported.
Unlabelled(c, n) == Bit(c) /\ "UND" \in c.sym[n].data /\ "IMP" \notin c.sym[n].data

Value(c, x) == IF x.name = "" THEN Constant(x.value) ELSE Factor(c, x.name)
Evaluated(c, x) ==
    IF x.name = "" THEN c ELSE ErrorIf(Mention(c, x.name), Unlabelled(c, x.name))

\* absexpres: a relocatable value will not do.
AbsValue(c, x) ==
    LET e == Value(c, x) IN IF "REL" \in e.data THEN Expundefined(c, e) ELSE e
AbsEvaluated(c, x) == ErrorIf(Evaluated(c, x), Bit(c) /\ "REL" \in Value(c, x).data)

-----------------------------------------------------------------------------
(* Labels.  A name at the start of a line takes the location counter, and  *)
(* so does one that is already a label, in every pass but the first.       *)
Conflicting(s, c) ==                               \* checksegrel
    /\ "LAB" \in s.type \/ ("IMP" \in s.data /\ "UND" \notin s.data)
    /\ "REL" \notin s.data \/ s.seg # c.seg

Here(c, s) == [s EXCEPT !.data = (@ \cap {"FOR"}) \cup {"REL"}, !.seg = c.seg, !.value = c.lc[c.seg]]

IsLabel(c, n) == "LAB" \in c.sym[n].type \/ ~Conflicting(c.sym[n], c)

LabelHere(c, n) ==
    LET s == c.sym[n]
    IN  IF "LAB" \in s.type
        THEN ErrorIf([c EXCEPT !.sym[n] = IF c.pass = 0 THEN s ELSE Here(c, s)], "RED" \in s.type)
        ELSE IF Conflicting(s, c) THEN Error(c)
        ELSE [c EXCEPT !.sym[n] = Here(c, s)]

(* A label whose value is not that of the pass before makes another pass   *)
(* necessary, and is an error when there is none.                          *)
Moved(c, n, oldlabel) ==
    IF c.pass # 0 /\ c.sym[n].value # oldlabel
    THEN ErrorIf([c EXCEPT !.dirty = TRUE], Bit(c)) ELSE c

\* Confirming a label forgets that it is redefined.
Label(c, n) ==
    IF ~IsLabel(c, n) THEN LabelHere(c, n)
    ELSE LET d == [LabelHere(c, n) EXCEPT !.sym[n].type = (@ \ {"RED"}) \cup {"LAB"},
                                          !.stand = @ \cup {<<n, c.seg, c.lc[c.seg]>>}]
         IN  Moved(d, n, c.sym[n].value)

(* EQU: the name has been made a label of this place when the expression   *)
(* is evaluated.  Only the first pass tells a redefinition.                *)
Redefinition(c, d, n, e) ==
    /\ c.pass = 0 /\ "LAB" \in d.sym[n].type /\ "UND" \notin d.sym[n].data
    /\ \/ {"REL", "UND"} \cap d.sym[n].data # {"REL", "UND"} \cap e.data
       \/ d.sym[n].value # e.value

Equ(c, n, x) ==
    LET d == LabelHere(c, n)
        olddata == d.sym[n].data
        marked == [d EXCEPT !.sym[n].type = @ \cup {"LAB"}, !.sym[n].data = @ \ {"IMP"}]
        v == Value(marked, x)
        imported == "IMP" \in v.data
        e == IF imported THEN Expundefined(c, v) ELSE v
        f == ErrorIf(Evaluated(marked, x), imported)
        known == [e EXCEPT !.data = @ \cup (olddata \cap {"FOR"})]
    IN  IF ~IsLabel(c, n) THEN Error(d)
        ELSE IF Redefinition(c, d, n, known)
        THEN ErrorIf([f EXCEPT !.sym[n].type = @ \cup {"RED"}], "RED" \notin f.sym[n].type)
        ELSE Moved([f EXCEPT !.sym[n].data = known.data, !.sym[n].seg = known.seg,
                             !.sym[n].value = known.value], n, c.sym[n].value)

Import(c, n) ==
    LET s == c.sym[n]
    IN  IF Conflicting(s, c) \/ "LAB" \in s.type THEN Error(c)
        ELSE [c EXCEPT !.sym[n].data = {"IMP", "REL"} \cup (IF c.last = 1 THEN {"FOR"} ELSE {}),
                       !.sym[n].seg = c.seg]

-----------------------------------------------------------------------------
(* Code: items are bytes or addresses, [adr, width, pcr].  They go to the  *)
(* object file in the last pass, and the location counter counts them.     *)
Opcode(id, n) == [k \in 1 .. n |-> [byte |-> <<id, k>>]]
Address(e, width, pcr) ==
    <<[adr |-> [rel |-> "REL" \in e.data, imp |-> "IMP" \in e.data, seg |-> e.seg,
                value |-> e.value, name |-> e.name], width |-> width, pcr |-> pcr]>>

IsByte(item) == "byte" \in DOMAIN item
Width(item) == IF IsByte(item) THEN 1 ELSE item.width
Length(items) ==
    LET upto[n \in 0 .. Len(items)] == IF n = 0 THEN 0 ELSE upto[n - 1] + Width(items[n])
    IN  upto[Len(items)]

PutItem(o, item) ==
    IF IsByte(item) THEN putabs(o, item.byte) ELSE genobjadr(o, item.adr, item.width, item.pcr)

\* What an item should be in the linked module, at offset at of segment seg.
CellsOf(item, seg, at) ==
    IF IsByte(item) THEN {[seg |-> seg, at |-> at, is |-> item.byte]}
    ELSE IF ~item.adr.rel
    THEN {[seg |-> seg, at |-> at + k - 1, is |-> Bytes(item.adr.value, item.width)[k]] : k \in 1 .. item.width}
    ELSE {[seg |-> seg, at |-> at, is |->
             [seg |-> IF item.adr.imp THEN 0 ELSE item.adr.seg,
              name |-> IF item.adr.imp THEN item.adr.name ELSE "", width |-> item.width, pcr |-> item.pcr,
              value |-> item.adr.value - (IF item.pcr THEN at + item.width ELSE 0)]]}

Advance(c, n) == [c EXCEPT !.lc[c.seg] = @ + n]

\* The last pass writes items one after the other.
Emit(c, items) == IF Bit(c) THEN [c EXCEPT !.todo = items] ELSE Advance(c, Length(items))

genobj(c) ==
    LET item == Head(c.todo)
    IN  Advance([c EXCEPT !.todo = Tail(@), !.o = PutItem(@, item),
                          !.cells = @ \cup CellsOf(item, c.seg, c.lc[c.seg])], Width(item))

Data(c, id, n) == Emit(c, Opcode(id, n))                                 \* FCB
Word(c, x, v) == Emit(Evaluated(c, x), Address(v, 2, FALSE))             \* FDB

accumulate(c, n) == IF Bit(c) THEN [c EXCEPT !.o = accumulate_rmb(@, n)] ELSE c
Skip(c, n) == Advance(accumulate(c, n), n)                               \* RMB
Align(c, n) ==
    LET past == c.lc[c.seg] % n IN IF past = 0 THEN c ELSE Skip(c, n - past)

setloc(c, seg) ==
    [c EXCEPT !.o = IF Bit(c) /\ seg # c.seg THEN putobj(@, [is |-> "seg", count |-> seg]) ELSE @,
              !.seg = seg]

(* An immediate operand is one byte if its value is known and small.       *)
ImmediateWidth(e) ==
    IF e.data \cap {"FOR", "REL", "UND"} = {} /\ is8bitsignedoffset(e.value) THEN 1 ELSE 2
Immediate(c, id, x, v) ==
    Emit(Evaluated(c, x), Opcode(id, 2) \o Address(v, ImmediateWidth(v), FALSE))

-----------------------------------------------------------------------------
(* Jumps, with -j.  reldata turns a target in this segment into a distance *)
(* and leaves others to the linker, relative to the program counter.       *)
SameSegment(c, e) == "IMP" \notin e.data /\ "REL" \in e.data /\ e.seg = c.seg
RelBad(c, e) == ~SameSegment(c, e) /\ "REL" \notin e.data
reldata(c, e) ==
    IF RelBad(c, e) THEN Expundefined(c, e)
    ELSE IF SameSegment(c, e) THEN [e EXCEPT !.data = @ \ {"REL"}, !.seg = 0]
    ELSE e

DistanceShort(c, e, length) ==
    IF {"REL", "UND"} \cap e.data = {} THEN [e EXCEPT !.value = @ - c.lc[c.seg] - 2] ELSE e
Distance(c, e, length) ==
    IF {"REL", "UND"} \cap e.data = {} THEN [e EXCEPT !.value = @ - c.lc[c.seg] - length] ELSE e

\* Ghost: the jump at the end of which a distance counts, and its target.
Refer(c, x, e, length, items) ==
    [Emit(c, items) EXCEPT
        !.refs = IF Bit(c) THEN @ \cup {[target |-> x.name, seg |-> c.seg, end |-> c.lc[c.seg] + length,
                                         adr |-> Last(items).adr]} ELSE @]

lbranch(c, id, x, v, opcodes) ==
    LET length == opcodes + 2
        e == IF Bit(c) THEN Distance(c, reldata(c, v), length) ELSE v
        d == ErrorIf(Evaluated(c, x), Bit(c) /\ RelBad(c, v))
    IN  Refer(d, x, e, length, Opcode(id, opcodes) \o
              Address(e, 2, Bit(c) /\ ~RelBad(c, v) /\ ~SameSegment(c, v)))

mshort2(c, id, x, v) ==
    LET imported == "IMP" \in v.data
        t == IF imported THEN [v EXCEPT !.data = {"FOR", "UND"}, !.seg = 0] ELSE v
        r == IF Bit(c) THEN reldata(c, t) ELSE t
        away == Bit(c) /\ "REL" \in r.data
        e == IF away THEN Expundefined(c, r) ELSE IF Bit(c) THEN Distance(c, r, 2) ELSE r
        far == Bit(c) /\ "UND" \notin e.data /\ ~is8bitsignedoffset(e.value)
    IN  Refer(ErrorIf(Evaluated(c, x), imported \/ away \/ far \/ (Bit(c) /\ RelBad(c, t))),
              x, e, 2, Opcode(id, 1) \o Address([e EXCEPT !.data = @ \ {"IMP"}], 1, FALSE))

(* Long if two passes must do, or if the target is out of reach by what is *)
(* known of it now.                                                        *)
TakesLong(c, v) ==
    c.last = 1 \/ (c.pass # 0 /\ ~is8bitsignedoffset(v.value - c.lc[c.seg] - 2))
\* Opcodes of the long form: 1 for a jump, 3 for a branch over one.
Jump(c, id, x, v, opcodes) ==
    IF TakesLong(c, v) THEN lbranch(c, id, x, v, opcodes) ELSE mshort2(c, id, x, v)
=============================================================================
