------------------------------ MODULE BccState ------------------------------
(***************************************************************************)
(* The statements of the compiler, bcc/state.c, with the branches on       *)
(* conditions of glogcode.c and the stack of function.c and preserve.c,    *)
(* for the 8086.  A program is the token sequence of one function body.    *)
(* The calls of the recursive descent are on the stack "todo", the rest of *)
(* each as a sequence of items; one step does the first item.              *)
(***************************************************************************)
EXTENDS BccLabel, FiniteSets, TLC

CONSTANTS Programs,      \* records [tokens, saved]: saved bytes of registers
          Names          \* of labels

\* The sizes of expressions, the values of cases and the names of labels.
ASSUME ProgramsAssumption ==
    /\ IsFiniteSet(Names)
    /\ \A p \in Programs : \A i \in DOMAIN p.tokens :
           /\ p.tokens[i].t = "expr" => p.tokens[i].n \in Nat
           /\ p.tokens[i].t = "case" => p.tokens[i].n \in Int
           /\ p.tokens[i].t \in {"goto", "label"} => p.tokens[i].n \in Names

VARIABLES prog, next, todo, g, frame, loops, switches, named, equ
compiler == <<prog, next, todo, g, frame, loops, switches, named, equ>>

FRAME == 2                                     \* bytes of the frame pointer
func1saveregsize == FRAME + prog.saved
framep == -FRAME
Sym == prog.tokens[next]
InSwitch == switches # <<>>
Goes(items) == todo' = items \o Tail(todo)
Item(do) == todo # <<>> /\ Head(todo).do = do
Statement(t) == Item("statement") /\ next \in DOMAIN prog.tokens /\ Sym.t = t
Skip(n) == next' = next + n

getlabel(n) == frame.lastlab + n
Reserve(n) == [frame EXCEPT !.lastlab = @ + n]
Effective(f) == [f EXCEPT !.returnflag = FALSE]
SyntaxOnly == UNCHANGED <<prog, g, loops, switches, named, equ>>

\* What is left to do, besides the statements.
State == [do |-> "statement"]
Code(i) == [do |-> "code", code |-> i]
LabelOf(l) == [do |-> "label", label |-> l]
Jump(l) == [do |-> "branch", cond |-> "RA", label |-> l]
LBranch(cond, l) == [do |-> "branch", cond |-> cond, label |-> l]
Cond(x, true, false, nojump) ==
    [do |-> "cond", x |-> x, true |-> true, false |-> false, nojump |-> nojump]
End(do, brk) == [do |-> do, brk |-> brk]

\* Evaluations: what the expression at a token does, and the stack it is compiled for.
Eval(at, id, size) == [op |-> "event", at |-> at, id |-> id, size |-> size, sp |-> frame.sp,
                       low |-> frame.softsp, sw |-> IF InSwitch THEN frame.swstacklab ELSE 0]
AddSp(n, plus, minus) == [op |-> "addsp", n |-> n, plus |-> plus, minus |-> minus, size |-> 4]
SetSp(n) == [op |-> "setsp", n |-> n, size |-> 3]

modstk(sp, newsp) ==
    IF newsp = sp THEN <<>>
    ELSE IF newsp = framep /\ ~InSwitch THEN <<SetSp(newsp)>> ELSE <<AddSp(newsp - sp, 0, 0)>>
EmitAll(h, is) ==
    LET emitted[n \in 0 .. Len(is)] == IF n = 0 THEN h ELSE Emit(emitted[n - 1], is[n]) IN emitted[Len(is)]

isforever(x) == x = <<>> \/ (x[1] = "const" /\ x[2] # 0)
jumptrue(x, l, falselab) == <<Cond(x, l, falselab, FALSE), LabelOf(falselab)>>
jumpfalse(x, l, truelab) == <<Cond(x, truelab, l, TRUE), LabelOf(truelab)>>

--------------------------------------------------------------------------
(* Blocks: the locals, the frame of the function, and the way out.         *)

Compound ==
    /\ Statement("{")
    /\ frame' = Effective([frame EXCEPT !.softsp = @ - Sym.n])
    /\ Goes((IF prog.tokens[next + 1].t = "}" THEN <<>> ELSE <<[do |-> "reslocals"]>>)
            \o <<[do |-> "block", sp |-> frame.sp, softsp |-> frame.softsp]>>)
    /\ Skip(1) /\ SyntaxOnly

ReservedInSwitch == [frame EXCEPT !.lowsp = IF @ > frame.softsp THEN frame.softsp ELSE @, !.sp = frame.softsp]

Reslocals ==
    /\ Item("reslocals") /\ Goes(<<>>)
    /\ LET start == IF frame.framed THEN <<>> ELSE <<[op |-> "frame", n |-> -func1saveregsize, size |-> 4]>>
           sp == IF frame.framed THEN frame.sp ELSE -func1saveregsize
       IN  IF InSwitch THEN frame' = ReservedInSwitch /\ UNCHANGED g
           ELSE /\ g' = EmitAll(g, start \o modstk(sp, frame.softsp))
                /\ frame' = [frame EXCEPT !.sp = frame.softsp, !.framed = TRUE]
    /\ UNCHANGED <<prog, next, loops, switches, named, equ>>

InBlock == Item("block") /\ Sym.t # "}" /\ todo' = <<State>> \o todo /\ UNCHANGED <<next, frame>> /\ SyntaxOnly

ret ==
    LET newsp == -func1saveregsize
        absolute == InSwitch \/ newsp - frame.sp >= 128
    IN  (IF ~frame.framed THEN <<>>
         ELSE IF absolute THEN IF newsp # frame.sp \/ InSwitch THEN <<SetSp(newsp)>> ELSE <<>>
         ELSE modstk(frame.sp, newsp)) \o <<[op |-> "ret", size |-> 3]>>

Restored == [frame EXCEPT !.sp = Head(todo).sp, !.softsp = Head(todo).softsp, !.framed = @ /\ Len(todo) > 1]

LeaveBlock ==
    /\ Item("block") /\ Sym.t = "}"
    /\ g' = EmitAll(g, IF frame.returnflag THEN <<>>
                       ELSE IF Len(todo) = 1 THEN ret
                       ELSE IF InSwitch \/ ~frame.framed THEN <<>> ELSE modstk(frame.sp, Head(todo).softsp))
    /\ frame' = Restored
    /\ Goes(<<>>) /\ Skip(1) /\ UNCHANGED <<prog, loops, switches, named, equ>>

--------------------------------------------------------------------------
(* Statements without statements in them.                                  *)

ExprStatement ==
    /\ Statement("expr") /\ Goes(<<Code(Eval(next, "do", Sym.n))>>)
    /\ frame' = Effective(frame) /\ Skip(1) /\ SyntaxOnly

NullStatement == Statement(";") /\ Goes(<<>>) /\ Skip(1) /\ UNCHANGED frame /\ SyntaxOnly

doreturn ==
    /\ Statement("return")
    /\ g' = EmitAll(g, (IF Sym.n = 1 THEN <<Eval(next, "value", 3)>> ELSE <<>>) \o ret)
    /\ frame' = [frame EXCEPT !.returnflag = TRUE]
    /\ Goes(<<>>) /\ Skip(1) /\ UNCHANGED <<prog, loops, switches, named, equ>>

Codes(is) == [i \in DOMAIN is |-> Code(is[i])]

dobreak ==
    /\ Statement("break") /\ loops # <<>>
    /\ Goes(Codes(IF InSwitch THEN <<>> ELSE modstk(frame.sp, Head(loops).spmark)) \o <<Jump(Head(loops).breaklab)>>)
    /\ frame' = Effective(frame) /\ Skip(1) /\ SyntaxOnly

\* The innermost loop that is no switch: it is inside as many switches as remain.
ContLoop == CHOOSE i \in DOMAIN loops : loops[i].contlab # 0 /\ \A j \in 1 .. i - 1 : loops[j].contlab = 0

LeavingNone(loop) == <<>>
LeavingSwitches(loop) ==
    IF ContLoop > Len(switches) THEN <<AddSp(loop.spmark, 0, frame.swstacklab)>> ELSE <<>>

docont ==
    /\ Statement("continue") /\ \E i \in DOMAIN loops : loops[i].contlab # 0
    /\ LET loop == loops[ContLoop]
       IN  Goes(Codes(IF ~InSwitch THEN modstk(frame.sp, loop.spmark)
                      ELSE LeavingSwitches(loop)) \o <<Jump(loop.contlab)>>)
    /\ frame' = Effective(frame) /\ Skip(1) /\ SyntaxOnly

\* Label numbers of names count down from the top.
Highlab == -1 - Cardinality({n \in Names : named[n].indcount # 0}) - frame.switched
namedlabel(n) == IF named[n].indcount = 0 THEN [offlabel |-> Highlab, indcount |-> 2] ELSE named[n]

dogoto ==
    /\ Statement("goto")
    /\ named' = [named EXCEPT ![Sym.n] = namedlabel(Sym.n)]
    /\ LET l == named'[Sym.n].offlabel
       IN  Goes(<<Code(IF InSwitch THEN AddSp(0, l, frame.swstacklab) ELSE AddSp(-frame.sp, l, 0)), Jump(l)>>)
    /\ frame' = Effective(frame) /\ Skip(1) /\ UNCHANGED <<prog, g, loops, switches, equ>>

Labelled ==
    /\ Statement("label") /\ namedlabel(Sym.n).indcount = 2
    /\ LET l == namedlabel(Sym.n).offlabel
       IN  /\ named' = [named EXCEPT ![Sym.n] = [offlabel |-> l, indcount |-> IF InSwitch THEN 3 ELSE 4]]
           /\ equ' = IF InSwitch THEN equ ELSE (l :> frame.sp) @@ equ
           /\ Goes(<<LabelOf(l), State>>)
    /\ Skip(1) /\ UNCHANGED <<prog, g, frame, loops, switches>>

--------------------------------------------------------------------------
(* if and the loops.                                                       *)

doif ==
    /\ Statement("if")
    /\ Goes(jumpfalse(Sym.x, getlabel(1), getlabel(2)) \o <<State, End("else", getlabel(1))>>)
    /\ frame' = [Reserve(2) EXCEPT !.test = next] /\ Skip(1) /\ SyntaxOnly

Else ==
    /\ Item("else")
    /\ IF Sym.t = "else"
       THEN /\ Goes(<<Jump(getlabel(1)), LabelOf(Head(todo).brk), State, End("fi", getlabel(1))>>)
            /\ frame' = Reserve(1) /\ Skip(1)
       ELSE Goes(<<End("fi", Head(todo).brk)>>) /\ UNCHANGED <<frame, next>>
    /\ SyntaxOnly

EndIf == Item("fi") /\ Goes(<<LabelOf(Head(todo).brk)>>) /\ frame' = Effective(frame) /\ UNCHANGED next /\ SyntaxOnly

addloop == loops' = <<[breaklab |-> getlabel(1), contlab |-> getlabel(2), spmark |-> frame.sp]>> \o loops
Looping == frame' = [Reserve(5) EXCEPT !.test = next] /\ Skip(1) /\ UNCHANGED <<prog, g, switches, named, equ>>
At(p) == [do |-> "at", at |-> p]           \* conditions compiled now are those of token p

dowhile ==
    /\ Statement("while") /\ addloop
    /\ Goes((IF isforever(Sym.x) THEN <<>> ELSE <<Jump(getlabel(2))>>)
            \o <<LabelOf(getlabel(3)), State, LabelOf(getlabel(2)), At(next)>>
            \o jumptrue(Sym.x, getlabel(3), getlabel(4)) \o <<End("loop", getlabel(1))>>)
    /\ Looping

dofor ==
    /\ Statement("for") /\ addloop
    /\ LET init == IF Sym.n = 1 THEN <<Code(Eval(next, "init", 3))>> ELSE <<>>
           step == IF Sym.n = 1 THEN <<Code(Eval(next, "step", 3))>> ELSE <<>>
           forever == isforever(Sym.x)
       IN  Goes(init \o (IF forever THEN <<>> ELSE <<Jump(getlabel(4))>>)
                \o <<LabelOf(getlabel(3)), State, LabelOf(getlabel(2)), At(next)>> \o step
                \o (IF forever THEN <<Jump(getlabel(3))>>
                    ELSE <<LabelOf(getlabel(4))>> \o jumptrue(Sym.x, getlabel(3), getlabel(5)))
                \o <<End("loop", getlabel(1))>>)
    /\ Looping

dodowhile ==
    /\ Statement("do") /\ addloop
    /\ Goes(<<LabelOf(getlabel(3)), State, LabelOf(getlabel(2)), [do |-> "do while", again |-> getlabel(3), brk |-> getlabel(1)]>>)
    /\ Looping

DoTest ==
    /\ Item("do while") /\ Sym.t = "do while"
    /\ Goes(jumptrue(Sym.x, Head(todo).again, getlabel(1)) \o <<End("loop", Head(todo).brk)>>)
    /\ frame' = [Reserve(1) EXCEPT !.test = next] /\ Skip(1) /\ SyntaxOnly

deleteloop ==
    /\ Item("loop") /\ Goes(<<LabelOf(Head(todo).brk)>>) /\ loops' = Tail(loops)
    /\ frame' = Effective(frame) /\ UNCHANGED <<prog, next, g, switches, named, equ>>

--------------------------------------------------------------------------
(* Conditions.                                                             *)

Swap(c) == Cond(c.x[2], c.false, c.true, ~c.nojump)
logandcondTrue(c) == <<Cond(c.x[2], getlabel(1), c.false, FALSE), LabelOf(getlabel(1)), Cond(c.x[3], c.true, c.false, c.nojump)>>
logandcond(c) == <<Cond(c.x[2], getlabel(1), c.false, TRUE), LabelOf(getlabel(1)), Cond(c.x[3], c.true, c.false, c.nojump)>>
logorcond(c) == <<Cond(c.x[2], c.true, getlabel(1), FALSE), LabelOf(getlabel(1)), Cond(c.x[3], c.true, c.false, c.nojump)>>
testcond(c) ==
    CASE c.x[1] = "test" -> <<Code(Eval(frame.test, c.x[2], 3)),
                              IF c.nojump THEN LBranch("EQ", c.false) ELSE LBranch("NE", c.true)>>
      [] OTHER -> IF c.nojump /\ c.x[2] = 0 THEN <<Jump(c.false)>>
                             ELSE IF ~c.nojump /\ c.x[2] # 0 THEN <<Jump(c.true)>> ELSE <<>>

jumpcond ==
    /\ Item("cond")
    /\ LET c == Head(todo)
       IN  Goes(CASE c.x[1] = "!" -> <<Swap(c)>>
                  [] c.x[1] = "&&" -> logandcond(c)
                  [] c.x[1] = "||" -> logorcond(c)
                  [] OTHER -> testcond(c))
    /\ frame' = Reserve(1) /\ UNCHANGED next /\ SyntaxOnly

TestAt == Item("at") /\ Goes(<<>>) /\ frame' = [frame EXCEPT !.test = Head(todo).at] /\ UNCHANGED next /\ SyntaxOnly

--------------------------------------------------------------------------
(* switch: the cases first, then the decision.  The stack in it is as low  *)
(* as its deepest block needs, known only at the end: swstacklab.          *)

doswitch ==
    /\ Statement("switch")
    /\ loops' = <<[breaklab |-> getlabel(1), contlab |-> 0, spmark |-> frame.sp]>> \o loops
    /\ switches' = <<[char |-> Sym.n = 1, cases |-> <<>>, dfaultlab |-> 0]>> \o switches
    /\ frame' = [Reserve(3) EXCEPT !.lowsp = IF InSwitch THEN @ ELSE frame.sp,
                                   !.switched = IF InSwitch THEN @ ELSE @ + 1,
                                   !.swstacklab = IF InSwitch THEN @ ELSE Highlab]
    /\ Goes(<<Code(Eval(next, "load", 3)), Jump(getlabel(3)), State,
              [do |-> "decide", brk |-> getlabel(1), decide |-> getlabel(3), spmark |-> frame.sp]>>)
    /\ Skip(1) /\ UNCHANGED <<prog, g, named, equ>>

docase ==
    /\ Statement("case") /\ InSwitch
    /\ IF Head(switches).char /\ Sym.n \notin 0 .. 255          \* a warning
       THEN Goes(<<State>>) /\ UNCHANGED <<switches, frame>>
       ELSE /\ switches' = [switches EXCEPT ![1].cases = Append(@, [value |-> Sym.n, label |-> getlabel(1)])]
            /\ Goes(<<LabelOf(getlabel(1)), State>>) /\ frame' = Reserve(1)
    /\ Skip(1) /\ UNCHANGED <<prog, g, loops, named, equ>>

dodefault ==
    /\ Statement("default") /\ InSwitch /\ Head(switches).dfaultlab = 0
    /\ switches' = [switches EXCEPT ![1].dfaultlab = getlabel(1)]
    /\ Goes(<<LabelOf(getlabel(1)), State>>) /\ frame' = Reserve(1)
    /\ Skip(1) /\ UNCHANGED <<prog, g, loops, named, equ>>

Outermost == Len(switches) = 1

\* sort: by value.
Into(cs, c) ==
    LET n == Cardinality({i \in DOMAIN cs : cs[i].value <= c.value})
    IN  SubSeq(cs, 1, n) \o <<c>> \o SubSeq(cs, n + 1, Len(cs))
Sorted(cs) ==
    LET sorted[n \in 0 .. Len(cs)] == IF n = 0 THEN <<>> ELSE Into(sorted[n - 1], cs[n]) IN sorted[Len(cs)]

Decide ==
    /\ Item("decide")
    /\ LET sw == Head(todo)
           cases == Sorted(Head(switches).cases)
           dfaultlab == IF Head(switches).dfaultlab # 0 THEN Head(switches).dfaultlab ELSE Head(loops).breaklab
       IN  /\ Goes(<<Jump(sw.brk), LabelOf(sw.decide)>>
                   \o (IF Outermost THEN Codes(modstk(frame.sp, frame.lowsp)) ELSE <<>>)
                   \o <<[do |-> "cases", cases |-> cases, base |-> 0, dfault |-> dfaultlab,
                         low |-> IF Head(switches).char THEN "LO" ELSE "LT"],
                        LabelOf(sw.brk), [do |-> "end switch", spmark |-> sw.spmark]>>)
           /\ frame' = IF Outermost THEN [frame EXCEPT !.sp = frame.lowsp] ELSE frame
    /\ UNCHANGED next /\ SyntaxOnly

(* jumptocases: values that are close together, more than RUN of them,     *)
(* are looked up in a table, the others compared with one after the other. *)
GAP == 10
RUN == 5
Close(cs) == CHOOSE n \in DOMAIN cs :
                 /\ \A i \in 1 .. n - 1 : cs[i].value >= cs[i + 1].value - GAP
                 /\ n = Len(cs) \/ cs[n].value < cs[n + 1].value - GAP
Op(op, n) == Code([op |-> op, n |-> n, char |-> Head(switches).char, size |-> 3])
LabelFor(cs, v, dfaultlab) ==
    IF \E i \in DOMAIN cs : cs[i].value = v THEN cs[CHOOSE i \in DOMAIN cs : cs[i].value = v].label ELSE dfaultlab
Table(cs, dfaultlab) ==
    [i \in 1 .. Last(cs).value - Head(cs).value + 1 |-> LabelFor(cs, Head(cs).value + i - 1, dfaultlab)]
Lookup(cs, dfaultlab, low, l) ==
    LET table == Table(cs, dfaultlab)
    IN  <<LBranch(low, dfaultlab), Op("cmp", Last(cs).value - Head(cs).value), LBranch("HI", l),
          Code([op |-> "table", labels |-> table, size |-> 8 + 2 * Len(table)]), LabelOf(l)>>

jumptocases ==
    /\ Item("cases") /\ Head(todo).cases # <<>>
    /\ LET c == Head(todo)
           cs == c.cases
           n == Close(cs)
           run == n > RUN
           used == IF run THEN n ELSE 1
       IN  Goes(<<Op("sub", Head(cs).value - c.base)>>
                \o (IF run THEN Lookup(SubSeq(cs, 1, n), c.dfault, c.low, getlabel(1))
                    ELSE <<LBranch("EQ", Head(cs).label)>>)
                \o <<[c EXCEPT !.cases = SubSeq(cs, used + 1, Len(cs)), !.base = Head(cs).value, !.low = "LO"]>>)
    /\ frame' = Reserve(1) /\ UNCHANGED next /\ SyntaxOnly

NoMoreCases ==
    /\ Item("cases") /\ Head(todo).cases = <<>>
    /\ Goes(IF Head(switches).dfaultlab # 0 THEN <<Jump(Head(todo).dfault)>> ELSE <<>>)
    /\ UNCHANGED <<next, frame>> /\ SyntaxOnly

\* clearswitchlabels: the labels in the outermost switch have its stack.
InSwitches == {n \in Names : named[n].indcount = 3}
EndSwitch ==
    /\ Item("end switch") /\ loops' = Tail(loops) /\ switches' = Tail(switches)
    /\ frame' = Effective(frame)
    /\ IF ~Outermost THEN Goes(<<>>) /\ UNCHANGED <<named, equ>>
       ELSE /\ equ' = [l \in {frame.swstacklab} \cup {named[n].offlabel : n \in InSwitches} |-> frame.lowsp] @@ equ
            /\ named' = [n \in Names |-> IF n \in InSwitches THEN [named[n] EXCEPT !.indcount = 4] ELSE named[n]]
            /\ Goes(<<[do |-> "modstk", to |-> Head(todo).spmark]>>)
    /\ UNCHANGED <<prog, next, g>>

AfterSwitch ==
    /\ Item("modstk") /\ Goes(<<>>)
    /\ g' = EmitAll(g, modstk(frame.sp, Head(todo).to)) /\ frame' = [frame EXCEPT !.sp = Head(todo).to]
    /\ UNCHANGED <<prog, next, loops, switches, named, equ>>

--------------------------------------------------------------------------
OutCode == Item("code") /\ g' = Emit(g, Head(todo).code)
OutLabel == Item("label") /\ g' = deflabel(g, Head(todo).label)
OutBranch == Item("branch") /\ g' = lbranch(g, Head(todo).cond, Head(todo).label)
Out == (OutCode \/ OutLabel \/ OutBranch) /\ Goes(<<>>) /\ UNCHANGED <<prog, next, frame, loops, switches, named, equ>>

InitCompiler ==
    /\ prog \in Programs
    /\ next = 1 /\ todo = <<State>> /\ g = NoCode /\ loops = <<>> /\ switches = <<>>
    /\ named = [n \in Names |-> [offlabel |-> 0, indcount |-> 0]]
    /\ equ = 0 :> 0
    /\ frame = [sp |-> 0, softsp |-> -func1saveregsize, lowsp |-> 0, framed |-> FALSE, returnflag |-> FALSE,
                lastlab |-> 0, swstacklab |-> 0, switched |-> 0, test |-> 0]

Compile ==
    \/ Compound \/ Reslocals \/ InBlock \/ LeaveBlock
    \/ ExprStatement \/ NullStatement \/ doreturn \/ dobreak \/ docont \/ dogoto \/ Labelled
    \/ doif \/ Else \/ EndIf \/ dowhile \/ dofor \/ dodowhile \/ DoTest \/ deleteloop
    \/ jumpcond \/ TestAt
    \/ doswitch \/ docase \/ dodefault \/ Decide \/ jumptocases \/ NoMoreCases \/ EndSwitch \/ AfterSwitch
    \/ Out
CompilerSpec == InitCompiler /\ [][Compile]_compiler

--------------------------------------------------------------------------
(* The branches made short reach their labels, and the location counter    *)
(* is the size of the code, at whatever point the compiler is.             *)
BranchesReach == g.lc = Ends(g.code)[Len(g.code)] /\ ShortReach(g.code)
=============================================================================
