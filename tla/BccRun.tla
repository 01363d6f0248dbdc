------------------------------- MODULE BccRun -------------------------------
(***************************************************************************)
(* The code BccState makes, run by a machine beside its source, run by the *)
(* rules of C.  Both stop where an expression is evaluated: they must stop *)
(* at the same one, and go on with the same value.                         *)
(***************************************************************************)
EXTENDS BccState

CONSTANT Values          \* of the expressions switched on

VARIABLES m,             \* the machine: ip, sp, acc, and the operands compared last
          source         \* the source: at a token, doing a part of its statement
vars == <<compiler, m, source>>

Compiled == todo = <<>>
InitMachine == [ip |-> 1, sp |-> 0, acc |-> 0, left |-> 0, right |-> 0, char |-> FALSE]
Place(p, part) == [at |-> p, part |-> part, outs |-> <<>>]

\* What both stop at: [at, id]; the function's end is at token 0.
NoEvent == [at |-> -1, id |-> "none"]
Event(at, id) == [at |-> at, id |-> id]
TheEnd == Event(0, "end")

--------------------------------------------------------------------------
(* The machine.                                                            *)

FellOff == m.ip > Len(g.code)
Instr == g.code[m.ip]
MachineEvent == IF FellOff THEN Event(-2, "fell off")
                ELSE IF Instr.op = "event" THEN Event(Instr.at, Instr.id)
                ELSE IF Instr.op = "ret" THEN TheEnd ELSE NoEvent

Width == IF m.char THEN 256 ELSE 65536
Unsigned(n) == n % Width
Signed(n) == IF Unsigned(n) >= Width \div 2 THEN Unsigned(n) - Width ELSE Unsigned(n)
Holds(cond) ==
    CASE cond = "RA" -> TRUE
      [] cond = "EQ" -> Unsigned(m.left) = Unsigned(m.right)
      [] cond = "NE" -> Unsigned(m.left) # Unsigned(m.right)
      [] cond = "LT" -> Signed(m.left) < Signed(m.right)
      [] cond = "LO" -> Unsigned(m.left) < Unsigned(m.right)
      [] cond = "HI" -> Unsigned(m.left) > Unsigned(m.right)

Compared(i) == [m EXCEPT !.left = m.acc, !.right = i.n, !.char = i.char, !.ip = @ + 1]
Executed(i) ==
    CASE i.op = "label" -> [m EXCEPT !.ip = @ + 1]
      [] i.op = "branch" -> [m EXCEPT !.ip = IF Holds(i.cond) THEN Where(g.code, i.label) ELSE @ + 1]
      [] i.op = "addsp" -> [m EXCEPT !.ip = @ + 1, !.sp = @ + i.n + equ[i.plus] - equ[i.minus]]
      [] i.op \in {"setsp", "frame"} -> [m EXCEPT !.ip = @ + 1, !.sp = i.n]
      [] i.op = "cmp" -> Compared(i)
      [] i.op = "sub" -> [Compared(i) EXCEPT !.acc = (m.acc - i.n) % (IF i.char THEN 256 ELSE 65536)]
      [] i.op = "table" -> [m EXCEPT !.ip = Where(g.code, i.labels[m.acc + 1])]

--------------------------------------------------------------------------
(* The source.                                                             *)

Tokens == prog.tokens
Around(p, kinds) == {q \in 1 .. p - 1 : Tokens[q].t \in kinds /\ Tokens[q].len + q > p}
Innermost(ps) == CHOOSE q \in ps : \A r \in ps : r <= q
Loops == {"while", "for", "do"}
Containers == Loops \cup {"{", "if", "switch", "case", "default", "label"}
After(p) == p + Tokens[p].len

\* The condition of the loop or if at p; the body of it.
ConditionOf(p) == IF Tokens[p].t = "do" THEN Tokens[After(p) - 1].x ELSE Tokens[p].x
TestToken(p) == IF Tokens[p].t = "do" THEN After(p) - 1 ELSE p

RECURSIVE Answer(_, _)
Answer(x, outs) ==
    CASE x = <<>> -> [known |-> TRUE, value |-> TRUE, rest |-> outs, ask |-> 0]
      [] x[1] = "const" -> [known |-> TRUE, value |-> x[2] # 0, rest |-> outs, ask |-> 0]
      [] x[1] = "test" -> IF outs = <<>> THEN [known |-> FALSE, value |-> FALSE, rest |-> <<>>, ask |-> x[2]]
                          ELSE [known |-> TRUE, value |-> Head(outs), rest |-> Tail(outs), ask |-> 0]
      [] x[1] = "!" -> LET a == Answer(x[2], outs) IN [a EXCEPT !.value = ~@]
      [] OTHER -> LET a == Answer(x[2], outs)
                  IN  IF a.known /\ a.value = (x[1] = "&&") THEN Answer(x[3], a.rest) ELSE a

TestAnswer == Answer(ConditionOf(source.at), source.outs)

SourceEvent ==
    LET p == source.at
        t == IF p = 0 THEN "end" ELSE Tokens[p].t
    IN  CASE t = "end" -> TheEnd
          [] source.part = "start" /\ t = "expr" -> Event(p, "do")
          [] source.part = "start" /\ t = "return" /\ Tokens[p].n = 1 -> Event(p, "value")
          [] source.part = "start" /\ t = "for" /\ Tokens[p].n = 1 -> Event(p, "init")
          [] source.part = "start" /\ t = "switch" -> Event(p, "load")
          [] source.part = "again" /\ t = "for" /\ Tokens[p].n = 1 -> Event(p, "step")
          [] source.part = "test" /\ ~TestAnswer.known -> Event(TestToken(p), TestAnswer.ask)
          [] OTHER -> NoEvent

Cases(p) == {q \in p .. After(p) - 1 : Tokens[q].t \in {"case", "default"} /\ Innermost(Around(q, {"switch"})) = p}
Chosen(p, v) ==
    LET cases == {q \in Cases(p) : Tokens[q].t = "case" /\ Tokens[q].n = v}
        defaults == {q \in Cases(p) : Tokens[q].t = "default"}
    IN  IF cases # {} THEN Place(Innermost(cases), "start")
        ELSE IF defaults # {} THEN Place(Innermost(defaults), "start") ELSE Place(p, "done")

\* Where control goes from the part of the statement that is done, v the value of its expression.
Start(p, v) ==
    CASE Tokens[p].t = "{" -> IF Tokens[p + 1].t = "}" THEN Place(p, "done") ELSE Place(p + 1, "start")
      [] Tokens[p].t \in {"expr", ";"} -> Place(p, "done")
      [] Tokens[p].t \in {"if", "while", "for"} -> Place(p, "test")
      [] Tokens[p].t \in {"do", "case", "default", "label"} -> Place(p + 1, "start")
      [] Tokens[p].t = "switch" -> Chosen(p, v)
      [] Tokens[p].t = "break" -> Place(Innermost(Around(p, Loops \cup {"switch"})), "done")
      [] Tokens[p].t = "continue" -> Place(Innermost(Around(p, Loops)), "again")
      [] Tokens[p].t = "goto" -> Place(CHOOSE q \in DOMAIN Tokens : Tokens[q].t = "label" /\ Tokens[q].n = Tokens[p].n, "start")
      [] Tokens[p].t = "return" -> Place(0, "start")

Tested(p) ==
    IF TestAnswer.value THEN Place(p + 1, "start")
    ELSE IF Tokens[p].t = "if" /\ After(p) > After(p + 1)
         THEN Place(After(p + 1) + 1, "start") ELSE Place(p, "done")

Done(p) ==
    IF p = 1 THEN Place(0, "start")
    ELSE LET q == Innermost(Around(p, Containers))
         IN  IF Tokens[q].t = "{" THEN IF Tokens[After(p)].t = "}" THEN Place(q, "done") ELSE Place(After(p), "start")
             ELSE IF Tokens[q].t \in Loops THEN Place(q, "again") ELSE Place(q, "done")

Onward(v) ==
    CASE source.part = "start" -> Start(source.at, v)
      [] source.part = "again" -> Place(source.at, "test")
      [] source.part = "test" -> Tested(source.at)
      [] source.part = "done" -> Done(source.at)

--------------------------------------------------------------------------
Init == InitCompiler /\ m = InitMachine /\ source = Place(1, "start")

CompileStep == Compile /\ UNCHANGED <<m, source>>
MachineStep == Compiled /\ MachineEvent = NoEvent /\ m' = Executed(Instr) /\ UNCHANGED <<compiler, source>>
SourceStep ==
    /\ Compiled /\ MachineEvent # NoEvent /\ SourceEvent = NoEvent
    /\ source' = Onward(0) /\ UNCHANGED <<compiler, m>>

Meet == Compiled /\ MachineEvent = SourceEvent /\ MachineEvent \notin {NoEvent, TheEnd}
Evaluate ==
    /\ Meet /\ source.part \in {"start", "again"} /\ Tokens[source.at].t # "switch"
    /\ m' = [m EXCEPT !.ip = @ + 1] /\ source' = Onward(0) /\ UNCHANGED compiler
Test ==
    /\ Meet /\ source.part = "test"
    /\ \E b \in BOOLEAN : /\ m' = [m EXCEPT !.ip = @ + 1, !.left = IF b THEN 1 ELSE 0, !.right = 0, !.char = FALSE]
                          /\ source' = [source EXCEPT !.outs = Append(@, b)]
    /\ UNCHANGED compiler
Load ==
    /\ Meet /\ source.part = "start" /\ Tokens[source.at].t = "switch"
    /\ \E v \in Values : /\ Tokens[source.at].n = 1 => v \in 0 .. 255
                         /\ m' = [m EXCEPT !.ip = @ + 1, !.acc = v % 65536]
                         /\ source' = Onward(v)
    /\ UNCHANGED compiler

Next == CompileStep \/ MachineStep \/ SourceStep \/ Evaluate \/ Test \/ Load
Spec == Init /\ [][Next]_vars

--------------------------------------------------------------------------
(* The code evaluates the expressions of the source, in its order and for  *)
(* its reasons: branches, loops, jumps and the cases of switches go where  *)
(* the statements say.                                                     *)
SameAsSource == Compiled /\ MachineEvent # NoEvent /\ SourceEvent # NoEvent => MachineEvent = SourceEvent

(* Wherever control comes from, the stack is what the code was compiled    *)
(* for when an expression is evaluated, below all the locals in scope, and *)
(* has nothing but the saved registers on it at the return.                *)
StackRight ==
    Compiled /\ ~FellOff =>
        /\ Instr.op = "event" => /\ m.sp = (IF Instr.sw = 0 THEN Instr.sp ELSE equ[Instr.sw])
                                 /\ m.sp <= Instr.low
        /\ Instr.op = "ret" => m.sp \in {0, -func1saveregsize}

=============================================================================
