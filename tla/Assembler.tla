------------------------------ MODULE Assembler ------------------------------
(***************************************************************************)
(* as86: the passes over a program of lines, with included files, macros   *)
(* and conditionals (as/readsrc.c, macro.c, assemble.c and pops.c).        *)
(*                                                                         *)
(* A line is a record with its operation and operands.  Nothing is written *)
(* until the last pass, which takes values and lengths from the passes     *)
(* before: the second one, or with -O the one after a pass that moved no   *)
(* label.  Errors of the other passes are forgotten.                       *)
(***************************************************************************)
EXTENDS AsmCode, FiniteSets

CONSTANTS Programs,   \* sets of [files, last, undef]: names to lines, passes, -u
          MacroName,  \* names of macros
          Main,       \* the name of the file to assemble
          MAXIF,      \* nesting of conditionals
          MAXGET,     \* nesting of included files
          MAXMAC,     \* nesting of macros
          MAXPASS     \* passes, 30

(* Lines that as86 takes without a word about their form.                  *)
LinesOf(p) == UNION {Range(p.files[f]) : f \in DOMAIN p.files}
Operand == {"if", "elseif", "equ", "word", "imm", "jump"}
WellFormed(line, p) ==
    /\ line.op \in {"if", "elseif", "else", "endif", "get", "macro", "mend", "call", "end", "label", "equ",
                    "import", "data", "word", "skip", "align", "seg", "imm", "jump"}
    /\ line.op \in Operand => line.x \in [name : Name \cup {""}, value : Int]
    /\ line.op \in {"label", "equ", "import"} => line.name \in Name
    /\ line.op \in {"data", "skip", "align", "jump"} => line.n \in Nat
    /\ line.op = "align" => line.n # 0
    /\ line.op = "seg" => line.seg \in Seg
    /\ line.op = "get" => line.file \in DOMAIN p.files
    /\ line.op \in {"macro", "call"} => line.name \in MacroName

ASSUME AssemblerAssumption ==
    /\ MAXIF \in Nat /\ MAXGET \in Nat /\ MAXMAC \in Nat /\ MAXPASS \in Nat \ {0, 1}
    /\ \A i \in DOMAIN Programs : \A p \in Programs[i] :
          /\ Main \in DOMAIN p.files /\ p.last \in {1, 2} /\ p.undef \in BOOLEAN
          /\ \A f \in DOMAIN p.files : p.files[f] \in Seq(LinesOf(p))
          /\ \A line \in LinesOf(p) : WellFormed(line, p)

VARIABLES prog,      \* the program and the options
          pc,        \* "asm" or "done"
          in,        \* where the next line is: file, line, included from, macros
          mac,       \* macros: type and lines
          load,      \* the macro that lines are loaded into
          iff,       \* ifflag, elseflag and ifstak
          c,         \* symbols, counters and code, see AsmCode
          header,    \* sizes of segments in the object file's header
          met,       \* ghost: conditionals that are open, by the rules of the language
          ran,       \* ghost: lines assembled in this pass
          first,     \* ghost: lines assembled in the first pass
          guessed    \* ghost: an IF went by a value not known yet

vars == <<prog, pc, in, mac, load, iff, c, header, met, ran, first, guessed>>
ghosts == <<met, ran, first, guessed>>

-----------------------------------------------------------------------------
(* Where the next line is.  A macro that has no lines left is on the stack *)
(* until a line is read.                                                   *)
Top == [file |-> Main, line |-> 1, gets |-> <<>>, macs |-> <<>>]

Live(macs) == SubSeq(macs, 1, Max({0} \cup {k \in DOMAIN macs : macs[k] # <<>>}))
FromMacro == Live(in.macs) # <<>>
AtEnd == ~FromMacro /\ in.line > Len(prog.files[in.file])
Line == IF FromMacro THEN Last(Live(in.macs))[1] ELSE prog.files[in.file][in.line]
Following ==
    IF FromMacro THEN [in EXCEPT !.macs = Append(Front(Live(@)), Tail(Last(Live(@))))]
    ELSE [in EXCEPT !.macs = <<>>, !.line = @ + 1]

Reading == pc = "asm" /\ c.todo = <<>> /\ ~AtEnd

NotLoading == [name |-> "", saving |-> FALSE, body |-> <<>>]
Assembling == [ifflag |-> TRUE, elseflag |-> FALSE, stack |-> <<>>]
Conditional == {"if", "elseif", "else", "endif"}

-----------------------------------------------------------------------------
(* asline: a line is taken if the conditionals say so, or is one itself.   *)
Takes(op) ==
    /\ Reading /\ load = NotLoading
    /\ Line.op \in op
    /\ iff.ifflag \/ Line.op \in Conditional
    /\ in' = Following

Ran == ran' = IF iff.ifflag THEN Append(ran, Line) ELSE ran

\* What the language says: of each IF that is open, the first branch whose
\* condition is true is taken.
Frame(value) == [taken |-> value, now |-> value]
Branch(f, value) == [taken |-> f.taken \/ value, now |-> value /\ ~f.taken]
MeetBranch(value) == met' = [met EXCEPT ![Len(met)] = Branch(@, value)]

SkipLine ==
    /\ Reading /\ load = NotLoading
    /\ ~iff.ifflag /\ Line.op \notin Conditional
    /\ in' = Following
    /\ UNCHANGED <<prog, pc, mac, load, iff, c, header, ghosts>>

Condition == AbsValue(c, Line.x)
Unknown == "UND" \in Condition.data

\* doif: what cannot be evaluated counts as true.
If ==
    /\ Takes({"if"})
    /\ IF Len(iff.stack) >= MAXIF
       THEN c' = Error(c) /\ UNCHANGED <<iff, met, guessed>>
       ELSE LET false == ~Unknown /\ Condition.value = 0
            IN  /\ iff' = [ifflag   |-> iff.ifflag /\ ~false,
                           elseflag |-> iff.ifflag /\ false,
                           stack    |-> Append(iff.stack, [ifflag |-> iff.ifflag, elseflag |-> iff.elseflag])]
                /\ c' = IF iff.ifflag THEN AbsEvaluated(c, Line.x) ELSE c
                /\ met' = Append(met, Frame(~false))
                /\ guessed' = (guessed \/ (iff.ifflag /\ Unknown))
    /\ UNCHANGED <<prog, pc, mac, load, header, ran, first>>

(* doelseif: what cannot be evaluated counts as false.                     *)
ElseIf ==
    /\ Takes({"elseif"})
    /\ IF iff.stack = <<>>
       THEN c' = Error(c) /\ UNCHANGED <<iff, met, guessed>>
       ELSE LET true == ~Unknown /\ Condition.value # 0
            IN  /\ iff' = [iff EXCEPT !.ifflag = iff.elseflag /\ true, !.elseflag = @ /\ ~true]
                /\ c' = IF iff.elseflag THEN AbsEvaluated(c, Line.x) ELSE c
                /\ MeetBranch(true)
                /\ guessed' = (guessed \/ (iff.elseflag /\ Unknown))
    /\ UNCHANGED <<prog, pc, mac, load, header, ran, first>>

ElseTwice(i) == [i EXCEPT !.ifflag = ~@, !.elseflag = FALSE]
ElseOf(i) == [i EXCEPT !.ifflag = i.elseflag, !.elseflag = FALSE]
Else ==
    /\ Takes({"else"})
    /\ IF iff.stack = <<>> THEN c' = Error(c) /\ UNCHANGED <<iff, met>>
       ELSE iff' = ElseOf(iff) /\ MeetBranch(TRUE) /\ UNCHANGED c
    /\ UNCHANGED <<prog, pc, mac, load, header, ran, first, guessed>>

EndIf ==
    /\ Takes({"endif"})
    /\ IF iff.stack = <<>> THEN c' = Error(c) /\ UNCHANGED <<iff, met>>
       ELSE /\ iff' = [ifflag   |-> Last(iff.stack).ifflag,
                       elseflag |-> Last(iff.stack).elseflag,
                       stack    |-> Front(iff.stack)]
            /\ met' = Front(met) /\ UNCHANGED c
    /\ UNCHANGED <<prog, pc, mac, load, header, ran, first, guessed>>

-----------------------------------------------------------------------------
(* Files and macros.  What is left of a macro comes before the file that   *)
(* it includes.                                                            *)
GetOver == Len(in.gets) >= MAXGET
Get ==
    /\ Reading /\ load = NotLoading /\ Line.op = "get" /\ iff.ifflag
    /\ IF GetOver
       THEN c' = Error(c) /\ in' = Following
       ELSE /\ in' = [Following EXCEPT !.gets = Append(@, [file |-> in.file, line |-> Following.line]),
                                       !.file = Line.file, !.line = 1]
            /\ UNCHANGED c
    /\ Ran
    /\ UNCHANGED <<prog, pc, mac, load, iff, header, met, first, guessed>>

(* pmacro: lines are kept in the passes before the last, and in that one   *)
(* too if the macro is defined more than once.  A name called before its   *)
(* definition has become a label.                                          *)
SavesOnce(m) == "LAB" \notin m.type /\ ~Bit(c)
Saves(m) == "LAB" \notin m.type /\ (~Bit(c) \/ "RED" \in m.type)
Macro ==
    /\ Takes({"macro"})
    /\ LET m == mac[Line.name]
           saving == Saves(m)
       IN  /\ load' = [name |-> Line.name, saving |-> saving, body |-> <<>>]
           /\ mac' = IF saving
                     THEN [mac EXCEPT ![Line.name] =
                             [type |-> @.type \cup {IF "MAC" \in @.type THEN "RED" ELSE "MAC"}, body |-> <<>>]]
                     ELSE mac
           /\ c' = ErrorIf(c, "LAB" \in m.type)
    /\ Ran
    /\ UNCHANGED <<prog, pc, iff, header, met, first, guessed>>

\* A line of a macro's definition, whatever the conditionals say.
LoadLine ==
    /\ Reading /\ load # NotLoading
    /\ in' = Following
    /\ IF Line.op = "mend"
       THEN /\ load' = NotLoading
            /\ mac' = IF load.saving THEN [mac EXCEPT ![load.name].body = load.body] ELSE mac
       ELSE load' = [load EXCEPT !.body = IF load.saving THEN Append(@, Line) ELSE @] /\ UNCHANGED mac
    /\ UNCHANGED <<prog, pc, iff, c, header, ghosts>>

(* entermac.  A name that is no macro yet is a label without a colon: an   *)
(* error in every pass, so what else such a label does is left out.        *)
Call ==
    /\ Reading /\ load = NotLoading /\ Line.op = "call" /\ iff.ifflag
    /\ IF "MAC" \notin mac[Line.name].type
       THEN /\ mac' = [mac EXCEPT ![Line.name].type = @ \cup {"LAB"}]
            /\ c' = Error(c) /\ in' = Following
       ELSE /\ IF Len(Following.macs) >= MAXMAC
               THEN c' = Error(c) /\ in' = Following
               ELSE in' = [Following EXCEPT !.macs = Append(@, mac[Line.name].body)] /\ UNCHANGED c
            /\ UNCHANGED mac
    /\ Ran
    /\ UNCHANGED <<prog, pc, load, iff, header, met, first, guessed>>

-----------------------------------------------------------------------------
(* What a line of code does, see AsmCode.                                  *)
Coding(line, v) ==
    CASE line.op = "label"  -> Label(c, line.name)
      [] line.op = "equ"    -> Equ(c, line.name, line.x)
      [] line.op = "import" -> Import(c, line.name)
      [] line.op = "data"   -> Data(c, line.op, line.n)
      [] line.op = "word"   -> Word(c, line.x, v)
      [] line.op = "skip"   -> Skip(c, line.n)
      [] line.op = "align"  -> Align(c, line.n)
      [] line.op = "seg"    -> setloc(c, line.seg)
      [] line.op = "imm"    -> Immediate(c, line.op, line.x, v)
      [] line.op = "jump"   -> Jump(c, line.op, line.x, v, line.n)
      [] line.op = "mend"   -> Error(c)

Code ==
    /\ Takes({"label", "equ", "import", "data", "word", "skip", "align", "seg", "imm", "jump", "mend"})
    /\ \E line \in {Line} :
         \E v \in {IF line.op \in {"word", "imm", "jump"} THEN Value(c, line.x) ELSE Constant(0)} :
             c' = Coding(line, v)
    /\ Ran
    /\ UNCHANGED <<prog, pc, mac, load, iff, header, met, first, guessed>>

Write ==
    /\ c.todo # <<>>
    /\ c' = genobj(c)
    /\ UNCHANGED <<prog, pc, in, mac, load, iff, header, ghosts>>

-----------------------------------------------------------------------------
(* pproceof: back to the file that included this one, on to the next pass, *)
(* or to the end.                                                          *)
Sizes == c.lc

DirtyAgain == IF c.dirty THEN c.pass ELSE c.pass + 1
PassAfter == c.pass + 1
NextPass ==
    LET pass == PassAfter
        last == IF c.last > 1 /\ c.last < MAXPASS /\ c.dirty /\ pass = c.last THEN c.last + 1 ELSE c.last
    IN  /\ c' = [c EXCEPT !.pass = pass, !.last = last, !.lc = [s \in Seg |-> 0], !.seg = 0,
                          !.dirty = FALSE, !.err = FALSE, !.stand = {}]
        /\ header' = IF pass = last THEN Sizes ELSE header
        /\ in' = Top
        /\ iff' = [iff EXCEPT !.ifflag = TRUE, !.stack = <<>>]
        /\ met' = <<>> /\ ran' = <<>>
        /\ first' = IF c.pass = 0 THEN ran ELSE first
        /\ UNCHANGED <<pc, guessed>>

Finish ==
    /\ pc' = "done"
    /\ c' = [c EXCEPT !.err = @ \/ load # NotLoading \/ iff.stack # <<>>, !.o = objtrailer(@)]
    /\ UNCHANGED <<in, iff, header, ghosts>>

Proceof(left) ==
    /\ IF in.gets # <<>>
       THEN /\ in' = [in EXCEPT !.file = Last(in.gets).file, !.line = Last(in.gets).line,
                                !.gets = Front(@), !.macs = left]
            /\ c' = ErrorIf(c, load # NotLoading)
            /\ UNCHANGED <<pc, iff, header, ghosts>>
       ELSE IF Bit(c) THEN Finish ELSE NextPass
    /\ UNCHANGED <<prog, mac, load>>

\* The end of a file, and a line END; what is left of macros is not dropped.
ReachEnd == pc = "asm" /\ c.todo = <<>> /\ AtEnd /\ Proceof(<<>>)
End == Reading /\ load = NotLoading /\ Line.op = "end" /\ iff.ifflag /\ Proceof(Following.macs)

-----------------------------------------------------------------------------
Init ==
    /\ \E i \in DOMAIN Programs : prog \in Programs[i]
    /\ pc = "asm" /\ in = Top
    /\ mac = [n \in MacroName |-> [type |-> {}, body |-> <<>>]]
    /\ load = NotLoading /\ iff = Assembling
    /\ c = [pass |-> 0, last |-> prog.last, lc |-> [s \in Seg |-> 0], seg |-> 0,
            sym |-> [n \in Name |-> NewSymbol(prog.undef)], dirty |-> FALSE, err |-> FALSE,
            todo |-> <<>>, o |-> initobj, cells |-> {}, refs |-> {}, stand |-> {}]
    /\ header = [s \in Seg |-> 0]
    /\ met = <<>> /\ ran = <<>> /\ first = <<>> /\ guessed = FALSE

Next ==
    \/ SkipLine \/ If \/ ElseIf \/ Else \/ EndIf
    \/ Get \/ Macro \/ LoadLine \/ Call \/ Code \/ Write
    \/ ReachEnd \/ End

(* The assembler runs alone and reads on: it takes any step that it can.   *)
Spec == Init /\ [][Next]_vars /\ WF_vars(Next)

-----------------------------------------------------------------------------
(* Types: passes, conditionals, included files and macros stay within      *)
(* their limits, which pget, entermac, doif and pproceof each keep in a    *)
(* place of its own, and so do the flags of the symbol table.              *)
TypeOK ==
    /\ pc \in {"asm", "done"} /\ c.pass \in 0 .. c.last /\ c.last <= MAXPASS
    /\ Len(iff.stack) <= MAXIF /\ Len(in.gets) <= MAXGET /\ Len(in.macs) <= MAXMAC
    /\ c.seg \in Seg /\ \A s \in Seg : c.lc[s] \in Nat
    /\ \A n \in Name : c.sym[n].type \subseteq {"LAB", "RED"} /\ c.sym[n].data \subseteq {"FOR", "IMP", "REL", "UND"}

(* A line is assembled if and only if each IF that is open around it is in *)
(* its first true branch: what the flags that doif, doelseif, pelse and    *)
(* pendif save and restore come to at every depth, after any sequence of   *)
(* them, also in the pass after one that left some open.                   *)
IfflagRight == iff.ifflag <=> \A i \in DOMAIN met : met[i].now

Accepted == pc = "done" /\ ~c.err

(* All passes assemble the same lines of the same files and macros, if no  *)
(* error is found in the last one, and unless a conditional of an earlier  *)
(* one had to guess (readsrc.c, "all data valid" of the pass before).      *)
PassesAgree == Accepted /\ ~guessed => ran = first

(* A name that is a label again is only found out by its value: see the    *)
(* hazards.                                                                *)
Definitions(n) == {i \in DOMAIN ran : ran[i].op \in {"label", "equ"} /\ ran[i].name = n}
DefinedOnce == \A n \in Name : Cardinality(Definitions(n)) <= 1
Labels == {p[1] : p \in c.stand}

(* The sizes in the header, from the pass before, are those of the code    *)
(* that follows, so that the linker can place the next module.             *)
HeaderRight == Accepted /\ ~guessed /\ DefinedOnce => header = c.lc

(* Every jump of a program without errors leads to its label, with the     *)
(* length chosen for it and through the linker where it is in another      *)
(* segment.                                                                *)
Leads(r) ==
    IF ~r.adr.rel THEN <<r.target, r.seg, r.end + r.adr.value>> \in c.stand
    ELSE ~r.adr.imp /\ <<r.target, r.adr.seg, r.adr.value>> \in c.stand
JumpsLand == Accepted /\ ~guessed /\ DefinedOnce => \A r \in c.refs : r.target \in Labels => Leads(r)

(* The linker reads back from the object file every byte and address at    *)
(* the offset at which the assembler counted it, however the writer joined *)
(* bytes and gaps (genobj.c) and whatever the segments were.               *)
ReadBack ==
    /\ TypeOK
    /\ pc = "done" => linkmod(c.o.out).cells = c.cells

(* The passes end: labels may move in each, but their number is limited,   *)
(* and files and macros that include themselves run into the limits.       *)
Terminates == <>(pc = "done")
=============================================================================
