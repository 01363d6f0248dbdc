--------------------------------- MODULE Cpp ---------------------------------
(***************************************************************************)
(* The preprocessor cpp/cpp.c: conditionals, included files and macros.    *)
(*                                                                         *)
(* Text is a sequence of tokens t, with t.k its kind: "word" (name t.v),   *)
(* "sp", "nl", "(", ")", ",", a comment "//" or " //" (with white space    *)
(* before it) up to and with the end of its line, and "#", a directive     *)
(* with its whole line.  A directive is only that at the start of a line.  *)
(*                                                                         *)
(* Strings, character constants, escapes, # and ## in macros are left out. *)
(***************************************************************************)
EXTENDS Integers, Sequences, FiniteSets, SequencesExt

CONSTANTS Token,         \* pieces of text
          File,          \* names of files
          Programs,      \* sets of [File -> Seq(Token)], the programs
          Main,          \* the file to preprocess
          Name,          \* names of macros
          MAX_DEFINE,    \* levels of macros, 64
          MAX_INCLUDE,   \* room for files that wait, 64
          IFBITS         \* bits of if_stack

ASSUME CppAssumption ==
    /\ MAX_DEFINE \in Nat /\ MAX_INCLUDE \in Nat /\ IFBITS \in Nat
    /\ Main \in File /\ "" \notin Name
    /\ \A i \in DOMAIN Programs : Programs[i] \subseteq [File -> Seq(Token)]

\* The value of a macro is one line: there is no directive in it.
ASSUME TokenAssumption ==
    /\ [k |-> "nl"] \in Token /\ [k |-> "sp"] \in Token
    /\ \A t \in Token :
        /\ t.k = "#" /\ t.op \in {"define", "undef"} => t.name \in Name
        /\ t.k = "#" /\ t.op = "include" => t.name \in File
        /\ t.k = "#" /\ t.op \in {"if", "elif"} => t.value \in BOOLEAN
        /\ t.k = "#" /\ t.op = "define" =>
             /\ t.count \in Int /\ t.params \in Seq(STRING) /\ DOMAIN t.params = 1 .. t.count
             /\ t.body \in Seq(Token) /\ \A i \in DOMAIN t.body : t.body[i].k # "#"

VARIABLES prog,     \* the files
          pc,       \* "text", "paren" after a macro's name, "args", "insert", "done"
          files,    \* files that are open, with what is left of each
          levels,   \* macros being read: what is left, and whose value it is
          last_nl,  \* last_char = '\n': at the start of a line
          def,      \* the macros
          iff,      \* if_count, if_false, if_has_else, if_hidden, if_stack
          call,     \* gen_substrings: the macro and its arguments so far;
                    \* insert_substrings: what is left of the body, and what was made
          out,      \* what is written
          fault,    \* what was complained of
          met,      \* ghost: conditionals that are open, by the rules of the language
          line      \* ghost: at the start of a line, and a directive was missed there

vars == <<prog, pc, files, levels, last_nl, def, iff, call, out, fault, met, line>>

Space == [k |-> "sp"]
NewLine == [k |-> "nl"]
NoMacro == [count |-> -2, params |-> <<>>, body |-> <<>>, in_use |-> FALSE]
NoCall == [name |-> "", paren |-> 0, commas |-> 0, found |-> FALSE, args |-> <<>>, left |-> <<>>, text |-> <<>>]
Defined(n) == n \in Name /\ def[n] # NoMacro

-----------------------------------------------------------------------------
(* chget: from the macro that is being read, else from the file.           *)
Exhausted == levels # <<>> /\ Last(levels).text = <<>>
AtEnd == levels = <<>> /\ Last(files) = <<>>
Next1 == IF levels # <<>> THEN Head(Last(levels).text) ELSE Head(Last(files))

Rest == IF levels # <<>> THEN <<[levels EXCEPT ![Len(levels)].text = Tail(@)], files>>
        ELSE <<levels, [files EXCEPT ![Len(files)] = Tail(@)]>>
Advance == levels' = Rest[1] /\ files' = Rest[2]

NoEnd == FALSE
EndOfText == AtEnd /\ Len(files) = 1
Reading(mode) == pc = mode /\ ~Exhausted /\ ~AtEnd

\* The end of a macro's value; its name may be replaced again.
ReleaseNot(d, ref) == d
Release(d, ref) == IF ref = "" THEN d ELSE [d EXCEPT ![ref].in_use = FALSE]
PopLevel ==
    /\ pc \in {"text", "paren", "args"} /\ Exhausted
    /\ def' = Release(def, Last(levels).ref)
    /\ levels' = Front(levels)
    /\ UNCHANGED <<prog, pc, files, last_nl, iff, call, out, fault, met, line>>

\* The end of an included file ends its last line.
PopFile ==
    /\ pc \in {"text", "paren", "args"} /\ AtEnd /\ Len(files) > 1
    /\ files' = [Front(files) EXCEPT ![Len(files) - 1] = <<NewLine>> \o @]
    /\ UNCHANGED <<prog, pc, levels, last_nl, def, iff, call, out, fault, met, line>>

\* cerror, and the warnings that something went wrong.
Faulty(what, wrong) == fault' = IF wrong THEN fault \cup {what} ELSE fault

-----------------------------------------------------------------------------
(* pgetc and get_onetok: text that is no directive.                        *)
Emit(t) == out' = IF iff.if_false # 0 THEN out ELSE Append(out, t)

White ==
    /\ Reading("text") /\ Next1.k \in {"sp", "nl", "//", " //"}
    \* The end of a comment's line is put back when there is white space to return.
    /\ last_nl' = \/ Next1.k = "nl"
                  \/ Next1.k = "sp" /\ last_nl
                  \/ Next1.k = " //" /\ iff.if_false = 0
    /\ line' = [line EXCEPT !.start = @ \/ Next1.k # "sp"]
    /\ Advance
    /\ UNCHANGED <<prog, pc, def, iff, call, out, fault, met>>

Replaceable(t) == t.k = "word" /\ iff.if_false = 0 /\ Defined(t.v) /\ ~def[t.v].in_use

Plain ==
    /\ Reading("text") /\ Next1.k \notin {"sp", "nl", "//", " //"}
    /\ ~(Next1.k = "#" /\ last_nl)
    /\ Replaceable(Next1) => Len(levels) >= MAX_DEFINE
    /\ last_nl' = (Next1.k = "#" /\ ~Next1.comment)    \* a line in one token
    /\ line' = [start |-> Next1.k = "#", missed |-> line.missed \/ (Next1.k = "#" /\ line.start)]
    /\ Emit(Next1) /\ Advance
    /\ UNCHANGED <<prog, pc, def, iff, call, fault, met>>

MarkNot(d, n) == d
Mark(d, n) == [d EXCEPT ![n].in_use = TRUE]
Object ==
    /\ Reading("text") /\ Replaceable(Next1) /\ Len(levels) < MAX_DEFINE
    /\ LET n == Next1.v
       IN  /\ def[n].count = -1
           /\ last_nl' = FALSE
           /\ files' = Rest[2]
           /\ IF def[n].body = <<>> THEN levels' = Rest[1] /\ UNCHANGED def
              ELSE levels' = Append(Rest[1], [text |-> def[n].body, ref |-> n]) /\ def' = Mark(def, n)
    /\ line' = [line EXCEPT !.start = FALSE]
    /\ UNCHANGED <<prog, pc, iff, call, out, fault, met>>

Function ==
    /\ Reading("text") /\ Replaceable(Next1) /\ Len(levels) < MAX_DEFINE
    /\ def[Next1.v].count >= 0
    /\ pc' = "paren" /\ last_nl' = FALSE
    /\ call' = [NoCall EXCEPT !.name = Next1.v, !.args = [i \in 1 .. def[Next1.v].count |-> <<>>]]
    /\ line' = [line EXCEPT !.start = FALSE]
    /\ Advance
    /\ UNCHANGED <<prog, def, iff, out, fault, met>>

-----------------------------------------------------------------------------
(* A call of a macro with arguments: an open bracket must follow.          *)
Word(n) == [k |-> "word", v |-> n]

SkipSpace ==
    /\ Reading("paren") /\ Next1.k = "sp" /\ Advance
    /\ UNCHANGED <<prog, pc, last_nl, def, iff, call, out, fault, met, line>>

Bracket ==
    /\ Reading("paren") /\ Next1.k = "(" /\ Advance
    /\ pc' = "args"
    /\ UNCHANGED <<prog, last_nl, def, iff, call, out, fault, met, line>>

NoBracket ==
    /\ pc = "paren" /\ ~Exhausted
    /\ IF AtEnd THEN EndOfText ELSE Next1.k \notin {"sp", "("}
    /\ pc' = "text" /\ Emit(Word(call.name)) /\ call' = NoCall
    /\ UNCHANGED <<prog, files, levels, last_nl, def, iff, fault, met, line>>

(* gen_substrings, one token: commas and brackets count only outside       *)
(* inner brackets; what there is too much of goes to the last argument.    *)
Ends(t) == t.k = ")" /\ call.paren = 0
PartsAnywhere(t) == t.k = ","
Parts(t) == t.k = "," /\ call.paren = 0
Count == Len(call.args)
SmallerOf(a, b) == IF a < b THEN a ELSE b
Longer(args, p) == IF Count = 0 THEN args ELSE [args EXCEPT ![p] = Append(args[p], Next1)]

Argument ==
    /\ Reading("args") /\ ~Ends(Next1)
    /\ LET commas == call.commas + (IF Parts(Next1) THEN 1 ELSE 0)
       IN  call' = IF Parts(Next1) /\ commas < Count THEN [call EXCEPT !.commas = commas]
                   ELSE [call EXCEPT
                           !.paren = CASE Next1.k = "(" -> @ + 1 [] Next1.k = ")" -> @ - 1 [] OTHER -> @,
                           !.commas = commas,
                           !.found = TRUE,
                           !.args = Longer(@, SmallerOf(commas + 1, Count))]
    /\ Advance
    /\ UNCHANGED <<prog, pc, last_nl, def, iff, out, fault, met, line>>

\* The call has ended; what is made of it is read next.
Called ==
    /\ Reading("args") /\ Ends(Next1) /\ Advance
    /\ pc' = "insert" /\ call' = [call EXCEPT !.left = def[call.name].body]
    /\ Faulty("arguments", Count = 0 /\ (call.found \/ call.commas > 0))
    /\ UNCHANGED <<prog, last_nl, def, iff, out, met, line>>

CalledAtEnd ==
    /\ pc = "args" /\ EndOfText
    /\ pc' = "insert" /\ call' = [call EXCEPT !.left = def[call.name].body]
    /\ Faulty("arguments", Count = 0 /\ (call.found \/ call.commas > 0))
    /\ UNCHANGED <<prog, files, levels, last_nl, def, iff, out, met, line>>

\* insert_substrings: the body with arguments in place of parameters, piece by piece.
Parameters(t) == {p \in DOMAIN def[call.name].params : t.k = "word" /\ def[call.name].params[p] = t.v}
First(s) == CHOOSE i \in s : \A j \in s : i <= j
Insert ==
    /\ pc = "insert" /\ call.left # <<>>
    /\ LET t == Head(call.left)
           piece == IF Parameters(t) = {} THEN <<t>> ELSE call.args[First(Parameters(t))]
       IN  call' = [call EXCEPT !.left = Tail(@), !.text = @ \o piece]
    /\ UNCHANGED <<prog, pc, files, levels, last_nl, def, iff, out, fault, met, line>>

Inserted ==
    /\ pc = "insert" /\ call.left = <<>>
    /\ levels' = Append(levels, [text |-> call.text, ref |-> ""])
    /\ pc' = "text" /\ call' = NoCall
    /\ UNCHANGED <<prog, files, last_nl, def, iff, out, fault, met, line>>

-----------------------------------------------------------------------------
(* Directives.  After one that ends in a // comment the preprocessor does  *)
(* not know that it is at the start of a line, but for those that put the  *)
(* end of line back.                                                       *)
Directive(ops) ==
    /\ Reading("text") /\ Next1.k = "#" /\ last_nl /\ Next1.op \in ops
    /\ last_nl' = \/ ~Next1.comment
                  \/ iff.if_false = 0 /\ Next1.op \in {"include", "pragma"}
    /\ line' = [line EXCEPT !.start = TRUE]

(* What the language says of conditionals: a frame for each #if that is    *)
(* open, with its first branch whose condition is true taken.  What is     *)
(* skipped is looked at for its nesting only.  Once a directive is out of  *)
(* place there is nothing more to say (good); deep says that there were    *)
(* more frames in text that is taken than if_stack has bits for.           *)
Frame(value) == [taken |-> value, now |-> value, has_else |-> FALSE]
Branch(f, value) == [f EXCEPT !.taken = @ \/ value, !.now = value /\ ~f.taken]
Top(s) == s.open[Len(s.open)]
SetTop(s, f) == [s EXCEPT !.open[Len(s.open)] = f]
Takes(s) == \A i \in DOMAIN s.open : s.open[i].now
Skips(s) == \E i \in DOMAIN s.open : i # Len(s.open) /\ ~s.open[i].now
Opens(op) == op \in {"if", "ifdef", "ifndef"}
InPlace(s, op) == Opens(op) \/ (s.open # <<>> /\ (op = "endif" \/ Skips(s) \/ ~Top(s).has_else))
Meet(s, op, value) ==
    IF ~s.good \/ ~InPlace(s, op) THEN [s EXCEPT !.good = FALSE]
    ELSE CASE Opens(op)     -> [s EXCEPT !.open = Append(@, Frame(value)),
                                         !.deep = @ \/ (Takes(s) /\ Len(s.open) > IFBITS)]
           [] op = "endif"  -> [s EXCEPT !.open = Front(@)]
           [] op = "elif"   -> SetTop(s, Branch(Top(s), value))
           [] op = "else"   -> SetTop(s, [Branch(Top(s), TRUE) EXCEPT !.has_else = TRUE])
Meets(value) == met' = Meet(met, Next1.op, value)

\* The condition of #ifdef, #ifndef, #if and #elif.
Condition(d) ==
    CASE d.op = "ifdef"  -> Defined(d.name)
      [] d.op = "ifndef" -> ~Defined(d.name)
      [] OTHER           -> d.value

IfFalse(c) == IF c THEN 0 ELSE 1
Hide(i) == [i EXCEPT !.if_hidden = @ + 1]

\* if_stack is an unsigned, here its bits, the lowest last: those that are
\* shifted out are lost, and 0 is shifted in.
ShiftIn(bits, b) ==
    LET more == Append(bits, b) IN IF Len(more) > IFBITS THEN Tail(more) ELSE more
LowBit(bits) == bits # <<>> /\ Last(bits)
ShiftOut(bits) == IF bits = <<>> THEN bits ELSE Front(bits)

Enter(i, c) ==
    [i EXCEPT !.if_count = @ + 1,
              !.if_stack = ShiftIn(@, i.if_has_else),
              !.if_has_else = FALSE, !.if_false = IfFalse(c)]

If ==
    /\ Directive({"ifdef", "ifndef", "if"})
    /\ iff' = IF iff.if_false # 0 THEN Hide(iff) ELSE Enter(iff, Condition(Next1))
    /\ Meets(Condition(Next1))
    /\ Advance
    /\ UNCHANGED <<prog, pc, def, call, out, fault>>

ElifAgain(i, c) == [i EXCEPT !.if_has_else = FALSE, !.if_false = IfFalse(c)]
Elif(i, c) ==
    IF i.if_has_else \/ i.if_false # 1 THEN [i EXCEPT !.if_false = 2]
    ELSE [i EXCEPT !.if_has_else = FALSE, !.if_false = IfFalse(c)]

ElseIf ==
    /\ Directive({"elif"})
    /\ IF iff.if_false # 0 /\ iff.if_hidden > 0 THEN UNCHANGED iff
       ELSE IF iff.if_count = 0
       THEN iff' = [iff EXCEPT !.if_has_else = FALSE,
                               !.if_false = IF @ # 0 THEN @ ELSE IfFalse(Condition(Next1))]
       ELSE iff' = Elif(iff, Condition(Next1))
    /\ Faulty("if", iff.if_hidden = 0 /\ (iff.if_count = 0 \/ iff.if_has_else))
    /\ Meets(Condition(Next1)) /\ Advance
    /\ UNCHANGED <<prog, pc, def, call, out>>

\* if_false ^ 1: a branch taken before, 2, makes it 3.
Flip(f) == CASE f = 0 -> 1 [] f = 1 -> 0 [] f = 2 -> 3 [] f = 3 -> 2

Else ==
    /\ Directive({"else"})
    /\ iff' = IF iff.if_hidden > 0 THEN iff
              ELSE [iff EXCEPT !.if_false = IF iff.if_count = 0 THEN @ ELSE Flip(@), !.if_has_else = TRUE]
    /\ Faulty("if", iff.if_hidden = 0 /\ (iff.if_count = 0 \/ iff.if_has_else))
    /\ Meets(TRUE) /\ Advance
    /\ UNCHANGED <<prog, pc, def, call, out>>

EndIf ==
    /\ Directive({"endif"})
    /\ iff' = IF iff.if_hidden > 0 THEN [iff EXCEPT !.if_hidden = @ - 1]
              ELSE IF iff.if_count = 0 THEN iff
              ELSE [iff EXCEPT !.if_count = @ - 1, !.if_false = 0,
                               !.if_has_else = LowBit(iff.if_stack), !.if_stack = ShiftOut(@)]
    /\ Faulty("if", iff.if_hidden = 0 /\ iff.if_count = 0)
    /\ Meets(TRUE) /\ Advance
    /\ UNCHANGED <<prog, pc, def, call, out>>

(* A macro that is in use is replaced too, with a warning, and leaks.      *)
InUse(n) == Defined(n) /\ def[n].in_use
Change(n) == Faulty("in use", InUse(n))

Define ==
    /\ Directive({"define"}) /\ iff.if_false = 0
    /\ def' = [def EXCEPT ![Next1.name] =
                 [count |-> Next1.count, params |-> Next1.params, in_use |-> FALSE,
                  body |-> IF Next1.body = <<>> /\ Next1.count <= 0 THEN <<>>
                           ELSE Append(Next1.body, Space)]]
    /\ Change(Next1.name) /\ Advance
    /\ UNCHANGED <<prog, pc, iff, call, out, met>>

Undef ==
    /\ Directive({"undef"}) /\ iff.if_false = 0
    /\ def' = [def EXCEPT ![Next1.name] = NoMacro]
    /\ Change(Next1.name) /\ Advance
    /\ UNCHANGED <<prog, pc, iff, call, out, met>>

(* An included file is read after what is left of the macros.  With more   *)
(* than MAX_INCLUDE the code writes past the end of saved_files, which     *)
(* nothing checks: the model follows it no further.                        *)
Include ==
    /\ Directive({"include"}) /\ iff.if_false = 0
    /\ levels' = Rest[1]
    /\ IF Len(files) > MAX_INCLUDE THEN files' = Rest[2] /\ Faulty("include", TRUE)
       ELSE files' = Append(Rest[2], prog[Next1.name]) /\ UNCHANGED fault
    /\ UNCHANGED <<prog, pc, def, iff, call, out, met>>

\* Those without effect here, unknown ones, and all where text is skipped.
Ignored ==
    /\ Directive({"define", "undef", "include", "pragma", "unknown"})
    /\ iff.if_false # 0 \/ Next1.op \in {"pragma", "unknown"}
    /\ Faulty("unknown", iff.if_false = 0 /\ Next1.op = "unknown") /\ Advance
    /\ UNCHANGED <<prog, pc, def, iff, call, out, met>>

-----------------------------------------------------------------------------
Done ==
    /\ pc = "text" /\ AtEnd /\ Len(files) = 1 /\ pc' = "done"
    /\ UNCHANGED <<prog, files, levels, last_nl, def, iff, call, out, fault, met, line>>

Init ==
    /\ \E i \in DOMAIN Programs : prog \in Programs[i]
    /\ pc = "text" /\ files = <<prog[Main]>> /\ levels = <<>> /\ last_nl = TRUE
    /\ def = [n \in Name |-> NoMacro]
    /\ iff = [if_count |-> 0, if_false |-> 0, if_has_else |-> FALSE, if_hidden |-> 0, if_stack |-> <<>>]
    /\ call = NoCall /\ out = <<>> /\ fault = {} /\ met = [good |-> TRUE, deep |-> FALSE, open |-> <<>>]
    /\ line = [start |-> TRUE, missed |-> FALSE]

Next ==
    \/ PopLevel \/ PopFile \/ White \/ Plain \/ Object \/ Function
    \/ SkipSpace \/ Bracket \/ NoBracket \/ Argument \/ Called \/ CalledAtEnd \/ Insert \/ Inserted
    \/ If \/ ElseIf \/ Else \/ EndIf \/ Define \/ Undef \/ Include \/ Ignored
    \/ Done

\* The preprocessor runs alone: it takes any step that it can.
Spec == Init /\ [][Next]_vars /\ WF_vars(Next)

-----------------------------------------------------------------------------
(* TypeOK: the variables have their types.                                 *)
TypeOK ==
    /\ pc \in {"text", "paren", "args", "insert", "done"}
    /\ last_nl \in BOOLEAN
    /\ files \in Seq(Seq(Token)) /\ Len(files) > 0
    /\ levels \in Seq([text : Seq(Token), ref : Name \cup {""}])
    /\ DOMAIN def = Name
    /\ \A n \in Name : /\ def[n].count \in Int /\ def[n].in_use \in BOOLEAN
                       /\ def[n].body \in Seq(Token)
    /\ iff.if_count \in Nat /\ iff.if_false \in 0 .. 3 /\ iff.if_hidden \in Nat
    /\ iff.if_stack \in Seq(BOOLEAN) /\ Len(iff.if_stack) <= IFBITS

(* InUse: a macro is marked as in use (def_ref->in_use) exactly while its   *)
(* value is being read: at most one of the levels is its value, and         *)
(* no level of a macro that has the mark is lost (chget_raw, get_onetok).   *)
(* NeverInUse: so no directive is read in the middle of the value of the    *)
(* macro that it changes, the case that do_proc_define and do_proc_undef    *)
(* say "shouldn't happen".                                                  *)
References(n) == {i \in DOMAIN levels : levels[i].ref = n}
NeverInUse == "in use" \notin fault
InUseRight ==
    /\ NeverInUse
    /\ \A n \in Name : /\ def[n].in_use <=> References(n) # {}
                       /\ \A i, j \in References(n) : i = j

(* ConditionsRight: text is taken exactly when each #if that is open is in *)
(* its first branch with a true condition (or in #else and had none): what *)
(* if_false says after any sequence of directives, with if_hidden for the  *)
(* nesting of what is skipped.  A directive that is out of place in text   *)
(* that is taken is complained of, and no other, unless the nesting went   *)
(* deeper than the bits of if_stack (do_proc_if, _else and _endif).        *)
ConditionsRight ==
    /\ "if" \in fault => ~met.good
    /\ ~met.good => "if" \in fault \/ met.deep
    /\ met.good => (iff.if_false = 0 <=> Takes(met))
=============================================================================
