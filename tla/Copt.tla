-------------------------------- MODULE Copt --------------------------------
(***************************************************************************)
(* copt/copt.c: the text of a program is a list of lines; the rules of one *)
(* file after the other replace windows of it, from a line that moves down *)
(* the list and back up to the line before where it changed.               *)
(*                                                                         *)
(* A line is a node with text, prev, next and comment_flg, at an address   *)
(* that malloc may use again; NULL is 0.  See CoptPattern for texts and    *)
(* rules.                                                                  *)
(***************************************************************************)
EXTENDS CoptPattern, FiniteSets

CONSTANTS Programs   \* [texts, files, backups]: what is read, the rules of each file, -b

VARIABLES line,      \* address -> node
          infile,    \* the first line
          cur,       \* the line optimize is at, NULL at the end of the list
          in_asm,
          files,     \* the files of rules not yet done with; the first is in use
          backup,
          useless    \* ghost: the step before put the same lines in the place of lines

vars == <<line, infile, cur, in_asm, files, backup, useless>>

NULL == 0
Nodes(text) == [i \in DOMAIN text |->
                  [text |-> text[i], prev |-> i - 1, next |-> IF i = Len(text) THEN NULL ELSE i + 1,
                   comment_flg |-> Head(text[i]) = "!"]]

-----------------------------------------------------------------------------
(* optline compares the lines from ins on with those of a rule: comments   *)
(* are passed by unless the rule has them.  What comes out is the line     *)
(* after the window and what is left of the pattern.                       *)
RECURSIVE Walk(_, _, _)
Walk(ins, pats, v) ==
    IF ins = NULL \/ pats = <<>> THEN [ins |-> ins, left |-> pats, vars |-> v]
    ELSE LET node == line[ins]
             first == Head(Head(pats))
             m == match(node.text, Head(pats), v)
         IN  IF node.comment_flg
             THEN IF first.kind # "char" \/ first.char # Head(node.text) THEN Walk(node.next, pats, v)
                  ELSE Walk(node.next, IF m.ok THEN Tail(pats) ELSE pats, m.vars)
             ELSE IF m.ok THEN Walk(node.next, Tail(pats), m.vars)
             ELSE [ins |-> ins, left |-> pats, vars |-> m.vars]

Rules == Head(files)
Window(rule) == Walk(cur, rule.old, <<>>)
Matching == {i \in DOMAIN Rules : Window(Rules[i]).left = <<>>}
FirstRule == Rules[CHOOSE i \in Matching : \A j \in Matching : i <= j]

RECURSIVE Through(_, _)
(* The lines from one up to another.                                       *)
Through(from, to) == IF from = to THEN <<>> ELSE <<from>> \o Through(line[from].next, to)
Addresses(lines) == {lines[i] : i \in DOMAIN lines}

(* Addresses for new lines, the lowest that are free.                      *)
RECURSIVE Fresh(_, _)
Fresh(n, used) ==
    IF n = 0 THEN <<>>
    ELSE LET a == CHOOSE a \in 1 .. Cardinality(used) + 1 : a \notin used
         IN  <<a>> \o Fresh(n - 1, used \cup {a})

(* The list with the window taken out and lines of the given texts in its  *)
(* place.  Without any the line before becomes the last one, and what      *)
(* follows the window is lost.                                             *)
FirstOf(at) == IF at = <<>> THEN NULL ELSE Head(at)
LastOf(at) == IF at = <<>> THEN NULL ELSE at[Len(at)]
PrevKept(at, node) == node.prev
PrevOf(at, node) == LastOf(at)
Relinked(gone, at, texts, prev, ins) ==
    [a \in (DOMAIN line \ gone) \cup Addresses(at) |->
       IF \E i \in DOMAIN at : at[i] = a
       THEN LET i == CHOOSE i \in DOMAIN at : at[i] = a
            IN  [text |-> texts[i], comment_flg |-> FALSE,
                 prev |-> IF i = 1 THEN prev ELSE at[i - 1],
                 next |-> IF i = Len(at) THEN ins ELSE at[i + 1]]
       ELSE [line[a] EXCEPT !.next = IF a = prev THEN FirstOf(at) ELSE @,
                            !.prev = IF a = ins THEN PrevOf(at, line[a]) ELSE @]]

RECURSIVE Back(_, _, _)
Back(list, a, n) == IF a = NULL \/ n = 0 THEN a ELSE Back(list, list[a].prev, n - 1)

(* optimize: comments and assembler code are passed by.                    *)
BCC_ASM == <<"!", "BCC_ASM">>
Marks == {BCC_ASM, <<"!", "BCC_ENDASM">>, <<"!", "BCC_EOS">>}
Looking == files # <<>> /\ cur # NULL
PassedBy == line[cur].comment_flg \/ in_asm
AsmAfter(text) == IF text \in Marks THEN text = BCC_ASM ELSE in_asm

Skip ==
    /\ Looking /\ PassedBy
    /\ cur' = line[cur].next /\ in_asm' = AsmAfter(line[cur].text)
    /\ useless' = FALSE /\ UNCHANGED <<line, infile, files, backup>>

Pass ==
    /\ Looking /\ ~PassedBy /\ Matching = {}
    /\ cur' = line[cur].next
    /\ useless' = FALSE /\ UNCHANGED <<line, infile, in_asm, files, backup>>

(* The first rule that matches is applied; optline returns the line before *)
(* the window, and without one the list is done with.  Whether optimize    *)
(* then backs up further it decides by cur->next, of a line that was freed.*)
Replace ==
    /\ Looking /\ ~PassedBy /\ Matching # {}
    /\ LET m == Window(FirstRule)
           texts == [i \in DOMAIN FirstRule.new |-> subst(FirstRule.new[i], m.vars)]
           window == Through(cur, m.ins)
           gone == Addresses(window)
           at == Fresh(Len(texts), DOMAIN line \ gone)
           prev == line[cur].prev
       IN  /\ line' = Relinked(gone, at, texts, prev, m.ins)
           /\ infile' = IF prev = NULL THEN FirstOf(at) ELSE infile
           /\ \E n \in {0, backup} :
                 LET back == Back(line', prev, n)
                 IN  cur' = IF back = NULL /\ prev # NULL THEN infile' ELSE back
           /\ useless' = (texts = [i \in DOMAIN window |-> line[window[i]].text])
    /\ UNCHANGED <<in_asm, files, backup>>

(* main: the next file of rules, from the top of the list.                 *)
RulesKept ==
    IF Len(files) = 1 THEN <<>> ELSE [i \in 1 .. Len(files) - 1 |-> IF i = 1 THEN files[1] \o files[2] ELSE files[i + 1]]
RulesLeft == Tail(files)
NextFile ==
    /\ files # <<>> /\ cur = NULL
    /\ files' = RulesLeft /\ cur' = infile /\ in_asm' = FALSE
    /\ useless' = FALSE /\ UNCHANGED <<line, infile, backup>>

Init == \E p \in Programs : \E text \in p.texts :
    /\ line = Nodes(text) /\ infile = IF text = <<>> THEN NULL ELSE 1
    /\ cur = infile /\ in_asm = FALSE /\ files = p.files /\ backup \in p.backups /\ useless = FALSE

Next == Skip \/ Pass \/ Replace \/ NextFile
(* The program keeps running until it is done: WF_vars(Next), for there is *)
(* a step to take as long as there are rules.                              *)
Fairness == []<>(files = <<>>) \/ []<><<TRUE>>_vars
Spec == Init /\ [][Next]_vars /\ Fairness
-----------------------------------------------------------------------------
(* The list from infile on, at most as long as there are lines.            *)
RECURSIVE Listed(_, _)
Listed(a, n) == IF a = NULL \/ n = 0 THEN <<>> ELSE <<a>> \o Listed(line[a].next, n - 1)
List == Listed(infile, Cardinality(DOMAIN line) + 1)

(* The list of lines is one in both directions, without a ring, and the    *)
(* line optimize goes on with is on it: what optline returns, and what it  *)
(* backs up to, is never a line that was freed or cut off.                 *)
ListSound ==
    /\ Len(List) <= Cardinality(DOMAIN line)
    /\ \A i \in DOMAIN List : line[List[i]].prev = IF i = 1 THEN NULL ELSE List[i - 1]
    /\ cur = NULL \/ \E i \in DOMAIN List : List[i] = cur

(* The list is rewritten by the rules and in no other way: what a greedy   *)
(* match that keeps the variables of attempts that failed takes for a      *)
(* window is one, its variables are consistent over all its lines, and the *)
(* lines around it stay.                                                   *)
Lines == [i \in DOMAIN List |-> [text |-> line[List[i]].text, comment_flg |-> line[List[i]].comment_flg]]
Rewriting == INSTANCE Rewriting WITH text <- Lines
Implements == Rewriting!Spec

(* optimize comes to an end, or for ever replaces lines by the same lines, *)
(* which rules do whose result matches them: nothing else goes round.      *)
Ends == <>(files = <<>>) \/ []<>useless

(* The values of the expressions in a rule that is about to be applied are *)
(* those of the expressions with the values of the variables in place of   *)
(* them, which is what eval, to "eval an expression into an integer        *)
(* number", and its recursion for variables are for.                       *)
RECURSIVE InPlace(_, _)
InPlace(expr, v) ==
    IF expr = <<>> THEN <<>>
    ELSE (IF Head(expr).kind = "var" THEN Chars(v[Head(expr).n]) ELSE <<Head(expr)>>) \o InPlace(Tail(expr), v)
ValuesRight ==
    Looking /\ ~PassedBy /\ Matching # {} =>
        \A i \in DOMAIN FirstRule.new : \A j \in DOMAIN FirstRule.new[i] :
            LET p == FirstRule.new[i][j]
                v == Window(FirstRule).vars
            IN  p.kind = "value" => eval(p.expr, v) = eval(InPlace(p.expr, v), <<>>)
=============================================================================
