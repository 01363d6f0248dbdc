------------------------------ MODULE Rewriting -----------------------------
(***************************************************************************)
(* What copt does to a text, without its lists, its search and its way of  *)
(* matching: some lines that are what a rule says, for some value of its   *)
(* variables, become what the rule puts there.  Comments among the lines   *)
(* may be passed by, and go away with them.  A window does not begin with  *)
(* a comment nor in assembler code.  A rule that puts nothing there ends   *)
(* the text.                                                               *)
(***************************************************************************)
EXTENDS CoptPattern

CONSTANTS Programs
VARIABLES text,    \* the lines: [text, comment_flg]
          files    \* the files of rules not yet done with

(* The values of the variables, in addition to those in v, for which a     *)
(* pattern is the line.                                                    *)
With(v, n, s) == IF n \in DOMAIN v /\ v[n] # s THEN {} ELSE {IF n = Star THEN v ELSE v @@ (n :> s)}

RECURSIVE Solutions(_, _, _)
Solutions(ins, pat, v) ==
    IF pat = <<>> THEN IF ins = <<>> THEN {v} ELSE {}
    ELSE LET p == Head(pat)
             Taking(k) == Solutions(From(ins, k), Tail(pat), v)
         IN  CASE p.kind = "char" -> IF ins # <<>> /\ Head(ins) = p.char THEN Taking(1) ELSE {}
               [] p.kind = "var" -> UNION {UNION {With(w, p.n, SubSeq(ins, 1, k)) : w \in Taking(k)} : k \in 0 .. Len(ins)}
               [] p.kind = "oneof" ->
                    IF ins = <<>> \/ Head(ins) \notin p.of THEN {}
                    ELSE UNION {With(w, p.n, SubSeq(ins, 1, 1)) : w \in Taking(1)}
               [] p.kind = "noneof" -> IF ins # <<>> /\ Head(ins) \in p.of THEN {} ELSE Taking(0)
               [] p.kind = "value" ->
                    UNION {{w \in Taking(k) : eval(p.expr, w) = eval(Chars(SubSeq(ins, 1, k)), w)} : k \in 0 .. Len(ins)}

(* The windows that begin at line i and match: their ends and solutions.   *)
RECURSIVE Windows(_, _, _)
Windows(i, pats, v) ==
    IF pats = <<>> THEN {<<i, v>>}
    ELSE IF i > Len(text) THEN {}
    ELSE (IF text[i].comment_flg THEN Windows(i + 1, pats, v) ELSE {})
         \cup UNION {Windows(i + 1, Tail(pats), w) : w \in Solutions(text[i].text, Head(pats), v)}

BCC_ASM == <<"!", "BCC_ASM">>
Marks == {BCC_ASM, <<"!", "BCC_ENDASM">>, <<"!", "BCC_EOS">>}
InAsm(i) == \E j \in 1 .. i - 1 : /\ text[j].text = BCC_ASM
                                  /\ \A k \in j + 1 .. i - 1 : text[k].text \notin Marks

Written(rule, v) == [k \in DOMAIN rule.new |-> [text |-> subst(rule.new[k], v), comment_flg |-> FALSE]]
Before(i) == SubSeq(text, 1, i - 1)

Rewrite ==
    /\ files # <<>>
    /\ \E i \in DOMAIN text, r \in DOMAIN Head(files) :
          LET rule == Head(files)[r] IN
          /\ ~text[i].comment_flg /\ ~InAsm(i)
          /\ \E w \in Windows(i, rule.old, <<>>) :
                text' = Before(i) \o IF rule.new = <<>> THEN <<>>
                                     ELSE Written(rule, w[2]) \o From(text, w[1] - 1)
    /\ UNCHANGED files

NextFile == files # <<>> /\ files' = Tail(files) /\ UNCHANGED text

Init == \E p \in Programs :
    /\ [i \in DOMAIN text |-> text[i].text] \in p.texts
    /\ \A i \in DOMAIN text : text[i].comment_flg = (Head(text[i].text) = "!")
    /\ files = p.files

Spec == Init /\ [][Rewrite \/ NextFile]_<<text, files>>
=============================================================================
