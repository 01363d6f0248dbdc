------------------------------- MODULE MCCopt -------------------------------
(* Rules of rules.start, rules.86, rules.386, rules.i and rules.end, and   *)
(* texts for Copt.                                                         *)
EXTENDS Copt

\* Lines and patterns.
T(s) == Chars(s)
Ins(op, a) == op \o T(<<" ">>) \o a
Ins2(op, a, b) == Ins(op, a \o T(<<",">>) \o b)
MOV(a, b) == Ins2(T(<<"mov">>), a, b)
PUSH(a) == Ins(T(<<"push">>), a)
POP(a) == Ins(T(<<"pop">>), a)
JMP(l) == Ins(T(<<"jmp">>), T(<<".">>) \o l)
LABEL(l) == T(<<".">>) \o l \o T(<<":">>)
V(n) == <<Var(n)>>
REG(n) == <<OneOf({"ax", "bx"}, n)>>
R(s) == T(<<s>>)
EOS == T(<<"!", "BCC_EOS">>)
NOTE == <<"!", "note">>
INC(r) == Ins(T(<<"inc">>), R(r))
RET == T(<<"ret">>)
START == T(<<"proc_start">>)
END == T(<<"proc_end">>)
Rule(old, new) == [old |-> old, new |-> new]
Text(lines) == [i \in DOMAIN lines |-> [j \in DOMAIN lines[i] |-> lines[i][j].char]]

Prologue == <<PUSH(R("bp")), MOV(R("bp"), R("sp")), PUSH(R("di")), PUSH(R("si"))>>
Epilogue == <<POP(R("si")), POP(R("di")), POP(R("bp")), RET>>
\* rules.start and rules.end
StartRules == <<Rule(Prologue, <<START>>), Rule(Epilogue, <<END>>)>>
EndRules == <<Rule(<<START>>, Prologue), Rule(<<END>>, Epilogue)>>

\* rules.86:320 to 353
Moves == <<Rule(<<MOV(V(1), REG(2)), PUSH(V(1))>>, <<MOV(V(1), V(2)), PUSH(V(2))>>),
           Rule(<<MOV(V(1), V(2)), MOV(V(1), V(2))>>, <<MOV(V(1), V(2))>>),
           Rule(<<MOV(V(1), V(2)), LABEL(V(3)), MOV(V(1), V(2))>>, <<LABEL(V(3)), MOV(V(1), V(2))>>),
           Rule(<<MOV(V(1), V(2)), MOV(V(2), V(1))>>, <<MOV(V(1), V(2))>>),
           Rule(<<MOV(V(1), REG(2)), MOV(REG(3), V(1))>>, <<MOV(V(1), V(2)), MOV(V(3), V(2))>>),
           Rule(<<MOV(V(1), V(1))>>, <<>>)>>
\* rules.86:360 to 391; from 370 on the file has a space after jmp, where cc1
\* writes a tab, so that these three match nothing; here they do
Jumps == <<Rule(<<JMP(V(1)), JMP(V(2))>>, <<JMP(V(1))>>),
           Rule(<<RET, Ins(T(<<"jmp">>), V(2))>>, <<RET>>),
           Rule(<<JMP(V(1)), LABEL(V(1))>>, <<LABEL(V(1))>>),
           Rule(<<JMP(V(1)), LABEL(V(2)), EOS, LABEL(V(1))>>, <<LABEL(V(2)), EOS, LABEL(V(1))>>),
           Rule(<<JMP(V(1)), LABEL(V(3)), LABEL(V(2)), LABEL(V(1))>>, <<LABEL(V(3)), LABEL(V(2)), LABEL(V(1))>>)>>
\* rules.86:72 to 85
Steps == <<Rule(<<MOV(REG(2), V(1)), Ins(<<OneOf({"inc", "dec"}, 3)>>, REG(2)), MOV(V(1), REG(2)), EOS>>,
                <<V(3) \o T(<<" ", "word ptr ">>) \o V(1), EOS>>),
           Rule(<<MOV(REG(2), V(1)), Ins(<<OneOf({"inc", "dec"}, 3)>>, REG(2)), MOV(V(1), REG(2))>>,
                <<V(3) \o T(<<" ", "word ptr ">>) \o V(1), MOV(V(2), V(1))>>)>>
\* rules.i, the last one: it keeps the next file from what rules.86:351 does to it
Same == <<Rule(<<MOV(R("ax"), R("ax"))>>, <<T(<<"!">>) \o MOV(R("ax"), R("ax"))>>)>>

\* rules.386:101, 204, 371, 379 and 401
D(n) == <<Var(n)>> \o R("[") \o <<OneOf({"bx", "bp"}, 3)>> \o R("]")
Longs == <<Rule(<<MOV(R("ax"), D(1)),
                  MOV(<<OneOf({"bx", "si"}, Star)>>, <<Value(V(1) \o R("+") \o R("2"))>> \o Tail(D(1)))>>,
                <<MOV(R("eax"), V(1) \o R("[") \o V(3) \o R("]"))>>),
           Rule(<<MOV(R("eax"), <<OneOf({"#", "*"}, 0)>> \o V(1)), Ins2(R("cmp"), R("eax"), V(2)),
                  <<OneOf({"jbe ", "jae ", "jne "}, 3)>> \o V(4)>>,
                <<Ins2(R("cmp"), R("dword ptr ") \o V(2), V(0) \o V(1)),
                  <<Convert(<<"jbe ", "jae ", "jne ">>, <<"jae ", "jbe ", "jne ">>, 3)>> \o V(4)>>)>>
Mul(a) == Ins2(R("imul"), R("ax"), R("*") \o a)
Shl(a) == Ins2(R("shl"), R("ax"), R("*") \o a)
Save == MOV(R("dx"), R("ax"))
AddDx == Ins2(R("add"), R("ax"), R("dx"))
Muls == <<Rule(<<Save, Shl(V(1)), AddDx, Shl(V(2))>>,
               <<Save, Mul(<<Value(R("1") \o R("<") \o V(1) \o R("+") \o R("1") \o R("<") \o V(2))>>)>>),
          Rule(<<Save, Mul(V(1)), AddDx>>, <<Save, Mul(<<Value(V(1) \o R("+") \o R("1"))>>)>>),
          Rule(<<MOV(R("ax"), <<NoneOf({"#", "*"}), Var(4)>>), Save, Mul(V(1)), PUSH(R("ax"))>>,
               <<Ins2(R("imul"), R("ax"), V(4) \o R(",") \o R("*") \o V(1)), PUSH(R("ax"))>>)>>

Seqs(S, n) == UNION {[1 .. k -> S] : k \in 0 .. n}
Prog(S, n, fs, backups) ==
    [texts |-> {Text(<<T(NOTE)>> \o s) : s \in Seqs(S, n)}, files |-> fs, backups |-> backups]

AB == MOV(R("ax"), R("bx"))
BA == MOV(R("bx"), R("ax"))
AA == MOV(R("ax"), R("ax"))
ASM == T(BCC_ASM)
ENDASM == T(<<"!", "BCC_ENDASM">>)
OfMoves == Prog({AB, BA, AA, PUSH(R("ax")), LABEL(R("1")), EOS}, 4, <<Moves>>, {0, 2})
OfJumps == Prog({JMP(R("1")), JMP(R("2")), LABEL(R("1")), LABEL(R("2")), RET, EOS}, 4, <<Jumps>>, {0})
OfAsm == Prog({AB, BA, AA, ASM, ENDASM}, 4, <<Same \o Moves>>, {0})
OfSteps == Prog({MOV(R("ax"), R("x")), MOV(R("bx"), R("x")), INC("ax"), INC("bx"), MOV(R("x"), R("ax")), EOS},
                4, <<Steps \o Moves>>, {0, 2})
OfFunctions ==
    [texts |-> {Text(top \o Prologue \o s \o Epilogue \o rest) :
                  <<top, s, rest>> \in {<<>>, <<T(NOTE)>>, Epilogue} \X Seqs({AB, BA, PUSH(R("si")), ASM, ENDASM, EOS}, 2)
                                      \X {<<>>, Prologue}},
     files |-> <<StartRules, Moves, EndRules>>, backups |-> {0, 1}]
OfLongs == Prog({MOV(R("ax"), T(<<"-", "4", "[", "bp", "]">>)), MOV(R("bx"), T(<<"-", "2", "[", "bp", "]">>)),
                 MOV(R("ax"), T(<<"[", "bx", "]">>)), MOV(R("si"), T(<<"2", "[", "bx", "]">>)),
                 MOV(R("eax"), T(<<"#", "9">>)), Ins2(R("cmp"), R("eax"), R("x")), T(<<"jbe ", "1">>)},
                3, <<Longs>>, {0})
OfMuls == Prog({MOV(R("ax"), R("x")), Save, Mul(R("5")), AddDx, PUSH(R("ax"))}, 4, <<Muls>>, {0, 2})
OfShifts == Prog({Save, Shl(R("2")), Shl(R("1")), AddDx}, 4, <<Muls>>, {0})

MCPrograms == {OfMoves, OfJumps, OfAsm, OfSteps, OfFunctions, OfLongs, OfMuls}
Shifts == {OfShifts}
=============================================================================
