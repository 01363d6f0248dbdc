----------------------------- MODULE CppProofs -----------------------------
(***************************************************************************)
(* Proofs about Cpp, for all programs, names and limits: the mark of a     *)
(* macro in use is right, and no directive changes a macro in use.         *)
(***************************************************************************)
EXTENDS Cpp, SequenceTheorems, WellFoundedInduction, TLAPS

MacroNames == Name \cup {""}
Level == [text : Seq(Token), ref : MacroNames]
Macro == [count : Int, params : Seq(STRING), body : Seq(Token), in_use : BOOLEAN]
Call == [name : MacroNames, paren : Int, commas : Nat, found : BOOLEAN,
         args : Seq(Seq(Token)), left : Seq(Token), text : Seq(Token)]
Calling == pc \in {"paren", "args", "insert"}

Types ==
    /\ prog \in [File -> Seq(Token)]
    /\ files \in Seq(Seq(Token)) /\ Len(files) > 0
    /\ levels \in Seq(Level)
    /\ def \in [Name -> Macro] /\ \A n \in Name : DOMAIN def[n].params = 1 .. def[n].count
    /\ call \in Call
    /\ Calling => call.name \in Name /\ Len(call.args) = def[call.name].count

IsDirective(t) == t.k = "#"
NoDirective(text) == \A i \in DOMAIN text : ~IsDirective(text[i])
Owned(level) == level.ref # ""     \* it is the value of a macro
SomeOwned == \E i \in DOMAIN levels : Owned(levels[i])

(* What is read above the value of a macro has no directive in it: such    *)
(* text comes from arguments that were read where no value was.            *)
LevelsClean ==
    \A i \in DOMAIN levels : Owned(levels[i]) => \A j \in i .. Len(levels) : NoDirective(levels[j].text)
BodiesClean == \A n \in Name : NoDirective(def[n].body)
CallClean ==
    Calling =>
        /\ NoDirective(call.left)
        /\ SomeOwned =>
              NoDirective(call.text) /\ \A p \in DOMAIN call.args : NoDirective(call.args[p])

IInv == Types /\ LevelsClean /\ BodiesClean /\ CallClean /\ InUseRight

(* Reading a token takes it from the innermost level or from the file.     *)
LEMMA RestSound ==
  ASSUME IInv, ~Exhausted, ~AtEnd
  PROVE  /\ Next1 \in Token
         /\ Rest[1] \in Seq(Level) /\ Len(Rest[1]) = Len(levels)
         /\ \A i \in DOMAIN levels : Rest[1][i].ref = levels[i].ref
         /\ \A i \in DOMAIN levels : NoDirective(levels[i].text) => NoDirective(Rest[1][i].text)
         /\ Rest[2] \in Seq(Seq(Token)) /\ Len(Rest[2]) = Len(files)
<1> USE DEF IInv, Types
<1>1. CASE levels # <<>>
  <2>1. Len(levels) \in DOMAIN levels /\ levels[Len(levels)] \in Level
    BY <1>1
  <2> DEFINE top == levels[Len(levels)]
  <2>2. top.text \in Seq(Token) /\ top.text # <<>>
    BY <1>1, <2>1 DEF Exhausted, Last, Level
  <2>3. Tail(top.text) \in Seq(Token) /\ Head(top.text) \in Token
    BY <2>2
  <2>4. Next1 = Head(top.text) /\ Rest = <<[levels EXCEPT ![Len(levels)].text = Tail(@)], files>>
    BY <1>1 DEF Next1, Rest, Last
  <2>5. [top EXCEPT !.text = Tail(@)] \in Level
    BY <2>1, <2>3 DEF Level
  <2>6. Rest[1] \in Seq(Level) /\ Len(Rest[1]) = Len(levels)
    BY <2>1, <2>4, <2>5
  <2>7. \A i \in DOMAIN levels : Rest[1][i] = IF i = Len(levels) THEN [top EXCEPT !.text = Tail(@)] ELSE levels[i]
    BY <2>1, <2>4
  <2>8. \A i \in DOMAIN levels : Rest[1][i].ref = levels[i].ref
    BY <2>1, <2>7 DEF Level
  <2>9. NoDirective(top.text) => NoDirective(Tail(top.text))
    BY <2>2 DEF NoDirective
  <2>10. \A i \in DOMAIN levels : NoDirective(levels[i].text) => NoDirective(Rest[1][i].text)
    BY <2>1, <2>7, <2>9 DEF Level
  <2> QED BY <2>3, <2>4, <2>6, <2>8, <2>10
<1>2. CASE levels = <<>>
  <2>1. Len(files) \in DOMAIN files /\ files[Len(files)] \in Seq(Token)
    OBVIOUS
  <2>2. files[Len(files)] # <<>>
    BY <1>2 DEF AtEnd, Last
  <2>3. Next1 = Head(files[Len(files)]) /\ Rest = <<levels, [files EXCEPT ![Len(files)] = Tail(@)]>>
    BY <1>2 DEF Next1, Rest, Last
  <2>4. Tail(files[Len(files)]) \in Seq(Token) /\ Next1 \in Token
    BY <2>1, <2>2, <2>3
  <2>5. Rest[2] \in Seq(Seq(Token)) /\ Len(Rest[2]) = Len(files)
    BY <2>1, <2>3, <2>4
  <2>6. Rest[1] = levels
    BY <2>3
  <2> HIDE DEF IInv, Types
  <2>7. levels \in Seq(Level)
    BY DEF IInv, Types
  <2> QED BY <2>4, <2>5, <2>6, <2>7
<1> HIDE DEF IInv, Types
<1> QED BY <1>1, <1>2

(* There is no directive to read while the value of a macro is being read. *)
LEMMA NextClean ==
  ASSUME IInv, ~Exhausted, ~AtEnd, SomeOwned
  PROVE  ~IsDirective(Next1)
<1> DEFINE text == levels[Len(levels)].text
<1> PICK i \in DOMAIN levels : Owned(levels[i])
  BY DEF SomeOwned
<1>1. levels \in Seq(Level)
  BY DEF IInv, Types
<1>2. i \in 1 .. Len(levels) /\ Len(levels) \in Nat
  BY <1>1
<1>3. levels # <<>> /\ Len(levels) \in i .. Len(levels) /\ Len(levels) \in DOMAIN levels
  BY <1>1, <1>2
<1>4. levels[Len(levels)] \in Level
  BY <1>1, <1>3
<1>5. NoDirective(text)
  BY <1>3 DEF IInv, LevelsClean
<1>6. text \in Seq(Token) /\ text # <<>>
  BY <1>3, <1>4 DEF Exhausted, Last, Level
<1>7. Next1 = Head(text)
  BY <1>3 DEF Next1, Last
<1>8. Head(text) = text[1] /\ 1 \in DOMAIN text
  <2> HIDE DEF text
  <2> QED BY <1>6
<1> QED BY <1>5, <1>7, <1>8 DEF NoDirective

(* Levels that keep their number and their macros keep the marks right.    *)
LEMMA LevelsKept ==
  ASSUME IInv, levels' \in Seq(Level), Len(levels') = Len(levels),
         \A i \in DOMAIN levels : levels'[i].ref = levels[i].ref,
         \A i \in DOMAIN levels : NoDirective(levels[i].text) => NoDirective(levels'[i].text)
  PROVE  /\ LevelsClean'
         /\ \A n : References(n)' = References(n)
         /\ SomeOwned' <=> SomeOwned
<1>1. DOMAIN levels' = DOMAIN levels /\ DOMAIN levels = 1 .. Len(levels)
  BY DEF IInv, Types
<1>a. \A i \in DOMAIN levels : Owned(levels'[i]) <=> Owned(levels[i])
  BY DEF Owned
<1>2. LevelsClean'
  BY <1>1, <1>a DEF LevelsClean, IInv
<1>3. \A n : References(n)' = References(n)
  BY <1>1 DEF References
<1> QED BY <1>1, <1>a, <1>2, <1>3 DEF SomeOwned

LEMMA ReadLevels ==
  ASSUME IInv, ~Exhausted, ~AtEnd, levels' = Rest[1]
  PROVE  /\ levels' \in Seq(Level) /\ LevelsClean'
         /\ \A n : References(n)' = References(n)
         /\ SomeOwned' <=> SomeOwned
<1>1. \A i \in DOMAIN levels : levels'[i].ref = levels[i].ref
  BY RestSound
<1>2. \A i \in DOMAIN levels : NoDirective(levels[i].text) => NoDirective(levels'[i].text)
  BY RestSound
<1>3. levels' \in Seq(Level) /\ Len(levels') = Len(levels)
  BY RestSound
<1> QED BY <1>1, <1>2, <1>3, LevelsKept

LEMMA SameLevels ==
  ASSUME IInv, levels' = levels
  PROVE  /\ levels' \in Seq(Level) /\ LevelsClean'
         /\ \A n : References(n)' = References(n)
         /\ SomeOwned' <=> SomeOwned
<1>1. levels' \in Seq(Level) /\ Len(levels') = Len(levels)
  BY DEF IInv, Types
<1> QED BY <1>1, LevelsKept

(* A step that reads, or does not, and leaves the macros alone.            *)
CallRight ==
    /\ call \in Call
    /\ Calling => call.name \in Name /\ Len(call.args) = def[call.name].count
    /\ CallClean

LEMMA Quiet ==
  ASSUME IInv, prog' = prog, def' = def, NeverInUse', CallRight',
         files' \in Seq(Seq(Token)), Len(files') > 0,
         levels' \in Seq(Level), LevelsClean', \A n \in Name : References(n)' = References(n)
  PROVE  IInv'
<1>1. Types'
  BY DEF IInv, Types, CallRight
<1>2. BodiesClean' /\ CallClean'
  BY DEF IInv, BodiesClean, CallRight
<1>3. InUseRight'
  BY DEF IInv, InUseRight
<1> QED BY <1>1, <1>2, <1>3 DEF IInv

LEMMA SameCall ==
  ASSUME IInv, call' = call, def' = def, Calling' => Calling, SomeOwned' => SomeOwned
  PROVE  CallRight'
<1>1. call' \in Call /\ (Calling' => call'.name \in Name /\ Len(call'.args) = def'[call'.name].count)
  BY DEF IInv, Types
<1>2. CallClean'
  BY DEF IInv, CallClean
<1> QED BY <1>1, <1>2 DEF CallRight

(* Most steps take a token and change neither macros nor a call.           *)
LEMMA Reads ==
  ASSUME IInv, ~Exhausted, ~AtEnd, Advance, prog' = prog, def' = def, call' = call,
         NeverInUse', Calling' => Calling
  PROVE  IInv'
<1>1. levels' = Rest[1] /\ files' = Rest[2]
  BY DEF Advance
<1>2. files' \in Seq(Seq(Token)) /\ Len(files') = Len(files)
  BY <1>1, RestSound
<1>3. Len(files') > 0
  BY <1>2 DEF IInv, Types
<1>4. CallRight'
  BY <1>1, ReadLevels, SameCall
<1> QED BY <1>1, <1>2, <1>3, <1>4, ReadLevels, Quiet

LEMMA OtherFaults ==
  ASSUME NeverInUse, NEW what \in {"if", "unknown", "arguments", "include"}, NEW wrong, Faulty(what, wrong)
  PROVE  NeverInUse'
<1>1. fault' = fault \/ fault' = fault \cup {what}
  BY DEF Faulty
<1>2. what # "in use"
  OBVIOUS
<1> QED BY <1>1, <1>2 DEF NeverInUse

LEMMA ReadSteps ==
  ASSUME IInv, White \/ Plain \/ SkipSpace \/ Bracket \/ If \/ ElseIf \/ Else \/ EndIf \/ Ignored
  PROVE  IInv'
<1>1. ~Exhausted /\ ~AtEnd /\ Advance
  BY DEF White, Plain, SkipSpace, Bracket, If, ElseIf, Else, EndIf, Ignored, Directive, Reading
<1>2. prog' = prog /\ def' = def /\ call' = call
  BY DEF White, Plain, SkipSpace, Bracket, If, ElseIf, Else, EndIf, Ignored
<1>3. Calling' => Calling
  BY DEF White, Plain, SkipSpace, Bracket, If, ElseIf, Else, EndIf, Ignored, Calling, Reading
<1>4. NeverInUse'
  <2>1. NeverInUse
    BY DEF IInv, InUseRight
  <2>2. CASE White \/ Plain \/ SkipSpace \/ Bracket \/ If
    BY <2>1, <2>2 DEF NeverInUse, White, Plain, SkipSpace, Bracket, If
  <2>3. CASE ElseIf \/ Else
    <3>1. Faulty("if", iff.if_hidden = 0 /\ (iff.if_count = 0 \/ iff.if_has_else))
      BY <2>3 DEF ElseIf, Else
    <3> QED BY <2>1, <3>1, OtherFaults
  <2>4. CASE EndIf
    <3>1. Faulty("if", iff.if_hidden = 0 /\ iff.if_count = 0)
      BY <2>4 DEF EndIf
    <3> QED BY <2>1, <3>1, OtherFaults
  <2>5. CASE Ignored
    <3>1. Faulty("unknown", iff.if_false = 0 /\ Next1.op = "unknown")
      BY <2>5 DEF Ignored
    <3> QED BY <2>1, <3>1, OtherFaults
  <2> QED BY <2>2, <2>3, <2>4, <2>5
<1> QED BY <1>1, <1>2, <1>3, <1>4, Reads

(* The end of a macro's value takes its mark away: it has only one level.  *)
LEMMA PopLevelStep ==
  ASSUME IInv, PopLevel
  PROVE  IInv'
<1> DEFINE k == Len(levels)
           top == levels[k]
<1>0. levels \in Seq(Level) /\ levels # <<>>
  BY DEF IInv, Types, PopLevel, Exhausted
<1>1. levels' = SubSeq(levels, 1, k - 1)
  BY DEF PopLevel, Front
<1>2. k \in Nat \ {0} /\ DOMAIN levels = 1 .. k /\ \A i \in 1 .. k : levels[i] \in Level
  BY <1>0
<1>3. levels' \in Seq(Level) /\ Len(levels') = k - 1 /\ \A i \in 1 .. k - 1 : levels'[i] = levels[i]
  <2> HIDE DEF k
  <2>1. \A i \in 1 .. k - 1 : levels[i] \in Level
    BY <1>2
  <2>2. /\ SubSeq(levels, 1, k - 1) \in Seq(Level)
        /\ Len(SubSeq(levels, 1, k - 1)) = IF 1 <= k - 1 THEN k - 1 - 1 + 1 ELSE 0
        /\ \A i \in 1 .. k - 1 - 1 + 1 : SubSeq(levels, 1, k - 1)[i] = levels[1 + i - 1]
    BY <1>2, <2>1, SubSeqProperties
  <2> QED BY <1>1, <1>2, <2>2
<1>4. DOMAIN levels' = 1 .. k - 1
  BY <1>3
<1>t. top \in Level
  BY <1>2
<1> HIDE DEF k, top
<1>5. LevelsClean'
  BY <1>2, <1>3, <1>4 DEF IInv, LevelsClean
<1>6. SomeOwned' => SomeOwned
  BY <1>2, <1>3, <1>4 DEF SomeOwned
<1>7. prog' = prog /\ files' = files /\ call' = call /\ fault' = fault /\ pc' = pc /\ def' = Release(def, top.ref)
  BY DEF PopLevel, Last, top, k
<1>8. def \in [Name -> Macro] /\ top.ref \in Name \cup {""}
  BY <1>t DEF IInv, Types, Level, MacroNames
<1>9. /\ def' \in [Name -> Macro]
      /\ \A n \in Name : /\ def'[n].count = def[n].count /\ def'[n].params = def[n].params
                         /\ def'[n].body = def[n].body
                         /\ def'[n].in_use = (n # top.ref /\ def[n].in_use)
  <2>1. CASE top.ref = ""
    <3>1. def' = def
      BY <1>7, <2>1 DEF Release
    <3>2. \A n \in Name : n # top.ref
      BY <2>1, CppAssumption
    <3> QED BY <1>8, <3>1, <3>2 DEF Macro
  <2>2. CASE top.ref \in Name
    <3>1. top.ref # ""
      BY <2>2, CppAssumption
    <3>2. def' = [def EXCEPT ![top.ref].in_use = FALSE]
      BY <1>7, <3>1 DEF Release
    <3>3. \A n \in Name : def'[n] = IF n = top.ref THEN [def[n] EXCEPT !.in_use = FALSE] ELSE def[n]
      BY <3>2, <1>8
    <3>4. \A n \in Name : [def[n] EXCEPT !.in_use = FALSE] \in Macro
      BY <1>8 DEF Macro
    <3>5. def' \in [Name -> Macro]
      BY <1>8, <3>2, <3>3, <3>4
    <3>6. ASSUME NEW n \in Name
          PROVE /\ def'[n].count = def[n].count /\ def'[n].params = def[n].params
                /\ def'[n].body = def[n].body
                /\ def'[n].in_use = (n # top.ref /\ def[n].in_use)
      <4>1. def[n] \in Macro
        BY <1>8
      <4>2. CASE n = top.ref
        BY <3>3, <4>1, <4>2 DEF Macro
      <4>3. CASE n # top.ref
        BY <3>3, <4>1, <4>3 DEF Macro
      <4> QED BY <4>2, <4>3
    <3> QED BY <3>5, <3>6
  <2> QED BY <2>1, <2>2, <1>8
<1>10. \A n \in Name : References(n)' = IF n = top.ref THEN {} ELSE References(n)
  <2> SUFFICES ASSUME NEW n \in Name PROVE References(n)' = IF n = top.ref THEN {} ELSE References(n)
    OBVIOUS
  <2>1. References(n)' = References(n) \ {k}
    BY <1>2, <1>3, <1>4 DEF References
  <2>2. k \in References(n) <=> n = top.ref
    BY <1>2 DEF References, top
  <2>3. \A i, j \in References(n) : i = j
    BY DEF IInv, InUseRight
  <2> QED BY <2>1, <2>2, <2>3
<1>11. InUseRight'
  <2>1. NeverInUse'
    BY <1>7 DEF IInv, InUseRight, NeverInUse
  <2>2. ASSUME NEW n \in Name
        PROVE  (def'[n].in_use <=> References(n)' # {}) /\ \A i, j \in References(n)' : i = j
    <3>1. (def[n].in_use <=> References(n) # {}) /\ \A i, j \in References(n) : i = j
      BY DEF IInv, InUseRight
    <3>2. def'[n].in_use = (n # top.ref /\ def[n].in_use)
      BY <1>9
    <3>3. References(n)' = IF n = top.ref THEN {} ELSE References(n)
      BY <1>10
    <3> QED BY <3>1, <3>2, <3>3
  <2> QED BY <2>1, <2>2 DEF InUseRight
<1>12. Types' /\ BodiesClean' /\ CallClean'
  <2>1. Types'
    BY <1>3, <1>7, <1>9 DEF IInv, Types, Calling
  <2>2. BodiesClean'
    BY <1>9 DEF IInv, BodiesClean
  <2>3. CallClean'
    BY <1>6, <1>7 DEF IInv, CallClean, Calling
  <2> QED BY <2>1, <2>2, <2>3
<1> QED BY <1>5, <1>11, <1>12 DEF IInv

(* Files, white space and text without macros come and go.                 *)
LEMMA Tokens ==
  /\ NewLine \in Token /\ Space \in Token /\ ~IsDirective(Space)
  /\ NoDirective(<<>>) /\ <<>> \in Seq(Token)
<1>1. NewLine \in Token /\ Space \in Token
  BY TokenAssumption DEF NewLine, Space
<1>2. ~IsDirective(Space)
  BY DEF IsDirective, Space
<1>3. NoDirective(<<>>) /\ <<>> \in Seq(Token)
  BY DEF NoDirective
<1> QED BY <1>1, <1>2, <1>3

LEMMA NewCall ==
  ASSUME NEW name \in MacroNames, NEW args \in Seq(Seq(Token)), NEW empty \in Seq(Token)
  PROVE  [name |-> name, paren |-> 0, commas |-> 0, found |-> FALSE, args |-> args, left |-> empty, text |-> empty] \in Call
BY DEF Call

LEMMA NoCallRight ==
  ASSUME call' = NoCall, ~Calling'
  PROVE  CallRight'
<1>1. NoCall \in Call
  <2>1. "" \in MacroNames /\ <<>> \in Seq(Seq(Token)) /\ <<>> \in Seq(Token)
    BY DEF MacroNames
  <2> QED BY <2>1, NewCall DEF NoCall
<1> QED BY <1>1 DEF CallRight, CallClean

LEMMA PopFileStep ==
  ASSUME IInv, PopFile
  PROVE  IInv'
<1> DEFINE front == SubSeq(files, 1, Len(files) - 1)
           last == Len(files) - 1
<1>1. files \in Seq(Seq(Token)) /\ Len(files) > 1
  BY DEF IInv, Types, PopFile
<1>2. files' = [front EXCEPT ![last] = <<NewLine>> \o @]
  BY DEF PopFile, Front
<1>3. /\ front \in Seq(Seq(Token)) /\ Len(front) = last /\ last \in Nat /\ last > 0
  <2>1. \A i \in 1 .. last : files[i] \in Seq(Token)
    BY <1>1
  <2>2. /\ front \in Seq(Seq(Token))
        /\ Len(front) = IF 1 <= last THEN last - 1 + 1 ELSE 0
    BY <1>1, <2>1, SubSeqProperties
  <2> QED BY <1>1, <2>2
<1> HIDE DEF front, last
<1>4. <<NewLine>> \o front[last] \in Seq(Token)
  BY <1>3, Tokens
<1>5. files' \in Seq(Seq(Token)) /\ Len(files') > 0
  BY <1>2, <1>3, <1>4
<1>6. prog' = prog /\ def' = def /\ call' = call /\ levels' = levels /\ pc' = pc /\ fault' = fault
  BY DEF PopFile
<1>7. CallRight'
  BY <1>6, SameCall, SameLevels DEF Calling
<1>8. NeverInUse'
  BY <1>6 DEF IInv, InUseRight, NeverInUse
<1> QED BY <1>5, <1>6, <1>7, <1>8, SameLevels, Quiet

(* The value of a macro that is not in use is read next, with its mark.    *)
LEMMA ObjectStep ==
  ASSUME IInv, Object
  PROVE  IInv'
<1> DEFINE name == Next1.v
           k == Len(levels)
           level == [text |-> def[name].body, ref |-> name]
<1>1. ~Exhausted /\ ~AtEnd /\ files' = Rest[2] /\ prog' = prog /\ pc' = pc /\ call' = call /\ fault' = fault
  BY DEF Object, Reading
<1>2. name \in Name /\ ~def[name].in_use
  BY DEF Object, Replaceable, Defined
<1>3. NeverInUse'
  BY <1>1 DEF IInv, InUseRight, NeverInUse
<1>4. CASE def[name].body = <<>>
  <2>1. Advance /\ def' = def
    BY <1>1, <1>4 DEF Object, Advance
  <2> QED BY <1>1, <1>3, <2>1, Reads DEF Calling
<1>5. CASE def[name].body # <<>>
  <2>1. levels' = Append(Rest[1], level) /\ def' = Mark(def, name)
    BY <1>5 DEF Object
  <2>2. /\ Rest[1] \in Seq(Level) /\ Len(Rest[1]) = k
        /\ \A i \in DOMAIN levels : Rest[1][i].ref = levels[i].ref
        /\ \A i \in DOMAIN levels : NoDirective(levels[i].text) => NoDirective(Rest[1][i].text)
        /\ files' \in Seq(Seq(Token)) /\ Len(files') = Len(files)
    BY <1>1, RestSound
  <2>3. k \in Nat /\ DOMAIN levels = 1 .. k
    BY DEF IInv, Types
  <2>4. def \in [Name -> Macro] /\ def[name] \in Macro
    BY <1>2 DEF IInv, Types
  <2>5. level \in Level /\ NoDirective(level.text)
    BY <1>2, <2>4 DEF Level, MacroNames, Macro, IInv, BodiesClean
  <2>6. /\ levels' \in Seq(Level) /\ Len(levels') = k + 1 /\ DOMAIN levels' = 1 .. k + 1
        /\ \A i \in 1 .. k : levels'[i] = Rest[1][i]
        /\ levels'[k + 1] = level
    <3> HIDE DEF k, level
    <3> QED BY <2>1, <2>2, <2>3, <2>5, AppendProperties
  <2> HIDE DEF k
  <2>7. LevelsClean'
    <3> SUFFICES ASSUME NEW i \in 1 .. k + 1, Owned(levels'[i]), NEW j \in i .. k + 1
                 PROVE  NoDirective(levels'[j].text)
      BY <2>6 DEF LevelsClean
    <3>1. CASE j = k + 1
      BY <2>5, <2>6, <3>1
    <3>2. CASE j # k + 1
      <4>1. i \in 1 .. k /\ j \in i .. k /\ j \in 1 .. k
        BY <2>3, <3>2
      <4>2. levels'[i].ref = levels[i].ref
        BY <2>2, <2>3, <2>6, <4>1
      <4>3. Owned(levels[i])
        BY <4>2 DEF Owned
      <4>4. NoDirective(levels[j].text)
        BY <2>3, <4>1, <4>3 DEF IInv, LevelsClean
      <4> QED BY <2>2, <2>3, <2>6, <4>1, <4>4
    <3> QED BY <3>1, <3>2
  <2>8. ASSUME NEW n \in Name
        PROVE  References(n)' = References(n) \cup (IF n = name THEN {k + 1} ELSE {})
    <3>1. \A i \in 1 .. k : levels'[i].ref = levels[i].ref
      BY <2>2, <2>3, <2>6
    <3>2. levels'[k + 1].ref = name
      BY <2>6
    <3> HIDE DEF name, level
    <3> QED BY <2>3, <2>6, <3>1, <3>2 DEF References
  <2>9. /\ def' \in [Name -> Macro]
        /\ \A n \in Name : /\ def'[n].count = def[n].count /\ def'[n].params = def[n].params
                           /\ def'[n].body = def[n].body
                           /\ def'[n].in_use = (n = name \/ def[n].in_use)
    <3> HIDE DEF name, level
    <3>1. def' = [def EXCEPT ![name].in_use = TRUE]
      BY <2>1 DEF Mark
    <3>2. \A n \in Name : def'[n] = IF n = name THEN [def[n] EXCEPT !.in_use = TRUE] ELSE def[n]
      BY <2>4, <3>1
    <3>3. \A n \in Name : [def[n] EXCEPT !.in_use = TRUE] \in Macro
      BY <2>4 DEF Macro
    <3>4. def' \in [Name -> Macro]
      BY <2>4, <3>1, <3>2, <3>3
    <3>5. ASSUME NEW n \in Name
          PROVE  /\ def'[n].count = def[n].count /\ def'[n].params = def[n].params
                 /\ def'[n].body = def[n].body
                 /\ def'[n].in_use = (n = name \/ def[n].in_use)
      <4>1. def[n] \in Macro
        BY <2>4
      <4>2. CASE n = name
        BY <3>2, <4>1, <4>2 DEF Macro
      <4>3. CASE n # name
        BY <3>2, <4>1, <4>3 DEF Macro
      <4> QED BY <4>2, <4>3
    <3> QED BY <3>4, <3>5
  <2>10. InUseRight'
    <3> SUFFICES ASSUME NEW n \in Name
                 PROVE  (def'[n].in_use <=> References(n)' # {}) /\ \A i, j \in References(n)' : i = j
      BY <1>3 DEF InUseRight
    <3>1. (def[n].in_use <=> References(n) # {}) /\ \A i, j \in References(n) : i = j
      BY DEF IInv, InUseRight
    <3>2. def'[n].in_use = (n = name \/ def[n].in_use)
      BY <2>9
    <3>3. n = name => References(n) = {}
      BY <1>2, <3>1
    <3> HIDE DEF name
    <3>4. References(n)' = References(n) \cup (IF n = name THEN {k + 1} ELSE {})
      BY <2>8
    <3> QED BY <3>1, <3>2, <3>3, <3>4
  <2>11. ~Calling'
    BY <1>1 DEF Object, Reading, Calling
  <2>12. Types' /\ BodiesClean' /\ CallClean'
    <3>1. Types'
      BY <1>1, <2>2, <2>6, <2>9, <2>11 DEF IInv, Types
    <3>2. BodiesClean'
      BY <2>9 DEF IInv, BodiesClean
    <3> QED BY <2>11, <3>1, <3>2 DEF CallClean
  <2> QED BY <2>7, <2>10, <2>12 DEF IInv
<1> QED BY <1>4, <1>5

(* Without a change of macros or levels only the call has to be right.     *)
LEMMA CallSteps ==
  ASSUME IInv, prog' = prog, def' = def, NeverInUse', CallRight',
         \/ ~Exhausted /\ ~AtEnd /\ Advance
         \/ levels' = levels /\ files' = files
  PROVE  IInv'
<1>1. CASE ~Exhausted /\ ~AtEnd /\ Advance
  <2>1. levels' = Rest[1] /\ files' = Rest[2]
    BY <1>1 DEF Advance
  <2>2. files' \in Seq(Seq(Token)) /\ Len(files') > 0
    BY <1>1, <2>1, RestSound DEF IInv, Types
  <2> QED BY <1>1, <2>1, <2>2, ReadLevels, Quiet
<1>2. CASE levels' = levels /\ files' = files
  <2>1. files' \in Seq(Seq(Token)) /\ Len(files') > 0
    BY <1>2 DEF IInv, Types
  <2> QED BY <1>2, <2>1, SameLevels, Quiet
<1> QED BY <1>1, <1>2

(* A call begins with as many empty arguments as the macro has parameters. *)
LEMMA FunctionStep ==
  ASSUME IInv, Function
  PROVE  IInv'
<1> DEFINE name == Next1.v
           args == [i \in 1 .. def[name].count |-> <<>>]
<1>1. /\ ~Exhausted /\ ~AtEnd /\ Advance /\ prog' = prog /\ def' = def /\ fault' = fault /\ pc' = "paren"
      /\ call' = [NoCall EXCEPT !.name = name, !.args = args]
  BY DEF Function, Reading
<1>2. name \in Name /\ def[name].count >= 0
  BY DEF Function, Replaceable, Defined
<1>3. def[name].count \in Nat
  BY <1>2 DEF IInv, Types, Macro
<1> HIDE DEF name
<1>4. args \in Seq(Seq(Token)) /\ Len(args) = def[name].count /\ \A p \in DOMAIN args : args[p] = <<>>
  <2> DEFINE Text == Seq(Token)
  <2>1. args \in [1 .. def[name].count -> Text]
    BY Tokens
  <2>2. \A p \in 1 .. def[name].count : args[p] = <<>>
    OBVIOUS
  <2> HIDE DEF args, Text
  <2>3. args \in Seq(Text) /\ Len(args) = def[name].count /\ DOMAIN args = 1 .. def[name].count
    BY <1>3, <2>1
  <2> QED BY <2>2, <2>3 DEF Text
<1> HIDE DEF args
<1>5. call' = [name |-> name, paren |-> 0, commas |-> 0, found |-> FALSE, args |-> args, left |-> <<>>, text |-> <<>>]
  BY <1>1 DEF NoCall
<1>6. call' \in Call
  BY <1>2, <1>4, <1>5, Tokens, NewCall DEF MacroNames
<1>7. call'.name = name /\ call'.args = args /\ call'.left = <<>> /\ call'.text = <<>>
  BY <1>5
<1>8. CallRight'
  <2>1. CallClean'
    BY <1>4, <1>7, Tokens DEF CallClean
  <2> QED BY <1>1, <1>2, <1>4, <1>6, <1>7, <2>1 DEF CallRight
<1>9. NeverInUse'
  BY <1>1 DEF IInv, InUseRight, NeverInUse
<1> QED BY <1>1, <1>8, <1>9, CallSteps

LEMMA NoBracketStep ==
  ASSUME IInv, NoBracket
  PROVE  IInv'
<1>1. prog' = prog /\ def' = def /\ fault' = fault /\ levels' = levels /\ files' = files /\ call' = NoCall /\ pc' = "text"
  BY DEF NoBracket
<1>2. ~Calling'
  BY <1>1 DEF Calling
<1>3. NeverInUse'
  BY <1>1 DEF IInv, InUseRight, NeverInUse
<1> QED BY <1>1, <1>2, <1>3, NoCallRight, CallSteps

(* What is read into an argument is no directive while a value is read.    *)
LEMMA ArgumentStep ==
  ASSUME IInv, Argument
  PROVE  IInv'
<1> DEFINE commas == call.commas + (IF Parts(Next1) THEN 1 ELSE 0)
           place == SmallerOf(commas + 1, Count)
           paren == CASE Next1.k = "(" -> call.paren + 1 [] Next1.k = ")" -> call.paren - 1 [] OTHER -> call.paren
           args == Longer(call.args, place)
<1>1. /\ ~Exhausted /\ ~AtEnd /\ Advance /\ prog' = prog /\ def' = def /\ fault' = fault
      /\ pc = "args" /\ pc' = "args"
      /\ \/ call' = [call EXCEPT !.commas = commas]
         \/ call' = [call EXCEPT !.paren = paren, !.commas = commas, !.found = TRUE, !.args = args]
  <2>1. call' = IF Parts(Next1) /\ commas < Count THEN [call EXCEPT !.commas = commas]
                ELSE [call EXCEPT !.paren = paren, !.commas = commas, !.found = TRUE, !.args = args]
    BY Zenon DEF Argument
  <2> HIDE DEF commas, paren, args
  <2>2. ~Exhausted /\ ~AtEnd /\ Advance /\ prog' = prog /\ def' = def /\ fault' = fault /\ pc = "args" /\ pc' = "args"
    BY DEF Argument, Reading
  <2> QED BY <2>1, <2>2
<1>2. /\ call \in Call /\ call.name \in Name /\ Len(call.args) = def[call.name].count
      /\ NoDirective(call.left)
      /\ SomeOwned => NoDirective(call.text) /\ \A p \in DOMAIN call.args : NoDirective(call.args[p])
  BY <1>1 DEF IInv, Types, CallClean, Calling
<1>3. Next1 \in Token
  BY <1>1, RestSound
<1>4. call.args \in Seq(Seq(Token)) /\ call.commas \in Nat /\ call.paren \in Int
  BY <1>2 DEF Call
<1>5. commas \in Nat /\ paren \in Int
  BY <1>4
<1> HIDE DEF commas, paren
<1>6. Count \in Nat /\ (Count # 0 => place \in 1 .. Count) /\ DOMAIN call.args = 1 .. Count
  BY <1>4, <1>5 DEF Count, SmallerOf
<1> HIDE DEF place
<1>7. /\ args \in Seq(Seq(Token)) /\ Len(args) = Len(call.args)
      /\ \A p \in DOMAIN args : p \in DOMAIN call.args /\ (args[p] = call.args[p] \/ args[p] = Append(call.args[p], Next1))
  <2>1. CASE Count = 0
    BY <1>4, <2>1 DEF Longer
  <2>2. CASE Count # 0
    <3>1. call.args[place] \in Seq(Token)
      BY <1>4, <1>6, <2>2
    <3>2. Append(call.args[place], Next1) \in Seq(Token)
      BY <1>3, <3>1
    <3> QED BY <1>4, <1>6, <2>2, <3>2 DEF Longer
  <2> QED BY <2>1, <2>2
<1> HIDE DEF args
<1>8. /\ call' \in Call /\ call'.name = call.name /\ call'.left = call.left /\ call'.text = call.text
      /\ call'.args = call.args \/ call'.args = args
  <2>1. CASE call' = [call EXCEPT !.commas = commas]
    BY <1>2, <1>5, <2>1 DEF Call
  <2>2. CASE call' = [call EXCEPT !.paren = paren, !.commas = commas, !.found = TRUE, !.args = args]
    BY <1>2, <1>5, <1>7, <2>2 DEF Call
  <2> QED BY <1>1, <2>1, <2>2
<1>9. SomeOwned' => SomeOwned
  BY <1>1, ReadLevels DEF Advance
<1>10. ASSUME SomeOwned
       PROVE  \A p \in DOMAIN args : NoDirective(args[p])
  <2>1. ~IsDirective(Next1)
    BY <1>1, <1>10, NextClean
  <2> SUFFICES ASSUME NEW p \in DOMAIN args PROVE NoDirective(args[p])
    OBVIOUS
  <2>2. NoDirective(call.args[p]) /\ call.args[p] \in Seq(Token)
    BY <1>2, <1>4, <1>7, <1>10
  <2>3. NoDirective(Append(call.args[p], Next1))
    BY <1>3, <2>1, <2>2, AppendProperties DEF NoDirective
  <2> QED BY <1>7, <2>2, <2>3
<1>11. CallRight'
  <2>1. CallClean'
    BY <1>2, <1>8, <1>9, <1>10 DEF CallClean
  <2> QED BY <1>1, <1>2, <1>7, <1>8, <2>1 DEF CallRight
<1>12. NeverInUse'
  BY <1>1 DEF IInv, InUseRight, NeverInUse
<1> QED BY <1>1, <1>11, <1>12, CallSteps

LEMMA CalledSteps ==
  ASSUME IInv, Called \/ CalledAtEnd
  PROVE  IInv'
<1>1. /\ prog' = prog /\ def' = def /\ pc = "args" /\ pc' = "insert"
      /\ call' = [call EXCEPT !.left = def[call.name].body]
      /\ Faulty("arguments", Count = 0 /\ (call.found \/ call.commas > 0))
  BY DEF Called, CalledAtEnd, Reading
<1>2. \/ ~Exhausted /\ ~AtEnd /\ Advance
      \/ levels' = levels /\ files' = files
  BY DEF Called, CalledAtEnd, Reading
<1>3. SomeOwned' => SomeOwned
  BY <1>2, ReadLevels, SameLevels DEF Advance
<1>4. /\ call \in Call /\ call.name \in Name /\ Len(call.args) = def[call.name].count
      /\ SomeOwned => NoDirective(call.text) /\ \A p \in DOMAIN call.args : NoDirective(call.args[p])
  BY <1>1 DEF IInv, Types, CallClean, Calling
<1>5. def[call.name].body \in Seq(Token) /\ NoDirective(def[call.name].body)
  BY <1>4 DEF IInv, Types, Macro, BodiesClean
<1>6. /\ call' \in Call /\ call'.name = call.name /\ call'.args = call.args /\ call'.text = call.text
      /\ NoDirective(call'.left)
  BY <1>1, <1>4, <1>5 DEF Call
<1>7. CallRight'
  BY <1>1, <1>3, <1>4, <1>6 DEF CallRight, CallClean
<1>8. NeverInUse'
  BY <1>1, OtherFaults DEF IInv, InUseRight
<1> QED BY <1>1, <1>2, <1>7, <1>8, CallSteps

(* Some parameter of those with the name of a token is the first.          *)
LEMMA FirstFound ==
  ASSUME NEW s \in SUBSET Nat, s # {}
  PROVE  First(s) \in s
<1> DEFINE Less == {ss \in Nat \X Nat : ss[1] < ss[2]}
<1>1. IsWellFoundedOn(Less, Nat)
  BY NatLessThanWellFounded DEF OpToRel
<1>2. PICK i \in s : \A j \in s : ~(<<j, i>> \in Less)
  <2> HIDE DEF Less
  <2> QED BY <1>1, WFMin
<1>3. ASSUME NEW j \in s PROVE i <= j
  <2>1. ~(<<j, i>> \in Less)
    BY <1>2
  <2>2. <<j, i>>[1] = j /\ <<j, i>>[2] = i /\ <<j, i>> \in Nat \X Nat
    OBVIOUS
  <2>3. ~(j < i)
    BY <2>1, <2>2, Zenon
  <2> QED BY <2>3
<1> QED BY <1>3 DEF First

LEMMA InsertStep ==
  ASSUME IInv, Insert
  PROVE  IInv'
<1> DEFINE t == Head(call.left)
           piece == IF Parameters(t) = {} THEN <<t>> ELSE call.args[First(Parameters(t))]
<1>1. /\ prog' = prog /\ def' = def /\ pc = "insert" /\ pc' = "insert" /\ levels' = levels /\ files' = files
      /\ fault' = fault /\ call.left # <<>>
      /\ call' = [call EXCEPT !.left = Tail(call.left), !.text = call.text \o piece]
  BY DEF Insert
<1>2. /\ call \in Call /\ call.name \in Name /\ Len(call.args) = def[call.name].count
      /\ NoDirective(call.left)
      /\ SomeOwned => NoDirective(call.text) /\ \A p \in DOMAIN call.args : NoDirective(call.args[p])
  BY <1>1 DEF IInv, Types, CallClean, Calling
<1>3. call.left \in Seq(Token) /\ call.text \in Seq(Token) /\ call.args \in Seq(Seq(Token))
  BY <1>2 DEF Call
<1>4. /\ t \in Token /\ ~IsDirective(t) /\ Tail(call.left) \in Seq(Token) /\ NoDirective(Tail(call.left))
  <2>1. /\ t = call.left[1] /\ 1 \in DOMAIN call.left /\ t \in Token
        /\ Tail(call.left) \in Seq(Token) /\ Len(Tail(call.left)) = Len(call.left) - 1
        /\ \A i \in 1 .. Len(call.left) - 1 : Tail(call.left)[i] = call.left[i + 1]
    BY <1>1, <1>3
  <2>2. ~IsDirective(call.left[1])
    BY <1>2, <2>1 DEF NoDirective
  <2> QED BY <1>2, <1>3, <2>1, <2>2 DEF NoDirective
<1> HIDE DEF t
<1>5. piece \in Seq(Token) /\ (SomeOwned => NoDirective(piece))
  <2>1. CASE Parameters(t) = {}
    <3>1. piece = <<t>>
      BY <2>1
    <3> HIDE DEF piece
    <3> QED BY <1>4, <3>1 DEF NoDirective
  <2>2. CASE Parameters(t) # {}
    <3>1. DOMAIN def[call.name].params = DOMAIN call.args /\ DOMAIN call.args = 1 .. Len(call.args)
      BY <1>2, <1>3 DEF IInv, Types
    <3>2. Parameters(t) \in SUBSET DOMAIN call.args
      BY <3>1 DEF Parameters
    <3>3. First(Parameters(t)) \in DOMAIN call.args
      BY <2>2, <3>1, <3>2, FirstFound
    <3>4. piece = call.args[First(Parameters(t))]
      BY <2>2
    <3> HIDE DEF piece
    <3> QED BY <1>2, <1>3, <3>3, <3>4
  <2> QED BY <2>1, <2>2
<1> HIDE DEF piece
<1>6. call.text \o piece \in Seq(Token) /\ (SomeOwned => NoDirective(call.text \o piece))
  BY <1>2, <1>3, <1>5, ConcatProperties DEF NoDirective
<1>7. /\ call' \in Call /\ call'.name = call.name /\ call'.args = call.args
      /\ call'.left = Tail(call.left) /\ call'.text = call.text \o piece
  BY <1>1, <1>2, <1>4, <1>6 DEF Call
<1>8. SomeOwned' <=> SomeOwned
  BY <1>1, SameLevels
<1>9. CallRight'
  BY <1>1, <1>2, <1>4, <1>6, <1>7, <1>8 DEF CallRight, CallClean
<1>10. NeverInUse'
  BY <1>1 DEF IInv, InUseRight, NeverInUse
<1> QED BY <1>1, <1>9, <1>10, CallSteps

(* What a call comes to is read next, but is the value of no macro.        *)
LEMMA InsertedStep ==
  ASSUME IInv, Inserted
  PROVE  IInv'
<1> DEFINE k == Len(levels)
           level == [text |-> call.text, ref |-> ""]
<1>1. /\ prog' = prog /\ def' = def /\ pc = "insert" /\ pc' = "text" /\ files' = files /\ fault' = fault
      /\ call' = NoCall /\ levels' = Append(levels, level)
  BY DEF Inserted
<1>2. ~Calling'
  BY <1>1 DEF Calling
<1>3. call \in Call /\ (SomeOwned => NoDirective(call.text))
  BY <1>1 DEF IInv, Types, CallClean, Calling
<1>ref. level.text = call.text /\ level.ref = ""
  OBVIOUS
<1>4. level \in Level
  BY <1>3 DEF Level, Call, MacroNames
<1>5. levels \in Seq(Level) /\ k \in Nat /\ DOMAIN levels = 1 .. k
  BY DEF IInv, Types
<1>6. /\ levels' \in Seq(Level) /\ Len(levels') = k + 1 /\ DOMAIN levels' = 1 .. k + 1
      /\ \A i \in 1 .. k : levels'[i] = levels[i]
      /\ levels'[k + 1] = level
  <2> HIDE DEF k, level
  <2> QED BY <1>1, <1>4, <1>5, AppendProperties DEF k
<1> HIDE DEF k, level
<1>7. ~Owned(level)
  BY <1>ref DEF Owned
<1>8. LevelsClean'
  <2> SUFFICES ASSUME NEW i \in 1 .. k + 1, Owned(levels'[i]), NEW j \in i .. k + 1
               PROVE  NoDirective(levels'[j].text)
    BY <1>6 DEF LevelsClean
  <2>1. i \in 1 .. k /\ Owned(levels[i])
    BY <1>5, <1>6, <1>7
  <2>2. CASE j = k + 1
    <3>1. SomeOwned
      BY <1>5, <2>1 DEF SomeOwned
    <3> QED BY <1>3, <1>ref, <1>6, <2>2, <3>1
  <2>3. CASE j # k + 1
    <3>1. j \in i .. k /\ j \in 1 .. k
      BY <1>5, <2>1, <2>3
    <3>2. NoDirective(levels[j].text)
      BY <1>5, <2>1, <3>1 DEF IInv, LevelsClean
    <3> QED BY <1>6, <3>1, <3>2
  <2> QED BY <2>2, <2>3
<1>9. \A n \in Name : References(n)' = References(n)
  <2> SUFFICES ASSUME NEW n \in Name PROVE References(n)' = References(n)
    OBVIOUS
  <2>1. level.ref # n
    BY <1>ref, CppAssumption
  <2> QED BY <1>5, <1>6, <2>1 DEF References
<1>10. NeverInUse'
  BY <1>1 DEF IInv, InUseRight, NeverInUse
<1>11. CallRight'
  BY <1>1, <1>2, NoCallRight
<1>12. files' \in Seq(Seq(Token)) /\ Len(files') > 0
  BY <1>1 DEF IInv, Types
<1> QED BY <1>1, <1>6, <1>8, <1>9, <1>10, <1>11, <1>12, Quiet

(* Directives that change macros or open files: what is in their line.     *)
LEMMA DirectiveSound ==
  ASSUME NEW t \in Token, IsDirective(t)
  PROVE  /\ t.op \in {"define", "undef"} => t.name \in Name
         /\ t.op = "include" => t.name \in File
         /\ t.op = "define" =>
              /\ t.count \in Int /\ t.params \in Seq(STRING) /\ DOMAIN t.params = 1 .. t.count
              /\ t.body \in Seq(Token) /\ NoDirective(t.body)
BY TokenAssumption, Zenon DEF IsDirective, NoDirective

LEMMA IncludeStep ==
  ASSUME IInv, Include
  PROVE  IInv'
<1>1. /\ ~Exhausted /\ ~AtEnd /\ prog' = prog /\ def' = def /\ call' = call /\ pc' = pc /\ levels' = Rest[1]
      /\ IsDirective(Next1) /\ Next1.op = "include"
  BY DEF Include, Directive, Reading, IsDirective
<1>2. Next1 \in Token /\ Rest[2] \in Seq(Seq(Token)) /\ Len(Rest[2]) = Len(files)
  BY <1>1, RestSound
<1>3. prog \in [File -> Seq(Token)] /\ Len(files) > 0
  BY DEF IInv, Types
<1>4. prog[Next1.name] \in Seq(Token)
  <2>1. Next1.name \in File
    BY <1>1, <1>2, DirectiveSound
  <2> QED BY <1>3, <2>1
<1>5. files' = Rest[2] \/ files' = Append(Rest[2], prog[Next1.name])
  BY DEF Include
<1>6. files' \in Seq(Seq(Token)) /\ Len(files') > 0
  <2> DEFINE Text == Seq(Token)
             rest == Rest[2]
             new == prog[Next1.name]
  <2>1. rest \in Seq(Text) /\ Len(rest) > 0 /\ new \in Text /\ (files' = rest \/ files' = Append(rest, new))
    BY <1>2, <1>3, <1>4, <1>5
  <2> HIDE DEF Text, rest, new
  <2>2. files' \in Seq(Text) /\ Len(files') > 0
    BY <2>1
  <2> QED BY <2>2 DEF Text
<1>7. NeverInUse'
  <2>1. fault' = fault \/ Faulty("include", TRUE)
    BY DEF Include
  <2>2. NeverInUse
    BY DEF IInv, InUseRight
  <2>3. CASE fault' = fault
    BY <2>2, <2>3 DEF NeverInUse
  <2>4. CASE Faulty("include", TRUE)
    BY <2>2, <2>4, OtherFaults
  <2> QED BY <2>1, <2>3, <2>4
<1>8. CallRight'
  BY <1>1, ReadLevels, SameCall DEF Calling
<1> QED BY <1>1, <1>6, <1>7, <1>8, ReadLevels, Quiet

(* A directive is read outside all values, where no macro is in use.       *)
LEMMA ChangeSteps ==
  ASSUME IInv, Define \/ Undef
  PROVE  IInv'
<1> DEFINE name == Next1.name
           macro == [count |-> Next1.count, params |-> Next1.params, in_use |-> FALSE,
                     body |-> IF Next1.body = <<>> /\ Next1.count <= 0 THEN <<>> ELSE Append(Next1.body, Space)]
<1>1. /\ ~Exhausted /\ ~AtEnd /\ prog' = prog /\ call' = call /\ pc = "text" /\ pc' = "text" /\ Advance
      /\ IsDirective(Next1) /\ Next1.op \in {"define", "undef"}
      /\ Change(name)
      /\ \/ Next1.op = "define" /\ def' = [def EXCEPT ![name] = macro]
         \/ def' = [def EXCEPT ![name] = NoMacro]
  BY DEF Define, Undef, Directive, Reading, IsDirective
<1>2. Next1 \in Token /\ name \in Name
  BY <1>1, RestSound, DirectiveSound
<1>3. ~SomeOwned
  BY <1>1, NextClean
<1>4. \A n \in Name : References(n) = {} /\ ~def[n].in_use
  <2> SUFFICES ASSUME NEW n \in Name PROVE References(n) = {} /\ ~def[n].in_use
    OBVIOUS
  <2>1. n # ""
    BY CppAssumption
  <2>2. References(n) = {}
    BY <1>3, <2>1 DEF References, SomeOwned, Owned
  <2> QED BY <2>2 DEF IInv, InUseRight
<1>5. fault' = fault
  <2>1. ~InUse(name)
    BY <1>2, <1>4 DEF InUse
  <2> QED BY <1>1, <2>1 DEF Change, Faulty
<1>6. NeverInUse'
  BY <1>5 DEF IInv, InUseRight, NeverInUse
<1>7. /\ NoMacro \in Macro /\ DOMAIN NoMacro.params = 1 .. NoMacro.count
      /\ NoDirective(NoMacro.body) /\ ~NoMacro.in_use
  BY Tokens DEF NoMacro, Macro
<1>8. Next1.op = "define" =>
          /\ macro \in Macro /\ DOMAIN macro.params = 1 .. macro.count /\ NoDirective(macro.body) /\ ~macro.in_use
  <2> SUFFICES ASSUME Next1.op = "define"
               PROVE  macro \in Macro /\ DOMAIN macro.params = 1 .. macro.count /\ NoDirective(macro.body) /\ ~macro.in_use
    OBVIOUS
  <2>1. /\ Next1.count \in Int /\ Next1.params \in Seq(STRING) /\ DOMAIN Next1.params = 1 .. Next1.count
        /\ Next1.body \in Seq(Token) /\ NoDirective(Next1.body)
    BY <1>1, <1>2, DirectiveSound
  <2>2. Append(Next1.body, Space) \in Seq(Token) /\ NoDirective(Append(Next1.body, Space))
    BY <2>1, Tokens, AppendProperties DEF NoDirective
  <2>3. macro.body \in Seq(Token) /\ NoDirective(macro.body)
    BY <2>2, Tokens
  <2>4. macro \in Macro
    BY <2>1, <2>3 DEF Macro
  <2> QED BY <2>1, <2>3, <2>4
<1> HIDE DEF name, macro
<1>9. def \in [Name -> Macro] /\ \A n \in Name : DOMAIN def[n].params = 1 .. def[n].count /\ NoDirective(def[n].body)
  BY DEF IInv, Types, BodiesClean
<1>10. PICK new : /\ new \in Macro /\ DOMAIN new.params = 1 .. new.count /\ NoDirective(new.body) /\ ~new.in_use
                  /\ def' = [def EXCEPT ![name] = new]
  BY <1>1, <1>7, <1>8
<1>11. def' \in [Name -> Macro] /\ \A n \in Name : def'[n] = IF n = name THEN new ELSE def[n]
  BY <1>2, <1>9, <1>10
<1>12. \A n \in Name : DOMAIN def'[n].params = 1 .. def'[n].count /\ NoDirective(def'[n].body) /\ ~def'[n].in_use
  BY <1>4, <1>9, <1>10, <1>11
<1>13. /\ levels' \in Seq(Level) /\ LevelsClean' /\ \A n \in Name : References(n)' = References(n)
       /\ files' \in Seq(Seq(Token)) /\ Len(files') > 0
  BY <1>1, RestSound, ReadLevels DEF Advance, IInv, Types
<1>14. ~Calling'
  BY <1>1 DEF Calling
<1>15. Types' /\ BodiesClean' /\ CallClean'
  BY <1>1, <1>11, <1>12, <1>13, <1>14 DEF IInv, Types, BodiesClean, CallClean
<1>16. InUseRight'
  BY <1>4, <1>6, <1>12, <1>13 DEF InUseRight
<1> QED BY <1>13, <1>15, <1>16 DEF IInv

-----------------------------------------------------------------------------
LEMMA InitInv == Init => IInv
<1> SUFFICES ASSUME Init PROVE IInv
  OBVIOUS
<1>1. /\ pc = "text" /\ files = <<prog[Main]>> /\ levels = <<>> /\ call = NoCall /\ fault = {}
      /\ def = [n \in Name |-> NoMacro]
  BY DEF Init
<1>2. prog \in [File -> Seq(Token)]
  BY CppAssumption DEF Init
<1>3. prog[Main] \in Seq(Token)
  BY <1>2, CppAssumption
<1>4. files \in Seq(Seq(Token)) /\ Len(files) > 0 /\ levels \in Seq(Level)
  BY <1>1, <1>3
<1>5. NoMacro \in Macro /\ DOMAIN NoMacro.params = 1 .. NoMacro.count /\ NoDirective(NoMacro.body) /\ ~NoMacro.in_use
  BY Tokens DEF NoMacro, Macro
<1>6. NoCall \in Call
  <2>1. "" \in MacroNames /\ <<>> \in Seq(Seq(Token)) /\ <<>> \in Seq(Token)
    BY DEF MacroNames
  <2> QED BY <2>1, NewCall DEF NoCall
<1>7. ~Calling
  BY <1>1 DEF Calling
<1>8. Types
  BY <1>1, <1>2, <1>4, <1>5, <1>6, <1>7 DEF Types
<1>9. LevelsClean /\ \A n \in Name : References(n) = {}
  BY <1>1 DEF LevelsClean, References
<1>10. InUseRight
  BY <1>1, <1>5, <1>9 DEF InUseRight, NeverInUse
<1> QED BY <1>1, <1>5, <1>7, <1>8, <1>9, <1>10 DEF IInv, BodiesClean, CallClean

LEMMA SameVars ==
  ASSUME IInv, prog' = prog, def' = def, fault' = fault, call' = call, levels' = levels, files' = files,
         Calling' => Calling
  PROVE  IInv'
<1>1. NeverInUse'
  BY DEF IInv, InUseRight, NeverInUse
<1>2. CallRight'
  BY SameLevels, SameCall
<1> QED BY <1>1, <1>2, CallSteps

LEMMA NextInv == IInv /\ [Next]_vars => IInv'
<1> SUFFICES ASSUME IInv, [Next]_vars PROVE IInv'
  OBVIOUS
<1>1. CASE White \/ Plain \/ SkipSpace \/ Bracket \/ If \/ ElseIf \/ Else \/ EndIf \/ Ignored
  BY <1>1, ReadSteps
<1>2. CASE PopLevel
  BY <1>2, PopLevelStep
<1>3. CASE PopFile
  BY <1>3, PopFileStep
<1>4. CASE Object
  BY <1>4, ObjectStep
<1>5. CASE Function
  BY <1>5, FunctionStep
<1>6. CASE NoBracket
  BY <1>6, NoBracketStep
<1>7. CASE Argument
  BY <1>7, ArgumentStep
<1>8. CASE Called \/ CalledAtEnd
  BY <1>8, CalledSteps
<1>9. CASE Insert
  BY <1>9, InsertStep
<1>10. CASE Inserted
  BY <1>10, InsertedStep
<1>11. CASE Define \/ Undef
  BY <1>11, ChangeSteps
<1>12. CASE Include
  BY <1>12, IncludeStep
<1>13. CASE Done
  <2>1. /\ prog' = prog /\ def' = def /\ fault' = fault /\ call' = call /\ levels' = levels /\ files' = files
        /\ pc' = "done"
    BY <1>13 DEF Done
  <2> QED BY <2>1, SameVars DEF Calling
<1>14. CASE UNCHANGED vars
  <2>1. /\ prog' = prog /\ def' = def /\ fault' = fault /\ call' = call /\ levels' = levels /\ files' = files
        /\ pc' = pc
    BY <1>14 DEF vars
  <2> QED BY <2>1, SameVars DEF Calling
<1> QED BY <1>1, <1>2, <1>3, <1>4, <1>5, <1>6, <1>7, <1>8, <1>9, <1>10, <1>11, <1>12, <1>13, <1>14 DEF Next

(* A macro is marked as in use exactly while its value is read, in one     *)
(* place, and no #define or #undef ever meets one that is: the case that   *)
(* do_proc_define and do_proc_undef warn of cannot happen (cpp.c), for any *)
(* text, any macros and any limits.                                        *)
THEOREM CppInUse == Spec => []InUseRight
<1>1. IInv => InUseRight
  BY DEF IInv
<1> QED BY <1>1, InitInv, NextInv, PTL DEF Spec

-----------------------------------------------------------------------------
(* Conditionals.  The counters, the bits and the frames agree: what is     *)
(* hidden are the innermost frames, all around the innermost one that      *)
(* counts take text, if_false is 1 exactly where no branch was true yet    *)
(* (an #else once passed says nothing more), and the bits that are left of *)
(* if_stack are those of the frames just outside.                          *)
IffType == [if_count : Nat, if_false : 0 .. 3, if_has_else : BOOLEAN, if_hidden : Nat, if_stack : Seq(BOOLEAN)]
FrameType == {f \in [taken : BOOLEAN, now : BOOLEAN, has_else : BOOLEAN] : f.now => f.taken}
MetType == [good : BOOLEAN, deep : BOOLEAN, open : Seq(FrameType)]

Had(s, k) == k > 0 /\ s.open[k].has_else
Nesting(d, i, s) ==
    /\ Len(s.open) = d + i.if_hidden
    /\ \A k \in 1 .. d : k # d => s.open[k].now
    /\ i.if_hidden > 0 => i.if_false # 0
    /\ d = 0 => i.if_false = 0
    /\ d > 0 => i.if_false = 0 <=> s.open[d].now
    /\ d > 0 => s.open[d].has_else \/ (i.if_false = 1 <=> ~s.open[d].taken)
Elses(d, i, s) ==
    /\ i.if_has_else => Had(s, d)
    /\ s.deep \/ (Had(s, d) => i.if_has_else)
Bits(d, bits, s) ==
    /\ Len(bits) <= d /\ Len(bits) <= IFBITS
    /\ s.deep \/ Len(bits) >= d - 1
    /\ \A j \in 1 .. Len(bits) : bits[j] => Had(s, d - Len(bits) + j - 1)
    /\ s.deep \/ \A j \in 1 .. Len(bits) : Had(s, d - Len(bits) + j - 1) => bits[j]
Agrees(i, s) == Nesting(i.if_count, i, s) /\ Elses(i.if_count, i, s) /\ Bits(i.if_count, i.if_stack, s)

CInv ==
    /\ iff \in IffType /\ met \in MetType
    /\ "if" \in fault => ~met.good
    /\ ~met.good => "if" \in fault \/ met.deep
    /\ met.good => Agrees(iff, met)

(* What the flags say of the frames.                                       *)
LEMMA AgreesSays ==
  ASSUME NEW i \in IffType, NEW s \in MetType, Agrees(i, s)
  PROVE  /\ i.if_false = 0 <=> Takes(s)
         /\ Skips(s) <=> i.if_hidden > 0
         /\ i.if_hidden > 0 => i.if_count > 0
         /\ s.open # <<>> <=> i.if_count > 0
<1> DEFINE d == i.if_count
           o == s.open
<1>1. /\ d \in Nat /\ i.if_hidden \in Nat /\ i.if_false \in 0 .. 3
      /\ o \in Seq(FrameType)
  BY DEF IffType, MetType
<1>2. Nesting(d, i, s)
  BY DEF Agrees
<1>3. /\ Len(o) = d + i.if_hidden
      /\ \A k \in 1 .. d : k # d => o[k].now
      /\ i.if_hidden > 0 => i.if_false # 0
      /\ d = 0 => i.if_false = 0
      /\ d > 0 => (i.if_false = 0 <=> o[d].now)
  BY <1>2 DEF Nesting
<1>4. Takes(s) = (\A k \in DOMAIN o : o[k].now) /\ Skips(s) = (\E k \in DOMAIN o : k # Len(o) /\ ~o[k].now)
  BY DEF Takes, Skips
<1>5. DOMAIN o = 1 .. Len(o)
  BY <1>1
<1>6. o # <<>> <=> Len(o) > 0
  BY <1>1
<1> HIDE DEF d, o
<1>7. CASE i.if_hidden > 0
  <2>1. d > 0 /\ i.if_false # 0 /\ d \in DOMAIN o /\ d # Len(o)
    BY <1>1, <1>3, <1>5, <1>7
  <2>2. ~o[d].now
    BY <2>1, <1>3
  <2>3. ~Takes(s) /\ Skips(s)
    BY <2>1, <2>2, <1>4
  <2>4. Len(o) > 0
    BY <2>1, <1>1, <1>3
  <2> QED BY <2>1, <2>3, <2>4, <1>6, <1>7 DEF d, o
<1>8. CASE i.if_hidden = 0
  <2>1. Len(o) = d /\ DOMAIN o = 1 .. d
    BY <1>1, <1>3, <1>5, <1>8
  <2>2. ~Skips(s)
    BY <2>1, <1>3, <1>4
  <2>3. i.if_false = 0 <=> Takes(s)
    <3>1. CASE d = 0
      BY <3>1, <2>1, <1>3, <1>4
    <3>2. CASE d > 0
      <4>1. d \in 1 .. d
        BY <1>1, <3>2
      <4> QED BY <4>1, <3>2, <2>1, <1>3, <1>4
    <3> QED BY <1>1, <3>1, <3>2
  <2> QED BY <2>1, <2>2, <2>3, <1>6, <1>8, <1>1 DEF d, o
<1> QED BY <1>1, <1>7, <1>8

(* Agreement depends on the frames that count only.                        *)
LEMMA SameFrames ==
  ASSUME NEW i \in IffType, NEW s \in MetType, Agrees(i, s),
         NEW j \in IffType, NEW t \in MetType,
         j.if_count = i.if_count, j.if_false = i.if_false, j.if_has_else = i.if_has_else,
         j.if_stack = i.if_stack, t.deep = s.deep,
         Len(t.open) = j.if_count + j.if_hidden, j.if_hidden > 0 => j.if_false # 0,
         \A k \in 1 .. i.if_count : t.open[k] = s.open[k]
  PROVE  Agrees(j, t)
<1> DEFINE d == i.if_count
<1>1. d \in Nat /\ i.if_stack \in Seq(BOOLEAN)
  BY DEF IffType
<1>2. Nesting(d, i, s) /\ Elses(d, i, s) /\ Bits(d, i.if_stack, s)
  BY DEF Agrees
<1>3. \A k \in 1 .. d : Had(t, k) = Had(s, k)
  BY DEF Had
<1>4. \A k \in Int : k <= d => Had(t, k) = Had(s, k)
  BY <1>1, <1>3 DEF Had
<1>5. d > 0 => t.open[d] = s.open[d]
  BY <1>1
<1> HIDE DEF d
<1>6. Nesting(d, j, t)
  BY <1>1, <1>2, <1>5 DEF Nesting, d
<1>7. Elses(d, j, t)
  BY <1>1, <1>2, <1>4 DEF Elses
<1>8. Bits(d, j.if_stack, t)
  <2> DEFINE m == Len(i.if_stack)
  <2>0. m \in Nat
    BY <1>1, LenProperties
  <2> HIDE DEF m
  <2>1. \A k \in 1 .. m : d - m + k - 1 \in Int /\ d - m + k - 1 <= d
    BY <1>1, <2>0
  <2> USE DEF m
  <2> QED BY <1>1, <1>2, <1>4, <2>1 DEF Bits
<1> QED BY <1>6, <1>7, <1>8 DEF Agrees, d

(* #if in text that is skipped is one more to hide.                        *)
LEMMA HideAgrees ==
  ASSUME NEW i \in IffType, NEW s \in MetType, Agrees(i, s), s.good, i.if_false # 0,
         NEW op, Opens(op), NEW v \in BOOLEAN
  PROVE  /\ Hide(i) \in IffType /\ Meet(s, op, v) \in MetType /\ Meet(s, op, v).good
         /\ Meet(s, op, v).deep = s.deep /\ Agrees(Hide(i), Meet(s, op, v))
<1> DEFINE j == Hide(i)
           t == Meet(s, op, v)
<1>1. j \in IffType /\ j = [i EXCEPT !.if_hidden = @ + 1]
  BY DEF IffType, Hide
<1>2. ~Takes(s)
  BY AgreesSays
<1>3. s.deep \in BOOLEAN /\ s.open \in Seq(FrameType) /\ s.good \in BOOLEAN
  BY DEF MetType
<1>4. t = [s EXCEPT !.open = Append(@, Frame(v)), !.deep = s.deep \/ (Takes(s) /\ Len(s.open) > IFBITS)]
  BY DEF Meet, InPlace, Opens
<1>5. Frame(v) \in FrameType
  BY DEF Frame, FrameType
<1>6. t.open = Append(s.open, Frame(v)) /\ t.deep = s.deep /\ t.good /\ t \in MetType
  <2>1. t = [s EXCEPT !.open = Append(@, Frame(v)), !.deep = s.deep]
    BY <1>2, <1>3, <1>4
  <2> HIDE DEF t
  <2>2. Append(s.open, Frame(v)) \in Seq(FrameType)
    BY <1>3, <1>5
  <2> QED BY <1>3, <2>1, <2>2 DEF MetType
<1>7. /\ i.if_count \in Nat /\ i.if_hidden \in Nat
      /\ Len(s.open) = i.if_count + i.if_hidden
  BY DEF Agrees, Nesting, IffType
<1> HIDE DEF t, j
<1>8. /\ Len(t.open) = Len(s.open) + 1
      /\ \A k \in 1 .. i.if_count : t.open[k] = s.open[k]
  BY <1>3, <1>5, <1>6, <1>7
<1>9. /\ j.if_count = i.if_count /\ j.if_false = i.if_false /\ j.if_has_else = i.if_has_else
      /\ j.if_stack = i.if_stack /\ j.if_hidden = i.if_hidden + 1
  BY <1>1 DEF IffType
<1>10. Len(t.open) = j.if_count + j.if_hidden
  BY <1>7, <1>8, <1>9
<1>11. Agrees(j, t)
  BY <1>1, <1>6, <1>8, <1>9, <1>10, SameFrames
<1> QED BY <1>1, <1>6, <1>11 DEF j, t

(* The end of what is hidden, and its other branches.                      *)
LEMMA HiddenAgrees ==
  ASSUME NEW i \in IffType, NEW s \in MetType, Agrees(i, s), s.good, i.if_hidden > 0,
         NEW op \in {"elif", "else"}, NEW v \in BOOLEAN
  PROVE  /\ Meet(s, op, v) \in MetType /\ Meet(s, op, v).good
         /\ Meet(s, op, v).deep = s.deep /\ Agrees(i, Meet(s, op, v))
<1> DEFINE t == Meet(s, op, v)
           n == Len(s.open)
<1>1. Skips(s) /\ s.open # <<>> /\ i.if_count > 0
  BY AgreesSays
<1>2. s.deep \in BOOLEAN /\ s.open \in Seq(FrameType) /\ s.good \in BOOLEAN
  BY DEF MetType
<1>3. /\ i.if_count \in Nat /\ i.if_hidden \in Nat /\ i.if_false # 0
      /\ n = i.if_count + i.if_hidden
  BY DEF Agrees, Nesting, IffType
<1>4. n \in DOMAIN s.open /\ Top(s) \in FrameType
  BY <1>1, <1>2, <1>3 DEF Top
<1>5. PICK f \in FrameType : t = SetTop(s, f)
  <2>1. CASE op = "elif"
    <3>1. t = SetTop(s, Branch(Top(s), v))
      BY <1>1, <2>1 DEF Meet, InPlace, Opens
    <3>2. Branch(Top(s), v) \in FrameType
      BY <1>4 DEF Branch, FrameType
    <3> QED BY <3>1, <3>2
  <2>2. CASE op = "else"
    <3>1. t = SetTop(s, [Branch(Top(s), TRUE) EXCEPT !.has_else = TRUE])
      BY <1>1, <2>2 DEF Meet, InPlace, Opens
    <3>2. [Branch(Top(s), TRUE) EXCEPT !.has_else = TRUE] \in FrameType
      BY <1>4 DEF Branch, FrameType
    <3> QED BY <3>1, <3>2
  <2> QED BY <2>1, <2>2
<1> HIDE DEF t
<1>6. t \in MetType /\ t.good /\ t.deep = s.deep /\ t.open = [s.open EXCEPT ![n] = f]
  <2>1. [s.open EXCEPT ![n] = f] \in Seq(FrameType)
    BY <1>2, <1>4
  <2> QED BY <1>2, <1>5, <2>1 DEF MetType, SetTop
<1>7. Len(t.open) = n /\ \A k \in 1 .. i.if_count : t.open[k] = s.open[k]
  BY <1>2, <1>3, <1>4, <1>6
<1> HIDE DEF n
<1>8. /\ Len(t.open) = i.if_count + i.if_hidden /\ (i.if_hidden > 0 => i.if_false # 0)
      /\ t \in MetType /\ t.deep = s.deep /\ \A k \in 1 .. i.if_count : t.open[k] = s.open[k]
  BY <1>3, <1>6, <1>7
<1>9. Agrees(i, t)
  BY <1>8, SameFrames
<1> QED BY <1>6, <1>9 DEF t

LEMMA UnhideAgrees ==
  ASSUME NEW i \in IffType, NEW s \in MetType, Agrees(i, s), s.good, i.if_hidden > 0, NEW v
  PROVE  /\ [i EXCEPT !.if_hidden = @ - 1] \in IffType /\ Meet(s, "endif", v) \in MetType
         /\ Meet(s, "endif", v).good /\ Meet(s, "endif", v).deep = s.deep
         /\ Agrees([i EXCEPT !.if_hidden = @ - 1], Meet(s, "endif", v))
<1> DEFINE t == Meet(s, "endif", v)
           j == [i EXCEPT !.if_hidden = @ - 1]
           n == Len(s.open)
<1>1. s.open # <<>> /\ i.if_count > 0
  BY AgreesSays
<1>2. s.deep \in BOOLEAN /\ s.open \in Seq(FrameType) /\ s.good \in BOOLEAN
  BY DEF MetType
<1>3. /\ i.if_count \in Nat /\ i.if_hidden \in Nat /\ i.if_false # 0
      /\ n = i.if_count + i.if_hidden
  BY DEF Agrees, Nesting, IffType
<1>4. j \in IffType
  BY <1>3 DEF IffType
<1>5. t = [s EXCEPT !.open = SubSeq(s.open, 1, n - 1)]
  BY <1>1 DEF Meet, InPlace, Opens, Front
<1> HIDE DEF t
<1>6. /\ SubSeq(s.open, 1, n - 1) \in Seq(FrameType) /\ Len(SubSeq(s.open, 1, n - 1)) = n - 1
      /\ \A k \in 1 .. n - 1 : SubSeq(s.open, 1, n - 1)[k] = s.open[k]
  BY <1>1, <1>2, <1>3
<1>7. t \in MetType /\ t.good /\ t.deep = s.deep /\ t.open = SubSeq(s.open, 1, n - 1)
  BY <1>2, <1>5, <1>6 DEF MetType
<1>8. /\ j.if_count = i.if_count /\ j.if_false = i.if_false /\ j.if_has_else = i.if_has_else
      /\ j.if_stack = i.if_stack /\ j.if_hidden = i.if_hidden - 1
  BY DEF IffType
<1>9. Len(t.open) = j.if_count + j.if_hidden /\ \A k \in 1 .. i.if_count : t.open[k] = s.open[k]
  BY <1>3, <1>6, <1>7, <1>8
<1>10. Agrees(j, t)
  BY <1>3, <1>4, <1>7, <1>8, <1>9, SameFrames
<1> QED BY <1>4, <1>7, <1>10 DEF t, j

(* if_stack keeps the bits of the frames outside, as many as it has.       *)
LEMMA ShiftInBits ==
  ASSUME NEW d \in Nat, NEW bits \in Seq(BOOLEAN), NEW b \in BOOLEAN, NEW s \in MetType, NEW t \in MetType,
         Bits(d, bits, s), b => Had(s, d), s.deep \/ (Had(s, d) => b),
         \A k \in Int : k <= d => (Had(t, k) <=> Had(s, k)), s.deep => t.deep, t.deep \/ d <= IFBITS
  PROVE  ShiftIn(bits, b) \in Seq(BOOLEAN) /\ Bits(d + 1, ShiftIn(bits, b), t)
<1> DEFINE m == Len(bits)
           more == Append(bits, b)
           new == ShiftIn(bits, b)
<1>1. /\ m \in Nat /\ m <= d /\ m <= IFBITS /\ (s.deep \/ m >= d - 1)
      /\ \A j \in 1 .. m : bits[j] => Had(s, d - m + j - 1)
      /\ s.deep \/ \A j \in 1 .. m : Had(s, d - m + j - 1) => bits[j]
  BY LenProperties DEF Bits
<1>2. /\ more \in Seq(BOOLEAN) /\ Len(more) = m + 1 /\ more[m + 1] = b
      /\ \A j \in 1 .. m : more[j] = bits[j]
  BY <1>1, AppendProperties
<1>3. IFBITS \in Nat
  BY CppAssumption
<1>4. new = IF Len(more) > IFBITS THEN Tail(more) ELSE more
  BY DEF ShiftIn
<1> HIDE DEF m, more, new
<1>5. /\ \A j \in 1 .. m + 1 : more[j] => Had(s, d - m + j - 1)
      /\ s.deep \/ \A j \in 1 .. m + 1 : Had(s, d - m + j - 1) => more[j]
  <2> SUFFICES ASSUME NEW j \in 1 .. m + 1
               PROVE  (more[j] => Had(s, d - m + j - 1)) /\ (s.deep \/ (Had(s, d - m + j - 1) => more[j]))
    OBVIOUS
  <2>1. CASE j = m + 1
    <3>1. d - m + j - 1 = d /\ more[j] = b
      BY <2>1, <1>1, <1>2
    <3> QED BY <3>1
  <2>2. CASE j \in 1 .. m
    BY <2>2, <1>1, <1>2
  <2>3. j = m + 1 \/ j \in 1 .. m
    BY <1>1
  <2> QED BY <2>1, <2>2, <2>3
<1>6. \A j \in 1 .. m + 1 : d - m + j - 1 \in Int /\ d - m + j - 1 <= d
  BY <1>1
<1>7. /\ \A j \in 1 .. m + 1 : more[j] => Had(t, d - m + j - 1)
      /\ t.deep \/ \A j \in 1 .. m + 1 : Had(t, d - m + j - 1) => more[j]
  BY <1>5, <1>6
<1>8. CASE m + 1 <= IFBITS
  <2>1. new = more
    BY <1>1, <1>2, <1>3, <1>4, <1>8
  <2>2. \A j \in 1 .. m + 1 : d + 1 - (m + 1) + j - 1 = d - m + j - 1
    BY <1>1
  <2>3. m + 1 <= d + 1 /\ (t.deep \/ m + 1 >= d + 1 - 1)
    BY <1>1
  <2>4. Bits(d + 1, more, t)
    <3>1. /\ \A j \in 1 .. m + 1 : more[j] => Had(t, d + 1 - (m + 1) + j - 1)
          /\ t.deep \/ \A j \in 1 .. m + 1 : Had(t, d + 1 - (m + 1) + j - 1) => more[j]
      BY <1>7, <2>2
    <3>2. Len(more) <= d + 1 /\ Len(more) <= IFBITS /\ (t.deep \/ Len(more) >= (d + 1) - 1)
      BY <1>2, <1>8, <2>3
    <3>3. \A j \in 1 .. Len(more) : more[j] => Had(t, (d + 1) - Len(more) + j - 1)
      BY <1>2, <3>1
    <3>4. t.deep \/ \A j \in 1 .. Len(more) : Had(t, (d + 1) - Len(more) + j - 1) => more[j]
      BY <1>2, <3>1
    <3> QED BY <3>2, <3>3, <3>4, Zenon DEF Bits
  <2> QED BY <1>2, <2>1, <2>4 DEF new
<1>9. CASE m + 1 > IFBITS
  <2>1. new = Tail(more) /\ m = IFBITS
    BY <1>1, <1>2, <1>3, <1>4, <1>9
  <2>2. more # <<>>
    BY <1>1, <1>2
  <2>3. new \in Seq(BOOLEAN) /\ Len(new) = m /\ \A j \in 1 .. m : new[j] = more[j + 1]
    BY <1>1, <1>2, <2>1, <2>2, HeadTailProperties
  <2>4. \A j \in 1 .. m : j + 1 \in 1 .. m + 1 /\ d + 1 - m + j - 1 = d - m + (j + 1) - 1
    BY <1>1
  <2>5. m <= d + 1 /\ m <= IFBITS /\ (t.deep \/ m >= d + 1 - 1)
    BY <1>1, <2>1
  <2>6. \A j \in 1 .. m : new[j] => Had(t, d + 1 - m + j - 1)
    <3> SUFFICES ASSUME NEW j \in 1 .. m, new[j] PROVE Had(t, d + 1 - m + j - 1)
      OBVIOUS
    <3>1. more[j + 1]
      BY <2>3
    <3>2. Had(t, d - m + (j + 1) - 1)
      BY <3>1, <2>4, <1>7
    <3> QED BY <3>2, <2>4
  <2>7. t.deep \/ \A j \in 1 .. m : Had(t, d + 1 - m + j - 1) => new[j]
    <3> SUFFICES ASSUME ~t.deep, NEW j \in 1 .. m, Had(t, d + 1 - m + j - 1) PROVE new[j]
      OBVIOUS
    <3>1. Had(t, d - m + (j + 1) - 1)
      BY <2>4
    <3>2. more[j + 1]
      BY <3>1, <2>4, <1>7
    <3> QED BY <3>2, <2>3
  <2>8. Bits(d + 1, new, t)
    <3>1. Len(new) = m
      BY <2>3
    <3>2. Len(new) <= d + 1 /\ Len(new) <= IFBITS /\ (t.deep \/ Len(new) >= (d + 1) - 1)
      BY <2>5, <3>1
    <3>3. \A j \in 1 .. Len(new) : new[j] => Had(t, (d + 1) - Len(new) + j - 1)
      BY <2>6, <3>1
    <3>4. t.deep \/ \A j \in 1 .. Len(new) : Had(t, (d + 1) - Len(new) + j - 1) => new[j]
      BY <2>7, <3>1
    <3> QED BY <3>2, <3>3, <3>4, Zenon DEF Bits
  <2> QED BY <2>3, <2>8 DEF new
<1> QED BY <1>1, <1>3, <1>8, <1>9

LEMMA ShiftOutBits ==
  ASSUME NEW d \in Nat, d > 0, NEW bits \in Seq(BOOLEAN), NEW s \in MetType, NEW t \in MetType,
         Bits(d, bits, s), \A k \in Int : k <= d - 1 => (Had(t, k) <=> Had(s, k)), s.deep = t.deep
  PROVE  /\ LowBit(bits) \in BOOLEAN /\ ShiftOut(bits) \in Seq(BOOLEAN)
         /\ Bits(d - 1, ShiftOut(bits), t)
         /\ LowBit(bits) => Had(t, d - 1)
         /\ t.deep \/ (Had(t, d - 1) => LowBit(bits))
<1> DEFINE m == Len(bits)
           new == ShiftOut(bits)
<1>1. /\ m \in Nat /\ m <= d /\ m <= IFBITS /\ (s.deep \/ m >= d - 1)
      /\ \A j \in 1 .. m : bits[j] => Had(s, d - m + j - 1)
      /\ s.deep \/ \A j \in 1 .. m : Had(s, d - m + j - 1) => bits[j]
  BY LenProperties DEF Bits
<1>2. IFBITS \in Nat
  BY CppAssumption
<1>3. CASE bits = <<>>
  <2>1. new = bits /\ m = 0 /\ LowBit(bits) = FALSE
    BY <1>3 DEF ShiftOut, LowBit
  <2>2. s.deep \/ d - 1 = 0
    BY <1>1, <2>1
  <2>3. t.deep \/ ~Had(t, d - 1)
    BY <2>2 DEF Had
  <2>4. Bits(d - 1, bits, t)
    BY <1>2, <2>1, <2>2 DEF Bits
  <2> QED BY <2>1, <2>3, <2>4
<1>4. CASE bits # <<>>
  <2>0. m > 0
    BY <1>4, <1>1, EmptySeq
  <2>1. new = SubSeq(bits, 1, m - 1) /\ LowBit(bits) = bits[m]
    <3>1. bits[m] \in BOOLEAN
      BY <1>1, <2>0, ElementOfSeq
    <3> QED BY <3>1, <1>4 DEF ShiftOut, LowBit, Front, Last
  <2> HIDE DEF m, new
  <2>2. new \in Seq(BOOLEAN) /\ Len(new) = m - 1 /\ \A j \in 1 .. m - 1 : new[j] = bits[j]
    <3>1. \A j \in 1 .. m - 1 : bits[j] \in BOOLEAN
      BY <1>1, <2>0, ElementOfSeq DEF m
    <3>2. /\ SubSeq(bits, 1, m - 1) \in Seq(BOOLEAN)
          /\ Len(SubSeq(bits, 1, m - 1)) = IF 1 <= m - 1 THEN m - 1 - 1 + 1 ELSE 0
          /\ \A j \in 1 .. m - 1 - 1 + 1 : SubSeq(bits, 1, m - 1)[j] = bits[1 + j - 1]
      BY <1>1, <2>0, <3>1, SubSeqProperties
    <3> QED BY <1>1, <2>0, <2>1, <3>2
  <2>3. bits[m] \in BOOLEAN /\ m \in 1 .. m /\ d - m + m - 1 = d - 1
    BY <1>1, <2>0, ElementOfSeq DEF m
  <2>4. (bits[m] => Had(s, d - 1)) /\ (s.deep \/ (Had(s, d - 1) => bits[m]))
    BY <1>1, <2>3
  <2>5. \A j \in 1 .. m - 1 : j \in 1 .. m /\ d - m + j - 1 \in Int /\ d - m + j - 1 <= d - 1
                              /\ d - 1 - (m - 1) + j - 1 = d - m + j - 1
    BY <1>1, <2>0
  <2>6. \A j \in 1 .. m - 1 : new[j] => Had(t, d - 1 - (m - 1) + j - 1)
    <3> SUFFICES ASSUME NEW j \in 1 .. m - 1, new[j] PROVE Had(t, d - 1 - (m - 1) + j - 1)
      OBVIOUS
    <3>1. bits[j]
      BY <2>2
    <3>2. Had(s, d - m + j - 1)
      BY <3>1, <2>5, <1>1
    <3> QED BY <3>2, <2>5
  <2>7. t.deep \/ \A j \in 1 .. m - 1 : Had(t, d - 1 - (m - 1) + j - 1) => new[j]
    <3> SUFFICES ASSUME ~t.deep, NEW j \in 1 .. m - 1, Had(t, d - 1 - (m - 1) + j - 1) PROVE new[j]
      OBVIOUS
    <3>1. Had(s, d - m + j - 1)
      BY <2>5
    <3>2. bits[j]
      BY <3>1, <2>5, <1>1
    <3> QED BY <3>2, <2>2
  <2>8. m - 1 <= d - 1 /\ m - 1 <= IFBITS /\ (t.deep \/ m - 1 >= d - 1 - 1)
    BY <1>1, <1>2
  <2>9. Bits(d - 1, new, t)
    BY <2>2, <2>6, <2>7, <2>8 DEF Bits
  <2>10. (bits[m] => Had(t, d - 1)) /\ (t.deep \/ (Had(t, d - 1) => bits[m]))
    BY <2>4
  <2> QED BY <2>1, <2>2, <2>3, <2>9, <2>10 DEF new
<1> QED BY <1>3, <1>4

(* #if in text that is taken.                                              *)
LEMMA EnterAgrees ==
  ASSUME NEW i \in IffType, NEW s \in MetType, Agrees(i, s), s.good, i.if_false = 0,
         NEW op, Opens(op), NEW v \in BOOLEAN
  PROVE  /\ Enter(i, v) \in IffType /\ Meet(s, op, v) \in MetType /\ Meet(s, op, v).good
         /\ s.deep => Meet(s, op, v).deep
         /\ Agrees(Enter(i, v), Meet(s, op, v))
<1> DEFINE d == i.if_count
           j == Enter(i, v)
           t == Meet(s, op, v)
<1>1. Takes(s) /\ i.if_hidden = 0
  <2>1. i.if_hidden \in Nat
    BY DEF IffType
  <2> QED BY <2>1, AgreesSays DEF Agrees, Nesting
<1>2. s.deep \in BOOLEAN /\ s.open \in Seq(FrameType) /\ s.good \in BOOLEAN /\ d \in Nat
      /\ i.if_stack \in Seq(BOOLEAN) /\ i.if_has_else \in BOOLEAN
  BY DEF MetType, IffType
<1>3. Len(s.open) = d /\ Elses(d, i, s) /\ Bits(d, i.if_stack, s)
  BY <1>1, <1>2 DEF Agrees, Nesting
<1>4. \A k \in 1 .. d : s.open[k].now
  BY <1>1, <1>2, <1>3 DEF Takes
<1>5. t = [s EXCEPT !.open = Append(@, Frame(v)), !.deep = s.deep \/ (Takes(s) /\ Len(s.open) > IFBITS)]
  BY DEF Meet, InPlace, Opens
<1>6. Frame(v) \in FrameType /\ Frame(v).now = v /\ Frame(v).taken = v /\ Frame(v).has_else = FALSE
  BY DEF Frame, FrameType
<1>7. t \in MetType /\ t.good /\ t.open = Append(s.open, Frame(v)) /\ t.deep = (s.deep \/ d > IFBITS)
  <2>1. t = [s EXCEPT !.open = Append(@, Frame(v)), !.deep = s.deep \/ d > IFBITS]
    BY <1>1, <1>3, <1>5
  <2> HIDE DEF t
  <2>2. Append(s.open, Frame(v)) \in Seq(FrameType) /\ (s.deep \/ d > IFBITS) \in BOOLEAN
    BY <1>2, <1>6
  <2> QED BY <1>2, <2>1, <2>2 DEF MetType
<1> HIDE DEF t
<1>8. /\ Len(t.open) = d + 1 /\ t.open[d + 1] = Frame(v)
      /\ \A k \in 1 .. d : t.open[k] = s.open[k]
  BY <1>2, <1>3, <1>6, <1>7
<1>9. ASSUME NEW k \in Int, k <= d PROVE Had(t, k) <=> Had(s, k)
  <2>1. CASE k > 0
    <3>1. k \in 1 .. d
      BY <1>2, <1>9, <2>1
    <3> QED BY <1>8, <3>1 DEF Had
  <2>2. CASE ~(k > 0)
    BY <2>2 DEF Had
  <2> QED BY <2>1, <2>2
<1>10. (i.if_has_else => Had(s, d)) /\ (s.deep \/ (Had(s, d) => i.if_has_else))
  BY <1>3 DEF Elses
<1>11. (s.deep => t.deep) /\ (t.deep \/ d <= IFBITS)
  <2>1. IFBITS \in Nat
    BY CppAssumption
  <2>2. t.deep \in BOOLEAN
    BY <1>7 DEF MetType
  <2>3. d > IFBITS \/ d <= IFBITS
    BY <1>2, <2>1
  <2> HIDE DEF d
  <2> QED BY <1>2, <1>7, <2>2, <2>3
<1>12. ShiftIn(i.if_stack, i.if_has_else) \in Seq(BOOLEAN) /\ Bits(d + 1, ShiftIn(i.if_stack, i.if_has_else), t)
  BY <1>2, <1>3, <1>7, <1>9, <1>10, <1>11, ShiftInBits
<1>13. /\ j \in IffType /\ j.if_count = d + 1 /\ j.if_false = IfFalse(v) /\ j.if_has_else = FALSE
       /\ j.if_hidden = 0 /\ j.if_stack = ShiftIn(i.if_stack, i.if_has_else)
  <2>1. IfFalse(v) \in 0 .. 3
    BY DEF IfFalse
  <2> DEFINE new == ShiftIn(i.if_stack, i.if_has_else)
             f == IfFalse(v)
  <2>2. j = [i EXCEPT !.if_count = @ + 1, !.if_stack = new, !.if_has_else = FALSE, !.if_false = f]
    BY DEF Enter, IffType
  <2>3. new \in Seq(BOOLEAN) /\ f \in 0 .. 3
    BY <1>12, <2>1
  <2> HIDE DEF new, f, j
  <2>4. /\ j \in IffType /\ j.if_count = d + 1 /\ j.if_false = f /\ j.if_has_else = FALSE
        /\ j.if_hidden = 0 /\ j.if_stack = new
    <3>1. j = [if_count |-> d + 1, if_false |-> f, if_has_else |-> FALSE, if_hidden |-> 0, if_stack |-> new]
      BY <1>1, <2>2 DEF IffType
    <3>2. d + 1 \in Nat
      BY <1>2
    <3>3. j \in IffType
      BY <3>1, <3>2, <2>3 DEF IffType
    <3> QED BY <3>1, <3>3
  <2> QED BY <2>4 DEF new, f
<1> HIDE DEF d, j
<1>14. Nesting(d + 1, j, t)
  <2>1. (IfFalse(v) = 0 <=> v) /\ (IfFalse(v) = 1 <=> ~v)
    BY DEF IfFalse
  <2>2. \A k \in 1 .. d + 1 : k # d + 1 => t.open[k].now
    <3>1. \A k \in 1 .. d + 1 : k # d + 1 => k \in 1 .. d
      BY <1>2 DEF d
    <3> QED BY <3>1, <1>4, <1>8 DEF d
  <2> QED BY <1>2, <1>6, <1>8, <1>13, <2>1, <2>2 DEF Nesting
<1>15. Elses(d + 1, j, t)
  BY <1>6, <1>8, <1>13 DEF Elses, Had
<1>16. Agrees(j, t)
  BY <1>12, <1>13, <1>14, <1>15 DEF Agrees
<1> QED BY <1>7, <1>11, <1>13, <1>16 DEF t, j

(* A frame of text that counts is looked at by #elif, #else and #endif.    *)
LEMMA InnermostFrame ==
  ASSUME NEW i \in IffType, NEW s \in MetType, Agrees(i, s), i.if_hidden = 0, i.if_count > 0
  PROVE  /\ Len(s.open) = i.if_count /\ s.open # <<>> /\ ~Skips(s)
         /\ Top(s) = s.open[i.if_count] /\ Top(s) \in FrameType
         /\ \A k \in 1 .. i.if_count : k # i.if_count => s.open[k].now
         /\ i.if_false = 0 <=> Top(s).now
         /\ Top(s).has_else \/ (i.if_false = 1 <=> ~Top(s).taken)
         /\ i.if_has_else => Top(s).has_else
         /\ s.deep \/ (Top(s).has_else => i.if_has_else)
<1>1. i.if_count \in Nat /\ s.open \in Seq(FrameType)
  BY DEF IffType, MetType
<1>2. Len(s.open) = i.if_count
  BY <1>1 DEF Agrees, Nesting
<1>3. s.open # <<>> /\ ~Skips(s)
  BY AgreesSays
<1>4. Top(s) = s.open[i.if_count] /\ Top(s) \in FrameType
  BY <1>1, <1>2 DEF Top
<1>5. /\ \A k \in 1 .. i.if_count : k # i.if_count => s.open[k].now
      /\ i.if_false = 0 <=> Top(s).now
      /\ Top(s).has_else \/ (i.if_false = 1 <=> ~Top(s).taken)
  BY <1>4 DEF Agrees, Nesting
<1>6. Had(s, i.if_count) = Top(s).has_else
  BY <1>4 DEF Had, FrameType
<1>7. /\ i.if_has_else => Top(s).has_else
      /\ s.deep \/ (Top(s).has_else => i.if_has_else)
  BY <1>6 DEF Agrees, Elses
<1> QED BY <1>2, <1>3, <1>4, <1>5, <1>7

(* A change of the innermost frame, with what it changes in the flags.     *)
LEMMA TopAgrees ==
  ASSUME NEW i \in IffType, NEW s \in MetType, Agrees(i, s), i.if_hidden = 0, i.if_count > 0,
         NEW f \in FrameType, NEW j \in IffType,
         j.if_count = i.if_count, j.if_hidden = 0, j.if_stack = i.if_stack,
         j.if_false = 0 <=> f.now, f.has_else \/ (j.if_false = 1 <=> ~f.taken), j.if_has_else <=> f.has_else
  PROVE  /\ SetTop(s, f) \in MetType /\ SetTop(s, f).good = s.good /\ SetTop(s, f).deep = s.deep
         /\ Agrees(j, SetTop(s, f))
<1> DEFINE t == SetTop(s, f)
           d == i.if_count
<1>1. d \in Nat /\ d > 0 /\ s.open \in Seq(FrameType) /\ i.if_stack \in Seq(BOOLEAN)
  BY DEF IffType, MetType
<1>2. Len(s.open) = d /\ \A k \in 1 .. d : k # d => s.open[k].now
  BY InnermostFrame
<1> HIDE DEF d
<1>3. t \in MetType /\ t.good = s.good /\ t.deep = s.deep /\ t.open = [s.open EXCEPT ![d] = f]
  <2>1. [s.open EXCEPT ![d] = f] \in Seq(FrameType)
    BY <1>1, <1>2
  <2> QED BY <1>2, <2>1 DEF MetType, SetTop
<1>4. Len(t.open) = d /\ t.open[d] = f /\ \A k \in 1 .. d : k # d => t.open[k] = s.open[k]
  BY <1>1, <1>2, <1>3
<1> HIDE DEF t
<1>5. Nesting(d, j, t)
  BY <1>1, <1>2, <1>4 DEF Nesting
<1>6. Elses(d, j, t)
  BY <1>1, <1>4 DEF Elses, Had
<1>7. \A k \in Int : k <= d - 1 => Had(t, k) = Had(s, k)
  BY <1>1, <1>4 DEF Had
<1>8. Bits(d, j.if_stack, t)
  <2> DEFINE m == Len(i.if_stack)
  <2>1. m \in Nat
    BY <1>1, LenProperties
  <2>2. Bits(d, i.if_stack, s)
    BY DEF Agrees, d
  <2>3. \A k \in 1 .. m : d - m + k - 1 \in Int /\ d - m + k - 1 <= d - 1
    BY <1>1, <2>1
  <2>4. \A k \in 1 .. m : Had(t, d - m + k - 1) = Had(s, d - m + k - 1)
    BY <1>7, <2>3
  <2> HIDE DEF m
  <2> QED BY <1>3, <2>2, <2>4 DEF Bits, m
<1> QED BY <1>3, <1>5, <1>6, <1>8 DEF Agrees, t, d

LEMMA ElifAgrees ==
  ASSUME NEW i \in IffType, NEW s \in MetType, Agrees(i, s), s.good, i.if_hidden = 0, i.if_count > 0,
         ~Top(s).has_else, NEW v \in BOOLEAN
  PROVE  /\ Elif(i, v) \in IffType /\ Meet(s, "elif", v) \in MetType /\ Meet(s, "elif", v).good
         /\ Meet(s, "elif", v).deep = s.deep /\ Agrees(Elif(i, v), Meet(s, "elif", v))
<1> DEFINE j == Elif(i, v)
           f == Branch(Top(s), v)
<1>1. /\ s.open # <<>> /\ ~Skips(s) /\ Top(s) \in FrameType
      /\ i.if_false = 0 <=> Top(s).now
      /\ i.if_false = 1 <=> ~Top(s).taken
      /\ ~i.if_has_else
  BY InnermostFrame
<1>2. i.if_false \in 0 .. 3 /\ i.if_has_else = FALSE
  BY <1>1 DEF IffType
<1>3. Meet(s, "elif", v) = SetTop(s, f)
  BY <1>1 DEF Meet, InPlace, Opens
<1>4. f \in FrameType /\ (f.now <=> v /\ ~Top(s).taken) /\ (f.taken <=> Top(s).taken \/ v) /\ f.has_else = FALSE
  BY <1>1 DEF Branch, FrameType
<1>5. /\ j \in IffType /\ j.if_count = i.if_count /\ j.if_hidden = 0 /\ j.if_stack = i.if_stack
      /\ j.if_has_else = FALSE /\ j.if_false = IF i.if_false # 1 THEN 2 ELSE IfFalse(v)
  <2>1. IfFalse(v) \in 0 .. 3
    BY DEF IfFalse
  <2>2. CASE i.if_false # 1
    <3>1. j = [i EXCEPT !.if_false = 2]
      BY <2>2 DEF Elif
    <3> QED BY <1>2, <2>2, <3>1 DEF IffType
  <2>3. CASE i.if_false = 1
    <3>1. j = [i EXCEPT !.if_has_else = FALSE, !.if_false = IfFalse(v)]
      BY <1>2, <2>3 DEF Elif
    <3> QED BY <1>2, <2>1, <2>3, <3>1 DEF IffType
  <2> QED BY <2>2, <2>3
<1> HIDE DEF f, j
<1>6. (IfFalse(v) = 0 <=> v) /\ (IfFalse(v) = 1 <=> ~v)
  BY DEF IfFalse
<1>7. (j.if_false = 0 <=> f.now) /\ (j.if_false = 1 <=> ~f.taken)
  <2>1. CASE i.if_false # 1
    BY <2>1, <1>1, <1>4, <1>5
  <2>2. CASE i.if_false = 1
    BY <2>2, <1>1, <1>4, <1>5, <1>6
  <2> QED BY <2>1, <2>2
<1>8. j.if_has_else <=> f.has_else
  BY <1>4, <1>5
<1>9. /\ SetTop(s, f) \in MetType /\ SetTop(s, f).good = s.good /\ SetTop(s, f).deep = s.deep
      /\ Agrees(j, SetTop(s, f))
  BY <1>4, <1>5, <1>7, <1>8, TopAgrees
<1> QED BY <1>3, <1>5, <1>9 DEF j

Elsed(i) == [i EXCEPT !.if_false = Flip(@), !.if_has_else = TRUE]

LEMMA ElseAgrees ==
  ASSUME NEW i \in IffType, NEW s \in MetType, Agrees(i, s), s.good, i.if_hidden = 0, i.if_count > 0,
         ~Top(s).has_else, NEW v
  PROVE  /\ Elsed(i) \in IffType /\ Meet(s, "else", v) \in MetType /\ Meet(s, "else", v).good
         /\ Meet(s, "else", v).deep = s.deep /\ Agrees(Elsed(i), Meet(s, "else", v))
<1> DEFINE j == Elsed(i)
           f == [Branch(Top(s), TRUE) EXCEPT !.has_else = TRUE]
<1>1. /\ s.open # <<>> /\ ~Skips(s) /\ Top(s) \in FrameType
      /\ i.if_false = 1 <=> ~Top(s).taken
  BY InnermostFrame
<1>2. i.if_false \in 0 .. 3
  BY DEF IffType
<1>3. Meet(s, "else", v) = SetTop(s, f)
  BY <1>1 DEF Meet, InPlace, Opens
<1>4. f \in FrameType /\ f.now = (~Top(s).taken) /\ f.taken = TRUE /\ f.has_else = TRUE
  BY <1>1 DEF Branch, FrameType
<1>5. Flip(i.if_false) \in 0 .. 3 /\ (Flip(i.if_false) = 0 <=> i.if_false = 1)
  BY <1>2 DEF Flip
<1>6. /\ j \in IffType /\ j.if_count = i.if_count /\ j.if_hidden = 0 /\ j.if_stack = i.if_stack
      /\ j.if_has_else = TRUE /\ j.if_false = Flip(i.if_false)
  BY <1>5 DEF IffType, Elsed
<1> HIDE DEF f, j
<1>7. j.if_false = 0 <=> f.now
  BY <1>1, <1>4, <1>5, <1>6
<1>8. j.if_has_else <=> f.has_else
  BY <1>4, <1>6
<1>9. /\ SetTop(s, f) \in MetType /\ SetTop(s, f).good = s.good /\ SetTop(s, f).deep = s.deep
      /\ Agrees(j, SetTop(s, f))
  BY <1>4, <1>6, <1>7, <1>8, TopAgrees
<1> QED BY <1>3, <1>6, <1>9 DEF j

Ended(i) == [i EXCEPT !.if_count = @ - 1, !.if_false = 0,
                      !.if_has_else = LowBit(i.if_stack), !.if_stack = ShiftOut(@)]

LEMMA EndAgrees ==
  ASSUME NEW i \in IffType, NEW s \in MetType, Agrees(i, s), s.good, i.if_hidden = 0, i.if_count > 0, NEW v
  PROVE  /\ Ended(i) \in IffType /\ Meet(s, "endif", v) \in MetType /\ Meet(s, "endif", v).good
         /\ Meet(s, "endif", v).deep = s.deep /\ Agrees(Ended(i), Meet(s, "endif", v))
<1> DEFINE d == i.if_count
           j == Ended(i)
           t == Meet(s, "endif", v)
           low == LowBit(i.if_stack)
           out2 == ShiftOut(i.if_stack)
<1>1. /\ d \in Nat /\ d > 0 /\ s.open \in Seq(FrameType) /\ i.if_stack \in Seq(BOOLEAN)
      /\ i.if_hidden = 0 /\ s.good \in BOOLEAN /\ s.deep \in BOOLEAN
  BY DEF IffType, MetType
<1>2. Len(s.open) = d /\ s.open # <<>> /\ \A k \in 1 .. d : k # d => s.open[k].now
  BY InnermostFrame
<1>3. t = [s EXCEPT !.open = SubSeq(s.open, 1, d - 1)]
  BY <1>2 DEF Meet, InPlace, Opens, Front
<1> HIDE DEF d, t
<1>4. /\ SubSeq(s.open, 1, d - 1) \in Seq(FrameType) /\ Len(SubSeq(s.open, 1, d - 1)) = d - 1
      /\ \A k \in 1 .. d - 1 : SubSeq(s.open, 1, d - 1)[k] = s.open[k]
  BY <1>1, <1>2
<1>5. t \in MetType /\ t.good = s.good /\ t.deep = s.deep /\ t.open = SubSeq(s.open, 1, d - 1)
  BY <1>1, <1>3, <1>4 DEF MetType
<1>6. \A k \in Int : k <= d - 1 => (Had(t, k) <=> Had(s, k))
  BY <1>1, <1>4, <1>5 DEF Had
<1>7. Bits(d, i.if_stack, s)
  BY DEF Agrees, d
<1>8. /\ low \in BOOLEAN /\ out2 \in Seq(BOOLEAN)
      /\ Bits(d - 1, out2, t)
      /\ low => Had(t, d - 1)
      /\ t.deep \/ (Had(t, d - 1) => low)
  BY <1>1, <1>5, <1>6, <1>7, ShiftOutBits
<1>9. j = [i EXCEPT !.if_count = d - 1, !.if_false = 0, !.if_has_else = low, !.if_stack = out2]
  BY DEF Ended, d, IffType
<1> HIDE DEF low, out2, j
<1>10. /\ j \in IffType /\ j.if_count = d - 1 /\ j.if_false = 0 /\ j.if_has_else = low
       /\ j.if_hidden = 0 /\ j.if_stack = out2
  <2>1. j = [if_count |-> d - 1, if_false |-> 0, if_has_else |-> low, if_hidden |-> 0, if_stack |-> out2]
    BY <1>1, <1>9 DEF IffType
  <2>2. d - 1 \in Nat
    BY <1>1
  <2>3. j \in IffType
    BY <1>8, <2>1, <2>2 DEF IffType
  <2> QED BY <2>1, <2>3
<1>11. Nesting(d - 1, j, t)
  <2>1. \A k \in 1 .. d - 1 : k \in 1 .. d /\ k # d
    BY <1>1
  <2>2. \A k \in 1 .. d - 1 : t.open[k].now
    BY <1>2, <1>4, <1>5, <2>1
  <2>3. Len(t.open) = d - 1
    BY <1>4, <1>5
  <2>4. d - 1 > 0 => /\ t.open[d - 1].now /\ t.open[d - 1] \in FrameType
    BY <1>1, <1>4, <1>5, <2>2
  <2>5. d - 1 > 0 => t.open[d - 1].now /\ t.open[d - 1].taken
    BY <2>4 DEF FrameType
  <2> QED BY <1>1, <1>10, <2>2, <2>3, <2>4, <2>5 DEF Nesting
<1>12. Elses(d - 1, j, t)
  BY <1>8, <1>10 DEF Elses
<1>13. Agrees(j, t)
  BY <1>8, <1>10, <1>11, <1>12 DEF Agrees
<1> QED BY <1>5, <1>10, <1>13 DEF t, j

(* The condition that a directive is met with is true or false.            *)
LEMMA ConditionSound ==
  ASSUME IInv, NEW ops, ops \subseteq {"ifdef", "ifndef", "if", "elif"}, Directive(ops)
  PROVE  Condition(Next1) \in BOOLEAN
<1>1. ~Exhausted /\ ~AtEnd /\ Next1.k = "#" /\ Next1.op \in ops
  BY DEF Directive, Reading
<1>2. Next1 \in Token
  BY <1>1, RestSound
<1>3. Next1.op \in {"ifdef", "ifndef", "if", "elif"}
  BY <1>1
<1>4. CASE Next1.op \in {"if", "elif"}
  <2>1. Next1.value \in BOOLEAN
    BY <1>1, <1>2, <1>4, TokenAssumption
  <2>2. Next1.op # "ifdef" /\ Next1.op # "ifndef"
    BY <1>4
  <2> QED BY <2>1, <2>2 DEF Condition
<1>5. CASE Next1.op \in {"ifdef", "ifndef"}
  <2>1. Defined(Next1.name) \in BOOLEAN /\ (~Defined(Next1.name)) \in BOOLEAN
    BY DEF Defined
  <2>2. CASE Next1.op = "ifdef"
    <3>1. Condition(Next1) = Defined(Next1.name)
      BY <2>2, <2>1 DEF Condition
    <3> QED BY <2>1, <3>1
  <2>3. CASE Next1.op = "ifndef"
    <3>1. Condition(Next1) = ~Defined(Next1.name)
      BY <2>3, <2>1 DEF Condition
    <3> QED BY <2>1, <3>1
  <2> QED BY <1>5, <2>2, <2>3
<1> QED BY <1>3, <1>4, <1>5

(* Out of place once, out of place for good.                               *)
LEMMA MeetBad ==
  ASSUME NEW s \in MetType, NEW op, NEW v, ~s.good \/ ~InPlace(s, op)
  PROVE  Meet(s, op, v) \in MetType /\ ~Meet(s, op, v).good /\ Meet(s, op, v).deep = s.deep
BY DEF Meet, MetType

(* What a directive comes to: the faults, and agreement.                   *)
LEMMA MetStep ==
  ASSUME CInv, NEW wrong \in BOOLEAN, Faulty("if", wrong), iff' \in IffType, met' \in MetType,
         met.deep => met'.deep, met'.good => met.good,
         met.good /\ wrong => ~met'.good,
         met.good /\ ~wrong /\ ~met'.good => met'.deep,
         met'.good => Agrees(iff', met')
  PROVE  CInv'
<1>1. fault' = IF wrong THEN fault \cup {"if"} ELSE fault
  BY DEF Faulty
<1>2. "if" \in fault' <=> "if" \in fault \/ wrong
  BY <1>1
<1> QED BY <1>2 DEF CInv

LEMMA IfMet ==
  ASSUME IInv, CInv, If
  PROVE  CInv'
<1> DEFINE v == Condition(Next1)
<1>1. v \in BOOLEAN
  BY ConditionSound DEF If
<1>2. /\ Opens(Next1.op) /\ met' = Meet(met, Next1.op, v) /\ fault' = fault
      /\ iff' = IF iff.if_false # 0 THEN Hide(iff) ELSE Enter(iff, v)
  BY DEF If, Directive, Opens, Meets
<1>3. Faulty("if", FALSE)
  BY <1>2 DEF Faulty
<1>4. iff \in IffType /\ met \in MetType
  BY DEF CInv
<1> HIDE DEF v
<1>5. iff' \in IffType
  <2>1. Hide(iff) \in IffType
    BY <1>4 DEF Hide, IffType
  <2>2. Enter(iff, v) \in IffType
    <3> DEFINE new == ShiftIn(iff.if_stack, iff.if_has_else)
               f == IfFalse(v)
    <3>1. iff.if_stack \in Seq(BOOLEAN) /\ iff.if_has_else \in BOOLEAN /\ iff.if_count \in Nat /\ iff.if_hidden \in Nat
      BY <1>4 DEF IffType
    <3>2. new \in Seq(BOOLEAN)
      <4> DEFINE more == Append(iff.if_stack, iff.if_has_else)
      <4>1. more \in Seq(BOOLEAN) /\ more # <<>>
        BY <3>1, AppendProperties
      <4>2. Tail(more) \in Seq(BOOLEAN)
        BY <4>1, HeadTailProperties
      <4>3. new = IF Len(more) > IFBITS THEN Tail(more) ELSE more
        BY DEF ShiftIn
      <4> HIDE DEF more, new
      <4> QED BY <4>1, <4>2, <4>3
    <3>3. f \in 0 .. 3
      BY DEF IfFalse
    <3>4. Enter(iff, v) = [iff EXCEPT !.if_count = @ + 1, !.if_stack = new, !.if_has_else = FALSE, !.if_false = f]
      BY <1>4 DEF Enter, IffType
    <3> HIDE DEF new, f
    <3>5. Enter(iff, v) = [if_count |-> iff.if_count + 1, if_false |-> f, if_has_else |-> FALSE,
                           if_hidden |-> iff.if_hidden, if_stack |-> new]
      BY <1>4, <3>4 DEF IffType
    <3> QED BY <3>1, <3>2, <3>3, <3>5 DEF IffType
  <2> QED BY <1>2, <2>1, <2>2
<1>6. CASE ~met.good
  <2>1. met' \in MetType /\ ~met'.good /\ met'.deep = met.deep
    BY <1>2, <1>4, <1>6, MeetBad
  <2> QED BY <1>3, <1>5, <1>6, <2>1, MetStep
<1>7. CASE met.good /\ iff.if_false # 0
  <2>1. Agrees(iff, met)
    BY <1>7 DEF CInv
  <2>2. met' \in MetType /\ met'.good /\ met'.deep = met.deep /\ Agrees(Hide(iff), met')
    BY <1>1, <1>2, <1>4, <1>7, <2>1, HideAgrees
  <2>3. iff' = Hide(iff)
    BY <1>2, <1>7
  <2> QED BY <1>3, <1>5, <1>7, <2>2, <2>3, MetStep
<1>8. CASE met.good /\ iff.if_false = 0
  <2>1. Agrees(iff, met)
    BY <1>8 DEF CInv
  <2>2. met' \in MetType /\ met'.good /\ (met.deep => met'.deep) /\ Agrees(Enter(iff, v), met')
    BY <1>1, <1>2, <1>4, <1>8, <2>1, EnterAgrees
  <2>3. iff' = Enter(iff, v)
    BY <1>2, <1>8
  <2> QED BY <1>3, <1>5, <1>8, <2>2, <2>3, MetStep
<1> QED BY <1>6, <1>7, <1>8

(* Where the innermost #if that counts had an #else, nothing but #endif is *)
(* in place; where none is open, nothing but #if.                          *)
LEMMA OutOfPlace ==
  ASSUME NEW i \in IffType, NEW s \in MetType, Agrees(i, s), i.if_hidden = 0,
         NEW op \in {"elif", "else", "endif"}, i.if_count = 0 \/ (op # "endif" /\ Top(s).has_else)
  PROVE  ~InPlace(s, op)
<1>1. i.if_count \in Nat
  BY DEF IffType
<1>2. CASE i.if_count = 0
  <2>1. s.open = <<>>
    BY <1>2, AgreesSays
  <2> QED BY <2>1 DEF InPlace, Opens
<1>3. CASE i.if_count > 0 /\ op # "endif" /\ Top(s).has_else
  <2>1. ~Skips(s)
    BY <1>3, InnermostFrame
  <2> QED BY <1>3, <2>1 DEF InPlace, Opens
<1> QED BY <1>1, <1>2, <1>3

(* The flags keep their types.                                             *)
LEMMA FlagsTyped ==
  ASSUME NEW i \in IffType, NEW f \in 0 .. 3
  PROVE  /\ [i EXCEPT !.if_false = 2] \in IffType
         /\ [i EXCEPT !.if_has_else = FALSE, !.if_false = f] \in IffType
<1>1. [i EXCEPT !.if_false = 2] \in IffType
  BY DEF IffType
<1>2. [i EXCEPT !.if_has_else = FALSE] \in IffType
  BY DEF IffType
<1>3. [[i EXCEPT !.if_has_else = FALSE] EXCEPT !.if_false = f] \in IffType
  BY <1>2 DEF IffType
<1> QED BY <1>1, <1>3

LEMMA ElseIfMet ==
  ASSUME IInv, CInv, ElseIf
  PROVE  CInv'
<1> DEFINE v == Condition(Next1)
           wrong == iff.if_hidden = 0 /\ (iff.if_count = 0 \/ iff.if_has_else)
<1>1. v \in BOOLEAN
  BY ConditionSound DEF ElseIf
<1>2. /\ Next1.op = "elif" /\ met' = Meet(met, "elif", v) /\ Faulty("if", wrong)
      /\ iff' = IF iff.if_false # 0 /\ iff.if_hidden > 0 THEN iff
                ELSE IF iff.if_count = 0
                THEN [iff EXCEPT !.if_has_else = FALSE, !.if_false = IF @ # 0 THEN @ ELSE IfFalse(v)]
                ELSE Elif(iff, v)
  BY DEF ElseIf, Directive, Meets
<1>3. iff \in IffType /\ met \in MetType
  BY DEF CInv
<1>4. iff.if_count \in Nat /\ iff.if_hidden \in Nat /\ iff.if_false \in 0 .. 3 /\ iff.if_has_else \in BOOLEAN
  BY <1>3 DEF IffType
<1> HIDE DEF v
<1>5. iff' \in IffType
  <2>1. IfFalse(v) \in 0 .. 3
    BY DEF IfFalse
  <2>2. Elif(iff, v) \in IffType
    <3> DEFINE f == IfFalse(v)
    <3>1. f \in 0 .. 3
      BY <2>1
    <3>2. \/ Elif(iff, v) = [iff EXCEPT !.if_false = 2]
          \/ Elif(iff, v) = [iff EXCEPT !.if_has_else = FALSE, !.if_false = f]
      BY DEF Elif
    <3> HIDE DEF f
    <3>3. [iff EXCEPT !.if_false = 2] \in IffType /\ [iff EXCEPT !.if_has_else = FALSE, !.if_false = f] \in IffType
      BY <1>3, <3>1, FlagsTyped
    <3> QED BY <3>2, <3>3
  <2>3. [iff EXCEPT !.if_has_else = FALSE, !.if_false = IF @ # 0 THEN @ ELSE IfFalse(v)] \in IffType
    BY <1>3, <1>4, <2>1 DEF IffType
  <2> QED BY <1>2, <1>3, <2>2, <2>3
<1>6. CASE ~met.good
  <2>1. met' \in MetType /\ ~met'.good /\ met'.deep = met.deep
    BY <1>2, <1>3, <1>6, MeetBad
  <2> QED BY <1>2, <1>4, <1>5, <1>6, <2>1, MetStep
<1>7. CASE met.good
  <2>1. Agrees(iff, met)
    BY <1>7 DEF CInv
  <2>2. CASE iff.if_hidden > 0
    <3>1. iff.if_false # 0
      BY <2>1, <2>2 DEF Agrees, Nesting
    <3>2. iff' = iff /\ ~wrong
      BY <1>2, <1>4, <2>2, <3>1
    <3>3. met' \in MetType /\ met'.good /\ met'.deep = met.deep /\ Agrees(iff, met')
      BY <1>1, <1>2, <1>3, <1>7, <2>1, <2>2, HiddenAgrees
    <3> QED BY <1>2, <1>4, <1>5, <1>7, <3>2, <3>3, MetStep
  <2>3. CASE iff.if_hidden = 0 /\ iff.if_count = 0
    <3>1. ~InPlace(met, "elif")
      BY <1>3, <2>1, <2>3, OutOfPlace
    <3>2. met' \in MetType /\ ~met'.good /\ met'.deep = met.deep
      BY <1>2, <1>3, <3>1, MeetBad
    <3> QED BY <1>2, <1>4, <1>5, <1>7, <2>3, <3>2, MetStep
  <2>4. CASE iff.if_hidden = 0 /\ iff.if_count > 0 /\ Top(met).has_else
    <3>1. ~InPlace(met, "elif")
      BY <1>3, <2>1, <2>4, OutOfPlace
    <3>2. met' \in MetType /\ ~met'.good /\ met'.deep = met.deep
      BY <1>2, <1>3, <3>1, MeetBad
    <3>3. met.deep \/ wrong
      BY <1>3, <1>4, <2>1, <2>4, InnermostFrame
    <3> QED BY <1>2, <1>4, <1>5, <1>7, <3>2, <3>3, MetStep
  <2>5. CASE iff.if_hidden = 0 /\ iff.if_count > 0 /\ ~Top(met).has_else
    <3>1. iff' = Elif(iff, v)
      BY <1>2, <2>5
    <3>2. ~wrong
      BY <1>3, <1>4, <2>1, <2>5, InnermostFrame
    <3>3. met' \in MetType /\ met'.good /\ met'.deep = met.deep /\ Agrees(Elif(iff, v), met')
      BY <1>1, <1>2, <1>3, <1>7, <2>1, <2>5, ElifAgrees
    <3> QED BY <1>2, <1>4, <1>5, <1>7, <3>1, <3>2, <3>3, MetStep
  <2> QED BY <1>4, <2>2, <2>3, <2>4, <2>5
<1> QED BY <1>6, <1>7

LEMMA ElseMet ==
  ASSUME CInv, Else
  PROVE  CInv'
<1> DEFINE wrong == iff.if_hidden = 0 /\ (iff.if_count = 0 \/ iff.if_has_else)
<1>1. /\ Next1.op = "else" /\ met' = Meet(met, "else", TRUE) /\ Faulty("if", wrong)
      /\ iff' = IF iff.if_hidden > 0 THEN iff
                ELSE [iff EXCEPT !.if_false = IF iff.if_count = 0 THEN @ ELSE Flip(@), !.if_has_else = TRUE]
  BY DEF Else, Directive, Meets
<1>2. iff \in IffType /\ met \in MetType
  BY DEF CInv
<1>3. iff.if_count \in Nat /\ iff.if_hidden \in Nat /\ iff.if_false \in 0 .. 3 /\ iff.if_has_else \in BOOLEAN
  BY <1>2 DEF IffType
<1>4. iff' \in IffType
  <2>1. Flip(iff.if_false) \in 0 .. 3
    BY <1>3 DEF Flip
  <2>2. [iff EXCEPT !.if_false = IF iff.if_count = 0 THEN @ ELSE Flip(@), !.if_has_else = TRUE] \in IffType
    BY <1>2, <1>3, <2>1 DEF IffType
  <2> QED BY <1>1, <1>2, <2>2
<1>5. CASE ~met.good
  <2>1. met' \in MetType /\ ~met'.good /\ met'.deep = met.deep
    BY <1>1, <1>2, <1>5, MeetBad
  <2> QED BY <1>1, <1>3, <1>4, <1>5, <2>1, MetStep
<1>6. CASE met.good
  <2>1. Agrees(iff, met)
    BY <1>6 DEF CInv
  <2>2. CASE iff.if_hidden > 0
    <3>1. iff' = iff /\ ~wrong
      BY <1>1, <1>3, <2>2
    <3>2. met' \in MetType /\ met'.good /\ met'.deep = met.deep /\ Agrees(iff, met')
      BY <1>1, <1>2, <1>6, <2>1, <2>2, HiddenAgrees
    <3> QED BY <1>1, <1>3, <1>4, <1>6, <3>1, <3>2, MetStep
  <2>3. CASE iff.if_hidden = 0 /\ iff.if_count = 0
    <3>1. ~InPlace(met, "else")
      BY <1>2, <2>1, <2>3, OutOfPlace
    <3>2. met' \in MetType /\ ~met'.good /\ met'.deep = met.deep
      BY <1>1, <1>2, <3>1, MeetBad
    <3> QED BY <1>1, <1>3, <1>4, <1>6, <2>3, <3>2, MetStep
  <2>4. CASE iff.if_hidden = 0 /\ iff.if_count > 0 /\ Top(met).has_else
    <3>1. ~InPlace(met, "else")
      BY <1>2, <2>1, <2>4, OutOfPlace
    <3>2. met' \in MetType /\ ~met'.good /\ met'.deep = met.deep
      BY <1>1, <1>2, <3>1, MeetBad
    <3>3. met.deep \/ wrong
      BY <1>2, <1>3, <2>1, <2>4, InnermostFrame
    <3> QED BY <1>1, <1>3, <1>4, <1>6, <3>2, <3>3, MetStep
  <2>5. CASE iff.if_hidden = 0 /\ iff.if_count > 0 /\ ~Top(met).has_else
    <3>1. iff' = Elsed(iff)
      <4>1. iff.if_count # 0 /\ ~(iff.if_hidden > 0)
        BY <2>5, <1>3
      <4>2. iff' = [iff EXCEPT !.if_false = IF iff.if_count = 0 THEN @ ELSE Flip(@), !.if_has_else = TRUE]
        BY <1>1, <4>1
      <4> HIDE DEF wrong
      <4> QED BY <4>1, <4>2 DEF Elsed
    <3>2. ~wrong
      BY <1>2, <1>3, <2>1, <2>5, InnermostFrame
    <3>3. met' \in MetType /\ met'.good /\ met'.deep = met.deep /\ Agrees(Elsed(iff), met')
      BY <1>1, <1>2, <1>6, <2>1, <2>5, ElseAgrees
    <3> QED BY <1>1, <1>3, <1>4, <1>6, <3>1, <3>2, <3>3, MetStep
  <2> QED BY <1>3, <2>2, <2>3, <2>4, <2>5
<1> QED BY <1>5, <1>6

LEMMA EndIfMet ==
  ASSUME CInv, EndIf
  PROVE  CInv'
<1> DEFINE wrong == iff.if_hidden = 0 /\ iff.if_count = 0
<1>1. /\ Next1.op = "endif" /\ met' = Meet(met, "endif", TRUE) /\ Faulty("if", wrong)
      /\ iff' = IF iff.if_hidden > 0 THEN [iff EXCEPT !.if_hidden = @ - 1]
                ELSE IF iff.if_count = 0 THEN iff ELSE Ended(iff)
  BY DEF EndIf, Directive, Meets, Ended
<1>2. iff \in IffType /\ met \in MetType
  BY DEF CInv
<1>3. /\ iff.if_count \in Nat /\ iff.if_hidden \in Nat /\ iff.if_false \in 0 .. 3
      /\ iff.if_has_else \in BOOLEAN /\ iff.if_stack \in Seq(BOOLEAN)
  BY <1>2 DEF IffType
<1>4. iff' \in IffType
  <2>1. CASE iff.if_hidden > 0
    BY <1>1, <1>2, <2>1 DEF IffType
  <2>2. CASE iff.if_hidden = 0 /\ iff.if_count = 0
    BY <1>1, <1>2, <2>2
  <2>3. CASE iff.if_hidden = 0 /\ iff.if_count > 0
    <3> DEFINE low == LowBit(iff.if_stack)
               rest == ShiftOut(iff.if_stack)
    <3>1. low \in BOOLEAN /\ rest \in Seq(BOOLEAN)
      <4>1. CASE iff.if_stack = <<>>
        BY <1>3, <4>1 DEF LowBit, ShiftOut
      <4>2. CASE iff.if_stack # <<>>
        BY <1>3, <4>2 DEF LowBit, ShiftOut, Front, Last
      <4> QED BY <4>1, <4>2
    <3>2. iff' = [iff EXCEPT !.if_count = @ - 1, !.if_false = 0, !.if_has_else = low, !.if_stack = rest]
      BY <1>1, <1>2, <2>3 DEF Ended, IffType
    <3> HIDE DEF low, rest
    <3>3. iff' = [if_count |-> iff.if_count - 1, if_false |-> 0, if_has_else |-> low,
                  if_hidden |-> iff.if_hidden, if_stack |-> rest]
      BY <1>2, <3>2 DEF IffType
    <3>4. iff.if_count - 1 \in Nat
      BY <1>3, <2>3
    <3> QED BY <1>3, <3>1, <3>3, <3>4 DEF IffType
  <2> QED BY <1>3, <2>1, <2>2, <2>3
<1>5. CASE ~met.good
  <2>1. met' \in MetType /\ ~met'.good /\ met'.deep = met.deep
    BY <1>1, <1>2, <1>5, MeetBad
  <2> QED BY <1>1, <1>3, <1>4, <1>5, <2>1, MetStep
<1>6. CASE met.good
  <2>1. Agrees(iff, met)
    BY <1>6 DEF CInv
  <2>2. CASE iff.if_hidden > 0
    <3>1. iff' = [iff EXCEPT !.if_hidden = @ - 1] /\ ~wrong
      BY <1>1, <1>3, <2>2
    <3>2. met' \in MetType /\ met'.good /\ met'.deep = met.deep /\ Agrees([iff EXCEPT !.if_hidden = @ - 1], met')
      BY <1>1, <1>2, <1>6, <2>1, <2>2, UnhideAgrees
    <3> QED BY <1>1, <1>3, <1>4, <1>6, <3>1, <3>2, MetStep
  <2>3. CASE iff.if_hidden = 0 /\ iff.if_count = 0
    <3>1. ~InPlace(met, "endif")
      BY <1>2, <2>1, <2>3, OutOfPlace
    <3>2. met' \in MetType /\ ~met'.good /\ met'.deep = met.deep
      BY <1>1, <1>2, <3>1, MeetBad
    <3> QED BY <1>1, <1>3, <1>4, <1>6, <2>3, <3>2, MetStep
  <2>4. CASE iff.if_hidden = 0 /\ iff.if_count > 0
    <3>1. iff' = Ended(iff) /\ ~wrong
      BY <1>1, <2>4
    <3>2. met' \in MetType /\ met'.good /\ met'.deep = met.deep /\ Agrees(Ended(iff), met')
      BY <1>1, <1>2, <1>6, <2>1, <2>4, EndAgrees
    <3> QED BY <1>1, <1>3, <1>4, <1>6, <3>1, <3>2, MetStep
  <2> QED BY <1>3, <2>2, <2>3, <2>4
<1> QED BY <1>5, <1>6

(* No other step has to do with conditionals.                              *)
LEMMA SameMet ==
  ASSUME CInv, iff' = iff, met' = met, fault' = fault
  PROVE  CInv'
BY DEF CInv

LEMMA OtherMet ==
  ASSUME CInv, iff' = iff, met' = met, NEW what, what # "if", NEW wrong, Faulty(what, wrong)
  PROVE  CInv'
<1>1. fault' = fault \/ fault' = fault \cup {what}
  BY DEF Faulty
<1>2. "if" \in fault' <=> "if" \in fault
  BY <1>1
<1> QED BY <1>2 DEF CInv

LEMMA InitMet == Init => CInv
<1> SUFFICES ASSUME Init PROVE CInv
  OBVIOUS
<1>1. /\ iff = [if_count |-> 0, if_false |-> 0, if_has_else |-> FALSE, if_hidden |-> 0, if_stack |-> <<>>]
      /\ met = [good |-> TRUE, deep |-> FALSE, open |-> <<>>] /\ fault = {}
  BY DEF Init
<1>2. <<>> \in Seq(BOOLEAN) /\ <<>> \in Seq(FrameType) /\ Len(<<>>) = 0
  OBVIOUS
<1>3. iff \in IffType /\ met \in MetType
  BY <1>1, <1>2 DEF IffType, MetType
<1>4. Nesting(0, iff, met) /\ Elses(0, iff, met)
  BY <1>1, <1>2 DEF Nesting, Elses, Had
<1>5. Bits(0, iff.if_stack, met)
  <2>1. Len(iff.if_stack) = 0 /\ IFBITS \in Nat
    BY <1>1, <1>2, CppAssumption
  <2>2. \A j \in 1 .. 0 : FALSE
    OBVIOUS
  <2>3. Len(iff.if_stack) <= 0 /\ Len(iff.if_stack) <= IFBITS /\ Len(iff.if_stack) >= 0 - 1
    BY <2>1
  <2> QED BY <2>1, <2>2, <2>3 DEF Bits
<1>6. Agrees(iff, met)
  BY <1>1, <1>4, <1>5 DEF Agrees
<1> QED BY <1>1, <1>3, <1>6 DEF CInv

LEMMA NextMet == IInv /\ CInv /\ [Next]_vars => CInv'
<1> SUFFICES ASSUME IInv, CInv, [Next]_vars PROVE CInv'
  OBVIOUS
<1>1. CASE White \/ Plain \/ SkipSpace \/ Bracket \/ PopLevel \/ PopFile \/ Object \/ Function
           \/ NoBracket \/ Argument \/ Insert \/ Inserted \/ Done \/ UNCHANGED vars
  <2>1. iff' = iff /\ met' = met /\ fault' = fault
    BY <1>1 DEF White, Plain, SkipSpace, Bracket, PopLevel, PopFile, Object, Function,
                NoBracket, Argument, Insert, Inserted, Done, vars
  <2> QED BY <2>1, SameMet
<1>2. CASE Called \/ CalledAtEnd
  <2>1. iff' = iff /\ met' = met /\ Faulty("arguments", Count = 0 /\ (call.found \/ call.commas > 0))
    BY <1>2 DEF Called, CalledAtEnd
  <2> QED BY <2>1, OtherMet
<1>3. CASE Define \/ Undef
  <2>1. iff' = iff /\ met' = met /\ Faulty("in use", InUse(Next1.name))
    BY <1>3 DEF Define, Undef, Change
  <2> QED BY <2>1, OtherMet
<1>4. CASE Ignored
  <2>1. iff' = iff /\ met' = met /\ Faulty("unknown", iff.if_false = 0 /\ Next1.op = "unknown")
    BY <1>4 DEF Ignored
  <2> QED BY <2>1, OtherMet
<1>5. CASE Include
  <2>1. iff' = iff /\ met' = met /\ (fault' = fault \/ Faulty("include", TRUE))
    BY <1>5 DEF Include
  <2> QED BY <2>1, OtherMet, SameMet
<1>6. CASE If
  BY <1>6, IfMet
<1>7. CASE ElseIf
  BY <1>7, ElseIfMet
<1>8. CASE Else
  BY <1>8, ElseMet
<1>9. CASE EndIf
  BY <1>9, EndIfMet
<1> QED BY <1>1, <1>2, <1>3, <1>4, <1>5, <1>6, <1>7, <1>8, <1>9 DEF Next

(* After any sequence of conditionals, in any text and at any depth, the   *)
(* counters of do_proc_if, do_proc_else and do_proc_endif take the text    *)
(* that the rules of the language take; and a directive that is out of     *)
(* place is complained of, unless an #else was shifted out of if_stack.    *)
THEOREM CppConditions == Spec => []ConditionsRight
<1>1. CInv => ConditionsRight
  <2> SUFFICES ASSUME CInv PROVE ConditionsRight
    OBVIOUS
  <2>1. met.good => (iff.if_false = 0 <=> Takes(met))
    BY AgreesSays DEF CInv
  <2> QED BY <2>1 DEF CInv, ConditionsRight
<1>2. Init => IInv /\ CInv
  BY InitInv, InitMet
<1>3. IInv /\ CInv /\ [Next]_vars => (IInv /\ CInv)'
  BY NextInv, NextMet
<1> QED BY <1>1, <1>2, <1>3, PTL DEF Spec
=============================================================================
