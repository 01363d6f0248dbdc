--------------------------- MODULE AssemblerProofs --------------------------
(***************************************************************************)
(* Proofs about Assembler, for all programs, macros, files and limits: the *)
(* flags of the conditionals are those of the IFs that are open; counters, *)
(* stacks and symbols keep their types and limits; and the linker reads    *)
(* from the object file what the lines of the last pass said.              *)
(*                                                                         *)
(* The second half has four parts: the reader, linkmod, command by         *)
(* command; the writer, which stands for what the reader will have made of *)
(* all that was given to it; what each line of code does to symbols,       *)
(* counters and code; and where the lines come from.                       *)
(***************************************************************************)
EXTENDS Assembler, SequenceTheorems, NaturalsInduction, WellFoundedInduction, TLAPS

Flags == [ifflag : BOOLEAN, elseflag : BOOLEAN]
FrameType == [taken : BOOLEAN, now : BOOLEAN]

(* Flags that are right for the first k of the frames m: code is assembled *)
(* if they all say so, and an ELSE is if those around it do and no branch  *)
(* of its own was taken.                                                   *)
AllNow(m, k) == \A i \in 1 .. k : m[i].now
Right(f, m, k) ==
    /\ f.ifflag <=> AllNow(m, k)
    /\ k > 0 => (f.elseflag <=> AllNow(m, k - 1) /\ ~m[k].taken)

(* What is saved at each depth is right for the frames around it, so that  *)
(* ENDIF brings back what is right again.                                  *)
Types ==
    /\ iff.ifflag \in BOOLEAN /\ iff.elseflag \in BOOLEAN
    /\ iff.stack \in Seq(Flags) /\ met \in Seq(FrameType) /\ Len(met) = Len(iff.stack)
    /\ iff = [ifflag |-> iff.ifflag, elseflag |-> iff.elseflag, stack |-> iff.stack]
FlagsInv ==
    /\ Types
    /\ Right(iff, met, Len(met))
    /\ \A k \in 1 .. Len(met) : Right(iff.stack[k], met, k - 1)

(* Only the frames that it is about count.                                 *)
LEMMA RightKept ==
  ASSUME NEW k \in Nat, NEW f, NEW m, NEW n, \A i \in 1 .. k : m[i] = n[i], Right(f, m, k)
  PROVE  Right(f, n, k)
<1>1. AllNow(m, k) <=> AllNow(n, k)
  BY DEF AllNow
<1>2. k > 0 => (AllNow(m, k - 1) <=> AllNow(n, k - 1)) /\ m[k] = n[k]
  BY DEF AllNow
<1> QED BY <1>1, <1>2 DEF Right

(* The flags after IF, ELSEIF and ELSE, from those before.                 *)
LEMMA AllNowLast ==
  ASSUME NEW k \in Nat, k > 0, NEW m
  PROVE  AllNow(m, k) <=> AllNow(m, k - 1) /\ m[k].now
<1>1. \A i \in 1 .. k : i \in 1 .. k - 1 \/ i = k
  OBVIOUS
<1>2. \A i \in 1 .. k - 1 : i \in 1 .. k
  OBVIOUS
<1>3. k \in 1 .. k
  OBVIOUS
<1> QED BY <1>1, <1>2, <1>3 DEF AllNow

(* IF.                                                                     *)
LEMMA IfFlags ==
  ASSUME FlagsInv, If
  PROVE  FlagsInv'
<1> DEFINE k == Len(met)
           false == ~Unknown /\ Condition.value = 0
           saved == [ifflag |-> iff.ifflag, elseflag |-> iff.elseflag]
           new == [ifflag |-> iff.ifflag /\ ~false, elseflag |-> iff.ifflag /\ false, stack |-> Append(iff.stack, saved)]
<1>1. CASE iff' = iff /\ met' = met
  BY <1>1 DEF FlagsInv, Types
<1>2. CASE iff' = new /\ met' = Append(met, Frame(~false))
  <2>1. false \in BOOLEAN
    OBVIOUS
  <2> HIDE DEF false
  <2>2. /\ k \in Nat /\ iff.stack \in Seq(Flags) /\ met \in Seq(FrameType) /\ Len(iff.stack) = k
        /\ iff.ifflag \in BOOLEAN /\ iff.elseflag \in BOOLEAN /\ saved \in Flags
    BY DEF FlagsInv, Types, Flags
  <2>3. Frame(~false) \in FrameType /\ Frame(~false).now = ~false /\ Frame(~false).taken = ~false
    BY <2>1 DEF Frame, FrameType
  <2> HIDE DEF k
  <2>4. /\ met' \in Seq(FrameType) /\ Len(met') = k + 1 /\ met'[k + 1] = Frame(~false)
        /\ \A i \in 1 .. k : met'[i] = met[i]
    BY <1>2, <2>2, <2>3 DEF k
  <2>5. /\ iff'.stack = Append(iff.stack, saved)
        /\ iff'.ifflag = (iff.ifflag /\ ~false) /\ iff'.elseflag = (iff.ifflag /\ false)
    BY <1>2
  <2>6. /\ iff'.stack \in Seq(Flags) /\ Len(iff'.stack) = k + 1 /\ iff'.stack[k + 1] = saved
        /\ \A i \in 1 .. k : iff'.stack[i] = iff.stack[i]
    BY <2>2, <2>5
  <2>7. Types'
    BY <1>2, <2>1, <2>2, <2>4, <2>5, <2>6 DEF Types
  <2>8. Right(iff, met, k) /\ \A i \in 1 .. k : Right(iff.stack[i], met, i - 1)
    BY DEF FlagsInv, k
  <2>9. Right(iff, met', k)
    BY <2>2, <2>4, <2>8, RightKept
  <2>10. Right(saved, met', k)
    BY <2>9 DEF Right
  <2> DEFINE f == iff'
  <2>11. Right(f, met', k + 1)
    <3>1. AllNow(met', k + 1) <=> AllNow(met', k) /\ ~false
      <4>1. AllNow(met', k + 1) <=> AllNow(met', (k + 1) - 1) /\ met'[k + 1].now
        BY <2>2, AllNowLast
      <4>2. (k + 1) - 1 = k
        BY <2>2
      <4> QED BY <4>1, <4>2, <2>3, <2>4
    <3>2. iff.ifflag <=> AllNow(met', k)
      BY <2>9 DEF Right
    <3>4. ~met'[k + 1].taken <=> false
      BY <2>3, <2>4
    <3>5. (iff'.ifflag <=> AllNow(met', k + 1)) /\ (iff'.elseflag <=> AllNow(met', k) /\ ~met'[k + 1].taken)
      BY <2>1, <2>5, <3>1, <3>2, <3>4
    <3> DEFINE h == k + 1
    <3>6. h - 1 = k
      BY <2>2
    <3> HIDE DEF f, h
    <3>7. AllNow(met', h - 1) <=> AllNow(met', k)
      BY <3>6
    <3>8. (f.ifflag <=> AllNow(met', h)) /\ (f.elseflag <=> AllNow(met', k) /\ ~met'[h].taken)
      BY <3>5 DEF f, h
    <3>9. Right(f, met', h)
      BY <3>7, <3>8 DEF Right
    <3> QED BY <3>9 DEF h
  <2>12. ASSUME NEW i \in 1 .. k + 1
         PROVE  Right(iff'.stack[i], met', i - 1)
    <3>1. CASE i = k + 1
      <4>1. i - 1 = k
        BY <2>2, <3>1
      <4> QED BY <2>6, <2>10, <3>1, <4>1
    <3>2. CASE i \in 1 .. k
      <4>1. i - 1 \in Nat /\ \A j \in 1 .. i - 1 : met[j] = met'[j]
        BY <2>2, <2>4, <3>2
      <4>2. Right(iff.stack[i], met', i - 1)
        BY <2>8, <3>2, <4>1, RightKept
      <4> QED BY <2>6, <3>2, <4>2
    <3> QED BY <2>2, <3>1, <3>2
  <2> QED BY <2>4, <2>7, <2>11, <2>12 DEF FlagsInv, f
<1> QED BY <1>1, <1>2 DEF If

(* A branch of the innermost IF: its frame and the flags change alike.     *)
LEMMA BranchFlags ==
  ASSUME FlagsInv, iff.stack # <<>>, NEW true \in BOOLEAN, MeetBranch(true),
         iff'.ifflag <=> iff.elseflag /\ true, iff'.elseflag <=> iff.elseflag /\ ~true,
         iff'.stack = iff.stack, iff'.ifflag \in BOOLEAN, iff'.elseflag \in BOOLEAN,
         iff' = [ifflag |-> iff'.ifflag, elseflag |-> iff'.elseflag, stack |-> iff'.stack]
  PROVE  FlagsInv'
<1> DEFINE k == Len(met)
           b == Branch(met[k], true)
<1>1. /\ k \in Nat /\ k > 0 /\ iff.stack \in Seq(Flags) /\ met \in Seq(FrameType) /\ Len(iff.stack) = k
      /\ met[k] \in FrameType /\ Len(met) = k
  BY DEF FlagsInv, Types
<1>2. /\ b \in FrameType /\ (b.taken <=> met[k].taken \/ true) /\ (b.now <=> true /\ ~met[k].taken)
  BY <1>1 DEF Branch, FrameType
<1>3. met' = [met EXCEPT ![k] = b]
  BY DEF MeetBranch
<1> HIDE DEF k, b
<1>4. /\ met' \in Seq(FrameType) /\ Len(met') = k /\ met'[k] = b
      /\ \A i \in 1 .. k - 1 : met'[i] = met[i]
  <2>1. k \in 1 .. Len(met)
    BY <1>1
  <2>2. [met EXCEPT ![k] = b] \in Seq(FrameType) /\ Len([met EXCEPT ![k] = b]) = k
    BY <1>1, <1>2, <2>1
  <2>3. [met EXCEPT ![k] = b][k] = b
    <3>1. k \in DOMAIN met
      BY <1>1, <2>1
    <3> QED BY <3>1
  <2>4. \A i \in 1 .. k - 1 : [met EXCEPT ![k] = b][i] = met[i]
    <3> TAKE i \in 1 .. k - 1
    <3>1. i \in DOMAIN met /\ i # k
      BY <1>1
    <3> QED BY <3>1
  <2> QED BY <1>3, <2>2, <2>3, <2>4
<1>5. Types'
  BY <1>1, <1>4 DEF Types
<1>6. Right(iff, met, k) /\ \A i \in 1 .. k : Right(iff.stack[i], met, i - 1)
  BY DEF FlagsInv, k
<1>7. Right(iff', met', k)
  <2>1. AllNow(met', k - 1) <=> AllNow(met, k - 1)
    BY <1>4 DEF AllNow
  <2>2. iff.elseflag <=> AllNow(met, k - 1) /\ ~met[k].taken
    BY <1>1, <1>6 DEF Right
  <2>3. AllNow(met', k) <=> AllNow(met', k - 1) /\ b.now
    BY <1>1, <1>4, AllNowLast
  <2>4. iff'.ifflag <=> AllNow(met', k)
    BY <1>2, <2>1, <2>2, <2>3
  <2>5. iff'.elseflag <=> AllNow(met', k - 1) /\ ~met'[k].taken
    BY <1>2, <1>4, <2>1, <2>2
  <2> QED BY <2>4, <2>5 DEF Right
<1>8. ASSUME NEW i \in 1 .. k
      PROVE  Right(iff'.stack[i], met', i - 1)
  <2>1. i - 1 \in Nat /\ \A j \in 1 .. i - 1 : met[j] = met'[j]
    BY <1>1, <1>4
  <2> QED BY <1>6, <2>1, RightKept
<1> QED BY <1>4, <1>5, <1>7, <1>8 DEF FlagsInv

(* ELSEIF.                                                                 *)
LEMMA ElseIfFlags ==
  ASSUME FlagsInv, ElseIf
  PROVE  FlagsInv'
<1> DEFINE true == ~Unknown /\ Condition.value # 0
<1>1. CASE iff.stack = <<>>
  <2>1. iff' = iff /\ met' = met
    BY <1>1 DEF ElseIf
  <2> QED BY <2>1 DEF FlagsInv, Types
<1>2. CASE iff.stack # <<>>
  <2>1. MeetBranch(true) /\ iff' = [iff EXCEPT !.ifflag = iff.elseflag /\ true, !.elseflag = @ /\ ~true]
    BY <1>2 DEF ElseIf
  <2>2. true \in BOOLEAN
    OBVIOUS
  <2> HIDE DEF true
  <2>3. /\ iff.elseflag \in BOOLEAN
        /\ iff = [ifflag |-> iff.ifflag, elseflag |-> iff.elseflag, stack |-> iff.stack]
    BY DEF FlagsInv, Types
  <2>4. iff' = [ifflag |-> iff.elseflag /\ true, elseflag |-> iff.elseflag /\ ~true, stack |-> iff.stack]
    BY <2>1, <2>3
  <2> QED BY <1>2, <2>1, <2>2, <2>3, <2>4, BranchFlags
<1> QED BY <1>1, <1>2

(* ELSE.                                                                   *)
LEMMA ElseFlags ==
  ASSUME FlagsInv, Else
  PROVE  FlagsInv'
<1>1. CASE iff.stack = <<>>
  <2>1. iff' = iff /\ met' = met
    BY <1>1 DEF Else
  <2> QED BY <2>1 DEF FlagsInv, Types
<1>2. CASE iff.stack # <<>>
  <2>1. MeetBranch(TRUE) /\ iff' = [iff EXCEPT !.ifflag = iff.elseflag, !.elseflag = FALSE]
    BY <1>2 DEF Else, ElseOf
  <2>2. /\ iff.elseflag \in BOOLEAN
        /\ iff = [ifflag |-> iff.ifflag, elseflag |-> iff.elseflag, stack |-> iff.stack]
    BY DEF FlagsInv, Types
  <2>3. iff' = [ifflag |-> iff.elseflag, elseflag |-> FALSE, stack |-> iff.stack]
    BY <2>1, <2>2
  <2> QED BY <1>2, <2>1, <2>2, <2>3, BranchFlags
<1> QED BY <1>1, <1>2

(* ENDIF.                                                                  *)
LEMMA EndIfFlags ==
  ASSUME FlagsInv, EndIf
  PROVE  FlagsInv'
<1> DEFINE k == Len(met)
           top == iff.stack[k]
<1>1. CASE iff.stack = <<>>
  <2>1. iff' = iff /\ met' = met
    BY <1>1 DEF EndIf
  <2> QED BY <2>1 DEF FlagsInv, Types
<1>2. CASE iff.stack # <<>>
  <2>1. /\ k \in Nat /\ k > 0 /\ iff.stack \in Seq(Flags) /\ met \in Seq(FrameType) /\ Len(iff.stack) = k
        /\ top \in Flags /\ Len(met) = k
    BY <1>2 DEF FlagsInv, Types
  <2>2. /\ iff' = [ifflag |-> top.ifflag, elseflag |-> top.elseflag, stack |-> SubSeq(iff.stack, 1, k - 1)]
        /\ met' = SubSeq(met, 1, k - 1)
    BY <1>2, <2>1 DEF EndIf, Front, Last
  <2> HIDE DEF k, top
  <2>3. /\ SubSeq(met, 1, k - 1) \in Seq(FrameType) /\ Len(SubSeq(met, 1, k - 1)) = k - 1
        /\ \A i \in 1 .. k - 1 : SubSeq(met, 1, k - 1)[i] = met[i]
    BY <2>1
  <2>4. /\ SubSeq(iff.stack, 1, k - 1) \in Seq(Flags) /\ Len(SubSeq(iff.stack, 1, k - 1)) = k - 1
        /\ \A i \in 1 .. k - 1 : SubSeq(iff.stack, 1, k - 1)[i] = iff.stack[i]
    BY <2>1
  <2>5. top.ifflag \in BOOLEAN /\ top.elseflag \in BOOLEAN
    BY <2>1 DEF Flags
  <2>6. /\ iff'.ifflag = top.ifflag /\ iff'.elseflag = top.elseflag /\ iff'.stack = SubSeq(iff.stack, 1, k - 1)
    BY <2>2
  <2>7. Types'
    BY <2>2, <2>3, <2>4, <2>5, <2>6 DEF Types
  <2>8. \A i \in 1 .. k : Right(iff.stack[i], met, i - 1)
    BY DEF FlagsInv, k
  <2>9. k - 1 \in Nat /\ k \in 1 .. k
    BY <2>1
  <2>10. Right(iff', met', k - 1)
    <3>1. Right(top, met, k - 1)
      BY <2>8, <2>9 DEF top
    <3>2. Right(top, met', k - 1)
      BY <2>2, <2>3, <2>9, <3>1, RightKept
    <3> QED BY <2>6, <3>2 DEF Right
  <2>11. ASSUME NEW i \in 1 .. k - 1
         PROVE  Right(iff'.stack[i], met', i - 1)
    <3>1. i \in 1 .. k /\ i - 1 \in Nat /\ \A j \in 1 .. i - 1 : met[j] = met'[j]
      BY <2>1, <2>2, <2>3
    <3>2. Right(iff.stack[i], met', i - 1)
      BY <2>8, <3>1, RightKept
    <3> QED BY <2>4, <2>6, <3>2
  <2> QED BY <2>2, <2>3, <2>7, <2>10, <2>11 DEF FlagsInv
<1> QED BY <1>1, <1>2

(* A pass begins with no IF open, whatever the one before left.            *)
LEMMA FreshFlags ==
  ASSUME iff'.ifflag = TRUE, iff'.elseflag \in BOOLEAN, iff'.stack = <<>>, met' = <<>>,
         iff' = [ifflag |-> iff'.ifflag, elseflag |-> iff'.elseflag, stack |-> iff'.stack]
  PROVE  FlagsInv'
<1>1. <<>> \in Seq(Flags) /\ <<>> \in Seq(FrameType) /\ Len(<<>>) = 0
  OBVIOUS
<1>2. Types'
  BY <1>1 DEF Types
<1>3. AllNow(met', 0)
  BY DEF AllNow
<1>4. Right(iff', met', 0)
  BY <1>3 DEF Right
<1> QED BY <1>1, <1>2, <1>4 DEF FlagsInv

(* Other lines.                                                            *)
LEMMA SameFlags ==
  ASSUME FlagsInv, iff' = iff, met' = met
  PROVE  FlagsInv'
BY DEF FlagsInv, Types

(* The end of a file or of a pass.                                         *)
LEMMA EndFlags ==
  ASSUME FlagsInv, NEW left, Proceof(left)
  PROVE  FlagsInv'
<1>1. CASE iff' = iff /\ met' = met
  BY <1>1, SameFlags
<1>2. CASE NextPass
  <2>1. iff' = [iff EXCEPT !.ifflag = TRUE, !.stack = <<>>] /\ met' = <<>>
    BY <1>2 DEF NextPass
  <2>2. iff = [ifflag |-> iff.ifflag, elseflag |-> iff.elseflag, stack |-> iff.stack] /\ iff.elseflag \in BOOLEAN
    BY DEF FlagsInv, Types
  <2>3. iff' = [ifflag |-> TRUE, elseflag |-> iff.elseflag, stack |-> <<>>]
    BY <2>1, <2>2
  <2> QED BY <2>1, <2>2, <2>3, FreshFlags
<1> QED BY <1>1, <1>2 DEF Proceof, Finish, ghosts

(* No IF is open at first.                                                 *)
LEMMA InitFlags == Init => FlagsInv
<1> SUFFICES ASSUME Init PROVE FlagsInv
  OBVIOUS
<1>1. iff = [ifflag |-> TRUE, elseflag |-> FALSE, stack |-> <<>>] /\ met = <<>>
  BY DEF Init, Assembling
<1>2. <<>> \in Seq(Flags) /\ <<>> \in Seq(FrameType) /\ Len(<<>>) = 0
  OBVIOUS
<1>3. Types
  BY <1>1, <1>2 DEF Types
<1>4. AllNow(met, 0)
  BY DEF AllNow
<1>5. Right(iff, met, 0)
  BY <1>1, <1>4 DEF Right
<1> QED BY <1>1, <1>2, <1>3, <1>5 DEF FlagsInv

(* All steps.                                                              *)
LEMMA NextFlags == FlagsInv /\ [Next]_vars => FlagsInv'
<1> SUFFICES ASSUME FlagsInv, [Next]_vars PROVE FlagsInv'
  OBVIOUS
<1>1. CASE SkipLine \/ Get \/ Macro \/ LoadLine \/ Call \/ Code \/ Write \/ UNCHANGED vars
  <2>1. iff' = iff /\ met' = met
    BY <1>1 DEF SkipLine, Get, Macro, LoadLine, Call, Code, Write, vars, ghosts
  <2> QED BY <2>1, SameFlags
<1>2. CASE If
  BY <1>2, IfFlags
<1>3. CASE ElseIf
  BY <1>3, ElseIfFlags
<1>4. CASE Else
  BY <1>4, ElseFlags
<1>5. CASE EndIf
  BY <1>5, EndIfFlags
<1>6. CASE ReachEnd
  BY <1>6, EndFlags DEF ReachEnd
<1>7. CASE End
  BY <1>7, EndFlags DEF End
<1> QED BY <1>1, <1>2, <1>3, <1>4, <1>5, <1>6, <1>7 DEF Next

(* In every pass, file and macro, at every depth, a line is assembled if   *)
(* and only if each IF around it is in its first true branch: what doif,   *)
(* doelseif, pelse and pendif save in ifstak and bring back.               *)
THEOREM AssembledLines == Spec => []IfflagRight
<1>1. FlagsInv => IfflagRight
  <2> SUFFICES ASSUME FlagsInv PROVE IfflagRight
    OBVIOUS
  <2>1. met \in Seq(FrameType) /\ (iff.ifflag <=> AllNow(met, Len(met)))
    BY DEF FlagsInv, Types, Right
  <2> QED BY <2>1 DEF IfflagRight, AllNow
<1> QED BY <1>1, InitFlags, NextFlags, PTL DEF Spec

(* A set of naturals that is not empty has a least element.                *)
LEMMA LeastOf ==
    ASSUME NEW S \in SUBSET Nat, S # {}
    PROVE  \E x \in S : \A y \in S : x <= y
<1> DEFINE R == OpToRel(<, Nat)
<1>1. IsWellFoundedOn(R, Nat)
  BY NatLessThanWellFounded
<1>2. PICK x \in S : \A y \in S : <<y, x>> \notin R
  <2>1. S \subseteq Nat
    OBVIOUS
  <2> HIDE DEF R
  <2> QED
    BY <1>1, <2>1, WFMin
<1>3. x \in Nat /\ \A y \in S : ~(y < x)
  BY <1>2 DEF OpToRel
<1>4. \A y \in S : x <= y
  <2> TAKE y \in S
  <2>1. x \in Nat /\ y \in Nat /\ ~(y < x)
    BY <1>3
  <2> QED
    BY <2>1
<1> QED
  BY <1>4

(* Induction: a set of naturals with 0 and the successors of its elements. *)
LEMMA SetInduction ==
    ASSUME NEW S \in SUBSET Nat, 0 \in S, \A n \in S : n + 1 \in S
    PROVE  S = Nat
<1> SUFFICES ASSUME Nat \ S # {} PROVE FALSE
  OBVIOUS
<1>1. PICK x \in Nat \ S : \A y \in Nat \ S : x <= y
  BY LeastOf
<1>2. x \in Nat /\ x # 0
  BY <1>1
<1>3. x - 1 \in S /\ (x - 1) + 1 = x
  BY <1>1, <1>2
<1> QED
  BY <1>1, <1>3

-----------------------------------------------------------------------------
(* The object file.                                                        *)
Byte == ({"data", "imm", "jump"} \X Nat) \cup ({"byte"} \X Nat \X Int)
AnySeg == Seg \cup {ANYSEG}
AnyName == Name \cup {""}
Absolute == {x \in [is : {"abs"}, count : Nat, bytes : Seq(Byte)] :
                (IF x.count = 0 THEN ABSMAX ELSE x.count) <= Len(x.bytes)}
Command ==
    Absolute \cup [is : {"skip", "size"}, count : Nat] \cup [is : {"seg"}, count : Seg]
    \cup [is : {"offset"}, seg : AnySeg, value : Int, pcr : BOOLEAN]
    \cup [is : {"symbol"}, name : AnyName, value : Int, pcr : BOOLEAN]
    \cup [is : {"end"}]

IsReader(r) ==
    /\ r = [pos |-> r.pos, seg |-> r.seg, relsize |-> r.relsize, cells |-> r.cells]
    /\ r.pos \in [Seg -> Nat] /\ r.seg \in Seg /\ r.relsize \in Nat

(* The reader after a command, field by field.                             *)
LEMMA PlaceReads ==
  ASSUME NEW r, IsReader(r), NEW items \in Seq(Byte)
  PROVE  /\ IsReader(Place(r, items))
         /\ Place(r, items) =
              [pos |-> [r.pos EXCEPT ![r.seg] = @ + Len(items)], seg |-> r.seg, relsize |-> r.relsize,
               cells |-> r.cells \cup {[seg |-> r.seg, at |-> r.pos[r.seg] + k - 1, is |-> items[k]] :
                                          k \in DOMAIN items}]
<1> DEFINE new == {[seg |-> r.seg, at |-> r.pos[r.seg] + k - 1, is |-> items[k]] : k \in DOMAIN items}
           pos == [r.pos EXCEPT ![r.seg] = @ + Len(items)]
<1>1. Place(r, items) = [r EXCEPT !.cells = @ \cup new, !.pos = pos]
  BY DEF Place
<1>2. r = [pos |-> r.pos, seg |-> r.seg, relsize |-> r.relsize, cells |-> r.cells]
  BY DEF IsReader
<1>3. pos \in [Seg -> Nat]
  BY DEF IsReader
<1> HIDE DEF new, pos
<1>4. Place(r, items) = [pos |-> pos, seg |-> r.seg, relsize |-> r.relsize, cells |-> r.cells \cup new]
  BY <1>1, <1>2
<1>5. IsReader(Place(r, items))
  BY <1>3, <1>4 DEF IsReader
<1> QED BY <1>4, <1>5 DEF new, pos

(* An address, of the width that the reader has.                           *)
LEMMA AddressReads ==
  ASSUME NEW r, IsReader(r), NEW what, NEW width \in Nat
  PROVE  /\ IsReader(PlaceAddress(r, what, width))
         /\ PlaceAddress(r, what, width) =
              [pos |-> [r.pos EXCEPT ![r.seg] = @ + width], seg |-> r.seg, relsize |-> r.relsize,
               cells |-> r.cells \cup {[seg |-> r.seg, at |-> r.pos[r.seg], is |-> what]}]
<1> DEFINE new == {[seg |-> r.seg, at |-> r.pos[r.seg], is |-> what]}
           pos == [r.pos EXCEPT ![r.seg] = @ + width]
<1>1. PlaceAddress(r, what, width) = [r EXCEPT !.cells = @ \cup new, !.pos = pos]
  BY DEF PlaceAddress
<1>2. r = [pos |-> r.pos, seg |-> r.seg, relsize |-> r.relsize, cells |-> r.cells]
  BY DEF IsReader
<1>3. pos \in [Seg -> Nat]
  BY DEF IsReader
<1> HIDE DEF new, pos
<1>4. PlaceAddress(r, what, width) = [pos |-> pos, seg |-> r.seg, relsize |-> r.relsize, cells |-> r.cells \cup new]
  BY <1>1, <1>2
<1>5. IsReader(PlaceAddress(r, what, width))
  BY <1>3, <1>4 DEF IsReader
<1> QED BY <1>4, <1>5 DEF new, pos

(* A gap.                                                                  *)
LEMMA SkipReads ==
  ASSUME NEW r, IsReader(r), NEW n \in Nat
  PROVE  /\ IsReader(Read(r, [is |-> "skip", count |-> n]))
         /\ Read(r, [is |-> "skip", count |-> n]) =
              [pos |-> [r.pos EXCEPT ![r.seg] = @ + n], seg |-> r.seg, relsize |-> r.relsize, cells |-> r.cells]
<1> DEFINE pos == [r.pos EXCEPT ![r.seg] = @ + n]
           q == Read(r, [is |-> "skip", count |-> n])
<1>1. q = [r EXCEPT !.pos = pos]
  BY DEF Read
<1>2. r = [pos |-> r.pos, seg |-> r.seg, relsize |-> r.relsize, cells |-> r.cells]
  BY DEF IsReader
<1>3. pos \in [Seg -> Nat]
  BY DEF IsReader
<1> HIDE DEF pos, q
<1>4. q = [pos |-> pos, seg |-> r.seg, relsize |-> r.relsize, cells |-> r.cells]
  BY <1>1, <1>2
<1>5. IsReader(q)
  BY <1>3, <1>4 DEF IsReader
<1> QED BY <1>4, <1>5 DEF pos, q

(* A change of segment, or of the width of addresses.                      *)
LEMMA SegReads ==
  ASSUME NEW r, IsReader(r), NEW n
  PROVE  /\ n \in Seg => /\ IsReader(Read(r, [is |-> "seg", count |-> n]))
                         /\ Read(r, [is |-> "seg", count |-> n]) =
                              [pos |-> r.pos, seg |-> n, relsize |-> r.relsize, cells |-> r.cells]
         /\ n \in Nat => /\ IsReader(Read(r, [is |-> "size", count |-> n]))
                         /\ Read(r, [is |-> "size", count |-> n]) =
                              [pos |-> r.pos, seg |-> r.seg, relsize |-> n, cells |-> r.cells]
<1>1. /\ Read(r, [is |-> "seg", count |-> n]) = [r EXCEPT !.seg = n]
      /\ Read(r, [is |-> "size", count |-> n]) = [r EXCEPT !.relsize = n]
  BY DEF Read
<1>2. r = [pos |-> r.pos, seg |-> r.seg, relsize |-> r.relsize, cells |-> r.cells]
  BY DEF IsReader
<1>3. /\ Read(r, [is |-> "seg", count |-> n]) = [pos |-> r.pos, seg |-> n, relsize |-> r.relsize, cells |-> r.cells]
      /\ Read(r, [is |-> "size", count |-> n]) = [pos |-> r.pos, seg |-> r.seg, relsize |-> n, cells |-> r.cells]
  BY <1>1, <1>2
<1> QED BY <1>3 DEF IsReader

(* Every command leaves a reader.                                          *)
LEMMA ReadType ==
  ASSUME ABSMAX \in Nat, NEW r, IsReader(r), NEW command \in Command
  PROVE  IsReader(Read(r, command))
<1>1. CASE command \in Absolute
  <2> DEFINE n == IF command.count = 0 THEN ABSMAX ELSE command.count
             items == SubSeq(command.bytes, 1, n)
  <2>1. command.bytes \in Seq(Byte) /\ n \in Nat /\ command.is = "abs" /\ n <= Len(command.bytes)
    BY <1>1 DEF Absolute
  <2>2. Read(r, command) = Place(r, items)
    BY <2>1 DEF Read
  <2>3. items \in Seq(Byte)
    <3> HIDE DEF n
    <3>1. items = [i \in 1 .. n |-> command.bytes[i]]
      BY <2>1
    <3> QED BY <2>1, <3>1
  <2> HIDE DEF items
  <2> QED BY <2>2, <2>3, PlaceReads
<1>2. CASE command \in [is : {"skip", "size"}, count : Nat] \cup [is : {"seg"}, count : Seg]
  <2>1. command = [is |-> command.is, count |-> command.count]
    BY <1>2
  <2>2. CASE command.is = "skip"
    BY <1>2, <2>1, <2>2, SkipReads
  <2>3. CASE command.is # "skip"
    BY <1>2, <2>1, <2>3, SegReads
  <2> QED BY <2>2, <2>3
<1>3. CASE command \in [is : {"offset"}, seg : AnySeg, value : Int, pcr : BOOLEAN]
  <2>1. Read(r, command) = PlaceAddress(r, Offset(command, r), r.relsize) /\ r.relsize \in Nat
    BY <1>3 DEF Read, IsReader
  <2> QED BY <2>1, AddressReads
<1>4. CASE command \in [is : {"symbol"}, name : AnyName, value : Int, pcr : BOOLEAN]
  <2>1. Read(r, command) = PlaceAddress(r, Symbol(command, r), r.relsize) /\ r.relsize \in Nat
    BY <1>4 DEF Read, IsReader
  <2> QED BY <2>1, AddressReads
<1>5. CASE command \in [is : {"end"}]
  BY <1>5 DEF Read
<1> QED BY <1>1, <1>2, <1>3, <1>4, <1>5 DEF Command

(* linkmod, command by command.                                            *)
Reads(f, s) == /\ f = [n \in 0 .. Len(s) |-> IF n = 0 THEN Loading ELSE Read(f[n - 1], s[n])]

(* linkmod goes through such states.                                       *)
LEMMA Reader ==
  ASSUME NEW s \in Seq(Command)
  PROVE  \E f : Reads(f, s) /\ linkmod(s) = f[Len(s)]
<1> DEFINE Upto(f, k) == f = [n \in 0 .. k |-> IF n = 0 THEN Loading ELSE Read(f[n - 1], s[n])]
           S == {k \in Nat : \E f : Upto(f, k)}
<1>1. 0 \in S
  <2>1. Upto([n \in 0 .. 0 |-> Loading], 0)
    OBVIOUS
  <2> QED BY <2>1
<1>2. ASSUME NEW n \in S PROVE n + 1 \in S
  <2>1. PICK f : Upto(f, n)
    OBVIOUS
  <2> DEFINE g == [k \in 0 .. n + 1 |-> IF k = n + 1 THEN Read(f[n], s[n + 1]) ELSE f[k]]
  <2>2. n \in Nat
    OBVIOUS
  <2>3. ASSUME NEW k \in 0 .. n + 1
        PROVE  g[k] = IF k = 0 THEN Loading ELSE Read(g[k - 1], s[k])
    <3>1. CASE k = n + 1
      BY <2>2, <3>1
    <3>2. CASE k # n + 1
      <4>1. k \in 0 .. n /\ (k # 0 => k - 1 \in 0 .. n)
        BY <2>2, <3>2
      <4>2. f[k] = IF k = 0 THEN Loading ELSE Read(f[k - 1], s[k])
        BY <2>1, <4>1
      <4> QED BY <2>2, <3>2, <4>1, <4>2
    <3> QED BY <3>1, <3>2
  <2>4. Upto(g, n + 1)
    BY <2>3
  <2> HIDE DEF g, Upto
  <2> QED BY <2>2, <2>4
<1>3. S = Nat
  <2>1. S \subseteq Nat
    OBVIOUS
  <2> HIDE DEF S
  <2> QED BY <1>1, <1>2, <2>1, SetInduction
<1>4. \E f : Upto(f, Len(s))
  BY <1>3
<1> DEFINE read == CHOOSE f : Upto(f, Len(s))
<1>5. Upto(read, Len(s))
  <2> HIDE DEF Upto
  <2> QED BY <1>4
<1>6. linkmod(s) = read[Len(s)]
  BY DEF linkmod
<1> QED BY <1>5, <1>6 DEF Reads

(* One more command is one more step of the reader.                        *)
LEMMA LinkmodSteps ==
  ASSUME ObjectAssumption
  PROVE  /\ linkmod(<<>>) = Loading /\ IsReader(Loading)
         /\ \A s \in Seq(Command) : IsReader(linkmod(s))
         /\ \A s \in Seq(Command) : \A x \in Command : linkmod(Append(s, x)) = Read(linkmod(s), x)
<1>0. ABSMAX \in Nat /\ IsReader(Loading)
  BY DEF ObjectAssumption, Loading, IsReader
<1>1. linkmod(<<>>) = Loading
  <2>1. <<>> \in Seq(Command) /\ Len(<<>>) = 0
    OBVIOUS
  <2>2. PICK f : Reads(f, <<>>) /\ linkmod(<<>>) = f[0]
    BY <2>1, Reader
  <2> QED BY <2>1, <2>2 DEF Reads
<1>2. ASSUME NEW s \in Seq(Command)
      PROVE  IsReader(linkmod(s))
  <2>1. PICK f : Reads(f, s) /\ linkmod(s) = f[Len(s)]
    BY Reader
  <2> DEFINE S == {n \in Nat : n <= Len(s) => IsReader(f[n])}
  <2>2. 0 \in S
    BY <1>0, <2>1 DEF Reads
  <2>3. ASSUME NEW n \in S, n + 1 <= Len(s) PROVE IsReader(f[n + 1])
    <3>1. n + 1 \in 1 .. Len(s) /\ n + 1 \in 0 .. Len(s) /\ n + 1 # 0 /\ (n + 1) - 1 = n /\ n <= Len(s)
      BY <2>3
    <3>2. s[n + 1] \in Command
      BY <3>1
    <3>3. f[n + 1] = Read(f[n], s[n + 1])
      BY <2>1, <3>1 DEF Reads
    <3> QED BY <1>0, <3>1, <3>2, <3>3, ReadType
  <2>4. S = Nat
    <3>1. S \subseteq Nat /\ \A n \in S : n + 1 \in S
      BY <2>3
    <3> HIDE DEF S
    <3> QED BY <2>2, <3>1, SetInduction
  <2> QED BY <2>1, <2>4
<1>3. ASSUME NEW s \in Seq(Command), NEW x \in Command
      PROVE  linkmod(Append(s, x)) = Read(linkmod(s), x)
  <2> DEFINE t == Append(s, x)
  <2>1. t \in Seq(Command) /\ Len(t) = Len(s) + 1 /\ t[Len(s) + 1] = x /\ \A i \in 1 .. Len(s) : t[i] = s[i]
    OBVIOUS
  <2>2. PICK f : Reads(f, s) /\ linkmod(s) = f[Len(s)]
    BY Reader
  <2> HIDE DEF t
  <2>3. PICK g : Reads(g, t) /\ linkmod(t) = g[Len(t)]
    BY <2>1, Reader
  <2> DEFINE S == {n \in Nat : n <= Len(s) => f[n] = g[n]}
  <2>4. 0 \in S
    BY <2>1, <2>2, <2>3 DEF Reads
  <2>5. ASSUME NEW n \in S, n + 1 <= Len(s) PROVE f[n + 1] = g[n + 1]
    <3>1. n + 1 \in 0 .. Len(s) /\ n + 1 \in 0 .. Len(t) /\ n + 1 \in 1 .. Len(s) /\ n + 1 # 0 /\ (n + 1) - 1 = n /\ n <= Len(s)
      BY <2>1, <2>5
    <3>2. f[n + 1] = Read(f[n], s[n + 1]) /\ g[n + 1] = Read(g[n], t[n + 1])
      BY <2>2, <2>3, <3>1 DEF Reads
    <3> QED BY <2>1, <3>1, <3>2
  <2>6. S = Nat
    <3>1. S \subseteq Nat /\ \A n \in S : n + 1 \in S
      BY <2>5
    <3> HIDE DEF S
    <3> QED BY <2>4, <3>1, SetInduction
  <2>7. f[Len(s)] = g[Len(s)]
    BY <2>6
  <2>8. Len(s) + 1 \in 0 .. Len(t) /\ Len(s) + 1 # 0 /\ (Len(s) + 1) - 1 = Len(s)
    BY <2>1
  <2>9. g[Len(s) + 1] = Read(g[Len(s)], t[Len(s) + 1])
    BY <2>3, <2>8 DEF Reads
  <2> QED BY <2>1, <2>2, <2>3, <2>7, <2>9 DEF t
<1> QED BY <1>0, <1>1, <1>2, <1>3

-----------------------------------------------------------------------------
(* The writer stands for what the reader will have made of all that was    *)
(* given to it, what it holds back included.                               *)
IsWriter(o) ==
    /\ o = [abs |-> o.abs, rmb |-> o.rmb, relsize |-> o.relsize, out |-> o.out]
    /\ o.abs \in Seq(Byte) /\ Len(o.abs) <= ABSMAX /\ o.rmb \in Nat /\ o.relsize \in Nat /\ o.out \in Seq(Command)
    /\ o.abs = <<>> \/ o.rmb = 0

Placed(seg, at, bytes) == {[seg |-> seg, at |-> at + k - 1, is |-> bytes[k]] : k \in DOMAIN bytes}
ViewOf(r, abs, rmb) ==
    [pos |-> [r.pos EXCEPT ![r.seg] = @ + (Len(abs) + rmb)], seg |-> r.seg, relsize |-> r.relsize,
     cells |-> r.cells \cup Placed(r.seg, r.pos[r.seg], abs)]
View(o) == ViewOf(linkmod(o.out), o.abs, o.rmb)

(* Bytes put one after the other.                                          *)
LEMMA PlaceMore ==
  ASSUME NEW r, IsReader(r), NEW bytes \in Seq(Byte), NEW byte \in Byte
  PROVE  Place(Place(r, bytes), <<byte>>) = Place(r, Append(bytes, byte))
<1> DEFINE n == Len(bytes)
           b == Append(bytes, byte)
           at == r.pos[r.seg]
           v == Place(r, bytes)
<1>1. n \in Nat /\ b \in Seq(Byte) /\ Len(b) = n + 1 /\ b[n + 1] = byte /\ \A k \in 1 .. n : b[k] = bytes[k]
  OBVIOUS
<1>2. at \in Nat /\ r.pos \in [Seg -> Nat] /\ r.seg \in Seg
  BY DEF IsReader
<1>3. /\ IsReader(v)
      /\ v = [pos |-> [r.pos EXCEPT ![r.seg] = @ + n], seg |-> r.seg, relsize |-> r.relsize,
              cells |-> r.cells \cup Placed(r.seg, at, bytes)]
  BY PlaceReads DEF Placed
<1>4. Place(r, b) = [pos |-> [r.pos EXCEPT ![r.seg] = @ + Len(b)], seg |-> r.seg, relsize |-> r.relsize,
                     cells |-> r.cells \cup Placed(r.seg, at, b)]
  BY <1>1, PlaceReads DEF Placed
<1> HIDE DEF v, n
<1>5. /\ v.pos[v.seg] = at + n /\ v.pos = [r.pos EXCEPT ![r.seg] = @ + n] /\ v.seg = r.seg
      /\ v.relsize = r.relsize /\ v.cells = r.cells \cup Placed(r.seg, at, bytes)
  BY <1>1, <1>2, <1>3
<1>6. Place(v, <<byte>>) =
        [pos |-> [v.pos EXCEPT ![v.seg] = @ + Len(<<byte>>)], seg |-> v.seg, relsize |-> v.relsize,
         cells |-> v.cells \cup Placed(v.seg, v.pos[v.seg], <<byte>>)]
  <2> DEFINE one == <<byte>>
  <2>1. one \in Seq(Byte)
    OBVIOUS
  <2> HIDE DEF one
  <2>2. Place(v, one) =
          [pos |-> [v.pos EXCEPT ![v.seg] = @ + Len(one)], seg |-> v.seg, relsize |-> v.relsize,
           cells |-> v.cells \cup {[seg |-> v.seg, at |-> v.pos[v.seg] + k - 1, is |-> one[k]] : k \in DOMAIN one}]
    <3>1. IsReader(v)
      BY <1>3
    <3> QED BY <2>1, <3>1, PlaceReads
  <2>3. Place(v, one) = [pos |-> [v.pos EXCEPT ![v.seg] = @ + Len(one)], seg |-> v.seg, relsize |-> v.relsize,
                         cells |-> v.cells \cup Placed(v.seg, v.pos[v.seg], one)]
    BY <2>2 DEF Placed
  <2> QED BY <2>3 DEF one
<1>7. [v.pos EXCEPT ![v.seg] = @ + Len(<<byte>>)] = [r.pos EXCEPT ![r.seg] = @ + Len(b)]
  <2>1. Len(<<byte>>) = 1
    OBVIOUS
  <2>2. (at + n) + 1 = at + Len(b)
    BY <1>1, <1>2
  <2>3. [v.pos EXCEPT ![v.seg] = @ + Len(<<byte>>)] = [v.pos EXCEPT ![v.seg] = (at + n) + 1]
    BY <1>5, <2>1
  <2> HIDE DEF b
  <2>4. [v.pos EXCEPT ![v.seg] = (at + n) + 1] = [r.pos EXCEPT ![r.seg] = (at + n) + 1]
    BY <1>2, <1>5
  <2> QED BY <2>2, <2>3, <2>4
<1>8. Placed(r.seg, at, b) = Placed(r.seg, at, bytes) \cup Placed(v.seg, v.pos[v.seg], <<byte>>)
  <2>1. DOMAIN b = 1 .. n + 1 /\ DOMAIN bytes = 1 .. n
    BY <1>1 DEF n
  <2>2. DOMAIN b = (DOMAIN bytes) \cup {n + 1}
    BY <1>1, <2>1
  <2>3. Placed(v.seg, v.pos[v.seg], <<byte>>) = {[seg |-> r.seg, at |-> (at + n) + 1 - 1, is |-> byte]}
    <3>1. DOMAIN <<byte>> = {1} /\ <<byte>>[1] = byte
      OBVIOUS
    <3> QED BY <1>5, <3>1 DEF Placed
  <2>4. at + (n + 1) - 1 = (at + n) + 1 - 1
    BY <1>1, <1>2
  <2> HIDE DEF b
  <2>5. Placed(r.seg, at, b) = {[seg |-> r.seg, at |-> at + k - 1, is |-> b[k]] : k \in (DOMAIN bytes) \cup {n + 1}}
    BY <2>2 DEF Placed
  <2>6. \A k \in DOMAIN bytes : b[k] = bytes[k]
    BY <1>1, <2>1
  <2>7. Placed(r.seg, at, bytes) = {[seg |-> r.seg, at |-> at + k - 1, is |-> b[k]] : k \in DOMAIN bytes}
    BY <2>6 DEF Placed
  <2> DEFINE C(k) == [seg |-> r.seg, at |-> at + k - 1, is |-> b[k]]
  <2>8. C(n + 1) = [seg |-> r.seg, at |-> (at + n) + 1 - 1, is |-> byte]
    BY <1>1, <2>4
  <2>9. {C(k) : k \in (DOMAIN bytes) \cup {n + 1}} = {C(k) : k \in DOMAIN bytes} \cup {C(n + 1)}
    <3> HIDE DEF C
    <3> QED OBVIOUS
  <2> QED BY <2>3, <2>5, <2>7, <2>8, <2>9
<1> HIDE DEF b, at
<1>9. Place(v, <<byte>>) = Place(r, b)
  BY <1>4, <1>5, <1>6, <1>7, <1>8
<1> QED BY <1>9 DEF v, b

(* No bytes.                                                               *)
LEMMA PlaceNothing ==
  ASSUME NEW r, IsReader(r)
  PROVE  Place(r, <<>>) = r
<1>1. <<>> \in Seq(Byte) /\ Len(<<>>) = 0 /\ DOMAIN <<>> = {}
  OBVIOUS
<1>2. Place(r, <<>>) =
        [pos |-> [r.pos EXCEPT ![r.seg] = @ + 0], seg |-> r.seg, relsize |-> r.relsize,
         cells |-> r.cells \cup {[seg |-> r.seg, at |-> r.pos[r.seg] + k - 1, is |-> <<>>[k]] : k \in {}}]
  BY <1>1, PlaceReads
<1>3. [r.pos EXCEPT ![r.seg] = @ + 0] = r.pos
  BY DEF IsReader
<1>4. r.cells \cup {[seg |-> r.seg, at |-> r.pos[r.seg] + k - 1, is |-> <<>>[k]] : k \in {}} = r.cells
  OBVIOUS
<1>5. r = [pos |-> r.pos, seg |-> r.seg, relsize |-> r.relsize, cells |-> r.cells]
  BY DEF IsReader
<1> QED BY <1>2, <1>3, <1>4, <1>5

(* Bytes that are held back, seen as if they were placed.                  *)
LEMMA ViewOfBytes ==
  ASSUME NEW r, IsReader(r), NEW bytes \in Seq(Byte)
  PROVE  ViewOf(r, bytes, 0) = Place(r, bytes)
<1>1. Len(bytes) + 0 = Len(bytes)
  OBVIOUS
<1> QED BY <1>1, PlaceReads DEF ViewOf, Placed

(* With nothing held back it is the reader of the file as it is.           *)
LEMMA ViewType ==
  ASSUME ObjectAssumption, NEW o, IsWriter(o)
  PROVE  /\ IsReader(linkmod(o.out)) /\ IsReader(View(o))
         /\ o.abs = <<>> /\ o.rmb = 0 => View(o) = linkmod(o.out)
<1> DEFINE r == linkmod(o.out)
<1>1. IsReader(r)
  BY LinkmodSteps DEF IsWriter
<1> HIDE DEF r
<1>2. Len(o.abs) + o.rmb \in Nat /\ r.pos[r.seg] \in Nat
  BY <1>1 DEF IsWriter, IsReader
<1>3. [r.pos EXCEPT ![r.seg] = @ + (Len(o.abs) + o.rmb)] \in [Seg -> Nat]
  BY <1>1, <1>2 DEF IsReader
<1>4. IsReader(ViewOf(r, o.abs, o.rmb))
  BY <1>1, <1>3 DEF IsReader, ViewOf
<1>5. ASSUME o.abs = <<>>, o.rmb = 0 PROVE ViewOf(r, o.abs, o.rmb) = r
  <2>1. Len(o.abs) + o.rmb = 0 /\ Placed(r.seg, r.pos[r.seg], o.abs) = {}
    BY <1>5 DEF Placed
  <2>2. [r.pos EXCEPT ![r.seg] = @ + (Len(o.abs) + o.rmb)] = r.pos
    BY <1>1, <1>2, <2>1 DEF IsReader
  <2>3. r = [pos |-> r.pos, seg |-> r.seg, relsize |-> r.relsize, cells |-> r.cells]
    BY <1>1 DEF IsReader
  <2> QED BY <2>1, <2>2, <2>3 DEF ViewOf
<1> QED BY <1>1, <1>4, <1>5 DEF View, r

(* The count of a command says how many bytes follow.                      *)
LEMMA CountReads ==
  ASSUME NEW m \in Nat \ {0}, NEW n \in 1 .. m
  PROVE  n % m \in Nat /\ (IF n % m = 0 THEN m ELSE n % m) = n
<1> DEFINE q == n \div m
           w == n % m
<1>1. q \in Int /\ w \in 0 .. m - 1 /\ n = m * q + w
  OBVIOUS
<1> HIDE DEF q, w
<1>2. q >= 0
  <2> SUFFICES ASSUME q <= -1 PROVE FALSE
    BY <1>1
  <2>1. m * q <= m * (-1)
    BY <1>1
  <2> QED BY <1>1, <2>1
<1>3. CASE q = 0
  <2>1. m * q = 0
    BY <1>3
  <2> QED BY <1>1, <2>1 DEF w
<1>4. CASE q = 1
  <2>1. m * q = m
    BY <1>4
  <2> QED BY <1>1, <2>1 DEF w
<1>5. CASE q >= 2
  <2>1. m * q >= m * 2
    BY <1>1, <1>5
  <2> QED BY <1>1, <2>1
<1> QED BY <1>1, <1>2, <1>3, <1>4, <1>5

(* flushabs and flushrmb write what they hold and change nothing by it.    *)
LEMMA FlushAbs ==
  ASSUME ObjectAssumption, NEW o, IsWriter(o)
  PROVE  /\ IsWriter(flushabs(o)) /\ View(flushabs(o)) = View(o)
         /\ flushabs(o).abs = <<>> /\ flushabs(o).rmb = o.rmb /\ flushabs(o).relsize = o.relsize
<1>1. CASE o.abs = <<>>
  BY <1>1 DEF flushabs
<1>2. CASE o.abs # <<>>
  <2> DEFINE n == Len(o.abs)
             x == [is |-> "abs", count |-> n % ABSMAX, bytes |-> o.abs]
             p == flushabs(o)
             r == linkmod(o.out)
  <2>1. n \in 1 .. ABSMAX /\ ABSMAX \in Nat \ {0} /\ o.rmb = 0 /\ o.abs \in Seq(Byte)
    BY <1>2 DEF IsWriter, ObjectAssumption
  <2>2. n % ABSMAX \in Nat /\ (IF n % ABSMAX = 0 THEN ABSMAX ELSE n % ABSMAX) = n
    BY <2>1, CountReads
  <2>3. x \in Command
    <3> DEFINE m == n % ABSMAX
    <3>1. m \in Nat /\ (IF m = 0 THEN ABSMAX ELSE m) = Len(o.abs)
      BY <2>2
    <3> HIDE DEF m
    <3>2. [is |-> "abs", count |-> m, bytes |-> o.abs] \in Absolute
      BY <2>1, <3>1 DEF Absolute
    <3> QED BY <3>2 DEF Command, m
  <2>4. o = [abs |-> o.abs, rmb |-> o.rmb, relsize |-> o.relsize, out |-> o.out] /\ o.out \in Seq(Command)
    BY DEF IsWriter
  <2>5. p = [putobj1(o, x) EXCEPT !.abs = <<>>]
    BY <1>2 DEF flushabs
  <2> HIDE DEF x, p
  <2>6. p = [abs |-> <<>>, rmb |-> o.rmb, relsize |-> o.relsize, out |-> Append(o.out, x)]
    BY <2>4, <2>5 DEF putobj1
  <2>7. Append(o.out, x) \in Seq(Command)
    BY <2>3, <2>4
  <2>8. <<>> \in Seq(Byte) /\ Len(<<>>) = 0 /\ o.rmb \in Nat /\ o.relsize \in Nat
    BY DEF IsWriter
  <2>9. IsWriter(p)
    BY <2>1, <2>6, <2>7, <2>8 DEF IsWriter
  <2>10. linkmod(p.out) = Read(r, x)
    BY <2>3, <2>4, <2>6, LinkmodSteps
  <2>11. Read(r, x) = Place(r, o.abs)
    <3>1. x.is = "abs" /\ x.bytes = o.abs /\ x.count = n % ABSMAX
      BY DEF x
    <3>2. SubSeq(o.abs, 1, n) = o.abs
      BY <2>1
    <3>3. Read(r, x) = Place(r, SubSeq(x.bytes, 1, IF x.count = 0 THEN ABSMAX ELSE x.count))
      BY <3>1 DEF Read
    <3> QED BY <2>2, <3>1, <3>2, <3>3
  <2>12. IsReader(r)
    BY ViewType
  <2> HIDE DEF r, n
  <2>13. Place(r, o.abs) = ViewOf(r, o.abs, 0)
    BY <2>1, <2>12, ViewOfBytes
  <2>14. View(p) = linkmod(p.out)
    BY <2>1, <2>6, <2>9, ViewType
  <2>15. View(o) = ViewOf(r, o.abs, 0)
    BY <2>1 DEF View, r
  <2> QED BY <2>1, <2>6, <2>9, <2>10, <2>11, <2>13, <2>14, <2>15 DEF p
<1> QED BY <1>1, <1>2

(* The gap that was held back.                                             *)
LEMMA FlushRmb ==
  ASSUME ObjectAssumption, NEW o, IsWriter(o)
  PROVE  /\ IsWriter(flushrmb(o)) /\ View(flushrmb(o)) = View(o)
         /\ flushrmb(o).abs = o.abs /\ flushrmb(o).rmb = 0 /\ flushrmb(o).relsize = o.relsize
<1>1. CASE o.rmb = 0
  BY <1>1 DEF flushrmb
<1>2. CASE o.rmb # 0
  <2> DEFINE x == [is |-> "skip", count |-> o.rmb]
             p == flushrmb(o)
             r == linkmod(o.out)
  <2>1. o.abs = <<>> /\ o.rmb \in Nat /\ o.relsize \in Nat
    BY <1>2 DEF IsWriter
  <2>3. x \in Command
    BY <2>1 DEF Command
  <2>4. o = [abs |-> o.abs, rmb |-> o.rmb, relsize |-> o.relsize, out |-> o.out] /\ o.out \in Seq(Command)
    BY DEF IsWriter
  <2>5. p = [putobj1(o, x) EXCEPT !.rmb = 0]
    BY <1>2 DEF flushrmb
  <2>10. Read(r, x) = [pos |-> [r.pos EXCEPT ![r.seg] = @ + o.rmb], seg |-> r.seg, relsize |-> r.relsize, cells |-> r.cells]
    BY <2>1, ViewType, SkipReads
  <2> HIDE DEF x, p
  <2>6. p = [abs |-> o.abs, rmb |-> 0, relsize |-> o.relsize, out |-> Append(o.out, x)]
    BY <2>4, <2>5 DEF putobj1
  <2>7. Append(o.out, x) \in Seq(Command)
    BY <2>3, <2>4
  <2>8. o.abs \in Seq(Byte) /\ Len(o.abs) <= ABSMAX
    BY DEF IsWriter
  <2>9. IsWriter(p)
    BY <2>1, <2>6, <2>7, <2>8 DEF IsWriter
  <2>11. View(p) = Read(r, x)
    <3>1. View(p) = linkmod(p.out)
      BY <2>1, <2>6, <2>9, ViewType
    <3>2. linkmod(Append(o.out, x)) = Read(linkmod(o.out), x)
      BY <2>3, <2>4, LinkmodSteps
    <3> QED BY <2>6, <3>1, <3>2
  <2> HIDE DEF r
  <2>12. View(o) = Read(r, x)
    <3>1. Len(o.abs) + o.rmb = o.rmb /\ Placed(r.seg, r.pos[r.seg], o.abs) = {}
      BY <2>1 DEF Placed
    <3>2. r.cells \cup {} = r.cells
      OBVIOUS
    <3> QED BY <2>10, <3>1, <3>2 DEF View, ViewOf, r
  <2> QED BY <2>6, <2>9, <2>11, <2>12 DEF p
<1> QED BY <1>1, <1>2

(* putobj writes a command after all that is held back.                    *)
LEMMA PutObj ==
  ASSUME ObjectAssumption, NEW o, IsWriter(o), NEW x \in Command
  PROVE  /\ IsWriter(putobj(o, x)) /\ View(putobj(o, x)) = Read(View(o), x)
         /\ putobj(o, x).abs = <<>> /\ putobj(o, x).rmb = 0 /\ putobj(o, x).relsize = o.relsize
<1> DEFINE a == flushabs(o)
           q == flushrmb(a)
           p == putobj(o, x)
<1>1. IsWriter(a) /\ View(a) = View(o) /\ a.abs = <<>> /\ a.relsize = o.relsize
  BY FlushAbs
<1> HIDE DEF a
<1>2. IsWriter(q) /\ View(q) = View(a) /\ q.abs = <<>> /\ q.rmb = 0 /\ q.relsize = a.relsize
  BY <1>1, FlushRmb
<1>3. p = [q EXCEPT !.out = Append(@, x)]
  BY DEF putobj, putobj1, a
<1> HIDE DEF q, p
<1>4. q = [abs |-> q.abs, rmb |-> q.rmb, relsize |-> q.relsize, out |-> q.out] /\ q.out \in Seq(Command)
  BY <1>2 DEF IsWriter
<1>5. p = [abs |-> <<>>, rmb |-> 0, relsize |-> q.relsize, out |-> Append(q.out, x)]
  BY <1>2, <1>3, <1>4
<1>6. IsWriter(p)
  <2>1. Append(q.out, x) \in Seq(Command)
    BY <1>4
  <2> QED BY <1>2, <1>5, <2>1 DEF IsWriter
<1>7. View(p) = linkmod(p.out) /\ View(q) = linkmod(q.out)
  BY <1>2, <1>5, <1>6, ViewType
<1>8. linkmod(p.out) = Read(linkmod(q.out), x)
  BY <1>4, <1>5, LinkmodSteps
<1> QED BY <1>1, <1>2, <1>5, <1>6, <1>7, <1>8 DEF p

(* putabs puts one more byte there.                                        *)
LEMMA PutAbs ==
  ASSUME ObjectAssumption, NEW o, IsWriter(o), NEW byte \in Byte
  PROVE  /\ IsWriter(putabs(o, byte)) /\ View(putabs(o, byte)) = Place(View(o), <<byte>>)
         /\ putabs(o, byte).relsize = o.relsize
<1> DEFINE a == flushrmb(o)
           q == IF Len(a.abs) >= ABSMAX THEN flushabs(a) ELSE a
           p == putabs(o, byte)
<1>1. IsWriter(a) /\ View(a) = View(o) /\ a.rmb = 0 /\ a.relsize = o.relsize
  BY FlushRmb
<1>3. p = [q EXCEPT !.abs = Append(@, byte)]
  BY DEF putabs
<1> HIDE DEF a
<1>2. /\ IsWriter(q) /\ View(q) = View(a) /\ q.rmb = 0 /\ q.relsize = a.relsize
      /\ Len(q.abs) < ABSMAX
  <2>1. CASE Len(a.abs) >= ABSMAX
    <3>1. q = flushabs(a)
      BY <2>1
    <3>2. ABSMAX > 0 /\ Len(<<>>) = 0
      BY DEF ObjectAssumption
    <3> QED BY <1>1, <3>1, <3>2, FlushAbs
  <2>2. CASE ~(Len(a.abs) >= ABSMAX)
    <3>1. q = a
      BY <2>2
    <3> QED BY <1>1, <2>2, <3>1 DEF IsWriter, ObjectAssumption
  <2> QED BY <2>1, <2>2
<1> HIDE DEF q, p
<1>4. q = [abs |-> q.abs, rmb |-> q.rmb, relsize |-> q.relsize, out |-> q.out] /\ q.out \in Seq(Command) /\ q.abs \in Seq(Byte)
  BY <1>2 DEF IsWriter
<1>5. p = [abs |-> Append(q.abs, byte), rmb |-> 0, relsize |-> q.relsize, out |-> q.out]
  BY <1>2, <1>3, <1>4
<1>6. IsWriter(p)
  <2>1. Append(q.abs, byte) \in Seq(Byte) /\ Len(Append(q.abs, byte)) = Len(q.abs) + 1 /\ Len(q.abs) + 1 <= ABSMAX
    BY <1>2, <1>4 DEF ObjectAssumption
  <2>2. q.relsize \in Nat
    BY <1>2 DEF IsWriter
  <2> QED BY <1>4, <1>5, <2>1, <2>2 DEF IsWriter
<1>7. ViewOf(linkmod(q.out), Append(q.abs, byte), 0) = Place(ViewOf(linkmod(q.out), q.abs, 0), <<byte>>)
  <2> DEFINE r == linkmod(q.out)
             b == Append(q.abs, byte)
  <2>1. IsReader(r) /\ b \in Seq(Byte)
    BY <1>2, <1>4, ViewType
  <2>2. Place(Place(r, q.abs), <<byte>>) = Place(r, b)
    <3> HIDE DEF r
    <3> QED BY <1>4, <2>1, PlaceMore
  <2> HIDE DEF r, b
  <2>3. ViewOf(r, b, 0) = Place(r, b) /\ ViewOf(r, q.abs, 0) = Place(r, q.abs)
    BY <1>4, <2>1, ViewOfBytes
  <2> QED BY <2>2, <2>3 DEF r, b
<1>8. View(p) = ViewOf(linkmod(q.out), Append(q.abs, byte), 0) /\ View(q) = ViewOf(linkmod(q.out), q.abs, 0)
  BY <1>2, <1>5 DEF View
<1> QED BY <1>1, <1>2, <1>5, <1>6, <1>7, <1>8 DEF p

(* accumulate_rmb leaves a gap.                                            *)
LEMMA AccumulateRmb ==
  ASSUME ObjectAssumption, NEW o, IsWriter(o), NEW n \in Nat
  PROVE  /\ IsWriter(accumulate_rmb(o, n)) /\ accumulate_rmb(o, n).relsize = o.relsize
         /\ View(accumulate_rmb(o, n)) =
              [pos |-> [View(o).pos EXCEPT ![View(o).seg] = @ + n], seg |-> View(o).seg,
               relsize |-> View(o).relsize, cells |-> View(o).cells]
<1> DEFINE q == flushabs(o)
           p == accumulate_rmb(o, n)
           r == linkmod(q.out)
<1>1. IsWriter(q) /\ View(q) = View(o) /\ q.abs = <<>> /\ q.relsize = o.relsize
  BY FlushAbs
<1>2. p = [q EXCEPT !.rmb = @ + n]
  BY DEF accumulate_rmb
<1> HIDE DEF q, p
<1>3. q = [abs |-> q.abs, rmb |-> q.rmb, relsize |-> q.relsize, out |-> q.out] /\ q.rmb \in Nat
  BY <1>1 DEF IsWriter
<1>4. p = [abs |-> <<>>, rmb |-> q.rmb + n, relsize |-> q.relsize, out |-> q.out] /\ q.rmb + n \in Nat
  BY <1>1, <1>2, <1>3
<1>5. IsWriter(p)
  BY <1>1, <1>4 DEF IsWriter
<1>6. IsReader(r)
  BY <1>1, ViewType
<1>7. /\ View(p) = ViewOf(r, <<>>, q.rmb + n) /\ View(q) = ViewOf(r, <<>>, q.rmb)
  BY <1>1, <1>4 DEF View
<1> HIDE DEF r
<1>8. r.pos \in [Seg -> Nat] /\ r.seg \in Seg /\ r.pos[r.seg] \in Nat
  BY <1>6 DEF IsReader
<1>9. View(q).pos = [r.pos EXCEPT ![r.seg] = @ + (0 + q.rmb)] /\ View(q).seg = r.seg
      /\ View(q).relsize = r.relsize /\ View(q).cells = r.cells \cup Placed(r.seg, r.pos[r.seg], <<>>)
  BY <1>7 DEF ViewOf
<1>10. r.pos[r.seg] + (0 + (q.rmb + n)) = (r.pos[r.seg] + (0 + q.rmb)) + n
  BY <1>3, <1>8
<1>11. [r.pos EXCEPT ![r.seg] = @ + (0 + (q.rmb + n))] = [View(q).pos EXCEPT ![View(q).seg] = @ + n]
  BY <1>8, <1>9, <1>10
<1>12. View(p) = [pos |-> [r.pos EXCEPT ![r.seg] = @ + (0 + (q.rmb + n))], seg |-> r.seg, relsize |-> r.relsize,
                  cells |-> r.cells \cup Placed(r.seg, r.pos[r.seg], <<>>)]
  BY <1>7 DEF ViewOf
<1> DEFINE v == View(q)
<1> HIDE DEF v
<1>13. View(p) = [pos |-> [v.pos EXCEPT ![v.seg] = @ + n], seg |-> v.seg, relsize |-> v.relsize, cells |-> v.cells]
  BY <1>9, <1>11, <1>12 DEF v
<1>14. v = View(o)
  BY <1>1 DEF v
<1>15. View(p) = [pos |-> [View(o).pos EXCEPT ![View(o).seg] = @ + n], seg |-> View(o).seg,
                  relsize |-> View(o).relsize, cells |-> View(o).cells]
  BY <1>13, <1>14
<1>16. p.relsize = o.relsize
  BY <1>1, <1>4
<1> QED BY <1>5, <1>15, <1>16 DEF p

(* A row of bytes, put one by one.                                         *)
LEMMA PutAbsAll ==
  ASSUME ObjectAssumption, NEW o, IsWriter(o), NEW bytes \in Seq(Byte)
  PROVE  /\ IsWriter(putabsAll(o, bytes)) /\ View(putabsAll(o, bytes)) = Place(View(o), bytes)
         /\ putabsAll(o, bytes).relsize = o.relsize
<1> DEFINE Upto(f, k) == f = [n \in 0 .. k |-> IF n = 0 THEN o ELSE putabs(f[n - 1], bytes[n])]
           Done(p, k) == /\ IsWriter(p) /\ View(p) = Place(View(o), SubSeq(bytes, 1, k))
                         /\ p.relsize = o.relsize
           S == {k \in Nat : k <= Len(bytes) => \E f : Upto(f, k) /\ Done(f[k], k)}
<1>0. IsReader(View(o))
  BY ViewType
<1>1. 0 \in S
  <2> DEFINE f == [n \in 0 .. 0 |-> o]
  <2>1. Upto(f, 0) /\ f[0] = o
    OBVIOUS
  <2>2. SubSeq(bytes, 1, 0) = <<>>
    OBVIOUS
  <2>3. Done(o, 0)
    BY <1>0, <2>2, PlaceNothing
  <2> HIDE DEF Done, Upto, f
  <2> QED BY <2>1, <2>3
<1>2. ASSUME NEW k \in S, k + 1 <= Len(bytes) PROVE \E f : Upto(f, k + 1) /\ Done(f[k + 1], k + 1)
  <2>1. k \in Nat /\ k <= Len(bytes)
    BY <1>2
  <2>2. PICK f : Upto(f, k) /\ Done(f[k], k)
    BY <2>1
  <2> DEFINE v == putabs(f[k], bytes[k + 1])
             g == [n \in 0 .. k + 1 |-> IF n = k + 1 THEN v ELSE f[n]]
  <2>3. ASSUME NEW n \in 0 .. k + 1
        PROVE  g[n] = IF n = 0 THEN o ELSE putabs(g[n - 1], bytes[n])
    <3>1. CASE n = k + 1
      BY <2>1, <3>1
    <3>2. CASE n # k + 1
      <4>1. n \in 0 .. k /\ (n # 0 => n - 1 \in 0 .. k)
        BY <2>1, <3>2
      <4>2. f[n] = IF n = 0 THEN o ELSE putabs(f[n - 1], bytes[n])
        BY <2>2, <4>1
      <4> QED BY <2>1, <3>2, <4>1, <4>2
    <3> QED BY <3>1, <3>2
  <2>4. Upto(g, k + 1) /\ g[k + 1] = v
    <3>1. k + 1 \in 0 .. k + 1
      BY <2>1
    <3> HIDE DEF v
    <3>2. g[k + 1] = v
      BY <3>1
    <3>3. DOMAIN g = 0 .. k + 1 /\ g = [n \in 0 .. k + 1 |-> g[n]]
      OBVIOUS
    <3> HIDE DEF g
    <3>4. g = [n \in 0 .. k + 1 |-> IF n = 0 THEN o ELSE putabs(g[n - 1], bytes[n])]
      BY <2>3, <3>3
    <3> QED BY <3>2, <3>4
  <2>5. Done(v, k + 1)
    <3> DEFINE s == SubSeq(bytes, 1, k)
               b == bytes[k + 1]
    <3>1. b \in Byte /\ s \in Seq(Byte) /\ Append(s, b) = SubSeq(bytes, 1, k + 1)
      <4>1. k + 1 \in 1 .. Len(bytes)
        BY <1>2, <2>1
      <4>2. /\ s \in Seq(Byte) /\ Len(s) = k /\ \A i \in 1 .. k : s[i] = bytes[i]
        BY <1>2, <2>1
      <4>3. SubSeq(bytes, 1, k + 1) \in Seq(Byte) /\ Len(SubSeq(bytes, 1, k + 1)) = k + 1
            /\ \A i \in 1 .. k + 1 : SubSeq(bytes, 1, k + 1)[i] = bytes[i]
        BY <1>2, <2>1
      <4> HIDE DEF s
      <4>4. Append(s, b) \in Seq(Byte) /\ Len(Append(s, b)) = k + 1
            /\ \A i \in 1 .. k + 1 : Append(s, b)[i] = bytes[i]
        BY <4>1, <4>2
      <4> QED BY <2>1, <4>1, <4>2, <4>3, <4>4
    <3> HIDE DEF s, b
    <3>2. /\ IsWriter(putabs(f[k], b)) /\ View(putabs(f[k], b)) = Place(View(f[k]), <<b>>)
          /\ putabs(f[k], b).relsize = f[k].relsize
      BY <2>2, <3>1, PutAbs
    <3>3. Place(Place(View(o), s), <<b>>) = Place(View(o), Append(s, b))
      BY <1>0, <3>1, PlaceMore
    <3> QED BY <2>2, <3>1, <3>2, <3>3 DEF s, b
  <2> HIDE DEF g, v, Upto, Done
  <2> QED BY <2>4, <2>5
<1>3. S = Nat
  <2>1. S \subseteq Nat /\ \A k \in S : k + 1 \in S
    <3> HIDE DEF Upto, Done
    <3> QED BY <1>2
  <2> HIDE DEF S
  <2> QED BY <1>1, <2>1, SetInduction
<1> DEFINE m == Len(bytes)
           put == CHOOSE f : Upto(f, m)
<1>4. PICK f : Upto(f, m) /\ Done(f[m], m)
  <2>1. m \in Nat /\ m <= Len(bytes)
    OBVIOUS
  <2>2. m \in S
    <3> HIDE DEF S, m
    <3> QED BY <1>3, <2>1
  <2> HIDE DEF Upto, Done, m
  <2> QED BY <2>1, <2>2
<1>5. Upto(put, m)
  <2> HIDE DEF Upto
  <2> QED BY <1>4
<1>6. Done(put[m], m)
  <2> DEFINE T == {k \in Nat : k <= m => put[k] = f[k]}
  <2>1. 0 \in T
    <3>1. 0 \in 0 .. m
      OBVIOUS
    <3> HIDE DEF put, m
    <3>2. put[0] = o /\ f[0] = o
      BY <1>4, <1>5, <3>1
    <3> QED BY <3>2
  <2>2. ASSUME NEW k \in T PROVE k + 1 \in T
    <3> SUFFICES ASSUME k + 1 <= m PROVE put[k + 1] = f[k + 1]
      OBVIOUS
    <3>1. k + 1 \in 0 .. m /\ k + 1 # 0 /\ (k + 1) - 1 = k /\ k <= m
      OBVIOUS
    <3>2. put[k + 1] = putabs(put[k], bytes[k + 1]) /\ f[k + 1] = putabs(f[k], bytes[k + 1])
      <4> HIDE DEF put
      <4> QED BY <1>4, <1>5, <3>1
    <3> QED BY <3>1, <3>2
  <2>3. T = Nat
    <3>1. T \subseteq Nat
      OBVIOUS
    <3> HIDE DEF T
    <3> QED BY <2>1, <2>2, <3>1, SetInduction
  <2>4. put[m] = f[m]
    BY <2>3
  <2> HIDE DEF Done, put
  <2> QED BY <1>4, <2>4
<1>7. putabsAll(o, bytes) = put[m]
  BY DEF putabsAll
<1>8. SubSeq(bytes, 1, m) = bytes
  OBVIOUS
<1> HIDE DEF put, m
<1> QED BY <1>6, <1>7, <1>8

Adr == [rel : BOOLEAN, imp : BOOLEAN, seg : AnySeg, value : Int, name : AnyName]
Items == [byte : {"data", "imm", "jump"} \X Nat] \cup [adr : Adr, width : Nat \ {0}, pcr : BOOLEAN]

(* A size that was written is the one that the reader has.                 *)
Agreed(o) == o.relsize = 0 \/ View(o).relsize = o.relsize

(* What an item becomes is what it should be, at the place where the       *)
(* reader is.                                                              *)
Becomes(r, item, q) ==
    /\ q.pos = [r.pos EXCEPT ![r.seg] = @ + Width(item)] /\ q.seg = r.seg
    /\ q.cells = r.cells \cup CellsOf(item, r.seg, r.pos[r.seg])

(* A byte, and an address that needs no relocation, byte by byte.          *)
LEMMA PutBytes ==
  ASSUME ObjectAssumption, NEW o, IsWriter(o), Agreed(o), NEW item \in Items,
         IsByte(item) \/ ~item.adr.rel
  PROVE  LET p == PutItem(o, item) IN IsWriter(p) /\ Agreed(p) /\ Becomes(View(o), item, View(p))
<1> DEFINE r == View(o)
           p == PutItem(o, item)
<1>1. IsReader(r) /\ r.relsize = View(o).relsize
  BY ViewType
<1>2. CASE IsByte(item)
  <2>1. item.byte \in Byte /\ Width(item) = 1 /\ p = putabs(o, item.byte)
        /\ CellsOf(item, r.seg, r.pos[r.seg]) = {[seg |-> r.seg, at |-> r.pos[r.seg], is |-> item.byte]}
    <3>1. item \in [byte : {"data", "imm", "jump"} \X Nat]
      BY <1>2 DEF Items, IsByte
    <3>2. item.byte \in Byte
      BY <3>1 DEF Byte
    <3> QED BY <1>2, <3>2 DEF Width, PutItem, CellsOf
  <2>2. IsWriter(p) /\ View(p) = Place(r, <<item.byte>>) /\ p.relsize = o.relsize
    BY <2>1, PutAbs
  <2> HIDE DEF p, r
  <2>3. View(p) = [pos |-> [r.pos EXCEPT ![r.seg] = @ + 1], seg |-> r.seg, relsize |-> r.relsize,
                   cells |-> r.cells \cup {[seg |-> r.seg, at |-> r.pos[r.seg] + k - 1, is |-> <<item.byte>>[k]] : k \in {1}}]
    <3>1. <<item.byte>> \in Seq(Byte) /\ Len(<<item.byte>>) = 1 /\ DOMAIN <<item.byte>> = {1}
      BY <2>1
    <3> QED BY <1>1, <2>2, <3>1, PlaceReads
  <2>4. r.pos[r.seg] \in Nat
    BY <1>1 DEF IsReader
  <2>5. {[seg |-> r.seg, at |-> r.pos[r.seg] + k - 1, is |-> <<item.byte>>[k]] : k \in {1}} = CellsOf(item, r.seg, r.pos[r.seg])
    <3>1. r.pos[r.seg] + 1 - 1 = r.pos[r.seg]
      BY <2>4
    <3> QED BY <2>1, <3>1
  <2>6. Becomes(r, item, View(p))
    BY <2>1, <2>3, <2>5 DEF Becomes
  <2>7. Agreed(p)
    BY <1>1, <2>2, <2>3 DEF Agreed, r
  <2> QED BY <2>2, <2>6, <2>7 DEF p, r
<1>3. CASE ~IsByte(item)
  <2> DEFINE bytes == Bytes(item.adr.value, item.width)
             w == item.width
  <2>1. item.adr \in Adr /\ w \in Nat \ {0} /\ ~item.adr.rel /\ item.adr.value \in Int
    <3>1. item \in [adr : Adr, width : Nat \ {0}, pcr : BOOLEAN]
      BY <1>3 DEF Items, IsByte
    <3> QED BY <1>3, <3>1 DEF Adr
  <2>2. bytes \in Seq(Byte) /\ Len(bytes) = w /\ DOMAIN bytes = 1 .. w
    <3>1. \A k \in 1 .. w : <<"byte", k, item.adr.value>> \in Byte
      BY <2>1 DEF Byte
    <3>2. bytes \in [1 .. w -> Byte]
      BY <3>1 DEF Bytes
    <3> HIDE DEF bytes, w
    <3> QED BY <2>1, <3>2
  <2>3. Width(item) = w /\ p = putabsAll(o, bytes)
        /\ CellsOf(item, r.seg, r.pos[r.seg]) = {[seg |-> r.seg, at |-> r.pos[r.seg] + k - 1, is |-> bytes[k]] : k \in 1 .. w}
    BY <1>3, <2>1 DEF Width, PutItem, CellsOf, genobjadr
  <2> HIDE DEF bytes, w
  <2>4. IsWriter(p) /\ View(p) = Place(r, bytes) /\ p.relsize = o.relsize
    BY <2>2, <2>3, PutAbsAll
  <2> HIDE DEF p, r
  <2>5. View(p) = [pos |-> [r.pos EXCEPT ![r.seg] = @ + w], seg |-> r.seg, relsize |-> r.relsize,
                   cells |-> r.cells \cup CellsOf(item, r.seg, r.pos[r.seg])]
    BY <1>1, <2>2, <2>3, <2>4, PlaceReads
  <2>6. Becomes(r, item, View(p))
    BY <2>3, <2>5 DEF Becomes
  <2>7. Agreed(p)
    BY <1>1, <2>4, <2>5 DEF Agreed, r
  <2> QED BY <2>4, <2>6, <2>7 DEF p, r
<1> QED BY <1>2, <1>3

(* A relocated address: its size first if it is not that of the last one.  *)
LEMMA PutAddress ==
  ASSUME ObjectAssumption, NEW o, IsWriter(o), Agreed(o), NEW item \in Items,
         ~IsByte(item), item.adr.rel
  PROVE  LET p == PutItem(o, item) IN IsWriter(p) /\ Agreed(p) /\ Becomes(View(o), item, View(p))
<1> DEFINE r == View(o)
           p == PutItem(o, item)
           w == item.width
           a == item.adr
           q == IF w = o.relsize THEN o
                ELSE [putobj(o, [is |-> "size", count |-> w]) EXCEPT !.relsize = w]
           x == IF a.imp THEN [is |-> "symbol", name |-> a.name, value |-> a.value, pcr |-> item.pcr]
                ELSE [is |-> "offset", seg |-> a.seg, value |-> a.value, pcr |-> item.pcr]
<1>1. IsReader(r)
  BY ViewType
<1>2. a \in Adr /\ w \in Nat \ {0} /\ a.rel /\ item.pcr \in BOOLEAN
  <2>1. item \in [adr : Adr, width : Nat \ {0}, pcr : BOOLEAN]
    BY DEF Items, IsByte
  <2> QED BY <2>1
<1>3. p = putobj(q, x) /\ Width(item) = w
  BY <1>2 DEF Width, PutItem, genobjadr
<1>4. x \in Command
  BY <1>2 DEF Adr, Command
<1>5. /\ IsWriter(q) /\ q.relsize = w /\ IsReader(View(q)) /\ View(q).relsize = w
      /\ View(q).pos = r.pos /\ View(q).seg = r.seg /\ View(q).cells = r.cells
  <2>1. CASE w = o.relsize
    <3>1. q = o /\ w # 0
      BY <1>2, <2>1
    <3> QED BY <1>1, <2>1, <3>1 DEF Agreed
  <2>2. CASE w # o.relsize
    <3> DEFINE s == [is |-> "size", count |-> w]
               b == putobj(o, s)
    <3>1. s \in Command
      BY <1>2 DEF Command
    <3>2. IsWriter(b) /\ View(b) = Read(r, s)
      BY <3>1, PutObj
    <3>3. Read(r, s) = [pos |-> r.pos, seg |-> r.seg, relsize |-> w, cells |-> r.cells] /\ IsReader(Read(r, s))
      BY <1>1, <1>2, SegReads
    <3>4. q = [b EXCEPT !.relsize = w]
      BY <2>2
    <3> HIDE DEF b, q, s, w
    <3>5. q = [abs |-> b.abs, rmb |-> b.rmb, relsize |-> w, out |-> b.out]
      BY <3>2, <3>4 DEF IsWriter
    <3>6. IsWriter(q) /\ View(q) = View(b)
      BY <1>2, <3>2, <3>5 DEF IsWriter, View
    <3> QED BY <3>2, <3>3, <3>5, <3>6
  <2> QED BY <2>1, <2>2
<1> HIDE DEF q, w, r, x, p, a
<1>6. IsWriter(p) /\ View(p) = Read(View(q), x) /\ p.relsize = w
  BY <1>3, <1>4, <1>5, PutObj
<1>7. Read(View(q), x) = PlaceAddress(View(q), IF a.imp THEN Symbol(x, View(q)) ELSE Offset(x, View(q)), w)
  BY <1>5 DEF Read, x
<1>8. CellsOf(item, r.seg, r.pos[r.seg]) =
        {[seg |-> r.seg, at |-> r.pos[r.seg], is |-> IF a.imp THEN Symbol(x, View(q)) ELSE Offset(x, View(q))]}
  BY <1>2, <1>5 DEF CellsOf, Symbol, Offset, x, a, w
<1>9. View(p) = [pos |-> [r.pos EXCEPT ![r.seg] = @ + w], seg |-> r.seg, relsize |-> w,
                 cells |-> r.cells \cup CellsOf(item, r.seg, r.pos[r.seg])]
  <2> DEFINE what == IF a.imp THEN Symbol(x, View(q)) ELSE Offset(x, View(q))
             v == View(q)
  <2>1. View(p) = PlaceAddress(v, what, w) /\ w \in Nat /\ IsReader(v)
    BY <1>2, <1>5, <1>6, <1>7
  <2>2. CellsOf(item, r.seg, r.pos[r.seg]) = {[seg |-> r.seg, at |-> r.pos[r.seg], is |-> what]}
    BY <1>8
  <2>3. v.relsize = w /\ v.pos = r.pos /\ v.seg = r.seg /\ v.cells = r.cells
    BY <1>5
  <2> HIDE DEF what, v
  <2>4. PlaceAddress(v, what, w) =
          [pos |-> [v.pos EXCEPT ![v.seg] = @ + w], seg |-> v.seg, relsize |-> v.relsize,
           cells |-> v.cells \cup {[seg |-> v.seg, at |-> v.pos[v.seg], is |-> what]}]
    BY <2>1, AddressReads
  <2> QED BY <2>1, <2>2, <2>3, <2>4
<1>10. Becomes(r, item, View(p))
  BY <1>3, <1>9 DEF Becomes
<1>11. Agreed(p)
  BY <1>6, <1>9 DEF Agreed
<1> QED BY <1>6, <1>10, <1>11 DEF p, r

(* genobj, for every item.                                                 *)
LEMMA PutItemRight ==
  ASSUME ObjectAssumption, NEW o, IsWriter(o), Agreed(o), NEW item \in Items
  PROVE  LET p == PutItem(o, item) IN IsWriter(p) /\ Agreed(p) /\ Becomes(View(o), item, View(p))
BY PutBytes, PutAddress

-----------------------------------------------------------------------------
(* What the lines do to symbols leaves counters and code alone.            *)
Flag == {"FOR", "IMP", "REL", "UND"}
SymbolType == [type : SUBSET {"LAB", "RED"}, data : SUBSET Flag, seg : AnySeg, value : Int]
ValueType == [data : SUBSET Flag, seg : AnySeg, value : Int, name : AnyName]
Expression == [name : AnyName, value : Int]

With(c0, sym, dirty, err, stand) ==
    [pass |-> c0.pass, last |-> c0.last, lc |-> c0.lc, seg |-> c0.seg, sym |-> sym, dirty |-> dirty, err |-> err,
     todo |-> c0.todo, o |-> c0.o, cells |-> c0.cells, refs |-> c0.refs, stand |-> stand]
Kept(c0, d) == d = With(c0, d.sym, d.dirty, d.err, d.stand) /\ d.sym \in [Name -> SymbolType]
IsCode(c0) == /\ Kept(c0, c0) /\ c0.pass \in Nat /\ c0.last \in Nat
              /\ c0.lc \in [Seg -> Nat] /\ c0.seg \in Seg

(* Segment 0 is one of them.                                               *)
LEMMA SegZero == ObjectAssumption => 0 \in Seg /\ 0 \in AnySeg /\ Seg \subseteq AnySeg
BY DEF ObjectAssumption, AnySeg

(* One step after the other.                                               *)
LEMMA KeptTrans ==
  ASSUME NEW c0, NEW d, NEW e, Kept(c0, d), Kept(d, e)
  PROVE  Kept(c0, e)
<1>1. /\ d.pass = c0.pass /\ d.last = c0.last /\ d.lc = c0.lc /\ d.seg = c0.seg /\ d.todo = c0.todo
      /\ d.o = c0.o /\ d.cells = c0.cells /\ d.refs = c0.refs
  BY DEF Kept, With
<1>2. With(d, e.sym, e.dirty, e.err, e.stand) = With(c0, e.sym, e.dirty, e.err, e.stand)
  BY <1>1 DEF With
<1> QED BY <1>2 DEF Kept

(* What such a step leaves as it was.                                      *)
LEMMA KeptCode ==
  ASSUME NEW c0, NEW d, IsCode(c0), Kept(c0, d)
  PROVE  /\ IsCode(d) /\ d.pass = c0.pass /\ d.last = c0.last /\ d.lc = c0.lc /\ d.seg = c0.seg
         /\ d.todo = c0.todo /\ d.o = c0.o /\ d.cells = c0.cells /\ d.refs = c0.refs
<1>1. /\ d.pass = c0.pass /\ d.last = c0.last /\ d.lc = c0.lc /\ d.seg = c0.seg /\ d.todo = c0.todo
      /\ d.o = c0.o /\ d.cells = c0.cells /\ d.refs = c0.refs
  BY DEF Kept, With
<1>2. With(d, d.sym, d.dirty, d.err, d.stand) = With(c0, d.sym, d.dirty, d.err, d.stand)
  BY <1>1 DEF With
<1>3. Kept(d, d)
  BY <1>2 DEF Kept
<1> QED BY <1>1, <1>3 DEF IsCode

(* A new entry for a symbol, and what else may change.                     *)
LEMMA SetSymbol ==
  ASSUME NEW c0, IsCode(c0), NEW n \in Name, NEW s \in SymbolType
  PROVE  /\ Kept(c0, [c0 EXCEPT !.sym[n] = s]) /\ [c0 EXCEPT !.sym[n] = s].sym[n] = s
         /\ [c0 EXCEPT !.sym[n] = s].err = c0.err
<1> DEFINE sym == [c0.sym EXCEPT ![n] = s]
           d == [c0 EXCEPT !.sym[n] = s]
<1>1. d = [c0 EXCEPT !.sym = sym]
  OBVIOUS
<1>2. sym \in [Name -> SymbolType] /\ sym[n] = s
  BY DEF IsCode, Kept
<1>3. c0 = With(c0, c0.sym, c0.dirty, c0.err, c0.stand)
  BY DEF IsCode, Kept
<1> HIDE DEF d, sym
<1>4. d = With(c0, sym, c0.dirty, c0.err, c0.stand)
  BY <1>1, <1>3 DEF With
<1>5. d.sym = sym /\ d.dirty = c0.dirty /\ d.err = c0.err /\ d.stand = c0.stand
  BY <1>4 DEF With
<1> QED BY <1>2, <1>4, <1>5 DEF Kept, d

(* Errors, labels that moved and labels that stand.                        *)
LEMMA SetOther ==
  ASSUME NEW c0, IsCode(c0), NEW v
  PROVE  /\ Kept(c0, [c0 EXCEPT !.err = v]) /\ Kept(c0, [c0 EXCEPT !.dirty = v])
         /\ Kept(c0, [c0 EXCEPT !.stand = v])
         /\ [c0 EXCEPT !.stand = v].sym = c0.sym /\ [c0 EXCEPT !.err = v].sym = c0.sym
<1>1. c0 = With(c0, c0.sym, c0.dirty, c0.err, c0.stand) /\ c0.sym \in [Name -> SymbolType]
  BY DEF IsCode, Kept
<1>2. /\ [c0 EXCEPT !.err = v] = With(c0, c0.sym, c0.dirty, v, c0.stand)
      /\ [c0 EXCEPT !.dirty = v] = With(c0, c0.sym, v, c0.err, c0.stand)
      /\ [c0 EXCEPT !.stand = v] = With(c0, c0.sym, c0.dirty, c0.err, v)
  BY <1>1 DEF With
<1> DEFINE a == [c0 EXCEPT !.err = v]
           b == [c0 EXCEPT !.dirty = v]
           s == [c0 EXCEPT !.stand = v]
<1> HIDE DEF a, b, s
<1>3. /\ a = With(c0, c0.sym, c0.dirty, v, c0.stand) /\ b = With(c0, c0.sym, v, c0.err, c0.stand)
      /\ s = With(c0, c0.sym, c0.dirty, c0.err, v)
  BY <1>2 DEF a, b, s
<1>4. /\ a.sym = c0.sym /\ a.dirty = c0.dirty /\ a.err = v /\ a.stand = c0.stand
      /\ b.sym = c0.sym /\ b.dirty = v /\ b.err = c0.err /\ b.stand = c0.stand
      /\ s.sym = c0.sym /\ s.dirty = c0.dirty /\ s.err = c0.err /\ s.stand = v
  BY <1>3 DEF With
<1>5. Kept(c0, a) /\ Kept(c0, b) /\ Kept(c0, s)
  BY <1>1, <1>3, <1>4 DEF Kept
<1> QED BY <1>4, <1>5 DEF a, b, s

(* Errors.                                                                 *)
LEMMA ErrorKeeps ==
  ASSUME NEW c0, IsCode(c0), NEW wrong
  PROVE  /\ Kept(c0, Error(c0)) /\ Kept(c0, ErrorIf(c0, wrong))
         /\ Error(c0).sym = c0.sym /\ ErrorIf(c0, wrong).sym = c0.sym
<1>1. Kept(c0, Error(c0)) /\ Error(c0).sym = c0.sym
  BY SetOther DEF Error
<1>2. Kept(c0, c0)
  BY DEF IsCode
<1> QED BY <1>1, <1>2 DEF ErrorIf

(* Symbols and values by their fields.                                     *)
LEMMA SymbolOf ==
  ASSUME NEW c0, IsCode(c0), NEW n \in Name
  PROVE  /\ c0.sym[n] \in SymbolType
         /\ c0.sym[n] = [type |-> c0.sym[n].type, data |-> c0.sym[n].data, seg |-> c0.sym[n].seg, value |-> c0.sym[n].value]
         /\ c0.sym[n].type \subseteq {"LAB", "RED"} /\ c0.sym[n].data \subseteq Flag
         /\ c0.sym[n].seg \in AnySeg /\ c0.sym[n].value \in Int
<1>1. c0.sym[n] \in SymbolType
  BY DEF IsCode, Kept
<1> QED BY <1>1 DEF SymbolType

(* A name that is used before it is a label.                               *)
LEMMA MentionKeeps ==
  ASSUME NEW c0, IsCode(c0), NEW n \in Name
  PROVE  Kept(c0, Mention(c0, n))
<1> DEFINE s == [c0.sym[n] EXCEPT !.data = @ \cup {"FOR"}]
<1>1. s \in SymbolType
  BY SymbolOf DEF SymbolType, Flag
<1>2. [c0 EXCEPT !.sym[n].data = @ \cup {"FOR"}] = [c0 EXCEPT !.sym[n] = s]
  OBVIOUS
<1> HIDE DEF s
<1>3. Kept(c0, [c0 EXCEPT !.sym[n].data = @ \cup {"FOR"}])
  BY <1>1, <1>2, SetSymbol
<1>4. Kept(c0, c0)
  BY DEF IsCode
<1> QED BY <1>3, <1>4 DEF Mention

(* An undefined value.                                                     *)
LEMMA UndefinedType ==
  ASSUME ObjectAssumption, NEW c0, NEW e \in ValueType
  PROVE  Expundefined(c0, e) \in ValueType /\ Undefined(c0) \subseteq Flag
<1>1. Undefined(c0) \subseteq Flag
  BY DEF Undefined, Flag
<1> QED BY <1>1, SegZero DEF Expundefined, ValueType

(* The value of a name, in each kind of pass.                              *)
LEMMA FactorType ==
  ASSUME ObjectAssumption, NEW c0, IsCode(c0), NEW n \in Name
  PROVE  Factor(c0, n) \in ValueType
<1> DEFINE s == Mention(c0, n).sym[n]
           e == [data |-> s.data, seg |-> s.seg, value |-> s.value, name |-> n]
           few == [e EXCEPT !.data = @ \cap (IF c0.last = 1 THEN {"FOR", "REL", "UND"} ELSE {"REL", "UND"})]
           zero == [e EXCEPT !.value = 0]
<1>1. IsCode(Mention(c0, n))
  BY MentionKeeps, KeptCode
<1>2. s.data \subseteq Flag /\ s.seg \in AnySeg /\ s.value \in Int
  <2> DEFINE d == Mention(c0, n)
  <2> HIDE DEF d
  <2>1. IsCode(d)
    BY <1>1 DEF d
  <2>2. d.sym[n].data \subseteq Flag /\ d.sym[n].seg \in AnySeg /\ d.sym[n].value \in Int
    BY <2>1, SymbolOf
  <2> QED BY <2>2 DEF d
<1>3. Factor(c0, n) = IF ~Bit(c0) THEN few
                     ELSE IF "IMP" \in s.data THEN zero
                     ELSE IF "UND" \in s.data THEN Expundefined(c0, e) ELSE e
  BY DEF Factor
<1> HIDE DEF s
<1>4. e \in ValueType /\ zero \in ValueType /\ few \in ValueType
  <2>1. n \in AnyName
    BY DEF AnyName
  <2>2. e \in ValueType
    BY <1>2, <2>1 DEF ValueType
  <2>3. zero \in ValueType
    BY <2>2 DEF ValueType
  <2>4. few \in ValueType
    <3> DEFINE D == IF c0.last = 1 THEN {"FOR", "REL", "UND"} ELSE {"REL", "UND"}
    <3> HIDE DEF D
    <3>1. few = [data |-> s.data \cap D, seg |-> s.seg, value |-> s.value, name |-> n]
      BY DEF D
    <3>2. s.data \cap D \subseteq Flag
      BY <1>2
    <3> HIDE DEF few
    <3> QED BY <1>2, <2>1, <3>1, <3>2 DEF ValueType
  <2> QED BY <2>2, <2>3, <2>4
<1>5. Expundefined(c0, e) \in ValueType
  BY <1>4, UndefinedType
<1> HIDE DEF e, few, zero
<1> QED BY <1>3, <1>4, <1>5

(* Expressions, and what evaluating them leaves behind.                    *)
LEMMA ValueOf ==
  ASSUME ObjectAssumption, NEW c0, IsCode(c0), NEW x \in Expression
  PROVE  Value(c0, x) \in ValueType /\ Constant(0) \in ValueType /\ Kept(c0, Evaluated(c0, x))
         /\ Kept(c0, AbsEvaluated(c0, x))
<1>1. x.name \in AnyName /\ x.value \in Int
  BY DEF Expression
<1>2. Constant(0) \in ValueType /\ Constant(x.value) \in ValueType
  <2>1. {} \subseteq Flag /\ "" \in AnyName /\ 0 \in AnySeg /\ 0 \in Int
    BY SegZero DEF AnyName
  <2>2. \A v \in Int : Constant(v) \in ValueType
    BY <2>1 DEF Constant, ValueType
  <2> QED BY <1>1, <2>1, <2>2
<1>3. x.name # "" => x.name \in Name
  BY <1>1 DEF AnyName
<1>4. Value(c0, x) \in ValueType
  BY <1>2, <1>3, FactorType DEF Value
<1>5. Kept(c0, Evaluated(c0, x))
  <2>1. CASE x.name = ""
    BY <2>1 DEF Evaluated, IsCode
  <2>2. CASE x.name # ""
    <3> DEFINE d == Mention(c0, x.name)
               e == ErrorIf(d, Unlabelled(c0, x.name))
    <3>1. Kept(c0, d) /\ IsCode(d)
      BY <1>3, <2>2, MentionKeeps, KeptCode
    <3> HIDE DEF d
    <3>2. Kept(d, e)
      BY <3>1, ErrorKeeps
    <3> HIDE DEF e
    <3>3. Kept(c0, e)
      BY <3>1, <3>2, KeptTrans
    <3> QED BY <2>2, <3>3 DEF Evaluated, d, e
  <2> QED BY <2>1, <2>2
<1>6. Kept(c0, AbsEvaluated(c0, x))
  <2> DEFINE d == Evaluated(c0, x)
             wrong == Bit(c0) /\ "REL" \in Value(c0, x).data
  <2>1. IsCode(d)
    BY <1>5, KeptCode
  <2> HIDE DEF wrong, d
  <2>2. Kept(d, ErrorIf(d, wrong))
    BY <2>1, ErrorKeeps
  <2>3. Kept(c0, ErrorIf(d, wrong))
    BY <1>5, <2>2, KeptTrans DEF d
  <2> QED BY <2>3 DEF AbsEvaluated, d, wrong
<1> QED BY <1>2, <1>4, <1>5, <1>6

(* Labels, EQU and IMPORT.                                                 *)
LEMMA LabelHereKeeps ==
  ASSUME ObjectAssumption, NEW c0, IsCode(c0), NEW n \in Name
  PROVE  Kept(c0, LabelHere(c0, n))
<1> DEFINE s == c0.sym[n]
           t == Here(c0, s)
           u == IF c0.pass = 0 THEN s ELSE t
           d == [c0 EXCEPT !.sym[n] = u]
           g == [c0 EXCEPT !.sym[n] = t]
<1>1. s \in SymbolType
  BY SymbolOf
<1>2. t \in SymbolType
  <2>1. c0.seg \in AnySeg /\ c0.lc[c0.seg] \in Int
    BY SegZero DEF IsCode
  <2>2. (s.data \cap {"FOR"}) \cup {"REL"} \subseteq Flag
    BY DEF Flag
  <2> QED BY <1>1, <2>1, <2>2 DEF Here, SymbolType
<1> HIDE DEF s, t
<1>3. u \in SymbolType
  BY <1>1, <1>2
<1> HIDE DEF u
<1>4. Kept(c0, d) /\ Kept(c0, g)
  BY <1>2, <1>3, SetSymbol
<1>5. IsCode(d)
  BY <1>4, KeptCode
<1> HIDE DEF d, g
<1>6. Kept(d, ErrorIf(d, "RED" \in s.type)) /\ Kept(c0, Error(c0))
  BY <1>5, ErrorKeeps
<1>7. Kept(c0, ErrorIf(d, "RED" \in s.type))
  BY <1>4, <1>6, KeptTrans
<1>8. LabelHere(c0, n) = IF "LAB" \in s.type THEN ErrorIf(d, "RED" \in s.type)
                        ELSE IF Conflicting(s, c0) THEN Error(c0) ELSE g
  BY DEF LabelHere, d, g, u, t, s
<1> QED BY <1>4, <1>6, <1>7, <1>8

(* A label that has moved.                                                 *)
LEMMA MovedKeeps ==
  ASSUME NEW c0, IsCode(c0), NEW n, NEW old
  PROVE  Kept(c0, Moved(c0, n, old))
<1> DEFINE d == [c0 EXCEPT !.dirty = TRUE]
<1>1. Kept(c0, d) /\ Kept(c0, c0)
  BY SetOther DEF IsCode
<1>2. IsCode(d)
  BY <1>1, KeptCode
<1> HIDE DEF d
<1>3. Kept(d, ErrorIf(d, Bit(c0)))
  BY <1>2, ErrorKeeps
<1>4. Kept(c0, ErrorIf(d, Bit(c0)))
  BY <1>1, <1>3, KeptTrans
<1> QED BY <1>1, <1>4 DEF Moved, d

(* A label with a colon.                                                   *)
LEMMA LabelKeeps ==
  ASSUME ObjectAssumption, NEW c0, IsCode(c0), NEW n \in Name
  PROVE  Kept(c0, Label(c0, n))
<1> DEFINE h == LabelHere(c0, n)
           t == [h.sym[n] EXCEPT !.type = (@ \ {"RED"}) \cup {"LAB"}]
           here == h.stand \cup {<<n, c0.seg, c0.lc[c0.seg]>>}
           a == [h EXCEPT !.sym[n] = t]
           d == [a EXCEPT !.stand = here]
           m == Moved(d, n, c0.sym[n].value)
<1>1. Kept(c0, h)
  BY LabelHereKeeps
<1>2. IsCode(h)
  BY <1>1, KeptCode
<1>3. CASE ~IsLabel(c0, n)
  BY <1>1, <1>3 DEF Label
<1>4. CASE IsLabel(c0, n)
  <2>1. Label(c0, n) = Moved([h EXCEPT !.sym[n].type = (@ \ {"RED"}) \cup {"LAB"},
                                      !.stand = @ \cup {<<n, c0.seg, c0.lc[c0.seg]>>}], n, c0.sym[n].value)
    BY <1>4 DEF Label
  <2> HIDE DEF h
  <2>2. [h EXCEPT !.sym[n].type = (@ \ {"RED"}) \cup {"LAB"}, !.stand = @ \cup {<<n, c0.seg, c0.lc[c0.seg]>>}] = d
    <3>1. h = With(h, h.sym, h.dirty, h.err, h.stand)
      BY <1>2 DEF IsCode, Kept
    <3>2. a = [h EXCEPT !.sym[n].type = (@ \ {"RED"}) \cup {"LAB"}]
      OBVIOUS
    <3>3. a.stand = h.stand
      BY <3>1 DEF With
    <3> HIDE DEF a, t
    <3>4. [[h EXCEPT !.sym[n].type = (@ \ {"RED"}) \cup {"LAB"}] EXCEPT !.stand = here] = d
      BY <3>2
    <3> QED BY <3>4
  <2>3. t \in SymbolType
    BY <1>2, SymbolOf DEF SymbolType
  <2> HIDE DEF t, here
  <2>4. Kept(h, a)
    BY <1>2, <2>3, SetSymbol
  <2>5. IsCode(a)
    BY <1>2, <2>4, KeptCode
  <2> HIDE DEF a
  <2>6. Kept(a, d)
    BY <2>5, SetOther
  <2>7. IsCode(d)
    BY <2>5, <2>6, KeptCode
  <2> HIDE DEF d
  <2>8. Kept(d, m)
    BY <2>7, MovedKeeps
  <2> HIDE DEF m
  <2>9. Kept(c0, m)
    BY <1>1, <2>4, <2>6, <2>8, KeptTrans
  <2> QED BY <2>1, <2>2, <2>9 DEF m
<1> QED BY <1>3, <1>4

(* EQU, whose expression is evaluated with the name a label already.       *)
LEMMA EquKeeps ==
  ASSUME ObjectAssumption, NEW c0, IsCode(c0), NEW n \in Name, NEW x \in Expression
  PROVE  Kept(c0, Equ(c0, n, x))
<1> DEFINE d == LabelHere(c0, n)
           olddata == d.sym[n].data
           s == [d.sym[n] EXCEPT !.type = @ \cup {"LAB"}, !.data = @ \ {"IMP"}]
           marked == [d EXCEPT !.sym[n].type = @ \cup {"LAB"}, !.sym[n].data = @ \ {"IMP"}]
           v == Value(marked, x)
           imported == "IMP" \in v.data
           e == IF imported THEN Expundefined(c0, v) ELSE v
           f == ErrorIf(Evaluated(marked, x), imported)
           known == [e EXCEPT !.data = @ \cup (olddata \cap {"FOR"})]
           again == [f EXCEPT !.sym[n].type = @ \cup {"RED"}]
           set == [f EXCEPT !.sym[n].data = known.data, !.sym[n].seg = known.seg, !.sym[n].value = known.value]
<1>1. Kept(c0, d) /\ IsCode(d)
  BY LabelHereKeeps, KeptCode
<1> HIDE DEF d
<1>2. s \in SymbolType /\ olddata \subseteq Flag
  BY <1>1, SymbolOf DEF SymbolType, Flag
<1>3. marked = [d EXCEPT !.sym[n] = s]
  <2>1. d.sym \in [Name -> SymbolType]
    BY <1>1 DEF IsCode, Kept
  <2>2. d = With(d, d.sym, d.dirty, d.err, d.stand)
    BY <1>1 DEF IsCode, Kept
  <2>3. d.sym[n] = [type |-> d.sym[n].type, data |-> d.sym[n].data, seg |-> d.sym[n].seg, value |-> d.sym[n].value]
    BY <1>1, SymbolOf
  <2>4. s = [type |-> d.sym[n].type \cup {"LAB"}, data |-> d.sym[n].data \ {"IMP"}, seg |-> d.sym[n].seg, value |-> d.sym[n].value]
    <3> DEFINE w == d.sym[n]
    <3>1. w = [type |-> w.type, data |-> w.data, seg |-> w.seg, value |-> w.value]
      BY <2>3
    <3>2. s = [w EXCEPT !.type = @ \cup {"LAB"}, !.data = @ \ {"IMP"}]
      OBVIOUS
    <3> HIDE DEF w, s
    <3>3. s = [type |-> w.type \cup {"LAB"}, data |-> w.data \ {"IMP"}, seg |-> w.seg, value |-> w.value]
      BY <3>1, <3>2
    <3> QED BY <3>3 DEF w
  <2> DEFINE t == [d.sym[n] EXCEPT !.type = @ \cup {"LAB"}]
             g == [d EXCEPT !.sym[n] = t]
  <2>5. g.sym[n] = t /\ t.data = d.sym[n].data /\ s = [t EXCEPT !.data = @ \ {"IMP"}]
    BY <2>1, <2>2, <2>3 DEF With
  <2>6. marked = [g EXCEPT !.sym[n].data = @ \ {"IMP"}]
    OBVIOUS
  <2> HIDE DEF s
  <2>7. [g EXCEPT !.sym[n].data = @ \ {"IMP"}] = [g EXCEPT !.sym[n] = s]
    BY <2>5
  <2>8. [g EXCEPT !.sym[n] = s] = [d EXCEPT !.sym[n] = s]
    OBVIOUS
  <2> QED BY <2>6, <2>7, <2>8
<1> HIDE DEF marked, s, olddata
<1>4. Kept(d, marked) /\ IsCode(marked)
  BY <1>1, <1>2, <1>3, SetSymbol, KeptCode
<1>5. v \in ValueType /\ Kept(marked, Evaluated(marked, x))
  BY <1>4, ValueOf
<1> HIDE DEF v
<1>6. e \in ValueType
  BY <1>5, UndefinedType
<1> HIDE DEF e, imported
<1>7. Kept(marked, f) /\ IsCode(f)
  <2> DEFINE g == Evaluated(marked, x)
  <2>1. IsCode(g)
    BY <1>4, <1>5, KeptCode
  <2> HIDE DEF g
  <2>2. Kept(g, ErrorIf(g, imported))
    BY <2>1, ErrorKeeps
  <2>3. Kept(marked, ErrorIf(g, imported))
    BY <1>5, <2>2, KeptTrans DEF g
  <2>4. IsCode(ErrorIf(g, imported))
    BY <1>4, <2>3, KeptCode
  <2> QED BY <2>3, <2>4 DEF g
<1>8. Kept(c0, f)
  <2> HIDE DEF f
  <2> QED BY <1>1, <1>4, <1>7, KeptTrans
<1> HIDE DEF f
<1>9. known.data \subseteq Flag /\ known.seg \in AnySeg /\ known.value \in Int
  BY <1>2, <1>6 DEF ValueType, Flag
<1> HIDE DEF known
<1>10. Kept(c0, again)
  <2> DEFINE t == [f.sym[n] EXCEPT !.type = @ \cup {"RED"}]
  <2>1. t \in SymbolType
    BY <1>7, SymbolOf DEF SymbolType
  <2>2. again = [f EXCEPT !.sym[n] = t]
    OBVIOUS
  <2> HIDE DEF t, again
  <2>3. Kept(f, again)
    BY <1>7, <2>1, <2>2, SetSymbol
  <2> QED BY <1>8, <2>3, KeptTrans
<1>11. Kept(c0, set) /\ IsCode(set)
  <2> DEFINE t == [f.sym[n] EXCEPT !.data = known.data, !.seg = known.seg, !.value = known.value]
  <2>1. t \in SymbolType
    BY <1>7, <1>9, SymbolOf DEF SymbolType
  <2>2. set = [f EXCEPT !.sym[n] = t]
    <3>1. f.sym \in [Name -> SymbolType]
      BY <1>7 DEF IsCode, Kept
    <3>2. f = With(f, f.sym, f.dirty, f.err, f.stand)
      BY <1>7 DEF IsCode, Kept
    <3> DEFINE a == [f EXCEPT !.sym[n].data = known.data]
               b == [a EXCEPT !.sym[n].seg = known.seg]
    <3>3. a = [f EXCEPT !.sym[n] = [f.sym[n] EXCEPT !.data = known.data]] /\ a.sym[n] = [f.sym[n] EXCEPT !.data = known.data]
      BY <3>1, <3>2 DEF With
    <3>4. b = [f EXCEPT !.sym[n] = [f.sym[n] EXCEPT !.data = known.data, !.seg = known.seg]]
          /\ b.sym[n] = [f.sym[n] EXCEPT !.data = known.data, !.seg = known.seg]
      BY <3>1, <3>2, <3>3 DEF With
    <3> DEFINE w == [f.sym[n] EXCEPT !.data = known.data, !.seg = known.seg]
    <3>5. t = [w EXCEPT !.value = known.value] /\ b = [f EXCEPT !.sym[n] = w] /\ b.sym[n] = w
      BY <3>4
    <3>6. set = [b EXCEPT !.sym[n].value = known.value]
      OBVIOUS
    <3> HIDE DEF a, b, w, t, set
    <3>7. set = [b EXCEPT !.sym[n] = t]
      BY <3>5, <3>6
    <3>8. [[f EXCEPT !.sym[n] = w] EXCEPT !.sym[n] = t] = [f EXCEPT !.sym[n] = t]
      OBVIOUS
    <3> QED BY <3>5, <3>7, <3>8
  <2> HIDE DEF t, set
  <2>3. Kept(f, set)
    BY <1>7, <2>1, <2>2, SetSymbol
  <2> QED BY <1>7, <1>8, <2>3, KeptTrans, KeptCode
<1> HIDE DEF again, set
<1>12. Kept(c0, Error(d)) /\ Kept(c0, Moved(set, n, c0.sym[n].value))
  <2>1. Kept(d, Error(d)) /\ Kept(set, Moved(set, n, c0.sym[n].value))
    BY <1>1, <1>11, ErrorKeeps, MovedKeeps
  <2> QED BY <1>1, <1>11, <2>1, KeptTrans
<1>13. Kept(c0, ErrorIf(again, "RED" \notin f.sym[n].type))
  <2>1. IsCode(again)
    BY <1>10, KeptCode
  <2>2. Kept(again, ErrorIf(again, "RED" \notin f.sym[n].type))
    BY <2>1, ErrorKeeps
  <2> QED BY <1>10, <2>2, KeptTrans
<1>14. Equ(c0, n, x) = IF ~IsLabel(c0, n) THEN Error(d)
                      ELSE IF Redefinition(c0, d, n, known) THEN ErrorIf(again, "RED" \notin f.sym[n].type)
                      ELSE Moved(set, n, c0.sym[n].value)
  BY DEF Equ, d, again, set, f, known, e, imported, v, marked, olddata
<1> QED BY <1>12, <1>13, <1>14

(* IMPORT.                                                                 *)
LEMMA ImportKeeps ==
  ASSUME ObjectAssumption, NEW c0, IsCode(c0), NEW n \in Name
  PROVE  Kept(c0, Import(c0, n))
<1> DEFINE s == c0.sym[n]
           data == {"IMP", "REL"} \cup (IF c0.last = 1 THEN {"FOR"} ELSE {})
           set == [c0 EXCEPT !.sym[n].data = data, !.sym[n].seg = c0.seg]
           t == [s EXCEPT !.data = data, !.seg = c0.seg]
<1>1. data \subseteq Flag /\ c0.seg \in AnySeg
  BY SegZero DEF Flag, IsCode
<1> HIDE DEF data
<1>2. t \in SymbolType
  BY <1>1, SymbolOf DEF SymbolType
<1>3. set = [c0 EXCEPT !.sym[n] = t]
  <2>1. c0.sym \in [Name -> SymbolType] /\ c0 = With(c0, c0.sym, c0.dirty, c0.err, c0.stand)
    BY DEF IsCode, Kept
  <2> DEFINE a == [c0 EXCEPT !.sym[n].data = data]
  <2>2. a = [c0 EXCEPT !.sym[n] = [s EXCEPT !.data = data]] /\ a.sym[n] = [s EXCEPT !.data = data]
    BY <2>1 DEF With
  <2>3. [a EXCEPT !.sym[n].seg = c0.seg] = [c0 EXCEPT !.sym[n] = t]
    BY <2>1, <2>2 DEF With
  <2> QED BY <2>3
<1> HIDE DEF t, set
<1>4. Kept(c0, set) /\ Kept(c0, Error(c0))
  BY <1>2, <1>3, SetSymbol, ErrorKeeps
<1>5. Import(c0, n) = IF Conflicting(s, c0) \/ "LAB" \in s.type THEN Error(c0) ELSE set
  BY DEF Import, set, data
<1> QED BY <1>4, <1>5

-----------------------------------------------------------------------------
(* What the lines do to counters and code: in the last pass the reader,    *)
(* who has seen what is written and will see what is held back, is where   *)
(* the location counter is, and has what the lines said so far.            *)
Writing(o, seg, lc, cells) ==
    IsWriter(o) /\ Agreed(o) /\ View(o).seg = seg /\ View(o).pos = lc /\ View(o).cells = cells
CodeInv(c0) ==
    /\ IsCode(c0) /\ c0.todo \in Seq(Items)
    /\ ~Bit(c0) => c0.todo = <<>> /\ c0.o = initobj /\ c0.cells = {}
    /\ Bit(c0) => Writing(c0.o, c0.seg, c0.lc, c0.cells)
SamePass(c0, d) == d.pass = c0.pass /\ d.last = c0.last

Coded(c0, lc, seg, todo, o, cells, refs) ==
    [pass |-> c0.pass, last |-> c0.last, lc |-> lc, seg |-> seg, sym |-> c0.sym, dirty |-> c0.dirty, err |-> c0.err,
     todo |-> todo, o |-> o, cells |-> cells, refs |-> refs, stand |-> c0.stand]

(* Fields of such a state.                                                 *)
LEMMA CodedFields ==
  ASSUME NEW c0, IsCode(c0), NEW lc \in [Seg -> Nat], NEW seg \in Seg, NEW todo, NEW o, NEW cells, NEW refs
  PROVE  LET d == Coded(c0, lc, seg, todo, o, cells, refs) IN
         /\ IsCode(d) /\ SamePass(c0, d) /\ (Bit(d) <=> Bit(c0))
         /\ d.lc = lc /\ d.seg = seg /\ d.todo = todo /\ d.o = o /\ d.cells = cells /\ d.refs = refs
         /\ c0 = Coded(c0, c0.lc, c0.seg, c0.todo, c0.o, c0.cells, c0.refs)
<1> DEFINE d == Coded(c0, lc, seg, todo, o, cells, refs)
<1>1. /\ d.lc = lc /\ d.seg = seg /\ d.todo = todo /\ d.o = o /\ d.cells = cells /\ d.refs = refs
      /\ d.pass = c0.pass /\ d.last = c0.last /\ d.sym = c0.sym /\ d.dirty = c0.dirty /\ d.err = c0.err
      /\ d.stand = c0.stand
  BY DEF Coded
<1>2. d = With(d, d.sym, d.dirty, d.err, d.stand)
  BY <1>1 DEF Coded, With
<1>3. c0 = Coded(c0, c0.lc, c0.seg, c0.todo, c0.o, c0.cells, c0.refs)
  BY DEF IsCode, Kept, With, Coded
<1> HIDE DEF d
<1>4. IsCode(d)
  BY <1>1, <1>2 DEF IsCode, Kept
<1>5. Bit(d) <=> Bit(c0)
  BY <1>1 DEF Bit
<1> QED BY <1>1, <1>3, <1>4, <1>5 DEF d, SamePass

(* Three fields at once.                                                   *)
LEMMA ThreeFields ==
  ASSUME NEW c0, IsCode(c0), NEW todo, NEW o, NEW cells
  PROVE  [c0 EXCEPT !.todo = todo, !.o = o, !.cells = cells] = Coded(c0, c0.lc, c0.seg, todo, o, cells, c0.refs)
<1>1. c0 = With(c0, c0.sym, c0.dirty, c0.err, c0.stand)
  BY DEF IsCode, Kept
<1> DEFINE a == [c0 EXCEPT !.todo = todo]
           b == [a EXCEPT !.o = o]
<1>2. a = Coded(c0, c0.lc, c0.seg, todo, c0.o, c0.cells, c0.refs)
  BY <1>1 DEF With, Coded
<1>3. [[[c0 EXCEPT !.todo = todo] EXCEPT !.o = o] EXCEPT !.cells = cells] = [b EXCEPT !.cells = cells]
  OBVIOUS
<1> HIDE DEF a
<1>4. b = Coded(c0, c0.lc, c0.seg, todo, o, c0.cells, c0.refs)
  BY <1>2 DEF Coded
<1> HIDE DEF b
<1>5. [b EXCEPT !.cells = cells] = Coded(c0, c0.lc, c0.seg, todo, o, cells, c0.refs)
  BY <1>4 DEF Coded
<1> QED BY <1>3, <1>5

(* A step that leaves code alone.                                          *)
LEMMA KeptInv ==
  ASSUME NEW c0, CodeInv(c0), NEW d, Kept(c0, d)
  PROVE  CodeInv(d) /\ SamePass(c0, d)
<1>1. /\ IsCode(d) /\ d.pass = c0.pass /\ d.last = c0.last /\ d.lc = c0.lc /\ d.seg = c0.seg
      /\ d.todo = c0.todo /\ d.o = c0.o /\ d.cells = c0.cells
  BY KeptCode DEF CodeInv
<1>2. Bit(d) <=> Bit(c0)
  BY <1>1 DEF Bit
<1> QED BY <1>1, <1>2 DEF CodeInv, SamePass

(* The ghost that the jumps leave.                                         *)
LEMMA RefsInv ==
  ASSUME NEW c0, CodeInv(c0), NEW refs
  PROVE  CodeInv([c0 EXCEPT !.refs = refs]) /\ SamePass(c0, [c0 EXCEPT !.refs = refs])
<1> DEFINE d == [c0 EXCEPT !.refs = refs]
           e == Coded(c0, c0.lc, c0.seg, c0.todo, c0.o, c0.cells, refs)
<1>1. IsCode(c0) /\ c0.lc \in [Seg -> Nat] /\ c0.seg \in Seg
  BY DEF CodeInv, IsCode
<1>2. /\ IsCode(e) /\ SamePass(c0, e) /\ (Bit(e) <=> Bit(c0)) /\ e.lc = c0.lc /\ e.seg = c0.seg
      /\ e.todo = c0.todo /\ e.o = c0.o /\ e.cells = c0.cells
  BY <1>1, CodedFields
<1>3. d = e
  BY <1>1 DEF IsCode, Kept, With, Coded
<1> HIDE DEF d, e
<1>4. CodeInv(e)
  BY <1>2 DEF CodeInv
<1> QED BY <1>2, <1>3, <1>4 DEF d

(* Widths and lengths.                                                     *)
LEMMA WidthType ==
  ASSUME NEW item \in Items
  PROVE  Width(item) \in Nat
<1>1. CASE IsByte(item)
  BY <1>1 DEF Width
<1>2. CASE ~IsByte(item)
  <2>1. item \in [adr : Adr, width : Nat \ {0}, pcr : BOOLEAN]
    BY <1>2 DEF Items, IsByte
  <2> QED BY <1>2, <2>1 DEF Width
<1> QED BY <1>1, <1>2

(* The length of a row of items.                                           *)
LEMMA LengthType ==
  ASSUME NEW items \in Seq(Items)
  PROVE  Length(items) \in Nat
<1> DEFINE Upto(f, k) == f = [n \in 0 .. k |-> IF n = 0 THEN 0 ELSE f[n - 1] + Width(items[n])]
           m == Len(items)
           S == {k \in Nat : k <= m => \E f : Upto(f, k) /\ f[k] \in Nat}
           upto == CHOOSE f : Upto(f, m)
<1>0. m \in Nat
  OBVIOUS
<1>1. 0 \in S
  <2> DEFINE f == [n \in 0 .. 0 |-> 0]
  <2>1. Upto(f, 0) /\ f[0] \in Nat
    OBVIOUS
  <2> HIDE DEF f, Upto
  <2> QED BY <2>1
<1>2. ASSUME NEW k \in S, k + 1 <= m PROVE \E f : Upto(f, k + 1) /\ f[k + 1] \in Nat
  <2>1. k \in Nat /\ k <= m
    BY <1>2
  <2>2. PICK f : Upto(f, k) /\ f[k] \in Nat
    BY <2>1
  <2> DEFINE v == f[k] + Width(items[k + 1])
             g == [n \in 0 .. k + 1 |-> IF n = k + 1 THEN v ELSE f[n]]
  <2>3. ASSUME NEW n \in 0 .. k + 1
        PROVE  g[n] = IF n = 0 THEN 0 ELSE g[n - 1] + Width(items[n])
    <3>1. CASE n = k + 1
      BY <2>1, <3>1
    <3>2. CASE n # k + 1
      <4>1. n \in 0 .. k /\ (n # 0 => n - 1 \in 0 .. k)
        BY <2>1, <3>2
      <4>2. f[n] = IF n = 0 THEN 0 ELSE f[n - 1] + Width(items[n])
        BY <2>2, <4>1
      <4> QED BY <2>1, <3>2, <4>1, <4>2
    <3> QED BY <3>1, <3>2
  <2>4. Upto(g, k + 1)
    <3>1. g = [n \in 0 .. k + 1 |-> g[n]]
      OBVIOUS
    <3> HIDE DEF g
    <3> QED BY <2>3, <3>1
  <2>5. v \in Nat
    <3>1. items[k + 1] \in Items
      BY <1>2, <2>1
    <3>2. Width(items[k + 1]) \in Nat
      BY <3>1, WidthType
    <3> QED BY <2>2, <3>2
  <2> HIDE DEF v
  <2>6. g[k + 1] = v
    BY <2>1
  <2> HIDE DEF g, Upto
  <2> QED BY <2>4, <2>5, <2>6
<1>3. m \in S
  <2>1. S \subseteq Nat /\ \A k \in S : k + 1 \in S
    <3> HIDE DEF Upto
    <3> QED BY <1>2
  <2> HIDE DEF S, m
  <2> QED BY <1>0, <1>1, <2>1, SetInduction
<1>4. PICK f : Upto(f, m) /\ f[m] \in Nat
  <2> HIDE DEF Upto, m
  <2> QED BY <1>0, <1>3
<1>5. Upto(upto, m)
  <2> HIDE DEF Upto
  <2> QED BY <1>4
<1>6. upto[m] \in Nat
  <2> DEFINE T == {k \in Nat : k <= m => upto[k] \in Nat}
  <2>1. 0 \in T
    <3>1. 0 \in 0 .. m
      OBVIOUS
    <3> HIDE DEF upto, m
    <3> QED BY <1>5, <3>1
  <2>2. ASSUME NEW k \in T PROVE k + 1 \in T
    <3> SUFFICES ASSUME k + 1 <= m PROVE upto[k + 1] \in Nat
      OBVIOUS
    <3>1. k + 1 \in 0 .. m /\ k + 1 # 0 /\ (k + 1) - 1 = k /\ k <= m /\ items[k + 1] \in Items
      OBVIOUS
    <3>2. upto[k + 1] = upto[k] + Width(items[k + 1])
      <4> HIDE DEF upto
      <4> QED BY <1>5, <3>1
    <3>3. Width(items[k + 1]) \in Nat
      BY <3>1, WidthType
    <3> QED BY <3>1, <3>2, <3>3
  <2>3. T = Nat
    <3>1. T \subseteq Nat
      OBVIOUS
    <3> HIDE DEF T
    <3> QED BY <2>1, <2>2, <3>1, SetInduction
  <2> HIDE DEF upto
  <2> QED BY <1>0, <2>3
<1> QED BY <1>6 DEF Length

(* Code that is written later, or counted now.                             *)
LEMMA EmitInv ==
  ASSUME NEW c0, CodeInv(c0), c0.todo = <<>>, NEW items \in Seq(Items)
  PROVE  CodeInv(Emit(c0, items)) /\ SamePass(c0, Emit(c0, items))
<1>1. IsCode(c0) /\ c0.lc \in [Seg -> Nat] /\ c0.seg \in Seg
  BY DEF CodeInv, IsCode
<1>2. CASE Bit(c0)
  <2> DEFINE e == Coded(c0, c0.lc, c0.seg, items, c0.o, c0.cells, c0.refs)
  <2>1. /\ IsCode(e) /\ SamePass(c0, e) /\ Bit(e) /\ e.lc = c0.lc /\ e.seg = c0.seg
        /\ e.todo = items /\ e.o = c0.o /\ e.cells = c0.cells
    BY <1>1, <1>2, CodedFields
  <2>2. Emit(c0, items) = e
    BY <1>1, <1>2 DEF Emit, IsCode, Kept, With, Coded
  <2> HIDE DEF e
  <2>3. CodeInv(e)
    BY <1>2, <2>1 DEF CodeInv
  <2> QED BY <2>1, <2>2, <2>3
<1>3. CASE ~Bit(c0)
  <2> DEFINE lc == [c0.lc EXCEPT ![c0.seg] = @ + Length(items)]
             e == Coded(c0, lc, c0.seg, c0.todo, c0.o, c0.cells, c0.refs)
  <2>1. lc \in [Seg -> Nat]
    BY <1>1, LengthType
  <2>2. Emit(c0, items) = [c0 EXCEPT !.lc = lc]
    BY <1>3 DEF Emit, Advance
  <2> HIDE DEF lc
  <2>3. [c0 EXCEPT !.lc = lc] = e
    BY <1>1 DEF IsCode, Kept, With, Coded
  <2>4. /\ IsCode(e) /\ SamePass(c0, e) /\ ~Bit(e)
        /\ e.todo = c0.todo /\ e.o = c0.o /\ e.cells = c0.cells
    BY <1>1, <1>3, <2>1, CodedFields
  <2> HIDE DEF e
  <2>5. CodeInv(e)
    BY <1>3, <2>4 DEF CodeInv
  <2> QED BY <2>2, <2>3, <2>4, <2>5
<1> QED BY <1>2, <1>3

(* RMB and ALIGN.                                                          *)
LEMMA SkipInv ==
  ASSUME ObjectAssumption, NEW c0, CodeInv(c0), c0.todo = <<>>, NEW n \in Nat
  PROVE  CodeInv(Skip(c0, n)) /\ SamePass(c0, Skip(c0, n))
<1> DEFINE lc == [c0.lc EXCEPT ![c0.seg] = @ + n]
           o == IF Bit(c0) THEN accumulate_rmb(c0.o, n) ELSE c0.o
           e == Coded(c0, lc, c0.seg, c0.todo, o, c0.cells, c0.refs)
<1>1. IsCode(c0) /\ c0.lc \in [Seg -> Nat] /\ c0.seg \in Seg /\ lc \in [Seg -> Nat]
  BY DEF CodeInv, IsCode
<1>2. Skip(c0, n) = e
  <2>1. c0 = With(c0, c0.sym, c0.dirty, c0.err, c0.stand)
    BY <1>1 DEF IsCode, Kept
  <2>2. accumulate(c0, n) = Coded(c0, c0.lc, c0.seg, c0.todo, o, c0.cells, c0.refs)
    BY <2>1 DEF accumulate, Coded, With
  <2> DEFINE d == accumulate(c0, n)
  <2> HIDE DEF d
  <2>3. d.lc = c0.lc /\ d.seg = c0.seg
    BY <2>2 DEF d, Coded
  <2>4. Skip(c0, n) = [d EXCEPT !.lc = lc]
    BY <2>3 DEF Skip, Advance, d
  <2> HIDE DEF lc, o
  <2> QED BY <2>2, <2>4 DEF Coded, d
<1>3. /\ IsCode(e) /\ SamePass(c0, e) /\ (Bit(e) <=> Bit(c0)) /\ e.lc = lc /\ e.seg = c0.seg
      /\ e.todo = c0.todo /\ e.o = o /\ e.cells = c0.cells
  <2> HIDE DEF lc, o
  <2> QED BY <1>1, CodedFields
<1>4. Bit(c0) => Writing(o, c0.seg, lc, c0.cells)
  <2> SUFFICES ASSUME Bit(c0) PROVE Writing(o, c0.seg, lc, c0.cells)
    OBVIOUS
  <2> DEFINE v == View(c0.o)
  <2>1. IsWriter(c0.o) /\ Agreed(c0.o) /\ v.seg = c0.seg /\ v.pos = c0.lc /\ v.cells = c0.cells
    BY DEF CodeInv, Writing
  <2>2. o = accumulate_rmb(c0.o, n)
    OBVIOUS
  <2> HIDE DEF v, o
  <2>3. /\ IsWriter(o) /\ o.relsize = c0.o.relsize
        /\ View(o) = [pos |-> [v.pos EXCEPT ![v.seg] = @ + n], seg |-> v.seg, relsize |-> v.relsize, cells |-> v.cells]
    BY <2>1, <2>2, AccumulateRmb DEF v
  <2>4. Agreed(o)
    BY <2>1, <2>3 DEF Agreed, v
  <2> QED BY <2>1, <2>3, <2>4 DEF Writing
<1> HIDE DEF e, o, lc
<1>5. CodeInv(e)
  <2>1. ~Bit(c0) => o = c0.o
    BY DEF o
  <2> QED BY <1>3, <1>4, <2>1 DEF CodeInv
<1> QED BY <1>2, <1>3, <1>5

(* ALIGN is a gap up to the next multiple.                                 *)
LEMMA AlignInv ==
  ASSUME ObjectAssumption, NEW c0, CodeInv(c0), c0.todo = <<>>, NEW n \in Nat \ {0}
  PROVE  CodeInv(Align(c0, n)) /\ SamePass(c0, Align(c0, n))
<1> DEFINE past == c0.lc[c0.seg] % n
<1>1. past \in 0 .. n - 1
  BY DEF CodeInv, IsCode
<1> HIDE DEF past
<1>2. n - past \in Nat
  BY <1>1
<1>3. CodeInv(Skip(c0, n - past)) /\ SamePass(c0, Skip(c0, n - past))
  BY <1>2, SkipInv
<1> QED BY <1>3 DEF Align, past, SamePass

(* A change of segment: the reader follows it.                             *)
LEMMA SetlocInv ==
  ASSUME ObjectAssumption, NEW c0, CodeInv(c0), c0.todo = <<>>, NEW seg \in Seg
  PROVE  CodeInv(setloc(c0, seg)) /\ SamePass(c0, setloc(c0, seg))
<1> DEFINE x == [is |-> "seg", count |-> seg]
           o == IF Bit(c0) /\ seg # c0.seg THEN putobj(c0.o, x) ELSE c0.o
           e == Coded(c0, c0.lc, seg, c0.todo, o, c0.cells, c0.refs)
<1>1. IsCode(c0) /\ c0.lc \in [Seg -> Nat] /\ c0.seg \in Seg
  BY DEF CodeInv, IsCode
<1>2. setloc(c0, seg) = e
  <2>1. setloc(c0, seg) = [c0 EXCEPT !.o = o, !.seg = seg]
    BY DEF setloc
  <2> HIDE DEF o
  <2> QED BY <1>1, <2>1 DEF IsCode, Kept, With, Coded
<1>3. /\ IsCode(e) /\ SamePass(c0, e) /\ (Bit(e) <=> Bit(c0)) /\ e.lc = c0.lc /\ e.seg = seg
      /\ e.todo = c0.todo /\ e.o = o /\ e.cells = c0.cells
  <2> HIDE DEF o
  <2> QED BY <1>1, CodedFields
<1>4. Bit(c0) => Writing(o, seg, c0.lc, c0.cells)
  <2> SUFFICES ASSUME Bit(c0) PROVE Writing(o, seg, c0.lc, c0.cells)
    OBVIOUS
  <2> DEFINE v == View(c0.o)
  <2>1. IsWriter(c0.o) /\ Agreed(c0.o) /\ v.seg = c0.seg /\ v.pos = c0.lc /\ v.cells = c0.cells
    BY DEF CodeInv, Writing
  <2>2. CASE seg = c0.seg
    BY <2>1, <2>2 DEF Writing
  <2>3. CASE seg # c0.seg
    <3>1. o = putobj(c0.o, x)
      BY <2>3
    <3>2. x \in Command /\ IsReader(v)
      BY <2>1, ViewType DEF Command
    <3>4. Read(v, x) = [pos |-> v.pos, seg |-> seg, relsize |-> v.relsize, cells |-> v.cells]
      <4> HIDE DEF v
      <4> QED BY <3>2, SegReads
    <3> HIDE DEF o, x
    <3>3. IsWriter(o) /\ View(o) = Read(v, x) /\ o.relsize = c0.o.relsize
      BY <2>1, <3>1, <3>2, PutObj
    <3>5. Agreed(o)
      BY <2>1, <3>3, <3>4 DEF Agreed
    <3> HIDE DEF v
    <3> QED BY <2>1, <3>3, <3>4, <3>5 DEF Writing
  <2> QED BY <2>2, <2>3
<1> HIDE DEF e, o
<1>5. CodeInv(e)
  <2>1. ~Bit(c0) => o = c0.o
    BY DEF o
  <2> QED BY <1>3, <1>4, <2>1 DEF CodeInv
<1> QED BY <1>2, <1>3, <1>5

(* An item that is written is where the line said.                         *)
LEMMA GenobjInv ==
  ASSUME ObjectAssumption, NEW c0, CodeInv(c0), c0.todo # <<>>
  PROVE  CodeInv(genobj(c0)) /\ SamePass(c0, genobj(c0))
<1> DEFINE item == Head(c0.todo)
           rest == Tail(c0.todo)
           w == Width(item)
           lc == [c0.lc EXCEPT ![c0.seg] = @ + w]
           p == PutItem(c0.o, item)
           cells == c0.cells \cup CellsOf(item, c0.seg, c0.lc[c0.seg])
           e == Coded(c0, lc, c0.seg, rest, p, cells, c0.refs)
           v == View(c0.o)
<1>1. IsCode(c0) /\ c0.lc \in [Seg -> Nat] /\ c0.seg \in Seg /\ Bit(c0) /\ item \in Items /\ rest \in Seq(Items)
  BY DEF CodeInv, IsCode
<1>2. IsWriter(c0.o) /\ Agreed(c0.o) /\ v.seg = c0.seg /\ v.pos = c0.lc /\ v.cells = c0.cells
  BY <1>1 DEF CodeInv, Writing
<1> HIDE DEF v, item, rest
<1>3. w \in Nat
  BY <1>1, WidthType
<1> HIDE DEF w
<1>4. lc \in [Seg -> Nat]
  BY <1>1, <1>3
<1>5. IsWriter(p) /\ Agreed(p) /\ Becomes(v, item, View(p))
  BY <1>1, <1>2, PutItemRight DEF v
<1> HIDE DEF p
<1>6. Writing(p, c0.seg, lc, cells)
  BY <1>2, <1>5 DEF Writing, Becomes, w
<1>7. genobj(c0) = e
  <2> DEFINE d == [c0 EXCEPT !.todo = rest, !.o = p, !.cells = cells]
  <2>1. genobj(c0) = [d EXCEPT !.lc[d.seg] = @ + w]
    BY DEF genobj, Advance, item, rest, p, w
  <2> HIDE DEF cells
  <2>2. d = Coded(c0, c0.lc, c0.seg, rest, p, cells, c0.refs)
    BY <1>1, ThreeFields
  <2> HIDE DEF d
  <2>3. d.seg = c0.seg /\ d.lc = c0.lc
    BY <2>2 DEF Coded
  <2>4. genobj(c0) = [d EXCEPT !.lc = lc]
    BY <2>1, <2>3
  <2> HIDE DEF lc
  <2> QED BY <2>2, <2>4 DEF Coded
<1> HIDE DEF cells, lc
<1>8. /\ IsCode(e) /\ SamePass(c0, e) /\ Bit(e) /\ e.lc = lc /\ e.seg = c0.seg
      /\ e.todo = rest /\ e.o = p /\ e.cells = cells
  BY <1>1, <1>4, CodedFields
<1> HIDE DEF e
<1>9. CodeInv(e)
  BY <1>1, <1>6, <1>8 DEF CodeInv
<1> QED BY <1>7, <1>8, <1>9

(* Opcodes and addresses are items.                                        *)
LEMMA OpcodeType ==
  ASSUME NEW id \in {"data", "imm", "jump"}, NEW n \in Nat
  PROVE  Opcode(id, n) \in Seq(Items)
<1>1. \A k \in 1 .. n : [byte |-> <<id, k>>] \in Items
  <2> TAKE k \in 1 .. n
  <2>1. <<id, k>> \in {"data", "imm", "jump"} \X Nat
    OBVIOUS
  <2> QED BY <2>1 DEF Items
<1>2. Opcode(id, n) \in [1 .. n -> Items]
  BY <1>1 DEF Opcode
<1> QED BY <1>2

(* One address.                                                            *)
LEMMA AddressType ==
  ASSUME NEW e \in ValueType, NEW width \in Nat \ {0}, NEW pcr \in BOOLEAN
  PROVE  Address(e, width, pcr) \in Seq(Items) /\ Len(Address(e, width, pcr)) = 1
<1> DEFINE a == [rel |-> "REL" \in e.data, imp |-> "IMP" \in e.data, seg |-> e.seg, value |-> e.value, name |-> e.name]
           item == [adr |-> a, width |-> width, pcr |-> pcr]
<1>1. a \in Adr
  BY DEF Adr, ValueType
<1> HIDE DEF a
<1>2. item \in Items
  BY <1>1 DEF Items
<1>3. Address(e, width, pcr) = <<item>>
  BY DEF Address, a
<1> HIDE DEF item
<1> QED BY <1>2, <1>3

(* A value whose data and number are others.                               *)
LEMMA OtherValue ==
  ASSUME ObjectAssumption, NEW e \in ValueType, NEW n \in Int, NEW D, D \subseteq Flag
  PROVE  /\ [e EXCEPT !.value = n] \in ValueType
         /\ [e EXCEPT !.data = D] \in ValueType /\ [e EXCEPT !.data = D, !.seg = 0] \in ValueType
<1>1. 0 \in AnySeg
  BY SegZero
<1>2. e = [data |-> e.data, seg |-> e.seg, value |-> e.value, name |-> e.name]
      /\ e.data \subseteq Flag /\ e.seg \in AnySeg /\ e.value \in Int /\ e.name \in AnyName
  BY DEF ValueType
<1> QED BY <1>1, <1>2 DEF ValueType

(* A target turned into a distance, or left to the linker.                 *)
LEMMA ReldataType ==
  ASSUME ObjectAssumption, NEW c0, NEW e \in ValueType
  PROVE  reldata(c0, e) \in ValueType
<1>1. Expundefined(c0, e) \in ValueType
  BY UndefinedType
<1>2. e.data \ {"REL"} \subseteq Flag
  BY DEF ValueType
<1>3. [e EXCEPT !.data = @ \ {"REL"}, !.seg = 0] \in ValueType
  <2> DEFINE D == e.data \ {"REL"}
  <2>1. 0 \in Int /\ D \subseteq Flag
    BY <1>2
  <2> HIDE DEF D
  <2>2. [e EXCEPT !.data = D, !.seg = 0] \in ValueType
    BY <2>1, OtherValue
  <2> QED BY <2>2 DEF D
<1> QED BY <1>1, <1>3 DEF reldata

(* A distance.                                                             *)
LEMMA DistanceType ==
  ASSUME ObjectAssumption, NEW c0, IsCode(c0), NEW e \in ValueType, NEW length \in Nat
  PROVE  Distance(c0, e, length) \in ValueType
<1> DEFINE n == e.value - c0.lc[c0.seg] - length
<1>1. n \in Int
  <2>1. c0.lc[c0.seg] \in Int /\ e.value \in Int
    BY DEF IsCode, ValueType
  <2> QED BY <2>1
<1> HIDE DEF n
<1>2. [e EXCEPT !.value = n] \in ValueType
  <2>1. {} \subseteq Flag
    OBVIOUS
  <2> QED BY <1>1, <2>1, OtherValue
<1> QED BY <1>2 DEF Distance, n

(* Lines of code.                                                          *)
LEMMA EvaluatedInv ==
  ASSUME ObjectAssumption, NEW c0, CodeInv(c0), c0.todo = <<>>, NEW x \in Expression, NEW wrong
  PROVE  LET d == ErrorIf(Evaluated(c0, x), wrong) IN CodeInv(d) /\ SamePass(c0, d) /\ d.todo = <<>>
<1> DEFINE e == Evaluated(c0, x)
<1>1. IsCode(c0)
  BY DEF CodeInv
<1>2. Kept(c0, e) /\ IsCode(e)
  BY <1>1, ValueOf, KeptCode
<1> HIDE DEF e
<1>3. Kept(e, ErrorIf(e, wrong))
  BY <1>2, ErrorKeeps
<1> DEFINE d == ErrorIf(e, wrong)
<1> HIDE DEF d
<1>4. Kept(c0, d)
  BY <1>2, <1>3, KeptTrans DEF d
<1>5. d.todo = <<>>
  BY <1>1, <1>4, KeptCode
<1> QED BY <1>4, <1>5, KeptInv DEF d, e

(* A jump, which is code and a ghost.                                      *)
LEMMA ReferInv ==
  ASSUME NEW c0, CodeInv(c0), c0.todo = <<>>, NEW x, NEW e, NEW length, NEW items \in Seq(Items)
  PROVE  CodeInv(Refer(c0, x, e, length, items)) /\ SamePass(c0, Refer(c0, x, e, length, items))
<1> DEFINE d == Emit(c0, items)
           refs == IF Bit(c0) THEN d.refs \cup {[target |-> x.name, seg |-> c0.seg, end |-> c0.lc[c0.seg] + length,
                                                 adr |-> Last(items).adr]} ELSE d.refs
           p == [d EXCEPT !.refs = refs]
<1>1. CodeInv(d) /\ SamePass(c0, d)
  BY EmitInv
<1>2. Refer(c0, x, e, length, items) = p
  BY DEF Refer
<1> HIDE DEF d, refs
<1>3. CodeInv(p) /\ SamePass(d, p)
  BY <1>1, RefsInv
<1> HIDE DEF p
<1> QED BY <1>1, <1>2, <1>3 DEF SamePass

(* FDB.                                                                    *)
LEMMA WordInv ==
  ASSUME ObjectAssumption, NEW c0, CodeInv(c0), c0.todo = <<>>, NEW x \in Expression, NEW v \in ValueType
  PROVE  CodeInv(Word(c0, x, v)) /\ SamePass(c0, Word(c0, x, v))
<1> DEFINE d == Evaluated(c0, x)
           items == Address(v, 2, FALSE)
<1>1. CodeInv(d) /\ SamePass(c0, d) /\ d.todo = <<>>
  <2>1. d = ErrorIf(d, FALSE)
    BY DEF ErrorIf
  <2> HIDE DEF d
  <2>2. LET e == ErrorIf(Evaluated(c0, x), FALSE) IN CodeInv(e) /\ SamePass(c0, e) /\ e.todo = <<>>
    BY EvaluatedInv
  <2> QED BY <2>1, <2>2 DEF d
<1>2. items \in Seq(Items)
  <2> DEFINE no == FALSE
             two == 2
  <2>1. no \in BOOLEAN /\ two \in Nat \ {0}
    OBVIOUS
  <2> HIDE DEF no, two
  <2>2. Address(v, two, no) \in Seq(Items)
    BY <2>1, AddressType
  <2> QED BY <2>2 DEF no, two
<1> HIDE DEF d, items
<1>3. CodeInv(Emit(d, items)) /\ SamePass(d, Emit(d, items))
  BY <1>1, <1>2, EmitInv
<1> QED BY <1>1, <1>3 DEF Word, SamePass, d, items

(* An operand of one or two bytes.                                         *)
LEMMA ImmediateInv ==
  ASSUME ObjectAssumption, NEW c0, CodeInv(c0), c0.todo = <<>>, NEW x \in Expression, NEW v \in ValueType,
         NEW id \in {"data", "imm", "jump"}
  PROVE  CodeInv(Immediate(c0, id, x, v)) /\ SamePass(c0, Immediate(c0, id, x, v))
<1> DEFINE d == Evaluated(c0, x)
           w == ImmediateWidth(v)
           ops == Opcode(id, 2)
           adr == Address(v, w, FALSE)
           items == ops \o adr
<1>1. CodeInv(d) /\ SamePass(c0, d) /\ d.todo = <<>>
  <2>1. d = ErrorIf(d, FALSE)
    BY DEF ErrorIf
  <2> HIDE DEF d
  <2>2. LET e == ErrorIf(Evaluated(c0, x), FALSE) IN CodeInv(e) /\ SamePass(c0, e) /\ e.todo = <<>>
    BY EvaluatedInv
  <2> QED BY <2>1, <2>2 DEF d
<1>2. w \in Nat \ {0}
  BY DEF ImmediateWidth
<1> HIDE DEF w, d
<1>3. ops \in Seq(Items) /\ adr \in Seq(Items)
  BY <1>2, OpcodeType, AddressType
<1> HIDE DEF ops, adr
<1>4. items \in Seq(Items)
  BY <1>3
<1> HIDE DEF items
<1>5. CodeInv(Emit(d, items)) /\ SamePass(d, Emit(d, items))
  BY <1>1, <1>4, EmitInv
<1> QED BY <1>1, <1>5 DEF Immediate, SamePass, d, items, ops, adr, w

(* The long form and the short one.                                        *)
LEMMA LongInv ==
  ASSUME ObjectAssumption, NEW c0, CodeInv(c0), c0.todo = <<>>, NEW x \in Expression, NEW v \in ValueType,
         NEW id \in {"data", "imm", "jump"}, NEW opcodes \in Nat
  PROVE  CodeInv(lbranch(c0, id, x, v, opcodes)) /\ SamePass(c0, lbranch(c0, id, x, v, opcodes))
<1> DEFINE length == opcodes + 2
           e == IF Bit(c0) THEN Distance(c0, reldata(c0, v), length) ELSE v
           d == ErrorIf(Evaluated(c0, x), Bit(c0) /\ RelBad(c0, v))
           pcr == Bit(c0) /\ ~RelBad(c0, v) /\ ~SameSegment(c0, v)
           ops == Opcode(id, opcodes)
           adr == Address(e, 2, pcr)
           items == ops \o adr
<1>1. CodeInv(d) /\ SamePass(c0, d) /\ d.todo = <<>>
  BY EvaluatedInv
<1>2. e \in ValueType
  <2>1. reldata(c0, v) \in ValueType /\ length \in Nat /\ IsCode(c0)
    BY ReldataType DEF CodeInv
  <2>2. Distance(c0, reldata(c0, v), length) \in ValueType
    <3> DEFINE r == reldata(c0, v)
    <3> HIDE DEF r, length
    <3> QED BY <2>1, DistanceType DEF r
  <2> QED BY <2>2
<1>3. pcr \in BOOLEAN
  OBVIOUS
<1> HIDE DEF d, e, pcr
<1>4. ops \in Seq(Items) /\ adr \in Seq(Items)
  <2> DEFINE two == 2
  <2>1. two \in Nat \ {0}
    OBVIOUS
  <2> HIDE DEF two
  <2>2. Address(e, two, pcr) \in Seq(Items)
    BY <1>2, <1>3, <2>1, AddressType
  <2>3. ops \in Seq(Items)
    BY OpcodeType
  <2> QED BY <2>2, <2>3 DEF two
<1> HIDE DEF ops, adr
<1>5. items \in Seq(Items)
  BY <1>4
<1> HIDE DEF items, length
<1>6. CodeInv(Refer(d, x, e, length, items)) /\ SamePass(d, Refer(d, x, e, length, items))
  BY <1>1, <1>5, ReferInv
<1>7. lbranch(c0, id, x, v, opcodes) = Refer(d, x, e, length, items)
  BY DEF lbranch, d, e, length, items, ops, adr, pcr
<1> QED BY <1>1, <1>6, <1>7 DEF SamePass

(* The short form, whose distance may be out of reach.                     *)
LEMMA ShortInv ==
  ASSUME ObjectAssumption, NEW c0, CodeInv(c0), c0.todo = <<>>, NEW x \in Expression, NEW v \in ValueType,
         NEW id \in {"data", "imm", "jump"}
  PROVE  CodeInv(mshort2(c0, id, x, v)) /\ SamePass(c0, mshort2(c0, id, x, v))
<1> DEFINE imported == "IMP" \in v.data
           t == IF imported THEN [v EXCEPT !.data = {"FOR", "UND"}, !.seg = 0] ELSE v
           r == IF Bit(c0) THEN reldata(c0, t) ELSE t
           away == Bit(c0) /\ "REL" \in r.data
           e == IF away THEN Expundefined(c0, r) ELSE IF Bit(c0) THEN Distance(c0, r, 2) ELSE r
           far == Bit(c0) /\ "UND" \notin e.data /\ ~is8bitsignedoffset(e.value)
           wrong == imported \/ away \/ far \/ (Bit(c0) /\ RelBad(c0, t))
           d == ErrorIf(Evaluated(c0, x), wrong)
           f == [e EXCEPT !.data = @ \ {"IMP"}]
           ops == Opcode(id, 1)
           adr == Address(f, 1, FALSE)
           items == ops \o adr
<1>1. t \in ValueType
  <2>1. 0 \in Int /\ {"FOR", "UND"} \subseteq Flag
    BY DEF Flag
  <2> DEFINE D == {"FOR", "UND"}
  <2> HIDE DEF D
  <2>2. [v EXCEPT !.data = D, !.seg = 0] \in ValueType
    BY <2>1, OtherValue DEF D
  <2> QED BY <2>2 DEF D
<1> HIDE DEF t
<1>2. r \in ValueType
  BY <1>1, ReldataType
<1> HIDE DEF r
<1>3. e \in ValueType
  <2>1. IsCode(c0)
    BY DEF CodeInv
  <2>2. Distance(c0, r, 2) \in ValueType
    BY <1>2, <2>1, DistanceType
  <2>3. Expundefined(c0, r) \in ValueType
    BY <1>2, UndefinedType
  <2> HIDE DEF away
  <2> QED BY <1>2, <2>2, <2>3
<1>7. mshort2(c0, id, x, v) = Refer(d, x, e, 2, items)
  BY DEF mshort2, d, items, ops, adr, f, wrong, far, e, away, r, t, imported
<1> HIDE DEF e, wrong
<1>4. f \in ValueType
  <2>1. 0 \in Int /\ e.data \ {"IMP"} \subseteq Flag
    BY <1>3 DEF ValueType
  <2> QED BY <1>3, <2>1, OtherValue
<1>5. CodeInv(d) /\ SamePass(c0, d) /\ d.todo = <<>>
  BY EvaluatedInv
<1> HIDE DEF f, d
<1>6. items \in Seq(Items)
  <2>1. ops \in Seq(Items) /\ adr \in Seq(Items)
    <3> DEFINE one == 1
               no == FALSE
    <3>1. one \in Nat /\ one \in Nat \ {0} /\ no \in BOOLEAN
      OBVIOUS
    <3> HIDE DEF one, no
    <3>2. Address(f, one, no) \in Seq(Items)
      BY <1>4, <3>1, AddressType
    <3>3. Opcode(id, one) \in Seq(Items)
      BY <3>1, OpcodeType
    <3> QED BY <3>2, <3>3 DEF one, no
  <2> HIDE DEF ops, adr
  <2> QED BY <2>1
<1> HIDE DEF items
<1>8. CodeInv(Refer(d, x, e, 2, items)) /\ SamePass(d, Refer(d, x, e, 2, items))
  BY <1>5, <1>6, ReferInv
<1> QED BY <1>5, <1>7, <1>8 DEF SamePass

-----------------------------------------------------------------------------
(* Where the lines come from: files and macros of the program.             *)
Position(p) == [file : DOMAIN p.files, line : Nat \ {0}]
InOf(p, i) ==
    /\ i \in [file : DOMAIN p.files, line : Nat \ {0}, gets : Seq(Position(p)), macs : Seq(Seq(LinesOf(p)))]
    /\ Len(i.gets) <= MAXGET /\ Len(i.macs) <= MAXMAC
MacroType(p) == [type : SUBSET {"MAC", "LAB", "RED"}, body : Seq(LinesOf(p))]
LoadType(p) == [name : MacroName \cup {""}, saving : BOOLEAN, body : Seq(LinesOf(p))]
SourceInv ==
    /\ prog \in UNION {Programs[i] : i \in DOMAIN Programs}
    /\ InOf(prog, in) /\ mac \in [MacroName -> MacroType(prog)] /\ load \in LoadType(prog)

(* A bounded set of numbers has a greatest.                                *)
LEMMA GreatestOf ==
  ASSUME NEW n \in Nat, NEW S, S \subseteq 0 .. n, S # {}
  PROVE  Max(S) \in S /\ \A y \in S : Max(S) >= y
<1> DEFINE B == {b \in Nat : \A y \in S : b >= y}
<1>1. n \in B /\ B \in SUBSET Nat
  OBVIOUS
<1>2. PICK x \in B : \A y \in B : x <= y
  <2> HIDE DEF B
  <2> QED BY <1>1, LeastOf
<1>3. x \in S
  <2> SUFFICES ASSUME x \notin S PROVE FALSE
    OBVIOUS
  <2>1. x \in Nat /\ \A y \in S : y \in Nat /\ x > y
    BY <1>2
  <2>2. x - 1 \in B
    <3>1. PICK y \in S : TRUE
      OBVIOUS
    <3>2. x - 1 \in Nat
      BY <2>1, <3>1
    <3>3. \A z \in S : x - 1 >= z
      BY <2>1
    <3> QED BY <3>2, <3>3
  <2> QED BY <1>2, <2>1, <2>2
<1>4. \E z \in S : \A y \in S : z >= y
  BY <1>2, <1>3
<1> QED BY <1>4 DEF Max

(* All but the last of a sequence.                                         *)
LEMMA FrontOf ==
  ASSUME NEW S, NEW s \in Seq(S), s # <<>>
  PROVE  /\ Last(s) \in S /\ Front(s) \in Seq(S) /\ Len(Front(s)) = Len(s) - 1
         /\ Len(s) \in Nat /\ Len(s) # 0
<1>1. Len(s) \in Nat /\ Len(s) # 0
  OBVIOUS
<1>2. Last(s) \in S
  BY <1>1 DEF Last
<1>3. SubSeq(s, 1, Len(s) - 1) \in Seq(S) /\ Len(SubSeq(s, 1, Len(s) - 1)) = Len(s) - 1
  <2> DEFINE n == Len(s) - 1
  <2>1. n \in Int /\ n >= 0 /\ 1 \in Int /\ \A i \in 1 .. n : s[i] \in S
    BY <1>1
  <2> HIDE DEF n
  <2>2. SubSeq(s, 1, n) \in Seq(S) /\ Len(SubSeq(s, 1, n)) = IF 1 <= n THEN n - 1 + 1 ELSE 0
    BY <2>1, SubSeqProperties
  <2>3. (IF 1 <= n THEN n - 1 + 1 ELSE 0) = n
    BY <2>1
  <2> QED BY <2>2, <2>3 DEF n
<1> QED BY <1>1, <1>2, <1>3 DEF Front

(* What is left of macros: the last has lines.                             *)
LEMMA LiveType ==
  ASSUME NEW L, NEW macs \in Seq(Seq(L))
  PROVE  /\ Live(macs) \in Seq(Seq(L)) /\ Len(Live(macs)) <= Len(macs)
         /\ Live(macs) # <<>> =>
              /\ Last(Live(macs))[1] \in L
              /\ Append(Front(Live(macs)), Tail(Last(Live(macs)))) \in Seq(Seq(L))
              /\ Len(Append(Front(Live(macs)), Tail(Last(Live(macs))))) = Len(Live(macs))
<1> DEFINE S == {0} \cup {k \in DOMAIN macs : macs[k] # <<>>}
           m == Max(S)
           v == SubSeq(macs, 1, m)
           b == macs[m]
<1>1. Len(macs) \in Nat /\ DOMAIN macs = 1 .. Len(macs)
  OBVIOUS
<1>2. S \subseteq 0 .. Len(macs) /\ S # {}
  BY <1>1
<1>3. m \in S
  <2> HIDE DEF S
  <2> QED BY <1>1, <1>2, GreatestOf
<1>4. m \in 0 .. Len(macs) /\ (m # 0 => b # <<>>)
  BY <1>2, <1>3
<1> HIDE DEF m
<1>5. v \in Seq(Seq(L)) /\ Len(v) = m /\ Len(v) <= Len(macs) /\ \A i \in 1 .. m : v[i] = macs[i]
  BY <1>1, <1>4
<1>6. ASSUME v # <<>>
      PROVE  /\ Last(v)[1] \in L /\ Append(Front(v), Tail(Last(v))) \in Seq(Seq(L))
             /\ Len(Append(Front(v), Tail(Last(v)))) = Len(v)
  <2>1. m # 0 /\ m \in 1 .. m /\ m \in 1 .. Len(macs)
    BY <1>4, <1>5, <1>6
  <2>2. Last(v) = b /\ b \in Seq(L) /\ b # <<>>
    BY <1>1, <1>4, <1>5, <2>1 DEF Last
  <2> HIDE DEF v, b
  <2>3. b[1] \in L /\ Tail(b) \in Seq(L)
    BY <2>2
  <2> DEFINE t == Tail(b)
             f == Front(v)
  <2>4. f \in Seq(Seq(L)) /\ Len(f) = Len(v) - 1
    BY <1>4, <1>5, <2>1 DEF Front
  <2> HIDE DEF t, f
  <2>5. Append(f, t) \in Seq(Seq(L)) /\ Len(Append(f, t)) = Len(v)
    BY <1>4, <1>5, <2>3, <2>4 DEF t
  <2> QED BY <2>2, <2>3, <2>5 DEF t, f
<1>7. v = Live(macs)
  BY DEF Live, v, m
<1> HIDE DEF v
<1> QED BY <1>5, <1>6, <1>7

(* The next line is one of the program, and so is the place after it.      *)
LEMMA LineType ==
  ASSUME SourceInv, Reading
  PROVE  /\ Line \in LinesOf(prog) /\ InOf(prog, Following)
         /\ Following.gets = in.gets /\ Following.file = in.file
<1> DEFINE L == LinesOf(prog)
<1>1. /\ in = [file |-> in.file, line |-> in.line, gets |-> in.gets, macs |-> in.macs]
      /\ in.file \in DOMAIN prog.files /\ in.line \in Nat \ {0} /\ in.gets \in Seq(Position(prog))
      /\ in.macs \in Seq(Seq(L)) /\ Len(in.gets) <= MAXGET /\ Len(in.macs) <= MAXMAC
  BY DEF SourceInv, InOf
<1> HIDE DEF L
<1>2. CASE FromMacro
  <2> DEFINE v == Live(in.macs)
             macs == Append(Front(v), Tail(Last(v)))
  <2>1. v # <<>> /\ Line = Last(v)[1] /\ Following = [in EXCEPT !.macs = macs]
    BY <1>2 DEF FromMacro, Line, Following
  <2>2. Last(v)[1] \in L /\ macs \in Seq(Seq(L)) /\ Len(macs) = Len(v) /\ Len(v) <= Len(in.macs) /\ v \in Seq(Seq(L))
    BY <1>1, <2>1, LiveType
  <2> HIDE DEF v, macs
  <2>3. Following = [file |-> in.file, line |-> in.line, gets |-> in.gets, macs |-> macs]
    BY <1>1, <2>1
  <2>4. Len(macs) <= MAXMAC
    <3>1. Len(in.macs) \in Nat /\ Len(v) \in Nat /\ MAXMAC \in Nat
      BY <1>1, <2>2, AssemblerAssumption
    <3> QED BY <1>1, <2>2, <3>1
  <2> QED BY <1>1, <2>1, <2>2, <2>3, <2>4 DEF InOf, L
<1>3. CASE ~FromMacro
  <2>1. Line = prog.files[in.file][in.line] /\ Following = [in EXCEPT !.macs = <<>>, !.line = @ + 1]
        /\ ~(in.line > Len(prog.files[in.file]))
    BY <1>3 DEF Line, Following, Reading, AtEnd
  <2>2. prog.files[in.file] \in Seq(L)
    BY <1>1, AssemblerAssumption DEF SourceInv, L
  <2>3. in.line \in DOMAIN prog.files[in.file]
    BY <1>1, <2>1, <2>2
  <2>4. Line \in L
    BY <2>1, <2>2, <2>3
  <2>5. Following = [file |-> in.file, line |-> in.line + 1, gets |-> in.gets, macs |-> <<>>]
    BY <1>1, <2>1
  <2>6. in.line + 1 \in Nat \ {0} /\ <<>> \in Seq(Seq(L)) /\ Len(<<>>) <= MAXMAC
    BY <1>1, AssemblerAssumption
  <2> QED BY <1>1, <2>4, <2>5, <2>6 DEF InOf, L
<1> QED BY <1>2, <1>3

(* So it has the operands of its operation.                                *)
LEMMA LineFormed ==
  ASSUME SourceInv, Reading
  PROVE  WellFormed(Line, prog)
BY LineType, AssemblerAssumption DEF SourceInv

-----------------------------------------------------------------------------
(* The assembler.                                                          *)
Limits == c.pass <= c.last /\ c.last <= MAXPASS /\ Len(iff.stack) <= MAXIF
AssemblerInv ==
    /\ SourceInv /\ CodeInv(c) /\ Limits
    /\ pc \in {"asm", "done"}
    /\ pc = "done" => Bit(c) /\ c.todo = <<>> /\ c.o.abs = <<>> /\ c.o.rmb = 0

(* A step in the middle of a pass.                                         *)
LEMMA StepInv ==
  ASSUME AssemblerInv, pc = "asm", pc' = pc, SourceInv', CodeInv(c'), SamePass(c, c'), Len(iff'.stack) <= MAXIF
  PROVE  AssemblerInv'
BY DEF AssemblerInv, Limits, SamePass

(* Lines that are no code.                                                 *)
LEMMA ErrorInv ==
  ASSUME AssemblerInv, NEW wrong
  PROVE  /\ CodeInv(Error(c)) /\ SamePass(c, Error(c)) /\ CodeInv(ErrorIf(c, wrong)) /\ SamePass(c, ErrorIf(c, wrong))
         /\ CodeInv(c) /\ SamePass(c, c)
<1>1. CodeInv(c) /\ IsCode(c) /\ SamePass(c, c)
  BY DEF AssemblerInv, CodeInv, SamePass
<1>2. Kept(c, Error(c)) /\ Kept(c, ErrorIf(c, wrong))
  BY <1>1, ErrorKeeps
<1> QED BY <1>1, <1>2, KeptInv

(* A line that only takes the place after it.                              *)
LEMMA FollowInv ==
  ASSUME SourceInv, Reading, in' = Following, prog' = prog, mac' = mac, load' = load
  PROVE  SourceInv'
BY LineType DEF SourceInv

(* Conditionals, and lines that they leave out.                            *)
LEMMA ConditionalInv ==
  ASSUME FlagsInv, AssemblerInv, SkipLine \/ If \/ ElseIf \/ Else \/ EndIf
  PROVE  AssemblerInv'
<1>1. Reading /\ in' = Following /\ prog' = prog /\ mac' = mac /\ load' = load /\ pc' = pc /\ pc = "asm"
  BY DEF SkipLine, If, ElseIf, Else, EndIf, Takes, Reading
<1>2. SourceInv'
  BY <1>1, FollowInv DEF AssemblerInv
<1>3. /\ c' \in {c, Error(c), AbsEvaluated(c, Line.x)}
      /\ c' = AbsEvaluated(c, Line.x) => c' \in {c, Error(c)} \/ Line.op \in {"if", "elseif"}
  BY DEF SkipLine, If, ElseIf, Else, EndIf, Takes
<1>4. CodeInv(c') /\ SamePass(c, c')
  <2>1. CASE c' \in {c, Error(c)}
    BY <2>1, ErrorInv
  <2>2. CASE c' = AbsEvaluated(c, Line.x) /\ Line.op \in {"if", "elseif"}
    <3>1. Line.x \in Expression
      BY <1>1, <2>2, LineFormed DEF AssemblerInv, WellFormed, Operand, Expression, AnyName
    <3>2. CodeInv(c) /\ IsCode(c) /\ ObjectAssumption
      BY ObjectAssumption DEF AssemblerInv, CodeInv
    <3>3. Kept(c, AbsEvaluated(c, Line.x))
      BY <3>1, <3>2, ValueOf
    <3> QED BY <2>2, <3>2, <3>3, KeptInv
  <2> QED BY <1>3, <2>1, <2>2
<1>5. Len(iff'.stack) <= MAXIF
  <2> DEFINE s == iff.stack
  <2>1. s \in Seq(Flags) /\ iff.ifflag \in BOOLEAN /\ iff.elseflag \in BOOLEAN /\ Len(s) <= MAXIF /\ MAXIF \in Nat
    BY AssemblerAssumption DEF FlagsInv, Types, AssemblerInv, Limits
  <2>2. CASE iff'.stack = s
    BY <2>1, <2>2
  <2>3. CASE If /\ ~(Len(s) >= MAXIF)
    <3> DEFINE saved == [ifflag |-> iff.ifflag, elseflag |-> iff.elseflag]
    <3>1. iff'.stack = Append(s, saved)
      BY <2>3 DEF If
    <3> HIDE DEF saved, s
    <3>2. Len(Append(s, saved)) = Len(s) + 1
      BY <2>1
    <3> QED BY <2>1, <2>3, <3>1, <3>2
  <2>4. CASE EndIf /\ s # <<>>
    <3>1. iff'.stack = Front(s)
      BY <2>4 DEF EndIf
    <3>2. s # <<>>
      BY <2>4
    <3> HIDE DEF s
    <3>3. Len(Front(s)) = Len(s) - 1 /\ Len(s) \in Nat
      BY <2>1, <3>2, FrontOf
    <3> QED BY <2>1, <3>1, <3>3
  <2>5. iff'.stack = s \/ (If /\ ~(Len(s) >= MAXIF)) \/ (EndIf /\ s # <<>>)
    <3>1. iff = [ifflag |-> iff.ifflag, elseflag |-> iff.elseflag, stack |-> iff.stack]
      BY DEF FlagsInv, Types
    <3>2. SkipLine => iff' = iff
      BY DEF SkipLine
    <3>3. If => iff' = iff \/ ~(Len(s) >= MAXIF)
      BY DEF If
    <3>4. ElseIf => iff'.stack = s
      <4>1. ElseIf => iff' = iff \/ \E a, b : iff' = [iff EXCEPT !.ifflag = a, !.elseflag = b]
        BY DEF ElseIf
      <4> QED BY <3>1, <4>1
    <3>5. Else => iff'.stack = s
      BY <3>1 DEF Else, ElseOf
    <3>6. EndIf => iff' = iff \/ s # <<>>
      BY DEF EndIf
    <3> QED BY <3>2, <3>3, <3>4, <3>5, <3>6
  <2> QED BY <2>2, <2>3, <2>4, <2>5
<1> QED BY <1>1, <1>2, <1>4, <1>5, StepInv

(* Files and macros.                                                       *)
LEMMA GetInv ==
  ASSUME AssemblerInv, Get
  PROVE  AssemblerInv'
<1>1. Reading /\ prog' = prog /\ mac' = mac /\ load' = load /\ pc' = pc /\ pc = "asm" /\ iff' = iff /\ c' \in {c, Error(c)}
  BY DEF Get, Reading
<1>2. CodeInv(c') /\ SamePass(c, c') /\ Len(iff'.stack) <= MAXIF
  BY <1>1, ErrorInv DEF AssemblerInv, Limits
<1>3. InOf(prog, in')
  <2> DEFINE f == Following
             here == [file |-> in.file, line |-> f.line]
  <2>1. InOf(prog, f) /\ f.gets = in.gets /\ f.file = in.file
    BY <1>1, LineType DEF AssemblerInv
  <2>2. CASE in' = f
    BY <2>1, <2>2
  <2>3. CASE ~GetOver /\ in' = [f EXCEPT !.gets = Append(@, here), !.file = Line.file, !.line = 1]
    <3>1. Line.file \in DOMAIN prog.files
      BY <1>1, LineFormed DEF Get, AssemblerInv, WellFormed
    <3> HIDE DEF f
    <3>2. /\ f = [file |-> f.file, line |-> f.line, gets |-> f.gets, macs |-> f.macs]
          /\ f.file \in DOMAIN prog.files /\ f.line \in Nat \ {0} /\ f.gets \in Seq(Position(prog))
          /\ f.macs \in Seq(Seq(LinesOf(prog))) /\ Len(f.macs) <= MAXMAC
      BY <2>1 DEF InOf
    <3>3. here \in Position(prog)
      BY <2>1, <3>2 DEF Position
    <3> HIDE DEF here
    <3>4. in' = [file |-> Line.file, line |-> 1, gets |-> Append(f.gets, here), macs |-> f.macs]
      BY <2>3, <3>2
    <3>5. Append(f.gets, here) \in Seq(Position(prog)) /\ Len(Append(f.gets, here)) = Len(f.gets) + 1
      BY <3>2, <3>3
    <3>6. Len(f.gets) + 1 <= MAXGET
      <4>1. Len(f.gets) \in Nat /\ MAXGET \in Nat /\ ~(Len(f.gets) >= MAXGET)
        BY <2>1, <2>3, <3>2, AssemblerAssumption DEF GetOver
      <4> QED BY <4>1
    <3> DEFINE g == Append(f.gets, here)
    <3> HIDE DEF g
    <3>7. in' = [file |-> Line.file, line |-> 1, gets |-> g, macs |-> f.macs] /\ g \in Seq(Position(prog)) /\ Len(g) <= MAXGET
      BY <3>4, <3>5, <3>6 DEF g
    <3> QED BY <3>1, <3>2, <3>7 DEF InOf
  <2> QED BY <2>2, <2>3 DEF Get
<1>4. SourceInv'
  BY <1>1, <1>3 DEF SourceInv, AssemblerInv
<1> QED BY <1>1, <1>2, <1>4, StepInv

(* The beginning of a macro's definition.                                  *)
LEMMA MacroInv ==
  ASSUME AssemblerInv, Macro
  PROVE  AssemblerInv'
<1> DEFINE m == mac[Line.name]
<1>1. Reading /\ prog' = prog /\ in' = Following /\ pc' = pc /\ pc = "asm" /\ iff' = iff /\ c' = ErrorIf(c, "LAB" \in m.type)
  BY DEF Macro, Takes, Reading
<1>2. CodeInv(c') /\ SamePass(c, c') /\ Len(iff'.stack) <= MAXIF
  BY <1>1, ErrorInv DEF AssemblerInv, Limits
<1>3. InOf(prog, in') /\ Line.name \in MacroName
  <2>1. Line.op = "macro"
    BY DEF Macro, Takes
  <2> QED BY <1>1, <2>1, LineType, LineFormed DEF AssemblerInv, WellFormed
<1>4. <<>> \in Seq(LinesOf(prog))
  OBVIOUS
<1>5. load' \in LoadType(prog)
  <2>1. load' = [name |-> Line.name, saving |-> Saves(m), body |-> <<>>]
    BY DEF Macro
  <2>2. Saves(m) \in BOOLEAN
    BY DEF Saves
  <2> QED BY <1>3, <1>4, <2>1, <2>2 DEF LoadType
<1>6. mac' \in [MacroName -> MacroType(prog)]
  <2>1. mac \in [MacroName -> MacroType(prog)]
    BY DEF AssemblerInv, SourceInv
  <2>2. m.type \subseteq {"MAC", "LAB", "RED"}
    BY <1>3, <2>1 DEF MacroType
  <2> DEFINE t == m.type \cup {IF "MAC" \in m.type THEN "RED" ELSE "MAC"}
             e == [type |-> t, body |-> <<>>]
  <2>3. mac' = [mac EXCEPT ![Line.name] = e] \/ mac' = mac
    BY DEF Macro
  <2>4. t \subseteq {"MAC", "LAB", "RED"}
    BY <2>2
  <2> HIDE DEF t
  <2>5. e \in MacroType(prog)
    BY <1>4, <2>4 DEF MacroType
  <2> QED BY <2>1, <2>3, <2>5
<1>7. SourceInv'
  BY <1>1, <1>3, <1>5, <1>6 DEF SourceInv, AssemblerInv
<1> QED BY <1>1, <1>2, <1>7, StepInv

(* The lines of a definition, and MEND.                                    *)
LEMMA LoadInv ==
  ASSUME AssemblerInv, LoadLine
  PROVE  AssemblerInv'
<1>1. Reading /\ prog' = prog /\ in' = Following /\ pc' = pc /\ pc = "asm" /\ iff' = iff /\ c' = c
  BY DEF LoadLine, Reading
<1>2. CodeInv(c') /\ SamePass(c, c') /\ Len(iff'.stack) <= MAXIF
  BY <1>1, ErrorInv DEF AssemblerInv, Limits
<1> DEFINE L == LinesOf(prog)
<1>3. InOf(prog, in') /\ Line \in L
  BY <1>1, LineType DEF AssemblerInv
<1>4. /\ mac \in [MacroName -> MacroType(prog)]
      /\ load = [name |-> load.name, saving |-> load.saving, body |-> load.body]
      /\ load.name \in MacroName \cup {""} /\ load.saving \in BOOLEAN /\ load.body \in Seq(L)
  BY DEF AssemblerInv, SourceInv, LoadType
<1> HIDE DEF L
<1>5. load' \in LoadType(prog)
  <2> DEFINE body == IF load.saving THEN Append(load.body, Line) ELSE load.body
  <2>1. body \in Seq(L) /\ <<>> \in Seq(L)
    <3>1. Append(load.body, Line) \in Seq(L) /\ load.body \in Seq(L) /\ <<>> \in Seq(L)
      <4> DEFINE b == load.body
      <4>1. b \in Seq(L) /\ Line \in L
        BY <1>3, <1>4
      <4> HIDE DEF b
      <4>2. Append(b, Line) \in Seq(L) /\ <<>> \in Seq(L)
        BY <4>1
      <4> QED BY <4>1, <4>2 DEF b
    <3> QED BY <3>1
  <2>2. load' = NotLoading \/ load' = [load EXCEPT !.body = body]
    BY DEF LoadLine
  <2> HIDE DEF body
  <2>3. NotLoading \in LoadType(prog)
    BY <2>1 DEF NotLoading, LoadType, L
  <2>4. [load EXCEPT !.body = body] \in LoadType(prog)
    BY <1>4, <2>1 DEF LoadType, L
  <2> QED BY <2>2, <2>3, <2>4
<1>6. mac' \in [MacroName -> MacroType(prog)]
  <2>1. mac' = [mac EXCEPT ![load.name].body = load.body] \/ mac' = mac
    BY DEF LoadLine
  <2>2. load.name \in MacroName => [mac[load.name] EXCEPT !.body = load.body] \in MacroType(prog)
    BY <1>4 DEF MacroType, L
  <2>3. [mac EXCEPT ![load.name].body = load.body] \in [MacroName -> MacroType(prog)]
    BY <1>4, <2>2
  <2> QED BY <1>4, <2>1, <2>3
<1>7. SourceInv'
  BY <1>1, <1>3, <1>5, <1>6 DEF SourceInv, AssemblerInv
<1> QED BY <1>1, <1>2, <1>7, StepInv

(* The call of a macro.                                                    *)
LEMMA CallInv ==
  ASSUME AssemblerInv, Call
  PROVE  AssemblerInv'
<1> DEFINE f == Following
           body == mac[Line.name].body
           L == LinesOf(prog)
<1>1. Reading /\ prog' = prog /\ load' = load /\ pc' = pc /\ pc = "asm" /\ iff' = iff /\ c' \in {c, Error(c)}
  BY DEF Call, Reading
<1>2. CodeInv(c') /\ SamePass(c, c') /\ Len(iff'.stack) <= MAXIF
  BY <1>1, ErrorInv DEF AssemblerInv, Limits
<1>3. InOf(prog, f) /\ Line.name \in MacroName /\ mac \in [MacroName -> MacroType(prog)]
  <2>1. Line.op = "call"
    BY DEF Call
  <2> QED BY <1>1, <2>1, LineType, LineFormed DEF AssemblerInv, WellFormed, SourceInv
<1>4. /\ mac[Line.name] = [type |-> mac[Line.name].type, body |-> body]
      /\ mac[Line.name].type \subseteq {"MAC", "LAB", "RED"} /\ body \in Seq(L)
  BY <1>3 DEF MacroType
<1> HIDE DEF f, L
<1>5. mac' \in [MacroName -> MacroType(prog)]
  <2> DEFINE t == mac[Line.name].type \cup {"LAB"}
  <2>1. mac' = mac \/ mac' = [mac EXCEPT ![Line.name].type = t]
    BY DEF Call
  <2>2. t \subseteq {"MAC", "LAB", "RED"}
    BY <1>4
  <2> HIDE DEF t
  <2>3. [mac[Line.name] EXCEPT !.type = t] \in MacroType(prog)
    BY <1>4, <2>2 DEF MacroType, L
  <2> QED BY <1>3, <2>1, <2>3
<1>6. InOf(prog, in')
  <2>1. in' = f \/ (~(Len(f.macs) >= MAXMAC) /\ in' = [f EXCEPT !.macs = Append(@, body)])
    BY DEF Call, f
  <2>2. /\ f = [file |-> f.file, line |-> f.line, gets |-> f.gets, macs |-> f.macs]
        /\ f.file \in DOMAIN prog.files /\ f.line \in Nat \ {0} /\ f.gets \in Seq(Position(prog))
        /\ f.macs \in Seq(Seq(L)) /\ Len(f.gets) <= MAXGET
    BY <1>3 DEF InOf, L
  <2> HIDE DEF body
  <2>3. Append(f.macs, body) \in Seq(Seq(L)) /\ Len(Append(f.macs, body)) = Len(f.macs) + 1
    BY <1>4, <2>2
  <2> DEFINE g == Append(f.macs, body)
  <2>4. CASE ~(Len(f.macs) >= MAXMAC) /\ in' = [f EXCEPT !.macs = g]
    <3>1. Len(f.macs) \in Nat /\ MAXMAC \in Nat
      BY <2>2, AssemblerAssumption
    <3>2. Len(g) <= MAXMAC /\ g \in Seq(Seq(L))
      BY <2>3, <2>4, <3>1
    <3> HIDE DEF g
    <3>3. in' = [file |-> f.file, line |-> f.line, gets |-> f.gets, macs |-> g]
      BY <2>2, <2>4
    <3> QED BY <2>2, <3>2, <3>3 DEF InOf, L
  <2> QED BY <1>3, <2>1, <2>4
<1>7. SourceInv'
  BY <1>1, <1>5, <1>6 DEF SourceInv, AssemblerInv
<1> QED BY <1>1, <1>2, <1>7, StepInv

(* Lines of code.                                                          *)
LEMMA CodeLineInv ==
  ASSUME AssemblerInv, Code
  PROVE  AssemblerInv'
<1>1. /\ Reading /\ prog' = prog /\ in' = Following /\ mac' = mac /\ load' = load /\ pc' = pc /\ pc = "asm" /\ iff' = iff
      /\ c.todo = <<>> /\ CodeInv(c) /\ IsCode(c)
  BY DEF Code, Takes, Reading, AssemblerInv, CodeInv
<1>2. SourceInv'
  BY <1>1, FollowInv DEF AssemblerInv
<1> DEFINE line == Line
           v == IF line.op \in {"word", "imm", "jump"} THEN Value(c, line.x) ELSE Constant(0)
           ops == {"label", "equ", "import", "data", "word", "skip", "align", "seg", "imm", "jump", "mend"}
<1>3. c' = Coding(line, v) /\ line.op \in ops
  BY DEF Code, Takes
<1>4. WellFormed(line, prog)
  BY <1>1, LineFormed DEF AssemblerInv
<1>5. ObjectAssumption
  BY ObjectAssumption
<1> HIDE DEF line
<1>6. /\ line.op \in {"equ", "word", "imm", "jump"} => line.x \in Expression
      /\ line.op \in {"label", "equ", "import"} => line.name \in Name
      /\ line.op \in {"data", "skip", "align", "jump"} => line.n \in Nat
      /\ line.op = "align" => line.n # 0
      /\ line.op = "seg" => line.seg \in Seg
  BY <1>4 DEF WellFormed, Operand, Expression, AnyName
<1>7. line.op \in {"word", "imm", "jump"} => v \in ValueType
  BY <1>1, <1>5, <1>6, ValueOf
<1> HIDE DEF v
<1>8. CodeInv(Coding(line, v)) /\ SamePass(c, Coding(line, v))
  <2>1. CASE line.op = "label"
    BY <1>1, <1>5, <1>6, <2>1, LabelKeeps, KeptInv DEF Coding
  <2>2. CASE line.op = "equ"
    BY <1>1, <1>5, <1>6, <2>2, EquKeeps, KeptInv DEF Coding
  <2>3. CASE line.op = "import"
    BY <1>1, <1>5, <1>6, <2>3, ImportKeeps, KeptInv DEF Coding
  <2>4. CASE line.op = "data"
    <3>1. Coding(line, v) = Emit(c, Opcode(line.op, line.n))
      BY <2>4 DEF Coding, Data
    <3>2. Opcode(line.op, line.n) \in Seq(Items)
      BY <1>6, <2>4, OpcodeType
    <3> QED BY <1>1, <3>1, <3>2, EmitInv
  <2>5. CASE line.op = "word"
    <3>1. Coding(line, v) = Word(c, line.x, v)
      BY <2>5 DEF Coding
    <3> QED BY <1>1, <1>5, <1>6, <1>7, <2>5, <3>1, WordInv
  <2>6. CASE line.op = "skip"
    <3>1. Coding(line, v) = Skip(c, line.n)
      BY <2>6 DEF Coding
    <3> QED BY <1>1, <1>5, <1>6, <2>6, <3>1, SkipInv
  <2>7. CASE line.op = "align"
    <3>1. Coding(line, v) = Align(c, line.n)
      BY <2>7 DEF Coding
    <3> QED BY <1>1, <1>5, <1>6, <2>7, <3>1, AlignInv
  <2>8. CASE line.op = "seg"
    <3>1. Coding(line, v) = setloc(c, line.seg)
      BY <2>8 DEF Coding
    <3> QED BY <1>1, <1>5, <1>6, <2>8, <3>1, SetlocInv
  <2>9. CASE line.op = "imm"
    <3>1. Coding(line, v) = Immediate(c, line.op, line.x, v)
      BY <2>9 DEF Coding
    <3> QED BY <1>1, <1>5, <1>6, <1>7, <2>9, <3>1, ImmediateInv
  <2>10. CASE line.op = "jump"
    <3>1. Coding(line, v) = Jump(c, line.op, line.x, v, line.n)
      BY <2>10 DEF Coding
    <3> QED BY <1>1, <1>5, <1>6, <1>7, <2>10, <3>1, LongInv, ShortInv DEF Jump
  <2>11. CASE line.op = "mend"
    BY <2>11, ErrorInv DEF Coding
  <2> HIDE DEF Coding
  <2> QED BY <1>3, <2>1, <2>2, <2>3, <2>4, <2>5, <2>6, <2>7, <2>8, <2>9, <2>10, <2>11
<1>9. Len(iff'.stack) <= MAXIF
  BY <1>1 DEF AssemblerInv, Limits
<1> QED BY <1>1, <1>2, <1>3, <1>8, <1>9, StepInv

(* An item is written.                                                     *)
LEMMA WriteInv ==
  ASSUME AssemblerInv, Write
  PROVE  AssemblerInv'
<1>1. prog' = prog /\ in' = in /\ mac' = mac /\ load' = load /\ pc' = pc /\ iff' = iff /\ c' = genobj(c) /\ c.todo # <<>>
  BY DEF Write
<1>2. pc = "asm"
  BY <1>1 DEF AssemblerInv
<1>3. CodeInv(c') /\ SamePass(c, c')
  BY <1>1, GenobjInv, ObjectAssumption DEF AssemblerInv
<1>4. SourceInv' /\ Len(iff'.stack) <= MAXIF
  BY <1>1 DEF AssemblerInv, SourceInv, Limits
<1> QED BY <1>1, <1>2, <1>3, <1>4, StepInv

(* Before anything is written, the reader is at the start of segment 0.    *)
LEMMA InitWriting ==
  ASSUME ObjectAssumption
  PROVE  Writing(initobj, 0, [s \in Seg |-> 0], {})
<1>1. <<>> \in Seq(Byte) /\ <<>> \in Seq(Command) /\ Len(<<>>) = 0 /\ ABSMAX \in Nat \ {0}
  BY DEF ObjectAssumption
<1>2. initobj = [abs |-> <<>>, rmb |-> 0, relsize |-> 0, out |-> <<>>]
  BY DEF initobj
<1>3. IsWriter(initobj)
  BY <1>1, <1>2 DEF IsWriter
<1>4. View(initobj) = linkmod(<<>>)
  <2>1. initobj.abs = <<>> /\ initobj.rmb = 0 /\ initobj.out = <<>>
    BY <1>2
  <2> QED BY <1>3, <2>1, ViewType
<1>5. View(initobj) = Loading
  BY <1>4, LinkmodSteps
<1>6. Loading.seg = 0 /\ Loading.pos = [s \in Seg |-> 0] /\ Loading.cells = {}
  BY DEF Loading
<1>7. Agreed(initobj)
  BY <1>2 DEF Agreed
<1> QED BY <1>3, <1>5, <1>6, <1>7 DEF Writing

(* The next pass begins at the start of segment 0, and the last one with   *)
(* nothing written.                                                        *)
LEMMA NextPassInv ==
  ASSUME AssemblerInv, pc = "asm", ~Bit(c), NextPass, prog' = prog, mac' = mac, load' = load
  PROVE  AssemblerInv'
<1> DEFINE pass == c.pass + 1
           last == IF c.last > 1 /\ c.last < MAXPASS /\ c.dirty /\ pass = c.last THEN c.last + 1 ELSE c.last
           zero == [s \in Seg |-> 0]
<1>1. /\ c = With(c, c.sym, c.dirty, c.err, c.stand) /\ c.sym \in [Name -> SymbolType]
      /\ c.pass \in Nat /\ c.last \in Nat /\ c.o = initobj /\ c.cells = {} /\ c.todo = <<>>
  BY DEF AssemblerInv, CodeInv, IsCode, Kept
<1>2. c.pass <= c.last /\ c.last <= MAXPASS /\ c.pass # c.last /\ MAXPASS \in Nat
  BY AssemblerAssumption DEF AssemblerInv, Limits, Bit
<1>3. pass \in Nat /\ last \in Nat /\ pass <= last /\ last <= MAXPASS
  BY <1>1, <1>2
<1>4. c' = [c EXCEPT !.pass = pass, !.last = last, !.lc = zero, !.seg = 0,
                     !.dirty = FALSE, !.err = FALSE, !.stand = {}]
  BY DEF NextPass, PassAfter
<1> DEFINE e == [pass |-> pass, last |-> last, lc |-> zero, seg |-> 0, sym |-> c.sym, dirty |-> FALSE, err |-> FALSE,
                 todo |-> c.todo, o |-> c.o, cells |-> c.cells, refs |-> c.refs, stand |-> {}]
<1> HIDE DEF pass, last
<1>5. zero \in [Seg -> Nat] /\ 0 \in Seg
  BY SegZero, ObjectAssumption
<1> HIDE DEF zero
<1>6. c' = e
  BY <1>1, <1>4 DEF With
<1>7. /\ e.pass = pass /\ e.last = last /\ e.lc = zero /\ e.seg = 0 /\ e.sym = c.sym /\ e.todo = <<>>
      /\ e.o = initobj /\ e.cells = {}
  BY <1>1
<1>8. Kept(e, e)
  BY <1>1 DEF Kept, With
<1> HIDE DEF e
<1>9. CodeInv(e)
  <2>1. IsCode(e)
    BY <1>3, <1>5, <1>7, <1>8 DEF IsCode
  <2>2. Writing(e.o, e.seg, e.lc, e.cells)
    BY <1>7, InitWriting, ObjectAssumption DEF zero
  <2>3. <<>> \in Seq(Items)
    OBVIOUS
  <2> QED BY <1>7, <2>1, <2>2, <2>3 DEF CodeInv
<1>10. CodeInv(c') /\ c'.pass <= c'.last /\ c'.last <= MAXPASS
  BY <1>3, <1>6, <1>7, <1>9
<1>11. SourceInv'
  <2>1. in' = [file |-> Main, line |-> 1, gets |-> <<>>, macs |-> <<>>]
    BY DEF NextPass, Top
  <2>2. Main \in DOMAIN prog.files /\ 0 <= MAXGET /\ 0 <= MAXMAC
    BY AssemblerAssumption DEF AssemblerInv, SourceInv
  <2>3. <<>> \in Seq(Position(prog)) /\ <<>> \in Seq(Seq(LinesOf(prog))) /\ Len(<<>>) = 0
    OBVIOUS
  <2>4. InOf(prog, in')
    BY <2>1, <2>2, <2>3 DEF InOf
  <2> QED BY <2>4 DEF SourceInv, AssemblerInv
<1>12. Len(iff'.stack) <= MAXIF
  <2>1. iff' = [iff EXCEPT !.ifflag = TRUE, !.stack = <<>>]
    BY DEF NextPass
  <2>2. Len(iff.stack) <= MAXIF
    BY DEF AssemblerInv, Limits
  <2>3. iff'.stack = iff.stack \/ iff'.stack = <<>>
    BY <2>1
  <2>4. Len(<<>>) <= MAXIF
    BY AssemblerAssumption
  <2> QED BY <2>2, <2>3, <2>4
<1>13. pc' = "asm"
  BY DEF NextPass
<1> QED BY <1>10, <1>11, <1>12, <1>13 DEF AssemblerInv, Limits

(* The end of the file: what is held back is written.                      *)
LEMMA FinishInv ==
  ASSUME AssemblerInv, pc = "asm", c.todo = <<>>, Bit(c), Finish, prog' = prog, mac' = mac, load' = load
  PROVE  AssemblerInv'
<1> DEFINE x == [is |-> "end"]
           p == putobj(c.o, x)
           err == c.err \/ load # NotLoading \/ iff.stack # <<>>
           b == [c EXCEPT !.err = err]
           e == Coded(b, b.lc, b.seg, b.todo, p, b.cells, b.refs)
           v == View(c.o)
<1>1. CodeInv(c) /\ IsCode(c) /\ ObjectAssumption
  BY ObjectAssumption DEF AssemblerInv, CodeInv
<1>2. IsWriter(c.o) /\ Agreed(c.o) /\ v.seg = c.seg /\ v.pos = c.lc /\ v.cells = c.cells
  BY <1>1 DEF CodeInv, Writing
<1>3. x \in Command /\ Read(v, x) = v
  BY DEF Command, Read
<1> HIDE DEF v, x
<1>4. /\ IsWriter(p) /\ View(p) = v /\ p.abs = <<>> /\ p.rmb = 0 /\ p.relsize = c.o.relsize
  BY <1>1, <1>2, <1>3, PutObj DEF v
<1>5. Writing(p, c.seg, c.lc, c.cells)
  <2>1. Agreed(p)
    BY <1>2, <1>4 DEF Agreed, v
  <2> QED BY <1>2, <1>4, <2>1 DEF Writing
<1>6. Kept(c, b)
  BY <1>1, SetOther
<1>7. c' = [c EXCEPT !.err = err, !.o = p]
  BY DEF Finish, objtrailer, x
<1>8. /\ IsCode(b) /\ b.lc = c.lc /\ b.seg = c.seg /\ b.todo = c.todo /\ b.cells = c.cells /\ b.pass = c.pass /\ b.last = c.last
  BY <1>1, <1>6, KeptCode
<1> HIDE DEF err, p
<1>9. c' = [b EXCEPT !.o = p]
  BY <1>7
<1> HIDE DEF b
<1>10. c' = e
  BY <1>8, <1>9 DEF IsCode, Kept, With, Coded
<1>11. /\ IsCode(e) /\ SamePass(b, e) /\ (Bit(e) <=> Bit(b)) /\ e.lc = b.lc /\ e.seg = b.seg
       /\ e.todo = b.todo /\ e.o = p /\ e.cells = b.cells
  <2>1. b.lc \in [Seg -> Nat] /\ b.seg \in Seg
    BY <1>8 DEF IsCode
  <2> QED BY <1>8, <2>1, CodedFields
<1>12. Bit(b)
  BY <1>8 DEF Bit
<1> HIDE DEF e
<1>13. CodeInv(e)
  <2>1. <<>> \in Seq(Items)
    OBVIOUS
  <2> QED BY <1>5, <1>8, <1>11, <1>12, <2>1 DEF CodeInv
<1>14. /\ CodeInv(c') /\ c'.pass = c.pass /\ c'.last = c.last /\ Bit(c)' /\ c'.todo = <<>>
       /\ c'.o.abs = <<>> /\ c'.o.rmb = 0
  BY <1>4, <1>8, <1>10, <1>11, <1>12, <1>13 DEF SamePass, Bit
<1>15. pc' = "done" /\ in' = in /\ iff' = iff
  BY DEF Finish
<1>16. SourceInv'
  BY <1>15 DEF AssemblerInv, SourceInv
<1> QED BY <1>14, <1>15, <1>16 DEF AssemblerInv, Limits

(* Back to the file that included this one, on to the next pass, or the end.*)
LEMMA ProceofInv ==
  ASSUME AssemblerInv, pc = "asm", c.todo = <<>>, NEW left, left \in Seq(Seq(LinesOf(prog))), Len(left) <= MAXMAC,
         Proceof(left)
  PROVE  AssemblerInv'
<1>1. prog' = prog /\ mac' = mac /\ load' = load
  BY DEF Proceof
<1>2. CASE in.gets # <<>>
  <2>1. /\ in' = [in EXCEPT !.file = Last(in.gets).file, !.line = Last(in.gets).line,
                            !.gets = Front(@), !.macs = left]
        /\ c' = ErrorIf(c, load # NotLoading) /\ pc' = pc /\ iff' = iff
    BY <1>2 DEF Proceof
  <2>2. /\ in = [file |-> in.file, line |-> in.line, gets |-> in.gets, macs |-> in.macs]
        /\ in.gets \in Seq(Position(prog)) /\ Len(in.gets) <= MAXGET
    BY DEF AssemblerInv, SourceInv, InOf
  <2> DEFINE g == in.gets
             top == Last(g)
             rest == Front(g)
  <2>3. /\ top \in Position(prog) /\ rest \in Seq(Position(prog)) /\ Len(rest) = Len(g) - 1 /\ Len(g) \in Nat
    <3>1. g \in Seq(Position(prog)) /\ g # <<>>
      BY <1>2, <2>2
    <3> HIDE DEF g
    <3> QED BY <3>1, FrontOf
  <2> HIDE DEF top, rest, g
  <2>4. in' = [file |-> top.file, line |-> top.line, gets |-> rest, macs |-> left]
    BY <2>1, <2>2 DEF top, rest, g
  <2>5. Len(rest) <= MAXGET
    <3>1. MAXGET \in Nat /\ Len(g) <= MAXGET
      BY <2>2, AssemblerAssumption DEF g
    <3> QED BY <2>3, <3>1
  <2>6. InOf(prog, in')
    BY <2>3, <2>4, <2>5 DEF InOf, Position
  <2>7. SourceInv'
    BY <1>1, <2>6 DEF AssemblerInv, SourceInv
  <2>8. CodeInv(c') /\ SamePass(c, c') /\ Len(iff'.stack) <= MAXIF
    BY <2>1, ErrorInv DEF AssemblerInv, Limits
  <2> QED BY <2>1, <2>7, <2>8, StepInv
<1>3. CASE in.gets = <<>> /\ Bit(c)
  <2>1. Finish
    BY <1>3 DEF Proceof
  <2> QED BY <1>1, <1>3, <2>1, FinishInv
<1>4. CASE in.gets = <<>> /\ ~Bit(c)
  <2>1. NextPass
    BY <1>4 DEF Proceof
  <2> QED BY <1>1, <1>4, <2>1, NextPassInv
<1> QED BY <1>2, <1>3, <1>4

(* The end of a file, and END.                                             *)
LEMMA EndInv ==
  ASSUME AssemblerInv, ReachEnd \/ End
  PROVE  AssemblerInv'
<1>1. pc = "asm" /\ c.todo = <<>>
  BY DEF ReachEnd, End, Reading
<1>2. CASE ReachEnd
  <2>1. <<>> \in Seq(Seq(LinesOf(prog))) /\ Len(<<>>) <= MAXMAC
    BY AssemblerAssumption
  <2>2. Proceof(<<>>)
    BY <1>2 DEF ReachEnd
  <2> QED BY <1>1, <2>1, <2>2, ProceofInv
<1>3. CASE End
  <2> DEFINE left == Following.macs
  <2>1. left \in Seq(Seq(LinesOf(prog))) /\ Len(left) <= MAXMAC
    BY <1>3, LineType DEF End, AssemblerInv, InOf
  <2>2. Proceof(left)
    BY <1>3 DEF End
  <2> HIDE DEF left
  <2> QED BY <1>1, <2>1, <2>2, ProceofInv
<1> QED BY <1>2, <1>3

(* The first pass writes nothing.                                          *)
LEMMA InitInv == Init => AssemblerInv
<1> SUFFICES ASSUME Init PROVE AssemblerInv
  OBVIOUS
<1> DEFINE zero == [s \in Seg |-> 0]
           sym == [n \in Name |-> NewSymbol(prog.undef)]
           d == [pass |-> 0, last |-> prog.last, lc |-> zero, seg |-> 0, sym |-> sym, dirty |-> FALSE, err |-> FALSE,
                 todo |-> <<>>, o |-> initobj, cells |-> {}, refs |-> {}, stand |-> {}]
<1>1. PICK i \in DOMAIN Programs : prog \in Programs[i]
  BY DEF Init
<1>2. /\ Main \in DOMAIN prog.files /\ prog.last \in {1, 2} /\ prog.undef \in BOOLEAN
      /\ MAXPASS \in Nat \ {0, 1} /\ MAXIF \in Nat /\ MAXGET \in Nat /\ MAXMAC \in Nat
  BY <1>1, AssemblerAssumption
<1>3. c = d /\ in = Top /\ mac = [n \in MacroName |-> [type |-> {}, body |-> <<>>]] /\ load = NotLoading
      /\ iff = Assembling /\ pc = "asm"
  BY DEF Init
<1>4. zero \in [Seg -> Nat] /\ 0 \in Seg /\ 0 \in AnySeg
  BY SegZero, ObjectAssumption
<1>5. sym \in [Name -> SymbolType]
  <2>1. \A u \in BOOLEAN : NewSymbol(u) \in SymbolType
    <3> TAKE u \in BOOLEAN
    <3>1. ANYSEG \in AnySeg
      BY DEF AnySeg
    <3>2. {} \subseteq {"LAB", "RED"} /\ {"REL", "UND", "IMP"} \subseteq Flag /\ {"REL", "UND"} \subseteq Flag
      BY DEF Flag
    <3> QED BY <1>4, <3>1, <3>2 DEF NewSymbol, SymbolType
  <2> QED BY <1>2, <2>1
<1> HIDE DEF zero, sym
<1>6. Kept(d, d) /\ d.pass = 0 /\ d.last = prog.last /\ d.lc = zero /\ d.seg = 0 /\ d.todo = <<>> /\ d.o = initobj /\ d.cells = {}
  BY <1>5 DEF Kept, With
<1> HIDE DEF d
<1>7. IsCode(d) /\ ~Bit(d)
  BY <1>2, <1>4, <1>6 DEF IsCode, Bit
<1>8. CodeInv(d)
  <2>1. <<>> \in Seq(Items)
    OBVIOUS
  <2> QED BY <1>6, <1>7, <2>1 DEF CodeInv
<1>9. SourceInv
  <2>1. in = [file |-> Main, line |-> 1, gets |-> <<>>, macs |-> <<>>]
    BY <1>3 DEF Top
  <2>2. <<>> \in Seq(Position(prog)) /\ <<>> \in Seq(Seq(LinesOf(prog))) /\ Len(<<>>) = 0 /\ <<>> \in Seq(LinesOf(prog))
    OBVIOUS
  <2>3. InOf(prog, in)
    BY <1>2, <2>1, <2>2 DEF InOf
  <2>4. [type |-> {}, body |-> <<>>] \in MacroType(prog)
    BY <2>2 DEF MacroType
  <2>5. mac \in [MacroName -> MacroType(prog)]
    BY <1>3, <2>4
  <2>6. load \in LoadType(prog)
    BY <1>3, <2>2 DEF LoadType, NotLoading
  <2> QED BY <1>1, <2>3, <2>5, <2>6 DEF SourceInv
<1>10. Limits
  <2>1. iff.stack = <<>> /\ Len(<<>>) = 0
    BY <1>3 DEF Assembling
  <2>2. 0 <= prog.last /\ prog.last <= MAXPASS
    BY <1>2
  <2> QED BY <1>2, <1>3, <1>6, <2>1, <2>2 DEF Limits
<1> QED BY <1>3, <1>8, <1>9, <1>10 DEF AssemblerInv

(* All steps.                                                              *)
LEMMA NextInv == FlagsInv /\ AssemblerInv /\ [Next]_vars => AssemblerInv'
<1> SUFFICES ASSUME FlagsInv, AssemblerInv, [Next]_vars PROVE AssemblerInv'
  OBVIOUS
<1>1. CASE SkipLine \/ If \/ ElseIf \/ Else \/ EndIf
  BY <1>1, ConditionalInv
<1>2. CASE Get
  BY <1>2, GetInv
<1>3. CASE Macro
  BY <1>3, MacroInv
<1>4. CASE LoadLine
  BY <1>4, LoadInv
<1>5. CASE Call
  BY <1>5, CallInv
<1>6. CASE Code
  BY <1>6, CodeLineInv
<1>7. CASE Write
  BY <1>7, WriteInv
<1>8. CASE ReachEnd \/ End
  BY <1>8, EndInv
<1>9. CASE UNCHANGED vars
  BY <1>9 DEF vars, AssemblerInv, SourceInv, Limits
<1> QED BY <1>1, <1>2, <1>3, <1>4, <1>5, <1>6, <1>7, <1>8, <1>9 DEF Next

(* The invariant has the types of the source's tables and counters.        *)
LEMMA InvTypes == AssemblerInv => TypeOK
<1> SUFFICES ASSUME AssemblerInv PROVE TypeOK
  OBVIOUS
<1>1. /\ IsCode(c) /\ Limits /\ InOf(prog, in) /\ pc \in {"asm", "done"}
  BY DEF AssemblerInv, CodeInv, SourceInv
<1>2. c.pass \in 0 .. c.last /\ c.seg \in Seg /\ \A s \in Seg : c.lc[s] \in Nat
  BY <1>1 DEF IsCode, Limits
<1>3. \A n \in Name : c.sym[n].type \subseteq {"LAB", "RED"} /\ c.sym[n].data \subseteq {"FOR", "IMP", "REL", "UND"}
  BY <1>1, SymbolOf DEF Flag
<1> QED BY <1>1, <1>2, <1>3 DEF TypeOK, Limits, InOf

(* What the linker makes of a file that is complete is what was assembled. *)
LEMMA InvReads == AssemblerInv => (pc = "done" => linkmod(c.o.out).cells = c.cells)
<1> SUFFICES ASSUME AssemblerInv, pc = "done" PROVE linkmod(c.o.out).cells = c.cells
  OBVIOUS
<1>1. IsWriter(c.o) /\ View(c.o).cells = c.cells /\ c.o.abs = <<>> /\ c.o.rmb = 0
  BY DEF AssemblerInv, CodeInv, Writing
<1>2. View(c.o) = linkmod(c.o.out)
  BY <1>1, ViewType, ObjectAssumption
<1> QED BY <1>1, <1>2

(* For all programs the passes, the nesting of conditionals, files and     *)
(* macros, the counters and the symbols' flags stay within their limits.   *)
THEOREM AssemblerTypes == Spec => []TypeOK
<1> QED BY InvTypes, InitFlags, NextFlags, InitInv, NextInv, PTL DEF Spec

(* For all programs the linker reads back every byte and address at the    *)
(* offset at which the assembler counted it: what putabs, accumulate_rmb   *)
(* and genobjadr hold back and join, and the counts that they write, come  *)
(* to what linkmod puts together again.                                    *)
THEOREM WrittenIsRead == Spec => []ReadBack
<1>1. AssemblerInv => ReadBack
  BY InvTypes, InvReads DEF ReadBack
<1> QED BY <1>1, InitFlags, NextFlags, InitInv, NextInv, PTL DEF Spec
=============================================================================
