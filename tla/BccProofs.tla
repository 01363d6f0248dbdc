----------------------------- MODULE BccProofs -----------------------------
(***************************************************************************)
(* Proofs about BccLabel and BccState, for every program, every size of    *)
(* the table of labels and of the output buffer, and every reach.          *)
(*                                                                         *)
(* In order: induction; where instructions end (Ends); the table beside    *)
(* the code (Made), through instructions, branches and patches; what is    *)
(* left to do and the labels it will define (LeftToDo); the actions.       *)
(***************************************************************************)
EXTENDS BccState, SequenceTheorems, FiniteSetTheorems, WellFoundedInduction, TLAPS

(* A set of naturals that is not empty has a least element.                *)
LEMMA LeastOf ==
    ASSUME NEW S \in SUBSET Nat, S # {}
    PROVE  \E x \in S : \A y \in S : x <= y
<1> DEFINE R == OpToRel(<, Nat)
<1>1. IsWellFoundedOn(R, Nat)
  BY NatLessThanWellFounded
<1>2. PICK x \in S : \A y \in S : <<y, x>> \notin R
  <2>1. S \subseteq Nat
    OBVIOUS
  <2> HIDE DEF R
  <2> QED BY <1>1, <2>1, WFMin
<1>3. x \in Nat /\ \A y \in S : ~(y < x)
  BY <1>2 DEF OpToRel
<1>4. \A y \in S : x <= y
  <2> TAKE y \in S
  <2>1. x \in Nat /\ y \in Nat /\ ~(y < x)
    BY <1>3
  <2> QED BY <2>1
<1> QED BY <1>4

(* Induction: a set of naturals with 0 and the successors of its elements. *)
LEMMA SetInduction ==
    ASSUME NEW S, S \subseteq Nat, 0 \in S, \A n \in S : n + 1 \in S
    PROVE  S = Nat
<1> SUFFICES ASSUME Nat \ S # {} PROVE FALSE
  OBVIOUS
<1>1. PICK x \in Nat \ S : \A y \in Nat \ S : x <= y
  BY LeastOf
<1>2. x \in Nat /\ x # 0
  BY <1>1
<1>3. x - 1 \in S /\ (x - 1) + 1 = x
  BY <1>1, <1>2
<1> QED BY <1>1, <1>3

-----------------------------------------------------------------------------
(* Code.                                                                   *)
IsSeq(s) == s \in Seq({s[i] : i \in DOMAIN s})

(* Instructions: a label has no size, a branch the one of its reach.       *)
IsInstr(i) ==
    /\ i.size \in Nat
    /\ i.op = "label" => i.size = 0
    /\ i.op = "branch" => i.short \in BOOLEAN /\ i = Branch(i.cond, i.label, i.short)
IsCode(code) == IsSeq(code) /\ \A i \in DOMAIN code : IsInstr(code[i])
IsLabel(i, l) == i.op = "label" /\ i.label = l
Labels(code) == {code[i].label : i \in {j \in DOMAIN code : code[j].op = "label"}}
Unique(code) ==
    \A i, j \in DOMAIN code : code[i].op = "label" /\ IsLabel(code[j], code[i].label) => i = j
Targets(code) == \A i \in DOMAIN code : code[i].op = "branch" /\ code[i].short => code[i].label \in Labels(code)

LEMMA SeqIs ==
    ASSUME NEW S, NEW s \in Seq(S)
    PROVE  IsSeq(s) /\ Len(s) \in Nat /\ DOMAIN s = 1 .. Len(s)
<1>1. Len(s) \in Nat /\ DOMAIN s = 1 .. Len(s) /\ s \in [1 .. Len(s) -> S]
  BY SeqDef
<1> DEFINE T == {s[i] : i \in DOMAIN s}
<1>2. s \in [1 .. Len(s) -> T]
  BY <1>1
<1>3. s \in Seq(T)
  <2> HIDE DEF T
  <2> QED BY <1>1, <1>2, SeqDef
<1> QED BY <1>1, <1>3 DEF IsSeq

(* A sequence with one more element, and with one element changed.         *)
LEMMA AppendSeq ==
    ASSUME NEW s, IsSeq(s), NEW x
    PROVE  /\ IsSeq(Append(s, x)) /\ Len(s) \in Nat /\ DOMAIN s = 1 .. Len(s)
           /\ Len(Append(s, x)) = Len(s) + 1 /\ DOMAIN Append(s, x) = 1 .. Len(s) + 1
           /\ Append(s, x)[Len(s) + 1] = x /\ \A i \in 1 .. Len(s) : Append(s, x)[i] = s[i]
<1>1. PICK S : s \in Seq(S)
  BY DEF IsSeq
<1> DEFINE T == S \cup {x}
<1>2. s \in Seq(T) /\ x \in T
  BY <1>1, SeqDef
<1>3. Append(s, x) \in Seq(T)
  BY <1>2
<1>4. IsSeq(Append(s, x))
  <2> HIDE DEF T
  <2> QED BY <1>3, SeqIs
<1> QED BY <1>2, <1>4

LEMMA ChangeSeq ==
    ASSUME NEW s, IsSeq(s), NEW p \in DOMAIN s, NEW x
    PROVE  LET t == [s EXCEPT ![p] = x]
           IN  /\ IsSeq(t) /\ Len(t) = Len(s) /\ DOMAIN t = DOMAIN s /\ t[p] = x
               /\ \A i \in DOMAIN s : i # p => t[i] = s[i]
<1>1. PICK S : s \in Seq(S)
  BY DEF IsSeq
<1> DEFINE T == S \cup {x}
           t == [s EXCEPT ![p] = x]
<1>2. s \in Seq(T) /\ x \in T
  BY <1>1, SeqDef
<1>3. t \in Seq(T) /\ Len(t) = Len(s)
  BY <1>2
<1>4. IsSeq(t)
  <2> HIDE DEF T, t
  <2> QED BY <1>3, SeqIs
<1> QED BY <1>2, <1>3, <1>4

LEMMA CodeSeq ==
    ASSUME NEW code, IsCode(code)
    PROVE  Len(code) \in Nat /\ DOMAIN code = 1 .. Len(code) /\ \A i \in 1 .. Len(code) : code[i].size \in Nat
<1>1. PICK S : code \in Seq(S)
  BY DEF IsCode, IsSeq
<1> QED BY <1>1 DEF IsCode, IsInstr

(* Ends adds up the sizes.                                                 *)
LEMMA EndsSteps ==
    ASSUME NEW code, IsCode(code)
    PROVE  /\ Ends(code)[0] = 0
           /\ \A n \in 1 .. Len(code) : Ends(code)[n] = Ends(code)[n - 1] + code[n].size
           /\ \A n \in 0 .. Len(code) : Ends(code)[n] \in Nat
<1> DEFINE Upto(f, k) == f = [n \in 0 .. k |-> IF n = 0 THEN 0 ELSE f[n - 1] + code[n].size]
           S == {k \in Nat : \E f : Upto(f, k)}
<1>0. Len(code) \in Nat /\ \A i \in 1 .. Len(code) : code[i].size \in Nat
  BY CodeSeq
<1>1. 0 \in S
  <2>1. Upto([n \in 0 .. 0 |-> 0], 0)
    OBVIOUS
  <2> QED BY <2>1
<1>2. ASSUME NEW n \in S PROVE n + 1 \in S
  <2>1. PICK f : Upto(f, n)
    OBVIOUS
  <2> DEFINE g1 == [k \in 0 .. n + 1 |-> IF k = n + 1 THEN f[n] + code[n + 1].size ELSE f[k]]
  <2>2. n \in Nat
    OBVIOUS
  <2>3. ASSUME NEW k \in 0 .. n + 1
        PROVE  g1[k] = IF k = 0 THEN 0 ELSE g1[k - 1] + code[k].size
    <3>1. CASE k = n + 1
      BY <2>2, <3>1
    <3>2. CASE k # n + 1
      <4>1. k \in 0 .. n /\ (k # 0 => k - 1 \in 0 .. n)
        BY <2>2, <3>2
      <4>2. f[k] = IF k = 0 THEN 0 ELSE f[k - 1] + code[k].size
        BY <2>1, <4>1
      <4> QED BY <2>2, <3>2, <4>1, <4>2
    <3> QED BY <3>1, <3>2
  <2>4. Upto(g1, n + 1)
    BY <2>3
  <2> HIDE DEF g1, Upto
  <2> QED BY <2>2, <2>4
<1>3. S = Nat
  <2>1. S \subseteq Nat
    OBVIOUS
  <2> HIDE DEF S
  <2> QED BY <1>1, <1>2, <2>1, SetInduction
<1>4. \E f : Upto(f, Len(code))
  BY <1>0, <1>3
<1> DEFINE at == CHOOSE f : Upto(f, Len(code))
<1>5. Upto(at, Len(code))
  <2> HIDE DEF Upto
  <2> QED BY <1>4
<1>6. Ends(code) = at
  BY DEF Ends
<1> HIDE DEF at
<1>7. \A n \in 0 .. Len(code) : at[n] = IF n = 0 THEN 0 ELSE at[n - 1] + code[n].size
  BY <1>5
<1>8. at[0] = 0 /\ \A n \in 1 .. Len(code) : at[n] = at[n - 1] + code[n].size
  BY <1>0, <1>7
<1> DEFINE N == {n \in Nat : n <= Len(code) => at[n] \in Nat}
<1>9. N = Nat
  <2>1. N \subseteq Nat /\ 0 \in N
    BY <1>8
  <2>2. ASSUME NEW n \in N PROVE n + 1 \in N
    <3>1. CASE n + 1 <= Len(code)
      <4>1. n + 1 \in 1 .. Len(code) /\ (n + 1) - 1 = n /\ at[n] \in Nat
        BY <1>0, <3>1
      <4> QED BY <1>0, <1>8, <4>1, SMTT(30)
    <3>2. CASE ~(n + 1 <= Len(code))
      BY <3>2
    <3> QED BY <3>1, <3>2
  <2> HIDE DEF N
  <2> QED BY <2>1, <2>2, SetInduction
<1>10. \A n \in 0 .. Len(code) : at[n] \in Nat
  BY <1>0, <1>9
<1> QED BY <1>6, <1>8, <1>10

(* What is behind does not end before.                                     *)
LEMMA EndsGrow ==
    ASSUME NEW code, IsCode(code), NEW i \in 0 .. Len(code), NEW j \in 0 .. Len(code), i <= j
    PROVE  Ends(code)[i] <= Ends(code)[j]
<1> DEFINE at == Ends(code)
           N == {n \in Nat : i + n <= Len(code) => at[i] <= at[i + n]}
<1>0. Len(code) \in Nat /\ \A k \in 1 .. Len(code) : code[k].size \in Nat
  BY CodeSeq
<1>1. /\ \A n \in 1 .. Len(code) : at[n] = at[n - 1] + code[n].size
      /\ \A n \in 0 .. Len(code) : at[n] \in Nat
  BY EndsSteps
<1> HIDE DEF at
<1>2. N \subseteq Nat /\ 0 \in N
  BY <1>0, <1>1
<1>3. ASSUME NEW n \in N PROVE n + 1 \in N
  <2>1. CASE i + (n + 1) <= Len(code)
    <3>1. i + (n + 1) \in 1 .. Len(code) /\ (i + (n + 1)) - 1 = i + n /\ i + n \in 0 .. Len(code) /\ at[i] <= at[i + n]
      BY <1>0, <2>1
    <3>2. at[i + (n + 1)] = at[i + n] + code[i + (n + 1)].size /\ code[i + (n + 1)].size \in Nat
      BY <1>0, <1>1, <3>1
    <3>3. at[i] <= at[i + (n + 1)]
      BY <1>1, <3>1, <3>2
    <3> QED BY <3>3
  <2>2. CASE ~(i + (n + 1) <= Len(code))
    BY <2>2
  <2> QED BY <2>1, <2>2
<1>4. N = Nat
  <2> HIDE DEF N
  <2> QED BY <1>2, <1>3, SetInduction
<1>5. j - i \in Nat /\ i + (j - i) = j /\ j <= Len(code)
  BY <1>0
<1>6. i + (j - i) <= Len(code) => at[i] <= at[i + (j - i)]
  BY <1>4, <1>5
<1> QED BY <1>5, <1>6 DEF at

(* Instructions of the same sizes end at the same places.                  *)
LEMMA EndsSame ==
    ASSUME NEW c, IsCode(c), NEW d, IsCode(d), NEW k \in Nat, k <= Len(c), k <= Len(d),
           \A i \in 1 .. k : d[i].size = c[i].size
    PROVE  \A n \in 0 .. k : Ends(d)[n] = Ends(c)[n]
<1> DEFINE a == Ends(c)
           b == Ends(d)
           N == {n \in Nat : n <= k => b[n] = a[n]}
<1>0. Len(c) \in Nat /\ Len(d) \in Nat
  BY CodeSeq
<1>1. /\ a[0] = 0 /\ \A n \in 1 .. Len(c) : a[n] = a[n - 1] + c[n].size
      /\ b[0] = 0 /\ \A n \in 1 .. Len(d) : b[n] = b[n - 1] + d[n].size
  BY EndsSteps
<1> HIDE DEF a, b
<1>2. N \subseteq Nat /\ 0 \in N
  BY <1>1
<1>3. ASSUME NEW n \in N PROVE n + 1 \in N
  <2>1. CASE n + 1 <= k
    <3>1. n + 1 \in 1 .. Len(c) /\ n + 1 \in 1 .. Len(d) /\ n + 1 \in 1 .. k /\ (n + 1) - 1 = n /\ b[n] = a[n]
      BY <1>0, <2>1
    <3> QED BY <1>1, <3>1
  <2>2. CASE ~(n + 1 <= k)
    BY <2>2
  <2> QED BY <2>1, <2>2
<1>4. N = Nat
  <2> HIDE DEF N
  <2> QED BY <1>2, <1>3, SetInduction
<1>5. \A n \in 0 .. k : b[n] = a[n]
  BY <1>4
<1> QED BY <1>5 DEF a, b

(* An instruction that becomes n shorter moves what is behind it by n.     *)
LEMMA EndsShorter ==
    ASSUME NEW c, IsCode(c), NEW d, IsCode(d), NEW p \in DOMAIN c, NEW m \in Nat, Len(d) = Len(c),
           d[p].size = c[p].size - m, \A i \in DOMAIN c : i # p => d[i].size = c[i].size
    PROVE  \A n \in 0 .. Len(c) : Ends(d)[n] = IF n < p THEN Ends(c)[n] ELSE Ends(c)[n] - m
<1> DEFINE a == Ends(c)
           b == Ends(d)
           N == {n \in Nat : n <= Len(c) => b[n] = IF n < p THEN a[n] ELSE a[n] - m}
<1>0. Len(c) \in Nat /\ DOMAIN c = 1 .. Len(c) /\ \A i \in 1 .. Len(c) : c[i].size \in Nat /\ d[i].size \in Nat
  BY CodeSeq
<1>1. /\ a[0] = 0 /\ \A n \in 1 .. Len(c) : a[n] = a[n - 1] + c[n].size
      /\ b[0] = 0 /\ \A n \in 1 .. Len(c) : b[n] = b[n - 1] + d[n].size
      /\ \A n \in 0 .. Len(c) : a[n] \in Nat /\ b[n] \in Nat
  BY EndsSteps
<1> HIDE DEF a, b
<1>2. N \subseteq Nat /\ 0 \in N
  BY <1>0, <1>1
<1>3. ASSUME NEW n \in N PROVE n + 1 \in N
  <2>1. CASE n + 1 <= Len(c)
    <3>1. n + 1 \in 1 .. Len(c) /\ (n + 1) - 1 = n /\ n \in 0 .. Len(c) /\ (b[n] = IF n < p THEN a[n] ELSE a[n] - m)
      BY <1>0, <2>1
    <3>2. a[n + 1] = a[n] + c[n + 1].size /\ b[n + 1] = b[n] + d[n + 1].size /\ a[n] \in Nat /\ b[n] \in Nat
      BY <1>1, <3>1
    <3>3. c[n + 1].size \in Nat /\ d[n + 1].size \in Nat /\ (n + 1 # p => d[n + 1].size = c[n + 1].size)
      BY <1>0, <3>1
    <3>4. CASE n + 1 < p
      BY <1>0, <3>1, <3>2, <3>3, <3>4
    <3>5. CASE n + 1 = p
      <4>1. b[n] = a[n] /\ d[n + 1].size = c[n + 1].size - m
        BY <1>0, <3>1, <3>5
      <4>2. b[n + 1] = a[n + 1] - m
        BY <3>2, <3>3, <4>1
      <4> QED BY <3>5, <4>2, <1>0
    <3>6. CASE n + 1 > p
      <4>1. b[n] = a[n] - m /\ d[n + 1].size = c[n + 1].size
        BY <1>0, <3>1, <3>3, <3>6
      <4>2. b[n + 1] = a[n + 1] - m
        BY <3>2, <3>3, <4>1
      <4> QED BY <3>6, <4>2, <1>0
    <3>7. p \in Nat /\ n \in Nat
      BY <1>0
    <3> QED BY <3>4, <3>5, <3>6, <3>7
  <2>2. CASE ~(n + 1 <= Len(c))
    BY <2>2
  <2> QED BY <2>1, <2>2
<1>4. N = Nat
  <2> HIDE DEF N
  <2> QED BY <1>2, <1>3, SetInduction
<1>5. \A n \in 0 .. Len(c) : b[n] = IF n < p THEN a[n] ELSE a[n] - m
  BY <1>0, <1>4
<1> QED BY <1>5 DEF a, b

(* A label is where it is defined.                                         *)
LEMMA WhereIs ==
    ASSUME NEW code, Unique(code), NEW i \in DOMAIN code, NEW l, IsLabel(code[i], l)
    PROVE  Where(code, l) = i
<1> DEFINE P(j) == code[j].op = "label" /\ code[j].label = l
<1>1. P(i)
  BY DEF IsLabel
<1>2. ASSUME NEW j \in DOMAIN code, P(j) PROVE j = i
  BY <1>1, <1>2 DEF Unique, IsLabel
<1>3. Where(code, l) = CHOOSE j \in DOMAIN code : P(j)
  BY DEF Where
<1> HIDE DEF P
<1> QED BY <1>1, <1>2, <1>3

LEMMA WhereLabel ==
    ASSUME NEW code, Unique(code), NEW l \in Labels(code)
    PROVE  Where(code, l) \in DOMAIN code /\ IsLabel(code[Where(code, l)], l)
<1>1. PICK i \in DOMAIN code : code[i].op = "label" /\ l = code[i].label
  BY DEF Labels
<1>2. IsLabel(code[i], l)
  BY <1>1 DEF IsLabel
<1>3. Where(code, l) = i
  BY <1>2, WhereIs
<1> QED BY <1>2, <1>3

LEMMA LabelIn ==
    ASSUME NEW code, NEW i \in DOMAIN code, NEW l, IsLabel(code[i], l)
    PROVE  l \in Labels(code)
BY DEF Labels, IsLabel

(* One more instruction: a new label, or a branch that is long or reaches. *)
LEMMA AddCode ==
    ASSUME NEW c, IsCode(c), Unique(c), Targets(c), ShortReach(c), NEW x, IsInstr(x),
           x.op = "label" => x.label \notin Labels(c),
           x.op = "branch" /\ x.short =>
               /\ x.label \in Labels(c)
               /\ isshortbranch(Ends(c)[Where(c, x.label)] - (Ends(c)[Len(c)] + x.size))
    PROVE  LET d == Append(c, x)
           IN  /\ IsCode(d) /\ Unique(d) /\ Targets(d) /\ ShortReach(d) /\ Len(c) \in Nat
               /\ DOMAIN c = 1 .. Len(c) /\ DOMAIN d = 1 .. Len(c) + 1 /\ Len(d) = Len(c) + 1
               /\ (\A i \in 1 .. Len(c) : d[i] = c[i]) /\ d[Len(c) + 1] = x
               /\ \A n \in 0 .. Len(c) : Ends(d)[n] = Ends(c)[n]
               /\ Ends(d)[Len(c) + 1] = Ends(c)[Len(c)] + x.size
               /\ Labels(d) = Labels(c) \cup (IF x.op = "label" THEN {x.label} ELSE {})
               /\ \A l \in Labels(c) : Where(d, l) = Where(c, l)
<1> DEFINE d == Append(c, x)
           n1 == Len(c) + 1
<1>0. IsSeq(c)
  BY DEF IsCode
<1>1. /\ IsSeq(d) /\ Len(c) \in Nat /\ DOMAIN c = 1 .. Len(c) /\ Len(d) = n1 /\ DOMAIN d = 1 .. n1
      /\ d[n1] = x /\ \A i \in 1 .. Len(c) : d[i] = c[i]
  BY <1>0, AppendSeq
<1> HIDE DEF d
<1>2. \A i \in DOMAIN d : i = n1 \/ (i \in DOMAIN c /\ i # n1)
  BY <1>1
<1>3. IsCode(d)
  BY <1>1, <1>2 DEF IsCode
<1>4. /\ \A n \in 0 .. Len(c) : Ends(d)[n] = Ends(c)[n]
      /\ Ends(d)[n1] = Ends(c)[Len(c)] + x.size
  <2>1. \A n \in 0 .. Len(c) : Ends(d)[n] = Ends(c)[n]
    BY <1>1, <1>3, EndsSame
  <2>2. Ends(d)[n1] = Ends(d)[n1 - 1] + d[n1].size
    BY <1>1, <1>3, EndsSteps
  <2>3. n1 - 1 = Len(c) /\ Len(c) \in 0 .. Len(c)
    BY <1>1
  <2> QED BY <1>1, <2>1, <2>2, <2>3
<1>5. Labels(d) = Labels(c) \cup (IF x.op = "label" THEN {x.label} ELSE {})
  <2>1. ASSUME NEW l \in Labels(d) PROVE l \in Labels(c) \/ (x.op = "label" /\ l = x.label)
    <3>1. PICK i \in DOMAIN d : d[i].op = "label" /\ l = d[i].label
      BY DEF Labels
    <3>2. CASE i = n1
      BY <1>1, <3>1, <3>2
    <3>3. CASE i \in DOMAIN c
      <4>1. d[i] = c[i]
        BY <1>1, <3>3
      <4> QED BY <3>1, <3>3, <4>1 DEF Labels
    <3> QED BY <1>2, <3>2, <3>3
  <2>2. ASSUME NEW l \in Labels(c) PROVE l \in Labels(d)
    <3>1. PICK i \in DOMAIN c : c[i].op = "label" /\ l = c[i].label
      BY DEF Labels
    <3>2. i \in DOMAIN d /\ d[i] = c[i]
      BY <1>1
    <3> QED BY <3>1, <3>2 DEF Labels
  <2>3. x.op = "label" => x.label \in Labels(d)
    <3>1. n1 \in DOMAIN d /\ d[n1] = x
      BY <1>1
    <3> QED BY <3>1 DEF Labels
  <2> QED BY <2>1, <2>2, <2>3
<1>6. Unique(d)
  <2> SUFFICES ASSUME NEW i \in DOMAIN d, NEW j \in DOMAIN d, d[i].op = "label", d[j].op = "label", d[j].label = d[i].label
               PROVE  i = j
    BY DEF Unique, IsLabel
  <2>1. CASE i \in DOMAIN c /\ j \in DOMAIN c
    <3>1. d[i] = c[i] /\ d[j] = c[j]
      BY <1>1, <2>1
    <3> QED BY <2>1, <3>1 DEF Unique, IsLabel
  <2>2. CASE i = n1 /\ j = n1
    BY <2>2
  <2>3. CASE i = n1 /\ j \in DOMAIN c
    <3>1. d[i] = x /\ d[j] = c[j]
      BY <1>1, <2>3
    <3> QED BY <2>3, <3>1 DEF Labels
  <2>4. CASE j = n1 /\ i \in DOMAIN c
    <3>1. d[j] = x /\ d[i] = c[i]
      BY <1>1, <2>4
    <3> QED BY <2>4, <3>1 DEF Labels
  <2> QED BY <1>2, <2>1, <2>2, <2>3, <2>4
<1>7. ASSUME NEW l \in Labels(c) PROVE Where(d, l) = Where(c, l) /\ Where(c, l) \in 1 .. Len(c)
  <2>1. Where(c, l) \in DOMAIN c /\ IsLabel(c[Where(c, l)], l)
    BY WhereLabel
  <2>2. Where(c, l) \in DOMAIN d /\ IsLabel(d[Where(c, l)], l)
    BY <1>1, <2>1
  <2>3. Where(d, l) = Where(c, l)
    BY <1>6, <2>2, WhereIs
  <2> QED BY <1>1, <2>1, <2>3
<1>8. Targets(d)
  <2> SUFFICES ASSUME NEW i \in DOMAIN d, d[i].op = "branch", d[i].short PROVE d[i].label \in Labels(d)
    BY DEF Targets
  <2>1. CASE i = n1
    BY <1>1, <1>5, <2>1
  <2>2. CASE i \in DOMAIN c
    <3>1. d[i] = c[i]
      BY <1>1, <2>2
    <3> QED BY <1>5, <2>2, <3>1 DEF Targets
  <2> QED BY <1>2, <2>1, <2>2
<1>9. ShortReach(d)
  <2> SUFFICES ASSUME NEW i \in DOMAIN d, d[i].op = "branch", d[i].short
               PROVE  isshortbranch(Ends(d)[Where(d, d[i].label)] - Ends(d)[i])
    BY DEF ShortReach
  <2>1. CASE i = n1
    <3>1. d[i] = x
      BY <1>1, <2>1
    <3>2. x.label \in Labels(c) /\ isshortbranch(Ends(c)[Where(c, x.label)] - (Ends(c)[Len(c)] + x.size))
      BY <3>1
    <3>3. Where(d, x.label) = Where(c, x.label) /\ Where(c, x.label) \in 0 .. Len(c)
      BY <1>1, <1>7, <3>2
    <3>4. Ends(d)[Where(d, x.label)] = Ends(c)[Where(c, x.label)] /\ Ends(d)[i] = Ends(c)[Len(c)] + x.size
      BY <1>4, <2>1, <3>3
    <3> QED BY <3>1, <3>2, <3>4
  <2>2. CASE i \in DOMAIN c
    <3>1. d[i] = c[i] /\ i \in 0 .. Len(c)
      BY <1>1, <2>2
    <3>2. c[i].label \in Labels(c) /\ isshortbranch(Ends(c)[Where(c, c[i].label)] - Ends(c)[i])
      BY <2>2, <3>1 DEF Targets, ShortReach
    <3>3. Where(d, c[i].label) = Where(c, c[i].label) /\ Where(c, c[i].label) \in 0 .. Len(c)
      BY <1>1, <1>7, <3>2
    <3>4. Ends(d)[Where(d, d[i].label)] = Ends(c)[Where(c, c[i].label)] /\ Ends(d)[i] = Ends(c)[i]
      BY <1>4, <3>1, <3>3
    <3> QED BY <3>2, <3>4
  <2> QED BY <1>2, <2>1, <2>2
<1> QED BY <1>1, <1>3, <1>4, <1>5, <1>6, <1>7, <1>8, <1>9 DEF d

(* A long branch forward becomes short: no distance grows.                 *)
LEMMA ShortenCode ==
    ASSUME NEW c, IsCode(c), Unique(c), Targets(c), ShortReach(c),
           NEW p \in DOMAIN c, c[p].op = "branch", ~c[p].short, c[p].label \in Labels(c),
           p < Where(c, c[p].label), isshortbranch(Ends(c)[Where(c, c[p].label)] - Ends(c)[p])
    PROVE  LET d == [c EXCEPT ![p] = Branch(c[p].cond, c[p].label, TRUE)]
               m == Shorter(c[p].cond)
           IN  /\ IsCode(d) /\ Unique(d) /\ Targets(d) /\ ShortReach(d) /\ Labels(d) = Labels(c)
               /\ m \in Nat /\ Len(d) = Len(c) /\ DOMAIN d = DOMAIN c
               /\ d[p] = Branch(c[p].cond, c[p].label, TRUE) /\ \A i \in DOMAIN c : i # p => d[i] = c[i]
               /\ \A n \in 0 .. Len(c) : Ends(d)[n] = IF n < p THEN Ends(c)[n] ELSE Ends(c)[n] - m
               /\ \A l \in Labels(c) : Where(d, l) = Where(c, l)
<1> DEFINE b == Branch(c[p].cond, c[p].label, TRUE)
           d == [c EXCEPT ![p] = b]
           m == Shorter(c[p].cond)
<1>0. IsSeq(c)
  BY DEF IsCode
<1>1. IsSeq(d) /\ Len(d) = Len(c) /\ DOMAIN d = DOMAIN c /\ d[p] = b /\ \A i \in DOMAIN c : i # p => d[i] = c[i]
  BY <1>0, ChangeSeq
<1> HIDE DEF d
<1>2. Len(c) \in Nat /\ DOMAIN c = 1 .. Len(c) /\ p \in 1 .. Len(c) /\ \A i \in 1 .. Len(c) : c[i].size \in Nat
  BY CodeSeq
<1>3. m \in Nat /\ m \in {1, 3} /\ b.size = 2 /\ b.op = "branch" /\ b.short = TRUE /\ b.label = c[p].label /\ b.cond = c[p].cond
  BY DEF Shorter, Branch
<1>4. c[p].size = 2 + m /\ c[p].short \in BOOLEAN
  <2>1. c[p].short \in BOOLEAN /\ c[p] = Branch(c[p].cond, c[p].label, c[p].short)
    BY DEF IsCode, IsInstr
  <2>2. Branch(c[p].cond, c[p].label, c[p].short).size = 2 + m
    BY DEF Branch
  <2> QED BY <2>1, <2>2
<1>5. IsCode(d)
  <2>1. IsInstr(b)
    <3>1. b = Branch(b.cond, b.label, b.short)
      BY <1>3
    <3> HIDE DEF b
    <3>2. b.size \in Nat /\ b.op # "label"
      BY <1>3
    <3>3. b.short \in BOOLEAN
      BY <1>3
    <3> QED BY <3>1, <3>2, <3>3 DEF IsInstr
  <2> HIDE DEF b
  <2>2. ASSUME NEW i \in DOMAIN d PROVE IsInstr(d[i])
    BY <1>1, <2>1 DEF IsCode
  <2> QED BY <1>1, <2>2 DEF IsCode
<1>6. \A n \in 0 .. Len(c) : Ends(d)[n] = IF n < p THEN Ends(c)[n] ELSE Ends(c)[n] - m
  <2>1. m \in Nat /\ b.size = 2 /\ c[p].size = 2 + m
    BY <1>3, <1>4
  <2> HIDE DEF b, m
  <2>2. d[p].size = c[p].size - m
    BY <1>1, <2>1
  <2>3. \A i \in DOMAIN c : i # p => d[i].size = c[i].size
    BY <1>1
  <2>4. Len(d) = Len(c)
    BY <1>1
  <2> QED BY <1>5, <2>1, <2>2, <2>3, <2>4, EndsShorter
<1> HIDE DEF b, m
<1>7. \A i \in DOMAIN c : d[i].op = c[i].op /\ d[i].label = c[i].label
  BY <1>1, <1>3
<1>8. Labels(d) = Labels(c)
  BY <1>1, <1>7 DEF Labels
<1>9. Unique(d)
  BY <1>1, <1>7 DEF Unique, IsLabel
<1>10. ASSUME NEW l \in Labels(c) PROVE Where(d, l) = Where(c, l) /\ Where(c, l) \in 1 .. Len(c)
  <2>1. Where(c, l) \in DOMAIN c /\ IsLabel(c[Where(c, l)], l)
    BY WhereLabel
  <2>2. Where(c, l) \in DOMAIN d /\ IsLabel(d[Where(c, l)], l)
    BY <1>1, <1>7, <2>1 DEF IsLabel
  <2>3. Where(d, l) = Where(c, l)
    BY <1>9, <2>2, WhereIs
  <2> QED BY <1>2, <2>1, <2>3
<1>11. Targets(d)
  <2> SUFFICES ASSUME NEW i \in DOMAIN d, d[i].op = "branch", d[i].short PROVE d[i].label \in Labels(d)
    BY DEF Targets
  <2>1. CASE i = p
    BY <1>1, <1>3, <1>8, <2>1
  <2>2. CASE i # p
    BY <1>1, <1>8, <2>2 DEF Targets
  <2> QED BY <2>1, <2>2
<1>12. ShortReach(d)
  <2> SUFFICES ASSUME NEW i \in DOMAIN d, d[i].op = "branch", d[i].short
               PROVE  isshortbranch(Ends(d)[Where(d, d[i].label)] - Ends(d)[i])
    BY DEF ShortReach
  <2> DEFINE w == Where(c, c[i].label)
             at == Ends(c)
             to == Ends(d)
  <2>1. c[i].label \in Labels(c) /\ isshortbranch(at[w] - at[i]) /\ (i = p => p < w)
    <3>1. CASE i = p
      BY <3>1
    <3>2. CASE i # p
      BY <1>1, <3>2 DEF Targets, ShortReach
    <3> QED BY <3>1, <3>2
  <2>2. Where(d, d[i].label) = w /\ w \in 1 .. Len(c) /\ i \in 1 .. Len(c)
    BY <1>1, <1>2, <1>7, <1>10, <2>1
  <2>3. at[w] \in Nat /\ at[i] \in Nat /\ to[w] \in Nat /\ to[i] \in Nat
    <3>1. i \in 0 .. Len(c) /\ w \in 0 .. Len(c) /\ i \in 0 .. Len(d) /\ w \in 0 .. Len(d)
      BY <1>1, <1>2, <2>2
    <3> HIDE DEF w
    <3> QED BY <1>5, <3>1, EndsSteps
  <2>4. to[w] = (IF w < p THEN at[w] ELSE at[w] - m) /\ to[i] = (IF i < p THEN at[i] ELSE at[i] - m)
    <3>1. w \in 0 .. Len(c) /\ i \in 0 .. Len(c)
      BY <1>2, <2>2
    <3> HIDE DEF w
    <3> QED BY <1>6, <3>1
  <2>5. (i <= w => to[i] <= to[w]) /\ (w <= i => to[w] <= to[i])
    <3>1. i \in 0 .. Len(d) /\ w \in 0 .. Len(d)
      BY <1>1, <1>2, <2>2
    <3> HIDE DEF w
    <3> QED BY <1>5, <3>1, EndsGrow
  <2>6. w \in Nat /\ i \in Nat /\ p \in Nat /\ MAXSCHTO \in Nat
    BY <1>2, <2>2, LabelAssumption
  <2> HIDE DEF w, at, to
  <2>7. at[w] - at[i] >= -MAXSCHTO - 1 /\ at[w] - at[i] <= MAXSCHTO
    BY <2>1, <2>3, <2>6 DEF isshortbranch
  <2>8. to[w] - to[i] >= -MAXSCHTO - 1 /\ to[w] - to[i] <= MAXSCHTO
    <3>1. CASE w < p /\ i < p
      BY <2>3, <2>4, <2>7, <3>1
    <3>2. CASE ~(w < p) /\ ~(i < p)
      BY <1>3, <2>3, <2>4, <2>7, <3>2
    <3>3. CASE ~(w < p) /\ i < p
      <4>1. to[w] = at[w] - m /\ to[i] = at[i] /\ to[i] <= to[w]
        BY <2>4, <2>5, <2>6, <3>3
      <4> QED BY <1>3, <2>3, <2>6, <2>7, <4>1
    <3>4. CASE w < p /\ ~(i < p)
      <4>1. to[w] = at[w] /\ to[i] = at[i] - m /\ to[w] <= to[i]
        BY <2>4, <2>5, <2>6, <3>4
      <4> QED BY <1>3, <2>3, <2>6, <2>7, <4>1
    <3> QED BY <3>1, <3>2, <3>3, <3>4
  <2>9. isshortbranch(to[w] - to[i])
    BY <2>3, <2>6, <2>8 DEF isshortbranch
  <2>10. Ends(d)[Where(d, d[i].label)] - Ends(d)[i] = to[w] - to[i]
    BY <2>2 DEF to
  <2> QED BY <2>9, <2>10
<1> QED BY <1>1, <1>3, <1>5, <1>6, <1>8, <1>9, <1>10, <1>11, <1>12 DEF d, b, m

-----------------------------------------------------------------------------
(* The table beside the code.                                              *)
(* The table: a live entry says where the end of its label or branch is,   *)
(* unless the branch is short by now; older entries are of earlier places. *)
Slots == 0 .. MAXVISLAB - 1
IsTable(h) ==
    /\ DOMAIN h = {"code", "lc", "vis", "next"} /\ h.next \in Slots /\ DOMAIN h.vis = Slots
    /\ \A k \in Slots : DOMAIN h.vis[k] = DOMAIN Free /\ h.vis[k].lablc \in Int /\ h.vis[k].labpatch \in Nat
Live(h, k) == h.vis[k].labnum # 0
Pos(h, k) == IF h.vis[k].labpatch # 0 THEN h.vis[k].labpatch ELSE Where(h.code, h.vis[k].labnum)
Stands(h, k) ==
    LET e == h.vis[k]
        i == h.code[Pos(h, k)]
    IN  /\ Pos(h, k) \in DOMAIN h.code
        /\ e.labpatch = 0 => IsLabel(i, e.labnum)
        /\ e.labpatch # 0 => i.op = "branch" /\ i.label = e.labnum /\ i.cond = e.labcond
        /\ (i.op = "branch" /\ i.short) \/ e.lablc = Ends(h.code)[Pos(h, k)]
Ordered(h) ==
    \A j, k \in Slots : Live(h, j) /\ Live(h, k) /\ Age(h, j) < Age(h, k) => Pos(h, k) < Pos(h, j)
Made(h) ==
    /\ IsTable(h) /\ IsCode(h.code) /\ Unique(h.code) /\ Targets(h.code)
    /\ h.lc = Ends(h.code)[Len(h.code)] /\ ShortReach(h.code)
    /\ \A k \in Slots : Live(h, k) => Stands(h, k)
    /\ Ordered(h)


(* Ages, and places in the circle.                                         *)
LEMMA AgeIs ==
    ASSUME NEW h, h.next \in Slots, NEW k \in Slots
    PROVE  /\ Age(h, k) = IF k < h.next THEN h.next - 1 - k ELSE h.next - 1 - k + MAXVISLAB
           /\ Age(h, k) \in Slots
<1>1. MAXVISLAB \in Nat /\ MAXVISLAB > 0 /\ h.next \in 0 .. MAXVISLAB - 1 /\ k \in 0 .. MAXVISLAB - 1
  BY LabelAssumption DEF Slots
<1> DEFINE N == MAXVISLAB
           x == h.next - 1 - k
<1>2. CASE k < h.next
  <2>1. x \in 0 .. N - 1
    BY <1>1, <1>2
  <2> HIDE DEF x
  <2>2. x % N = x
    BY <1>1, <2>1
  <2> QED BY <1>2, <2>1, <2>2 DEF Age, Slots, x
<1>3. CASE ~(k < h.next)
  <2>1. x \in -N .. -1 /\ x + N \in 0 .. N - 1
    BY <1>1, <1>3
  <2> HIDE DEF x
  <2>2. x % N = x + N
    BY <1>1, <2>1
  <2> QED BY <1>3, <2>1, <2>2 DEF Age, Slots, x
<1> QED BY <1>2, <1>3

LEMMA SlotOfAge ==
    ASSUME NEW h, h.next \in Slots, NEW n \in Slots
    PROVE  (h.next - (n + 1)) % MAXVISLAB \in Slots /\ Age(h, (h.next - (n + 1)) % MAXVISLAB) = n
<1> DEFINE N == MAXVISLAB
           x == h.next - (n + 1)
           i == x % N
<1>1. N \in Nat /\ N > 0 /\ h.next \in 0 .. N - 1 /\ n \in 0 .. N - 1
  BY LabelAssumption DEF Slots
<1>2. i = IF n < h.next THEN x ELSE x + N
  <2>1. CASE n < h.next
    <3>1. x \in 0 .. N - 1
      BY <1>1, <2>1
    <3> HIDE DEF x
    <3>2. x % N = x
      BY <1>1, <3>1
    <3> QED BY <2>1, <3>2
  <2>2. CASE ~(n < h.next)
    <3>1. x \in -N .. -1
      BY <1>1, <2>2
    <3> HIDE DEF x
    <3>2. x % N = x + N
      BY <1>1, <3>1
    <3> QED BY <2>2, <3>2
  <2> QED BY <2>1, <2>2
<1> HIDE DEF i
<1>3. i \in Slots
  BY <1>1, <1>2 DEF Slots
<1>4. Age(h, i) = IF i < h.next THEN h.next - 1 - i ELSE h.next - 1 - i + N
  BY <1>3, AgeIs
<1>5. Age(h, i) = n
  BY <1>1, <1>2, <1>4
<1> QED BY <1>3, <1>5 DEF i

LEMMA AgesDiffer ==
    ASSUME NEW h, h.next \in Slots, NEW j \in Slots, NEW k \in Slots, j # k
    PROVE  Age(h, j) < Age(h, k) \/ Age(h, k) < Age(h, j)
<1>1. MAXVISLAB \in Nat /\ h.next \in 0 .. MAXVISLAB - 1 /\ k \in 0 .. MAXVISLAB - 1 /\ j \in 0 .. MAXVISLAB - 1
  BY LabelAssumption DEF Slots
<1>2. /\ Age(h, k) = IF k < h.next THEN h.next - 1 - k ELSE h.next - 1 - k + MAXVISLAB
      /\ Age(h, j) = IF j < h.next THEN h.next - 1 - j ELSE h.next - 1 - j + MAXVISLAB
  BY AgeIs
<1> QED BY <1>1, <1>2

(* The slot used next becomes the youngest, the others age by one.         *)
LEMMA OneOlder ==
    ASSUME NEW h, NEW e, h.next \in Slots, e.next = (h.next + 1) % MAXVISLAB
    PROVE  /\ e.next \in Slots /\ Age(e, h.next) = 0
           /\ \A k \in Slots : k # h.next => Age(e, k) = Age(h, k) + 1
<1> DEFINE N == MAXVISLAB
           x == h.next + 1
<1>1. N \in Nat /\ N > 0 /\ h.next \in 0 .. N - 1
  BY LabelAssumption DEF Slots
<1>2. e.next = IF x = N THEN 0 ELSE x
  <2>1. CASE x = N
    <3>1. N % N = 0
      BY <1>1
    <3> QED BY <2>1, <3>1
  <2>2. CASE x # N
    <3>1. x \in 0 .. N - 1
      BY <1>1, <2>2
    <3> HIDE DEF x
    <3>2. x % N = x
      BY <1>1, <3>1
    <3> QED BY <2>2, <3>2 DEF x
  <2> QED BY <2>1, <2>2
<1>3. e.next \in Slots
  BY <1>1, <1>2 DEF Slots
<1>4. Age(e, h.next) = 0
  <2>1. Age(e, h.next) = IF h.next < e.next THEN e.next - 1 - h.next ELSE e.next - 1 - h.next + N
    BY <1>3, AgeIs
  <2> QED BY <1>1, <1>2, <2>1
<1>5. ASSUME NEW k \in Slots, k # h.next PROVE Age(e, k) = Age(h, k) + 1
  <2>1. /\ Age(e, k) = IF k < e.next THEN e.next - 1 - k ELSE e.next - 1 - k + N
        /\ Age(h, k) = IF k < h.next THEN h.next - 1 - k ELSE h.next - 1 - k + N
    BY <1>3, AgeIs
  <2>2. k \in 0 .. N - 1
    BY DEF Slots
  <2> QED BY <1>1, <1>2, <1>5, <2>1, <2>2
<1> QED BY <1>3, <1>4, <1>5

(* The place of an entry is that of its instruction.                       *)
LEMMA PosOfLabel ==
    ASSUME NEW h, Made(h), NEW k \in Slots, Live(h, k), h.vis[k].labpatch = 0
    PROVE  h.vis[k].labnum \in Labels(h.code)
<1>1. Pos(h, k) \in DOMAIN h.code /\ IsLabel(h.code[Pos(h, k)], h.vis[k].labnum)
  BY DEF Made, Stands
<1> HIDE DEF Made, Stands
<1> QED BY <1>1, LabelIn

(* An entry keeps its place when the code before it stays.                 *)
LEMMA SamePos ==
    ASSUME NEW h, Made(h), NEW e, NEW k \in Slots, Live(h, k),
           e.vis[k].labnum = h.vis[k].labnum, e.vis[k].labpatch = h.vis[k].labpatch,
           \A l \in Labels(h.code) : Where(e.code, l) = Where(h.code, l)
    PROVE  Pos(e, k) = Pos(h, k)
<1>1. CASE h.vis[k].labpatch # 0
  BY <1>1 DEF Pos
<1>2. CASE h.vis[k].labpatch = 0
  <2>1. h.vis[k].labnum \in Labels(h.code)
    BY <1>2, PosOfLabel
  <2> QED BY <1>2, <2>1 DEF Pos
<1> QED BY <1>1, <1>2

(* One more instruction; flushout only removes entries.                    *)
LEMMA ClearLabels ==
    ASSUME NEW vis, DOMAIN vis = Slots, \A k \in Slots : DOMAIN vis[k] = DOMAIN Free, NEW top
    PROVE  LET v == clearlabels(vis, top)
           IN  /\ DOMAIN v = Slots
               /\ \A k \in Slots : /\ DOMAIN v[k] = DOMAIN Free /\ v[k].lablc = vis[k].lablc
                                   /\ v[k].labpatch = vis[k].labpatch
                                   /\ v[k].labnum # 0 => v[k] = vis[k]
BY DEF clearlabels, Free

LEMMA EmitFields ==
    ASSUME NEW h, IsTable(h), NEW x
    PROVE  LET e == Emit(h, x)
           IN  /\ IsTable(e) /\ e.code = Append(h.code, x) /\ e.lc = h.lc + x.size /\ e.next = h.next
               /\ \A k \in Slots : Live(e, k) => e.vis[k] = h.vis[k]
<1> DEFINE v == IF (Len(h.code) + 1) % OUTBUFSIZE = 0
                THEN clearlabels(h.vis, Len(h.code) + 1 - OUTBUFSIZE) ELSE h.vis
           e == Emit(h, x)
           top == Len(h.code) + 1 - OUTBUFSIZE
<1>1. e = [h EXCEPT !.code = Append(h.code, x), !.lc = h.lc + x.size, !.vis = v]
  BY DEF Emit
<1>2. DOMAIN h.vis = Slots /\ \A k \in Slots : DOMAIN h.vis[k] = DOMAIN Free
  BY DEF IsTable
<1>3. /\ DOMAIN v = Slots
      /\ \A k \in Slots : /\ DOMAIN v[k] = DOMAIN Free /\ v[k].lablc = h.vis[k].lablc
                          /\ v[k].labpatch = h.vis[k].labpatch
                          /\ v[k].labnum # 0 => v[k] = h.vis[k]
  <2> HIDE DEF top
  <2>1. CASE (Len(h.code) + 1) % OUTBUFSIZE = 0
    <3>1. v = clearlabels(h.vis, top)
      BY <2>1 DEF top
    <3> QED BY <1>2, <3>1, ClearLabels
  <2>2. CASE (Len(h.code) + 1) % OUTBUFSIZE # 0
    BY <1>2, <2>2
  <2> QED BY <2>1, <2>2
<1> HIDE DEF e, v
<1>4. DOMAIN h = {"code", "lc", "vis", "next"}
  BY DEF IsTable
<1>5. DOMAIN e = {"code", "lc", "vis", "next"} /\ e.code = Append(h.code, x) /\ e.lc = h.lc + x.size
      /\ e.vis = v /\ e.next = h.next
  BY <1>1, <1>4
<1>6. IsTable(e)
  BY <1>3, <1>5 DEF IsTable
<1>7. \A k \in Slots : Live(e, k) => e.vis[k] = h.vis[k]
  BY <1>3, <1>5 DEF Live
<1> QED BY <1>5, <1>6, <1>7 DEF e

LEMMA MadeEmit ==
    ASSUME NEW h, Made(h), NEW x, IsInstr(x),
           x.op = "label" => x.label \notin Labels(h.code),
           x.op = "branch" /\ x.short =>
               /\ x.label \in Labels(h.code)
               /\ isshortbranch(Ends(h.code)[Where(h.code, x.label)] - (h.lc + x.size))
    PROVE  LET e == Emit(h, x)
           IN  /\ Made(e) /\ e.next = h.next /\ Len(e.code) = Len(h.code) + 1 /\ Len(h.code) \in Nat
               /\ DOMAIN e.code = 1 .. Len(e.code)
               /\ e.code[Len(e.code)] = x /\ \A i \in 1 .. Len(h.code) : e.code[i] = h.code[i]
               /\ Labels(e.code) = Labels(h.code) \cup (IF x.op = "label" THEN {x.label} ELSE {})
               /\ \A k \in Slots : Live(e, k) => /\ Pos(e, k) \in 1 .. Len(h.code) /\ Live(h, k)
                                                 /\ e.vis[k] = h.vis[k]
<1> DEFINE c == h.code
           d == Append(h.code, x)
           e == Emit(h, x)
<1>1. IsTable(h) /\ IsCode(c) /\ Unique(c) /\ Targets(c) /\ ShortReach(c) /\ h.lc = Ends(c)[Len(c)]
  BY DEF Made
<1>2. /\ IsTable(e) /\ e.code = d /\ e.lc = h.lc + x.size /\ e.next = h.next
      /\ \A k \in Slots : Live(e, k) => e.vis[k] = h.vis[k]
  BY <1>1, EmitFields
<1>3. x.op = "branch" /\ x.short =>
               /\ x.label \in Labels(c)
               /\ isshortbranch(Ends(c)[Where(c, x.label)] - (Ends(c)[Len(c)] + x.size))
  BY <1>1
<1> HIDE DEF e
<1>4. /\ IsCode(d) /\ Unique(d) /\ Targets(d) /\ ShortReach(d) /\ Len(c) \in Nat
      /\ DOMAIN c = 1 .. Len(c) /\ DOMAIN d = 1 .. Len(c) + 1 /\ Len(d) = Len(c) + 1
      /\ (\A i \in 1 .. Len(c) : d[i] = c[i]) /\ d[Len(c) + 1] = x
      /\ \A n \in 0 .. Len(c) : Ends(d)[n] = Ends(c)[n]
      /\ Ends(d)[Len(c) + 1] = Ends(c)[Len(c)] + x.size
      /\ Labels(d) = Labels(c) \cup (IF x.op = "label" THEN {x.label} ELSE {})
      /\ \A l \in Labels(c) : Where(d, l) = Where(c, l)
  <2> HIDE DEF c
  <2>1. x.op = "label" => x.label \notin Labels(c)
    BY DEF c
  <2> QED BY <1>1, <1>3, <2>1, AddCode DEF c
<1> HIDE DEF c, d
<1>5. ASSUME NEW k \in Slots, Live(e, k)
      PROVE  Pos(e, k) = Pos(h, k) /\ Live(h, k) /\ e.vis[k] = h.vis[k] /\ Pos(h, k) \in 1 .. Len(c) /\ Stands(h, k)
  <2>1. e.vis[k] = h.vis[k] /\ Live(h, k)
    BY <1>2, <1>5 DEF Live
  <2>2. Pos(e, k) = Pos(h, k)
    <3>1. \A l \in Labels(h.code) : Where(e.code, l) = Where(h.code, l)
      BY <1>2, <1>4 DEF c
    <3> QED BY <2>1, <3>1, SamePos
  <2>3. Stands(h, k)
    BY <2>1 DEF Made
  <2>4. Pos(h, k) \in 1 .. Len(c)
    BY <1>4, <2>3 DEF Stands, c
  <2> QED BY <2>1, <2>2, <2>3, <2>4
<1>6. ASSUME NEW k \in Slots, Live(e, k) PROVE Stands(e, k)
  <2> DEFINE p == Pos(h, k)
  <2>1. Pos(e, k) = p /\ e.vis[k] = h.vis[k] /\ p \in 1 .. Len(c) /\ Stands(h, k)
    BY <1>5, <1>6
  <2>2. p \in DOMAIN d /\ d[p] = c[p] /\ Ends(d)[p] = Ends(c)[p]
    <3> HIDE DEF p
    <3>1. p \in 0 .. Len(c) /\ p \in 1 .. Len(c) + 1
      BY <1>4, <2>1
    <3> QED BY <1>4, <2>1, <3>1
  <2>3. /\ h.vis[k].labpatch = 0 => IsLabel(c[p], h.vis[k].labnum)
        /\ h.vis[k].labpatch # 0 => c[p].op = "branch" /\ c[p].label = h.vis[k].labnum /\ c[p].cond = h.vis[k].labcond
        /\ (c[p].op = "branch" /\ c[p].short) \/ h.vis[k].lablc = Ends(c)[p]
    BY <2>1 DEF Stands, c
  <2> HIDE DEF p
  <2> QED BY <1>2, <2>1, <2>2, <2>3 DEF Stands
<1>7. Ordered(e)
  <2> SUFFICES ASSUME NEW j \in Slots, NEW k \in Slots, Live(e, j), Live(e, k), Age(e, j) < Age(e, k)
               PROVE  Pos(e, k) < Pos(e, j)
    BY DEF Ordered
  <2>1. Age(h, j) < Age(h, k)
    BY <1>2 DEF Age
  <2>2. Live(h, j) /\ Live(h, k) /\ Pos(e, j) = Pos(h, j) /\ Pos(e, k) = Pos(h, k)
    BY <1>5
  <2>3. Ordered(h)
    BY DEF Made
  <2> QED BY <2>1, <2>2, <2>3 DEF Ordered
<1>8. e.lc = Ends(d)[Len(d)]
  BY <1>1, <1>2, <1>4
<1>9. Made(e)
  BY <1>2, <1>4, <1>6, <1>7, <1>8 DEF Made
<1> QED BY <1>2, <1>4, <1>5, <1>9 DEF c, e

(* A plain instruction.                                                    *)
LEMMA MadePlain ==
    ASSUME NEW h, Made(h), NEW x, x.op \notin {"label", "branch"}, x.size \in Nat
    PROVE  Made(Emit(h, x)) /\ Labels(Emit(h, x).code) = Labels(h.code)
<1>1. IsInstr(x) /\ x.op # "label" /\ x.op # "branch"
  BY DEF IsInstr
<1> DEFINE e == Emit(h, x)
<1>2. Made(e) /\ Labels(e.code) = Labels(h.code) \cup (IF x.op = "label" THEN {x.label} ELSE {})
  BY <1>1, MadeEmit
<1> QED BY <1>1, <1>2

(* addlabel: the last instruction gets an entry.                           *)
LEMMA MadeAdd ==
    ASSUME NEW h, Made(h), NEW cond, NEW label, label # 0, NEW patch \in Nat, Len(h.code) > 0,
           \A k \in Slots : Live(h, k) => Pos(h, k) < Len(h.code),
           patch = 0 => IsLabel(h.code[Len(h.code)], label),
           patch # 0 => /\ patch = Len(h.code) /\ h.code[patch].op = "branch" /\ h.code[patch].label = label
                        /\ h.code[patch].cond = cond
    PROVE  Made(addlabel(h, cond, label, patch)) /\ addlabel(h, cond, label, patch).code = h.code
<1> DEFINE new == [labnum |-> label, lablc |-> h.lc, labpatch |-> patch, labcond |-> cond]
           e == addlabel(h, cond, label, patch)
           c == h.code
           n == h.next
<1>1. /\ IsTable(h) /\ IsCode(c) /\ Unique(c) /\ Targets(c) /\ ShortReach(c) /\ h.lc = Ends(c)[Len(c)]
      /\ Ordered(h) /\ \A k \in Slots : Live(h, k) => Stands(h, k)
  BY DEF Made
<1>2. Len(c) \in Nat /\ DOMAIN c = 1 .. Len(c)
  BY <1>1, CodeSeq
<1>3. h.lc \in Int
  <2>1. Len(c) \in 0 .. Len(c)
    BY <1>2
  <2> HIDE DEF c
  <2> QED BY <1>1, <2>1, EndsSteps
<1>4. DOMAIN h = {"code", "lc", "vis", "next"} /\ n \in Slots /\ DOMAIN h.vis = Slots
      /\ \A k \in Slots : DOMAIN h.vis[k] = DOMAIN Free /\ h.vis[k].lablc \in Int /\ h.vis[k].labpatch \in Nat
  BY <1>1 DEF IsTable
<1>5. e = [h EXCEPT !.vis = [h.vis EXCEPT ![n] = new], !.next = (n + 1) % MAXVISLAB]
  BY <1>4 DEF addlabel
<1>6. new.labnum = label /\ new.lablc = h.lc /\ new.labpatch = patch /\ new.labcond = cond /\ DOMAIN new = DOMAIN Free
  BY DEF Free
<1> HIDE DEF e, new
<1>7. DOMAIN e = {"code", "lc", "vis", "next"} /\ e.code = c /\ e.lc = h.lc /\ e.next = (n + 1) % MAXVISLAB
      /\ DOMAIN e.vis = Slots /\ e.vis[n] = new /\ \A k \in Slots : k # n => e.vis[k] = h.vis[k]
  BY <1>4, <1>5
<1>8. /\ e.next \in Slots /\ Age(e, n) = 0
      /\ \A k \in Slots : k # n => Age(e, k) = Age(h, k) + 1
  BY <1>4, <1>7, OneOlder
<1> HIDE DEF c, n
<1>9. IsTable(e)
  BY <1>3, <1>4, <1>6, <1>7, <1>8 DEF IsTable
<1>10. Pos(e, n) = Len(c) /\ Live(e, n) /\ Stands(e, n)
  <2>1. CASE patch = 0
    <3>1. Len(c) \in DOMAIN c /\ IsLabel(c[Len(c)], label)
      BY <1>2, <2>1 DEF c
    <3>2. Where(c, label) = Len(c)
      BY <1>1, <3>1, WhereIs
    <3>3. Pos(e, n) = Len(c)
      BY <1>6, <1>7, <2>1, <3>2 DEF Pos
    <3> QED BY <1>1, <1>6, <1>7, <2>1, <3>1, <3>3 DEF Stands, Live
  <2>2. CASE patch # 0
    <3>1. patch = Len(c) /\ Len(c) \in DOMAIN c /\ c[Len(c)].op = "branch" /\ c[Len(c)].label = label /\ c[Len(c)].cond = cond
      BY <1>2, <2>2 DEF c
    <3>2. Pos(e, n) = Len(c)
      BY <1>6, <1>7, <2>2, <3>1 DEF Pos
    <3> QED BY <1>1, <1>6, <1>7, <2>2, <3>1, <3>2 DEF Stands, Live
  <2> QED BY <2>1, <2>2
<1>11. ASSUME NEW k \in Slots, k # n, Live(e, k)
       PROVE  Live(h, k) /\ Pos(e, k) = Pos(h, k) /\ Stands(e, k)
  <2>1. e.vis[k] = h.vis[k] /\ Live(h, k)
    BY <1>7, <1>11 DEF Live
  <2>2. Stands(h, k) /\ Pos(e, k) = Pos(h, k)
    BY <1>1, <1>7, <2>1 DEF Pos, c
  <2>3. Stands(e, k)
    BY <1>7, <2>1, <2>2 DEF Stands, c
  <2> QED BY <2>1, <2>2, <2>3
<1>12. Ordered(e)
  <2> SUFFICES ASSUME NEW j \in Slots, NEW k \in Slots, Live(e, j), Live(e, k), Age(e, j) < Age(e, k)
               PROVE  Pos(e, k) < Pos(e, j)
    BY DEF Ordered
  <2>1. Age(h, j) \in Nat /\ Age(h, k) \in Nat
    <3>1. Age(h, j) \in Slots /\ Age(h, k) \in Slots
      BY <1>4, AgeIs DEF n
    <3> QED BY <3>1, LabelAssumption DEF Slots
  <2>2. CASE j = n /\ k # n
    BY <1>10, <1>11, <2>2 DEF c
  <2>3. CASE k = n
    <3>1. Age(e, j) = 0 \/ Age(e, j) = Age(h, j) + 1
      BY <1>8
    <3> QED BY <1>8, <2>1, <2>3, <3>1
  <2>4. CASE j # n /\ k # n
    <3>1. Age(e, j) = Age(h, j) + 1 /\ Age(e, k) = Age(h, k) + 1
      BY <1>8, <2>4
    <3>2. Age(h, j) < Age(h, k)
      BY <2>1, <3>1
    <3> QED BY <1>1, <1>11, <2>4, <3>2 DEF Ordered
  <2> QED BY <2>2, <2>3, <2>4
<1>13. Made(e)
  <2>1. \A k \in Slots : Live(e, k) => Stands(e, k)
    BY <1>10, <1>11
  <2> QED BY <1>1, <1>7, <1>9, <1>12, <2>1 DEF Made
<1> QED BY <1>7, <1>13 DEF c, e

-----------------------------------------------------------------------------
(* Patches: the label is the last instruction; the branches to it of age n *)
(* or more are still long.                                                 *)
Patching(h, label, n) ==
    /\ Made(h) /\ Len(h.code) > 0 /\ IsLabel(h.code[Len(h.code)], label)
    /\ \A k \in Slots : Live(h, k) => Pos(h, k) < Len(h.code)
    /\ \A k \in Slots : h.vis[k].labnum = label /\ h.vis[k].labpatch # 0 /\ Age(h, k) >= n
                           => ~h.code[h.vis[k].labpatch].short

LEMMA PatchStep ==
    ASSUME NEW h, NEW label, label # 0, NEW n \in Slots, Patching(h, label, n)
    PROVE  LET e == Patch(h, label, (h.next - (n + 1)) % MAXVISLAB)
           IN  Patching(e, label, n + 1) /\ e.next = h.next /\ Labels(e.code) = Labels(h.code)
<1> DEFINE i == (h.next - (n + 1)) % MAXVISLAB
           e == Patch(h, label, i)
           c == h.code
           r == h.vis[i]
           p == r.labpatch
           m == Shorter(r.labcond)
           b == Branch(r.labcond, label, TRUE)
           d == [c EXCEPT ![p] = b]
<1>1. /\ IsTable(h) /\ IsCode(c) /\ Unique(c) /\ Targets(c) /\ ShortReach(c) /\ h.lc = Ends(c)[Len(c)]
      /\ Ordered(h) /\ \A k \in Slots : Live(h, k) => Stands(h, k)
  BY DEF Patching, Made
<1>2. DOMAIN h = {"code", "lc", "vis", "next"} /\ h.next \in Slots /\ DOMAIN h.vis = Slots
      /\ \A k \in Slots : DOMAIN h.vis[k] = DOMAIN Free /\ h.vis[k].lablc \in Int /\ h.vis[k].labpatch \in Nat
  BY <1>1 DEF IsTable
<1>3. i \in Slots /\ Age(h, i) = n
  BY <1>2, SlotOfAge
<1>4. ASSUME NEW k \in Slots PROVE Age(h, k) \in Nat
  <2>1. Age(h, k) \in Slots
    BY <1>2, AgeIs
  <2> QED BY <2>1, LabelAssumption DEF Slots
<1>5. n \in Nat /\ Len(c) \in Nat /\ DOMAIN c = 1 .. Len(c)
  BY <1>1, CodeSeq, LabelAssumption DEF Slots
<1> HIDE DEF i
<1>6. CASE ~(r.labnum = label /\ r.labpatch # 0 /\ isshortbranch(h.lc - r.lablc))
  <2>1. e = h
    BY <1>6 DEF Patch
  <2>2. \A k \in Slots : Age(h, k) >= n + 1 => Age(h, k) >= n
    BY <1>4, <1>5
  <2>3. Patching(h, label, n + 1)
    BY <2>2 DEF Patching
  <2> QED BY <2>1, <2>3 DEF i
<1>7. CASE r.labnum = label /\ r.labpatch # 0 /\ isshortbranch(h.lc - r.lablc)
  <2>1. Live(h, i) /\ Pos(h, i) = p /\ Stands(h, i) /\ p < Len(c) /\ ~c[p].short
    <3>1. Live(h, i) /\ Pos(h, i) = p
      BY <1>7 DEF Live, Pos
    <3>2. n >= n
      BY <1>5
    <3> QED BY <1>1, <1>3, <1>7, <3>1, <3>2 DEF Patching
  <2>2. p \in DOMAIN c /\ c[p].op = "branch" /\ c[p].label = label /\ c[p].cond = r.labcond /\ r.lablc = Ends(c)[p]
    BY <1>7, <2>1 DEF Stands
  <2>3. Len(c) \in DOMAIN c /\ IsLabel(c[Len(c)], label) /\ Where(c, label) = Len(c) /\ label \in Labels(c)
    <3>1. Len(c) \in DOMAIN c /\ IsLabel(c[Len(c)], label)
      BY <1>5, <2>1, <2>2 DEF Patching
    <3> QED BY <1>1, <3>1, WhereIs, LabelIn
  <2>4. /\ IsCode(d) /\ Unique(d) /\ Targets(d) /\ ShortReach(d) /\ Labels(d) = Labels(c)
        /\ m \in Nat /\ Len(d) = Len(c) /\ DOMAIN d = DOMAIN c
        /\ d[p] = b /\ \A k \in DOMAIN c : k # p => d[k] = c[k]
        /\ \A k \in 0 .. Len(c) : Ends(d)[k] = IF k < p THEN Ends(c)[k] ELSE Ends(c)[k] - m
        /\ \A l \in Labels(c) : Where(d, l) = Where(c, l)
    <3>1. isshortbranch(Ends(c)[Where(c, label)] - Ends(c)[p])
      BY <1>1, <1>7, <2>2, <2>3
    <3>2. /\ d = [c EXCEPT ![p] = Branch(c[p].cond, c[p].label, TRUE)]
          /\ m = Shorter(c[p].cond) /\ b = Branch(c[p].cond, c[p].label, TRUE) /\ c[p].label = label
      BY <2>2
    <3>3. p < Len(c)
      BY <2>1
    <3> DEFINE d1 == [c EXCEPT ![p] = Branch(c[p].cond, c[p].label, TRUE)]
               m1 == Shorter(c[p].cond)
    <3>4. d = d1 /\ m = m1
      BY <3>2
    <3> HIDE DEF c, p, d, m, b, r
    <3>5. /\ IsCode(d1) /\ Unique(d1) /\ Targets(d1) /\ ShortReach(d1) /\ Labels(d1) = Labels(c)
          /\ m1 \in Nat /\ Len(d1) = Len(c) /\ DOMAIN d1 = DOMAIN c
          /\ d1[p] = Branch(c[p].cond, c[p].label, TRUE) /\ \A k \in DOMAIN c : k # p => d1[k] = c[k]
          /\ \A k \in 0 .. Len(c) : Ends(d1)[k] = IF k < p THEN Ends(c)[k] ELSE Ends(c)[k] - m1
          /\ \A l \in Labels(c) : Where(d1, l) = Where(c, l)
      <4>1. /\ p \in DOMAIN c /\ c[p].op = "branch" /\ ~c[p].short /\ c[p].label \in Labels(c)
            /\ p < Where(c, c[p].label) /\ isshortbranch(Ends(c)[Where(c, c[p].label)] - Ends(c)[p])
        BY <2>1, <2>2, <2>3, <3>1, <3>3
      <4>2. IsCode(c) /\ Unique(c) /\ Targets(c) /\ ShortReach(c)
        BY <1>1
      <4> QED BY <4>1, <4>2, ShortenCode
    <3> HIDE DEF d1, m1
    <3> QED BY <3>2, <3>4, <3>5
  <2> DEFINE f == [h EXCEPT !.code = d, !.lc = h.lc - m]
             v == [j \in Slots |-> IF Age(h, j) < Age(h, i) THEN Moved(h.vis[j], m) ELSE h.vis[j]]
  <2> HIDE DEF d, m, b
  <2>5. DOMAIN f = {"code", "lc", "vis", "next"} /\ f.code = d /\ f.lc = h.lc - m /\ f.vis = h.vis /\ f.next = h.next
    BY <1>2
  <2>6. e = [f EXCEPT !.vis = v]
    <3>1. e = Move(f, i, m)
      <4>1. [h EXCEPT !.code[r.labpatch] = Branch(r.labcond, label, TRUE), !.lc = @ - Shorter(r.labcond)] = f
        BY <1>2 DEF d, m, b
      <4> QED BY <1>7, <4>1 DEF Patch, m
    <3>2. \A j \in Slots : Age(f, j) = Age(h, j)
      BY <2>5 DEF Age
    <3>3. v = [j \in DOMAIN f.vis |-> IF Age(f, j) < Age(f, i) THEN Moved(f.vis[j], m) ELSE f.vis[j]]
      <4> HIDE DEF f
      <4> QED BY <1>2, <1>3, <2>5, <3>2
    <3> HIDE DEF e, f, v
    <3>4. Move(f, i, m) = [f EXCEPT !.vis = v]
      BY <3>3 DEF Move
    <3> QED BY <3>1, <3>4
  <2> HIDE DEF e, f
  <2>7. DOMAIN e = {"code", "lc", "vis", "next"} /\ e.code = d /\ e.lc = h.lc - m /\ e.vis = v /\ e.next = h.next
    BY <2>5, <2>6
  <2>8. \A k \in Slots : /\ DOMAIN v[k] = DOMAIN Free /\ v[k].labnum = h.vis[k].labnum
                         /\ v[k].labpatch = h.vis[k].labpatch /\ v[k].labcond = h.vis[k].labcond
                         /\ v[k].lablc = IF Age(h, k) < Age(h, i) THEN h.vis[k].lablc - m ELSE h.vis[k].lablc
    BY <1>2 DEF Free, Moved
  <2>9. DOMAIN v = Slots
    OBVIOUS
  <2> HIDE DEF v, c, p, r
  <2>10. IsTable(e)
    <3>1. ASSUME NEW k \in Slots PROVE v[k].lablc \in Int /\ v[k].labpatch \in Nat /\ DOMAIN v[k] = DOMAIN Free
      BY <1>2, <2>4, <2>8
    <3> QED BY <1>2, <2>7, <2>9, <3>1 DEF IsTable
  <2>11. ASSUME NEW k \in Slots, Live(e, k)
         PROVE  /\ Live(h, k) /\ Pos(e, k) = Pos(h, k) /\ Stands(h, k) /\ Pos(h, k) \in DOMAIN c
                /\ k # i => /\ Age(h, k) < Age(h, i) => p < Pos(h, k)
                            /\ ~(Age(h, k) < Age(h, i)) => Pos(h, k) < p
    <3>1. Live(h, k)
      BY <2>7, <2>8, <2>11 DEF Live
    <3>2. Stands(h, k) /\ Pos(h, k) \in DOMAIN c
      BY <1>1, <3>1 DEF Stands, c
    <3>3. Pos(e, k) = Pos(h, k)
      <4>1. \A l \in Labels(h.code) : Where(e.code, l) = Where(h.code, l)
        BY <2>4, <2>7 DEF c
      <4>2. Made(h) /\ e.vis[k].labnum = h.vis[k].labnum /\ e.vis[k].labpatch = h.vis[k].labpatch
        BY <2>7, <2>8 DEF Patching
      <4> QED BY <3>1, <4>1, <4>2, SamePos
    <3>4. ASSUME k # i PROVE Age(h, k) < Age(h, i) \/ Age(h, i) < Age(h, k)
      BY <1>2, <1>3, <3>4, AgesDiffer
    <3>5. Pos(h, i) = p /\ Live(h, i)
      BY <2>1
    <3> QED BY <1>1, <1>3, <3>1, <3>2, <3>3, <3>4, <3>5 DEF Ordered
  <2>12. ASSUME NEW k \in Slots, Live(e, k) PROVE Stands(e, k)
    <3> DEFINE q == Pos(h, k)
    <3>1. Pos(e, k) = q /\ q \in DOMAIN d /\ q \in 1 .. Len(c) /\ p \in 1 .. Len(c)
      BY <1>5, <2>2, <2>4, <2>11, <2>12
    <3>2. /\ h.vis[k].labpatch = 0 => IsLabel(c[q], h.vis[k].labnum)
          /\ h.vis[k].labpatch # 0 => c[q].op = "branch" /\ c[q].label = h.vis[k].labnum /\ c[q].cond = h.vis[k].labcond
          /\ (c[q].op = "branch" /\ c[q].short) \/ h.vis[k].lablc = Ends(c)[q]
      BY <2>11, <2>12 DEF Stands, c
    <3>3. k # i => (Age(h, k) < Age(h, i) => p < q) /\ (~(Age(h, k) < Age(h, i)) => q < p)
      BY <2>11, <2>12
    <3>4. e.code = d /\ e.vis[k] = v[k]
      BY <2>7
    <3> HIDE DEF q
    <3>5. q \in 0 .. Len(c)
      BY <1>5, <3>1
    <3>6. CASE k = i
      <4>1. q = p
        BY <2>1, <3>6 DEF q
      <4>2. d[q].op = "branch" /\ d[q].short = TRUE /\ d[q].label = label /\ d[q].cond = r.labcond
        BY <2>4, <4>1 DEF b, Branch
      <4>3. h.vis[k].labpatch # 0 /\ h.vis[k].labnum = label /\ h.vis[k].labcond = r.labcond
        BY <1>7, <3>6 DEF r, p
      <4>4. v[k].labpatch # 0 /\ v[k].labnum = label /\ v[k].labcond = r.labcond
        BY <2>8, <4>3
      <4> QED BY <3>1, <3>4, <4>2, <4>4 DEF Stands
    <3>7. CASE k # i /\ Age(h, k) < Age(h, i)
      <4>1. p < q
        BY <3>3, <3>7
      <4>2. d[q] = c[q] /\ Ends(d)[q] = Ends(c)[q] - m /\ v[k].lablc = h.vis[k].lablc - m
        BY <2>4, <2>8, <3>1, <3>5, <3>7, <4>1
      <4> QED BY <2>8, <3>1, <3>2, <3>4, <4>2 DEF Stands
    <3>8. CASE k # i /\ ~(Age(h, k) < Age(h, i))
      <4>1. q < p
        BY <3>3, <3>8
      <4>2. d[q] = c[q] /\ Ends(d)[q] = Ends(c)[q] /\ v[k].lablc = h.vis[k].lablc
        BY <2>4, <2>8, <3>1, <3>5, <3>8, <4>1
      <4> QED BY <2>8, <3>1, <3>2, <3>4, <4>2 DEF Stands
    <3> QED BY <3>6, <3>7, <3>8
  <2>13. Ordered(e)
    <3> SUFFICES ASSUME NEW j \in Slots, NEW k \in Slots, Live(e, j), Live(e, k), Age(e, j) < Age(e, k)
                 PROVE  Pos(e, k) < Pos(e, j)
      BY DEF Ordered
    <3>1. Age(h, j) < Age(h, k)
      BY <2>7 DEF Age
    <3> QED BY <1>1, <2>11, <3>1 DEF Ordered
  <2>14. e.lc = Ends(d)[Len(d)]
    <3>1. Len(c) \in 0 .. Len(c) /\ ~(Len(c) < p)
      BY <1>5, <2>1, <2>2
    <3> QED BY <1>1, <2>4, <2>7, <3>1
  <2>15. Made(e)
    BY <2>4, <2>7, <2>10, <2>12, <2>13, <2>14 DEF Made
  <2>16. Len(e.code) > 0 /\ IsLabel(e.code[Len(e.code)], label)
    <3>1. d[Len(c)] = c[Len(c)]
      BY <2>1, <2>2, <2>3, <2>4
    <3> QED BY <1>5, <2>3, <2>4, <2>7, <3>1
  <2>17. \A k \in Slots : Live(e, k) => Pos(e, k) < Len(e.code)
    BY <2>4, <2>7, <2>11 DEF Patching, c
  <2>18. ASSUME NEW k \in Slots, e.vis[k].labnum = label, e.vis[k].labpatch # 0, Age(e, k) >= n + 1
         PROVE  ~e.code[e.vis[k].labpatch].short
    <3>1. Age(h, k) >= n + 1 /\ h.vis[k].labnum = label /\ h.vis[k].labpatch # 0 /\ e.vis[k].labpatch = h.vis[k].labpatch
      BY <2>7, <2>8, <2>18 DEF Age
    <3>2. Age(h, k) >= n /\ ~(Age(h, k) < Age(h, i)) /\ k # i
      BY <1>3, <1>4, <1>5, <3>1
    <3>3. Live(e, k) /\ Pos(h, k) = h.vis[k].labpatch
      BY <2>18, <3>1 DEF Live, Pos
    <3>4. Pos(h, k) < p /\ Pos(h, k) \in DOMAIN c
      BY <2>11, <3>2, <3>3
    <3>5. d[Pos(h, k)] = c[Pos(h, k)]
      BY <1>5, <2>2, <2>4, <3>4
    <3>6. ~c[h.vis[k].labpatch].short
      BY <3>1, <3>2 DEF Patching, c
    <3> QED BY <2>7, <3>1, <3>3, <3>5, <3>6
  <2>19. Patching(e, label, n + 1)
    BY <2>15, <2>16, <2>17, <2>18 DEF Patching
  <2> QED BY <2>4, <2>7, <2>19 DEF e, i, c
<1> QED BY <1>6, <1>7

LEMMA PatchesMade ==
    ASSUME NEW h, NEW label, label # 0, Patching(h, label, 0)
    PROVE  Patching(Patches(h, label), label, MAXVISLAB) /\ Labels(Patches(h, label).code) = Labels(h.code)
<1> DEFINE F(x, n) == Patch(x, label, (h.next - n) % MAXVISLAB)
           Upto(f, k) == f = [n \in 0 .. k |-> IF n = 0 THEN h ELSE F(f[n - 1], n)]
           S == {k \in Nat : \E f : Upto(f, k)}
           patched == CHOOSE f : Upto(f, MAXVISLAB)
<1>0. MAXVISLAB \in Nat
  BY LabelAssumption
<1>1. Patches(h, label) = patched[MAXVISLAB]
  BY DEF Patches
<1> HIDE DEF F
<1>2. 0 \in S
  <2>1. Upto([n \in 0 .. 0 |-> h], 0)
    OBVIOUS
  <2> QED BY <2>1
<1>3. ASSUME NEW n \in S PROVE n + 1 \in S
  <2>1. PICK f : Upto(f, n)
    OBVIOUS
  <2> DEFINE f1 == [k \in 0 .. n + 1 |-> IF k = n + 1 THEN F(f[n], n + 1) ELSE f[k]]
  <2>2. n \in Nat
    OBVIOUS
  <2>3. ASSUME NEW k \in 0 .. n + 1
        PROVE  f1[k] = IF k = 0 THEN h ELSE F(f1[k - 1], k)
    <3>1. CASE k = n + 1
      BY <2>2, <3>1
    <3>2. CASE k # n + 1
      <4>1. k \in 0 .. n /\ (k # 0 => k - 1 \in 0 .. n)
        BY <2>2, <3>2
      <4>2. f[k] = IF k = 0 THEN h ELSE F(f[k - 1], k)
        BY <2>1, <4>1
      <4> QED BY <2>2, <3>2, <4>1, <4>2
    <3> QED BY <3>1, <3>2
  <2>4. Upto(f1, n + 1)
    BY <2>3
  <2> HIDE DEF f1, Upto
  <2> QED BY <2>2, <2>4
<1>4. S = Nat
  <2>1. S \subseteq Nat
    OBVIOUS
  <2> HIDE DEF S
  <2> QED BY <1>2, <1>3, <2>1, SetInduction
<1>5. Upto(patched, MAXVISLAB)
  <2>1. \E f : Upto(f, MAXVISLAB)
    BY <1>0, <1>4
  <2> HIDE DEF Upto
  <2> QED BY <2>1
<1> HIDE DEF patched
<1>6. patched[0] = h /\ \A n \in 1 .. MAXVISLAB : patched[n] = F(patched[n - 1], n)
  BY <1>0, <1>5
<1> DEFINE Right(n) == /\ Patching(patched[n], label, n) /\ patched[n].next = h.next
                       /\ Labels(patched[n].code) = Labels(h.code)
           N == {n \in Nat : n <= MAXVISLAB => Right(n)}
<1>7. 0 \in N
  BY <1>6
<1>8. ASSUME NEW n \in N PROVE n + 1 \in N
  <2>1. CASE n + 1 <= MAXVISLAB
    <3>1. n + 1 \in 1 .. MAXVISLAB /\ (n + 1) - 1 = n /\ n \in Slots /\ Right(n)
      BY <1>0, <2>1 DEF Slots
    <3>2. patched[n + 1] = F(patched[n], n + 1)
      BY <1>6, <3>1
    <3> DEFINE x == patched[n]
               e == Patch(x, label, (x.next - (n + 1)) % MAXVISLAB)
    <3>3. patched[n + 1] = e
      BY <3>1, <3>2 DEF F
    <3>4. Patching(x, label, n) /\ x.next = h.next /\ Labels(x.code) = Labels(h.code)
      BY <3>1
    <3> HIDE DEF x
    <3>5. Patching(e, label, n + 1) /\ e.next = x.next /\ Labels(e.code) = Labels(x.code)
      BY <3>1, <3>4, PatchStep
    <3> HIDE DEF e
    <3>6. Right(n + 1)
      BY <3>3, <3>4, <3>5
    <3> HIDE DEF Right
    <3> QED BY <3>6
  <2>2. CASE ~(n + 1 <= MAXVISLAB)
    BY <2>2
  <2> QED BY <2>1, <2>2
<1>9. N = Nat
  <2>1. N \subseteq Nat
    OBVIOUS
  <2> HIDE DEF N
  <2> QED BY <1>7, <1>8, <2>1, SetInduction
<1>10. Right(MAXVISLAB)
  <2>1. MAXVISLAB \in N
    BY <1>0, <1>9
  <2> HIDE DEF Right
  <2> QED BY <1>0, <2>1
<1> QED BY <1>1, <1>10

(* A label that was not defined before.                                    *)
LEMMA MadeLabel ==
    ASSUME NEW h, Made(h), NEW label, label # 0, label \notin Labels(h.code)
    PROVE  Made(deflabel(h, label)) /\ Labels(deflabel(h, label).code) = Labels(h.code) \cup {label}
<1> DEFINE x == LabelHere(label)
           e == Emit(h, x)
           f == Patches(e, label)
<1>1. IsInstr(x) /\ x.op = "label" /\ x.label = label
  BY DEF LabelHere, IsInstr
<1> HIDE DEF x
<1>2. /\ Made(e) /\ Len(e.code) = Len(h.code) + 1 /\ Len(h.code) \in Nat
      /\ e.code[Len(e.code)] = x /\ \A i \in 1 .. Len(h.code) : e.code[i] = h.code[i]
      /\ Labels(e.code) = Labels(h.code) \cup {label}
      /\ \A k \in Slots : Live(e, k) => Pos(e, k) \in 1 .. Len(h.code)
  <2>1. /\ x.op = "label" => x.label \notin Labels(h.code)
        /\ x.op = "branch" /\ x.short =>
               /\ x.label \in Labels(h.code)
               /\ isshortbranch(Ends(h.code)[Where(h.code, x.label)] - (h.lc + x.size))
    BY <1>1
  <2> HIDE DEF f
  <2>2. /\ Made(e) /\ Len(e.code) = Len(h.code) + 1 /\ Len(h.code) \in Nat
        /\ e.code[Len(e.code)] = x /\ \A i \in 1 .. Len(h.code) : e.code[i] = h.code[i]
        /\ Labels(e.code) = Labels(h.code) \cup (IF x.op = "label" THEN {x.label} ELSE {})
        /\ \A k \in Slots : Live(e, k) => Pos(e, k) \in 1 .. Len(h.code)
    BY <1>1, <2>1, MadeEmit, SMTT(30)
  <2> QED BY <1>1, <2>2
<1> HIDE DEF e
<1>3. IsCode(h.code) /\ Targets(h.code) /\ DOMAIN h.code = 1 .. Len(h.code)
  BY CodeSeq DEF Made
<1>4. Patching(e, label, 0)
  <2>1. Len(e.code) > 0 /\ IsLabel(e.code[Len(e.code)], label)
    BY <1>1, <1>2 DEF IsLabel
  <2>2. \A k \in Slots : Live(e, k) => Pos(e, k) < Len(e.code)
    BY <1>2
  <2>3. ASSUME NEW k \in Slots, e.vis[k].labnum = label, e.vis[k].labpatch # 0, e.code[e.vis[k].labpatch].short
        PROVE  FALSE
    <3>1. Live(e, k) /\ Pos(e, k) = e.vis[k].labpatch
      BY <2>3 DEF Live, Pos
    <3>2. Stands(e, k)
      BY <1>2, <3>1 DEF Made
    <3>3. e.code[Pos(e, k)].op = "branch" /\ e.code[Pos(e, k)].label = label /\ e.code[Pos(e, k)].short
      BY <2>3, <3>1, <3>2 DEF Stands
    <3>4. Pos(e, k) \in DOMAIN h.code /\ e.code[Pos(e, k)] = h.code[Pos(e, k)]
      BY <1>2, <1>3, <3>1
    <3> QED BY <1>3, <3>3, <3>4 DEF Targets
  <2> QED BY <1>2, <2>1, <2>2, <2>3 DEF Patching
<1>5. Patching(f, label, MAXVISLAB) /\ Labels(f.code) = Labels(h.code) \cup {label}
  BY <1>2, <1>4, PatchesMade
<1>6. deflabel(h, label) = addlabel(f, "", label, 0)
  BY DEF deflabel, e, x
<1> HIDE DEF f
<1>7. Made(addlabel(f, "", label, 0)) /\ addlabel(f, "", label, 0).code = f.code
  <2>1. /\ Made(f) /\ Len(f.code) > 0 /\ IsLabel(f.code[Len(f.code)], label)
        /\ \A k \in Slots : Live(f, k) => Pos(f, k) < Len(f.code)
    BY <1>5 DEF Patching
  <2> QED BY <2>1, MadeAdd
<1> QED BY <1>5, <1>6, <1>7

(* A branch, back to a label in the table or to one not known yet.         *)
LEMMA BranchInstr ==
    ASSUME NEW cond, NEW label, NEW short \in BOOLEAN
    PROVE  LET x == Branch(cond, label, short)
           IN  /\ IsInstr(x) /\ x.op = "branch" /\ x.label = label /\ x.cond = cond /\ x.short = short
               /\ short => x.size = 2
<1> DEFINE x == Branch(cond, label, short)
<1>1. x.op = "branch" /\ x.label = label /\ x.cond = cond /\ x.short = short
      /\ x.size = IF short THEN 2 ELSE 2 + Shorter(cond)
  BY DEF Branch
<1>2. x.size \in Nat /\ (short => x.size = 2)
  <2>1. Shorter(cond) \in Nat
    BY DEF Shorter
  <2> HIDE DEF x
  <2> QED BY <1>1, <2>1
<1>3. x = Branch(x.cond, x.label, x.short)
  <2> DEFINE y == Branch(x.cond, x.label, x.short)
  <2>1. x.cond = cond /\ x.label = label /\ x.short = short
    BY <1>1
  <2> HIDE DEF x
  <2>2. y = Branch(cond, label, short)
    BY <2>1
  <2> QED BY <2>2 DEF x
<1> HIDE DEF x
<1>4. x.short \in BOOLEAN /\ x.op # "label"
  BY <1>1
<1>5. IsInstr(x)
  BY <1>2, <1>3, <1>4 DEF IsInstr
<1> QED BY <1>1, <1>2, <1>5 DEF x

LEMMA LocationIs ==
    ASSUME NEW h, Made(h), NEW label, label # 0, Defined(h, label)
    PROVE  label \in Labels(h.code) /\ LocationOf(h, label) = Ends(h.code)[Where(h.code, label)]
<1> DEFINE First(i) == h.vis[i].labnum = label /\ \A j \in 0 .. i - 1 : h.vis[j].labnum # label
<1>1. DOMAIN h.vis = Slots
  BY DEF Made, IsTable
<1>2. PICK i \in Slots : First(i) /\ h.vis[i].labpatch = 0
  BY <1>1 DEF Defined
<1>3. ASSUME NEW j \in Slots, First(j) PROVE j = i
  <2>1. i \in Nat /\ j \in Nat
    BY LabelAssumption DEF Slots
  <2>2. ~(i < j) /\ ~(j < i)
    BY <1>2, <1>3, <2>1
  <2> QED BY <2>1, <2>2
<1>4. LocationOf(h, label) = h.vis[CHOOSE j \in DOMAIN h.vis : First(j)].lablc
  BY DEF LocationOf
<1> HIDE DEF First
<1>5. (CHOOSE j \in DOMAIN h.vis : First(j)) = i
  BY <1>1, <1>2, <1>3
<1>6. h.vis[i].labnum = label
  BY <1>2 DEF First
<1>7. Live(h, i) /\ Stands(h, i) /\ Unique(h.code) /\ Pos(h, i) = Where(h.code, label)
  BY <1>2, <1>6 DEF Live, Made, Pos
<1>8. Where(h.code, label) \in DOMAIN h.code /\ IsLabel(h.code[Where(h.code, label)], label)
      /\ h.vis[i].lablc = Ends(h.code)[Where(h.code, label)]
  BY <1>2, <1>6, <1>7 DEF Stands, IsLabel
<1>9. label \in Labels(h.code)
  BY <1>8, LabelIn
<1> QED BY <1>4, <1>5, <1>8, <1>9

LEMMA MadeBranch ==
    ASSUME NEW h, Made(h), NEW cond, NEW label, label # 0
    PROVE  Made(lbranch(h, cond, label)) /\ Labels(lbranch(h, cond, label).code) = Labels(h.code)
<1> DEFINE c == h.code
           at == Ends(c)
<1>0. IsCode(c) /\ Unique(c) /\ h.lc = at[Len(c)] /\ Len(c) \in Nat /\ DOMAIN c = 1 .. Len(c)
  BY CodeSeq DEF Made
<1>1. CASE Defined(h, label)
  <2> DEFINE w == Where(c, label)
             short == isshortbranch(h.lc - LocationOf(h, label) + 2)
             x == Branch(cond, label, short)
             e == Emit(h, x)
  <2>1. lbranch(h, cond, label) = e
    BY <1>1 DEF lbranch
  <2>2. label \in Labels(c) /\ LocationOf(h, label) = at[w]
    BY <1>1, LocationIs
  <2>3. short \in BOOLEAN
    BY DEF isshortbranch
  <2>4. w \in 0 .. Len(c) /\ w <= Len(c) /\ Len(c) \in 0 .. Len(c)
    <3>1. w \in DOMAIN c
      BY <1>0, <2>2, WhereLabel
    <3> HIDE DEF w, c
    <3> QED BY <1>0, <3>1
  <2>5. at[w] \in Nat /\ at[Len(c)] \in Nat /\ at[w] <= at[Len(c)]
    <3> HIDE DEF w, c
    <3> QED BY <1>0, <2>4, EndsSteps, EndsGrow
  <2>6. short => isshortbranch(at[w] - (h.lc + 2))
    <3>1. MAXSCHTO \in Nat /\ h.lc = at[Len(c)]
      BY <1>0, LabelAssumption
    <3> HIDE DEF at, w, c
    <3> SUFFICES ASSUME short PROVE isshortbranch(at[w] - (h.lc + 2))
      OBVIOUS
    <3>2. h.lc - at[w] + 2 \in -MAXSCHTO - 1 .. MAXSCHTO
      BY <2>2 DEF isshortbranch
    <3>3. at[w] - (h.lc + 2) \in -MAXSCHTO - 1 .. MAXSCHTO
      BY <2>5, <3>1, <3>2
    <3> QED BY <3>3 DEF isshortbranch
  <2> HIDE DEF short
  <2>7. IsInstr(x) /\ x.op = "branch" /\ x.label = label /\ x.short = short /\ (short => x.size = 2)
    BY <2>3, BranchInstr
  <2> HIDE DEF x
  <2>8. x.op # "label" /\ (x.op = "branch" /\ x.short => x.label \in Labels(h.code) /\ isshortbranch(Ends(h.code)[Where(h.code, x.label)] - (h.lc + x.size)))
    BY <2>2, <2>6, <2>7
  <2>9. Made(e) /\ Labels(e.code) = Labels(h.code) \cup (IF x.op = "label" THEN {x.label} ELSE {})
    BY <2>7, <2>8, MadeEmit
  <2> QED BY <2>1, <2>8, <2>9
<1>2. CASE ~Defined(h, label)
  <2> DEFINE x == Branch(cond, label, FALSE)
             e == Emit(h, x)
             full == (Len(c) + 1) % (2 * OUTBUFSIZE) = 0
  <2>1. lbranch(h, cond, label) = IF full THEN e ELSE addlabel(e, cond, label, Len(c) + 1)
    BY <1>2 DEF lbranch
  <2>2. IsInstr(x) /\ x.op = "branch" /\ x.label = label /\ x.cond = cond /\ x.short = FALSE
    <3> DEFINE no == FALSE
    <3>1. no \in BOOLEAN /\ x = Branch(cond, label, no)
      OBVIOUS
    <3> HIDE DEF no, x
    <3>2. IsInstr(x) /\ x.op = "branch" /\ x.label = label /\ x.cond = cond /\ x.short = no
      BY <3>1, BranchInstr
    <3> QED BY <3>2 DEF no
  <2> HIDE DEF x, full
  <2>3. x.op # "label" /\ (x.op = "branch" /\ x.short => x.label \in Labels(h.code) /\ isshortbranch(Ends(h.code)[Where(h.code, x.label)] - (h.lc + x.size)))
    BY <2>2
  <2>4. /\ Made(e) /\ Len(e.code) = Len(h.code) + 1 /\ e.code[Len(e.code)] = x
        /\ Labels(e.code) = Labels(h.code) \cup (IF x.op = "label" THEN {x.label} ELSE {})
        /\ \A k \in Slots : Live(e, k) => Pos(e, k) \in 1 .. Len(h.code)
    <3>1. Made(e) /\ Labels(e.code) = Labels(h.code) \cup (IF x.op = "label" THEN {x.label} ELSE {})
      BY <2>2, <2>3, MadeEmit
    <3>2. Len(e.code) = Len(h.code) + 1 /\ e.code[Len(e.code)] = x
      BY <2>2, <2>3, MadeEmit
    <3>3. \A k \in Slots : Live(e, k) => Pos(e, k) \in 1 .. Len(h.code)
      BY <2>2, <2>3, MadeEmit
    <3> QED BY <3>1, <3>2, <3>3
  <2> HIDE DEF e
  <2>5. Labels(e.code) = Labels(h.code)
    BY <2>3, <2>4
  <2>6. Made(addlabel(e, cond, label, Len(c) + 1)) /\ addlabel(e, cond, label, Len(c) + 1).code = e.code
    <3> DEFINE p == Len(c) + 1
    <3>1. p \in Nat /\ p # 0 /\ p = Len(e.code) /\ Len(e.code) > 0
      BY <1>0, <2>4
    <3>2. e.code[p].op = "branch" /\ e.code[p].label = label /\ e.code[p].cond = cond
      BY <2>2, <2>4
    <3>3. \A k \in Slots : Live(e, k) => Pos(e, k) < Len(e.code)
      BY <1>0, <2>4
    <3> HIDE DEF p
    <3>4. Made(addlabel(e, cond, label, p)) /\ addlabel(e, cond, label, p).code = e.code
      BY <2>4, <3>1, <3>2, <3>3, MadeAdd
    <3> QED BY <3>4 DEF p
  <2> QED BY <2>1, <2>4, <2>5, <2>6
<1> QED BY <1>1, <1>2

(* Several plain instructions.                                             *)
Plain(i) == i.op \notin {"label", "branch"} /\ i.size \in Nat
LEMMA MadeAll ==
    ASSUME NEW h, Made(h), NEW is, IsSeq(is), \A i \in DOMAIN is : Plain(is[i])
    PROVE  Made(EmitAll(h, is)) /\ Labels(EmitAll(h, is).code) = Labels(h.code)
<1> DEFINE F(x, n) == Emit(x, is[n])
           Upto(f, k) == f = [n \in 0 .. k |-> IF n = 0 THEN h ELSE F(f[n - 1], n)]
           S == {k \in Nat : \E f : Upto(f, k)}
           emitted == CHOOSE f : Upto(f, Len(is))
<1>0. Len(is) \in Nat /\ DOMAIN is = 1 .. Len(is)
  BY DEF IsSeq
<1>1. EmitAll(h, is) = emitted[Len(is)]
  BY DEF EmitAll
<1> HIDE DEF F
<1>2. 0 \in S
  <2>1. Upto([n \in 0 .. 0 |-> h], 0)
    OBVIOUS
  <2> QED BY <2>1
<1>3. ASSUME NEW n \in S PROVE n + 1 \in S
  <2>1. PICK f : Upto(f, n)
    OBVIOUS
  <2> DEFINE f1 == [k \in 0 .. n + 1 |-> IF k = n + 1 THEN F(f[n], n + 1) ELSE f[k]]
  <2>2. n \in Nat
    OBVIOUS
  <2>3. ASSUME NEW k \in 0 .. n + 1
        PROVE  f1[k] = IF k = 0 THEN h ELSE F(f1[k - 1], k)
    <3>1. CASE k = n + 1
      BY <2>2, <3>1
    <3>2. CASE k # n + 1
      <4>1. k \in 0 .. n /\ (k # 0 => k - 1 \in 0 .. n)
        BY <2>2, <3>2
      <4>2. f[k] = IF k = 0 THEN h ELSE F(f[k - 1], k)
        BY <2>1, <4>1
      <4> QED BY <2>2, <3>2, <4>1, <4>2
    <3> QED BY <3>1, <3>2
  <2>4. Upto(f1, n + 1)
    BY <2>3
  <2> HIDE DEF f1, Upto
  <2> QED BY <2>2, <2>4
<1>4. S = Nat
  <2>1. S \subseteq Nat
    OBVIOUS
  <2> HIDE DEF S
  <2> QED BY <1>2, <1>3, <2>1, SetInduction
<1>5. Upto(emitted, Len(is))
  <2>1. \E f : Upto(f, Len(is))
    BY <1>0, <1>4
  <2> HIDE DEF Upto
  <2> QED BY <2>1
<1> HIDE DEF emitted
<1>6. emitted[0] = h /\ \A n \in 1 .. Len(is) : emitted[n] = F(emitted[n - 1], n)
  BY <1>0, <1>5
<1> DEFINE Right(n) == Made(emitted[n]) /\ Labels(emitted[n].code) = Labels(h.code)
           N == {n \in Nat : n <= Len(is) => Right(n)}
<1>7. 0 \in N
  BY <1>6
<1>8. ASSUME NEW n \in N PROVE n + 1 \in N
  <2>1. CASE n + 1 <= Len(is)
    <3>1. n + 1 \in 1 .. Len(is) /\ (n + 1) - 1 = n /\ Right(n)
      BY <1>0, <2>1
    <3> DEFINE x == emitted[n]
               i == is[n + 1]
    <3>2. emitted[n + 1] = Emit(x, i)
      BY <1>6, <3>1 DEF F
    <3>3. Made(x) /\ Labels(x.code) = Labels(h.code) /\ i.op \notin {"label", "branch"} /\ i.size \in Nat
      BY <1>0, <3>1 DEF Plain
    <3> HIDE DEF x, i
    <3>4. Made(Emit(x, i)) /\ Labels(Emit(x, i).code) = Labels(x.code)
      BY <3>3, MadePlain
    <3>5. Right(n + 1)
      BY <3>2, <3>3, <3>4
    <3> HIDE DEF Right
    <3> QED BY <3>5
  <2>2. CASE ~(n + 1 <= Len(is))
    BY <2>2
  <2> QED BY <2>1, <2>2
<1>9. N = Nat
  <2>1. N \subseteq Nat
    OBVIOUS
  <2> HIDE DEF N
  <2> QED BY <1>7, <1>8, <2>1, SetInduction
<1>10. Right(Len(is))
  <2>1. Len(is) \in N
    BY <1>0, <1>9
  <2> HIDE DEF Right
  <2> QED BY <1>0, <2>1
<1> QED BY <1>1, <1>10

-----------------------------------------------------------------------------
(* What is left to do, and the labels it will define.                      *)
Closers == {"decide", "end switch"}
Loopers == {"loop", "do while"} \cup Closers
Count(s, K) == Cardinality({i \in DOMAIN s : s[i].do \in K})
Defines(item) ==
    CASE item.do = "label" -> {item.label}
      [] item.do \in {"else", "fi", "loop", "do while"} -> {item.brk}
      [] item.do = "decide" -> {item.brk, item.decide}
      [] OTHER -> {}
Makes(s) == UNION {Defines(s[i]) : i \in DOMAIN s}
IsCases(cs) == IsSeq(cs) /\ \A i \in DOMAIN cs : cs[i].value \in Int /\ cs[i].label # 0
IsItem(item) ==
    /\ item.do = "code" => Plain(item.code)
    /\ item.do = "branch" => item.label # 0
    /\ item.do = "cond" => item.true # 0 /\ item.false # 0
    /\ item.do = "do while" => item.again # 0
    /\ item.do = "decide" => item.brk # item.decide
    /\ item.do = "cases" => /\ DOMAIN item = {"do", "cases", "base", "dfault", "low"}
                            /\ IsCases(item.cases) /\ item.dfault # 0
Good(s) ==
    /\ IsSeq(s) /\ \A i \in DOMAIN s : IsItem(s[i])
    /\ \A i, j \in DOMAIN s : i # j => Defines(s[i]) \cap Defines(s[j]) = {}


(* Sequences put together, and taken apart.                                *)
LEMMA ConcatSeq ==
    ASSUME NEW a, IsSeq(a), NEW b, IsSeq(b)
    PROVE  /\ IsSeq(a \o b) /\ Len(a) \in Nat /\ Len(b) \in Nat /\ DOMAIN a = 1 .. Len(a) /\ DOMAIN b = 1 .. Len(b)
           /\ Len(a \o b) = Len(a) + Len(b) /\ DOMAIN (a \o b) = 1 .. Len(a) + Len(b)
           /\ \A i \in DOMAIN a : (a \o b)[i] = a[i]
           /\ \A i \in 1 .. Len(a) + Len(b) : i > Len(a) => (a \o b)[i] = b[i - Len(a)]
<1> DEFINE S == {a[i] : i \in DOMAIN a} \cup {b[i] : i \in DOMAIN b}
           s == a \o b
<1>1. a \in Seq({a[i] : i \in DOMAIN a}) /\ b \in Seq({b[i] : i \in DOMAIN b})
  BY DEF IsSeq
<1>2. a \in Seq(S) /\ b \in Seq(S)
  BY <1>1, SeqDef
<1> HIDE DEF S
<1>3. /\ s \in Seq(S) /\ Len(s) = Len(a) + Len(b)
      /\ \A i \in 1 .. Len(a) + Len(b) : s[i] = IF i <= Len(a) THEN a[i] ELSE b[i - Len(a)]
  BY <1>2, ConcatProperties
<1>4. Len(a) \in Nat /\ Len(b) \in Nat /\ DOMAIN a = 1 .. Len(a) /\ DOMAIN b = 1 .. Len(b)
  BY <1>2
<1> HIDE DEF s
<1>5. IsSeq(s) /\ DOMAIN s = 1 .. Len(s)
  BY <1>3, SeqIs
<1>6. \A i \in DOMAIN a : s[i] = a[i]
  BY <1>3, <1>4
<1>7. \A i \in 1 .. Len(a) + Len(b) : i > Len(a) => s[i] = b[i - Len(a)]
  BY <1>3, <1>4
<1> QED BY <1>3, <1>4, <1>5, <1>6, <1>7 DEF s

\* What is in a sequence put together.
LEMMA ConcatIndex ==
    ASSUME NEW a, IsSeq(a), NEW b, IsSeq(b), NEW i \in DOMAIN (a \o b)
    PROVE  \/ i \in DOMAIN a /\ (a \o b)[i] = a[i]
           \/ i - Len(a) \in DOMAIN b /\ (a \o b)[i] = b[i - Len(a)] /\ i \notin DOMAIN a
<1> DEFINE s == a \o b
<1>1. /\ Len(a) \in Nat /\ Len(b) \in Nat /\ DOMAIN a = 1 .. Len(a) /\ DOMAIN b = 1 .. Len(b)
      /\ DOMAIN s = 1 .. Len(a) + Len(b)
      /\ \A k \in DOMAIN a : s[k] = a[k]
      /\ \A k \in 1 .. Len(a) + Len(b) : k > Len(a) => s[k] = b[k - Len(a)]
  <2>1. /\ Len(a) \in Nat /\ Len(b) \in Nat /\ DOMAIN a = 1 .. Len(a) /\ DOMAIN b = 1 .. Len(b)
    BY ConcatSeq
  <2>2. DOMAIN s = 1 .. Len(a) + Len(b)
    BY ConcatSeq
  <2>3. \A k \in DOMAIN a : s[k] = a[k]
    BY ConcatSeq
  <2>4. \A k \in 1 .. Len(a) + Len(b) : k > Len(a) => s[k] = b[k - Len(a)]
    BY ConcatSeq
  <2> QED BY <2>1, <2>2, <2>3, <2>4
<1>0. i \in DOMAIN s
  OBVIOUS
<1> HIDE DEF s
<1>2. CASE i <= Len(a)
  BY <1>0, <1>1, <1>2 DEF s
<1>3. CASE ~(i <= Len(a))
  <2>1. i - Len(a) \in DOMAIN b /\ i \in 1 .. Len(a) + Len(b) /\ i > Len(a) /\ i \notin DOMAIN a
    BY <1>0, <1>1, <1>3
  <2>2. s[i] = b[i - Len(a)]
    BY <1>1, <2>1
  <2> QED BY <2>1, <2>2 DEF s
<1> QED BY <1>2, <1>3

LEMMA OneSeq ==
    ASSUME NEW x
    PROVE  IsSeq(<<x>>) /\ DOMAIN <<x>> = {1} /\ Len(<<x>>) = 1 /\ <<x>>[1] = x
<1>1. <<x>> \in Seq({x}) /\ DOMAIN <<x>> = 1 .. 1 /\ Len(<<x>>) = 1 /\ <<x>>[1] = x
  OBVIOUS
<1>2. IsSeq(<<x>>)
  BY <1>1, SeqIs
<1> QED BY <1>1, <1>2

LEMMA TailSeq ==
    ASSUME NEW s, IsSeq(s), s # <<>>
    PROVE  IsSeq(Tail(s)) /\ s = <<Head(s)>> \o Tail(s) /\ 1 \in DOMAIN s /\ Head(s) = s[1]
           /\ \A i \in DOMAIN Tail(s) : i + 1 \in DOMAIN s /\ Tail(s)[i] = s[i + 1]
<1> DEFINE S == {s[i] : i \in DOMAIN s}
           t == Tail(s)
           x == Head(s)
<1>1. s \in Seq(S) /\ Len(s) \in Nat /\ DOMAIN s = 1 .. Len(s)
  BY DEF IsSeq
<1> HIDE DEF S
<1>2. x \in S /\ t \in Seq(S) /\ Len(t) = Len(s) - 1 /\ \A i \in 1 .. Len(t) : t[i] = s[i + 1]
  BY <1>1, HeadTailProperties
<1>3. Len(s) > 0 /\ x = s[1]
  BY <1>1
<1> HIDE DEF t, x
<1>4. IsSeq(t) /\ DOMAIN t = 1 .. Len(t) /\ Len(t) \in Nat
  BY <1>2, SeqIs
<1>5. <<x>> \in Seq(S) /\ Len(<<x>>) = 1 /\ <<x>>[1] = x
  BY <1>2
<1> DEFINE u == <<x>> \o t
<1>6. /\ u \in Seq(S) /\ Len(u) = Len(<<x>>) + Len(t)
      /\ \A i \in 1 .. Len(<<x>>) + Len(t) : u[i] = IF i <= Len(<<x>>) THEN <<x>>[i] ELSE t[i - Len(<<x>>)]
  BY <1>2, <1>5, ConcatProperties
<1> HIDE DEF u
<1>7. \A i \in 1 .. Len(s) : s[i] = u[i]
  <2> TAKE i \in 1 .. Len(s)
  <2>1. CASE i = 1
    BY <1>1, <1>2, <1>3, <1>5, <1>6, <2>1
  <2>2. CASE i # 1
    <3>1. i - 1 \in 1 .. Len(t) /\ (i - 1) + 1 = i /\ ~(i <= 1)
      BY <1>1, <1>2, <2>2
    <3>2. u[i] = t[i - 1]
      BY <1>1, <1>2, <1>5, <1>6, <3>1
    <3> QED BY <1>2, <3>1, <3>2
  <2> QED BY <2>1, <2>2
<1>8. Len(s) = Len(u)
  BY <1>1, <1>2, <1>5, <1>6
<1>9. s = u
  BY <1>1, <1>6, <1>7, <1>8, SeqEqual
<1>10. \A i \in DOMAIN t : i + 1 \in DOMAIN s /\ t[i] = s[i + 1]
  BY <1>1, <1>2, <1>4
<1> QED BY <1>1, <1>3, <1>4, <1>9, <1>10 DEF t, x, u

(* Counts add up.                                                          *)
LEMMA CountIs ==
    ASSUME NEW s, IsSeq(s), NEW K
    PROVE  IsFiniteSet({i \in DOMAIN s : s[i].do \in K}) /\ Count(s, K) \in Nat
<1> DEFINE I == {i \in DOMAIN s : s[i].do \in K}
<1>1. Len(s) \in Nat /\ DOMAIN s = 1 .. Len(s)
  BY DEF IsSeq
<1>2. IsFiniteSet(1 .. Len(s)) /\ I \subseteq 1 .. Len(s)
  BY <1>1, FS_Interval
<1> HIDE DEF I
<1>3. IsFiniteSet(I) /\ Cardinality(I) \in Nat
  BY <1>2, FS_Subset, FS_CardinalityType
<1> QED BY <1>3 DEF I, Count

LEMMA CountConcat ==
    ASSUME NEW a, IsSeq(a), NEW b, IsSeq(b), NEW K
    PROVE  Count(a \o b, K) = Count(a, K) + Count(b, K)
<1> DEFINE s == a \o b
           A == {i \in DOMAIN a : a[i].do \in K}
           B == {i \in DOMAIN b : b[i].do \in K}
           C == {i \in DOMAIN s : s[i].do \in K}
           n == Len(a)
           D == {i \in C : i \notin DOMAIN a}
           f == [i \in B |-> i + n]
<1>1. /\ IsSeq(s) /\ n \in Nat /\ Len(b) \in Nat /\ DOMAIN a = 1 .. n /\ DOMAIN b = 1 .. Len(b)
      /\ DOMAIN s = 1 .. n + Len(b)
      /\ \A i \in DOMAIN a : s[i] = a[i]
      /\ \A i \in DOMAIN b : i + n \in DOMAIN s /\ i + n \notin DOMAIN a /\ s[i + n] = b[i]
  <2>1. /\ IsSeq(s) /\ n \in Nat /\ Len(b) \in Nat /\ DOMAIN a = 1 .. n /\ DOMAIN b = 1 .. Len(b)
    BY ConcatSeq
  <2>2. DOMAIN s = 1 .. n + Len(b)
    BY ConcatSeq
  <2>3. \A i \in DOMAIN a : s[i] = a[i]
    BY ConcatSeq
  <2>4. \A k \in 1 .. n + Len(b) : k > n => s[k] = b[k - n]
    BY ConcatSeq
  <2>5. ASSUME NEW i \in DOMAIN b PROVE i + n \in DOMAIN s /\ i + n \notin DOMAIN a /\ s[i + n] = b[i]
    <3> HIDE DEF s, n
    <3>1. i + n \in 1 .. n + Len(b) /\ i + n > n /\ (i + n) - n = i
      BY <2>1
    <3> QED BY <2>1, <2>2, <2>4, <3>1
  <2> HIDE DEF s, n
  <2> QED BY <2>1, <2>2, <2>3, <2>5
<1> HIDE DEF s, n
<1>2. IsFiniteSet(A) /\ IsFiniteSet(B)
  BY CountIs
<1>3. C = A \cup D /\ A \cap D = {}
  BY <1>1
<1>4. f \in Bijection(B, D)
  <2>1. ASSUME NEW i \in B PROVE f[i] = i + n /\ i + n \in D /\ i \in 1 .. Len(b)
    <3>1. i \in DOMAIN b /\ b[i].do \in K /\ f[i] = i + n
      OBVIOUS
    <3>2. i + n \in DOMAIN s /\ i + n \notin DOMAIN a /\ s[i + n] = b[i]
      BY <1>1, <3>1
    <3> QED BY <1>1, <3>1, <3>2
  <2>2. f \in [B -> D]
    <3>1. \A i \in B : i + n \in D
      BY <2>1
    <3> HIDE DEF B, D
    <3> QED BY <3>1
  <2>3. ASSUME NEW i \in B, NEW j \in B, f[i] = f[j] PROVE i = j
    BY <1>1, <2>1, <2>3
  <2>4. ASSUME NEW k \in D PROVE \E i \in B : f[i] = k
    <3>1. k \in DOMAIN s /\ k \notin DOMAIN a /\ s[k].do \in K
      OBVIOUS
    <3>2. k - n \in DOMAIN b /\ (k - n) + n = k
      BY <1>1, <3>1
    <3>3. b[k - n] = s[k]
      BY <1>1, <3>2
    <3>4. k - n \in B
      BY <3>1, <3>2, <3>3
    <3>5. f[k - n] = k
      BY <2>1, <3>2, <3>4
    <3> QED BY <3>4, <3>5
  <2> HIDE DEF f, B, D
  <2> QED BY <2>2, <2>3, <2>4 DEF Bijection, Injection, Surjection, IsInjective
<1> HIDE DEF A, B, C, D, f
<1>5. IsFiniteSet(D) /\ Cardinality(D) = Cardinality(B)
  <2>1. ExistsBijection(B, D)
    BY <1>4 DEF ExistsBijection
  <2> QED BY <1>2, <2>1, FS_Bijection
<1>6. Cardinality(C) = Cardinality(A) + Cardinality(D) - Cardinality({})
  BY <1>2, <1>3, <1>5, FS_Union
<1>7. Cardinality(C) = Cardinality(A) + Cardinality(B)
  BY <1>2, <1>5, <1>6, FS_EmptySet, FS_CardinalityType
<1> QED BY <1>7 DEF Count, A, B, C, s

(* A sequence of items: good, with labels D to define, c to close switches *)
(* and l to close loops.                                                   *)
Has(s, D, c, l) == Good(s) /\ Makes(s) = D /\ Count(s, Closers) = c /\ Count(s, Loopers) = l
Weight(item, K) == IF item.do \in K THEN 1 ELSE 0

LEMMA WeightIs ==
    ASSUME NEW x, NEW K
    PROVE  Weight(x, K) \in Nat
BY DEF Weight

LEMMA HasMute ==
    ASSUME NEW s, IsSeq(s), \A i \in DOMAIN s : IsItem(s[i]) /\ Defines(s[i]) = {} /\ s[i].do \notin Loopers
    PROVE  Has(s, {}, 0, 0)
<1>1. Good(s)
  BY DEF Good
<1>2. Makes(s) = {}
  BY DEF Makes
<1>3. {i \in DOMAIN s : s[i].do \in Loopers} = {} /\ {i \in DOMAIN s : s[i].do \in Closers} = {}
  BY DEF Loopers, Closers
<1>4. Count(s, Closers) = 0 /\ Count(s, Loopers) = 0
  BY <1>3, FS_EmptySet DEF Count
<1> QED BY <1>1, <1>2, <1>4 DEF Has

LEMMA HasNone == Has(<<>>, {}, 0, 0)
<1> DEFINE s == <<>>
<1>1. s \in Seq({}) /\ DOMAIN s = {}
  OBVIOUS
<1> HIDE DEF s
<1>2. IsSeq(s)
  BY <1>1, SeqIs
<1>3. Has(s, {}, 0, 0)
  BY <1>1, <1>2, HasMute
<1> QED BY <1>3 DEF s

LEMMA HasOne ==
    ASSUME NEW x, IsItem(x)
    PROVE  Has(<<x>>, Defines(x), Weight(x, Closers), Weight(x, Loopers))
<1> DEFINE s == <<x>>
<1>1. IsSeq(s) /\ DOMAIN s = {1} /\ s[1] = x
  BY OneSeq
<1> HIDE DEF s
<1>2. Good(s)
  BY <1>1 DEF Good
<1>3. Makes(s) = Defines(x)
  BY <1>1 DEF Makes
<1>4. ASSUME NEW K PROVE Count(s, K) = Weight(x, K)
  <2>1. CASE x.do \in K
    <3>1. {i \in DOMAIN s : s[i].do \in K} = {1}
      BY <1>1, <2>1
    <3> QED BY <2>1, <3>1, FS_Singleton DEF Count, Weight
  <2>2. CASE x.do \notin K
    <3>1. {i \in DOMAIN s : s[i].do \in K} = {}
      BY <1>1, <2>2
    <3> QED BY <2>2, <3>1, FS_EmptySet DEF Count, Weight
  <2> QED BY <2>1, <2>2
<1> QED BY <1>2, <1>3, <1>4 DEF Has, s

LEMMA HasConcat ==
    ASSUME NEW a, NEW D, NEW c, NEW l, Has(a, D, c, l), NEW b, NEW E, NEW d, NEW m, Has(b, E, d, m), D \cap E = {}
    PROVE  Has(a \o b, D \cup E, c + d, l + m)
<1> DEFINE s == a \o b
<1>1. IsSeq(a) /\ IsSeq(b) /\ Makes(a) = D /\ Makes(b) = E
  BY DEF Has, Good
<1>2. IsSeq(s)
  BY <1>1, ConcatSeq
<1>3. ASSUME NEW i \in DOMAIN s
      PROVE  \/ i \in DOMAIN a /\ s[i] = a[i]
             \/ i - Len(a) \in DOMAIN b /\ s[i] = b[i - Len(a)] /\ i \notin DOMAIN a
  BY <1>1, <1>3, ConcatIndex
<1>4. (\A i \in DOMAIN a : i \in DOMAIN s /\ s[i] = a[i]) /\ \A i \in DOMAIN b : \E j \in DOMAIN s : s[j] = b[i]
  <2>1. Len(a) \in Nat /\ Len(b) \in Nat /\ DOMAIN a = 1 .. Len(a) /\ DOMAIN b = 1 .. Len(b)
    BY <1>1, ConcatSeq
  <2>2. DOMAIN s = 1 .. Len(a) + Len(b)
    BY <1>1, ConcatSeq
  <2>3. \A i \in DOMAIN a : s[i] = a[i]
    BY <1>1, ConcatSeq
  <2>4. \A k \in 1 .. Len(a) + Len(b) : k > Len(a) => s[k] = b[k - Len(a)]
    BY <1>1, ConcatSeq
  <2> HIDE DEF s
  <2>5. ASSUME NEW i \in DOMAIN b PROVE \E j \in DOMAIN s : s[j] = b[i]
    <3>1. i + Len(a) \in 1 .. Len(a) + Len(b) /\ i + Len(a) > Len(a) /\ (i + Len(a)) - Len(a) = i
      BY <2>1
    <3>2. i + Len(a) \in DOMAIN s /\ s[i + Len(a)] = b[i]
      BY <2>2, <2>4, <3>1
    <3> QED BY <3>2
  <2> QED BY <2>1, <2>2, <2>3, <2>5
<1> HIDE DEF s
<1>5. Makes(s) = D \cup E
  <2>1. ASSUME NEW x \in Makes(s) PROVE x \in D \cup E
    <3>1. PICK i \in DOMAIN s : x \in Defines(s[i])
      BY DEF Makes
    <3>2. CASE i \in DOMAIN a /\ s[i] = a[i]
      BY <1>1, <3>1, <3>2 DEF Makes
    <3>3. CASE i - Len(a) \in DOMAIN b /\ s[i] = b[i - Len(a)]
      BY <1>1, <3>1, <3>3 DEF Makes
    <3> QED BY <1>3, <3>2, <3>3
  <2>2. ASSUME NEW x \in Makes(a) PROVE x \in Makes(s)
    <3>1. PICK i \in DOMAIN a : x \in Defines(a[i])
      BY DEF Makes
    <3> QED BY <1>4, <3>1 DEF Makes
  <2>3. ASSUME NEW x \in Makes(b) PROVE x \in Makes(s)
    <3>1. PICK i \in DOMAIN b : x \in Defines(b[i])
      BY DEF Makes
    <3>2. PICK j \in DOMAIN s : s[j] = b[i]
      BY <1>4
    <3> QED BY <3>1, <3>2 DEF Makes
  <2> QED BY <1>1, <2>1, <2>2, <2>3
<1>6. Good(s)
  <2>1. ASSUME NEW i \in DOMAIN s PROVE IsItem(s[i])
    BY <1>3 DEF Has, Good
  <2>2. ASSUME NEW i \in DOMAIN s, NEW j \in DOMAIN s, i # j PROVE Defines(s[i]) \cap Defines(s[j]) = {}
    <3> DEFINE A(k) == k \in DOMAIN a /\ s[k] = a[k]
               B(k) == k - Len(a) \in DOMAIN b /\ s[k] = b[k - Len(a)] /\ k \notin DOMAIN a
    <3>1. (A(i) \/ B(i)) /\ (A(j) \/ B(j))
      BY <1>3
    <3>2. CASE A(i) /\ A(j)
      BY <2>2, <3>2 DEF Has, Good
    <3>3. CASE B(i) /\ B(j)
      <4>1. i - Len(a) # j - Len(a)
        <5>1. Len(a) \in Nat /\ DOMAIN s = 1 .. Len(s) /\ Len(s) \in Nat
          BY <1>1, <1>2 DEF IsSeq
        <5>2. i \in Int /\ j \in Int
          BY <5>1
        <5> QED BY <2>2, <5>1, <5>2
      <4> QED BY <3>3, <4>1 DEF Has, Good
    <3>4. CASE A(i) /\ B(j)
      <4>1. Defines(s[i]) \subseteq D /\ Defines(s[j]) \subseteq E
        BY <1>1, <3>4 DEF Makes
      <4> QED BY <4>1
    <3>5. CASE B(i) /\ A(j)
      <4>1. Defines(s[j]) \subseteq D /\ Defines(s[i]) \subseteq E
        BY <1>1, <3>5 DEF Makes
      <4> QED BY <4>1
    <3> QED BY <3>1, <3>2, <3>3, <3>4, <3>5
  <2> QED BY <1>2, <2>1, <2>2 DEF Good
<1>7. Count(s, Closers) = c + d /\ Count(s, Loopers) = l + m
  BY <1>1, CountConcat DEF Has, s
<1> QED BY <1>5, <1>6, <1>7 DEF Has, s

LEMMA HasCons ==
    ASSUME NEW x, IsItem(x), NEW s, NEW D, NEW c, NEW l, Has(s, D, c, l), Defines(x) \cap D = {}
    PROVE  Has(<<x>> \o s, Defines(x) \cup D, Weight(x, Closers) + c, Weight(x, Loopers) + l)
BY HasOne, HasConcat

LEMMA HasTwo ==
    ASSUME NEW x1, NEW x2,
           IsItem(x1), IsItem(x2),
           Defines(x1) \cap Defines(x2) = {}
    PROVE  Has(<<x1, x2>>, Defines(x1) \cup Defines(x2),
               Weight(x1, Closers) + Weight(x2, Closers),
               Weight(x1, Loopers) + Weight(x2, Loopers))
<1> DEFINE r == <<x2>>
           D == Defines(x2)
           c == Weight(x2, Closers)
           l == Weight(x2, Loopers)
<1>1. Has(r, D, c, l)
  BY HasOne
<1>2. Defines(x1) \cap D = {}
  OBVIOUS
<1>3. <<x1, x2>> = <<x1>> \o r
  <2> DEFINE S == {x1, x2}
             a == <<x1>>
             b == <<x1, x2>>
             s == a \o r
  <2>1. a \in Seq(S) /\ Len(a) = 1 /\ a[1] = x1 /\ r \in Seq(S) /\ Len(r) = 1 /\ r[1] = x2
    OBVIOUS
  <2>2. b \in Seq(S) /\ Len(b) = 2 /\ b[1] = x1 /\ b[2] = x2
    OBVIOUS
  <2> HIDE DEF S, a, b, r
  <2>3. s \in Seq(S) /\ Len(s) = 2 /\ s[1] = x1 /\ s[2] = x2
    <3>1. /\ s \in Seq(S) /\ Len(s) = Len(a) + Len(r)
          /\ \A i \in 1 .. Len(a) + Len(r) : s[i] = IF i <= Len(a) THEN a[i] ELSE r[i - Len(a)]
      BY <2>1, ConcatProperties
    <3> QED BY <2>1, <3>1
  <2> HIDE DEF s
  <2>4. \A i \in 1 .. Len(b) : b[i] = s[i]
    BY <2>2, <2>3
  <2>5. b = s
    BY <2>2, <2>3, <2>4, SeqEqual
  <2> QED BY <2>5 DEF a, b, s
<1>4. Weight(x1, Closers) \in Nat /\ Weight(x1, Loopers) \in Nat /\ Weight(x2, Closers) \in Nat /\ Weight(x2, Loopers) \in Nat
  BY WeightIs
<1> HIDE DEF D, c, l, r
<1>5. Has(<<x1>> \o r, Defines(x1) \cup D, Weight(x1, Closers) + c, Weight(x1, Loopers) + l)
  BY <1>1, <1>2, HasCons
<1>6. Weight(x1, Closers) + Weight(x2, Closers) = Weight(x1, Closers) + c /\ Weight(x1, Loopers) + Weight(x2, Loopers) = Weight(x1, Loopers) + l
  BY <1>4 DEF c, l
<1> QED BY <1>3, <1>5, <1>6 DEF D, r

LEMMA HasThree ==
    ASSUME NEW x1, NEW x2, NEW x3,
           IsItem(x1), IsItem(x2), IsItem(x3),
           Defines(x1) \cap Defines(x2) = {} /\ Defines(x1) \cap Defines(x3) = {} /\ Defines(x2) \cap Defines(x3) = {}
    PROVE  Has(<<x1, x2, x3>>, Defines(x1) \cup Defines(x2) \cup Defines(x3),
               Weight(x1, Closers) + Weight(x2, Closers) + Weight(x3, Closers),
               Weight(x1, Loopers) + Weight(x2, Loopers) + Weight(x3, Loopers))
<1> DEFINE r == <<x2, x3>>
           D == Defines(x2) \cup Defines(x3)
           c == Weight(x2, Closers) + Weight(x3, Closers)
           l == Weight(x2, Loopers) + Weight(x3, Loopers)
<1>1. Has(r, D, c, l)
  BY HasTwo
<1>2. Defines(x1) \cap D = {}
  OBVIOUS
<1>3. <<x1, x2, x3>> = <<x1>> \o r
  OBVIOUS
<1>4. Weight(x1, Closers) \in Nat /\ Weight(x1, Loopers) \in Nat /\ Weight(x2, Closers) \in Nat /\ Weight(x2, Loopers) \in Nat /\ Weight(x3, Closers) \in Nat /\ Weight(x3, Loopers) \in Nat
  BY WeightIs
<1> HIDE DEF D, c, l, r
<1>5. Has(<<x1>> \o r, Defines(x1) \cup D, Weight(x1, Closers) + c, Weight(x1, Loopers) + l)
  BY <1>1, <1>2, HasCons
<1>6. Weight(x1, Closers) + Weight(x2, Closers) + Weight(x3, Closers) = Weight(x1, Closers) + c /\ Weight(x1, Loopers) + Weight(x2, Loopers) + Weight(x3, Loopers) = Weight(x1, Loopers) + l
  BY <1>4 DEF c, l
<1> QED BY <1>3, <1>5, <1>6 DEF D, r

LEMMA HasFour ==
    ASSUME NEW x1, NEW x2, NEW x3, NEW x4,
           IsItem(x1), IsItem(x2), IsItem(x3), IsItem(x4),
           Defines(x1) \cap Defines(x2) = {} /\ Defines(x1) \cap Defines(x3) = {} /\ Defines(x1) \cap Defines(x4) = {} /\ Defines(x2) \cap Defines(x3) = {} /\ Defines(x2) \cap Defines(x4) = {} /\ Defines(x3) \cap Defines(x4) = {}
    PROVE  Has(<<x1, x2, x3, x4>>, Defines(x1) \cup Defines(x2) \cup Defines(x3) \cup Defines(x4),
               Weight(x1, Closers) + Weight(x2, Closers) + Weight(x3, Closers) + Weight(x4, Closers),
               Weight(x1, Loopers) + Weight(x2, Loopers) + Weight(x3, Loopers) + Weight(x4, Loopers))
<1> DEFINE r == <<x2, x3, x4>>
           D == Defines(x2) \cup Defines(x3) \cup Defines(x4)
           c == Weight(x2, Closers) + Weight(x3, Closers) + Weight(x4, Closers)
           l == Weight(x2, Loopers) + Weight(x3, Loopers) + Weight(x4, Loopers)
<1>1. Has(r, D, c, l)
  BY HasThree
<1>2. Defines(x1) \cap D = {}
  OBVIOUS
<1>3. <<x1, x2, x3, x4>> = <<x1>> \o r
  OBVIOUS
<1>4. Weight(x1, Closers) \in Nat /\ Weight(x1, Loopers) \in Nat /\ Weight(x2, Closers) \in Nat /\ Weight(x2, Loopers) \in Nat /\ Weight(x3, Closers) \in Nat /\ Weight(x3, Loopers) \in Nat /\ Weight(x4, Closers) \in Nat /\ Weight(x4, Loopers) \in Nat
  BY WeightIs
<1> HIDE DEF D, c, l, r
<1>5. Has(<<x1>> \o r, Defines(x1) \cup D, Weight(x1, Closers) + c, Weight(x1, Loopers) + l)
  BY <1>1, <1>2, HasCons
<1>6. Weight(x1, Closers) + Weight(x2, Closers) + Weight(x3, Closers) + Weight(x4, Closers) = Weight(x1, Closers) + c /\ Weight(x1, Loopers) + Weight(x2, Loopers) + Weight(x3, Loopers) + Weight(x4, Loopers) = Weight(x1, Loopers) + l
  BY <1>4 DEF c, l
<1> QED BY <1>3, <1>5, <1>6 DEF D, r

LEMMA HasFive ==
    ASSUME NEW x1, NEW x2, NEW x3, NEW x4, NEW x5,
           IsItem(x1), IsItem(x2), IsItem(x3), IsItem(x4), IsItem(x5),
           Defines(x1) \cap Defines(x2) = {} /\ Defines(x1) \cap Defines(x3) = {} /\ Defines(x1) \cap Defines(x4) = {} /\ Defines(x1) \cap Defines(x5) = {} /\ Defines(x2) \cap Defines(x3) = {} /\ Defines(x2) \cap Defines(x4) = {} /\ Defines(x2) \cap Defines(x5) = {} /\ Defines(x3) \cap Defines(x4) = {} /\ Defines(x3) \cap Defines(x5) = {} /\ Defines(x4) \cap Defines(x5) = {}
    PROVE  Has(<<x1, x2, x3, x4, x5>>, Defines(x1) \cup Defines(x2) \cup Defines(x3) \cup Defines(x4) \cup Defines(x5),
               Weight(x1, Closers) + Weight(x2, Closers) + Weight(x3, Closers) + Weight(x4, Closers) + Weight(x5, Closers),
               Weight(x1, Loopers) + Weight(x2, Loopers) + Weight(x3, Loopers) + Weight(x4, Loopers) + Weight(x5, Loopers))
<1> DEFINE r == <<x2, x3, x4, x5>>
           D == Defines(x2) \cup Defines(x3) \cup Defines(x4) \cup Defines(x5)
           c == Weight(x2, Closers) + Weight(x3, Closers) + Weight(x4, Closers) + Weight(x5, Closers)
           l == Weight(x2, Loopers) + Weight(x3, Loopers) + Weight(x4, Loopers) + Weight(x5, Loopers)
<1>1. Has(r, D, c, l)
  BY HasFour
<1>2. Defines(x1) \cap D = {}
  OBVIOUS
<1>3. <<x1, x2, x3, x4, x5>> = <<x1>> \o r
  OBVIOUS
<1>4. Weight(x1, Closers) \in Nat /\ Weight(x1, Loopers) \in Nat /\ Weight(x2, Closers) \in Nat /\ Weight(x2, Loopers) \in Nat /\ Weight(x3, Closers) \in Nat /\ Weight(x3, Loopers) \in Nat /\ Weight(x4, Closers) \in Nat /\ Weight(x4, Loopers) \in Nat /\ Weight(x5, Closers) \in Nat /\ Weight(x5, Loopers) \in Nat
  BY WeightIs
<1> HIDE DEF D, c, l, r
<1>5. Has(<<x1>> \o r, Defines(x1) \cup D, Weight(x1, Closers) + c, Weight(x1, Loopers) + l)
  BY <1>1, <1>2, HasCons
<1>6. Weight(x1, Closers) + Weight(x2, Closers) + Weight(x3, Closers) + Weight(x4, Closers) + Weight(x5, Closers) = Weight(x1, Closers) + c /\ Weight(x1, Loopers) + Weight(x2, Loopers) + Weight(x3, Loopers) + Weight(x4, Loopers) + Weight(x5, Loopers) = Weight(x1, Loopers) + l
  BY <1>4 DEF c, l
<1> QED BY <1>3, <1>5, <1>6 DEF D, r

(* The first item, and the rest.                                           *)
LEMMA GoodTail ==
    ASSUME NEW s, Good(s), s # <<>>
    PROVE  /\ IsItem(Head(s)) /\ Good(Tail(s)) /\ Defines(Head(s)) \cap Makes(Tail(s)) = {}
           /\ Makes(s) = Defines(Head(s)) \cup Makes(Tail(s))
           /\ Count(s, Closers) = Weight(Head(s), Closers) + Count(Tail(s), Closers)
           /\ Count(s, Loopers) = Weight(Head(s), Loopers) + Count(Tail(s), Loopers)
<1> DEFINE x == Head(s)
           t == Tail(s)
<1>1. /\ IsSeq(t) /\ s = <<x>> \o t /\ 1 \in DOMAIN s /\ x = s[1]
      /\ \A i \in DOMAIN t : i + 1 \in DOMAIN s /\ t[i] = s[i + 1]
  BY TailSeq DEF Good
<1> HIDE DEF x, t
<1>2. IsItem(x)
  BY <1>1 DEF Good
<1>3. DOMAIN t = 1 .. Len(t) /\ Len(t) \in Nat
  BY <1>1 DEF IsSeq
<1>4. Good(t)
  <2>1. \A i \in DOMAIN t : IsItem(t[i])
    BY <1>1 DEF Good
  <2>2. ASSUME NEW i \in DOMAIN t, NEW j \in DOMAIN t, i # j PROVE Defines(t[i]) \cap Defines(t[j]) = {}
    <3>1. i + 1 # j + 1
      BY <1>3, <2>2
    <3> QED BY <1>1, <3>1, ZenonT(60) DEF Good
  <2> QED BY <1>1, <2>1, <2>2 DEF Good
<1>5. Defines(x) \cap Makes(t) = {}
  <2> SUFFICES ASSUME NEW l \in Makes(t), l \in Defines(x) PROVE FALSE
    OBVIOUS
  <2>1. PICK i \in DOMAIN t : l \in Defines(t[i])
    BY DEF Makes
  <2>2. i + 1 # 1 /\ i + 1 \in DOMAIN s /\ t[i] = s[i + 1]
    BY <1>1, <1>3
  <2> QED BY <1>1, <2>1, <2>2 DEF Good
<1> DEFINE c == Count(t, Closers)
           l == Count(t, Loopers)
           D == Makes(t)
<1>6. Has(t, D, c, l)
  BY <1>4 DEF Has
<1> HIDE DEF c, l, D
<1>7. Has(<<x>> \o t, Defines(x) \cup D, Weight(x, Closers) + c, Weight(x, Loopers) + l)
  BY <1>2, <1>5, <1>6, HasCons DEF D
<1>8. Has(s, Defines(x) \cup D, Weight(x, Closers) + c, Weight(x, Loopers) + l)
  BY <1>1, <1>7
<1> QED BY <1>2, <1>4, <1>5, <1>8 DEF Has, x, t, c, l, D

-----------------------------------------------------------------------------
(* The invariant of the compiler.                                          *)
NamedLabels(names) == {names[n].offlabel : n \in {x \in Names : names[x].indcount \in {3, 4}}}
Allocated == 1 .. frame.lastlab \cup NamedLabels(named)
Left(td, labels, defined, c, l) ==
    /\ Good(td) /\ Makes(td) \cap defined = {} /\ Makes(td) \cup defined \subseteq labels
    /\ c = Count(td, Closers) /\ l = Count(td, Loopers)
LeftToDo == Left(todo, Allocated, Labels(g.code), Len(switches), Len(loops))

(* Labels of names are from -1 down to Highlab, all different.             *)
NamesRight ==
    /\ named \in [Names -> [offlabel : Int, indcount : Nat]]
    /\ \A n \in Names : named[n].indcount # 0 => named[n].offlabel \in Highlab + 1 .. -1
    /\ \A n, x \in Names : n # x /\ named[n].indcount # 0 /\ named[x].indcount # 0 => named[n].offlabel # named[x].offlabel
FrameRight ==
    /\ DOMAIN frame = {"sp", "softsp", "lowsp", "framed", "returnflag", "lastlab", "swstacklab", "switched", "test"}
    /\ frame.lastlab \in Nat /\ frame.switched \in Nat
IsSwitch(s) == DOMAIN s = {"char", "cases", "dfaultlab"} /\ IsCases(s.cases)
ListsRight ==
    /\ IsSeq(switches) /\ \A i \in DOMAIN switches : IsSwitch(switches[i])
    /\ IsSeq(loops) /\ \A i \in DOMAIN loops : loops[i].breaklab # 0
IInv == prog \in Programs /\ Made(g) /\ LeftToDo /\ NamesRight /\ FrameRight /\ ListsRight

(* The first item is replaced by others: these define labels that are new, *)
(* or that the first was to define.                                        *)
LEMMA Going ==
    ASSUME NEW td, td # <<>>, NEW A, NEW L, NEW s, NEW l, Left(td, A, L, s, l),
           NEW items, NEW D, NEW c, NEW m, Has(items, D, c, m), c \in Nat, m \in Nat,
           NEW B, NEW M, A \subseteq B, D \subseteq B, D \cap A \subseteq Defines(Head(td)),
           M \subseteq L \cup Defines(Head(td)), D \cap M = {}
    PROVE  Left(items \o Tail(td), B, M, c + (s - Weight(Head(td), Closers)), m + (l - Weight(Head(td), Loopers)))
<1> DEFINE x == Head(td)
           t == Tail(td)
           E == Makes(t)
           d == Count(t, Closers)
           n == Count(t, Loopers)
<1>1. /\ IsItem(x) /\ Good(t) /\ Defines(x) \cap E = {} /\ Makes(td) = Defines(x) \cup E
      /\ Count(td, Closers) = Weight(x, Closers) + d /\ Count(td, Loopers) = Weight(x, Loopers) + n
  BY GoodTail DEF Left
<1>2. Has(t, E, d, n)
  BY <1>1 DEF Has
<1>3. D \cap E = {} /\ E \cap M = {} /\ E \subseteq B /\ M \subseteq B
  BY <1>1 DEF Left
<1>4. d \in Nat /\ n \in Nat /\ Weight(x, Closers) \in Nat /\ Weight(x, Loopers) \in Nat
  BY <1>1, CountIs, WeightIs DEF Good
<1> HIDE DEF x, t, E, d, n
<1>5. Has(items \o t, D \cup E, c + d, m + n)
  BY <1>2, <1>3, HasConcat
<1>6. c + (s - Weight(x, Closers)) = c + d /\ m + (l - Weight(x, Loopers)) = m + n
  BY <1>1, <1>4 DEF Left
<1>7. /\ Good(items \o t) /\ Makes(items \o t) = D \cup E
      /\ Count(items \o t, Closers) = c + d /\ Count(items \o t, Loopers) = m + n
  BY <1>5 DEF Has
<1>8. (D \cup E) \cap M = {} /\ (D \cup E) \cup M \subseteq B
  BY <1>3
<1>9. Left(items \o t, B, M, c + (s - Weight(x, Closers)), m + (l - Weight(x, Loopers)))
  BY <1>6, <1>7, <1>8 DEF Left
<1> QED BY <1>9 DEF x, t

LEMMA StepInv ==
    ASSUME IInv, todo # <<>>, NEW items, Goes(items), prog' = prog, Made(g'),
           NEW D, NEW c, NEW m, Has(items, D, c, m), c \in Nat, m \in Nat,
           Allocated \subseteq Allocated', D \subseteq Allocated', D \cap Allocated \subseteq Defines(Head(todo)),
           Labels(g'.code) \subseteq Labels(g.code) \cup Defines(Head(todo)), D \cap Labels(g'.code) = {},
           Len(switches') = c + (Len(switches) - Weight(Head(todo), Closers)),
           Len(loops') = m + (Len(loops) - Weight(Head(todo), Loopers)),
           NamesRight', FrameRight', ListsRight'
    PROVE  IInv'
<1> DEFINE td == todo
           A == Allocated
           B == Allocated'
           L == Labels(g.code)
           M == Labels(g'.code)
           s == Len(switches)
           l == Len(loops)
<1>1. Left(td, A, L, s, l) /\ A \subseteq B /\ D \subseteq B /\ D \cap A \subseteq Defines(Head(td))
      /\ M \subseteq L \cup Defines(Head(td)) /\ D \cap M = {} /\ td # <<>>
  BY DEF IInv, LeftToDo
<1>2. Len(switches') = c + (s - Weight(Head(td), Closers)) /\ Len(loops') = m + (l - Weight(Head(td), Loopers))
      /\ todo' = items \o Tail(td)
  BY DEF Goes
<1> HIDE DEF td, A, B, L, M, s, l
<1>3. Left(items \o Tail(td), B, M, c + (s - Weight(Head(td), Closers)), m + (l - Weight(Head(td), Loopers)))
  BY <1>1, Going, ZenonT(60)
<1>4. Left(todo', B, M, Len(switches'), Len(loops'))
  BY <1>2, <1>3
<1>5. LeftToDo'
  BY <1>4 DEF LeftToDo, B, M
<1> QED BY <1>5 DEF IInv

(* What is allocated, and what is not.                                     *)
LEMMA NamesSame ==
    ASSUME NamesRight, named' = named, frame'.switched = frame.switched
    PROVE  NamesRight' /\ NamedLabels(named)' = NamedLabels(named) /\ Highlab' = Highlab
<1>1. Highlab' = Highlab
  BY DEF Highlab
<1> QED BY <1>1 DEF NamesRight, NamedLabels

LEMMA AllocatedIs ==
    ASSUME NamesRight, FrameRight, NEW l \in Allocated
    PROVE  l \in Int /\ l # 0 /\ l <= frame.lastlab
<1>1. CASE l \in 1 .. frame.lastlab
  BY <1>1 DEF FrameRight
<1>2. CASE l \in NamedLabels(named)
  <2>1. PICK n \in Names : named[n].indcount \in {3, 4} /\ l = named[n].offlabel
    BY <1>2 DEF NamedLabels
  <2>2. l \in Int /\ l \in Highlab + 1 .. -1 /\ Highlab \in Int
    <3>1. l \in Int /\ named[n].indcount # 0
      BY <2>1 DEF NamesRight
    <3>2. l \in Highlab + 1 .. -1
      BY <2>1, <3>1 DEF NamesRight
    <3>3. Highlab \in Int
      <4>1. {x \in Names : named[x].indcount # 0} \subseteq Names /\ IsFiniteSet(Names)
        BY ProgramsAssumption
      <4>2. Cardinality({x \in Names : named[x].indcount # 0}) \in Nat
        BY <4>1, FS_Subset, FS_CardinalityType
      <4> QED BY <4>2 DEF Highlab, FrameRight
    <3> QED BY <3>1, <3>2, <3>3
  <2> QED BY <2>2 DEF FrameRight
<1> QED BY <1>1, <1>2 DEF Allocated

LEMMA HeadIs ==
    ASSUME IInv, todo # <<>>
    PROVE  /\ IsItem(Head(todo)) /\ Defines(Head(todo)) \subseteq Allocated
           /\ Defines(Head(todo)) \cap Labels(g.code) = {} /\ 0 \notin Defines(Head(todo))
<1>1. IsItem(Head(todo)) /\ Makes(todo) = Defines(Head(todo)) \cup Makes(Tail(todo))
  BY GoodTail DEF IInv, LeftToDo, Left
<1>2. Makes(todo) \cap Labels(g.code) = {} /\ Makes(todo) \subseteq Allocated
  BY DEF IInv, LeftToDo, Left
<1>3. 0 \notin Allocated
  BY AllocatedIs DEF IInv
<1> QED BY <1>1, <1>2, <1>3

(* Nothing is emitted, the tables stay: the labels to define are new.      *)
LEMMA Syntax ==
    ASSUME IInv, todo # <<>>, NEW items, Goes(items), SyntaxOnly,
           NEW D, NEW c, NEW m, Has(items, D, c, m),
           c = Weight(Head(todo), Closers), m = Weight(Head(todo), Loopers),
           FrameRight', frame'.lastlab >= frame.lastlab, frame'.switched = frame.switched,
           D \subseteq (frame.lastlab + 1 .. frame'.lastlab) \cup Defines(Head(todo))
    PROVE  IInv'
<1>1. prog' = prog /\ g' = g /\ loops' = loops /\ switches' = switches /\ named' = named
  BY DEF SyntaxOnly
<1>2. NamesRight' /\ NamedLabels(named)' = NamedLabels(named)
  BY <1>1, NamesSame DEF IInv
<1>3. frame.lastlab \in Nat /\ frame'.lastlab \in Nat
  BY DEF IInv, FrameRight
<1>4. Allocated \subseteq Allocated'
  BY <1>1, <1>2, <1>3 DEF Allocated
<1>5. /\ IsItem(Head(todo)) /\ Defines(Head(todo)) \subseteq Allocated
      /\ Defines(Head(todo)) \cap Labels(g.code) = {}
  BY HeadIs
<1>6. ASSUME NEW l \in frame.lastlab + 1 .. frame'.lastlab PROVE l \notin Allocated /\ l \in Allocated'
  <2>1. l \notin Allocated
    BY <1>3, AllocatedIs DEF IInv
  <2>2. l \in 1 .. frame'.lastlab
    BY <1>3
  <2> QED BY <2>1, <2>2 DEF Allocated
<1>7. D \subseteq Allocated' /\ D \cap Allocated \subseteq Defines(Head(todo))
  BY <1>4, <1>5, <1>6
<1>8. Labels(g.code) \subseteq Allocated
  BY DEF IInv, LeftToDo, Left
<1>9. D \cap Labels(g'.code) = {}
  BY <1>1, <1>5, <1>7, <1>8
<1>10. c \in Nat /\ m \in Nat
  BY WeightIs
<1>11. Len(switches') = c + (Len(switches) - Weight(Head(todo), Closers))
       /\ Len(loops') = m + (Len(loops) - Weight(Head(todo), Loopers))
  <2>1. Len(switches) \in Nat /\ Len(loops) \in Nat
    BY DEF IInv, ListsRight, IsSeq
  <2> QED BY <1>1, <1>10, <2>1
<1>12. Made(g') /\ ListsRight'
  BY <1>1 DEF IInv, ListsRight
<1> QED BY <1>1, <1>2, <1>4, <1>7, <1>9, <1>10, <1>11, <1>12, StepInv

(* Code is emitted, for the first item; nothing comes in its place.        *)
LEMMA Emitting ==
    ASSUME IInv, todo # <<>>, Goes(<<>>), UNCHANGED <<prog, loops, switches, named>>,
           Made(g'), Labels(g'.code) \subseteq Labels(g.code) \cup Defines(Head(todo)),
           Head(todo).do \notin Loopers,
           FrameRight', frame'.lastlab = frame.lastlab, frame'.switched = frame.switched
    PROVE  IInv'
<1>1. NamesRight' /\ NamedLabels(named)' = NamedLabels(named)
  BY NamesSame DEF IInv
<1>2. Allocated' = Allocated
  BY <1>1 DEF Allocated
<1>3. Weight(Head(todo), Closers) = 0 /\ Weight(Head(todo), Loopers) = 0
  BY DEF Weight, Loopers
<1>4. Len(switches') = 0 + (Len(switches) - Weight(Head(todo), Closers))
      /\ Len(loops') = 0 + (Len(loops) - Weight(Head(todo), Loopers))
  <2>1. Len(switches) \in Nat /\ Len(loops) \in Nat
    BY DEF IInv, ListsRight, IsSeq
  <2> QED BY <1>3, <2>1
<1>5. ListsRight'
  BY DEF IInv, ListsRight
<1> DEFINE items == <<>>
           D == {}
           c == 0
<1>6. Has(items, D, c, c) /\ c \in Nat /\ Goes(items)
  BY HasNone
<1>7. D \subseteq Allocated' /\ D \cap Allocated \subseteq Defines(Head(todo)) /\ D \cap Labels(g'.code) = {}
  OBVIOUS
<1> HIDE DEF items, D
<1> QED BY <1>1, <1>2, <1>4, <1>5, <1>6, <1>7, StepInv

-----------------------------------------------------------------------------
(* The items that actions put in the place of the first.                   *)
Kind(x, D, c, l) == IsItem(x) /\ Defines(x) = D /\ Weight(x, Closers) = c /\ Weight(x, Loopers) = l
Mute(x) == Kind(x, {}, 0, 0)
MuteSeq(s) == IsSeq(s) /\ \A i \in DOMAIN s : Mute(s[i])

LEMMA KindCode ==
    ASSUME NEW i, Plain(i)
    PROVE  Mute(Code(i))
<1> DEFINE x == Code(i)
<1>1. x.do = "code" /\ x.code = i
  BY DEF Code
<1> HIDE DEF x
<1>2. Mute(x)
  BY <1>1 DEF Mute, Kind, IsItem, Defines, Weight, Closers, Loopers
<1> QED BY <1>2 DEF x

LEMMA KindBranch ==
    ASSUME NEW cond, NEW l, l # 0
    PROVE  Mute(LBranch(cond, l)) /\ Mute(Jump(l))
<1>1. ASSUME NEW x, x.do = "branch", x.label = l PROVE Mute(x)
  BY <1>1 DEF Mute, Kind, IsItem, Defines, Weight, Closers, Loopers
<1>2. LBranch(cond, l).do = "branch" /\ LBranch(cond, l).label = l /\ Jump(l).do = "branch" /\ Jump(l).label = l
  BY DEF LBranch, Jump
<1> QED BY <1>1, <1>2

LEMMA KindCond ==
    ASSUME NEW x, NEW true, true # 0, NEW false, false # 0, NEW nojump
    PROVE  Mute(Cond(x, true, false, nojump))
<1> DEFINE y == Cond(x, true, false, nojump)
<1>1. y.do = "cond" /\ y.true = true /\ y.false = false
  BY DEF Cond
<1> HIDE DEF y
<1>2. Mute(y)
  BY <1>1 DEF Mute, Kind, IsItem, Defines, Weight, Closers, Loopers
<1> QED BY <1>2 DEF y

\* Items that have no labels, and no part in lists.
Silent == {"statement", "reslocals", "block", "at", "modstk"}
LEMMA KindSilent ==
    ASSUME NEW x, x.do \in Silent
    PROVE  Mute(x)
BY DEF Silent, Mute, Kind, IsItem, Defines, Weight, Closers, Loopers

LEMMA KindCases ==
    ASSUME NEW x, x.do = "cases", DOMAIN x = {"do", "cases", "base", "dfault", "low"},
           IsCases(x.cases), x.dfault # 0
    PROVE  Mute(x)
BY DEF Mute, Kind, IsItem, Defines, Weight, Closers, Loopers

LEMMA KindState == Mute(State)
<1>1. State.do \in Silent
  BY DEF State, Silent
<1> QED BY <1>1, KindSilent

LEMMA KindLabel ==
    ASSUME NEW l
    PROVE  Kind(LabelOf(l), {l}, 0, 0)
<1> DEFINE x == LabelOf(l)
<1>1. x.do = "label" /\ x.label = l
  BY DEF LabelOf
<1> HIDE DEF x
<1>2. Kind(x, {l}, 0, 0)
  BY <1>1 DEF Kind, IsItem, Defines, Weight, Closers, Loopers
<1> QED BY <1>2 DEF x

LEMMA KindEnd ==
    ASSUME NEW l
    PROVE  Kind(End("else", l), {l}, 0, 0) /\ Kind(End("fi", l), {l}, 0, 0) /\ Kind(End("loop", l), {l}, 0, 1)
<1>1. ASSUME NEW x, x.do \in {"else", "fi"}, x.brk = l PROVE Kind(x, {l}, 0, 0)
  BY <1>1 DEF Kind, IsItem, Defines, Weight, Closers, Loopers
<1>2. ASSUME NEW x, x.do = "loop", x.brk = l PROVE Kind(x, {l}, 0, 1)
  BY <1>2 DEF Kind, IsItem, Defines, Weight, Closers, Loopers
<1>3. /\ End("else", l).do = "else" /\ End("fi", l).do = "fi" /\ End("loop", l).do = "loop"
      /\ End("else", l).brk = l /\ End("fi", l).brk = l /\ End("loop", l).brk = l
  BY DEF End
<1> QED BY <1>1, <1>2, <1>3

LEMMA KindDoWhile ==
    ASSUME NEW x, x.do = "do while", x.again # 0
    PROVE  Kind(x, {x.brk}, 0, 1)
BY DEF Kind, IsItem, Defines, Weight, Closers, Loopers

LEMMA KindDecide ==
    ASSUME NEW x, x.do = "decide", x.brk # x.decide
    PROVE  Kind(x, {x.brk, x.decide}, 1, 1)
BY DEF Kind, IsItem, Defines, Weight, Closers, Loopers

LEMMA KindEndSwitch ==
    ASSUME NEW x, x.do = "end switch"
    PROVE  Kind(x, {}, 1, 1)
BY DEF Kind, IsItem, Defines, Weight, Closers, Loopers

(* Sequences of them.                                                      *)
LEMMA MuteHas ==
    ASSUME NEW s, MuteSeq(s)
    PROVE  Has(s, {}, 0, 0)
<1>1. IsSeq(s) /\ \A i \in DOMAIN s : IsItem(s[i]) /\ Defines(s[i]) = {} /\ s[i].do \notin Loopers
  BY DEF MuteSeq, Mute, Kind, Weight
<1> QED BY <1>1, HasMute

LEMMA MuteNone == MuteSeq(<<>>)
<1> DEFINE s == <<>>
<1>1. s \in Seq({}) /\ DOMAIN s = {}
  OBVIOUS
<1> HIDE DEF s
<1>2. MuteSeq(s)
  BY <1>1, SeqIs DEF MuteSeq
<1> QED BY <1>2 DEF s

LEMMA MuteOne ==
    ASSUME NEW x, Mute(x)
    PROVE  MuteSeq(<<x>>)
<1> DEFINE s == <<x>>
<1>1. IsSeq(s) /\ DOMAIN s = {1} /\ s[1] = x
  BY OneSeq
<1> HIDE DEF s
<1>2. MuteSeq(s)
  BY <1>1 DEF MuteSeq
<1> QED BY <1>2 DEF s

LEMMA MuteConcat ==
    ASSUME NEW a, MuteSeq(a), NEW b, MuteSeq(b)
    PROVE  MuteSeq(a \o b)
<1> DEFINE s == a \o b
<1>1. IsSeq(a) /\ IsSeq(b)
  BY DEF MuteSeq
<1>2. IsSeq(s)
  BY <1>1, ConcatSeq
<1>3. ASSUME NEW i \in DOMAIN s PROVE Mute(s[i])
  <2>1. \/ i \in DOMAIN a /\ s[i] = a[i]
        \/ i - Len(a) \in DOMAIN b /\ s[i] = b[i - Len(a)] /\ i \notin DOMAIN a
    BY <1>1, ConcatIndex
  <2> HIDE DEF s
  <2> QED BY <2>1 DEF MuteSeq
<1> QED BY <1>2, <1>3 DEF MuteSeq

LEMMA MuteTwo ==
    ASSUME NEW x, Mute(x), NEW y, Mute(y)
    PROVE  MuteSeq(<<x, y>>)
<1> DEFINE s == <<x, y>>
<1>1. s \in Seq({x, y}) /\ Len(s) = 2 /\ s[1] = x /\ s[2] = y
  OBVIOUS
<1> HIDE DEF s
<1>2. IsSeq(s) /\ DOMAIN s = 1 .. 2
  BY <1>1, SeqIs
<1>3. MuteSeq(s)
  <2>1. \A i \in DOMAIN s : i = 1 \/ i = 2
    BY <1>2
  <2> QED BY <1>1, <1>2, <2>1 DEF MuteSeq
<1> QED BY <1>3 DEF s

IsPlain(is) == IsSeq(is) /\ \A i \in DOMAIN is : Plain(is[i])

LEMMA MuteCodes ==
    ASSUME NEW is, IsPlain(is)
    PROVE  MuteSeq(Codes(is))
<1> DEFINE s == Codes(is)
<1>1. IsSeq(is) /\ Len(is) \in Nat /\ DOMAIN is = 1 .. Len(is)
  BY DEF IsPlain, IsSeq
<1>2. s = [i \in 1 .. Len(is) |-> Code(is[i])]
  BY <1>1 DEF Codes
<1> HIDE DEF s
<1>3. s \in Seq({Code(is[i]) : i \in 1 .. Len(is)})
  BY <1>1, <1>2
<1>4. IsSeq(s)
  BY <1>3, SeqIs
<1>5. \A i \in DOMAIN s : s[i] = Code(is[i]) /\ i \in DOMAIN is
  BY <1>1, <1>2
<1>6. \A i \in DOMAIN s : Mute(s[i])
  BY <1>5, KindCode DEF IsPlain
<1> QED BY <1>4, <1>6 DEF MuteSeq, s

LEMMA KindHas ==
    ASSUME NEW x, NEW D, NEW c, NEW l, Kind(x, D, c, l)
    PROVE  Has(<<x>>, D, c, l)
BY HasOne DEF Kind

\* As HasTwo, when the weights are known; two at a time are enough.
LEMMA KindTwo ==
    ASSUME NEW x, NEW D, NEW c, NEW l, Kind(x, D, c, l),
           NEW y, NEW E, NEW d, NEW m, Kind(y, E, d, m), D \cap E = {}
    PROVE  Has(<<x, y>>, D \cup E, c + d, l + m)
BY HasTwo DEF Kind

(* Instructions that are neither labels nor branches.                      *)
LEMMA PlainIs ==
    /\ \A at, id : \A size \in Nat : Plain(Eval(at, id, size))
    /\ \A n, plus, minus : Plain(AddSp(n, plus, minus))
    /\ \A n : Plain(SetSp(n)) /\ Plain([op |-> "frame", n |-> n, size |-> 4])
    /\ Plain([op |-> "ret", size |-> 3])
<1>1. \A at, id : \A size \in Nat : Plain(Eval(at, id, size))
  BY DEF Plain, Eval
<1>2. \A n, plus, minus : Plain(AddSp(n, plus, minus))
  BY DEF Plain, AddSp
<1>3. \A n : Plain(SetSp(n)) /\ Plain([op |-> "frame", n |-> n, size |-> 4])
  BY DEF Plain, SetSp
<1>4. Plain([op |-> "ret", size |-> 3])
  BY DEF Plain
<1> QED BY <1>1, <1>2, <1>3, <1>4

LEMMA PlainNone == IsPlain(<<>>)
<1> DEFINE s == <<>>
<1>1. s \in Seq({}) /\ DOMAIN s = {}
  OBVIOUS
<1> HIDE DEF s
<1>2. IsPlain(s)
  BY <1>1, SeqIs DEF IsPlain
<1> QED BY <1>2 DEF s

LEMMA PlainOne ==
    ASSUME NEW x, Plain(x)
    PROVE  IsPlain(<<x>>)
<1> DEFINE s == <<x>>
<1>1. IsSeq(s) /\ DOMAIN s = {1} /\ s[1] = x
  BY OneSeq
<1> HIDE DEF s
<1>2. IsPlain(s)
  BY <1>1 DEF IsPlain
<1> QED BY <1>2 DEF s

LEMMA PlainConcat ==
    ASSUME NEW a, IsPlain(a), NEW b, IsPlain(b)
    PROVE  IsPlain(a \o b)
<1> DEFINE s == a \o b
<1>1. IsSeq(a) /\ IsSeq(b)
  BY DEF IsPlain
<1>2. IsSeq(s)
  BY <1>1, ConcatSeq
<1>3. ASSUME NEW i \in DOMAIN s PROVE Plain(s[i])
  <2>1. \/ i \in DOMAIN a /\ s[i] = a[i]
        \/ i - Len(a) \in DOMAIN b /\ s[i] = b[i - Len(a)] /\ i \notin DOMAIN a
    BY <1>1, ConcatIndex
  <2> HIDE DEF s
  <2> QED BY <2>1 DEF IsPlain
<1> QED BY <1>2, <1>3 DEF IsPlain

LEMMA PlainModstk ==
    ASSUME NEW sp, NEW newsp
    PROVE  IsPlain(modstk(sp, newsp))
<1>1. IsPlain(<<>>) /\ IsPlain(<<SetSp(newsp)>>) /\ IsPlain(<<AddSp(newsp - sp, 0, 0)>>)
  BY PlainNone, PlainOne, PlainIs
<1> QED BY <1>1 DEF modstk

LEMMA PlainRet == IsPlain(ret)
<1> DEFINE r == <<[op |-> "ret", size |-> 3]>>
           newsp == -func1saveregsize
<1>1. IsPlain(r) /\ IsPlain(<<>>) /\ IsPlain(<<SetSp(newsp)>>) /\ IsPlain(modstk(frame.sp, newsp))
  BY PlainNone, PlainOne, PlainIs, PlainModstk
<1> HIDE DEF r
<1>2. IsPlain(<<>> \o r) /\ IsPlain(<<SetSp(newsp)>> \o r) /\ IsPlain(modstk(frame.sp, newsp) \o r)
  BY <1>1, PlainConcat
<1> HIDE DEF newsp
<1> DEFINE absolute == InSwitch \/ newsp - frame.sp >= 128
           a == IF ~frame.framed THEN <<>>
                ELSE IF absolute THEN IF newsp # frame.sp \/ InSwitch THEN <<SetSp(newsp)>> ELSE <<>>
                ELSE modstk(frame.sp, newsp)
<1>3. a = <<>> \/ a = <<SetSp(newsp)>> \/ a = modstk(frame.sp, newsp)
  OBVIOUS
<1>4. ret = a \o r
  BY DEF ret, r, newsp
<1> HIDE DEF a
<1>5. IsPlain(a \o r)
  BY <1>2, <1>3
<1> QED BY <1>4, <1>5

(* Changes of the frame that take no labels, and those that do.            *)
Fields == {"sp", "softsp", "lowsp", "framed", "returnflag", "lastlab", "swstacklab", "switched", "test"}
Takes(f, n) == DOMAIN f = Fields /\ f.lastlab = frame.lastlab + n /\ f.switched = frame.switched

LEMMA FrameKept ==
    ASSUME FrameRight, NEW n \in Nat, Takes(frame', n)
    PROVE  /\ FrameRight' /\ frame'.lastlab = frame.lastlab + n /\ frame'.lastlab >= frame.lastlab
           /\ frame'.switched = frame.switched /\ frame.lastlab \in Nat /\ frame'.lastlab \in Nat
<1>1. DOMAIN frame' = {"sp", "softsp", "lowsp", "framed", "returnflag", "lastlab", "swstacklab", "switched", "test"}
  BY DEF Takes, Fields
<1>2. /\ frame.lastlab \in Nat /\ frame.switched \in Nat
      /\ frame'.lastlab = frame.lastlab + n /\ frame'.switched = frame.switched
  BY DEF Takes, FrameRight
<1> QED BY <1>1, <1>2 DEF FrameRight

LEMMA FrameTakes ==
    ASSUME FrameRight
    PROVE  /\ Takes(frame, 0) /\ Takes(Effective(frame), 0)
           /\ \A n \in Nat : Takes(Reserve(n), n) /\ \A v : Takes([Reserve(n) EXCEPT !.test = v], n)
           /\ \A v : /\ Takes([frame EXCEPT !.sp = v], 0) /\ Takes([frame EXCEPT !.test = v], 0)
                     /\ Takes([frame EXCEPT !.returnflag = v], 0)
                     /\ Takes(Effective([frame EXCEPT !.softsp = @ - v]), 0)
                     /\ \A w : Takes([frame EXCEPT !.sp = v, !.framed = w], 0)
                               /\ Takes([frame EXCEPT !.lowsp = v, !.sp = w], 0)
                               /\ \A x : Takes([frame EXCEPT !.sp = v, !.softsp = w, !.framed = x], 0)
<1>1. DOMAIN frame = Fields /\ frame.lastlab \in Nat
  BY DEF FrameRight, Fields
<1>2. Takes(frame, 0) /\ Takes(Effective(frame), 0)
  BY <1>1 DEF Takes, Effective, Fields
<1>3. ASSUME NEW n \in Nat PROVE Takes(Reserve(n), n) /\ \A v : Takes([Reserve(n) EXCEPT !.test = v], n)
  <2> DEFINE r == Reserve(n)
  <2>1. Takes(r, n)
    BY <1>1 DEF Takes, Reserve, Fields
  <2> HIDE DEF r
  <2>2. \A v : Takes([r EXCEPT !.test = v], n)
    BY <2>1 DEF Takes, Fields
  <2> QED BY <2>1, <2>2 DEF r
<1>4. ASSUME NEW v
      PROVE  /\ Takes([frame EXCEPT !.sp = v], 0) /\ Takes([frame EXCEPT !.test = v], 0)
             /\ Takes([frame EXCEPT !.returnflag = v], 0)
             /\ Takes(Effective([frame EXCEPT !.softsp = @ - v]), 0)
  BY <1>1 DEF Takes, Effective, Fields
<1>5. ASSUME NEW v, NEW w
      PROVE  /\ Takes([frame EXCEPT !.sp = v, !.framed = w], 0) /\ Takes([frame EXCEPT !.lowsp = v, !.sp = w], 0)
             /\ \A x : Takes([frame EXCEPT !.sp = v, !.softsp = w, !.framed = x], 0)
  BY <1>1 DEF Takes, Fields
<1> QED BY <1>2, <1>3, <1>4, <1>5

(* The compiler starts.                                                    *)
LEMMA InitInv ==
    ASSUME InitCompiler
    PROVE  IInv
<1>1. Made(g)
  <2>1. g = NoCode
    BY DEF InitCompiler
  <2> DEFINE h == NoCode
             c == h.code
  <2>2. /\ DOMAIN h = {"code", "lc", "vis", "next"} /\ c = <<>> /\ h.lc = 0 /\ h.next = 0
        /\ h.vis = [i \in 0 .. MAXVISLAB - 1 |-> Free]
    BY DEF NoCode
  <2> HIDE DEF h
  <2>3. IsTable(h)
    <3>1. 0 \in Slots
      BY LabelAssumption DEF Slots
    <3>2. Free.lablc = 0 /\ Free.labpatch = 0
      BY DEF Free
    <3> QED BY <2>2, <3>1, <3>2 DEF IsTable, Slots
  <2>4. IsSeq(c) /\ DOMAIN c = {} /\ Len(c) = 0
    BY <2>2, MuteNone DEF MuteSeq
  <2>5. IsCode(c)
    BY <2>4 DEF IsCode
  <2>6. Ends(c)[Len(c)] = 0
    BY <2>4, <2>5, EndsSteps
  <2>7. Unique(c) /\ Targets(c) /\ ShortReach(c)
    BY <2>4 DEF Unique, Targets, ShortReach
  <2>8. \A k \in Slots : ~Live(h, k)
    <3>1. Free.labnum = 0
      BY DEF Free
    <3>2. \A k \in Slots : h.vis[k] = Free
      BY <2>2 DEF Slots
    <3> QED BY <3>1, <3>2 DEF Live
  <2>9. Made(h)
    BY <2>2, <2>3, <2>5, <2>6, <2>7, <2>8 DEF Made, Ordered
  <2> QED BY <2>1, <2>9 DEF h
<1>2. LeftToDo
  <2>1. MuteSeq(todo)
    BY KindState, MuteOne DEF InitCompiler
  <2>2. Has(todo, {}, 0, 0)
    BY <2>1, MuteHas
  <2>3. Labels(g.code) = {}
    BY DEF InitCompiler, NoCode, Labels
  <2>4. Len(switches) = 0 /\ Len(loops) = 0
    BY DEF InitCompiler
  <2> QED BY <2>2, <2>3, <2>4 DEF LeftToDo, Left, Has
<1>3. NamesRight
  BY DEF InitCompiler, NamesRight
<1>4. FrameRight
  BY DEF InitCompiler, FrameRight
<1>5. ListsRight
  <2>1. IsSeq(<<>>)
    BY MuteNone DEF MuteSeq
  <2> QED BY <2>1 DEF InitCompiler, ListsRight
<1> QED BY <1>1, <1>2, <1>3, <1>4, <1>5 DEF IInv, InitCompiler

-----------------------------------------------------------------------------
(* The actions.  First those that only read a statement, or what is left   *)
(* of one, and put items in its place.                                     *)
LEMMA SyntaxTakes ==
    ASSUME IInv, todo # <<>>, NEW items, Goes(items), SyntaxOnly, NEW n \in Nat, Takes(frame', n),
           NEW D, NEW c, NEW m, Has(items, D, c, m),
           c = Weight(Head(todo), Closers), m = Weight(Head(todo), Loopers),
           D \subseteq (frame.lastlab + 1 .. frame.lastlab + n) \cup Defines(Head(todo))
    PROVE  IInv'
<1>1. /\ FrameRight' /\ frame'.lastlab = frame.lastlab + n /\ frame'.lastlab >= frame.lastlab
      /\ frame'.switched = frame.switched
  BY FrameKept DEF IInv
<1>2. D \subseteq (frame.lastlab + 1 .. frame'.lastlab) \cup Defines(Head(todo))
  BY <1>1
<1> QED BY <1>1, <1>2, Syntax

LEMMA HeadWeights ==
    ASSUME Head(todo).do \notin Loopers
    PROVE  Weight(Head(todo), Closers) = 0 /\ Weight(Head(todo), Loopers) = 0
BY DEF Weight, Loopers

LEMMA SyntaxMute ==
    ASSUME IInv, todo # <<>>, NEW items, Goes(items), SyntaxOnly, NEW n \in Nat, Takes(frame', n),
           MuteSeq(items), Head(todo).do \notin Loopers
    PROVE  IInv'
<1>1. Has(items, {}, 0, 0)
  BY MuteHas
<1>2. 0 = Weight(Head(todo), Closers) /\ 0 = Weight(Head(todo), Loopers)
  BY HeadWeights
<1> QED BY <1>1, <1>2, SyntaxTakes

LEMMA SyntaxSilent ==
    ASSUME IInv, todo # <<>>, NEW items, Goes(items), SyntaxOnly, NEW n \in Nat, Takes(frame', n),
           NEW D, Has(items, D, 0, 0), Head(todo).do \notin Loopers,
           D \subseteq (frame.lastlab + 1 .. frame.lastlab + n) \cup Defines(Head(todo))
    PROVE  IInv'
<1>1. 0 = Weight(Head(todo), Closers) /\ 0 = Weight(Head(todo), Loopers)
  BY HeadWeights
<1> QED BY <1>1, SyntaxTakes

LEMMA StatementIs ==
    ASSUME IInv, NEW t, Statement(t)
    PROVE  /\ todo # <<>> /\ Head(todo).do = "statement" /\ Head(todo).do \notin Loopers /\ Defines(Head(todo)) = {}
           /\ Weight(Head(todo), Closers) = 0 /\ Weight(Head(todo), Loopers) = 0
           /\ prog \in Programs /\ next \in DOMAIN prog.tokens /\ prog.tokens[next].t = t
<1>1. todo # <<>> /\ Head(todo).do = "statement" /\ next \in DOMAIN prog.tokens /\ prog.tokens[next].t = t
  BY DEF Statement, Item, Sym
<1>2. Head(todo).do \notin Loopers /\ Defines(Head(todo)) = {}
  BY <1>1 DEF Loopers, Closers, Defines
<1> QED BY <1>1, <1>2, HeadWeights DEF IInv

LEMMA ExprSize ==
    ASSUME IInv, Statement("expr")
    PROVE  Sym.n \in Nat
BY StatementIs, ProgramsAssumption DEF Sym

LEMMA CompoundInv ==
    ASSUME IInv, Compound
    PROVE  IInv'
<1> DEFINE a == IF prog.tokens[next + 1].t = "}" THEN <<>> ELSE <<[do |-> "reslocals"]>>
           b == <<[do |-> "block", sp |-> frame.sp, softsp |-> frame.softsp]>>
<1>1. Goes(a \o b) /\ SyntaxOnly /\ Statement("{")
  BY DEF Compound
<1>2. todo # <<>> /\ Head(todo).do \notin Loopers
  BY <1>1, StatementIs
<1>3. MuteSeq(a)
  <2> DEFINE x == [do |-> "reslocals"]
  <2>1. x.do \in Silent
    BY DEF Silent
  <2> HIDE DEF x
  <2>2. MuteSeq(<<x>>)
    BY <2>1, KindSilent, MuteOne
  <2> QED BY <2>2, MuteNone DEF x
<1>4. MuteSeq(b)
  <2> DEFINE x == [do |-> "block", sp |-> frame.sp, softsp |-> frame.softsp]
  <2>1. x.do \in Silent
    BY DEF Silent
  <2> HIDE DEF x
  <2>2. MuteSeq(<<x>>)
    BY <2>1, KindSilent, MuteOne
  <2> QED BY <2>2 DEF x
<1> HIDE DEF a, b
<1>5. MuteSeq(a \o b)
  BY <1>3, <1>4, MuteConcat
<1>6. Takes(frame', 0)
  <2>1. frame' = Effective([frame EXCEPT !.softsp = @ - Sym.n])
    BY DEF Compound
  <2> QED BY <2>1, FrameTakes DEF IInv
<1> QED BY <1>1, <1>2, <1>5, <1>6, SyntaxMute

LEMMA InBlockInv ==
    ASSUME IInv, InBlock
    PROVE  IInv'
<1> DEFINE h == Head(todo)
           t == Tail(todo)
           a == <<State>>
           b == <<h>>
<1>1. todo # <<>> /\ h.do = "block" /\ SyntaxOnly /\ frame' = frame /\ todo' = <<State>> \o todo
  BY DEF InBlock, Item
<1>2. IsSeq(todo)
  BY DEF IInv, LeftToDo, Left, Good
<1>3. IsSeq(t) /\ todo = b \o t
  BY <1>1, <1>2, TailSeq
<1>4. MuteSeq(a) /\ MuteSeq(b)
  <2>1. h.do \in Silent
    BY <1>1 DEF Silent
  <2> QED BY <2>1, KindSilent, KindState, MuteOne
<1>5. IsSeq(a) /\ IsSeq(b)
  BY <1>4 DEF MuteSeq
<1>6. a \o (b \o t) = (a \o b) \o t
  <2> HIDE DEF a, b, t
  <2> DEFINE S == {a[i] : i \in DOMAIN a} \cup {b[i] : i \in DOMAIN b} \cup {t[i] : i \in DOMAIN t}
  <2>1. a \in Seq(S) /\ b \in Seq(S) /\ t \in Seq(S)
    <3>1. a \in Seq({a[i] : i \in DOMAIN a}) /\ b \in Seq({b[i] : i \in DOMAIN b}) /\ t \in Seq({t[i] : i \in DOMAIN t})
      BY <1>3, <1>5 DEF IsSeq
    <3> QED BY <3>1, SeqMonotonic
  <2> HIDE DEF S
  <2> QED BY <2>1, ConcatAssociative
<1>7. Goes(a \o b)
  <2>1. todo' = a \o todo
    BY <1>1
  <2> QED BY <1>3, <1>6, <2>1 DEF Goes, t
<1>8. MuteSeq(a \o b)
  BY <1>4, MuteConcat
<1>9. Takes(frame', 0)
  BY <1>1, FrameTakes DEF IInv
<1>10. Head(todo).do \notin Loopers
  BY <1>1 DEF Loopers, Closers
<1> HIDE DEF a, b
<1> QED BY <1>1, <1>7, <1>8, <1>9, <1>10, SyntaxMute

LEMMA ExprStatementInv ==
    ASSUME IInv, ExprStatement
    PROVE  IInv'
<1> DEFINE i == Eval(next, "do", Sym.n)
           items == <<Code(i)>>
<1>1. Statement("expr") /\ Goes(items) /\ SyntaxOnly /\ frame' = Effective(frame)
  BY DEF ExprStatement
<1>2. todo # <<>> /\ Head(todo).do \notin Loopers
  BY <1>1, StatementIs
<1>3. Plain(i)
  BY <1>1, ExprSize, PlainIs
<1> HIDE DEF i
<1>4. MuteSeq(items)
  BY <1>3, KindCode, MuteOne
<1>5. Takes(frame', 0)
  BY <1>1, FrameTakes DEF IInv
<1> HIDE DEF items
<1> QED BY <1>1, <1>2, <1>4, <1>5, SyntaxMute

LEMMA NullStatementInv ==
    ASSUME IInv, NullStatement
    PROVE  IInv'
<1>1. Statement(";") /\ Goes(<<>>) /\ SyntaxOnly /\ frame' = frame
  BY DEF NullStatement
<1>2. todo # <<>> /\ Head(todo).do \notin Loopers
  BY <1>1, StatementIs
<1>3. Takes(frame', 0)
  BY <1>1, FrameTakes DEF IInv
<1> QED BY <1>1, <1>2, <1>3, MuteNone, SyntaxMute

LEMMA LoopIs ==
    ASSUME IInv, loops # <<>>
    PROVE  /\ IsSeq(loops) /\ Len(loops) \in Nat /\ Len(loops) > 0 /\ DOMAIN loops = 1 .. Len(loops)
           /\ Head(loops).breaklab # 0
<1>1. IsSeq(loops) /\ \A i \in DOMAIN loops : loops[i].breaklab # 0
  BY DEF IInv, ListsRight
<1>2. 1 \in DOMAIN loops /\ Head(loops) = loops[1]
  BY <1>1, TailSeq
<1>3. Len(loops) \in Nat /\ DOMAIN loops = 1 .. Len(loops)
  BY <1>1 DEF IsSeq
<1> QED BY <1>1, <1>2, <1>3

LEMMA dobreakInv ==
    ASSUME IInv, dobreak
    PROVE  IInv'
<1> DEFINE is == IF InSwitch THEN <<>> ELSE modstk(frame.sp, Head(loops).spmark)
           j == <<Jump(Head(loops).breaklab)>>
           items == Codes(is) \o j
<1>1. Statement("break") /\ Goes(items) /\ SyntaxOnly /\ frame' = Effective(frame) /\ loops # <<>>
  BY DEF dobreak
<1>2. todo # <<>> /\ Head(todo).do \notin Loopers
  BY <1>1, StatementIs
<1>3. IsPlain(is)
  BY PlainNone, PlainModstk
<1>4. MuteSeq(j)
  BY <1>1, LoopIs, KindBranch, MuteOne
<1> HIDE DEF is, j
<1>5. MuteSeq(items)
  BY <1>3, <1>4, MuteCodes, MuteConcat
<1>6. Takes(frame', 0)
  BY <1>1, FrameTakes DEF IInv
<1> HIDE DEF items
<1> QED BY <1>1, <1>2, <1>5, <1>6, SyntaxMute

LEMMA docontInv ==
    ASSUME IInv, docont
    PROVE  IInv'
<1> DEFINE loop == loops[ContLoop]
           is == IF ~InSwitch THEN modstk(frame.sp, loop.spmark) ELSE LeavingSwitches(loop)
           j == <<Jump(loop.contlab)>>
           items == Codes(is) \o j
<1>1. Statement("continue") /\ SyntaxOnly /\ frame' = Effective(frame) /\ Goes(items)
      /\ \E i \in DOMAIN loops : loops[i].contlab # 0
  BY DEF docont
<1>2. todo # <<>> /\ Head(todo).do \notin Loopers
  BY <1>1, StatementIs
<1>3. loop.contlab # 0
  <2> DEFINE S == {i \in DOMAIN loops : loops[i].contlab # 0}
             Q(i) == loops[i].contlab # 0 /\ \A k \in 1 .. i - 1 : loops[k].contlab = 0
  <2>1. S \subseteq Nat /\ S # {} /\ DOMAIN loops = 1 .. Len(loops) /\ Len(loops) \in Nat
    BY <1>1 DEF IInv, ListsRight, IsSeq
  <2>2. PICK i \in S : \A k \in S : i <= k
    BY <2>1, LeastOf
  <2>3. \A k \in 1 .. i - 1 : k \in DOMAIN loops /\ ~(i <= k)
    BY <2>1, <2>2
  <2>4. i \in DOMAIN loops /\ Q(i)
    BY <2>2, <2>3
  <2>5. ContLoop = CHOOSE k \in DOMAIN loops : Q(k)
    BY DEF ContLoop
  <2> HIDE DEF Q
  <2>6. Q(ContLoop)
    BY <2>4, <2>5
  <2> QED BY <2>6 DEF Q
<1>4. IsPlain(is)
  <2>1. IsPlain(LeavingSwitches(loop))
    <3>1. IsPlain(<<AddSp(loop.spmark, 0, frame.swstacklab)>>)
      BY PlainIs, PlainOne
    <3> QED BY <3>1, PlainNone DEF LeavingSwitches
  <2> HIDE DEF loop
  <2> QED BY <2>1, PlainModstk
<1>5. MuteSeq(j)
  BY <1>3, KindBranch, MuteOne
<1> HIDE DEF is, j, loop
<1>6. MuteSeq(items)
  BY <1>4, <1>5, MuteCodes, MuteConcat
<1>7. Takes(frame', 0)
  BY <1>1, FrameTakes DEF IInv
<1> HIDE DEF items
<1> QED BY <1>1, <1>2, <1>6, <1>7, SyntaxMute

\* A condition, with a label that it defines behind it.
LEMMA HasCondition ==
    ASSUME NEW x, NEW true, true # 0, NEW false, false # 0, NEW nojump, NEW l
    PROVE  Has(<<Cond(x, true, false, nojump), LabelOf(l)>>, {l}, 0, 0)
<1> DEFINE a == Cond(x, true, false, nojump)
           b == LabelOf(l)
<1>1. Kind(a, {}, 0, 0) /\ Kind(b, {l}, 0, 0)
  BY KindCond, KindLabel DEF Mute
<1> HIDE DEF a, b
<1>2. Has(<<a, b>>, {} \cup {l}, 0 + 0, 0 + 0)
  BY <1>1, KindTwo
<1> QED BY <1>2 DEF a, b

LEMMA HasJumps ==
    ASSUME NEW x, NEW l, l # 0, NEW k, k # 0
    PROVE  Has(jumptrue(x, l, k), {k}, 0, 0) /\ Has(jumpfalse(x, l, k), {k}, 0, 0)
BY HasCondition DEF jumptrue, jumpfalse

LEMMA NewLabel ==
    ASSUME IInv, NEW n \in Nat \ {0}
    PROVE  getlabel(n) # 0 /\ getlabel(n) \in Nat /\ getlabel(n) = frame.lastlab + n /\ frame.lastlab \in Nat
BY DEF IInv, FrameRight, getlabel

LEMMA doifInv ==
    ASSUME IInv, doif
    PROVE  IInv'
<1> DEFINE l1 == getlabel(1)
           l2 == getlabel(2)
           a == jumpfalse(Sym.x, l1, l2)
           b == <<State, End("else", l1)>>
           items == a \o b
<1>1. Statement("if") /\ Goes(items) /\ SyntaxOnly /\ frame' = [Reserve(2) EXCEPT !.test = next]
  BY DEF doif
<1>2. todo # <<>> /\ Head(todo).do \notin Loopers
  BY <1>1, StatementIs
<1>3. l1 # 0 /\ l2 # 0 /\ l1 = frame.lastlab + 1 /\ l2 = frame.lastlab + 2 /\ frame.lastlab \in Nat
  BY NewLabel
<1> HIDE DEF l1, l2
<1>4. Has(a, {l2}, 0, 0)
  BY <1>3, HasJumps
<1>5. Has(b, {l1}, 0, 0)
  <2> DEFINE x == State
             y == End("else", l1)
  <2>1. Kind(x, {}, 0, 0) /\ Kind(y, {l1}, 0, 0)
    BY KindState, KindEnd DEF Mute
  <2> HIDE DEF x, y
  <2>2. Has(<<x, y>>, {} \cup {l1}, 0 + 0, 0 + 0)
    BY <2>1, KindTwo
  <2> QED BY <2>2 DEF x, y
<1> HIDE DEF a, b
<1>6. {l2} \cap {l1} = {}
  BY <1>3
<1>7. Has(items, {l2} \cup {l1}, 0 + 0, 0 + 0)
  BY <1>4, <1>5, <1>6, HasConcat
<1>8. {l2} \cup {l1} \subseteq (frame.lastlab + 1 .. frame.lastlab + 2) \cup Defines(Head(todo))
  BY <1>3
<1>9. Takes(frame', 2)
  BY <1>1, FrameTakes DEF IInv
<1> HIDE DEF items
<1>10. Has(items, {l2} \cup {l1}, 0, 0)
  BY <1>7
<1> QED BY <1>1, <1>2, <1>8, <1>9, <1>10, SyntaxSilent

\* What has a label at its end.
LEMMA BrkIs ==
    ASSUME IInv, todo # <<>>, Head(todo).do \in {"else", "fi", "loop", "do while"}
    PROVE  Defines(Head(todo)) = {Head(todo).brk} /\ Head(todo).brk \in Int /\ Head(todo).brk # 0
           /\ Head(todo).brk <= frame.lastlab
<1>1. Defines(Head(todo)) = {Head(todo).brk}
  BY DEF Defines
<1>2. Head(todo).brk \in Allocated
  BY <1>1, HeadIs
<1>3. /\ Head(todo).brk \in Int /\ Head(todo).brk # 0 /\ Head(todo).brk <= frame.lastlab
  BY <1>2, AllocatedIs DEF IInv
<1> QED BY <1>1, <1>3

LEMMA ElseInv ==
    ASSUME IInv, Else
    PROVE  IInv'
<1> DEFINE l1 == getlabel(1)
           brk == Head(todo).brk
<1>1. todo # <<>> /\ Head(todo).do = "else" /\ SyntaxOnly
  BY DEF Else, Item
<1>2. Head(todo).do \notin Loopers /\ Defines(Head(todo)) = {brk} /\ brk \in Int /\ brk <= frame.lastlab
  BY <1>1, BrkIs DEF Loopers, Closers
<1>3. l1 # 0 /\ l1 = frame.lastlab + 1 /\ frame.lastlab \in Nat
  BY NewLabel
<1>4. CASE Sym.t = "else"
  <2> DEFINE a == <<Jump(l1), LabelOf(brk)>>
             b == <<State, End("fi", l1)>>
             items == <<Jump(l1), LabelOf(brk), State, End("fi", l1)>>
  <2>1. Goes(items) /\ frame' = Reserve(1)
    BY <1>4 DEF Else
  <2> HIDE DEF l1, brk
  <2> DEFINE x1 == Jump(l1)
             x2 == LabelOf(brk)
             x3 == State
             x4 == End("fi", l1)
  <2>2. Kind(x1, {}, 0, 0) /\ Kind(x2, {brk}, 0, 0) /\ Kind(x3, {}, 0, 0) /\ Kind(x4, {l1}, 0, 0)
    BY <1>3, KindBranch, KindLabel, KindState, KindEnd DEF Mute
  <2> HIDE DEF x1, x2, x3, x4
  <2>3. /\ IsItem(x1) /\ IsItem(x2) /\ IsItem(x3) /\ IsItem(x4)
        /\ Defines(x1) = {} /\ Defines(x2) = {brk} /\ Defines(x3) = {} /\ Defines(x4) = {l1}
        /\ Weight(x1, Closers) = 0 /\ Weight(x2, Closers) = 0 /\ Weight(x3, Closers) = 0 /\ Weight(x4, Closers) = 0
        /\ Weight(x1, Loopers) = 0 /\ Weight(x2, Loopers) = 0 /\ Weight(x3, Loopers) = 0 /\ Weight(x4, Loopers) = 0
    BY <2>2 DEF Kind
  <2>4. {brk} \cap {l1} = {}
    BY <1>2, <1>3
  <2> DEFINE four == <<x1, x2, x3, x4>>
             D == {brk, l1}
  <2>5. four = items
    BY DEF x1, x2, x3, x4
  <2> HIDE DEF a, b, items
  <2>6. /\ Defines(x1) \cap Defines(x2) = {} /\ Defines(x1) \cap Defines(x3) = {} /\ Defines(x1) \cap Defines(x4) = {}
        /\ Defines(x2) \cap Defines(x3) = {} /\ Defines(x2) \cap Defines(x4) = {} /\ Defines(x3) \cap Defines(x4) = {}
    BY <2>3, <2>4
  <2>7. Has(items, D, 0, 0)
    <3>1. Has(four, Defines(x1) \cup Defines(x2) \cup Defines(x3) \cup Defines(x4),
              Weight(x1, Closers) + Weight(x2, Closers) + Weight(x3, Closers) + Weight(x4, Closers),
              Weight(x1, Loopers) + Weight(x2, Loopers) + Weight(x3, Loopers) + Weight(x4, Loopers))
      BY <2>3, <2>6, HasFour
    <3>2. Defines(x1) \cup Defines(x2) \cup Defines(x3) \cup Defines(x4) = D
      BY <2>3
    <3>3. /\ Weight(x1, Closers) + Weight(x2, Closers) + Weight(x3, Closers) + Weight(x4, Closers) = 0
          /\ Weight(x1, Loopers) + Weight(x2, Loopers) + Weight(x3, Loopers) + Weight(x4, Loopers) = 0
      BY <2>3
    <3> HIDE DEF four, D
    <3> QED BY <2>5, <3>1, <3>2, <3>3
  <2> HIDE DEF D
  <2>8. D \subseteq (frame.lastlab + 1 .. frame.lastlab + 1) \cup Defines(Head(todo))
    BY <1>2, <1>3 DEF D
  <2>9. Takes(frame', 1)
    BY <2>1, FrameTakes DEF IInv
  <2> HIDE DEF items
  <2> QED BY <1>1, <1>2, <2>1, <2>7, <2>8, <2>9, SyntaxSilent
<1>5. CASE Sym.t # "else"
  <2> DEFINE items == <<End("fi", brk)>>
  <2>1. Goes(items) /\ frame' = frame
    BY <1>5 DEF Else
  <2>2. Has(items, {brk}, 0, 0)
    BY KindEnd, KindHas
  <2>3. {brk} \subseteq (frame.lastlab + 1 .. frame.lastlab + 0) \cup Defines(Head(todo))
    BY <1>2
  <2>4. Takes(frame', 0)
    BY <2>1, FrameTakes DEF IInv
  <2> HIDE DEF items, brk
  <2> QED BY <1>1, <1>2, <2>1, <2>2, <2>3, <2>4, SyntaxSilent
<1> QED BY <1>4, <1>5

LEMMA EndIfInv ==
    ASSUME IInv, EndIf
    PROVE  IInv'
<1> DEFINE brk == Head(todo).brk
           items == <<LabelOf(brk)>>
<1>1. todo # <<>> /\ Head(todo).do = "fi" /\ SyntaxOnly /\ Goes(items) /\ frame' = Effective(frame)
  BY DEF EndIf, Item
<1>2. Head(todo).do \notin Loopers /\ Defines(Head(todo)) = {brk}
  BY <1>1, BrkIs DEF Loopers, Closers
<1>3. Has(items, {brk}, 0, 0)
  BY KindLabel, KindHas
<1>4. {brk} \subseteq (frame.lastlab + 1 .. frame.lastlab + 0) \cup Defines(Head(todo))
  BY <1>2
<1>5. Takes(frame', 0)
  BY <1>1, FrameTakes DEF IInv
<1> HIDE DEF items, brk
<1> QED BY <1>1, <1>2, <1>3, <1>4, <1>5, SyntaxSilent

LEMMA DoTestInv ==
    ASSUME IInv, DoTest
    PROVE  IInv'
<1> DEFINE l1 == getlabel(1)
           brk == Head(todo).brk
           again == Head(todo).again
           a == jumptrue(Sym.x, again, l1)
           b == <<End("loop", brk)>>
           items == a \o b
<1>1. todo # <<>> /\ Head(todo).do = "do while" /\ SyntaxOnly /\ Goes(items)
      /\ frame' = [Reserve(1) EXCEPT !.test = next]
  BY DEF DoTest, Item
<1>2. Defines(Head(todo)) = {brk} /\ brk \in Int /\ brk <= frame.lastlab
  BY <1>1, BrkIs
<1>3. again # 0
  <2>1. IsItem(Head(todo))
    BY <1>1, HeadIs
  <2> QED BY <1>1, <2>1 DEF IsItem
<1>4. l1 # 0 /\ l1 = frame.lastlab + 1 /\ frame.lastlab \in Nat
  BY NewLabel
<1>5. 0 = Weight(Head(todo), Closers) /\ 1 = Weight(Head(todo), Loopers)
  BY <1>1 DEF Weight, Loopers, Closers
<1> HIDE DEF l1, brk, again
<1>6. Has(a, {l1}, 0, 0)
  BY <1>3, <1>4, HasJumps
<1>7. Has(b, {brk}, 0, 1)
  BY KindEnd, KindHas
<1>8. {l1} \cap {brk} = {}
  BY <1>2, <1>4
<1> HIDE DEF a, b
<1>9. Has(items, {l1} \cup {brk}, 0 + 0, 0 + 1)
  BY <1>6, <1>7, <1>8, HasConcat
<1> DEFINE D == {l1} \cup {brk}
<1>10. D \subseteq (frame.lastlab + 1 .. frame.lastlab + 1) \cup Defines(Head(todo))
  BY <1>2, <1>4
<1>11. Takes(frame', 1)
  BY <1>1, FrameTakes DEF IInv
<1> HIDE DEF items, D
<1>12. Has(items, D, 0, 1)
  BY <1>9 DEF D
<1> QED BY <1>1, <1>5, <1>10, <1>11, <1>12, SyntaxTakes

LEMMA TestAtInv ==
    ASSUME IInv, TestAt
    PROVE  IInv'
<1>1. todo # <<>> /\ Head(todo).do = "at" /\ SyntaxOnly /\ Goes(<<>>) /\ frame' = [frame EXCEPT !.test = Head(todo).at]
  BY DEF TestAt, Item
<1>2. Head(todo).do \notin Loopers
  BY <1>1 DEF Loopers, Closers
<1>3. Takes(frame', 0)
  BY <1>1, FrameTakes DEF IInv
<1> QED BY <1>1, <1>2, <1>3, MuteNone, SyntaxMute

LEMMA jumpcondInv ==
    ASSUME IInv, jumpcond
    PROVE  IInv'
<1> DEFINE c == Head(todo)
           l1 == getlabel(1)
           items == CASE c.x[1] = "!" -> <<Swap(c)>>
                      [] c.x[1] = "&&" -> logandcond(c)
                      [] c.x[1] = "||" -> logorcond(c)
                      [] OTHER -> testcond(c)
<1>1. todo # <<>> /\ c.do = "cond" /\ SyntaxOnly /\ Goes(items) /\ frame' = Reserve(1)
  BY DEF jumpcond, Item
<1>2. c.do \notin Loopers
  BY <1>1 DEF Loopers, Closers
<1>3. c.true # 0 /\ c.false # 0
  <2>1. IsItem(c)
    BY <1>1, HeadIs
  <2> QED BY <1>1, <2>1 DEF IsItem
<1>4. l1 # 0 /\ l1 = frame.lastlab + 1 /\ frame.lastlab \in Nat
  BY NewLabel
<1>5. Takes(frame', 1)
  BY <1>1, FrameTakes DEF IInv
<1>6. {l1} \subseteq (frame.lastlab + 1 .. frame.lastlab + 1) \cup Defines(Head(todo))
  BY <1>4
<1> HIDE DEF c, l1
<1>7. MuteSeq(<<Swap(c)>>)
  BY <1>3, KindCond, MuteOne DEF Swap
<1>8. ASSUME NEW x, NEW y, NEW true, true # 0, NEW false, false # 0, NEW nojump
      PROVE  Has(<<Cond(x, true, false, nojump), LabelOf(l1), Cond(y, c.true, c.false, c.nojump)>>, {l1}, 0, 0)
  <2> DEFINE x1 == Cond(x, true, false, nojump)
             x2 == LabelOf(l1)
             x3 == Cond(y, c.true, c.false, c.nojump)
  <2>1. Kind(x1, {}, 0, 0) /\ Kind(x2, {l1}, 0, 0) /\ Kind(x3, {}, 0, 0)
    BY <1>3, <1>8, KindCond, KindLabel DEF Mute
  <2> HIDE DEF x1, x2, x3
  <2>2. /\ IsItem(x1) /\ IsItem(x2) /\ IsItem(x3)
        /\ Defines(x1) = {} /\ Defines(x2) = {l1} /\ Defines(x3) = {}
        /\ Weight(x1, Closers) = 0 /\ Weight(x2, Closers) = 0 /\ Weight(x3, Closers) = 0
        /\ Weight(x1, Loopers) = 0 /\ Weight(x2, Loopers) = 0 /\ Weight(x3, Loopers) = 0
    BY <2>1 DEF Kind
  <2>3. Has(<<x1, x2, x3>>, {} \cup {l1} \cup {}, 0 + 0 + 0, 0 + 0 + 0)
    BY <2>2, HasThree
  <2> DEFINE D == {l1}
  <2>4. {} \cup {l1} \cup {} = D
    OBVIOUS
  <2> HIDE DEF D
  <2>5. Has(<<x1, x2, x3>>, D, 0, 0)
    BY <2>3, <2>4
  <2> QED BY <2>5 DEF x1, x2, x3, D
<1>9. Has(logandcond(c), {l1}, 0, 0) /\ Has(logorcond(c), {l1}, 0, 0)
  <2>1. Has(logandcond(c), {l1}, 0, 0)
    BY <1>3, <1>4, <1>8 DEF logandcond, l1
  <2>2. Has(logorcond(c), {l1}, 0, 0)
    BY <1>3, <1>4, <1>8 DEF logorcond, l1
  <2> QED BY <2>1, <2>2
<1>10. MuteSeq(testcond(c))
  <2> DEFINE e == Code(Eval(frame.test, c.x[2], 3))
             b == IF c.nojump THEN LBranch("EQ", c.false) ELSE LBranch("NE", c.true)
             o == IF c.nojump /\ c.x[2] = 0 THEN <<Jump(c.false)>>
                  ELSE IF ~c.nojump /\ c.x[2] # 0 THEN <<Jump(c.true)>> ELSE <<>>
  <2>1. Mute(e)
    BY PlainIs, KindCode
  <2>2. Mute(b)
    BY <1>3, KindBranch
  <2>3. MuteSeq(o)
    BY <1>3, KindBranch, MuteOne, MuteNone
  <2>4. testcond(c) = <<e, b>> \/ testcond(c) = o
    BY DEF testcond
  <2> HIDE DEF e, b, o
  <2> QED BY <2>1, <2>2, <2>3, <2>4, MuteTwo
<1>11. items = <<Swap(c)>> \/ items = logandcond(c) \/ items = logorcond(c) \/ items = testcond(c)
  OBVIOUS
<1> HIDE DEF items
<1>12. MuteSeq(items) \/ Has(items, {l1}, 0, 0)
  BY <1>7, <1>9, <1>10, <1>11
<1>13. todo # <<>> /\ Head(todo).do \notin Loopers
  BY <1>1, <1>2 DEF c
<1>14. CASE MuteSeq(items)
  BY <1>1, <1>5, <1>13, <1>14, SyntaxMute
<1>15. CASE Has(items, {l1}, 0, 0)
  BY <1>1, <1>5, <1>6, <1>13, <1>15, SyntaxSilent
<1> QED BY <1>12, <1>14, <1>15

-----------------------------------------------------------------------------
(* The actions that write code.                                            *)
LEMMA EmitPlain ==
    ASSUME IInv, todo # <<>>, Goes(<<>>), UNCHANGED <<prog, loops, switches, named>>,
           NEW is, IsPlain(is), g' = EmitAll(g, is),
           Head(todo).do \notin Loopers, Takes(frame', 0)
    PROVE  IInv'
<1>1. Made(g) /\ IsSeq(is) /\ \A i \in DOMAIN is : Plain(is[i])
  BY DEF IInv, IsPlain
<1>2. Made(EmitAll(g, is)) /\ Labels(EmitAll(g, is).code) = Labels(g.code)
  BY <1>1, MadeAll
<1>3. Made(g') /\ Labels(g'.code) \subseteq Labels(g.code) \cup Defines(Head(todo))
  BY <1>2
<1>4. FrameRight' /\ frame'.lastlab = frame.lastlab /\ frame'.switched = frame.switched
  <2>1. FrameRight' /\ frame'.lastlab = frame.lastlab + 0 /\ frame'.switched = frame.switched /\ frame.lastlab \in Nat
    BY FrameKept DEF IInv
  <2> QED BY <2>1
<1> QED BY <1>3, <1>4, Emitting

LEMMA EmitNone ==
    ASSUME IInv, todo # <<>>, Goes(<<>>), UNCHANGED <<prog, loops, switches, named>>, g' = g,
           Head(todo).do \notin Loopers, Takes(frame', 0)
    PROVE  IInv'
<1>1. Made(g') /\ Labels(g'.code) \subseteq Labels(g.code) \cup Defines(Head(todo))
  BY DEF IInv
<1>2. FrameRight' /\ frame'.lastlab = frame.lastlab /\ frame'.switched = frame.switched
  <2>1. FrameRight' /\ frame'.lastlab = frame.lastlab + 0 /\ frame'.switched = frame.switched /\ frame.lastlab \in Nat
    BY FrameKept DEF IInv
  <2> QED BY <2>1
<1> QED BY <1>1, <1>2, Emitting

LEMMA ReslocalsInv ==
    ASSUME IInv, Reslocals
    PROVE  IInv'
<1> DEFINE start == IF frame.framed THEN <<>> ELSE <<[op |-> "frame", n |-> -func1saveregsize, size |-> 4]>>
           sp == IF frame.framed THEN frame.sp ELSE -func1saveregsize
           is == start \o modstk(sp, frame.softsp)
<1>1. todo # <<>> /\ Head(todo).do = "reslocals" /\ Goes(<<>>) /\ UNCHANGED <<prog, loops, switches, named>>
  BY DEF Reslocals, Item
<1>2. Head(todo).do \notin Loopers
  BY <1>1 DEF Loopers, Closers
<1>3. CASE InSwitch
  <2>1. frame' = ReservedInSwitch /\ g' = g
    BY <1>3 DEF Reslocals
  <2> DEFINE v == IF frame.lowsp > frame.softsp THEN frame.softsp ELSE frame.lowsp
  <2>2. frame' = [frame EXCEPT !.lowsp = v, !.sp = frame.softsp]
    BY <2>1 DEF ReservedInSwitch
  <2> HIDE DEF v
  <2>3. Takes(frame', 0)
    BY <2>2, FrameTakes DEF IInv
  <2> QED BY <1>1, <1>2, <2>1, <2>3, EmitNone
<1>4. CASE ~InSwitch
  <2>1. g' = EmitAll(g, is) /\ frame' = [frame EXCEPT !.sp = frame.softsp, !.framed = TRUE]
    BY <1>4 DEF Reslocals
  <2>2. IsPlain(start)
    <3> DEFINE x == [op |-> "frame", n |-> -func1saveregsize, size |-> 4]
    <3>1. IsPlain(<<x>>)
      <4>1. Plain(x)
        BY PlainIs
      <4> HIDE DEF x
      <4> QED BY <4>1, PlainOne
    <3> HIDE DEF x
    <3>2. start = <<>> \/ start = <<x>>
      BY DEF x
    <3> QED BY <3>1, <3>2, PlainNone
  <2> HIDE DEF start, sp
  <2>3. IsPlain(is)
    BY <2>2, PlainModstk, PlainConcat
  <2>4. Takes(frame', 0)
    BY <2>1, FrameTakes DEF IInv
  <2> HIDE DEF is
  <2> QED BY <1>1, <1>2, <2>1, <2>3, <2>4, EmitPlain
<1> QED BY <1>3, <1>4

LEMMA LeaveBlockInv ==
    ASSUME IInv, LeaveBlock
    PROVE  IInv'
<1> DEFINE is == IF frame.returnflag THEN <<>>
                 ELSE IF Len(todo) = 1 THEN ret
                 ELSE IF InSwitch \/ ~frame.framed THEN <<>> ELSE modstk(frame.sp, Head(todo).softsp)
<1>1. todo # <<>> /\ Head(todo).do = "block" /\ Goes(<<>>) /\ UNCHANGED <<prog, loops, switches, named>>
      /\ g' = EmitAll(g, is) /\ frame' = Restored
  BY DEF LeaveBlock, Item
<1>2. Head(todo).do \notin Loopers
  BY <1>1 DEF Loopers, Closers
<1>3. IsPlain(is)
  BY PlainNone, PlainRet, PlainModstk
<1>4. Takes(frame', 0)
  <2> DEFINE v == frame.framed /\ Len(todo) > 1
  <2>1. frame' = [frame EXCEPT !.sp = Head(todo).sp, !.softsp = Head(todo).softsp, !.framed = v]
    BY <1>1 DEF Restored
  <2> HIDE DEF v
  <2> QED BY <2>1, FrameTakes DEF IInv
<1> HIDE DEF is
<1> QED BY <1>1, <1>2, <1>3, <1>4, EmitPlain

LEMMA doreturnInv ==
    ASSUME IInv, doreturn
    PROVE  IInv'
<1> DEFINE a == IF Sym.n = 1 THEN <<Eval(next, "value", 3)>> ELSE <<>>
           is == a \o ret
<1>1. Statement("return") /\ Goes(<<>>) /\ UNCHANGED <<prog, loops, switches, named>>
      /\ g' = EmitAll(g, is) /\ frame' = [frame EXCEPT !.returnflag = TRUE]
  BY DEF doreturn
<1>2. todo # <<>> /\ Head(todo).do \notin Loopers
  BY <1>1, StatementIs
<1>3. IsPlain(a)
  BY PlainNone, PlainIs, PlainOne
<1> HIDE DEF a
<1>4. IsPlain(is)
  BY <1>3, PlainRet, PlainConcat
<1>5. Takes(frame', 0)
  BY <1>1, FrameTakes DEF IInv
<1> HIDE DEF is
<1> QED BY <1>1, <1>2, <1>4, <1>5, EmitPlain

LEMMA AfterSwitchInv ==
    ASSUME IInv, AfterSwitch
    PROVE  IInv'
<1> DEFINE is == modstk(frame.sp, Head(todo).to)
<1>1. todo # <<>> /\ Head(todo).do = "modstk" /\ Goes(<<>>) /\ UNCHANGED <<prog, loops, switches, named>>
      /\ g' = EmitAll(g, is) /\ frame' = [frame EXCEPT !.sp = Head(todo).to]
  BY DEF AfterSwitch, Item
<1>2. Head(todo).do \notin Loopers
  BY <1>1 DEF Loopers, Closers
<1>3. IsPlain(is)
  BY PlainModstk
<1>4. Takes(frame', 0)
  BY <1>1, FrameTakes DEF IInv
<1> HIDE DEF is
<1> QED BY <1>1, <1>2, <1>3, <1>4, EmitPlain

LEMMA OutInv ==
    ASSUME IInv, Out
    PROVE  IInv'
<1>1. Goes(<<>>) /\ UNCHANGED <<prog, loops, switches, named>> /\ frame' = frame
  BY DEF Out
<1>2. FrameRight' /\ frame'.lastlab = frame.lastlab /\ frame'.switched = frame.switched
  BY <1>1 DEF IInv, FrameRight
<1>3. Made(g)
  BY DEF IInv
<1>4. CASE OutCode
  <2>1. todo # <<>> /\ Head(todo).do = "code" /\ g' = Emit(g, Head(todo).code)
    BY <1>4 DEF OutCode, Item
  <2>2. Plain(Head(todo).code)
    <3>1. IsItem(Head(todo))
      BY <2>1, HeadIs
    <3> QED BY <2>1, <3>1 DEF IsItem
  <2>3. Made(g') /\ Labels(g'.code) \subseteq Labels(g.code) \cup Defines(Head(todo))
    <3> DEFINE i == Head(todo).code
    <3>1. i.op \notin {"label", "branch"} /\ i.size \in Nat
      BY <2>2 DEF Plain
    <3> HIDE DEF i
    <3>2. Made(Emit(g, i)) /\ Labels(Emit(g, i).code) = Labels(g.code)
      BY <1>3, <3>1, MadePlain
    <3> QED BY <2>1, <3>2 DEF i
  <2>4. Head(todo).do \notin Loopers
    BY <2>1 DEF Loopers, Closers
  <2> QED BY <1>1, <1>2, <2>1, <2>3, <2>4, Emitting
<1>5. CASE OutLabel
  <2> DEFINE l == Head(todo).label
  <2>1. todo # <<>> /\ Head(todo).do = "label" /\ g' = deflabel(g, l)
    BY <1>5 DEF OutLabel, Item
  <2>2. Defines(Head(todo)) = {l} /\ Head(todo).do \notin Loopers
    BY <2>1 DEF Defines, Loopers, Closers
  <2>3. l # 0 /\ l \notin Labels(g.code)
    BY <2>1, <2>2, HeadIs
  <2> HIDE DEF l
  <2>4. Made(deflabel(g, l)) /\ Labels(deflabel(g, l).code) = Labels(g.code) \cup {l}
    BY <1>3, <2>3, MadeLabel
  <2>5. Made(g') /\ Labels(g'.code) \subseteq Labels(g.code) \cup Defines(Head(todo))
    BY <2>1, <2>2, <2>4
  <2> QED BY <1>1, <1>2, <2>1, <2>2, <2>5, Emitting
<1>6. CASE OutBranch
  <2> DEFINE l == Head(todo).label
             cond == Head(todo).cond
  <2>1. todo # <<>> /\ Head(todo).do = "branch" /\ g' = lbranch(g, cond, l)
    BY <1>6 DEF OutBranch, Item
  <2>2. l # 0
    <3>1. IsItem(Head(todo))
      BY <2>1, HeadIs
    <3> QED BY <2>1, <3>1 DEF IsItem
  <2>3. Head(todo).do \notin Loopers
    BY <2>1 DEF Loopers, Closers
  <2> HIDE DEF l, cond
  <2>4. Made(lbranch(g, cond, l)) /\ Labels(lbranch(g, cond, l).code) = Labels(g.code)
    BY <1>3, <2>2, MadeBranch
  <2>5. Made(g') /\ Labels(g'.code) \subseteq Labels(g.code) \cup Defines(Head(todo))
    BY <2>1, <2>4
  <2> QED BY <1>1, <1>2, <2>1, <2>3, <2>5, Emitting
<1> QED BY <1>4, <1>5, <1>6 DEF Out

-----------------------------------------------------------------------------
(* The decision of a switch.                                               *)
\* While a switch is open, there is one; and its loop.
LEMMA OpenSwitch ==
    ASSUME IInv, todo # <<>>, Weight(Head(todo), Closers) = 1
    PROVE  switches # <<>> /\ IsSeq(switches) /\ Len(switches) \in Nat /\ Len(switches) > 0 /\ IsSwitch(Head(switches))
<1>1. Len(switches) = 1 + Count(Tail(todo), Closers)
  BY GoodTail DEF IInv, LeftToDo, Left
<1>2. Count(Tail(todo), Closers) \in Nat
  <2>1. IsSeq(Tail(todo))
    BY GoodTail DEF IInv, LeftToDo, Left, Good
  <2> QED BY <2>1, CountIs
<1>3. IsSeq(switches) /\ \A i \in DOMAIN switches : IsSwitch(switches[i])
  BY DEF IInv, ListsRight
<1>4. Len(switches) > 0 /\ Len(switches) \in Nat
  BY <1>1, <1>2
<1>5. switches # <<>>
  BY <1>4
<1>6. 1 \in DOMAIN switches /\ Head(switches) = switches[1]
  BY <1>3, <1>5, TailSeq
<1> QED BY <1>3, <1>4, <1>5, <1>6

LEMMA OpenLoop ==
    ASSUME IInv, todo # <<>>, Weight(Head(todo), Loopers) = 1
    PROVE  loops # <<>> /\ IsSeq(loops) /\ Len(loops) \in Nat /\ Len(loops) > 0 /\ Head(loops).breaklab # 0
<1>1. Len(loops) = 1 + Count(Tail(todo), Loopers)
  BY GoodTail DEF IInv, LeftToDo, Left
<1>2. Count(Tail(todo), Loopers) \in Nat
  <2>1. IsSeq(Tail(todo))
    BY GoodTail DEF IInv, LeftToDo, Left, Good
  <2> QED BY <2>1, CountIs
<1>3. Len(loops) > 0 /\ Len(loops) \in Nat
  BY <1>1, <1>2
<1>4. loops # <<>>
  BY <1>3
<1> QED BY <1>3, <1>4, LoopIs

LEMMA CasesPart ==
    ASSUME NEW cs, IsCases(cs), NEW m \in 1 .. Len(cs) + 1, NEW n \in 0 .. Len(cs)
    PROVE  IsCases(SubSeq(cs, m, n))
<1> DEFINE S == {cs[i] : i \in DOMAIN cs}
           s == SubSeq(cs, m, n)
<1>1. cs \in Seq(S) /\ Len(cs) \in Nat /\ DOMAIN cs = 1 .. Len(cs)
  BY DEF IsCases, IsSeq
<1>2. \A i \in m .. n : cs[i] \in S
  BY <1>1
<1> HIDE DEF S
<1>3. s \in Seq(S) /\ Len(s) = IF m <= n THEN n - m + 1 ELSE 0
  <2>1. m \in Int /\ n \in Int
    BY <1>1
  <2> QED BY <1>2, <2>1, SubSeqProperties
<1> HIDE DEF s
<1>4. IsSeq(s) /\ DOMAIN s = 1 .. Len(s) /\ \A i \in DOMAIN s : s[i] \in S
  BY <1>3, SeqIs
<1>5. \A c \in S : c.value \in Int /\ c.label # 0
  BY DEF S, IsCases
<1> QED BY <1>4, <1>5 DEF IsCases, s

LEMMA CasesNone == IsCases(<<>>)
BY MuteNone DEF MuteSeq, IsCases

LEMMA CasesOne ==
    ASSUME NEW c, c.value \in Int, c.label # 0
    PROVE  IsCases(<<c>>)
<1> DEFINE s == <<c>>
<1>1. IsSeq(s) /\ DOMAIN s = {1} /\ s[1] = c
  BY OneSeq
<1> HIDE DEF s
<1> QED BY <1>1 DEF IsCases, s

LEMMA CasesConcat ==
    ASSUME NEW a, IsCases(a), NEW b, IsCases(b)
    PROVE  IsCases(a \o b)
<1> DEFINE s == a \o b
<1>1. IsSeq(a) /\ IsSeq(b)
  BY DEF IsCases
<1>2. IsSeq(s)
  BY <1>1, ConcatSeq
<1>3. ASSUME NEW i \in DOMAIN s PROVE s[i].value \in Int /\ s[i].label # 0
  <2>1. \/ i \in DOMAIN a /\ s[i] = a[i]
        \/ i - Len(a) \in DOMAIN b /\ s[i] = b[i - Len(a)] /\ i \notin DOMAIN a
    BY <1>1, ConcatIndex
  <2> HIDE DEF s
  <2> QED BY <2>1 DEF IsCases
<1> QED BY <1>2, <1>3 DEF IsCases

LEMMA CasesInto ==
    ASSUME NEW cs, IsCases(cs), NEW c, c.value \in Int, c.label # 0
    PROVE  IsCases(Into(cs, c))
<1> DEFINE I == {i \in DOMAIN cs : cs[i].value <= c.value}
           n == Cardinality(I)
           a == SubSeq(cs, 1, n)
           b == SubSeq(cs, n + 1, Len(cs))
<1>1. Len(cs) \in Nat /\ DOMAIN cs = 1 .. Len(cs)
  BY DEF IsCases, IsSeq
<1>2. n \in 0 .. Len(cs)
  <2>1. IsFiniteSet(1 .. Len(cs)) /\ Cardinality(1 .. Len(cs)) = Len(cs)
    <3>1. Cardinality(1 .. Len(cs)) = IF 1 > Len(cs) THEN 0 ELSE Len(cs) - 1 + 1
      BY <1>1, FS_Interval, SMTT(30)
    <3>2. IsFiniteSet(1 .. Len(cs))
      BY <1>1, FS_Interval
    <3> QED BY <1>1, <3>1, <3>2
  <2>2. I \subseteq 1 .. Len(cs)
    BY <1>1
  <2> HIDE DEF I
  <2>3. IsFiniteSet(I) /\ Cardinality(I) <= Cardinality(1 .. Len(cs)) /\ Cardinality(I) \in Nat
    BY <2>1, <2>2, FS_Subset, FS_CardinalityType
  <2> QED BY <1>1, <2>1, <2>3
<1> HIDE DEF n
<1>3. IsCases(a)
  <2>1. 1 \in 1 .. Len(cs) + 1
    BY <1>1
  <2> QED BY <1>2, <2>1, CasesPart
<1>4. IsCases(b)
  <2>1. n + 1 \in 1 .. Len(cs) + 1 /\ Len(cs) \in 0 .. Len(cs)
    BY <1>1, <1>2
  <2> QED BY <2>1, CasesPart
<1>5. IsCases(<<c>>)
  BY CasesOne
<1> HIDE DEF a, b
<1>6. IsCases(a \o <<c>>)
  BY <1>3, <1>5, CasesConcat
<1>7. IsCases(a \o <<c>> \o b)
  BY <1>4, <1>6, CasesConcat
<1> QED BY <1>7 DEF Into, a, b, n

LEMMA CasesSorted ==
    ASSUME NEW cs, IsCases(cs)
    PROVE  IsCases(Sorted(cs))
<1> DEFINE F(x, n) == Into(x, cs[n])
           Upto(f, k) == f = [n \in 0 .. k |-> IF n = 0 THEN <<>> ELSE F(f[n - 1], n)]
           S == {k \in Nat : \E f : Upto(f, k)}
           sorted == CHOOSE f : Upto(f, Len(cs))
<1>0. Len(cs) \in Nat /\ DOMAIN cs = 1 .. Len(cs)
  BY DEF IsCases, IsSeq
<1>1. Sorted(cs) = sorted[Len(cs)]
  BY DEF Sorted
<1> HIDE DEF F
<1>2. 0 \in S
  <2> DEFINE f == [n \in 0 .. 0 |-> <<>>]
  <2>1. Upto(f, 0)
    OBVIOUS
  <2> HIDE DEF f, Upto
  <2> QED BY <2>1
<1>3. ASSUME NEW n \in S PROVE n + 1 \in S
  <2>1. PICK f : Upto(f, n)
    OBVIOUS
  <2> DEFINE f1 == [k \in 0 .. n + 1 |-> IF k = n + 1 THEN F(f[n], n + 1) ELSE f[k]]
  <2>2. n \in Nat
    OBVIOUS
  <2>3. ASSUME NEW k \in 0 .. n + 1
        PROVE  f1[k] = IF k = 0 THEN <<>> ELSE F(f1[k - 1], k)
    <3>1. CASE k = n + 1
      BY <2>2, <3>1
    <3>2. CASE k # n + 1
      <4>1. k \in 0 .. n /\ (k # 0 => k - 1 \in 0 .. n)
        BY <2>2, <3>2
      <4>2. f[k] = IF k = 0 THEN <<>> ELSE F(f[k - 1], k)
        BY <2>1, <4>1
      <4> QED BY <2>2, <3>2, <4>1, <4>2
    <3> QED BY <3>1, <3>2
  <2>4. Upto(f1, n + 1)
    BY <2>3
  <2> HIDE DEF f1, Upto
  <2> QED BY <2>2, <2>4
<1>4. S = Nat
  <2>1. S \subseteq Nat
    OBVIOUS
  <2> HIDE DEF S
  <2> QED BY <1>2, <1>3, <2>1, SetInduction
<1>5. Upto(sorted, Len(cs))
  <2>1. \E f : Upto(f, Len(cs))
    BY <1>0, <1>4
  <2> HIDE DEF Upto
  <2> QED BY <2>1
<1> HIDE DEF sorted
<1>6. sorted[0] = <<>> /\ \A n \in 1 .. Len(cs) : sorted[n] = F(sorted[n - 1], n)
  BY <1>0, <1>5
<1> DEFINE Right(n) == IsCases(sorted[n])
           N == {n \in Nat : n <= Len(cs) => Right(n)}
<1>7. 0 \in N
  BY <1>6, CasesNone
<1>8. ASSUME NEW n \in N PROVE n + 1 \in N
  <2>1. CASE n + 1 <= Len(cs)
    <3>1. n + 1 \in 1 .. Len(cs) /\ (n + 1) - 1 = n /\ Right(n)
      BY <1>0, <2>1
    <3> DEFINE x == sorted[n]
               c == cs[n + 1]
    <3>2. sorted[n + 1] = Into(x, c)
      BY <1>6, <3>1 DEF F
    <3>3. IsCases(x) /\ c.value \in Int /\ c.label # 0
      BY <1>0, <3>1 DEF IsCases
    <3> HIDE DEF x, c
    <3>4. IsCases(Into(x, c))
      BY <3>3, CasesInto
    <3>5. Right(n + 1)
      BY <3>2, <3>4
    <3> HIDE DEF Right
    <3> QED BY <3>5
  <2>2. CASE ~(n + 1 <= Len(cs))
    BY <2>2
  <2> QED BY <2>1, <2>2
<1>9. N = Nat
  <2>1. N \subseteq Nat
    OBVIOUS
  <2> HIDE DEF N
  <2> QED BY <1>7, <1>8, <2>1, SetInduction
<1>10. Right(Len(cs))
  <2>1. Len(cs) \in N
    BY <1>0, <1>9
  <2> HIDE DEF Right
  <2> QED BY <1>0, <2>1
<1> QED BY <1>1, <1>10

LEMMA DecideInv ==
    ASSUME IInv, Decide
    PROVE  IInv'
<1> DEFINE h == Head(todo)
           brk == h.brk
           decide == h.decide
           dfaultlab == IF Head(switches).dfaultlab # 0 THEN Head(switches).dfaultlab ELSE Head(loops).breaklab
           item == [do |-> "cases", cases |-> Sorted(Head(switches).cases), base |-> 0, dfault |-> dfaultlab,
                    low |-> IF Head(switches).char THEN "LO" ELSE "LT"]
           last == [do |-> "end switch", spmark |-> h.spmark]
           a == <<Jump(brk), LabelOf(decide)>>
           is == IF Outermost THEN Codes(modstk(frame.sp, frame.lowsp)) ELSE <<>>
           b == <<item, LabelOf(brk), last>>
           items == a \o is \o b
<1>1. todo # <<>> /\ h.do = "decide" /\ SyntaxOnly /\ Goes(items)
      /\ frame' = IF Outermost THEN [frame EXCEPT !.sp = frame.lowsp] ELSE frame
  BY DEF Decide, Item
<1>2. Defines(h) = {brk, decide} /\ 1 = Weight(h, Closers) /\ 1 = Weight(h, Loopers)
  BY <1>1 DEF Defines, Weight, Loopers, Closers
<1>3. brk # decide /\ brk # 0
  <2>1. IsItem(h) /\ 0 \notin Defines(h)
    BY <1>1, HeadIs
  <2> QED BY <1>1, <1>2, <2>1 DEF IsItem
<1>4. IsSwitch(Head(switches)) /\ Head(loops).breaklab # 0
  BY <1>1, <1>2, OpenSwitch, OpenLoop
<1>5. Kind(item, {}, 0, 0)
  <2>1. IsCases(Sorted(Head(switches).cases))
    BY <1>4, CasesSorted DEF IsSwitch
  <2>2. dfaultlab # 0
    BY <1>4
  <2>3. item.do = "cases" /\ DOMAIN item = {"do", "cases", "base", "dfault", "low"}
        /\ item.cases = Sorted(Head(switches).cases) /\ item.dfault = dfaultlab
    OBVIOUS
  <2> HIDE DEF item, dfaultlab
  <2>4. IsCases(item.cases) /\ item.dfault # 0
    BY <2>1, <2>2, <2>3
  <2> QED BY <2>3, <2>4, KindCases DEF Mute
<1>6. Kind(last, {}, 1, 1)
  <2>1. last.do = "end switch"
    OBVIOUS
  <2> HIDE DEF last
  <2> QED BY <2>1, KindEndSwitch
<1>7. MuteSeq(is)
  BY PlainModstk, MuteCodes, MuteNone
<1>8. Takes(frame', 0)
  BY <1>1, FrameTakes DEF IInv
<1> HIDE DEF item, last, is, brk, decide, dfaultlab, h
<1>9. Has(a, {decide}, 0, 0)
  <2> DEFINE x == Jump(brk)
             y == LabelOf(decide)
  <2>1. Kind(x, {}, 0, 0) /\ Kind(y, {decide}, 0, 0)
    BY <1>3, KindBranch, KindLabel DEF Mute
  <2> HIDE DEF x, y
  <2>2. Has(<<x, y>>, {} \cup {decide}, 0 + 0, 0 + 0)
    BY <2>1, KindTwo
  <2> QED BY <2>2 DEF x, y
<1>10. Has(b, {brk}, 1, 1)
  <2> DEFINE y == LabelOf(brk)
  <2>1. Kind(y, {brk}, 0, 0)
    BY KindLabel
  <2> HIDE DEF y
  <2>2. /\ IsItem(item) /\ IsItem(y) /\ IsItem(last)
        /\ Defines(item) = {} /\ Defines(y) = {brk} /\ Defines(last) = {}
        /\ Weight(item, Closers) = 0 /\ Weight(y, Closers) = 0 /\ Weight(last, Closers) = 1
        /\ Weight(item, Loopers) = 0 /\ Weight(y, Loopers) = 0 /\ Weight(last, Loopers) = 1
    BY <1>5, <1>6, <2>1 DEF Kind
  <2>3. Has(<<item, y, last>>, {} \cup {brk} \cup {}, 0 + 0 + 1, 0 + 0 + 1)
    BY <2>2, HasThree
  <2> DEFINE D == {brk}
  <2>4. {} \cup {brk} \cup {} = D
    OBVIOUS
  <2> HIDE DEF D
  <2>5. Has(<<item, y, last>>, D, 1, 1)
    BY <2>3, <2>4
  <2> QED BY <2>5 DEF y, D
<1> HIDE DEF a, b
<1>11. Has(a \o is, {decide}, 0, 0)
  <2>1. Has(is, {}, 0, 0)
    BY <1>7, MuteHas
  <2>2. {decide} \cap {} = {}
    OBVIOUS
  <2> DEFINE D == {decide}
             E == {}
  <2>3. Has(a, D, 0, 0) /\ Has(is, E, 0, 0) /\ D \cap E = {}
    BY <1>9, <2>1
  <2>4. D \cup E = D
    OBVIOUS
  <2> HIDE DEF D, E
  <2>5. Has(a \o is, D \cup E, 0 + 0, 0 + 0)
    BY <2>3, HasConcat
  <2>6. Has(a \o is, D, 0, 0)
    BY <2>4, <2>5
  <2> QED BY <2>6 DEF D
<1>12. {decide} \cap {brk} = {}
  BY <1>3
<1>13. Has(items, {decide} \cup {brk}, 0 + 1, 0 + 1)
  BY <1>10, <1>11, <1>12, HasConcat
<1> DEFINE D == {decide} \cup {brk}
<1>14. D \subseteq (frame.lastlab + 1 .. frame.lastlab + 0) \cup Defines(Head(todo))
  BY <1>2 DEF h
<1> HIDE DEF items, D
<1>15. Has(items, D, 1, 1)
  BY <1>13 DEF D
<1>16. 1 = Weight(Head(todo), Closers) /\ 1 = Weight(Head(todo), Loopers)
  BY <1>2 DEF h
<1> QED BY <1>1, <1>8, <1>14, <1>15, <1>16, SyntaxTakes

LEMMA NoMoreCasesInv ==
    ASSUME IInv, NoMoreCases
    PROVE  IInv'
<1> DEFINE items == IF Head(switches).dfaultlab # 0 THEN <<Jump(Head(todo).dfault)>> ELSE <<>>
<1>1. todo # <<>> /\ Head(todo).do = "cases" /\ SyntaxOnly /\ Goes(items) /\ frame' = frame
  BY DEF NoMoreCases, Item
<1>2. Head(todo).do \notin Loopers
  BY <1>1 DEF Loopers, Closers
<1>3. Head(todo).dfault # 0
  <2>1. IsItem(Head(todo))
    BY <1>1, HeadIs
  <2> QED BY <1>1, <2>1 DEF IsItem
<1>4. MuteSeq(items)
  BY <1>3, KindBranch, MuteOne, MuteNone
<1>5. Takes(frame', 0)
  BY <1>1, FrameTakes DEF IInv
<1> HIDE DEF items
<1> QED BY <1>1, <1>2, <1>4, <1>5, SyntaxMute

LEMMA CloseIs ==
    ASSUME NEW cs, IsCases(cs), cs # <<>>
    PROVE  Close(cs) \in 1 .. Len(cs) /\ Len(cs) \in Nat
<1> DEFINE S == {n \in DOMAIN cs : n = Len(cs) \/ cs[n].value < cs[n + 1].value - GAP}
           Q(n) == /\ \A i \in 1 .. n - 1 : cs[i].value >= cs[i + 1].value - GAP
                   /\ n = Len(cs) \/ cs[n].value < cs[n + 1].value - GAP
<1>1. Len(cs) \in Nat /\ DOMAIN cs = 1 .. Len(cs) /\ \A i \in DOMAIN cs : cs[i].value \in Int
  BY DEF IsCases, IsSeq
<1>2. 1 \in DOMAIN cs
  BY TailSeq DEF IsCases
<1>3. S \subseteq Nat /\ Len(cs) \in S
  BY <1>1, <1>2
<1>4. PICK x \in S : \A y \in S : x <= y
  <2> HIDE DEF S
  <2> QED BY <1>3, LeastOf
<1>5. ASSUME NEW i \in 1 .. x - 1 PROVE cs[i].value >= cs[i + 1].value - GAP
  <2>1. i \in DOMAIN cs /\ i + 1 \in DOMAIN cs /\ i # Len(cs) /\ ~(x <= i)
    BY <1>1
  <2>2. ~(cs[i].value < cs[i + 1].value - GAP)
    BY <1>4, <2>1
  <2> QED BY <1>1, <2>1, <2>2 DEF GAP
<1>6. Q(x) /\ x \in DOMAIN cs
  BY <1>4, <1>5
<1>7. Close(cs) = CHOOSE n \in DOMAIN cs : Q(n)
  BY DEF Close
<1> HIDE DEF Q
<1>8. Close(cs) \in DOMAIN cs
  BY <1>6, <1>7
<1> QED BY <1>1, <1>8

LEMMA KindOp ==
    ASSUME NEW op, op \notin {"label", "branch"}, NEW n
    PROVE  Mute(Op(op, n))
<1> DEFINE i == [op |-> op, n |-> n, char |-> Head(switches).char, size |-> 3]
<1>1. Plain(i)
  BY DEF Plain
<1>2. Op(op, n) = Code(i)
  BY DEF Op
<1> HIDE DEF i
<1> QED BY <1>1, <1>2, KindCode

LEMMA HasLookup ==
    ASSUME NEW cs, IsCases(cs), cs # <<>>, NEW dfault, dfault # 0, NEW low, NEW l, l # 0
    PROVE  Has(Lookup(cs, dfault, low, l), {l}, 0, 0)
<1> DEFINE k == Last(cs).value - Head(cs).value + 1
           table == Table(cs, dfault)
           t == [op |-> "table", labels |-> table, size |-> 8 + 2 * Len(table)]
           x1 == LBranch(low, dfault)
           x2 == Op("cmp", Last(cs).value - Head(cs).value)
           x3 == LBranch("HI", l)
           x4 == Code(t)
           x5 == LabelOf(l)
<1>1. k \in Int
  <2>1. Len(cs) \in Nat /\ DOMAIN cs = 1 .. Len(cs) /\ \A i \in DOMAIN cs : cs[i].value \in Int
    BY DEF IsCases, IsSeq
  <2>2. 1 \in DOMAIN cs /\ Head(cs) = cs[1]
    BY TailSeq DEF IsCases
  <2>3. Last(cs) = cs[Len(cs)] /\ Len(cs) \in DOMAIN cs
    BY <2>1, <2>2 DEF Last
  <2>4. Last(cs).value \in Int /\ Head(cs).value \in Int
    BY <2>1, <2>2, <2>3
  <2> QED BY <2>4
<1>2. Len(table) \in Nat
  <2> DEFINE n == IF k < 0 THEN 0 ELSE k
             T == {table[i] : i \in 1 .. n}
  <2>1. DOMAIN table = 1 .. k
    BY DEF Table
  <2>2. n \in Nat /\ 1 .. k = 1 .. n
    BY <1>1
  <2>3. table = [i \in 1 .. n |-> table[i]]
    BY <2>1, <2>2 DEF Table
  <2> HIDE DEF n, table
  <2>4. \A i \in 1 .. n : table[i] \in T
    OBVIOUS
  <2> HIDE DEF T
  <2>5. table \in [1 .. n -> T]
    BY <2>3, <2>4
  <2>6. table \in Seq(T)
    BY <2>2, <2>5, SeqDef
  <2> QED BY <2>6, SeqIs
<1>3. Plain(t)
  <2> HIDE DEF table
  <2>1. t.op = "table" /\ t.size = 8 + 2 * Len(table)
    OBVIOUS
  <2> HIDE DEF t
  <2> QED BY <1>2, <2>1 DEF Plain
<1>4. Lookup(cs, dfault, low, l) = <<x1, x2, x3, x4, x5>>
  BY DEF Lookup
<1> HIDE DEF k, table, t
<1>5. Kind(x1, {}, 0, 0) /\ Kind(x2, {}, 0, 0) /\ Kind(x3, {}, 0, 0) /\ Kind(x4, {}, 0, 0) /\ Kind(x5, {l}, 0, 0)
  <2>1. Mute(x2)
    BY KindOp
  <2> HIDE DEF x2
  <2>2. Mute(x1) /\ Mute(x3)
    BY KindBranch
  <2>3. Mute(x4)
    BY <1>3, KindCode
  <2>4. Kind(x5, {l}, 0, 0)
    BY KindLabel
  <2> HIDE DEF x1, x3, x4, x5
  <2> QED BY <2>1, <2>2, <2>3, <2>4 DEF Mute
<1> HIDE DEF x1, x2, x3, x4, x5
<1>6. /\ IsItem(x1) /\ IsItem(x2) /\ IsItem(x3) /\ IsItem(x4) /\ IsItem(x5)
      /\ Defines(x1) = {} /\ Defines(x2) = {} /\ Defines(x3) = {} /\ Defines(x4) = {} /\ Defines(x5) = {l}
      /\ Weight(x1, Closers) = 0 /\ Weight(x2, Closers) = 0 /\ Weight(x3, Closers) = 0 /\ Weight(x4, Closers) = 0
      /\ Weight(x5, Closers) = 0
      /\ Weight(x1, Loopers) = 0 /\ Weight(x2, Loopers) = 0 /\ Weight(x3, Loopers) = 0 /\ Weight(x4, Loopers) = 0
      /\ Weight(x5, Loopers) = 0
  BY <1>5 DEF Kind
<1> DEFINE D == {l}
           E == Defines(x1) \cup Defines(x2) \cup Defines(x3) \cup Defines(x4) \cup Defines(x5)
           c == Weight(x1, Closers) + Weight(x2, Closers) + Weight(x3, Closers) + Weight(x4, Closers) + Weight(x5, Closers)
           m == Weight(x1, Loopers) + Weight(x2, Loopers) + Weight(x3, Loopers) + Weight(x4, Loopers) + Weight(x5, Loopers)
<1>7. Has(<<x1, x2, x3, x4, x5>>, E, c, m)
  <2>1. /\ Defines(x1) \cap Defines(x2) = {} /\ Defines(x1) \cap Defines(x3) = {} /\ Defines(x1) \cap Defines(x4) = {}
        /\ Defines(x1) \cap Defines(x5) = {} /\ Defines(x2) \cap Defines(x3) = {} /\ Defines(x2) \cap Defines(x4) = {}
        /\ Defines(x2) \cap Defines(x5) = {} /\ Defines(x3) \cap Defines(x4) = {} /\ Defines(x3) \cap Defines(x5) = {}
        /\ Defines(x4) \cap Defines(x5) = {}
    BY <1>6
  <2>2. IsItem(x1) /\ IsItem(x2) /\ IsItem(x3) /\ IsItem(x4) /\ IsItem(x5)
    BY <1>6
  <2> QED BY <2>1, <2>2, HasFive
<1>8. E = D /\ c = 0 /\ m = 0
  BY <1>6
<1> HIDE DEF D, E, c, m
<1>9. Has(<<x1, x2, x3, x4, x5>>, D, 0, 0)
  BY <1>7, <1>8
<1> QED BY <1>4, <1>9 DEF D

LEMMA jumptocasesInv ==
    ASSUME IInv, jumptocases
    PROVE  IInv'
<1> DEFINE c == Head(todo)
           cs == c.cases
           n == Close(cs)
           run == n > RUN
           used == IF run THEN n ELSE 1
           l1 == getlabel(1)
           first == Op("sub", Head(cs).value - c.base)
           look == Lookup(SubSeq(cs, 1, n), c.dfault, c.low, l1)
           one == <<LBranch("EQ", Head(cs).label)>>
           middle == IF run THEN look ELSE one
           rest == [c EXCEPT !.cases = SubSeq(cs, used + 1, Len(cs)), !.base = Head(cs).value, !.low = "LO"]
           items == <<first>> \o middle \o <<rest>>
<1>1. todo # <<>> /\ c.do = "cases" /\ cs # <<>> /\ SyntaxOnly /\ Goes(items) /\ frame' = Reserve(1)
  BY DEF jumptocases, Item
<1>2. c.do \notin Loopers
  BY <1>1 DEF Loopers, Closers
<1>3. DOMAIN c = {"do", "cases", "base", "dfault", "low"} /\ IsCases(cs) /\ c.dfault # 0
  <2>1. IsItem(c)
    BY <1>1, HeadIs
  <2> QED BY <1>1, <2>1 DEF IsItem
<1>4. l1 # 0 /\ l1 = frame.lastlab + 1 /\ frame.lastlab \in Nat
  BY NewLabel
<1>5. Takes(frame', 1)
  BY <1>1, FrameTakes DEF IInv
<1>6. {l1} \subseteq (frame.lastlab + 1 .. frame.lastlab + 1) \cup Defines(Head(todo))
  BY <1>4
<1>7. n \in 1 .. Len(cs) /\ Len(cs) \in Nat /\ used \in 1 .. Len(cs)
  <2> HIDE DEF cs
  <2>1. n \in 1 .. Len(cs) /\ Len(cs) \in Nat
    BY <1>1, <1>3, CloseIs
  <2> HIDE DEF n
  <2> QED BY <2>1
<1>8. Mute(first)
  BY KindOp
<1>9. Mute(rest)
  <2>1. IsCases(SubSeq(cs, used + 1, Len(cs)))
    <3>1. used + 1 \in 1 .. Len(cs) + 1 /\ Len(cs) \in 0 .. Len(cs)
      BY <1>7
    <3> HIDE DEF cs, used
    <3> QED BY <1>3, <3>1, CasesPart
  <2> DEFINE s == SubSeq(cs, used + 1, Len(cs))
             v == Head(cs).value
  <2> HIDE DEF s, v
  <2>2. rest = [c EXCEPT !.cases = s, !.base = v, !.low = "LO"]
    BY DEF s, v
  <2> HIDE DEF rest
  <2>3. /\ rest.do = "cases" /\ DOMAIN rest = {"do", "cases", "base", "dfault", "low"}
        /\ rest.cases = s /\ rest.dfault = c.dfault
    <3> HIDE DEF c
    <3> QED BY <1>1, <1>3, <2>2 DEF c
  <2>4. IsCases(rest.cases) /\ rest.dfault # 0
    BY <1>3, <2>1, <2>3 DEF s
  <2> QED BY <2>3, <2>4, KindCases
<1>10. Has(look, {l1}, 0, 0)
  <2> DEFINE part == SubSeq(cs, 1, n)
  <2>1. IsCases(part)
    <3>1. 1 \in 1 .. Len(cs) + 1 /\ n \in 0 .. Len(cs)
      BY <1>7
    <3> HIDE DEF cs, n
    <3> QED BY <1>3, <3>1, CasesPart
  <2>2. part # <<>>
    <3> DEFINE S == {cs[i] : i \in 1 .. n}
    <3>1. n \in Int /\ n >= 1 /\ \A i \in 1 .. n : cs[i] \in S
      BY <1>7
    <3> HIDE DEF cs, n, S
    <3>2. 1 \in Int
      OBVIOUS
    <3>3. Len(part) = IF 1 <= n THEN n - 1 + 1 ELSE 0
      BY <3>1, <3>2, SubSeqProperties
    <3>4. Len(part) = n
      BY <3>1, <3>3
    <3> HIDE DEF part
    <3> QED BY <3>1, <3>4
  <2> DEFINE low == c.low
             dfault == c.dfault
  <2>3. dfault # 0 /\ l1 # 0
    BY <1>3, <1>4
  <2>4. look = Lookup(part, dfault, low, l1)
    OBVIOUS
  <2> HIDE DEF part, low, dfault, l1, look
  <2> QED BY <2>1, <2>2, <2>3, <2>4, HasLookup
<1>11. MuteSeq(one)
  <2>1. Head(cs).label # 0
    <3>1. IsSeq(cs) /\ \A i \in DOMAIN cs : cs[i].label # 0
      BY <1>3 DEF IsCases
    <3> HIDE DEF cs
    <3>2. 1 \in DOMAIN cs /\ Head(cs) = cs[1]
      BY <1>1, <3>1, TailSeq
    <3> QED BY <3>1, <3>2
  <2> QED BY <2>1, KindBranch, MuteOne
<1> HIDE DEF first, rest, look, one
<1>12. MuteSeq(<<first>>) /\ MuteSeq(<<rest>>)
  BY <1>8, <1>9, MuteOne
<1>13. todo # <<>> /\ Head(todo).do \notin Loopers
  BY <1>1, <1>2
<1>14. CASE run
  <2> DEFINE a == <<first>>
             b == <<rest>>
             D == {l1}
             E == {}
  <2>1. items = a \o look \o b
    BY <1>14
  <2>2. Has(a, E, 0, 0) /\ Has(b, E, 0, 0) /\ Has(look, D, 0, 0)
    BY <1>10, <1>12, MuteHas
  <2>3. D \cap E = {} /\ E \cap D = {} /\ E \cup D = D /\ D \cup E = D
    OBVIOUS
  <2> HIDE DEF a, b, D, E, items
  <2>4. Has(a \o look, E \cup D, 0 + 0, 0 + 0)
    BY <2>2, <2>3, HasConcat
  <2>5. Has(a \o look, D, 0, 0)
    BY <2>3, <2>4
  <2>6. Has((a \o look) \o b, D \cup E, 0 + 0, 0 + 0)
    BY <2>2, <2>3, <2>5, HasConcat
  <2> DEFINE t == (a \o look) \o b
  <2>7. Has(items, D, 0, 0)
    <3>1. items = t /\ Has(t, D \cup E, 0, 0)
      BY <2>1, <2>6
    <3> HIDE DEF t
    <3> QED BY <2>3, <3>1
  <2>8. D \subseteq (frame.lastlab + 1 .. frame.lastlab + 1) \cup Defines(Head(todo))
    BY <1>6 DEF D
  <2>9. Goes(items) /\ SyntaxOnly
    BY <1>1 DEF items
  <2> QED BY <1>5, <1>13, <2>7, <2>8, <2>9, SyntaxSilent
<1>15. CASE ~run
  <2> DEFINE a == <<first>>
             b == <<rest>>
  <2>1. items = a \o one \o b
    BY <1>15
  <2>2. MuteSeq(a) /\ MuteSeq(b)
    BY <1>12
  <2> HIDE DEF a, b, items
  <2>3. MuteSeq(a \o one)
    BY <1>11, <2>2, MuteConcat
  <2>4. MuteSeq(items)
    BY <2>1, <2>2, <2>3, MuteConcat
  <2>5. Goes(items) /\ SyntaxOnly
    BY <1>1 DEF items
  <2> QED BY <1>5, <1>13, <2>4, <2>5, SyntaxMute
<1> QED BY <1>14, <1>15

-----------------------------------------------------------------------------
(* The actions that change the loops and the switches.                     *)
LEMMA Changing ==
    ASSUME IInv, todo # <<>>, NEW items, Goes(items), prog' = prog, g' = g,
           NamesRight', NamedLabels(named)' = NamedLabels(named),
           FrameRight', NEW n \in Nat, frame'.lastlab = frame.lastlab + n,
           NEW D, NEW c \in Nat, NEW m \in Nat, Has(items, D, c, m),
           D \subseteq (frame.lastlab + 1 .. frame.lastlab + n) \cup Defines(Head(todo)),
           Len(switches') = c + (Len(switches) - Weight(Head(todo), Closers)),
           Len(loops') = m + (Len(loops) - Weight(Head(todo), Loopers)),
           ListsRight'
    PROVE  IInv'
<1>1. frame.lastlab \in Nat
  BY DEF IInv, FrameRight
<1>2. Allocated \subseteq Allocated'
  BY <1>1 DEF Allocated
<1>3. /\ IsItem(Head(todo)) /\ Defines(Head(todo)) \subseteq Allocated
      /\ Defines(Head(todo)) \cap Labels(g.code) = {}
  BY HeadIs
<1>4. ASSUME NEW l \in frame.lastlab + 1 .. frame.lastlab + n PROVE l \notin Allocated /\ l \in Allocated'
  <2>1. l \notin Allocated
    BY <1>1, AllocatedIs DEF IInv
  <2>2. l \in 1 .. frame'.lastlab
    BY <1>1
  <2> QED BY <2>1, <2>2 DEF Allocated
<1>5. D \subseteq Allocated' /\ D \cap Allocated \subseteq Defines(Head(todo))
  BY <1>2, <1>3, <1>4
<1>6. Labels(g.code) \subseteq Allocated
  BY DEF IInv, LeftToDo, Left
<1>7. D \cap Labels(g'.code) = {}
  BY <1>3, <1>5, <1>6
<1>8. Made(g') /\ Labels(g'.code) \subseteq Labels(g.code) \cup Defines(Head(todo))
  BY DEF IInv
<1> QED BY <1>2, <1>5, <1>7, <1>8, StepInv

\* Of the lists only the loops, which are of weight m more than before.
LEMMA ChangingLoops ==
    ASSUME IInv, todo # <<>>, NEW items, Goes(items), prog' = prog, g' = g, named' = named, switches' = switches,
           NEW n \in Nat, Takes(frame', n),
           NEW D, NEW m \in Nat, Has(items, D, 0, m),
           D \subseteq (frame.lastlab + 1 .. frame.lastlab + n) \cup Defines(Head(todo)),
           Weight(Head(todo), Closers) = 0,
           Len(loops') = m + (Len(loops) - Weight(Head(todo), Loopers)),
           IsSeq(loops'), \A i \in DOMAIN loops' : loops'[i].breaklab # 0
    PROVE  IInv'
<1>1. FrameRight' /\ frame'.lastlab = frame.lastlab + n /\ frame'.switched = frame.switched
  BY FrameKept DEF IInv
<1>2. NamesRight' /\ NamedLabels(named)' = NamedLabels(named)
  BY <1>1, NamesSame DEF IInv
<1>3. ListsRight'
  BY DEF IInv, ListsRight
<1>4. Len(switches') = 0 + (Len(switches) - Weight(Head(todo), Closers))
  <2>1. Len(switches) \in Nat
    BY DEF IInv, ListsRight, IsSeq
  <2> QED BY <2>1
<1> DEFINE c == 0
<1>5. c \in Nat /\ Has(items, D, c, m) /\ Len(switches') = c + (Len(switches) - Weight(Head(todo), Closers))
  BY <1>4
<1> HIDE DEF c
<1> QED BY <1>1, <1>2, <1>3, <1>5, Changing

LEMMA ConsSeq ==
    ASSUME NEW x, NEW s, IsSeq(s)
    PROVE  /\ IsSeq(<<x>> \o s) /\ Len(<<x>> \o s) = Len(s) + 1 /\ Len(s) \in Nat
           /\ \A i \in DOMAIN (<<x>> \o s) : (<<x>> \o s)[i] = x \/ \E j \in DOMAIN s : (<<x>> \o s)[i] = s[j]
<1> DEFINE a == <<x>>
           t == a \o s
<1>1. IsSeq(a) /\ DOMAIN a = {1} /\ Len(a) = 1 /\ a[1] = x
  BY OneSeq
<1> HIDE DEF a
<1>2. IsSeq(t) /\ Len(s) \in Nat
  BY <1>1, ConcatSeq
<1>3. Len(t) = Len(a) + Len(s)
  BY <1>1, ConcatSeq
<1>4. ASSUME NEW i \in DOMAIN t PROVE t[i] = x \/ \E j \in DOMAIN s : t[i] = s[j]
  <2>1. \/ i \in DOMAIN a /\ t[i] = a[i]
        \/ i - Len(a) \in DOMAIN s /\ t[i] = s[i - Len(a)] /\ i \notin DOMAIN a
    BY <1>1, ConcatIndex
  <2> HIDE DEF t
  <2> QED BY <1>1, <2>1
<1> HIDE DEF t
<1>5. Len(t) = Len(s) + 1
  BY <1>1, <1>2, <1>3
<1> QED BY <1>2, <1>4, <1>5 DEF t, a

LEMMA AddLoop ==
    ASSUME IInv, NEW x, x.breaklab # 0, loops' = <<x>> \o loops
    PROVE  /\ Len(loops') = Len(loops) + 1 /\ Len(loops) \in Nat /\ IsSeq(loops')
           /\ \A i \in DOMAIN loops' : loops'[i].breaklab # 0
<1> DEFINE s == <<x>> \o loops
<1>1. IsSeq(loops) /\ \A i \in DOMAIN loops : loops[i].breaklab # 0
  BY DEF IInv, ListsRight
<1>2. /\ IsSeq(s) /\ Len(s) = Len(loops) + 1 /\ Len(loops) \in Nat
      /\ \A i \in DOMAIN s : s[i] = x \/ \E j \in DOMAIN loops : s[i] = loops[j]
  BY <1>1, ConsSeq
<1> HIDE DEF s
<1>3. \A i \in DOMAIN s : s[i].breaklab # 0
  BY <1>1, <1>2
<1>4. loops' = s
  BY DEF s
<1> QED BY <1>2, <1>3, <1>4

LEMMA addloopIs ==
    ASSUME IInv, addloop
    PROVE  /\ Len(loops') = Len(loops) + 1 /\ Len(loops) \in Nat /\ IsSeq(loops')
           /\ \A i \in DOMAIN loops' : loops'[i].breaklab # 0
<1> DEFINE x == [breaklab |-> getlabel(1), contlab |-> getlabel(2), spmark |-> frame.sp]
<1>1. x.breaklab # 0
  BY NewLabel
<1>2. loops' = <<x>> \o loops
  BY DEF addloop
<1> HIDE DEF x
<1> QED BY <1>1, <1>2, AddLoop

\* A statement that begins a loop, and the items that it becomes.
LEMMA LoopInv ==
    ASSUME IInv, NEW t, Statement(t), addloop, Looping, NEW items, Goes(items),
           NEW D, Has(items, D, 0, 1), D \subseteq frame.lastlab + 1 .. frame.lastlab + 5
    PROVE  IInv'
<1>1. todo # <<>> /\ Weight(Head(todo), Closers) = 0 /\ Weight(Head(todo), Loopers) = 0
  BY StatementIs
<1>2. prog' = prog /\ g' = g /\ named' = named /\ switches' = switches
  BY DEF Looping
<1>3. Takes(frame', 5)
  <2>1. frame' = [Reserve(5) EXCEPT !.test = next]
    BY DEF Looping
  <2> QED BY <2>1, FrameTakes DEF IInv
<1>4. /\ Len(loops') = Len(loops) + 1 /\ Len(loops) \in Nat /\ IsSeq(loops')
      /\ \A i \in DOMAIN loops' : loops'[i].breaklab # 0
  BY addloopIs
<1>5. Len(loops') = 1 + (Len(loops) - Weight(Head(todo), Loopers))
  BY <1>1, <1>4
<1>6. D \subseteq (frame.lastlab + 1 .. frame.lastlab + 5) \cup Defines(Head(todo))
  OBVIOUS
<1> QED BY <1>1, <1>2, <1>3, <1>4, <1>5, <1>6, ChangingLoops

\* The labels of a loop.
LEMMA LoopLabels ==
    ASSUME IInv
    PROVE  /\ getlabel(1) = frame.lastlab + 1 /\ getlabel(2) = frame.lastlab + 2 /\ getlabel(3) = frame.lastlab + 3
           /\ getlabel(4) = frame.lastlab + 4 /\ getlabel(5) = frame.lastlab + 5 /\ frame.lastlab \in Nat
BY DEF IInv, FrameRight, getlabel

\* The body, and the label for continue behind it.
LEMMA HasBody ==
    ASSUME NEW l, NEW k, l # k, NEW p
    PROVE  Has(<<LabelOf(l), State, LabelOf(k), At(p)>>, {l, k}, 0, 0)
<1> DEFINE x1 == LabelOf(l)
           x2 == State
           x3 == LabelOf(k)
           x4 == At(p)
<1>1. Kind(x1, {l}, 0, 0) /\ Kind(x2, {}, 0, 0) /\ Kind(x3, {k}, 0, 0) /\ Kind(x4, {}, 0, 0)
  <2>1. At(p).do \in Silent
    BY DEF At, Silent
  <2>2. Mute(At(p))
    BY <2>1, KindSilent
  <2> QED BY <2>2, KindLabel, KindState DEF Mute
<1> HIDE DEF x1, x2, x3, x4
<1>2. /\ IsItem(x1) /\ IsItem(x2) /\ IsItem(x3) /\ IsItem(x4)
      /\ Defines(x1) = {l} /\ Defines(x2) = {} /\ Defines(x3) = {k} /\ Defines(x4) = {}
      /\ Weight(x1, Closers) = 0 /\ Weight(x2, Closers) = 0 /\ Weight(x3, Closers) = 0 /\ Weight(x4, Closers) = 0
      /\ Weight(x1, Loopers) = 0 /\ Weight(x2, Loopers) = 0 /\ Weight(x3, Loopers) = 0 /\ Weight(x4, Loopers) = 0
  BY <1>1 DEF Kind
<1>3. {l} \cap {k} = {}
  OBVIOUS
<1>4. Has(<<x1, x2, x3, x4>>, {l} \cup {} \cup {k} \cup {}, 0 + 0 + 0 + 0, 0 + 0 + 0 + 0)
  BY <1>2, <1>3, HasFour
<1> DEFINE D == {l, k}
<1>5. {l} \cup {} \cup {k} \cup {} = D
  OBVIOUS
<1> HIDE DEF D
<1>6. Has(<<x1, x2, x3, x4>>, D, 0, 0)
  BY <1>4, <1>5
<1> QED BY <1>6 DEF x1, x2, x3, x4, D

\* Sequences put together, one of them of no weight.
LEMMA HasAfter ==
    ASSUME NEW a, MuteSeq(a), NEW b, NEW E, NEW d \in Nat, NEW n \in Nat, Has(b, E, d, n)
    PROVE  Has(a \o b, E, d, n) /\ Has(b \o a, E, d, n)
<1> DEFINE D == {}
<1>1. Has(a, D, 0, 0)
  BY MuteHas
<1>2. D \cap E = {} /\ E \cap D = {} /\ D \cup E = E /\ E \cup D = E /\ 0 + d = d /\ d + 0 = d /\ 0 + n = n /\ n + 0 = n
  OBVIOUS
<1> HIDE DEF D
<1>3. Has(a \o b, D \cup E, 0 + d, 0 + n)
  BY <1>1, <1>2, HasConcat
<1>4. Has(b \o a, E \cup D, d + 0, n + 0)
  BY <1>1, <1>2, HasConcat
<1>5. Has(a \o b, E, d, n)
  BY <1>2, <1>3
<1>6. Has(b \o a, E, d, n)
  BY <1>2, <1>4
<1> QED BY <1>5, <1>6

LEMMA dowhileInv ==
    ASSUME IInv, dowhile
    PROVE  IInv'
<1> DEFINE l1 == getlabel(1)
           l2 == getlabel(2)
           l3 == getlabel(3)
           l4 == getlabel(4)
           a == IF isforever(Sym.x) THEN <<>> ELSE <<Jump(l2)>>
           b == <<LabelOf(l3), State, LabelOf(l2), At(next)>>
           c == jumptrue(Sym.x, l3, l4)
           d == <<End("loop", l1)>>
           items == a \o b \o c \o d
<1>1. Statement("while") /\ addloop /\ Looping /\ Goes(items)
  BY DEF dowhile
<1>2. l1 = frame.lastlab + 1 /\ l2 = frame.lastlab + 2 /\ l3 = frame.lastlab + 3 /\ l4 = frame.lastlab + 4
      /\ frame.lastlab \in Nat
  BY LoopLabels
<1> HIDE DEF l1, l2, l3, l4
<1>3. l1 # 0 /\ l2 # 0 /\ l3 # 0 /\ l4 # 0 /\ l3 # l2
  BY <1>2
<1>4. MuteSeq(a)
  BY <1>3, KindBranch, MuteOne, MuteNone
<1>5. Has(b, {l3, l2}, 0, 0)
  BY <1>3, HasBody
<1>6. Has(c, {l4}, 0, 0)
  BY <1>3, HasJumps
<1>7. Has(d, {l1}, 0, 1)
  BY KindEnd, KindHas
<1> HIDE DEF a, b, c, d
<1> DEFINE E == {l3, l2}
           F == {l3, l2, l4}
           G == {l3, l2, l4, l1}
<1>8. E \cap {l4} = {} /\ F = E \cup {l4} /\ F \cap {l1} = {} /\ G = F \cup {l1}
      /\ G \subseteq frame.lastlab + 1 .. frame.lastlab + 5
  BY <1>2
<1>9. Has(a \o b, E, 0, 0)
  BY <1>4, <1>5, HasAfter
<1> HIDE DEF E, F, G
<1>10. Has(a \o b \o c, F, 0, 0)
  <2>1. Has(a \o b \o c, E \cup {l4}, 0 + 0, 0 + 0)
    BY <1>6, <1>8, <1>9, HasConcat
  <2> QED BY <1>8, <2>1
<1>11. Has(items, G, 0, 1)
  <2>1. Has(items, F \cup {l1}, 0 + 0, 0 + 1)
    BY <1>7, <1>8, <1>10, HasConcat
  <2> QED BY <1>8, <2>1
<1> HIDE DEF items
<1> QED BY <1>1, <1>8, <1>11, LoopInv

LEMMA doforInv ==
    ASSUME IInv, dofor
    PROVE  IInv'
<1> DEFINE l1 == getlabel(1)
           l2 == getlabel(2)
           l3 == getlabel(3)
           l4 == getlabel(4)
           l5 == getlabel(5)
           init == IF Sym.n = 1 THEN <<Code(Eval(next, "init", 3))>> ELSE <<>>
           step == IF Sym.n = 1 THEN <<Code(Eval(next, "step", 3))>> ELSE <<>>
           a == IF isforever(Sym.x) THEN <<>> ELSE <<Jump(l4)>>
           b == <<LabelOf(l3), State, LabelOf(l2), At(next)>>
           e == <<LabelOf(l4)>>
           c == IF isforever(Sym.x) THEN <<Jump(l3)>> ELSE e \o jumptrue(Sym.x, l3, l5)
           d == <<End("loop", l1)>>
           items == init \o a \o b \o step \o c \o d
<1>1. Statement("for") /\ addloop /\ Looping /\ Goes(items)
  BY DEF dofor
<1>2. l1 = frame.lastlab + 1 /\ l2 = frame.lastlab + 2 /\ l3 = frame.lastlab + 3 /\ l4 = frame.lastlab + 4
      /\ l5 = frame.lastlab + 5 /\ frame.lastlab \in Nat
  BY LoopLabels
<1> HIDE DEF l1, l2, l3, l4, l5
<1>3. l1 # 0 /\ l2 # 0 /\ l3 # 0 /\ l4 # 0 /\ l5 # 0 /\ l3 # l2
  BY <1>2
<1>4. MuteSeq(init) /\ MuteSeq(step)
  <2>1. Plain(Eval(next, "init", 3)) /\ Plain(Eval(next, "step", 3))
    BY PlainIs
  <2> QED BY <2>1, KindCode, MuteOne, MuteNone
<1>5. MuteSeq(a)
  BY <1>3, KindBranch, MuteOne, MuteNone
<1>6. Has(b, {l3, l2}, 0, 0)
  BY <1>3, HasBody
<1>7. Has(d, {l1}, 0, 1)
  BY KindEnd, KindHas
<1>8. Has(c, {}, 0, 0) \/ Has(c, {l4, l5}, 0, 0)
  <2>1. Has(<<Jump(l3)>>, {}, 0, 0)
    BY <1>3, KindBranch, MuteOne, MuteHas
  <2>2. Has(e, {l4}, 0, 0)
    BY KindLabel, KindHas
  <2> DEFINE j == jumptrue(Sym.x, l3, l5)
             D == {l4, l5}
  <2>3. Has(j, {l5}, 0, 0)
    BY <1>3, HasJumps
  <2>4. {l4} \cap {l5} = {} /\ D = {l4} \cup {l5}
    BY <1>2
  <2> HIDE DEF e, j, D
  <2>5. Has(e \o j, D, 0, 0)
    <3>1. Has(e \o j, {l4} \cup {l5}, 0 + 0, 0 + 0)
      BY <2>2, <2>3, <2>4, HasConcat
    <3> QED BY <2>4, <3>1
  <2>6. c = <<Jump(l3)>> \/ c = e \o j
    BY DEF j
  <2> HIDE DEF c
  <2> QED BY <2>1, <2>5, <2>6 DEF D
<1> HIDE DEF a, b, c, d, init, step
<1>9. MuteSeq(init \o a)
  BY <1>4, <1>5, MuteConcat
<1>10. Has(init \o a \o b, {l3, l2}, 0, 0)
  BY <1>6, <1>9, HasAfter
<1>11. Has(init \o a \o b \o step, {l3, l2}, 0, 0)
  BY <1>4, <1>10, HasAfter
<1> DEFINE s == init \o a \o b \o step
           D == {l3, l2}
<1>12. ASSUME NEW C, C \subseteq {l4, l5}, Has(c, C, 0, 0) PROVE IInv'
  <2> DEFINE F == D \cup C
             G == F \cup {l1}
  <2>1. D \cap C = {} /\ F \cap {l1} = {} /\ G \subseteq frame.lastlab + 1 .. frame.lastlab + 5
    <3>1. l1 \notin {l2, l3, l4, l5} /\ l2 \notin {l4, l5} /\ l3 \notin {l4, l5}
      BY <1>2
    <3>2. {l1, l2, l3, l4, l5} \subseteq frame.lastlab + 1 .. frame.lastlab + 5
      BY <1>2
    <3> QED BY <1>12, <3>1, <3>2
  <2>2. Has(s, D, 0, 0)
    BY <1>11
  <2>3. items = s \o c \o d
    OBVIOUS
  <2>4. F = D \cup C /\ G = F \cup {l1}
    OBVIOUS
  <2> HIDE DEF D, F, G, s, items
  <2>5. Has(s \o c, F, 0, 0)
    <3>1. Has(s \o c, D \cup C, 0 + 0, 0 + 0)
      BY <1>12, <2>1, <2>2, HasConcat
    <3> QED BY <2>4, <3>1
  <2>6. Has(s \o c \o d, G, 0, 1)
    <3>1. Has(s \o c \o d, F \cup {l1}, 0 + 0, 0 + 1)
      BY <1>7, <2>1, <2>5, HasConcat
    <3> QED BY <2>4, <3>1
  <2>7. Has(items, G, 0, 1)
    BY <2>3, <2>6
  <2>8. Goes(items)
    BY <1>1 DEF items, s
  <2> QED BY <1>1, <2>1, <2>7, <2>8, LoopInv
<1>13. {} \subseteq {l4, l5} /\ {l4, l5} \subseteq {l4, l5}
  OBVIOUS
<1> QED BY <1>8, <1>12, <1>13

LEMMA dodowhileInv ==
    ASSUME IInv, dodowhile
    PROVE  IInv'
<1> DEFINE l1 == getlabel(1)
           l2 == getlabel(2)
           l3 == getlabel(3)
           x1 == LabelOf(l3)
           x2 == State
           x3 == LabelOf(l2)
           x4 == [do |-> "do while", again |-> l3, brk |-> l1]
           items == <<x1, x2, x3, x4>>
<1>1. Statement("do") /\ addloop /\ Looping /\ Goes(items)
  BY DEF dodowhile
<1>2. l1 = frame.lastlab + 1 /\ l2 = frame.lastlab + 2 /\ l3 = frame.lastlab + 3 /\ frame.lastlab \in Nat
  BY LoopLabels
<1> HIDE DEF l1, l2, l3
<1>3. l1 # 0 /\ l2 # 0 /\ l3 # 0
  BY <1>2
<1>4. Kind(x1, {l3}, 0, 0) /\ Kind(x2, {}, 0, 0) /\ Kind(x3, {l2}, 0, 0) /\ Kind(x4, {l1}, 0, 1)
  <2>1. x4.do = "do while" /\ x4.again # 0 /\ x4.brk = l1
    BY <1>3
  <2> HIDE DEF x4
  <2>2. Kind(x4, {l1}, 0, 1)
    BY <2>1, KindDoWhile
  <2> QED BY <2>2, KindLabel, KindState DEF Mute
<1> HIDE DEF x1, x2, x3, x4
<1>5. /\ IsItem(x1) /\ IsItem(x2) /\ IsItem(x3) /\ IsItem(x4)
      /\ Defines(x1) = {l3} /\ Defines(x2) = {} /\ Defines(x3) = {l2} /\ Defines(x4) = {l1}
      /\ Weight(x1, Closers) = 0 /\ Weight(x2, Closers) = 0 /\ Weight(x3, Closers) = 0 /\ Weight(x4, Closers) = 0
      /\ Weight(x1, Loopers) = 0 /\ Weight(x2, Loopers) = 0 /\ Weight(x3, Loopers) = 0 /\ Weight(x4, Loopers) = 1
  BY <1>4 DEF Kind
<1>6. {l3} \cap {l2} = {} /\ {l3} \cap {l1} = {} /\ {l2} \cap {l1} = {}
  BY <1>2
<1>7. Has(<<x1, x2, x3, x4>>, {l3} \cup {} \cup {l2} \cup {l1}, 0 + 0 + 0 + 0, 0 + 0 + 0 + 1)
  BY <1>5, <1>6, HasFour
<1> DEFINE D == {l3, l2, l1}
<1>8. {l3} \cup {} \cup {l2} \cup {l1} = D /\ D \subseteq frame.lastlab + 1 .. frame.lastlab + 5
  BY <1>2
<1> HIDE DEF D
<1>9. Has(items, D, 0, 1)
  BY <1>7, <1>8
<1> HIDE DEF items
<1> QED BY <1>1, <1>8, <1>9, LoopInv

LEMMA TailIs ==
    ASSUME NEW s, IsSeq(s), s # <<>>
    PROVE  IsSeq(Tail(s)) /\ Len(Tail(s)) = Len(s) - 1 /\ Len(s) \in Nat
           /\ \A i \in DOMAIN Tail(s) : \E j \in DOMAIN s : Tail(s)[i] = s[j]
<1>1. IsSeq(Tail(s)) /\ \A i \in DOMAIN Tail(s) : i + 1 \in DOMAIN s /\ Tail(s)[i] = s[i + 1]
  BY TailSeq
<1>2. Len(Tail(s)) = Len(s) - 1
  BY HeadTailProperties DEF IsSeq
<1>3. Len(s) \in Nat
  BY DEF IsSeq
<1> QED BY <1>1, <1>2, <1>3

LEMMA deleteloopInv ==
    ASSUME IInv, deleteloop
    PROVE  IInv'
<1> DEFINE brk == Head(todo).brk
           items == <<LabelOf(brk)>>
<1>1. todo # <<>> /\ Head(todo).do = "loop" /\ Goes(items) /\ loops' = Tail(loops) /\ frame' = Effective(frame)
      /\ prog' = prog /\ g' = g /\ switches' = switches /\ named' = named
  BY DEF deleteloop, Item
<1>2. Defines(Head(todo)) = {brk}
  BY <1>1, BrkIs
<1>3. Weight(Head(todo), Closers) = 0 /\ Weight(Head(todo), Loopers) = 1
  BY <1>1 DEF Weight, Loopers, Closers
<1>4. loops # <<>> /\ IsSeq(loops) /\ Len(loops) \in Nat
  BY <1>1, <1>3, OpenLoop
<1>5. /\ IsSeq(loops') /\ Len(loops') = 0 + (Len(loops) - Weight(Head(todo), Loopers))
      /\ \A i \in DOMAIN loops' : loops'[i].breaklab # 0
  <2> DEFINE t == Tail(loops)
  <2>1. IsSeq(t) /\ Len(t) = Len(loops) - 1 /\ \A i \in DOMAIN t : \E j \in DOMAIN loops : t[i] = loops[j]
    BY <1>4, TailIs
  <2>2. \A i \in DOMAIN loops : loops[i].breaklab # 0
    BY DEF IInv, ListsRight
  <2> HIDE DEF t
  <2>3. loops' = t
    BY <1>1 DEF t
  <2> QED BY <1>3, <1>4, <2>1, <2>2, <2>3
<1>6. Has(items, {brk}, 0, 0)
  BY KindLabel, KindHas
<1>7. {brk} \subseteq (frame.lastlab + 1 .. frame.lastlab + 0) \cup Defines(Head(todo))
  BY <1>2
<1>8. Takes(frame', 0)
  BY <1>1, FrameTakes DEF IInv
<1> HIDE DEF items, brk
<1> QED BY <1>1, <1>3, <1>5, <1>6, <1>7, <1>8, ChangingLoops

-----------------------------------------------------------------------------
(* The labels of names.                                                    *)
LEMMA HighlabIs ==
    ASSUME FrameRight
    PROVE  /\ IsFiniteSet({x \in Names : named[x].indcount # 0})
           /\ Cardinality({x \in Names : named[x].indcount # 0}) \in Nat
           /\ Highlab \in Int /\ Highlab <= -1
<1>1. {x \in Names : named[x].indcount # 0} \subseteq Names /\ IsFiniteSet(Names)
  BY ProgramsAssumption
<1>2. IsFiniteSet({x \in Names : named[x].indcount # 0}) /\ Cardinality({x \in Names : named[x].indcount # 0}) \in Nat
  BY <1>1, FS_Subset, FS_CardinalityType
<1> QED BY <1>2 DEF Highlab, FrameRight

LEMMA NameLabel ==
    ASSUME NamesRight, FrameRight, NEW n \in Names, NEW l, l = namedlabel(n).offlabel, NEW k \in Nat, k # 0,
           named' = [named EXCEPT ![n] = [offlabel |-> l, indcount |-> k]], frame'.switched = frame.switched
    PROVE  NamesRight' /\ l \in Int /\ l <= -1
<1> DEFINE I == {x \in Names : named[x].indcount # 0}
           J == {x \in Names : named'[x].indcount # 0}
<1>1. /\ IsFiniteSet(I) /\ Cardinality(I) \in Nat /\ Highlab \in Int /\ Highlab <= -1 /\ frame.switched \in Nat
      /\ Highlab = -1 - Cardinality(I) - frame.switched /\ Highlab' = -1 - Cardinality(J) - frame.switched
  BY HighlabIs DEF FrameRight, Highlab
<1>2. /\ named \in [Names -> [offlabel : Int, indcount : Nat]]
      /\ \A x \in Names : named[x].indcount # 0 => named[x].offlabel \in Highlab + 1 .. -1
      /\ \A x, y \in Names : x # y /\ named[x].indcount # 0 /\ named[y].indcount # 0 => named[x].offlabel # named[y].offlabel
  BY DEF NamesRight
<1>3. /\ named'[n].offlabel = l /\ named'[n].indcount = k /\ \A x \in Names : x # n => named'[x] = named[x]
  BY <1>2
<1>4. J = I \cup {n}
  BY <1>3
<1>5. l \in Highlab' + 1 .. -1 /\ Highlab' \in Int /\ Highlab' <= Highlab
      /\ \A x \in Names : x # n /\ named[x].indcount # 0 => named[x].offlabel # l
  <2>1. CASE named[n].indcount = 0
    <3>1. l = Highlab
      BY <2>1 DEF namedlabel
    <3>2. n \notin I
      BY <2>1
    <3> HIDE DEF I, J
    <3>3. Cardinality(J) = Cardinality(I) + 1
      BY <1>1, <1>4, <3>2, FS_AddElement
    <3>4. Highlab' = Highlab - 1
      BY <1>1, <3>3
    <3>5. \A x \in Names : named[x].indcount # 0 => named[x].offlabel \in Int /\ named[x].offlabel >= Highlab + 1
      BY <1>1, <1>2
    <3> QED BY <1>1, <3>1, <3>4, <3>5
  <2>2. CASE named[n].indcount # 0
    <3>1. l = named[n].offlabel
      BY <2>2 DEF namedlabel
    <3>2. J = I
      BY <1>4, <2>2
    <3>3. Highlab' = Highlab
      BY <1>1, <3>2
    <3>4. l \in Highlab + 1 .. -1
      BY <1>2, <2>2, <3>1
    <3>5. \A x \in Names : x # n /\ named[x].indcount # 0 => named[x].offlabel # l
      BY <1>2, <2>2, <3>1
    <3> QED BY <1>1, <3>3, <3>4, <3>5
  <2> QED BY <2>1, <2>2
<1>6. l \in Int /\ l <= -1
  BY <1>5
<1>7. named' \in [Names -> [offlabel : Int, indcount : Nat]]
  BY <1>2, <1>6
<1>8. ASSUME NEW x \in Names, named'[x].indcount # 0 PROVE named'[x].offlabel \in Highlab' + 1 .. -1
  <2>1. CASE x = n
    BY <1>3, <1>5, <2>1
  <2>2. CASE x # n
    <3>1. named'[x] = named[x] /\ named[x].offlabel \in Highlab + 1 .. -1
      BY <1>2, <1>3, <1>8, <2>2
    <3> QED BY <1>1, <1>5, <3>1
  <2> QED BY <2>1, <2>2
<1>9. ASSUME NEW x \in Names, NEW y \in Names, x # y, named'[x].indcount # 0, named'[y].indcount # 0
      PROVE  named'[x].offlabel # named'[y].offlabel
  BY <1>2, <1>3, <1>5, <1>9
<1> QED BY <1>6, <1>7, <1>8, <1>9 DEF NamesRight

LEMMA NamesLower ==
    ASSUME NamesRight, FrameRight, named' = named, frame'.switched \in Nat, frame'.switched >= frame.switched
    PROVE  NamesRight' /\ NamedLabels(named)' = NamedLabels(named)
<1> DEFINE I == {x \in Names : named[x].indcount # 0}
<1>1. /\ Cardinality(I) \in Nat /\ Highlab \in Int /\ frame.switched \in Nat
      /\ Highlab = -1 - Cardinality(I) - frame.switched /\ Highlab' = -1 - Cardinality(I) - frame'.switched
  BY HighlabIs DEF FrameRight, Highlab
<1> HIDE DEF I
<1>2. Highlab' \in Int /\ Highlab' <= Highlab
  BY <1>1
<1>3. ASSUME NEW x \in Names, named[x].indcount # 0 PROVE named'[x].offlabel \in Highlab' + 1 .. -1
  <2>1. named[x].offlabel \in Highlab + 1 .. -1
    BY <1>3 DEF NamesRight
  <2> QED BY <1>1, <1>2, <2>1
<1> QED BY <1>3 DEF NamesRight, NamedLabels

\* Names that are not yet at their place are not among the labels.
LEMMA NotNamed ==
    ASSUME NamesRight, NEW n \in Names, named[n].indcount # 0, named[n].indcount \notin {3, 4}
    PROVE  named[n].offlabel \notin NamedLabels(named)
BY DEF NamesRight, NamedLabels

LEMMA NameIs ==
    ASSUME IInv, NEW t \in {"goto", "label"}, Statement(t)
    PROVE  Sym.n \in Names
BY StatementIs, ProgramsAssumption DEF Sym

LEMMA dogotoInv ==
    ASSUME IInv, dogoto
    PROVE  IInv'
<1> DEFINE n == Sym.n
           l == named'[n].offlabel
           k == namedlabel(n).indcount
           i == IF InSwitch THEN AddSp(0, l, frame.swstacklab) ELSE AddSp(-frame.sp, l, 0)
           items == <<Code(i), Jump(l)>>
<1>1. Statement("goto") /\ named' = [named EXCEPT ![n] = namedlabel(n)] /\ Goes(items) /\ frame' = Effective(frame)
      /\ prog' = prog /\ g' = g /\ loops' = loops /\ switches' = switches
  BY DEF dogoto
<1>2. /\ todo # <<>> /\ Weight(Head(todo), Closers) = 0 /\ Weight(Head(todo), Loopers) = 0
  BY <1>1, StatementIs
<1>3. n \in Names
  BY <1>1, NameIs
<1>4. named \in [Names -> [offlabel : Int, indcount : Nat]] /\ NamesRight /\ FrameRight
  BY DEF IInv, NamesRight
<1>5. /\ FrameRight' /\ frame'.lastlab = frame.lastlab + 0 /\ frame'.switched = frame.switched
  <2>1. Takes(frame', 0)
    BY <1>1, FrameTakes DEF IInv
  <2> QED BY <1>4, <2>1, FrameKept
<1> HIDE DEF n
<1>6. l = namedlabel(n).offlabel /\ namedlabel(n) = [offlabel |-> l, indcount |-> k] /\ k \in Nat /\ k # 0
  <2>1. l = namedlabel(n).offlabel
    BY <1>1, <1>3, <1>4
  <2>2. CASE named[n].indcount = 0
    BY <2>1, <2>2 DEF namedlabel
  <2>3. CASE named[n].indcount # 0
    <3>1. namedlabel(n) = named[n] /\ named[n] \in [offlabel : Int, indcount : Nat]
      BY <1>3, <1>4, <2>3 DEF namedlabel
    <3> QED BY <2>1, <2>3, <3>1
  <2> QED BY <2>2, <2>3
<1>7. NamesRight' /\ l # 0
  <2>1. named' = [named EXCEPT ![n] = [offlabel |-> l, indcount |-> k]]
    BY <1>1, <1>6
  <2> HIDE DEF l, k
  <2>2. NamesRight' /\ l \in Int /\ l <= -1
    BY <1>3, <1>4, <1>5, <1>6, <2>1, NameLabel
  <2> QED BY <2>2
<1>8. NamedLabels(named)' = NamedLabels(named)
  <2>1. named'[n] = namedlabel(n) /\ \A x \in Names : x # n => named'[x] = named[x]
    BY <1>1, <1>3, <1>4
  <2>2. named[n].indcount \in {3, 4} <=> named'[n].indcount \in {3, 4}
    BY <2>1 DEF namedlabel
  <2>3. named[n].indcount \in {3, 4} => named'[n] = named[n]
    BY <2>1 DEF namedlabel
  <2>4. {x \in Names : named'[x].indcount \in {3, 4}} = {x \in Names : named[x].indcount \in {3, 4}}
    BY <2>1, <2>2
  <2>5. \A x \in {y \in Names : named[y].indcount \in {3, 4}} : named'[x].offlabel = named[x].offlabel
    BY <2>1, <2>3
  <2> QED BY <2>4, <2>5 DEF NamedLabels
<1>9. MuteSeq(items)
  <2>1. Plain(i)
    BY PlainIs
  <2> HIDE DEF i, l
  <2> QED BY <1>7, <2>1, KindCode, KindBranch, MuteTwo
<1> HIDE DEF items
<1> DEFINE D == {}
           c == 0
<1>10. Has(items, D, c, c) /\ D \subseteq (frame.lastlab + 1 .. frame.lastlab + 0) \cup Defines(Head(todo)) /\ c \in Nat
  BY <1>9, MuteHas
<1>11. /\ Len(switches') = c + (Len(switches) - Weight(Head(todo), Closers))
       /\ Len(loops') = c + (Len(loops) - Weight(Head(todo), Loopers))
  <2>1. Len(switches) \in Nat /\ Len(loops) \in Nat
    BY DEF IInv, ListsRight, IsSeq
  <2> QED BY <1>1, <1>2, <2>1
<1>12. ListsRight'
  BY <1>1 DEF IInv, ListsRight
<1> DEFINE z == 0
<1>13. z \in Nat /\ frame'.lastlab = frame.lastlab + z
       /\ D \subseteq (frame.lastlab + 1 .. frame.lastlab + z) \cup Defines(Head(todo))
  BY <1>5, <1>10
<1> HIDE DEF D, c, z
<1> QED BY <1>1, <1>2, <1>5, <1>7, <1>8, <1>10, <1>11, <1>12, <1>13, Changing

LEMMA LabelledInv ==
    ASSUME IInv, Labelled
    PROVE  IInv'
<1> DEFINE n == Sym.n
           l == namedlabel(n).offlabel
           k == IF InSwitch THEN 3 ELSE 4
           items == <<LabelOf(l), State>>
<1>1. Statement("label") /\ named' = [named EXCEPT ![n] = [offlabel |-> l, indcount |-> k]] /\ Goes(items)
      /\ frame' = frame /\ prog' = prog /\ g' = g /\ loops' = loops /\ switches' = switches
      /\ namedlabel(n).indcount = 2
  BY DEF Labelled
<1>2. /\ todo # <<>> /\ Weight(Head(todo), Closers) = 0 /\ Weight(Head(todo), Loopers) = 0
      /\ Defines(Head(todo)) = {}
  BY <1>1, StatementIs
<1>3. n \in Names
  BY <1>1, NameIs
<1>4. named \in [Names -> [offlabel : Int, indcount : Nat]] /\ NamesRight /\ FrameRight
  BY DEF IInv, NamesRight
<1>5. FrameRight' /\ frame'.lastlab = frame.lastlab /\ frame'.switched = frame.switched /\ frame.lastlab \in Nat
  BY <1>1, <1>4 DEF FrameRight
<1> HIDE DEF n
<1>6. NamesRight' /\ l \in Int /\ l <= -1
  <2>1. k \in Nat /\ k # 0
    OBVIOUS
  <2>2. l = namedlabel(n).offlabel
    OBVIOUS
  <2> HIDE DEF l, k
  <2> QED BY <1>1, <1>3, <1>4, <1>5, <2>1, <2>2, NameLabel
<1>7. l \notin NamedLabels(named)
  <2>1. CASE named[n].indcount = 0
    <3>1. l = Highlab /\ Highlab \in Int
      BY <1>4, <2>1, HighlabIs DEF namedlabel
    <3>2. ASSUME NEW x \in Names, named[x].indcount \in {3, 4} PROVE named[x].offlabel # Highlab
      <4>1. named[x].offlabel \in Highlab + 1 .. -1
        BY <1>4, <3>2 DEF NamesRight
      <4> QED BY <3>1, <4>1
    <3> HIDE DEF l
    <3> QED BY <3>1, <3>2 DEF NamedLabels
  <2>2. CASE named[n].indcount # 0
    <3>1. l = named[n].offlabel /\ named[n].indcount = 2
      BY <1>1, <2>2 DEF namedlabel
    <3>2. named[n].indcount \notin {3, 4}
      BY <3>1
    <3> HIDE DEF l
    <3> QED BY <1>3, <1>4, <2>2, <3>1, <3>2, NotNamed
  <2> QED BY <2>1, <2>2
<1>8. NamedLabels(named)' = NamedLabels(named) \cup {l}
  <2> HIDE DEF l
  <2>1. named'[n].offlabel = l /\ named'[n].indcount = k /\ \A x \in Names : x # n => named'[x] = named[x]
    BY <1>1, <1>3, <1>4
  <2>2. k \in {3, 4} /\ named[n].indcount \notin {3, 4}
    BY <1>1 DEF namedlabel
  <2> HIDE DEF k
  <2>3. {x \in Names : named'[x].indcount \in {3, 4}} = {x \in Names : named[x].indcount \in {3, 4}} \cup {n}
    BY <1>3, <2>1, <2>2
  <2>4. \A x \in {y \in Names : named[y].indcount \in {3, 4}} : named'[x].offlabel = named[x].offlabel
    BY <2>1, <2>2
  <2> QED BY <2>1, <2>3, <2>4 DEF NamedLabels
<1>9. Allocated' = Allocated \cup {l} /\ l \notin Allocated
  BY <1>5, <1>6, <1>7, <1>8 DEF Allocated
<1> DEFINE D == {l}
           c == 0
<1>10. Has(items, D, c, c) /\ c \in Nat
  <2> DEFINE x == LabelOf(l)
             y == State
  <2>1. Kind(x, {l}, 0, 0) /\ Kind(y, {}, 0, 0)
    BY KindLabel, KindState DEF Mute
  <2>2. {l} \cap {} = {}
    OBVIOUS
  <2> HIDE DEF x, y, l
  <2>3. Has(<<x, y>>, {l} \cup {}, 0 + 0, 0 + 0)
    BY <2>1, <2>2, KindTwo
  <2>4. {l} \cup {} = D
    OBVIOUS
  <2> HIDE DEF D
  <2>5. Has(<<x, y>>, D, 0, 0)
    BY <2>3, <2>4
  <2> QED BY <2>5 DEF x, y, l
<1>11. Made(g') /\ Labels(g'.code) \subseteq Labels(g.code) \cup Defines(Head(todo)) /\ Labels(g.code) \subseteq Allocated
  BY <1>1 DEF IInv, LeftToDo, Left
<1> HIDE DEF l, items
<1>12. D \subseteq Allocated' /\ D \cap Allocated \subseteq Defines(Head(todo)) /\ Allocated \subseteq Allocated'
       /\ D \cap Labels(g'.code) = {}
  BY <1>1, <1>9, <1>11
<1>13. /\ Len(switches') = c + (Len(switches) - Weight(Head(todo), Closers))
       /\ Len(loops') = c + (Len(loops) - Weight(Head(todo), Loopers))
  <2>1. Len(switches) \in Nat /\ Len(loops) \in Nat
    BY DEF IInv, ListsRight, IsSeq
  <2> QED BY <1>1, <1>2, <2>1
<1>14. ListsRight'
  BY <1>1 DEF IInv, ListsRight
<1> HIDE DEF D, c
<1> QED BY <1>1, <1>2, <1>5, <1>6, <1>10, <1>11, <1>12, <1>13, <1>14, StepInv

-----------------------------------------------------------------------------
(* switch, its cases, and its end.                                         *)
LEMMA SwitchIs ==
    ASSUME IInv, InSwitch
    PROVE  /\ IsSeq(switches) /\ Len(switches) \in Nat /\ 1 \in DOMAIN switches
           /\ Head(switches) = switches[1] /\ IsSwitch(switches[1])
<1>1. IsSeq(switches) /\ \A i \in DOMAIN switches : IsSwitch(switches[i])
  BY DEF IInv, ListsRight
<1>2. switches # <<>>
  BY DEF InSwitch
<1>3. 1 \in DOMAIN switches /\ Head(switches) = switches[1]
  BY <1>1, <1>2, TailSeq
<1> QED BY <1>1, <1>3 DEF IsSeq

LEMMA doswitchInv ==
    ASSUME IInv, doswitch
    PROVE  IInv'
<1> DEFINE l1 == getlabel(1)
           l3 == getlabel(3)
           loop == [breaklab |-> l1, contlab |-> 0, spmark |-> frame.sp]
           switch == [char |-> Sym.n = 1, cases |-> <<>>, dfaultlab |-> 0]
           x1 == Code(Eval(next, "load", 3))
           x2 == Jump(l3)
           x3 == State
           x4 == [do |-> "decide", brk |-> l1, decide |-> l3, spmark |-> frame.sp]
           items == <<x1, x2, x3, x4>>
           u == IF InSwitch THEN frame.lowsp ELSE frame.sp
           v == IF InSwitch THEN frame.switched ELSE frame.switched + 1
           w == IF InSwitch THEN frame.swstacklab ELSE Highlab
<1>1. /\ Statement("switch") /\ loops' = <<loop>> \o loops /\ switches' = <<switch>> \o switches
      /\ Goes(items) /\ prog' = prog /\ g' = g /\ named' = named
  BY DEF doswitch
<1>2. frame' = [Reserve(3) EXCEPT !.lowsp = u, !.switched = v, !.swstacklab = w]
  <2> DEFINE f == Reserve(3)
  <2>1. f.lowsp = frame.lowsp /\ f.switched = frame.switched /\ f.swstacklab = frame.swstacklab
    BY DEF Reserve, IInv, FrameRight
  <2>2. frame' = [f EXCEPT !.lowsp = IF InSwitch THEN @ ELSE frame.sp,
                           !.switched = IF InSwitch THEN @ ELSE @ + 1,
                           !.swstacklab = IF InSwitch THEN @ ELSE Highlab]
    BY DEF doswitch
  <2> HIDE DEF f
  <2>3. frame' = [f EXCEPT !.lowsp = u, !.switched = v, !.swstacklab = w]
    BY <2>1, <2>2
  <2> QED BY <2>3 DEF f
<1>3. /\ todo # <<>> /\ Weight(Head(todo), Closers) = 0 /\ Weight(Head(todo), Loopers) = 0
  BY <1>1, StatementIs
<1>4. l1 = frame.lastlab + 1 /\ l3 = frame.lastlab + 3 /\ frame.lastlab \in Nat
  BY LoopLabels
<1>5. FrameRight' /\ frame'.lastlab = frame.lastlab + 3 /\ frame'.switched \in Nat /\ frame'.switched >= frame.switched
  <2> DEFINE f == Reserve(3)
  <2>1. DOMAIN f = Fields /\ f.lastlab = frame.lastlab + 3
    BY FrameTakes DEF IInv, Takes
  <2>2. frame.lastlab \in Nat /\ frame.switched \in Nat
    BY DEF IInv, FrameRight
  <2>3. v \in Nat /\ v >= frame.switched
    BY <2>2
  <2> HIDE DEF f, u, v, w
  <2>4. frame' = [f EXCEPT !.lowsp = u, !.switched = v, !.swstacklab = w]
    BY <1>2 DEF f
  <2>5. DOMAIN frame' = Fields /\ frame'.lastlab = frame.lastlab + 3 /\ frame'.switched = v
    BY <2>1, <2>4 DEF Fields
  <2> QED BY <2>2, <2>3, <2>5 DEF FrameRight, Fields
<1> HIDE DEF u, v, w
<1>6. NamesRight' /\ NamedLabels(named)' = NamedLabels(named)
  BY <1>1, <1>5, NamesLower DEF IInv
<1> HIDE DEF l1, l3
<1>7. l1 # 0 /\ l3 # 0 /\ l1 # l3
  BY <1>4
<1>8. Kind(x1, {}, 0, 0) /\ Kind(x2, {}, 0, 0) /\ Kind(x3, {}, 0, 0) /\ Kind(x4, {l1, l3}, 1, 1)
  <2>1. Mute(x1)
    BY PlainIs, KindCode
  <2>2. x4.do = "decide" /\ x4.brk = l1 /\ x4.decide = l3
    OBVIOUS
  <2> HIDE DEF x1, x4
  <2>3. Kind(x4, {l1, l3}, 1, 1)
    BY <1>7, <2>2, KindDecide
  <2> QED BY <1>7, <2>1, <2>3, KindBranch, KindState DEF Mute
<1> HIDE DEF x1, x2, x3, x4
<1> DEFINE D == {l1, l3}
<1>9. /\ IsItem(x1) /\ IsItem(x2) /\ IsItem(x3) /\ IsItem(x4)
      /\ Defines(x1) = {} /\ Defines(x2) = {} /\ Defines(x3) = {} /\ Defines(x4) = D
      /\ Weight(x1, Closers) = 0 /\ Weight(x2, Closers) = 0 /\ Weight(x3, Closers) = 0 /\ Weight(x4, Closers) = 1
      /\ Weight(x1, Loopers) = 0 /\ Weight(x2, Loopers) = 0 /\ Weight(x3, Loopers) = 0 /\ Weight(x4, Loopers) = 1
  BY <1>8 DEF Kind
<1>10. D \subseteq (frame.lastlab + 1 .. frame.lastlab + 3) \cup Defines(Head(todo))
  BY <1>4
<1> HIDE DEF D
<1>11. Has(<<x1, x2, x3, x4>>, {} \cup {} \cup {} \cup D, 0 + 0 + 0 + 1, 0 + 0 + 0 + 1)
  BY <1>9, HasFour
<1> DEFINE c == 1
<1>12. Has(items, D, c, c) /\ c \in Nat
  <2>1. {} \cup {} \cup {} \cup D = D
    OBVIOUS
  <2> QED BY <1>11, <2>1
<1> HIDE DEF items
<1>13. /\ Len(loops') = Len(loops) + 1 /\ Len(loops) \in Nat /\ IsSeq(loops')
       /\ \A i \in DOMAIN loops' : loops'[i].breaklab # 0
  <2>1. loop.breaklab # 0
    BY <1>7
  <2> HIDE DEF loop
  <2> QED BY <1>1, <2>1, AddLoop
<1>14. /\ Len(switches') = Len(switches) + 1 /\ Len(switches) \in Nat /\ IsSeq(switches')
       /\ \A i \in DOMAIN switches' : IsSwitch(switches'[i])
  <2> DEFINE s == <<switch>> \o switches
  <2>1. DOMAIN switch = {"char", "cases", "dfaultlab"} /\ switch.cases = <<>>
    OBVIOUS
  <2> HIDE DEF switch
  <2>2. IsSwitch(switch)
    BY <2>1, CasesNone DEF IsSwitch
  <2>3. IsSeq(switches) /\ \A i \in DOMAIN switches : IsSwitch(switches[i])
    BY DEF IInv, ListsRight
  <2>4. /\ IsSeq(s) /\ Len(s) = Len(switches) + 1 /\ Len(switches) \in Nat
        /\ \A i \in DOMAIN s : s[i] = switch \/ \E j \in DOMAIN switches : s[i] = switches[j]
    BY <2>3, ConsSeq
  <2> HIDE DEF s
  <2>5. \A i \in DOMAIN s : IsSwitch(s[i])
    BY <2>2, <2>3, <2>4
  <2>6. switches' = s
    BY <1>1 DEF s
  <2> QED BY <2>4, <2>5, <2>6
<1>15. /\ Len(switches') = c + (Len(switches) - Weight(Head(todo), Closers))
       /\ Len(loops') = c + (Len(loops) - Weight(Head(todo), Loopers))
  BY <1>3, <1>13, <1>14
<1>16. ListsRight'
  BY <1>13, <1>14 DEF ListsRight
<1> DEFINE n == 3
<1>17. n \in Nat /\ frame'.lastlab = frame.lastlab + n
       /\ D \subseteq (frame.lastlab + 1 .. frame.lastlab + n) \cup Defines(Head(todo))
  BY <1>5, <1>10
<1> HIDE DEF c, n
<1> QED BY <1>1, <1>3, <1>5, <1>6, <1>12, <1>15, <1>16, <1>17, Changing

\* A case or default: its label before the statement.
LEMMA CaseInv ==
    ASSUME IInv, NEW t, Statement(t), InSwitch, NEW x, IsSwitch(x), switches' = [switches EXCEPT ![1] = x],
           prog' = prog, g' = g, loops' = loops, named' = named,
           Goes(<<LabelOf(getlabel(1)), State>>), frame' = Reserve(1)
    PROVE  IInv'
<1> DEFINE l1 == getlabel(1)
           items == <<LabelOf(l1), State>>
<1>1. /\ todo # <<>> /\ Weight(Head(todo), Closers) = 0 /\ Weight(Head(todo), Loopers) = 0
  BY StatementIs
<1>2. l1 = frame.lastlab + 1 /\ frame.lastlab \in Nat
  BY NewLabel
<1>3. Has(items, {l1}, 0, 0)
  <2> DEFINE a == LabelOf(l1)
             b == State
             D == {l1}
             E == {}
  <2>1. Kind(a, D, 0, 0) /\ Kind(b, E, 0, 0) /\ D \cap E = {} /\ D \cup E = D
    BY KindLabel, KindState DEF Mute
  <2> HIDE DEF a, b, D, E
  <2>2. Has(<<a, b>>, D \cup E, 0 + 0, 0 + 0)
    BY <2>1, KindTwo
  <2>3. Has(<<a, b>>, D, 0, 0)
    BY <2>1, <2>2
  <2> QED BY <2>3 DEF a, b, D
<1>4. FrameRight' /\ frame'.lastlab = frame.lastlab + 1 /\ frame'.switched = frame.switched
  <2>1. Takes(frame', 1)
    BY FrameTakes DEF IInv
  <2> QED BY <2>1, FrameKept DEF IInv
<1>5. NamesRight' /\ NamedLabels(named)' = NamedLabels(named)
  BY <1>4, NamesSame DEF IInv
<1>6. /\ IsSeq(switches') /\ Len(switches') = Len(switches) /\ Len(switches) \in Nat
      /\ \A i \in DOMAIN switches' : IsSwitch(switches'[i])
  <2> DEFINE s == [switches EXCEPT ![1] = x]
  <2>1. IsSeq(switches) /\ Len(switches) \in Nat /\ 1 \in DOMAIN switches /\ \A i \in DOMAIN switches : IsSwitch(switches[i])
    BY SwitchIs DEF IInv, ListsRight
  <2>2. IsSeq(s) /\ Len(s) = Len(switches) /\ DOMAIN s = DOMAIN switches /\ s[1] = x
    BY <2>1, ChangeSeq, ZenonT(60)
  <2>3. \A i \in DOMAIN switches : i # 1 => s[i] = switches[i]
    BY <2>1, ChangeSeq
  <2> HIDE DEF s
  <2>4. switches' = s
    BY DEF s
  <2> QED BY <2>1, <2>2, <2>3, <2>4
<1>7. ListsRight'
  BY <1>6 DEF IInv, ListsRight
<1> DEFINE c == 0
           n == 1
           D == {l1}
<1>8. /\ c \in Nat /\ n \in Nat /\ Has(items, D, c, c) /\ frame'.lastlab = frame.lastlab + n
      /\ D \subseteq (frame.lastlab + 1 .. frame.lastlab + n) \cup Defines(Head(todo))
      /\ Len(switches') = c + (Len(switches) - Weight(Head(todo), Closers))
      /\ Len(loops') = c + (Len(loops) - Weight(Head(todo), Loopers))
  <2>1. Len(loops) \in Nat
    BY DEF IInv, ListsRight, IsSeq
  <2> QED BY <1>1, <1>2, <1>3, <1>4, <1>6, <2>1
<1>9. Goes(items)
  OBVIOUS
<1> HIDE DEF c, n, D, items, l1
<1> QED BY <1>1, <1>4, <1>5, <1>7, <1>8, <1>9, Changing

LEMMA docaseInv ==
    ASSUME IInv, docase
    PROVE  IInv'
<1>1. Statement("case") /\ InSwitch /\ prog' = prog /\ g' = g /\ loops' = loops /\ named' = named /\ equ' = equ
  BY DEF docase
<1>2. /\ IsSeq(switches) /\ 1 \in DOMAIN switches /\ IsSwitch(switches[1]) /\ Sym.n \in Int
  BY <1>1, SwitchIs, StatementIs, ProgramsAssumption DEF Sym
<1>3. CASE Head(switches).char /\ Sym.n \notin 0 .. 255
  <2>1. Goes(<<State>>) /\ switches' = switches /\ frame' = frame
    BY <1>3 DEF docase
  <2>2. SyntaxOnly
    BY <1>1, <2>1 DEF SyntaxOnly
  <2>3. todo # <<>> /\ Head(todo).do \notin Loopers
    BY <1>1, StatementIs
  <2>4. MuteSeq(<<State>>)
    BY KindState, MuteOne
  <2>5. Takes(frame', 0)
    BY <2>1, FrameTakes DEF IInv
  <2> DEFINE items == <<State>>
  <2>6. MuteSeq(items) /\ Goes(items)
    BY <2>1, <2>4
  <2> HIDE DEF items
  <2> QED BY <2>2, <2>3, <2>5, <2>6, SyntaxMute
<1>4. CASE ~(Head(switches).char /\ Sym.n \notin 0 .. 255)
  <2> DEFINE c == [value |-> Sym.n, label |-> getlabel(1)]
             s == switches[1]
             cs == Append(s.cases, c)
             x == [s EXCEPT !.cases = cs]
  <2>1. /\ switches' = [switches EXCEPT ![1].cases = Append(@, c)]
        /\ Goes(<<LabelOf(getlabel(1)), State>>) /\ frame' = Reserve(1)
    BY <1>4 DEF docase
  <2>2. switches' = [switches EXCEPT ![1] = x]
    BY <1>2, <2>1
  <2>3. IsCases(cs)
    <3>1. c.value \in Int /\ c.label # 0
      BY <1>2, NewLabel
    <3>2. IsCases(s.cases)
      BY <1>2 DEF IsSwitch
    <3> HIDE DEF c
    <3> DEFINE o == s.cases
    <3>3. IsSeq(o)
      BY <3>2 DEF IsCases
    <3> HIDE DEF o
    <3>4. /\ IsSeq(Append(o, c)) /\ Len(o) \in Nat /\ DOMAIN o = 1 .. Len(o)
          /\ Len(Append(o, c)) = Len(o) + 1 /\ DOMAIN Append(o, c) = 1 .. Len(o) + 1
          /\ Append(o, c)[Len(o) + 1] = c /\ \A i \in 1 .. Len(o) : Append(o, c)[i] = o[i]
      BY <3>3, AppendSeq
    <3>5. \A i \in 1 .. Len(o) : o[i].value \in Int /\ o[i].label # 0
      BY <3>2, <3>4 DEF IsCases, o
    <3> DEFINE q == Append(o, c)
    <3>6. ASSUME NEW i \in DOMAIN q PROVE q[i].value \in Int /\ q[i].label # 0
      <4>1. CASE i = Len(o) + 1
        BY <3>1, <3>4, <4>1
      <4>2. CASE i # Len(o) + 1
        <5>1. i \in 1 .. Len(o)
          BY <3>4, <4>2
        <5>2. q[i] = o[i]
          BY <3>4, <5>1
        <5> HIDE DEF q
        <5> QED BY <3>5, <5>1, <5>2
      <4> QED BY <4>1, <4>2
    <3>7. IsCases(q)
      BY <3>4, <3>6 DEF IsCases
    <3> QED BY <3>7 DEF o
  <2>4. IsSwitch(x)
    <3> HIDE DEF cs
    <3>1. DOMAIN s = {"char", "cases", "dfaultlab"}
      BY <1>2 DEF IsSwitch
    <3> HIDE DEF s
    <3>2. DOMAIN x = {"char", "cases", "dfaultlab"} /\ x.cases = cs
      BY <3>1
    <3> HIDE DEF x
    <3> QED BY <2>3, <3>2 DEF IsSwitch
  <2> HIDE DEF x
  <2> QED BY <1>1, <2>1, <2>2, <2>4, CaseInv
<1> QED BY <1>3, <1>4

LEMMA dodefaultInv ==
    ASSUME IInv, dodefault
    PROVE  IInv'
<1> DEFINE l == getlabel(1)
           s == switches[1]
           x == [s EXCEPT !.dfaultlab = l]
<1>1. /\ Statement("default") /\ InSwitch /\ prog' = prog /\ g' = g /\ loops' = loops /\ named' = named
      /\ switches' = [switches EXCEPT ![1].dfaultlab = l]
      /\ Goes(<<LabelOf(getlabel(1)), State>>) /\ frame' = Reserve(1)
  BY DEF dodefault
<1>2. IsSeq(switches) /\ 1 \in DOMAIN switches /\ IsSwitch(s)
  BY <1>1, SwitchIs
<1> HIDE DEF l
<1>3. switches' = [switches EXCEPT ![1] = x]
  BY <1>1, <1>2
<1>4. IsSwitch(x)
  <2>1. DOMAIN s = {"char", "cases", "dfaultlab"} /\ IsCases(s.cases)
    BY <1>2 DEF IsSwitch
  <2> HIDE DEF s
  <2>2. DOMAIN x = {"char", "cases", "dfaultlab"} /\ x.cases = s.cases
    BY <2>1
  <2> HIDE DEF x
  <2> QED BY <2>1, <2>2 DEF IsSwitch
<1> HIDE DEF x
<1> QED BY <1>1, <1>3, <1>4, CaseInv

LEMMA EndSwitchInv ==
    ASSUME IInv, EndSwitch
    PROVE  IInv'
<1>1. /\ todo # <<>> /\ Head(todo).do = "end switch" /\ loops' = Tail(loops) /\ switches' = Tail(switches)
      /\ frame' = Effective(frame) /\ prog' = prog /\ g' = g
  BY DEF EndSwitch, Item
<1>2. Weight(Head(todo), Closers) = 1 /\ Weight(Head(todo), Loopers) = 1
  BY <1>1 DEF Weight, Loopers, Closers
<1>3. switches # <<>> /\ IsSeq(switches) /\ Len(switches) \in Nat /\ loops # <<>> /\ IsSeq(loops) /\ Len(loops) \in Nat
  BY <1>1, <1>2, OpenSwitch, OpenLoop
<1>4. /\ Len(loops') = Len(loops) - 1 /\ Len(switches') = Len(switches) - 1 /\ ListsRight'
  <2> DEFINE t == Tail(loops)
             u == Tail(switches)
  <2>1. IsSeq(t) /\ Len(t) = Len(loops) - 1 /\ \A i \in DOMAIN t : \E j \in DOMAIN loops : t[i] = loops[j]
    BY <1>3, TailIs
  <2>2. IsSeq(u) /\ Len(u) = Len(switches) - 1 /\ \A i \in DOMAIN u : \E j \in DOMAIN switches : u[i] = switches[j]
    BY <1>3, TailIs
  <2>3. (\A i \in DOMAIN loops : loops[i].breaklab # 0) /\ \A i \in DOMAIN switches : IsSwitch(switches[i])
    BY DEF IInv, ListsRight
  <2> HIDE DEF t, u
  <2>4. loops' = t /\ switches' = u
    BY <1>1 DEF t, u
  <2>5. (\A i \in DOMAIN t : t[i].breaklab # 0) /\ \A i \in DOMAIN u : IsSwitch(u[i])
    BY <2>1, <2>2, <2>3
  <2> QED BY <2>1, <2>2, <2>4, <2>5 DEF ListsRight
<1>5. FrameRight' /\ frame'.lastlab = frame.lastlab + 0 /\ frame'.switched = frame.switched
  <2>1. Takes(frame', 0)
    BY <1>1, FrameTakes DEF IInv
  <2> QED BY <2>1, FrameKept DEF IInv
<1>6. NamesRight' /\ NamedLabels(named)' = NamedLabels(named)
  <2>1. CASE Outermost
    <3>1. named' = [n \in Names |-> IF n \in InSwitches THEN [named[n] EXCEPT !.indcount = 4] ELSE named[n]]
      BY <2>1 DEF EndSwitch
    <3>2. named \in [Names -> [offlabel : Int, indcount : Nat]]
      BY DEF IInv, NamesRight
    <3>3. ASSUME NEW n \in Names
          PROVE  /\ named'[n] \in [offlabel : Int, indcount : Nat] /\ named'[n].offlabel = named[n].offlabel
                 /\ (named'[n].indcount # 0 <=> named[n].indcount # 0)
                 /\ (named'[n].indcount \in {3, 4} <=> named[n].indcount \in {3, 4})
      <4>1. named[n] \in [offlabel : Int, indcount : Nat]
        BY <3>2
      <4>2. CASE n \in InSwitches
        <5>1. named'[n] = [named[n] EXCEPT !.indcount = 4] /\ named[n].indcount = 3
          BY <3>1, <4>2 DEF InSwitches
        <5> QED BY <4>1, <5>1
      <4>3. CASE n \notin InSwitches
        <5>1. named'[n] = named[n]
          BY <3>1, <4>3
        <5> QED BY <4>1, <5>1
      <4> QED BY <4>2, <4>3
    <3>4. Highlab' = Highlab
      <4>1. {n \in Names : named'[n].indcount # 0} = {n \in Names : named[n].indcount # 0}
        BY <3>3
      <4> QED BY <1>5, <4>1 DEF Highlab
    <3>5. named' \in [Names -> [offlabel : Int, indcount : Nat]]
      <4>1. DOMAIN named' = Names /\ named' = [n \in Names |-> named'[n]]
        BY <3>1
      <4> QED BY <3>3, <4>1
    <3>6. NamesRight'
      BY <3>3, <3>4, <3>5 DEF IInv, NamesRight
    <3>7. NamedLabels(named)' = NamedLabels(named)
      <4>1. {x \in Names : named'[x].indcount \in {3, 4}} = {x \in Names : named[x].indcount \in {3, 4}}
        BY <3>3
      <4> QED BY <3>3, <4>1 DEF NamedLabels
    <3> QED BY <3>6, <3>7
  <2>2. CASE ~Outermost
    <3>1. named' = named
      BY <2>2 DEF EndSwitch
    <3> QED BY <1>5, <3>1, NamesSame DEF IInv
  <2> QED BY <2>1, <2>2
<1> DEFINE items == IF Outermost THEN <<[do |-> "modstk", to |-> Head(todo).spmark]>> ELSE <<>>
<1>7. Goes(items)
  BY DEF EndSwitch
<1>8. MuteSeq(items)
  <2> DEFINE x == [do |-> "modstk", to |-> Head(todo).spmark]
  <2>1. x.do \in Silent
    BY DEF Silent
  <2> HIDE DEF x
  <2>2. MuteSeq(<<x>>)
    BY <2>1, KindSilent, MuteOne
  <2>3. items = <<x>> \/ items = <<>>
    BY DEF x
  <2> HIDE DEF items
  <2> QED BY <2>2, <2>3, MuteNone
<1> HIDE DEF items
<1> DEFINE c == 0
           D == {}
<1>9. /\ c \in Nat /\ Has(items, D, c, c) /\ frame'.lastlab = frame.lastlab + c
      /\ D \subseteq (frame.lastlab + 1 .. frame.lastlab + c) \cup Defines(Head(todo))
      /\ Len(switches') = c + (Len(switches) - Weight(Head(todo), Closers))
      /\ Len(loops') = c + (Len(loops) - Weight(Head(todo), Loopers))
  BY <1>2, <1>3, <1>4, <1>5, <1>8, MuteHas
<1> HIDE DEF c, D
<1> QED BY <1>1, <1>4, <1>5, <1>6, <1>7, <1>9, Changing

-----------------------------------------------------------------------------
LEMMA StutterInv ==
    ASSUME IInv, UNCHANGED compiler
    PROVE  IInv'
<1>1. /\ prog' = prog /\ todo' = todo /\ g' = g /\ frame' = frame /\ loops' = loops /\ switches' = switches
      /\ named' = named
  BY DEF compiler
<1>2. NamesRight' /\ NamedLabels(named)' = NamedLabels(named)
  BY <1>1, NamesSame DEF IInv
<1>3. FrameRight' /\ ListsRight' /\ Made(g')
  BY <1>1 DEF IInv, FrameRight, ListsRight
<1>4. Allocated' = Allocated
  BY <1>1, <1>2 DEF Allocated
<1>5. LeftToDo'
  BY <1>1, <1>4 DEF IInv, LeftToDo
<1> QED BY <1>1, <1>2, <1>3, <1>5 DEF IInv

LEMMA CompileInv ==
    ASSUME IInv, [Compile]_compiler
    PROVE  IInv'
<1>1. CASE Compound \/ Reslocals \/ InBlock \/ LeaveBlock
  BY <1>1, CompoundInv, ReslocalsInv, InBlockInv, LeaveBlockInv
<1>2. CASE ExprStatement \/ NullStatement \/ doreturn \/ dobreak \/ docont \/ dogoto \/ Labelled
  BY <1>2, ExprStatementInv, NullStatementInv, doreturnInv, dobreakInv, docontInv, dogotoInv, LabelledInv
<1>3. CASE doif \/ Else \/ EndIf \/ dowhile \/ dofor \/ dodowhile \/ DoTest \/ deleteloop
  BY <1>3, doifInv, ElseInv, EndIfInv, dowhileInv, doforInv, dodowhileInv, DoTestInv, deleteloopInv
<1>4. CASE jumpcond \/ TestAt
  BY <1>4, jumpcondInv, TestAtInv
<1>5. CASE doswitch \/ docase \/ dodefault \/ Decide \/ jumptocases \/ NoMoreCases \/ EndSwitch \/ AfterSwitch
  BY <1>5, doswitchInv, docaseInv, dodefaultInv, DecideInv, jumptocasesInv, NoMoreCasesInv, EndSwitchInv, AfterSwitchInv
<1>6. CASE Out
  BY <1>6, OutInv
<1>7. CASE UNCHANGED compiler
  BY <1>7, StutterInv
<1> QED BY <1>1, <1>2, <1>3, <1>4, <1>5, <1>6, <1>7 DEF Compile

(* For every program, every size of the table of labels and of the output  *)
(* buffer, and every reach: at whatever point the compiler is, each branch *)
(* made short reaches its label, though patches of older branches moved    *)
(* what is behind them, and the location counter is the size of the code   *)
(* (label.c, lbranch and deflabel, with the whole of state.c around them). *)
THEOREM ShortBranchesReach == CompilerSpec => []BranchesReach
<1>1. InitCompiler => IInv
  BY InitInv
<1>2. IInv /\ [Compile]_compiler => IInv'
  BY CompileInv
<1>3. IInv => BranchesReach
  BY DEF IInv, Made, BranchesReach
<1> QED BY <1>1, <1>2, <1>3, PTL DEF CompilerSpec
=============================================================================
