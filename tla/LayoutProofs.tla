---------------------------- MODULE LayoutProofs ----------------------------
(***************************************************************************)
(* Proofs about LinkLayout, for any number of modules and segments and any *)
(* sizes that fit: what pass 2 writes lies where pass 1 said it would, no  *)
(* byte of the file or of memory is given out twice, and a segment         *)
(* register set to a far segment's paragraph reaches it.                   *)
(*   Placed says where Place may put the segments, and PlacingRight that   *)
(* it does, from the sums of the sizes (FarFacts: those of far text, by    *)
(* induction).  The invariant IInv says of the first pass that each module *)
(* begins where the one before it ends; of the second that what has been   *)
(* written of a segment lies in front of where the segment is now, and     *)
(* that this is where the module at hand was promised its next byte.       *)
(* padmod's loop over the segments is an induction too (PadAll).           *)
(***************************************************************************)
EXTENDS LinkLayout, FiniteSetTheorems, TLAPS

(* A set of naturals that is not empty has a least element.                *)
LEMMA LeastOf ==
    ASSUME NEW S \in SUBSET Nat, S # {}
    PROVE  \E x \in S : \A y \in S : x <= y
<1> DEFINE R == OpToRel(<, Nat)
<1>1. IsWellFoundedOn(R, Nat)
  BY NatLessThanWellFounded
<1>2. PICK x \in S : \A y \in S : <<y, x>> \notin R
  <2>1. S \subseteq Nat
    OBVIOUS
  <2> HIDE DEF R
  <2> QED
    BY <1>1, <2>1, WFMin
<1>3. x \in Nat /\ \A y \in S : ~(y < x)
  BY <1>2 DEF OpToRel
<1>4. \A y \in S : x <= y
  <2> TAKE y \in S
  <2>1. x \in Nat /\ y \in Nat /\ ~(y < x)
    BY <1>3
  <2> QED
    BY <2>1
<1> QED
  BY <1>4

(* Induction: a set of naturals with 0 and the successors of its elements. *)
LEMMA SetInduction ==
    ASSUME NEW S \in SUBSET Nat, 0 \in S, \A n \in S : n + 1 \in S
    PROVE  S = Nat
<1> SUFFICES ASSUME Nat \ S # {} PROVE FALSE
  OBVIOUS
<1>1. PICK x \in Nat \ S : \A y \in Nat \ S : x <= y
  BY LeastOf
<1>2. x \in Nat /\ x # 0
  BY <1>1
<1>3. x - 1 \in S /\ (x - 1) + 1 = x
  BY <1>1, <1>2
<1> QED
  BY <1>1, <1>3

M4(x) == x % 4 = 0
M16(x) == x % 16 = 0

(* Rounding up to 4 and to 16.                                             *)
LEMMA Roundup4 ==
    ASSUME NEW x \in Nat
    PROVE  /\ ld_roundup(x, 4) \in Nat /\ M4(ld_roundup(x, 4))
           /\ x <= ld_roundup(x, 4)
           /\ \A b \in Nat : M4(b) => ld_roundup(b + x, 4) = b + ld_roundup(x, 4)
           /\ M4(x) => ld_roundup(x, 4) = x
BY DEF ld_roundup, M4

(* A paragraph's end is not below what it rounds.                          *)
LEMMA Roundup16 ==
    ASSUME NEW x \in Nat
    PROVE  /\ Paragraph(x) \in Nat /\ M16(Paragraph(x)) /\ x <= Paragraph(x)
BY DEF ld_roundup, Paragraph, M16

(* What is a multiple of 16 is one of 4.                                   *)
LEMMA Quarters == \A x \in Int : M16(x) => M4(x)
BY DEF M4, M16

(* Adding a multiple of 16 leaves what is over.                            *)
LEMMA AddSixteenths == \A x, y \in Nat : M16(y) => (x + y) % 16 = x % 16
BY DEF M16

(* 16 times the quotient by 16, and what is over.                          *)
LEMMA Sixteenths ==
    ASSUME NEW x \in Int, NEW r, r = x % 16
    PROVE  r \in 0 .. 15 /\ 16 * (x \div 16) = x - r
<1> DEFINE whole == x - r
<1>1. r \in 0 .. 15
  OBVIOUS
<1>2. r = x % 16
  OBVIOUS
<1>3. whole \in Int /\ whole % 16 = 0
  BY <1>1, <1>2
<1>4. x \div 16 = whole \div 16
  BY <1>1, <1>3
<1>5. whole = x - r
  OBVIOUS
<1> HIDE DEF whole
<1>6. 16 * (whole \div 16) = whole
  BY <1>3
<1>7. 16 * (x \div 16) = x - r
  BY <1>4, <1>5, <1>6
<1> QED
  BY <1>1, <1>7

-----------------------------------------------------------------------------
(* The second pass.  How far each segment is written.                      *)
Cur(x, seg) == IF seg = x.curseg THEN x.spos ELSE x.segpos[seg]

Chunk == [mod : Mods, seg : Seg, at : Nat, from : Nat, to : Nat]
Work == [segbase : [Seg -> Nat], segpos : [Seg -> Nat], spos : Nat, curseg : Seg,
         pos : Nat, out : SUBSET Chunk, wrong : BOOLEAN]

PlaceOK(p) ==
    /\ p.segbase \in [Seg -> Nat] /\ p.segadj \in [Seg -> Int]
    /\ \A seg \in Seg : p.segbase[seg] + p.segadj[seg] >= 0 /\ M4(p.segbase[seg])

(* What has been written of a segment lies between its base and where it   *)
(* is now, piece by piece, at the file position its address has.           *)
Pieces(p, x) ==
    /\ \A c \in x.out : /\ c.from = c.at + p.segadj[c.seg] /\ c.from < c.to
                        /\ p.segbase[c.seg] <= c.at
                        /\ c.at + (c.to - c.from) <= Cur(x, c.seg)
    /\ \A c, d \in x.out : c # d /\ c.seg = d.seg => Apart(c.from, c.to, d.from, d.to)
WRight(p, x) ==
    /\ x \in Work /\ x.pos = x.spos + p.segadj[x.curseg]
    /\ \A seg \in Seg : p.segbase[seg] <= Cur(x, seg)
    /\ Pieces(p, x)

(* setseg leaves every segment where it is, and makes seg the current one. *)
LEMMA SetsegFacts ==
    ASSUME NEW x, PlaceOK(place), WRight(place, x), NEW seg \in Seg
    PROVE  LET y == setseg(x, seg) IN
           /\ WRight(place, y) /\ y.curseg = seg
           /\ \A k \in Seg : Cur(y, k) = Cur(x, k)
           /\ y.segbase = x.segbase /\ y.out = x.out /\ y.wrong = x.wrong
           /\ x.segpos[x.curseg] = x.spos =>
                 y.segpos = x.segpos /\ y.spos = y.segpos[seg]
<1> DEFINE y == setseg(x, seg)
<1>1. CASE seg = x.curseg
  <2>1. y = x
    BY <1>1 DEF setseg
  <2> HIDE DEF y
  <2> QED
    BY <1>1, <2>1 DEF WRight, y
<1>2. CASE seg # x.curseg
  <2>0. x \in Work /\ x.curseg \in Seg /\ x.segpos \in [Seg -> Nat] /\ x.spos \in Nat
        /\ x.segpos[seg] \in Nat
    BY DEF WRight, Work
  <2>1. /\ y.segpos = [x.segpos EXCEPT ![x.curseg] = x.spos]
        /\ y.spos = x.segpos[seg] /\ y.curseg = seg
        /\ y.pos = x.segpos[seg] + place.segadj[seg]
        /\ y.segbase = x.segbase /\ y.out = x.out /\ y.wrong = x.wrong
    BY <1>2, <2>0 DEF setseg, Work
  <2>2. place.segbase[seg] <= x.segpos[seg]
    BY <1>2 DEF WRight, Cur
  <2>3. y.pos \in Nat
    BY <2>0, <2>1, <2>2 DEF PlaceOK
  <2>4. y \in Work
    <3>1. x.segpos[seg] + place.segadj[seg] \in Nat
      BY <2>1, <2>3
    <3>2. [x.segpos EXCEPT ![x.curseg] = x.spos] \in [Seg -> Nat]
      BY <2>0
    <3>3. y = [x EXCEPT !.segpos = [x.segpos EXCEPT ![x.curseg] = x.spos],
                        !.spos = x.segpos[seg], !.curseg = seg,
                        !.pos = x.segpos[seg] + place.segadj[seg]]
      BY <1>2, <2>0 DEF setseg, Work
    <3> HIDE DEF y
    <3> QED
      BY <2>0, <3>1, <3>2, <3>3 DEF Work
  <2> HIDE DEF y
  <2>5. \A k \in Seg : Cur(y, k) = Cur(x, k)
    BY <1>2, <2>0, <2>1 DEF Cur
  <2>6. \A c \in x.out : c.seg \in Seg
    BY <2>0 DEF Work, Chunk
  <2>7. Pieces(place, y)
    BY <2>1, <2>5, <2>6 DEF WRight, Pieces
  <2>8. WRight(place, y)
    BY <2>1, <2>4, <2>5, <2>7 DEF WRight
  <2>9. x.segpos[x.curseg] = x.spos => y.segpos = x.segpos /\ y.spos = y.segpos[seg]
    BY <2>0, <2>1
  <2> QED
    BY <2>1, <2>5, <2>8, <2>9 DEF y
<1> QED
  BY <1>1, <1>2

(* Writing n bytes moves the current segment, and no other, n further.     *)
LEMMA WriteFacts ==
    ASSUME NEW x, PlaceOK(place), WRight(place, x), NEW i \in Mods, NEW n \in Nat
    PROVE  LET y == Write(x, i, n) IN
           /\ WRight(place, y) /\ y.curseg = x.curseg /\ y.spos = x.spos + n
           /\ y.segpos = x.segpos /\ y.segbase = x.segbase /\ y.wrong = x.wrong
<1> DEFINE y == Write(x, i, n)
           new == [mod |-> i, seg |-> x.curseg, at |-> x.spos, from |-> x.pos, to |-> x.pos + n]
<1>0. x \in Work /\ x.curseg \in Seg /\ x.segpos \in [Seg -> Nat] /\ x.spos \in Nat
      /\ x.pos \in Nat /\ x.out \subseteq Chunk
  BY DEF WRight, Work
<1>1. CASE n = 0
  <2>1. y = x
    BY <1>1 DEF Write
  <2> HIDE DEF y
  <2> QED
    BY <1>0, <1>1, <2>1 DEF y
<1>2. CASE n # 0
  <2>1. y = [x EXCEPT !.spos = x.spos + n, !.pos = x.pos + n, !.out = x.out \cup {new}]
    BY <1>0, <1>2 DEF Write, Work
  <2>2. new \in Chunk
    BY <1>0 DEF Chunk
  <2>3. /\ new.seg = x.curseg /\ new.at = x.spos /\ new.from = x.pos /\ new.to = x.pos + n
    OBVIOUS
  <2> HIDE DEF new, y
  <2>4. /\ y.spos = x.spos + n /\ y.pos = x.pos + n /\ y.out = x.out \cup {new}
        /\ y.curseg = x.curseg
        /\ y.segpos = x.segpos /\ y.segbase = x.segbase /\ y.wrong = x.wrong
    BY <1>0, <2>1 DEF Work
  <2>5. y \in Work
    <3>1. x.out \cup {new} \in SUBSET Chunk /\ x.spos + n \in Nat /\ x.pos + n \in Nat
      BY <1>0, <2>2
    <3> QED
      BY <1>0, <2>1, <3>1 DEF Work
  <2>6. /\ \A k \in Seg : Cur(x, k) <= Cur(y, k) /\ Cur(x, k) \in Nat /\ Cur(y, k) \in Nat
        /\ Cur(x, x.curseg) = x.spos /\ Cur(y, x.curseg) = x.spos + n
    BY <1>0, <2>4 DEF Cur
  <2>7. x.pos = x.spos + place.segadj[x.curseg] /\ place.segadj[x.curseg] \in Int
    BY <1>0 DEF WRight, PlaceOK
  <2>8. \A k \in Seg : place.segbase[k] <= Cur(x, k) /\ place.segbase[k] \in Nat
    BY DEF WRight, PlaceOK
  <2>9. ASSUME NEW c \in y.out
        PROVE  /\ c.from = c.at + place.segadj[c.seg] /\ c.from < c.to
               /\ place.segbase[c.seg] <= c.at
               /\ c.at + (c.to - c.from) <= Cur(y, c.seg)
    <3>1. CASE c = new
      BY <1>0, <1>2, <2>3, <2>6, <2>7, <2>8, <3>1
    <3>2. CASE c # new
      <4>1. c \in x.out /\ c \in Chunk
        BY <1>0, <2>4, <3>2
      <4>2. c.seg \in Seg /\ c.at \in Nat /\ c.from \in Nat /\ c.to \in Nat
        BY <4>1 DEF Chunk
      <4>3. /\ c.from = c.at + place.segadj[c.seg] /\ c.from < c.to
            /\ place.segbase[c.seg] <= c.at
            /\ c.at + (c.to - c.from) <= Cur(x, c.seg)
        BY <4>1 DEF WRight, Pieces
      <4> QED
        BY <2>6, <4>2, <4>3
    <3> QED
      BY <3>1, <3>2
  <2>10. ASSUME NEW c \in x.out, c.seg = x.curseg
         PROVE  c.to <= x.pos
    <3>1. c \in Chunk
      BY <1>0
    <3>2. c.at \in Nat /\ c.from \in Nat /\ c.to \in Nat
      BY <3>1 DEF Chunk
    <3>3. c.from = c.at + place.segadj[x.curseg] /\ c.at + (c.to - c.from) <= x.spos
      BY <2>6, <2>10 DEF WRight, Pieces
    <3> QED
      BY <1>0, <2>7, <3>2, <3>3
  <2>11. ASSUME NEW c \in y.out, NEW d \in y.out, c # d, c.seg = d.seg
         PROVE  Apart(c.from, c.to, d.from, d.to)
    <3>1. CASE c = new
      BY <2>3, <2>4, <2>10, <2>11, <3>1 DEF Apart
    <3>2. CASE d = new
      BY <2>3, <2>4, <2>10, <2>11, <3>2 DEF Apart
    <3>3. CASE c # new /\ d # new
      BY <2>4, <2>11, <3>3 DEF WRight, Pieces
    <3> QED
      BY <3>1, <3>2, <3>3
  <2>12. Pieces(place, y)
    BY <2>9, <2>11 DEF Pieces
  <2>13. \A k \in Seg : place.segbase[k] <= Cur(y, k)
    <3> TAKE k \in Seg
    <3>1. /\ place.segbase[k] <= Cur(x, k) /\ Cur(x, k) <= Cur(y, k) /\ Cur(x, k) \in Nat
          /\ Cur(y, k) \in Nat /\ place.segbase[k] \in Nat
      BY <2>6, <2>8
    <3> QED
      BY <3>1
  <2>14. y.pos = y.spos + place.segadj[y.curseg]
    BY <1>0, <2>4, <2>7
  <2>15. WRight(place, y)
    BY <2>5, <2>12, <2>13, <2>14 DEF WRight
  <2> QED
    BY <2>4, <2>15 DEF y
<1> QED
  BY <1>1, <1>2

-----------------------------------------------------------------------------
(* Far text: each segment's offset is the sum of those before it.          *)
FarSize(s) == Paragraph(segsz[s] + comsz[s])

(* FarSums, unfolded once.                                                 *)
LEMMA FarSumsDef ==
    /\ FarSums[4] = 0
    /\ \A s \in 5 .. NSEG : FarSums[s] = FarSums[s - 1] + FarSize(s - 1)
<1> DEFINE Upto(f, n) == f = [s \in 4 .. n |-> IF s = 4 THEN 0 ELSE f[s - 1] + FarSize(s - 1)]
           S == {n \in Nat : \E f : Upto(f, n)}
<1>1. 0 \in S
  <2>1. Upto([s \in 4 .. 0 |-> 0], 0)
    OBVIOUS
  <2> QED
    BY <2>1
<1>2. ASSUME NEW n \in S PROVE n + 1 \in S
  <2>1. PICK f : Upto(f, n)
    OBVIOUS
  <2> DEFINE g == [s \in 4 .. n + 1 |->
                     IF s = 4 THEN 0 ELSE IF s = n + 1 THEN f[n] + FarSize(n) ELSE f[s]]
  <2>2. n \in Nat
    OBVIOUS
  <2>3. ASSUME NEW s \in 4 .. n + 1
        PROVE  g[s] = IF s = 4 THEN 0 ELSE g[s - 1] + FarSize(s - 1)
    <3>1. CASE s = 4
      BY <3>1
    <3>2. CASE s # 4
      <4>1. s - 1 \in 4 .. n /\ g[s - 1] = f[s - 1]
        <5>1. s - 1 \in 4 .. n /\ s - 1 # n + 1 /\ s - 1 \in 4 .. n + 1
          BY <2>2, <3>2
        <5>2. s - 1 = 4 => f[s - 1] = 0
          BY <2>1, <5>1
        <5> QED
          BY <5>1, <5>2
      <4>2. CASE s = n + 1
        BY <2>2, <3>2, <4>1, <4>2
      <4>3. CASE s # n + 1
        <5>1. s \in 4 .. n
          BY <2>2, <4>3
        <5>2. f[s] = f[s - 1] + FarSize(s - 1)
          BY <2>1, <3>2, <5>1
        <5> QED
          BY <3>2, <4>1, <4>3, <5>2
      <4> QED
        BY <4>2, <4>3
    <3> QED
      BY <3>1, <3>2
  <2>4. Upto(g, n + 1)
    BY <2>3
  <2> HIDE DEF g, Upto
  <2> QED
    BY <2>2, <2>4
<1>3. S = Nat
  <2>1. S \subseteq Nat
    OBVIOUS
  <2> HIDE DEF S
  <2> QED
    BY <1>1, <1>2, <2>1, SetInduction
<1>4. \E f : Upto(f, NSEG)
  BY <1>3, LayoutAssumption
<1> DEFINE sums == CHOOSE f : Upto(f, NSEG)
<1>5. Upto(sums, NSEG)
  <2> HIDE DEF Upto
  <2> QED
    BY <1>4
<1> HIDE DEF sums
<1>6. sums[4] = 0 /\ \A s \in 5 .. NSEG : sums[s] = sums[s - 1] + FarSize(s - 1)
  <2> HIDE DEF S
  <2>1. \A s \in 4 .. NSEG : sums[s] = IF s = 4 THEN 0 ELSE sums[s - 1] + FarSize(s - 1)
    BY <1>5
  <2>2. 4 \in 4 .. NSEG /\ \A s \in 5 .. NSEG : s \in 4 .. NSEG /\ s # 4
    BY LayoutAssumption
  <2> QED
    BY <2>1, <2>2
<1>7. FarSums = sums
  BY DEF FarSums, FarSize, sums
<1> QED
  BY <1>6, <1>7

(* Far segments follow each other at paragraphs, without overlap.          *)
LEMMA FarFacts ==
    ASSUME segsz \in [Seg -> Nat], comsz \in [Seg -> Nat]
    PROVE  /\ \A s \in 4 .. NSEG : /\ FarSums[s] \in Nat /\ M16(FarSums[s])
                                   /\ \A r \in 4 .. s - 1 : FarSums[r] + segsz[r] <= FarSums[s]
           /\ Far \in Nat /\ M16(Far)
           /\ \A s \in Seg : s >= 4 => FarSums[s] + segsz[s] <= Far
<1> DEFINE Nats(s) == FarSums[s] \in Nat /\ M16(FarSums[s])
           Above(r, s) == FarSums[r] + segsz[r] <= FarSums[s]
           OK(s) == Nats(s) /\ \A r \in 4 .. s - 1 : Above(r, s)
           S == {n \in Nat : n <= NSEG => \A s \in 4 .. n : OK(s)}
<1>0. NSEG \in Nat /\ NSEG >= 4
  BY LayoutAssumption
<1>1. 0 \in S
  OBVIOUS
<1>2. ASSUME NEW n \in S PROVE n + 1 \in S
  <2>0. n \in Nat
    OBVIOUS
  <2> SUFFICES ASSUME n + 1 <= NSEG, n + 1 >= 4 PROVE OK(n + 1)
    <3> HIDE DEF OK
    <3>1. \A s \in 4 .. n + 1 : s \in 4 .. n \/ s = n + 1
      BY <2>0
    <3>2. n + 1 <= NSEG => n <= NSEG
      BY <1>0, <2>0
    <3> QED
      BY <1>0, <2>0, <3>1, <3>2
  <2>1. CASE n + 1 = 4
    <3>1. FarSums[4] = 0
      BY <1>0, FarSumsDef
    <3>2. Nats(4) /\ 4 .. 4 - 1 = {}
      BY <3>1 DEF M16
    <3> HIDE DEF Nats, Above
    <3> QED
      BY <2>1, <3>2
  <2>2. CASE n + 1 # 4
    <3>1. n \in 4 .. NSEG /\ n \in Seg /\ \A s \in 4 .. n : OK(s)
      <4> HIDE DEF OK
      <4> QED
        BY <1>0, <2>0, <2>2 DEF Seg
    <3>2. FarSums[n + 1] = FarSums[n] + FarSize(n)
      <4>1. (n + 1) - 1 = n /\ n + 1 \in 5 .. NSEG
        BY <2>0, <2>2
      <4> HIDE DEF S
      <4> QED
        BY <2>2, <4>1, FarSumsDef
    <3>3. segsz[n] \in Nat /\ comsz[n] \in Nat
      BY <3>1
    <3>4. FarSize(n) \in Nat /\ M16(FarSize(n)) /\ segsz[n] <= FarSize(n)
      <4>1. segsz[n] + comsz[n] \in Nat
        BY <3>3
      <4>2. /\ FarSize(n) \in Nat /\ M16(FarSize(n))
            /\ segsz[n] + comsz[n] <= FarSize(n)
        BY <4>1, Roundup16 DEF FarSize
      <4> QED
        BY <3>3, <4>2
    <3>5. \A s \in 4 .. n : FarSums[s] \in Nat /\ M16(FarSums[s])
      BY <3>1
    <3>6. Nats(n + 1)
      <4>1. FarSums[n] \in Nat /\ M16(FarSums[n])
        BY <3>1, <3>5
      <4> HIDE DEF S
      <4> QED
        BY <3>2, <3>4, <4>1 DEF M16
    <3>7. ASSUME NEW r \in 4 .. n PROVE Above(r, n + 1)
      <4>1. CASE r = n
        <5>1. FarSums[n] \in Nat
          BY <3>1, <3>5
        <5> HIDE DEF S
        <5> QED
          BY <3>2, <3>3, <3>4, <4>1, <5>1
      <4>2. CASE r # n
        <5>1. r \in 4 .. n - 1 /\ r \in Seg
          <6> HIDE DEF S, OK
          <6> QED
            BY <1>0, <2>0, <3>1, <4>2 DEF Seg
        <5>2. Above(r, n)
          <6> HIDE DEF Above, Nats
          <6> QED
            BY <3>1, <5>1
        <5>3. FarSums[r] \in Nat /\ FarSums[n] \in Nat /\ segsz[r] \in Nat
          BY <3>1, <3>5, <5>1
        <5> HIDE DEF S
        <5> QED
          BY <3>2, <3>4, <5>2, <5>3
      <4> QED
        BY <4>1, <4>2
    <3>8. (n + 1) - 1 = n
      BY <2>0
    <3> HIDE DEF Nats, Above
    <3> QED
      BY <3>6, <3>7, <3>8
  <2> QED
    BY <2>1, <2>2
<1>3. S = Nat
  <2>1. S \subseteq Nat
    OBVIOUS
  <2> HIDE DEF S
  <2> QED
    BY <1>1, <1>2, <2>1, SetInduction
<1>4. \A s \in 4 .. NSEG : OK(s)
  <2>1. NSEG \in S /\ NSEG <= NSEG
    <3> HIDE DEF S
    <3> QED
      BY <1>0, <1>3
  <2> HIDE DEF OK
  <2> QED
    BY <2>1
<1>5. Far \in Nat /\ M16(Far)
  BY <1>0, <1>4 DEF Far, FarBefore, M16
<1>6. ASSUME NEW s \in Seg, s >= 4 PROVE FarSums[s] + segsz[s] <= Far
  <2>1. s \in 4 .. NSEG - 1 /\ NSEG > 4
    BY <1>0, <1>6 DEF Seg
  <2>2. Far = FarSums[NSEG]
    BY <2>1 DEF Far, FarBefore
  <2> QED
    BY <1>0, <1>4, <2>1, <2>2
<1> QED
  BY <1>4, <1>5, <1>6

-----------------------------------------------------------------------------
(* padmod goes through the segments one by one.                            *)
LEMMA PadmodDef ==
    ASSUME NEW start
    PROVE  /\ padmod(start)[0] = start
           /\ \A s \in Seg : padmod(start)[s + 1] = Padded(padmod(start)[s], s)
<1> DEFINE Upto(f, n) == f = [s \in 0 .. n |-> IF s = 0 THEN start ELSE Padded(f[s - 1], s - 1)]
           S == {n \in Nat : \E f : Upto(f, n)}
<1>1. 0 \in S
  <2>1. Upto([s \in 0 .. 0 |-> start], 0)
    OBVIOUS
  <2> QED
    BY <2>1
<1>2. ASSUME NEW n \in S PROVE n + 1 \in S
  <2>1. PICK f : Upto(f, n)
    OBVIOUS
  <2> DEFINE g == [s \in 0 .. n + 1 |-> IF s = n + 1 THEN Padded(f[n], n) ELSE f[s]]
  <2>2. n \in Nat
    OBVIOUS
  <2>3. ASSUME NEW s \in 0 .. n + 1
        PROVE  g[s] = IF s = 0 THEN start ELSE Padded(g[s - 1], s - 1)
    <3>1. CASE s = n + 1
      BY <2>2, <3>1
    <3>2. CASE s # n + 1
      <4>1. s \in 0 .. n /\ (s # 0 => s - 1 \in 0 .. n)
        BY <2>2, <3>2
      <4>2. f[s] = IF s = 0 THEN start ELSE Padded(f[s - 1], s - 1)
        BY <2>1, <4>1
      <4> QED
        BY <2>2, <3>2, <4>1, <4>2
    <3> QED
      BY <3>1, <3>2
  <2>4. Upto(g, n + 1)
    BY <2>3
  <2> HIDE DEF g, Upto
  <2> QED
    BY <2>2, <2>4
<1>3. S = Nat
  <2>1. S \subseteq Nat
    OBVIOUS
  <2> HIDE DEF S
  <2> QED
    BY <1>1, <1>2, <2>1, SetInduction
<1>4. \E f : Upto(f, NSEG)
  BY <1>3, LayoutAssumption
<1> DEFINE padded == CHOOSE f : Upto(f, NSEG)
<1>5. Upto(padded, NSEG)
  <2> HIDE DEF Upto
  <2> QED
    BY <1>4
<1> HIDE DEF padded
<1>6. padded[0] = start /\ \A s \in Seg : padded[s + 1] = Padded(padded[s], s)
  <2> HIDE DEF S
  <2>1. \A s \in 0 .. NSEG : padded[s] = IF s = 0 THEN start ELSE Padded(padded[s - 1], s - 1)
    BY <1>5
  <2>2. 0 \in 0 .. NSEG
        /\ \A s \in Seg : s + 1 \in 0 .. NSEG /\ s + 1 # 0 /\ (s + 1) - 1 = s
    BY LayoutAssumption DEF Seg
  <2> QED
    BY <2>1, <2>2
<1>7. padmod(start) = padded
  BY DEF padmod, padded
<1> QED
  BY <1>6, <1>7

(* One segment: it is padded to a multiple of 4, if its base is one.       *)
Even(x) == x.segpos[x.curseg] = x.spos
LEMMA PadFacts ==
    ASSUME NEW x, PlaceOK(place), WRight(place, x), Even(x), NEW seg \in Seg, m \in Mods,
           size[m][seg] = x.segpos[seg] - x.segbase[seg]
    PROVE  LET z == Padded(x, seg) IN
           /\ WRight(place, z) /\ Even(z) /\ z.wrong = x.wrong
           /\ z.segpos = [x.segpos EXCEPT ![seg] = ld_roundup(x.segpos[seg], 4)]
           /\ z.segbase = [x.segbase EXCEPT ![seg] = ld_roundup(x.segpos[seg], 4)]
<1> DEFINE end == ld_roundup(x.segpos[seg], 4)
           pad == end - x.segpos[seg]
           s == setseg(x, seg)
           y == Write(s, m, pad)
           z == IF pad = 0 THEN x ELSE [y EXCEPT !.segpos[seg] = y.spos]
           u == [z EXCEPT !.segbase[seg] = z.segpos[seg],
                          !.wrong = @ \/ x.segpos[seg] - x.segbase[seg] # size[m][seg]]
<1>0. /\ x \in Work /\ x.segpos \in [Seg -> Nat] /\ x.segbase \in [Seg -> Nat]
      /\ x.segpos[seg] \in Nat /\ x.segbase[seg] \in Nat /\ x.curseg \in Seg
  BY DEF WRight, Work
<1>1. end \in Nat /\ x.segpos[seg] <= end /\ pad \in Nat
  <2>1. ld_roundup(x.segpos[seg], 4) \in Nat /\ x.segpos[seg] <= ld_roundup(x.segpos[seg], 4)
    BY <1>0, Roundup4
  <2> HIDE DEF s, y, z, u
  <2> QED
    BY <1>0, <2>1
<1> HIDE DEF end
<1>2. /\ WRight(place, z) /\ Even(z) /\ z.wrong = x.wrong /\ z.segbase = x.segbase
      /\ z.segpos = [x.segpos EXCEPT ![seg] = end]
  <2>1. CASE pad = 0
    <3>1. z = x /\ end = x.segpos[seg]
      BY <1>0, <1>1, <2>1
    <3> HIDE DEF z
    <3> QED
      BY <1>0, <3>1
  <2>2. CASE pad # 0
    <3>1. /\ WRight(place, s) /\ s.curseg = seg /\ s.segbase = x.segbase /\ s.wrong = x.wrong
          /\ s.segpos = x.segpos /\ s.spos = x.segpos[seg]
      <4>1. x.segpos[x.curseg] = x.spos
        BY DEF Even
      <4> QED
        BY <4>1, SetsegFacts
    <3> HIDE DEF s
    <3>2. /\ WRight(place, y) /\ y.curseg = seg /\ y.spos = x.segpos[seg] + pad
          /\ y.segpos = x.segpos /\ y.segbase = x.segbase /\ y.wrong = x.wrong
      <4> HIDE DEF pad
      <4> QED
        BY <1>1, <3>1, WriteFacts
    <3>3. y.spos = end
      BY <1>0, <1>1, <3>2
    <3> HIDE DEF y
    <3>4. y \in Work /\ y.spos \in Nat /\ z = [y EXCEPT !.segpos = [x.segpos EXCEPT ![seg] = end]]
      BY <2>2, <3>2, <3>3 DEF WRight, Work
    <3> HIDE DEF z
    <3>5. /\ z \in Work /\ z.segpos = [x.segpos EXCEPT ![seg] = end]
          /\ z.curseg = seg /\ z.spos = end /\ z.out = y.out /\ z.pos = y.pos
          /\ z.wrong = x.wrong /\ z.segbase = x.segbase
      <4>1. [x.segpos EXCEPT ![seg] = end] \in [Seg -> Nat]
        BY <1>0, <1>1
      <4> QED
        BY <3>2, <3>3, <3>4, <4>1 DEF Work
    <3>6. \A k \in Seg : Cur(z, k) = Cur(y, k)
      BY <1>0, <3>2, <3>3, <3>5 DEF Cur
    <3>7. \A c \in y.out : c.seg \in Seg
      BY <3>4 DEF Work, Chunk
    <3>8. WRight(place, z)
      BY <3>2, <3>3, <3>5, <3>6, <3>7 DEF WRight, Pieces
    <3>9. Even(z)
      BY <1>0, <3>5 DEF Even
    <3> QED
      BY <3>5, <3>8, <3>9
  <2> QED
    BY <2>1, <2>2
<1>3. u = Padded(x, seg)
  <2> HIDE DEF s
  <2> QED
    BY DEF Padded, end, s
<1> HIDE DEF z
<1>4. /\ z \in Work /\ z.segpos[seg] = end
      /\ u.segpos = z.segpos /\ u.segbase = [x.segbase EXCEPT ![seg] = end]
      /\ u.curseg = z.curseg /\ u.spos = z.spos /\ u.out = z.out /\ u.pos = z.pos
      /\ u.wrong = x.wrong /\ u \in Work
  <2>1. z \in Work /\ z.segpos[seg] = end /\ z.wrong \in BOOLEAN
    BY <1>0, <1>2 DEF WRight, Work
  <2>2. u = [z EXCEPT !.segbase = [x.segbase EXCEPT ![seg] = end], !.wrong = z.wrong]
    BY <1>2, <2>1 DEF Work
  <2>3. [x.segbase EXCEPT ![seg] = end] \in [Seg -> Nat]
    BY <1>0, <1>1
  <2> HIDE DEF u
  <2> QED
    BY <1>2, <2>1, <2>2, <2>3 DEF Work
<1> HIDE DEF u
<1>5. \A k \in Seg : Cur(u, k) = Cur(z, k)
  BY <1>4 DEF Cur
<1>6. \A c \in z.out : c.seg \in Seg
  BY <1>4 DEF Work, Chunk
<1>7. WRight(place, u)
  BY <1>2, <1>4, <1>5, <1>6 DEF WRight, Pieces
<1>8. Even(u)
  BY <1>2, <1>4 DEF Even
<1> QED
  BY <1>2, <1>3, <1>4, <1>7, <1>8 DEF end

(* All of them.                                                            *)
LEMMA PadAll ==
    ASSUME NEW start, PlaceOK(place), WRight(place, start), Even(start), m \in Mods,
           \A seg \in Seg : size[m][seg] = start.segpos[seg] - start.segbase[seg]
    PROVE  LET z == padmod(start)[NSEG] IN
           /\ WRight(place, z) /\ Even(z) /\ z.wrong = start.wrong
           /\ \A k \in Seg : /\ z.segpos[k] = ld_roundup(start.segpos[k], 4)
                             /\ z.segbase[k] = ld_roundup(start.segpos[k], 4)
<1> DEFINE R(k) == ld_roundup(start.segpos[k], 4)
           Now(z, s, k) == /\ z.segpos[k] = IF k < s THEN R(k) ELSE start.segpos[k]
                           /\ z.segbase[k] = IF k < s THEN R(k) ELSE start.segbase[k]
           Right(z, s) == /\ WRight(place, z) /\ Even(z) /\ z.wrong = start.wrong
                          /\ \A k \in Seg : Now(z, s, k)
           S == {n \in Nat : n <= NSEG => Right(padmod(start)[n], n)}
<1>0. NSEG \in Nat /\ NSEG >= 4 /\ \A k \in Seg : k \in Nat /\ k < NSEG
  BY LayoutAssumption DEF Seg
<1>1. 0 \in S
  <2>1. \A k \in Seg : ~(k < 0)
    BY <1>0
  <2>2. Right(start, 0)
    BY <2>1
  <2> HIDE DEF Right
  <2> QED
    BY <2>2, PadmodDef
<1>2. ASSUME NEW n \in S PROVE n + 1 \in S
  <2> SUFFICES ASSUME n + 1 <= NSEG PROVE Right(padmod(start)[n + 1], n + 1)
    <3> HIDE DEF Right
    <3> QED
      OBVIOUS
  <2>1. n \in Nat /\ n \in Seg
    <3> HIDE DEF Right
    <3> QED
      BY <1>0 DEF Seg
  <2> DEFINE x == padmod(start)[n]
             z == Padded(x, n)
  <2>2. Right(x, n)
    <3> HIDE DEF Right
    <3> QED
      BY <1>0, <2>1
  <2>3. padmod(start)[n + 1] = z
    BY <2>1, PadmodDef
  <2> HIDE DEF x, S
  <2>4. x.segpos[n] = start.segpos[n] /\ x.segbase[n] = start.segbase[n]
    BY <2>1, <2>2
  <2>5. /\ WRight(place, z) /\ Even(z) /\ z.wrong = x.wrong
        /\ z.segpos = [x.segpos EXCEPT ![n] = R(n)]
        /\ z.segbase = [x.segbase EXCEPT ![n] = R(n)]
    <3>1. size[m][n] = x.segpos[n] - x.segbase[n]
      BY <2>1, <2>4
    <3>2. WRight(place, x) /\ Even(x)
      BY <2>2
    <3> HIDE DEF R
    <3> QED
      BY <2>1, <2>4, <3>1, <3>2, PadFacts DEF R
  <2> HIDE DEF z
  <2>6. x.segpos \in [Seg -> Nat] /\ x.segbase \in [Seg -> Nat]
    BY <2>2 DEF WRight, Work
  <2>7. ASSUME NEW k \in Seg PROVE Now(z, n + 1, k)
    <3>1. Now(x, n, k)
      BY <2>2
    <3>2. k < n + 1 <=> k < n \/ k = n
      BY <1>0, <2>1
    <3> HIDE DEF R
    <3>3. CASE k = n
      BY <2>1, <2>5, <2>6, <3>2, <3>3
    <3>4. CASE k # n
      BY <2>5, <2>6, <3>1, <3>2, <3>4
    <3> QED
      BY <3>3, <3>4
  <2>8. Right(z, n + 1)
    <3> HIDE DEF Now
    <3> QED
      BY <2>2, <2>5, <2>7
  <2> QED
    BY <2>3, <2>8
<1>3. S = Nat
  <2>1. S \subseteq Nat
    OBVIOUS
  <2> HIDE DEF S
  <2> QED
    BY <1>1, <1>2, <2>1, SetInduction
<1>4. Right(padmod(start)[NSEG], NSEG)
  <2>1. NSEG \in S /\ NSEG <= NSEG
    <3> HIDE DEF S
    <3> QED
      BY <1>0, <1>3
  <2> HIDE DEF Right
  <2> QED
    BY <2>1
<1> QED
  BY <1>0, <1>4

-----------------------------------------------------------------------------
(* How ld86 is used, as it stands after Start, and what the first pass has *)
(* added up of the first n modules.                                        *)
Used ==
    /\ opt \in Options /\ M16(opt.tb) /\ M16(opt.db)
    /\ ~opt.sepid => opt.db = 0
    /\ size \in [Mods -> [Seg -> Nat]] /\ common \in [Mods -> [Seg -> Nat]]
    /\ \A i \in Mods : \A seg \in Seg : seg # 3 => common[i][seg] = 0
    /\ \E i \in Mods : \E seg \in 1 .. 3 : size[i][seg] # 0
Summed(n) ==
    /\ segsz \in [Seg -> Nat] /\ comsz \in [Seg -> Nat]
    /\ \A seg \in Seg : /\ M4(segsz[seg])
                        /\ seg # 3 => comsz[seg] = 0
                        /\ \A i \in 1 .. n : size[i][seg] <= segsz[seg]

(* The segments in memory, in the file, and where data ends.  What text    *)
(* has over whole paragraphs is before the far segments of a program that  *)
(* does not round it.                                                      *)
Over(p, seg) == IF opt.sepid \/ seg < 4 THEN 0 ELSE p.etext % 16
InMemory(p) ==
    /\ p.segbase[0] = opt.tb /\ p.segbase[1] = p.bdata /\ p.bdata \in Nat
    /\ ~opt.sepid => opt.tb + segsz[0] <= p.bdata
    /\ p.segbase[2] = p.segbase[1] + segsz[1] /\ p.segbase[3] = p.segbase[2] + segsz[2]
    /\ p.combase = [seg \in Seg |-> p.segbase[seg] + segsz[seg]]
InFile(p) ==
    /\ p.segadj[0] = -opt.tb /\ p.etextpad \in Nat /\ opt.tb + segsz[0] <= p.etextpad
    /\ \A seg \in 1 .. 3 : p.segadj[seg] = p.etextpad - opt.tb - p.bdata
    /\ \A seg \in Seg : seg >= 4 =>
          /\ opt.tb + segsz[0] <= p.segadj[seg] /\ p.segadj[seg] + segsz[seg] <= p.etextpad
          /\ p.segbase[seg] = 0
          /\ \A s \in 4 .. seg - 1 : p.segadj[s] + segsz[s] <= p.segadj[seg]
    /\ \A seg \in Seg : (p.segadj[seg] + opt.tb) % 16 = Over(p, seg)
Ends(p) ==
    /\ \E last \in 1 .. 3 : /\ p.edata = p.segbase[last] + segsz[last]
                            /\ \A seg \in 1 .. 3 : seg > last => segsz[seg] = 0
    /\ p.end = p.combase[3] + comsz[3]
    /\ FitsIn16Bits(p.etext, p.end) => p.end <= p.heap
Placed(p) == PlaceOK(p) /\ InMemory(p) /\ InFile(p) /\ Ends(p)

(* What Place computes.                                                    *)
Placing ==
    LET p == Positions
        q == Special(p)
    IN  [segbase |-> p.segbase, combase |-> p.combase, segadj |-> p.segadj,
         bdata |-> p.bdata, etext |-> p.etext, etextpad |-> p.etextpad,
         edata |-> q.edata, end |-> q.end, heap |-> q.heap]

(* The segments of text and data are there whatever NSEG is.               *)
LEMMA SegSmall == 0 \in Seg /\ 1 \in Seg /\ 2 \in Seg /\ 3 \in Seg /\ Seg \subseteq Nat
BY LayoutAssumption DEF Seg

(* Positions, one segment after the other.                                 *)
LEMMA PositionsDef ==
    ASSUME Used, Summed(NMods)
    PROVE  LET etext == opt.tb + segsz[0]
               textpad == TextPad(etext)
               bdata == IF opt.sepid THEN opt.db ELSE textpad
               p == Positions
           IN  /\ p.segbase = [seg \in Seg |-> IF seg = 0 THEN opt.tb ELSE IF seg = 1 THEN bdata
                                  ELSE IF seg >= 4 THEN 0 ELSE IF seg = 2 THEN bdata + segsz[1]
                                  ELSE bdata + segsz[1] + segsz[2]]
               /\ p.combase = [seg \in Seg |-> p.segbase[seg] + segsz[seg]]
               /\ p.segadj = [seg \in Seg |-> IF seg = 0 THEN -opt.tb
                                              ELSE IF seg >= 4 THEN textpad + FarSums[seg]
                                              ELSE DataAdj(textpad, bdata)]
               /\ p.bdata = bdata /\ p.etext = etext /\ p.etextpad = textpad + Far
<1> DEFINE etext == opt.tb + segsz[0] + comsz[0]
           textpad == TextPad(etext)
           bdata == IF ~opt.sepid /\ opt.db = 0 THEN textpad ELSE opt.db
           Bases(base) == base = [seg \in Seg |->
               IF seg = 0 THEN opt.tb
               ELSE IF seg = 1 THEN bdata
               ELSE IF seg >= 4 THEN 0
               ELSE base[seg - 1] + segsz[seg - 1] + comsz[seg - 1]]
           base == CHOOSE b : Bases(b)
           known == [seg \in Seg |-> IF seg = 0 THEN opt.tb ELSE IF seg = 1 THEN bdata
                        ELSE IF seg >= 4 THEN 0 ELSE IF seg = 2 THEN bdata + segsz[1]
                        ELSE bdata + segsz[1] + segsz[2]]
<1>0. /\ opt.tb \in Nat /\ opt.db \in Nat /\ opt.sepid \in BOOLEAN
      /\ segsz[0] \in Nat /\ segsz[1] \in Nat /\ segsz[2] \in Nat
      /\ comsz[0] = 0 /\ comsz[1] = 0 /\ comsz[2] = 0
  BY SegSmall DEF Used, Summed, Options
<1>1. etext = opt.tb + segsz[0] /\ etext \in Nat
  BY <1>0
<1>2. textpad \in Nat
  <2> HIDE DEF etext
  <2> QED
    BY <1>0, <1>1, Roundup16 DEF TextPad
<1>3. bdata = (IF opt.sepid THEN opt.db ELSE textpad) /\ bdata \in Nat
  <2> HIDE DEF textpad
  <2> QED
    BY <1>0, <1>2 DEF Used
<1>4. Positions =
         [segbase |-> base,
          combase |-> [seg \in Seg |-> base[seg] + segsz[seg]],
          segadj  |-> [seg \in Seg |-> IF seg = 0 THEN -opt.tb
                                       ELSE IF seg >= 4 THEN textpad + FarBefore(seg)
                                       ELSE DataAdj(textpad, bdata)],
          bdata |-> bdata, etext |-> etext, etextpad |-> textpad + Far]
  BY DEF Positions
<1> HIDE DEF textpad, bdata
<1>5. Bases(known)
  <2>1. ASSUME NEW seg \in Seg
        PROVE  known[seg] = IF seg = 0 THEN opt.tb
                            ELSE IF seg = 1 THEN bdata
                            ELSE IF seg >= 4 THEN 0
                            ELSE known[seg - 1] + segsz[seg - 1] + comsz[seg - 1]
    <3>1. seg \in Nat
      BY SegSmall
    <3>2. CASE seg \in {0, 1} \/ seg >= 4
      BY <3>1, <3>2
    <3>3. CASE seg = 2
      BY <1>0, <1>3, <3>3, SegSmall
    <3>4. CASE seg = 3
      BY <1>0, <1>3, <3>4, SegSmall
    <3> QED
      BY <3>1, <3>2, <3>3, <3>4
  <2> HIDE DEF known
  <2>2. known = [seg \in Seg |-> known[seg]]
    BY DEF known
  <2> QED
    BY <2>1, <2>2
<1>6. ASSUME NEW b, Bases(b) PROVE b = known
  <2> SUFFICES ASSUME NEW seg \in Seg PROVE b[seg] = known[seg]
    BY <1>6
  <2>1. seg \in Nat
    BY SegSmall
  <2>2. b[0] = opt.tb /\ b[1] = bdata
    BY <1>6, SegSmall
  <2>3. b[2] = bdata + segsz[1]
    <3>1. b[2] = b[1] + segsz[1] + comsz[1]
      BY <1>6, SegSmall
    <3> QED
      BY <1>0, <1>3, <2>2, <3>1
  <2>4. b[3] = bdata + segsz[1] + segsz[2]
    <3>1. b[3] = b[2] + segsz[2] + comsz[2]
      BY <1>6, SegSmall
    <3> QED
      BY <1>0, <1>3, <2>3, <3>1
  <2>5. seg >= 4 => b[seg] = 0
    BY <1>6, <2>1
  <2>6. seg \in {0, 1, 2, 3} \/ seg >= 4
    BY <2>1
  <2> HIDE DEF Bases
  <2> QED
    BY <2>1, <2>2, <2>3, <2>4, <2>5, <2>6
<1> HIDE DEF Bases
<1>7. base = known
  BY <1>5, <1>6
<1> HIDE DEF base, etext
<1> QED
  BY <1>1, <1>3, <1>4, <1>7 DEF FarBefore, textpad

(* The offsets in the file, as differences.                                *)
LEMMA OffsetsRight ==
    ASSUME Used, NEW pad \in Nat, NEW bdata \in Nat, NEW etext \in Nat,
           pad = TextPad(etext), bdata = (IF opt.sepid THEN opt.db ELSE pad), Far \in Nat,
           M16(Far)
    PROVE  /\ DataAdj(pad, bdata) \in Int /\ DataAdj(pad, bdata) = pad + Far - opt.tb - bdata
           /\ M16(DataAdj(pad, bdata) + opt.tb)
           /\ etext <= pad /\ (opt.sepid => M16(pad))
<1>1. opt.tb \in Nat /\ opt.sepid \in BOOLEAN /\ M16(opt.db) /\ opt.db \in Nat
  BY DEF Used, Options
<1>2. CASE opt.sepid
  <2>1. M16(pad) /\ bdata = opt.db /\ etext <= pad
    BY <1>2, Roundup16 DEF TextPad
  <2>2. DataAdj(pad, bdata) = pad - bdata - opt.tb + Far
    BY <1>2 DEF DataAdj
  <2>3. DataAdj(pad, bdata) + opt.tb = (pad - bdata) + Far
    BY <1>1, <2>2
  <2>4. M16(pad - bdata) /\ pad - bdata \in Int
    BY <1>1, <2>1 DEF M16
  <2>5. M16(DataAdj(pad, bdata) + opt.tb)
    <3>1. M16((pad - bdata) + Far)
      <4> DEFINE d == pad - bdata
      <4>1. d \in Int /\ M16(d)
        BY <2>4
      <4> HIDE DEF d
      <4>2. M16(d + Far)
        BY <4>1 DEF M16
      <4> QED
        BY <4>2 DEF d
    <3> QED
      BY <2>3, <3>1
  <2> QED
    BY <1>1, <2>1, <2>2, <2>5
<1>3. CASE ~opt.sepid
  <2>1. pad = etext /\ bdata = pad
    BY <1>3 DEF TextPad
  <2>2. DataAdj(pad, bdata) = 0 - opt.tb + Far
    BY <1>3 DEF DataAdj
  <2> QED
    BY <1>1, <1>3, <2>1, <2>2
<1> QED
  BY <1>1, <1>2, <1>3

(* The top of the heap is not below the end of data.                       *)
LEMMA HeapTopFits ==
    ASSUME opt \in Options, NEW etext, NEW end \in Nat, FitsIn16Bits(etext, end)
    PROVE  end <= HeapTop(end)
<1>1. opt.heap \in Nat /\ opt.bits32 \in BOOLEAN
  BY DEF Options
<1>2. ~opt.bits32 => end <= Limit
  BY DEF FitsIn16Bits
<1> DEFINE wanted == IF opt.heap < 256 \/ end > opt.heap - 256 THEN end + 32768 ELSE opt.heap
<1>3. wanted \in Nat /\ end <= wanted
  BY <1>1
<1>4. HeapTop(end) = IF wanted > Limit /\ ~opt.bits32 THEN Limit ELSE wanted
  BY DEF HeapTop
<1> HIDE DEF wanted
<1> QED
  BY <1>2, <1>3, <1>4 DEF Limit

(* What Place computes from the sums is where segments may be.             *)
LEMMA PlacingRight ==
    ASSUME Used, Summed(NMods)
    PROVE  Placed(Placing)
<1> DEFINE etext == opt.tb + segsz[0]
           pad == TextPad(etext)
           bdata == IF opt.sepid THEN opt.db ELSE pad
           p == Positions
           q == Special(p)
           r == Placing
<1>0. /\ opt \in Options /\ opt.tb \in Nat /\ opt.db \in Nat /\ opt.sepid \in BOOLEAN
      /\ M16(opt.tb) /\ M16(opt.db)
      /\ \A s \in Seg : segsz[s] \in Nat /\ comsz[s] \in Nat /\ M4(segsz[s])
      /\ segsz \in [Seg -> Nat] /\ comsz \in [Seg -> Nat]
  BY DEF Used, Summed, Options
<1>1. /\ p.segbase = [seg \in Seg |-> IF seg = 0 THEN opt.tb ELSE IF seg = 1 THEN bdata
                          ELSE IF seg >= 4 THEN 0 ELSE IF seg = 2 THEN bdata + segsz[1]
                          ELSE bdata + segsz[1] + segsz[2]]
      /\ p.combase = [seg \in Seg |-> p.segbase[seg] + segsz[seg]]
      /\ p.segadj = [seg \in Seg |-> IF seg = 0 THEN -opt.tb
                                     ELSE IF seg >= 4 THEN pad + FarSums[seg]
                                     ELSE DataAdj(pad, bdata)]
      /\ p.bdata = bdata /\ p.etext = etext /\ p.etextpad = pad + Far
  BY PositionsDef
<1>2. etext \in Nat /\ M4(etext)
  <2>1. M4(opt.tb) /\ M4(segsz[0]) /\ segsz[0] \in Nat
    BY <1>0, Quarters, SegSmall
  <2> QED
    BY <1>0, <2>1 DEF M4
<1> HIDE DEF etext
<1>3. pad \in Nat /\ etext <= pad /\ (opt.sepid => M16(pad)) /\ (~opt.sepid => pad = etext)
  BY <1>0, <1>2, Roundup16 DEF TextPad
<1>4. pad = TextPad(etext)
  OBVIOUS
<1> HIDE DEF pad
<1>5. bdata \in Nat /\ M4(bdata) /\ (~opt.sepid => bdata = pad)
  BY <1>0, <1>2, <1>3, Quarters
<1>6. bdata = IF opt.sepid THEN opt.db ELSE pad
  OBVIOUS
<1> HIDE DEF bdata, p
<1>7. /\ \A s \in 4 .. NSEG : /\ FarSums[s] \in Nat /\ M16(FarSums[s])
                              /\ \A t \in 4 .. s - 1 : FarSums[t] + segsz[t] <= FarSums[s]
      /\ Far \in Nat /\ M16(Far)
      /\ \A s \in Seg : s >= 4 => FarSums[s] + segsz[s] <= Far
  BY <1>0, FarFacts
<1>8. /\ DataAdj(pad, bdata) \in Int /\ DataAdj(pad, bdata) = pad + Far - opt.tb - bdata
      /\ M16(DataAdj(pad, bdata) + opt.tb)
  BY <1>2, <1>3, <1>4, <1>5, <1>6, <1>7, OffsetsRight
<1>9. /\ p.segbase[0] = opt.tb /\ p.segbase[1] = bdata /\ p.segbase[2] = bdata + segsz[1]
      /\ p.segbase[3] = bdata + segsz[1] + segsz[2]
      /\ \A s \in Seg : s >= 4 => p.segbase[s] = 0
      /\ p.segadj[0] = -opt.tb /\ \A s \in 1 .. 3 : p.segadj[s] = DataAdj(pad, bdata)
      /\ \A s \in Seg : s >= 4 => p.segadj[s] = pad + FarSums[s]
  <2>1. \A s \in 1 .. 3 : s \in Seg /\ s # 0 /\ ~(s >= 4)
    BY SegSmall
  <2>2. \A s \in Seg : s >= 4 => s # 0 /\ s # 1
    BY SegSmall
  <2> QED
    BY <1>1, <2>1, <2>2, SegSmall
<1>10. \A s \in Seg : s \in {0, 1, 2, 3} \/ (s >= 4 /\ s \in 4 .. NSEG)
  BY LayoutAssumption DEF Seg
<1>11. PlaceOK(p)
  <2>1. segsz[1] \in Nat /\ segsz[2] \in Nat /\ M4(segsz[1]) /\ M4(segsz[2])
    BY <1>0, SegSmall
  <2>2. M4(opt.tb)
    BY <1>0, Quarters
  <2>3. \A s \in Seg : p.segbase[s] \in Nat /\ M4(p.segbase[s])
    <3>1. bdata + segsz[1] \in Nat /\ M4(bdata + segsz[1])
      BY <1>5, <2>1 DEF M4
    <3>2. /\ bdata + segsz[1] + segsz[2] \in Nat /\ M4(bdata + segsz[1] + segsz[2])
      BY <2>1, <3>1 DEF M4
    <3>3. M4(0)
      BY DEF M4
    <3> TAKE s \in Seg
    <3>4. CASE s = 0
      BY <1>0, <1>9, <2>2, <3>4
    <3>5. CASE s \in {1, 2, 3}
      BY <1>5, <1>9, <3>1, <3>2, <3>5
    <3>6. CASE s >= 4
      BY <1>9, <3>3, <3>6
    <3> QED
      BY <1>10, <3>4, <3>5, <3>6
  <2>4. \A s \in Seg : p.segadj[s] \in Int /\ p.segbase[s] + p.segadj[s] >= 0
    <3> TAKE s \in Seg
    <3>1. CASE s = 0
      BY <1>0, <1>9, <3>1
    <3>2. CASE s \in {1, 2, 3}
      <4>1. p.segadj[s] = pad + Far - opt.tb - bdata
        BY <1>8, <1>9, <3>2
      <4>2. p.segbase[s] \in Nat /\ bdata <= p.segbase[s]
        BY <1>5, <1>9, <2>1, <2>3, <3>2
      <4>3. opt.tb <= etext
        BY <1>0, SegSmall DEF etext
      <4> QED
        BY <1>0, <1>2, <1>3, <1>5, <1>7, <4>1, <4>2, <4>3
    <3>3. CASE s >= 4 /\ s \in 4 .. NSEG
      BY <1>3, <1>7, <1>9, <3>3
    <3> QED
      BY <1>10, <3>1, <3>2, <3>3
  <2>5. p.segbase = [s \in Seg |-> p.segbase[s]] /\ p.segadj = [s \in Seg |-> p.segadj[s]]
    BY <1>1
  <2> QED
    BY <2>3, <2>4, <2>5 DEF PlaceOK
<1>12. InMemory(p)
  <2>1. \A s \in 1 .. 2 : s = 1 \/ s = 2
    OBVIOUS
  <2> QED
    BY <1>1, <1>3, <1>5, <1>9 DEF InMemory, etext
<1>13. InFile(p)
  <2>1. p.segadj[0] = -opt.tb /\ p.etextpad \in Nat /\ opt.tb + segsz[0] <= p.etextpad
    BY <1>1, <1>2, <1>3, <1>7, <1>9 DEF etext
  <2>2. \A s \in 1 .. 3 : p.segadj[s] = p.etextpad - opt.tb - p.bdata
    <3>1. p.etextpad = pad + Far /\ p.bdata = bdata
      BY <1>1
    <3>2. \A s \in 1 .. 3 : p.segadj[s] = pad + Far - opt.tb - bdata
      BY <1>8, <1>9
    <3>3. pad \in Nat /\ Far \in Nat /\ opt.tb \in Nat /\ bdata \in Nat
      BY <1>0, <1>3, <1>5, <1>7
    <3> QED
      BY <3>1, <3>2, <3>3
  <2>3. ASSUME NEW s \in Seg, s >= 4
        PROVE  /\ opt.tb + segsz[0] <= p.segadj[s] /\ p.segadj[s] + segsz[s] <= p.etextpad
               /\ p.segbase[s] = 0
               /\ \A t \in 4 .. s - 1 : p.segadj[t] + segsz[t] <= p.segadj[s]
    <3>1. s \in 4 .. NSEG /\ \A t \in 4 .. s - 1 : t \in Seg /\ t >= 4 /\ t \in 4 .. NSEG
      <4>1. s \in Nat /\ NSEG \in Nat /\ s <= NSEG - 1
        BY LayoutAssumption DEF Seg
      <4> QED
        BY <2>3, <4>1 DEF Seg
    <3>2. p.segadj[s] = pad + FarSums[s] /\ FarSums[s] \in Nat /\ segsz[s] \in Nat
      BY <1>0, <1>7, <1>9, <2>3, <3>1
    <3>3. FarSums[s] + segsz[s] <= Far
      BY <1>7, <2>3
    <3>4. ASSUME NEW t \in 4 .. s - 1 PROVE p.segadj[t] + segsz[t] <= p.segadj[s]
      <4>1. p.segadj[t] = pad + FarSums[t] /\ FarSums[t] \in Nat /\ segsz[t] \in Nat
        BY <1>0, <1>7, <1>9, <3>1
      <4>2. FarSums[t] + segsz[t] <= FarSums[s]
        BY <1>7, <3>1
      <4> QED
        BY <1>3, <3>2, <4>1, <4>2
    <3>5. etext <= p.segadj[s]
      BY <1>2, <1>3, <3>2
    <3>6. p.segadj[s] + segsz[s] <= p.etextpad
      BY <1>1, <1>3, <1>7, <3>2, <3>3
    <3> QED
      BY <1>9, <2>3, <3>4, <3>5, <3>6 DEF etext
  <2>4. ASSUME NEW s \in Seg PROVE (p.segadj[s] + opt.tb) % 16 = Over(p, s)
    <3>1. CASE s = 0
      <4>1. p.segadj[s] + opt.tb = 0
        BY <1>0, <1>9, <3>1
      <4> QED
        BY <3>1, <4>1 DEF Over
    <3>2. CASE s \in {1, 2, 3}
      <4>1. M16(p.segadj[s] + opt.tb)
        BY <1>8, <1>9, <3>2
      <4> QED
        BY <3>2, <4>1 DEF M16, Over
    <3>3. CASE s >= 4 /\ s \in 4 .. NSEG
      <4>1. p.segadj[s] = pad + FarSums[s] /\ FarSums[s] \in Nat /\ M16(FarSums[s])
        BY <1>7, <1>9, <3>3
      <4>2. p.segadj[s] + opt.tb = pad + (FarSums[s] + opt.tb)
        BY <1>0, <1>3, <4>1
      <4>3. M16(FarSums[s] + opt.tb) /\ FarSums[s] + opt.tb \in Nat
        BY <1>0, <4>1 DEF M16
      <4>4. (p.segadj[s] + opt.tb) % 16 = pad % 16
        BY <1>3, <4>2, <4>3, AddSixteenths
      <4>5. pad % 16 = IF opt.sepid THEN 0 ELSE p.etext % 16
        BY <1>1, <1>3 DEF M16
      <4> QED
        BY <3>3, <4>4, <4>5 DEF Over
    <3> QED
      BY <1>10, <3>1, <3>2, <3>3
  <2> QED
    BY <2>1, <2>2, <2>3, <2>4 DEF InFile
<1>14. \E last \in 1 .. 3 : /\ q.edata = p.segbase[last] + segsz[last]
                            /\ \A s \in 1 .. 3 : s > last => segsz[s] = 0
  <2>1. PICK i \in Mods : \E s \in 1 .. 3 : size[i][s] # 0
    BY DEF Used
  <2>2. PICK s \in 1 .. 3 : size[i][s] # 0
    BY <2>1
  <2>3. s \in Seg /\ size[i][s] \in Nat /\ size[i][s] <= segsz[s] /\ segsz[s] \in Nat
    <3>1. s \in Seg
      BY <2>2, SegSmall
    <3>2. size[i][s] \in Nat
      BY <3>1 DEF Used
    <3>3. size[i][s] <= segsz[s]
      BY <3>1 DEF Summed, Mods
    <3> QED
      BY <1>0, <3>1, <3>2, <3>3
  <2>4. s \in LastUsed /\ LastUsed \subseteq 0 .. 3
    BY <2>2, <2>3 DEF LastUsed
  <2> DEFINE IsLast(l) == l \in LastUsed /\ \A t \in LastUsed : t <= l
             last == CHOOSE l \in LastUsed : \A t \in LastUsed : t <= l
  <2>5. \E l \in LastUsed : \A t \in LastUsed : t <= l
    <3>1. CASE 3 \in LastUsed
      BY <2>4, <3>1
    <3>2. CASE 3 \notin LastUsed /\ 2 \in LastUsed
      BY <2>4, <3>2
    <3>3. CASE 3 \notin LastUsed /\ 2 \notin LastUsed
      BY <2>4, <3>3
    <3> QED
      BY <3>1, <3>2, <3>3
  <2>6. last \in LastUsed /\ \A t \in LastUsed : t <= last
    BY <2>5
  <2>7. q.edata = IF LastUsed = {} THEN p.bdata ELSE p.segbase[last] + segsz[last]
    BY DEF Special
  <2> HIDE DEF last, q
  <2>8. last \in 1 .. 3
    BY <2>4, <2>6
  <2>9. \A t \in 1 .. 3 : t > last => segsz[t] = 0
    BY <2>6, <2>8 DEF LastUsed
  <2> QED
    BY <2>4, <2>7, <2>8, <2>9
<1>15. q.end = p.combase[3] + comsz[3] /\ q.heap = HeapTop(q.end)
  BY DEF Special
<1>16. /\ r.segbase = p.segbase /\ r.combase = p.combase /\ r.segadj = p.segadj
       /\ r.bdata = p.bdata /\ r.etext = p.etext /\ r.etextpad = p.etextpad
       /\ r.edata = q.edata /\ r.end = q.end /\ r.heap = q.heap
  BY DEF Placing, p
<1> HIDE DEF q, r
<1>17. q.end \in Nat
  BY <1>0, <1>1, <1>5, <1>9, <1>15, SegSmall
<1>18. FitsIn16Bits(r.etext, r.end) => r.end <= r.heap
  BY <1>0, <1>15, <1>16, <1>17, HeapTopFits
<1>19. Ends(r)
  BY <1>14, <1>15, <1>16, <1>18 DEF Ends
<1>20. PlaceOK(r)
  BY <1>11, <1>16 DEF PlaceOK
<1>21. InMemory(r)
  BY <1>12, <1>16 DEF InMemory
<1>22. InFile(r)
  BY <1>13, <1>16 DEF InFile, Over
<1> QED
  BY <1>19, <1>20, <1>21, <1>22 DEF Placed, r

-----------------------------------------------------------------------------
(* The inductive invariant.  Of the first n modules, each one's segments   *)
(* begin where the rounded end of the one before is, and its common areas  *)
(* not before the end of the one before.                                   *)
Chain(sym, base, total, n) ==
    \A seg \in Seg :
       /\ IF n = 0 THEN total[seg] = base[seg] ELSE sym[1][seg] = base[seg]
       /\ \A i \in 1 .. n : ld_roundup(sym[i][seg] + size[i][seg], 4) =
                               IF i = n THEN total[seg] ELSE sym[i + 1][seg]
AreasIn(ar, base, total, n) ==
    \A seg \in Seg : \A i \in 1 .. n :
       /\ base[seg] <= ar[i][seg] /\ ar[i][seg] + common[i][seg] <= total[seg]
       /\ \A j \in 1 .. n : i < j => ar[i][seg] + common[i][seg] <= ar[j][seg]

Passed == IF pc = "sum" THEN m - 1 ELSE NMods
Typed ==
    /\ m \in Mods /\ pc \in {"sum", "place", "open", "text", "done", "fatal"}
    /\ symbol \in [Mods -> [Seg -> Nat]] /\ area \in [Mods -> [Seg -> Nat]]
    /\ left \in [Seg -> Nat] /\ w \in Work /\ ~w.wrong
SumRight ==
    /\ Chain(symbol, Zero, segsz, Passed) /\ AreasIn(area, Zero, comsz, Passed)
    /\ pc = "place" => m = 1
Area == [seg \in Seg |-> place.combase[seg] + comsz[seg]]
LaidOut ==
    /\ Placed(place) /\ FitsIn16Bits(place.etext, place.end)
    /\ Chain(symbol, place.segbase, place.combase, NMods)
    /\ AreasIn(area, place.combase, Area, NMods)
    /\ WRight(place, w)

(* How far the text of the module at hand has been written.                *)
Opening == w.segbase = symbol[m] /\ \A seg \in Seg : Cur(w, seg) = symbol[m][seg]
Writing ==
    /\ w.segbase = symbol[m]
    /\ \A seg \in Seg : /\ left[seg] <= size[m][seg]
                        /\ Cur(w, seg) = symbol[m][seg] + (size[m][seg] - left[seg])
Written == \A seg \in Seg : Cur(w, seg) = place.combase[seg]

IInv ==
    /\ Used /\ Typed /\ Summed(Passed)
    /\ pc \in {"sum", "place"} => SumRight
    /\ pc \in {"sum", "place", "fatal"} => w.out = {}
    /\ pc \in {"open", "text", "done"} => LaidOut
    /\ pc = "open" => Opening
    /\ pc = "text" => Writing
    /\ pc = "done" => Written

(* Init.                                                                   *)
LEMMA StartFacts ==
    ASSUME NEW o \in Options, o.tb % 16 = 0, o.db % 16 = 0, ~o.sepid => o.db = 0
    PROVE  /\ Start(o) \in Options /\ M16(Start(o).tb) /\ M16(Start(o).db)
           /\ ~Start(o).sepid => Start(o).db = 0
<1> DEFINE tb == IF o.uzp /\ o.tb = 0 THEN Page ELSE o.tb
           db == IF o.uzp /\ o.db = 0 /\ o.sepid THEN Page ELSE o.db
<1>1. /\ o.tb \in Nat /\ o.db \in Nat /\ o.sepid \in BOOLEAN /\ o.uzp \in BOOLEAN
  BY DEF Options
<1>2. tb \in Nat /\ db \in Nat /\ M16(tb) /\ M16(db)
  BY <1>1 DEF M16, Page
<1>3. Start(o) = [o EXCEPT !.tb = tb, !.db = db]
  BY DEF Start, Options
<1>4. ~o.sepid => db = 0
  BY <1>1 DEF Page
<1> HIDE DEF tb, db
<1>5. /\ Start(o) \in Options /\ Start(o).tb = tb /\ Start(o).db = db
      /\ Start(o).sepid = o.sepid
  BY <1>2, <1>3 DEF Options
<1> QED
  BY <1>2, <1>4, <1>5

(* At the start nothing is summed and nothing written.                     *)
LEMMA InitInv == Init => IInv
<1> SUFFICES ASSUME Init PROVE IInv
  OBVIOUS
<1>1. PICK x \in Inputs : opt = Start(x.opt) /\ size = x.size /\ common = x.common
  BY DEF Init
<1>2. /\ x.opt \in Options /\ x.opt.tb % 16 = 0 /\ x.opt.db % 16 = 0
      /\ ~x.opt.sepid => x.opt.db = 0
  BY LayoutAssumption, BasesAssumption
<1>3. opt \in Options /\ M16(opt.tb) /\ M16(opt.db) /\ (~opt.sepid => opt.db = 0)
  BY <1>1, <1>2, StartFacts
<1>4. Used
  <2>1. size \in [Mods -> [Seg -> Nat]] /\ common \in [Mods -> [Seg -> Nat]]
    BY <1>1, LayoutAssumption
  <2>2. \A i \in Mods : \A seg \in Seg : seg # 3 => common[i][seg] = 0
    BY <1>1, LayoutAssumption
  <2>3. \E i \in Mods : \E seg \in 1 .. 3 : size[i][seg] # 0
    BY <1>1, DataAssumption
  <2> QED
    BY <1>3, <2>1, <2>2, <2>3 DEF Used
<1>5. /\ pc = "sum" /\ m = 1 /\ segsz = Zero /\ comsz = Zero /\ left = Zero
      /\ symbol = [i \in Mods |-> Zero] /\ area = [i \in Mods |-> Zero]
      /\ w = [segbase |-> Zero, segpos |-> Zero, spos |-> 0, curseg |-> 0,
              pos |-> 0, out |-> {}, wrong |-> FALSE]
  BY DEF Init
<1>6. Zero \in [Seg -> Nat] /\ \A seg \in Seg : Zero[seg] = 0
  BY DEF Zero
<1>7. m \in Mods
  BY <1>5, LayoutAssumption DEF Mods
<1>8. w \in Work /\ w.out = {} /\ ~w.wrong
  BY <1>5, <1>6, SegSmall DEF Work
<1>9. Typed
  BY <1>5, <1>6, <1>7, <1>8 DEF Typed
<1>10. Passed = 0
  BY <1>5 DEF Passed
<1>11. Summed(0) /\ SumRight
  BY <1>5, <1>6, <1>10 DEF Summed, SumRight, Chain, AreasIn, M4
<1> QED
  BY <1>4, <1>5, <1>8, <1>9, <1>10, <1>11 DEF IInv

-----------------------------------------------------------------------------
(* The first pass, one module.                                             *)
LEMMA SumInv == IInv /\ SumModule => IInv'
<1> SUFFICES ASSUME IInv, SumModule PROVE IInv'
  OBVIOUS
<1>1. /\ pc = "sum" /\ opt' = opt /\ size' = size /\ common' = common
      /\ place' = place /\ w' = w /\ left' = left
      /\ symbol' = [symbol EXCEPT ![m] = segsz] /\ area' = [area EXCEPT ![m] = comsz]
      /\ segsz' = [seg \in Seg |-> ld_roundup(segsz[seg] + size[m][seg], 4)]
      /\ comsz' = [seg \in Seg |-> comsz[seg] + ld_roundup(common[m][seg], 4)]
      /\ m' = (IF m = NMods THEN 1 ELSE m + 1)
      /\ pc' = (IF m = NMods THEN "place" ELSE pc)
  BY DEF SumModule, program
<1>2. /\ Used /\ Typed /\ Summed(m - 1) /\ w.out = {}
      /\ Chain(symbol, Zero, segsz, m - 1) /\ AreasIn(area, Zero, comsz, m - 1)
  BY <1>1 DEF IInv, SumRight, Passed
<1>3. NMods \in Nat /\ m \in 1 .. NMods /\ m \in Mods
  BY <1>2, LayoutAssumption DEF Typed, Mods
<1>4. Passed' = m
  BY <1>1, <1>3 DEF Passed
<1>5. /\ segsz \in [Seg -> Nat] /\ comsz \in [Seg -> Nat]
      /\ symbol \in [Mods -> [Seg -> Nat]] /\ area \in [Mods -> [Seg -> Nat]]
      /\ \A i \in Mods : \A seg \in Seg : size[i][seg] \in Nat /\ common[i][seg] \in Nat
  BY <1>2 DEF Used, Typed, Summed
<1>6. ASSUME NEW seg \in Seg
      PROVE  /\ segsz[seg] \in Nat /\ size[m][seg] \in Nat /\ segsz'[seg] \in Nat /\ M4(segsz'[seg])
             /\ segsz'[seg] = ld_roundup(segsz[seg] + size[m][seg], 4)
             /\ segsz[seg] + size[m][seg] <= segsz'[seg]
             /\ comsz[seg] \in Nat /\ common[m][seg] \in Nat /\ comsz'[seg] \in Nat
             /\ comsz[seg] + common[m][seg] <= comsz'[seg]
             /\ common[m][seg] = 0 => comsz'[seg] = comsz[seg]
             /\ segsz[seg] = 0 /\ size[m][seg] = 0 => segsz'[seg] = 0
  <2>1. /\ segsz[seg] \in Nat /\ size[m][seg] \in Nat
        /\ comsz[seg] \in Nat /\ common[m][seg] \in Nat
    BY <1>3, <1>5
  <2>2. /\ segsz'[seg] = ld_roundup(segsz[seg] + size[m][seg], 4)
        /\ comsz'[seg] = comsz[seg] + ld_roundup(common[m][seg], 4)
    BY <1>1
  <2>3. segsz[seg] + size[m][seg] \in Nat
    BY <2>1
  <2>4. segsz'[seg] \in Nat /\ M4(segsz'[seg]) /\ segsz[seg] + size[m][seg] <= segsz'[seg]
    BY <2>2, <2>3, Roundup4
  <2>5. ld_roundup(common[m][seg], 4) \in Nat /\ common[m][seg] <= ld_roundup(common[m][seg], 4)
    BY <2>1, Roundup4
  <2>6. ld_roundup(0, 4) = 0
    BY DEF ld_roundup
  <2> QED
    BY <2>1, <2>2, <2>4, <2>5, <2>6
<1>7. segsz' \in [Seg -> Nat] /\ comsz' \in [Seg -> Nat]
  <2>1. DOMAIN segsz' = Seg /\ segsz' = [seg \in Seg |-> segsz'[seg]]
        /\ comsz' = [seg \in Seg |-> comsz'[seg]]
    BY <1>1
  <2> QED
    BY <1>6, <2>1
<1>8. \A i \in 1 .. m : i \in Mods /\ (i = m \/ i \in 1 .. m - 1)
  BY <1>3 DEF Mods
<1>9. /\ \A i \in 1 .. m - 1 : symbol'[i] = symbol[i] /\ area'[i] = area[i]
      /\ symbol'[m] = segsz /\ area'[m] = comsz
  <2>1. \A i \in 1 .. m - 1 : i # m /\ i \in Mods
    BY <1>3 DEF Mods
  <2> QED
    BY <1>1, <1>3, <1>5, <2>1
<1>10. Typed'
  <2>1. m' \in Mods /\ pc' \in {"sum", "place", "open", "text", "done", "fatal"}
    BY <1>1, <1>3, LayoutAssumption DEF Mods
  <2>2. symbol' \in [Mods -> [Seg -> Nat]] /\ area' \in [Mods -> [Seg -> Nat]]
    BY <1>1, <1>5
  <2> QED
    BY <1>1, <1>2, <2>1, <2>2 DEF Typed
<1>11. Used'
  BY <1>1, <1>2 DEF Used
<1>12. Summed(Passed)'
  <2>1. ASSUME NEW seg \in Seg
        PROVE  /\ M4(segsz'[seg])
               /\ seg # 3 => comsz'[seg] = 0
               /\ \A i \in 1 .. m : size[i][seg] <= segsz'[seg]
    <3>1. seg # 3 => comsz[seg] = 0 /\ common[m][seg] = 0
      BY <1>2, <1>3 DEF Summed, Used
    <3>2. ASSUME NEW i \in 1 .. m PROVE size[i][seg] <= segsz'[seg]
      <4>1. CASE i = m
        BY <1>6, <4>1
      <4>2. CASE i # m
        <5>1. size[i][seg] <= segsz[seg] /\ size[i][seg] \in Nat
          BY <1>2, <1>5, <1>8, <4>2 DEF Summed
        <5> QED
          BY <1>6, <5>1
      <4> QED
        BY <4>1, <4>2
    <3> QED
      BY <1>6, <3>1, <3>2
  <2> QED
    BY <1>1, <1>4, <1>7, <2>1 DEF Summed
<1>13. Chain(symbol, Zero, segsz, Passed)'
  <2>1. ASSUME NEW seg \in Seg
        PROVE  /\ symbol'[1][seg] = Zero[seg]
               /\ \A i \in 1 .. m : ld_roundup(symbol'[i][seg] + size[i][seg], 4) =
                                       IF i = m THEN segsz'[seg] ELSE symbol'[i + 1][seg]
    <3>1. symbol'[1][seg] = Zero[seg]
      <4>1. CASE m = 1
        BY <1>2, <1>9, <4>1 DEF Chain
      <4>2. CASE m # 1
        <5>1. 1 \in 1 .. m - 1 /\ m - 1 # 0
          BY <1>3, <4>2
        <5> QED
          BY <1>2, <1>9, <5>1 DEF Chain
      <4> QED
        BY <4>1, <4>2
    <3>2. ASSUME NEW i \in 1 .. m
          PROVE  ld_roundup(symbol'[i][seg] + size[i][seg], 4) =
                    IF i = m THEN segsz'[seg] ELSE symbol'[i + 1][seg]
      <4>1. CASE i = m
        BY <1>6, <1>9, <4>1
      <4>2. CASE i # m
        <5>1. i \in 1 .. m - 1 /\ symbol'[i] = symbol[i]
          BY <1>8, <1>9, <4>2
        <5>2. ld_roundup(symbol[i][seg] + size[i][seg], 4) =
                 IF i = m - 1 THEN segsz[seg] ELSE symbol[i + 1][seg]
          BY <1>2, <5>1 DEF Chain
        <5>3. IF i = m - 1 THEN symbol'[i + 1] = segsz ELSE symbol'[i + 1] = symbol[i + 1]
          <6>1. i = m - 1 => i + 1 = m
            BY <1>3
          <6>2. i # m - 1 => i + 1 \in 1 .. m - 1
            BY <1>3, <5>1
          <6> QED
            BY <1>9, <6>1, <6>2
        <5> QED
          BY <4>2, <5>1, <5>2, <5>3
      <4> QED
        BY <4>1, <4>2
    <3> QED
      BY <3>1, <3>2
  <2>2. m # 0
    BY <1>3
  <2> QED
    BY <1>1, <1>4, <2>1, <2>2 DEF Chain
<1>14. AreasIn(area, Zero, comsz, Passed)'
  <2>1. ASSUME NEW seg \in Seg, NEW i \in 1 .. m
        PROVE  /\ Zero[seg] <= area'[i][seg] /\ area'[i][seg] + common[i][seg] <= comsz'[seg]
               /\ \A j \in 1 .. m : i < j => area'[i][seg] + common[i][seg] <= area'[j][seg]
    <3>0. Zero[seg] = 0
      BY DEF Zero
    <3>1. CASE i = m
      <4>1. area'[i][seg] = comsz[seg]
        BY <1>9, <3>1
      <4>2. \A j \in 1 .. m : ~(i < j)
        BY <1>3, <3>1
      <4> QED
        BY <1>6, <3>0, <3>1, <4>1, <4>2
    <3>2. CASE i # m
      <4>1. i \in 1 .. m - 1 /\ i \in Mods /\ area'[i] = area[i]
        BY <1>8, <1>9, <3>2
      <4>2. area[i][seg] \in Nat /\ common[i][seg] \in Nat
        BY <1>5, <4>1
      <4>3. /\ area[i][seg] + common[i][seg] <= comsz[seg]
            /\ \A j \in 1 .. m - 1 : i < j => area[i][seg] + common[i][seg] <= area[j][seg]
        BY <1>2, <4>1 DEF AreasIn
      <4>4. ASSUME NEW j \in 1 .. m, i < j
            PROVE  area'[i][seg] + common[i][seg] <= area'[j][seg]
        <5>1. CASE j = m
          BY <1>9, <4>1, <4>3, <5>1
        <5>2. CASE j # m
          BY <1>8, <1>9, <4>1, <4>3, <4>4, <5>2
        <5> QED
          BY <5>1, <5>2
      <4> QED
        BY <1>6, <3>0, <4>1, <4>2, <4>3, <4>4
    <3> QED
      BY <3>1, <3>2
  <2> QED
    BY <1>1, <1>4, <2>1 DEF AreasIn
<1>15. SumRight'
  <2>1. pc' = "place" => m' = 1
    BY <1>1
  <2> QED
    BY <1>13, <1>14, <2>1 DEF SumRight
<1>16. pc' \in {"sum", "place"}
  BY <1>1
<1> QED
  BY <1>1, <1>2, <1>10, <1>11, <1>12, <1>15, <1>16 DEF IInv

-----------------------------------------------------------------------------
(* Place moves what has been added up to where the segments are.           *)
LEMMA PlaceInv == IInv /\ Place => IInv'
<1> SUFFICES ASSUME IInv, Place PROVE IInv'
  OBVIOUS
<1> DEFINE p == Placing
<1>1. /\ pc = "place" /\ opt' = opt /\ size' = size /\ common' = common
      /\ m' = m /\ left' = left /\ segsz' = segsz /\ comsz' = comsz
      /\ place' = p
      /\ symbol' = [i \in Mods |-> [seg \in Seg |-> symbol[i][seg] + p.segbase[seg]]]
      /\ area' = [i \in Mods |-> [seg \in Seg |-> area[i][seg] + p.combase[seg]]]
      /\ w' = [segbase |-> p.segbase, segpos |-> p.segbase, spos |-> opt.tb, curseg |-> 0,
               pos |-> 0, out |-> {}, wrong |-> FALSE]
      /\ pc' = (IF FitsIn16Bits(p.etext, p.end) THEN "open" ELSE "fatal")
  BY DEF Place, program, Placing
<1>2. /\ Used /\ Typed /\ Summed(NMods) /\ m = 1
      /\ Chain(symbol, Zero, segsz, NMods) /\ AreasIn(area, Zero, comsz, NMods)
  BY <1>1 DEF IInv, SumRight, Passed
<1>3. Placed(p)
  BY <1>2, PlacingRight
<1> HIDE DEF p
<1>4. NMods \in Nat /\ NMods # 0 /\ 1 \in Mods /\ Mods = 1 .. NMods
  BY LayoutAssumption DEF Mods
<1>5. /\ p.segbase \in [Seg -> Nat] /\ p.segadj \in [Seg -> Int]
      /\ \A seg \in Seg : M4(p.segbase[seg])
  BY <1>3 DEF Placed, PlaceOK
<1>6. /\ p.combase = [seg \in Seg |-> p.segbase[seg] + segsz[seg]]
      /\ p.segbase[0] = opt.tb /\ p.segadj[0] = -opt.tb /\ opt.tb \in Nat
  BY <1>2, <1>3 DEF Placed, InMemory, InFile, Used, Options
<1>7. /\ segsz \in [Seg -> Nat] /\ comsz \in [Seg -> Nat]
      /\ symbol \in [Mods -> [Seg -> Nat]] /\ area \in [Mods -> [Seg -> Nat]]
      /\ \A i \in Mods : \A seg \in Seg : size[i][seg] \in Nat /\ common[i][seg] \in Nat
  BY <1>2 DEF Used, Typed, Summed
<1>8. ASSUME NEW i \in Mods, NEW seg \in Seg
      PROVE  /\ symbol[i][seg] \in Nat /\ symbol'[i][seg] = symbol[i][seg] + p.segbase[seg]
             /\ area[i][seg] \in Nat /\ area'[i][seg] = area[i][seg] + p.combase[seg]
             /\ p.combase[seg] \in Nat
             /\ p.combase[seg] = p.segbase[seg] + segsz[seg] /\ segsz[seg] \in Nat
             /\ p.segbase[seg] \in Nat
             /\ ld_roundup(symbol'[i][seg] + size[i][seg], 4)
                   = ld_roundup(symbol[i][seg] + size[i][seg], 4) + p.segbase[seg]
  <2>1. /\ symbol[i][seg] \in Nat /\ symbol'[i][seg] = symbol[i][seg] + p.segbase[seg]
        /\ area[i][seg] \in Nat /\ area'[i][seg] = area[i][seg] + p.combase[seg]
        /\ p.segbase[seg] \in Nat /\ segsz[seg] \in Nat /\ M4(p.segbase[seg])
        /\ p.combase[seg] = p.segbase[seg] + segsz[seg]
        /\ size[i][seg] \in Nat
    BY <1>1, <1>5, <1>6, <1>7
  <2>2. symbol[i][seg] + size[i][seg] \in Nat
    BY <2>1
  <2>3. ld_roundup(symbol[i][seg] + size[i][seg], 4) \in Nat
    BY <2>2, Roundup4
  <2>4. ld_roundup(p.segbase[seg] + (symbol[i][seg] + size[i][seg]), 4)
           = p.segbase[seg] + ld_roundup(symbol[i][seg] + size[i][seg], 4)
    BY <2>1, <2>2, Roundup4
  <2>5. p.segbase[seg] + (symbol[i][seg] + size[i][seg]) = symbol'[i][seg] + size[i][seg]
    BY <2>1
  <2> QED
    BY <2>1, <2>3, <2>4, <2>5
<1>9. Used' /\ Summed(Passed)'
  <2>1. Passed' = NMods
    BY <1>1 DEF Passed
  <2>2. Summed(Passed)'
    BY <1>1, <1>2, <2>1 DEF Summed
  <2> QED
    BY <1>1, <1>2, <2>2 DEF Used
<1>10. w' \in Work /\ ~w'.wrong /\ w'.out = {}
  BY <1>1, <1>5, <1>6, SegSmall DEF Work
<1>11. Typed'
  <2>1. symbol' \in [Mods -> [Seg -> Nat]] /\ area' \in [Mods -> [Seg -> Nat]]
    <3>1. symbol' = [i \in Mods |-> [seg \in Seg |-> symbol'[i][seg]]]
          /\ area' = [i \in Mods |-> [seg \in Seg |-> area'[i][seg]]]
      BY <1>1
    <3>2. \A i \in Mods : \A seg \in Seg : symbol'[i][seg] \in Nat /\ area'[i][seg] \in Nat
      BY <1>8
    <3> QED
      BY <3>1, <3>2
  <2> QED
    BY <1>1, <1>2, <1>10, <2>1 DEF Typed
<1>12. \A seg \in Seg : Cur(w', seg) = p.segbase[seg]
  BY <1>1, <1>6 DEF Cur
<1>13. WRight(place', w')
  <2>1. w'.pos = w'.spos + p.segadj[w'.curseg]
    BY <1>1, <1>6
  <2>2. \A seg \in Seg : p.segbase[seg] <= Cur(w', seg)
    BY <1>5, <1>12
  <2> QED
    BY <1>1, <1>10, <2>1, <2>2 DEF WRight, Pieces
<1>14. Chain(symbol, place.segbase, place.combase, NMods)'
  <2>1. ASSUME NEW seg \in Seg
        PROVE  /\ symbol'[1][seg] = p.segbase[seg]
               /\ \A i \in 1 .. NMods : ld_roundup(symbol'[i][seg] + size[i][seg], 4) =
                                       IF i = NMods THEN p.combase[seg] ELSE symbol'[i + 1][seg]
    <3>1. symbol[1][seg] = 0
      BY <1>2, <1>4 DEF Chain, Zero
    <3>2. symbol'[1][seg] = p.segbase[seg]
      BY <1>4, <1>8, <3>1
    <3>3. ASSUME NEW i \in 1 .. NMods
          PROVE  ld_roundup(symbol'[i][seg] + size[i][seg], 4) =
                    IF i = NMods THEN p.combase[seg] ELSE symbol'[i + 1][seg]
      <4>1. ld_roundup(symbol[i][seg] + size[i][seg], 4) =
               IF i = NMods THEN segsz[seg] ELSE symbol[i + 1][seg]
        BY <1>2 DEF Chain
      <4>2. ld_roundup(symbol'[i][seg] + size[i][seg], 4)
               = ld_roundup(symbol[i][seg] + size[i][seg], 4) + p.segbase[seg]
        BY <1>4, <1>8
      <4>3. CASE i = NMods
        BY <1>4, <1>8, <4>1, <4>2, <4>3
      <4>4. CASE i # NMods
        <5>1. i + 1 \in Mods
          BY <1>4, <4>4
        <5> QED
          BY <1>8, <4>1, <4>2, <4>4, <5>1
      <4> QED
        BY <4>3, <4>4
    <3> QED
      BY <3>2, <3>3
  <2> QED
    BY <1>1, <1>4, <2>1 DEF Chain
<1>15. AreasIn(area, place.combase, Area, NMods)'
  <2>0. Area' = [seg \in Seg |-> p.combase[seg] + comsz[seg]]
    BY <1>1 DEF Area
  <2>1. ASSUME NEW seg \in Seg, NEW i \in 1 .. NMods
        PROVE  /\ p.combase[seg] <= area'[i][seg]
               /\ area'[i][seg] + common[i][seg] <= p.combase[seg] + comsz[seg]
               /\ \A j \in 1 .. NMods : i < j => area'[i][seg] + common[i][seg] <= area'[j][seg]
    <3>1. /\ area[i][seg] + common[i][seg] <= comsz[seg]
          /\ \A j \in 1 .. NMods : i < j => area[i][seg] + common[i][seg] <= area[j][seg]
      BY <1>2 DEF AreasIn
    <3>2. /\ area[i][seg] \in Nat /\ area'[i][seg] = area[i][seg] + p.combase[seg]
          /\ p.combase[seg] \in Nat /\ common[i][seg] \in Nat /\ comsz[seg] \in Nat
      BY <1>4, <1>7, <1>8
    <3>3. ASSUME NEW j \in 1 .. NMods, i < j
          PROVE  area'[i][seg] + common[i][seg] <= area'[j][seg]
      <4>1. area[j][seg] \in Nat /\ area'[j][seg] = area[j][seg] + p.combase[seg]
        BY <1>4, <1>8
      <4> QED
        BY <3>1, <3>2, <3>3, <4>1
    <3> QED
      BY <3>1, <3>2, <3>3
  <2> QED
    BY <1>1, <2>0, <2>1 DEF AreasIn
<1>16. Placed(place)'
  BY <1>1, <1>3 DEF Placed, PlaceOK, InMemory, InFile, Over, Ends, FitsIn16Bits
<1>17. pc' = "open" => LaidOut' /\ Opening'
  <2>1. Opening'
    <3>1. \A seg \in Seg : symbol'[1][seg] = p.segbase[seg]
      BY <1>1, <1>4, <1>14 DEF Chain
    <3>2. symbol'[1] = [seg \in Seg |-> symbol[1][seg] + p.segbase[seg]]
      BY <1>1, <1>4
    <3>3. symbol'[1] = p.segbase
      BY <1>5, <3>1, <3>2
    <3> QED
      BY <1>1, <1>2, <1>12, <3>3 DEF Opening
  <2>2. pc' = "open" => FitsIn16Bits(place.etext, place.end)'
    BY <1>1 DEF FitsIn16Bits
  <2> QED
    BY <1>1, <1>13, <1>14, <1>15, <1>16, <2>1, <2>2 DEF LaidOut
<1>18. pc' \in {"open", "fatal"}
  BY <1>1
<1> QED
  BY <1>9, <1>10, <1>11, <1>17, <1>18 DEF IInv

-----------------------------------------------------------------------------
(* The second pass.                                                        *)
LEMMA ModuleBases ==
    ASSUME IInv, pc \in {"open", "text", "done"}
    PROVE  /\ Used /\ Typed /\ Summed(NMods) /\ LaidOut /\ PlaceOK(place) /\ WRight(place, w)
           /\ \A seg \in Seg : /\ symbol[m][seg] \in Nat /\ size[m][seg] \in Nat
                               /\ left[seg] \in Nat
           /\ symbol \in [Mods -> [Seg -> Nat]] /\ size[m] \in [Seg -> Nat] /\ m \in Mods
<1>1. pc # "sum"
  BY DEF IInv
<1>2. Used /\ Typed /\ Summed(NMods) /\ LaidOut
  BY <1>1 DEF IInv, Passed
<1> QED
  BY <1>2 DEF Used, Typed, LaidOut, Placed

(* What does not change.                                                   *)
LEMMA Unchanged ==
    ASSUME UNCHANGED <<program, segsz, comsz, symbol, area, place>>, IInv, LaidOut,
           pc # "sum", pc' \in {"open", "text", "done"}, WRight(place, w'), ~w'.wrong,
           m' \in Mods, left' \in [Seg -> Nat],
           pc' = "open" => Opening', pc' = "text" => Writing', pc' = "done" => Written'
    PROVE  IInv'
<1>1. /\ opt' = opt /\ size' = size /\ common' = common /\ segsz' = segsz /\ comsz' = comsz
      /\ symbol' = symbol /\ area' = area /\ place' = place
  BY DEF program
<1>2. Used' /\ Typed'
  BY <1>1 DEF IInv, Used, Typed, WRight
<1>3. Passed' = NMods /\ Passed = NMods
  BY DEF Passed
<1>4. Summed(Passed)'
  BY <1>1, <1>3 DEF IInv, Summed
<1>5. Placed(place)' /\ FitsIn16Bits(place.etext, place.end)'
  BY <1>1 DEF LaidOut, Placed, PlaceOK, InMemory, InFile, Over, Ends, FitsIn16Bits
<1>6. Chain(symbol, place.segbase, place.combase, NMods)'
  BY <1>1 DEF LaidOut, Chain
<1>7. AreasIn(area, place.combase, Area, NMods)'
  BY <1>1 DEF LaidOut, AreasIn, Area
<1>8. WRight(place, w)'
  BY <1>1
<1> QED
  BY <1>2, <1>4, <1>5, <1>6, <1>7, <1>8 DEF IInv, LaidOut

(* A module is opened: its segments are where the last one left them.      *)
LEMMA OpenInv == IInv /\ OpenModule => IInv'
<1> SUFFICES ASSUME IInv, OpenModule PROVE IInv'
  OBVIOUS
<1>1. /\ pc = "open" /\ pc' = "text" /\ w' = setseg(w, 0) /\ left' = size[m]
      /\ UNCHANGED <<program, m, segsz, comsz, symbol, area, place>>
  BY DEF OpenModule
<1>2. Opening
  BY <1>1 DEF IInv
<1>3. /\ WRight(place, w') /\ w'.segbase = w.segbase /\ w'.wrong = w.wrong
      /\ \A seg \in Seg : Cur(w', seg) = Cur(w, seg)
  BY <1>1, ModuleBases, SetsegFacts, SegSmall
<1>4. Writing'
  <2>1. w'.segbase = symbol[m]
    BY <1>2, <1>3 DEF Opening
  <2>2. ASSUME NEW seg \in Seg
        PROVE  left'[seg] <= size[m][seg]
               /\ Cur(w', seg) = symbol[m][seg] + (size[m][seg] - left'[seg])
    <3>1. /\ Cur(w', seg) = symbol[m][seg] /\ left'[seg] = size[m][seg]
          /\ symbol[m][seg] \in Nat /\ size[m][seg] \in Nat
      BY <1>1, <1>2, <1>3, ModuleBases DEF Opening
    <3> QED
      BY <3>1
  <2> QED
    BY <1>1, <2>1, <2>2 DEF Writing, program
<1> QED
  BY <1>1, <1>3, <1>4, ModuleBases, Unchanged DEF Typed

(* A chunk of a module, the last of a segment or not.                      *)
LEMMA TextInv == IInv /\ Text => IInv'
<1> SUFFICES ASSUME IInv, Text PROVE IInv'
  OBVIOUS
<1>1. /\ pc = "text" /\ pc' = pc /\ m' = m
      /\ UNCHANGED <<program, segsz, comsz, symbol, area, place>>
  BY DEF Text
<1>2. PICK seg \in Seg : \E n \in {left[seg], left[seg] - 1} :
         /\ n > 0
         /\ w' = Write(setseg(w, seg), m, n)
         /\ left' = [left EXCEPT ![seg] = @ - n]
  BY DEF Text
<1>3. PICK n \in {left[seg], left[seg] - 1} :
         /\ n > 0
         /\ w' = Write(setseg(w, seg), m, n)
         /\ left' = [left EXCEPT ![seg] = left[seg] - n]
  BY <1>2
<1>4. Writing
  BY <1>1 DEF IInv
<1>5. left \in [Seg -> Nat] /\ left[seg] \in Nat
  BY <1>1, ModuleBases DEF Typed
<1>6. n \in Nat /\ n <= left[seg]
  BY <1>3, <1>5
<1> DEFINE x == setseg(w, seg)
<1>7. /\ WRight(place, x) /\ x.curseg = seg /\ x.segbase = w.segbase /\ x.wrong = w.wrong
      /\ \A k \in Seg : Cur(x, k) = Cur(w, k)
  BY <1>1, ModuleBases, SetsegFacts
<1> HIDE DEF x
<1>8. /\ WRight(place, w') /\ w'.curseg = seg /\ w'.spos = x.spos + n
      /\ w'.segpos = x.segpos /\ w'.segbase = x.segbase /\ w'.wrong = x.wrong
  <2>1. w' = Write(x, m, n)
    BY <1>3 DEF x
  <2>2. /\ WRight(place, Write(x, m, n)) /\ Write(x, m, n).curseg = x.curseg
        /\ Write(x, m, n).spos = x.spos + n
        /\ Write(x, m, n).segpos = x.segpos /\ Write(x, m, n).segbase = x.segbase
        /\ Write(x, m, n).wrong = x.wrong
    <3>1. m \in Mods /\ PlaceOK(place)
      BY <1>1, ModuleBases
    <3> QED
      BY <1>6, <1>7, <3>1, WriteFacts
  <2> QED
    BY <1>7, <2>1, <2>2
<1>9. left' \in [Seg -> Nat]
  BY <1>3, <1>5, <1>6
<1>10. Writing'
  <2>1. w'.segbase = symbol[m]
    BY <1>4, <1>7, <1>8 DEF Writing
  <2>2. ASSUME NEW k \in Seg
        PROVE  left'[k] <= size[m][k]
               /\ Cur(w', k) = symbol[m][k] + (size[m][k] - left'[k])
    <3>1. /\ left[k] <= size[m][k] /\ Cur(x, k) = symbol[m][k] + (size[m][k] - left[k])
          /\ symbol[m][k] \in Nat /\ size[m][k] \in Nat /\ left[k] \in Nat
      BY <1>1, <1>4, <1>7, ModuleBases DEF Writing
    <3>2. CASE k = seg
      <4>1. Cur(w', k) = x.spos + n /\ Cur(x, k) = x.spos
        BY <1>7, <1>8, <3>2 DEF Cur
      <4>2. left'[k] = left[k] - n
        BY <1>3, <1>5, <3>2
      <4>3. Cur(w', k) = Cur(x, k) + n
        BY <4>1
      <4> QED
        BY <1>6, <3>1, <3>2, <4>2, <4>3
    <3>3. CASE k # seg
      BY <1>3, <1>5, <1>7, <1>8, <3>1, <3>3 DEF Cur
    <3> QED
      BY <3>2, <3>3
  <2> QED
    BY <1>1, <2>1, <2>2 DEF Writing, program
<1>11. ~w'.wrong /\ m' \in Mods
  BY <1>1, <1>7, <1>8, ModuleBases DEF Typed
<1> QED
  BY <1>1, <1>8, <1>9, <1>10, <1>11, ModuleBases, Unchanged

(* A module ends: padding takes each segment to where the next one begins, *)
(* or to its common area.                                                  *)
LEMMA EndInv == IInv /\ EndModule => IInv'
<1> SUFFICES ASSUME IInv, EndModule PROVE IInv'
  OBVIOUS
<1> DEFINE start == [w EXCEPT !.segpos[w.curseg] = w.spos]
           z == padmod(start)[NSEG]
<1>1. /\ pc = "text" /\ left = Zero /\ w' = z
      /\ m' = (IF m = NMods THEN 1 ELSE m + 1)
      /\ pc' = (IF m = NMods THEN "done" ELSE "open")
      /\ UNCHANGED <<program, segsz, comsz, symbol, area, place, left>>
  BY DEF EndModule
<1>2. Writing
  BY <1>1 DEF IInv
<1>3. /\ w \in Work /\ w.curseg \in Seg /\ w.segpos \in [Seg -> Nat] /\ w.spos \in Nat
      /\ WRight(place, w) /\ ~w.wrong
  BY <1>1, ModuleBases DEF Typed, Work
<1>4. /\ start = [w EXCEPT !.segpos = [w.segpos EXCEPT ![w.curseg] = w.spos]]
      /\ [w.segpos EXCEPT ![w.curseg] = w.spos] \in [Seg -> Nat]
  BY <1>3 DEF Work
<1> HIDE DEF start
<1>5. /\ start \in Work /\ start.segpos = [w.segpos EXCEPT ![w.curseg] = w.spos]
      /\ start.curseg = w.curseg /\ start.spos = w.spos /\ start.out = w.out
      /\ start.pos = w.pos /\ start.wrong = w.wrong /\ start.segbase = w.segbase
  BY <1>3, <1>4 DEF Work
<1>6. /\ \A k \in Seg : Cur(start, k) = Cur(w, k) /\ start.segpos[k] = Cur(w, k)
      /\ Even(start)
  BY <1>3, <1>5 DEF Cur, Even
<1>7. WRight(place, start)
  <2>1. \A c \in w.out : c.seg \in Seg
    BY <1>3 DEF Work, Chunk
  <2> QED
    BY <1>3, <1>5, <1>6, <2>1 DEF WRight, Pieces
<1>8. \A k \in Seg : /\ start.segpos[k] = symbol[m][k] + size[m][k]
                     /\ size[m][k] = start.segpos[k] - start.segbase[k]
  <2> TAKE k \in Seg
  <2>1. left[k] = 0
    BY <1>1 DEF Zero
  <2>2. symbol[m][k] \in Nat /\ size[m][k] \in Nat
    BY <1>1, ModuleBases
  <2>3. Cur(w, k) = symbol[m][k] + (size[m][k] - left[k]) /\ start.segbase[k] = symbol[m][k]
    BY <1>2, <1>5 DEF Writing
  <2> QED
    BY <1>6, <2>1, <2>2, <2>3
<1>9. /\ WRight(place, z) /\ Even(z) /\ z.wrong = start.wrong
      /\ \A k \in Seg : /\ z.segpos[k] = ld_roundup(start.segpos[k], 4)
                        /\ z.segbase[k] = ld_roundup(start.segpos[k], 4)
  <2>1. m \in Mods /\ PlaceOK(place)
    BY <1>1, ModuleBases
  <2> QED
    BY <1>6, <1>7, <1>8, <2>1, PadAll
<1> HIDE DEF z
<1>10. \A k \in Seg : Cur(z, k) = z.segpos[k]
  BY <1>9 DEF Cur, Even
<1>11. m \in 1 .. NMods /\ NMods \in Nat /\ Mods = 1 .. NMods
  BY <1>1, ModuleBases, LayoutAssumption DEF Mods
<1>12. \A k \in Seg : ld_roundup(start.segpos[k], 4) =
                         IF m = NMods THEN place.combase[k] ELSE symbol[m + 1][k]
  <2>1. Chain(symbol, place.segbase, place.combase, NMods)
    BY <1>1, ModuleBases DEF LaidOut
  <2> QED
    BY <1>8, <1>11, <2>1 DEF Chain
<1>13. CASE m = NMods
  <2>1. Written'
    BY <1>1, <1>9, <1>10, <1>12, <1>13 DEF Written
  <2>2. m' \in Mods /\ left' \in [Seg -> Nat] /\ ~w'.wrong
    BY <1>1, <1>3, <1>5, <1>9, <1>11, <1>13, ModuleBases DEF Typed
  <2> QED
    BY <1>1, <1>9, <1>13, <2>1, <2>2, ModuleBases, Unchanged
<1>14. CASE m # NMods
  <2>1. m' = m + 1 /\ m + 1 \in Mods
    BY <1>1, <1>11, <1>14
  <2>2. z.segbase = symbol[m + 1]
    <3>1. z.segbase \in [Seg -> Nat]
      BY <1>9 DEF WRight, Work
    <3>2. symbol[m + 1] \in [Seg -> Nat]
      BY <1>1, <2>1, ModuleBases
    <3>3. \A k \in Seg : z.segbase[k] = symbol[m + 1][k]
      BY <1>9, <1>12, <1>14
    <3> QED
      BY <3>1, <3>2, <3>3
  <2>3. Opening'
    BY <1>1, <1>9, <1>10, <1>12, <1>14, <2>1, <2>2 DEF Opening
  <2>4. left' \in [Seg -> Nat] /\ ~w'.wrong
    BY <1>1, <1>3, <1>5, <1>9, ModuleBases DEF Typed
  <2> QED
    BY <1>1, <1>9, <1>14, <2>1, <2>3, <2>4, ModuleBases, Unchanged
<1> QED
  BY <1>13, <1>14

(* Nothing happens.                                                        *)
LEMMA StutterInv == IInv /\ UNCHANGED vars => IInv'
<1> SUFFICES ASSUME IInv, UNCHANGED vars PROVE IInv'
  OBVIOUS
<1>1. /\ opt' = opt /\ size' = size /\ common' = common /\ segsz' = segsz /\ comsz' = comsz
      /\ symbol' = symbol /\ area' = area /\ place' = place /\ pc' = pc /\ m' = m
      /\ w' = w /\ left' = left
  BY DEF vars
<1>2. /\ (Used' <=> Used) /\ (Typed' <=> Typed) /\ Passed' = Passed
  BY <1>1 DEF Used, Typed, Passed
<1>3. (Summed(Passed)' <=> Summed(Passed)) /\ (SumRight' <=> SumRight)
  BY <1>1, <1>2 DEF Summed, SumRight, Chain, AreasIn
<1>4. Placed(place)' <=> Placed(place)
  BY <1>1 DEF Placed, PlaceOK, InMemory, InFile, Over, Ends, FitsIn16Bits
<1>5. LaidOut' <=> LaidOut
  BY <1>1, <1>4 DEF LaidOut, Chain, AreasIn, Area, FitsIn16Bits
<1>6. (Opening' <=> Opening) /\ (Writing' <=> Writing) /\ (Written' <=> Written)
  BY <1>1 DEF Opening, Writing, Written
<1> QED
  BY <1>1, <1>2, <1>3, <1>5, <1>6 DEF IInv

(* Every step keeps the invariant.                                         *)
LEMMA StepInv == IInv /\ [Next]_vars => IInv'
BY SumInv, PlaceInv, OpenInv, TextInv, EndInv, StutterInv DEF Next

(* Throughout linking the sums of the first pass and the positions of the  *)
(* second are those of the modules read so far: see IInv.                  *)
THEOREM Invariant == Spec => []IInv
<1>1. Init => IInv
  BY InitInv
<1>2. IInv /\ [Next]_vars => IInv'
  BY StepInv
<1> QED
  BY <1>1, <1>2, PTL DEF Spec

-----------------------------------------------------------------------------
(* The types are among what the invariant says.                            *)
LEMMA ImpliesTypeOK == IInv => TypeOK
<1> SUFFICES ASSUME IInv PROVE TypeOK
  OBVIOUS
<1>1. Typed /\ Summed(Passed)
  BY DEF IInv
<1>2. {segsz, comsz, left, w.segbase, w.segpos} \subseteq [Seg -> Nat]
  BY <1>1 DEF Typed, Summed, Work
<1>3. w.curseg \in Seg /\ w.spos \in Nat /\ w.pos \in Nat /\ w.out \subseteq Chunk
  BY <1>1 DEF Typed, Work
<1>4. ASSUME NEW x \in w.out
      PROVE  x.mod \in Mods /\ x.seg \in Seg /\ x.from \in Nat /\ x.to > x.from
  <2>1. x.mod \in Mods /\ x.seg \in Seg /\ x.from \in Nat /\ x.to \in Nat
    BY <1>3 DEF Chunk
  <2>2. pc \notin {"sum", "place", "fatal"}
    BY DEF IInv
  <2>3. WRight(place, w)
    BY <1>1, <2>2 DEF IInv, Typed, LaidOut
  <2>4. x.from < x.to
    BY <2>3 DEF WRight, Pieces
  <2> QED
    BY <2>1, <2>4
<1> QED
  BY <1>1, <1>2, <1>3, <1>4 DEF TypeOK, Typed

(* When pass 2 comes to a module its segments begin where pass 1 moved its *)
(* symbols, so that a relocation by offset and one by symbol give the same *)
(* address; and its text is as long as its header says.                    *)
THEOREM RelocationsAgree == Spec => []SymbolsLand
<1>1. ASSUME IInv PROVE SymbolsLand
  <2>1. TypeOK
    BY <1>1, ImpliesTypeOK
  <2>2. TextFits
    BY <1>1 DEF TextFits, IInv, Typed
  <2>3. Linking => w.segbase = symbol[m]
    BY <1>1 DEF Linking, IInv, Opening, Writing
  <2> QED
    BY <2>1, <2>2, <2>3 DEF SymbolsLand
<1> QED
  BY <1>1, Invariant, PTL

-----------------------------------------------------------------------------
(* When all is written: where a piece of a segment lies.                   *)
LEMMA PieceOf ==
    ASSUME IInv, pc = "done", NEW x \in w.out
    PROVE  /\ x.seg \in Seg /\ x.at \in Nat /\ x.from \in Nat /\ x.to \in Nat /\ x.from < x.to
           /\ x.from = x.at + place.segadj[x.seg] /\ place.segbase[x.seg] <= x.at
           /\ x.at + (x.to - x.from) <= place.segbase[x.seg] + segsz[x.seg]
           /\ segsz[x.seg] # 0
           /\ x.to <= place.segbase[x.seg] + segsz[x.seg] + place.segadj[x.seg]
<1>1. LaidOut /\ Written /\ Typed /\ Summed(NMods)
  BY DEF IInv, Passed
<1>2. x \in Chunk
  BY <1>1 DEF Typed, Work
<1>3. x.seg \in Seg /\ x.at \in Nat /\ x.from \in Nat /\ x.to \in Nat
  BY <1>2 DEF Chunk
<1>4. /\ x.from = x.at + place.segadj[x.seg] /\ x.from < x.to
      /\ place.segbase[x.seg] <= x.at
      /\ x.at + (x.to - x.from) <= Cur(w, x.seg)
  BY <1>1 DEF LaidOut, WRight, Pieces
<1>5. Cur(w, x.seg) = place.combase[x.seg]
  BY <1>1, <1>3 DEF Written
<1>6. place.combase[x.seg] = place.segbase[x.seg] + segsz[x.seg]
  BY <1>1, <1>3 DEF LaidOut, Placed, InMemory
<1>7. /\ place.segbase[x.seg] \in Nat /\ place.segadj[x.seg] \in Int /\ segsz[x.seg] \in Nat
  BY <1>1, <1>3 DEF LaidOut, Placed, PlaceOK, Summed
<1> QED
  BY <1>3, <1>4, <1>5, <1>6, <1>7

(* And where the segments are, in memory and in the file.                  *)
LEMMA DonePlaces ==
    ASSUME IInv, pc = "done"
    PROVE  /\ Placed(place) /\ Used /\ Summed(NMods) /\ LaidOut
           /\ opt.tb \in Nat /\ opt.sepid \in BOOLEAN
           /\ \A seg \in Seg : /\ segsz[seg] \in Nat /\ comsz[seg] \in Nat
                               /\ place.segbase[seg] \in Nat /\ place.segadj[seg] \in Int
           /\ \A seg \in Seg : seg \in {0, 1, 2, 3} \/ (seg \in Nat /\ seg >= 4)
           /\ place.segbase[0] = opt.tb /\ place.segbase[1] = place.bdata /\ place.bdata \in Nat
           /\ ~opt.sepid => opt.tb + segsz[0] <= place.bdata
           /\ place.segbase[2] = place.segbase[1] + segsz[1]
           /\ place.segbase[3] = place.segbase[2] + segsz[2]
           /\ place.segadj[0] = -opt.tb /\ place.etextpad \in Nat
           /\ opt.tb + segsz[0] <= place.etextpad
           /\ \A seg \in 1 .. 3 : place.segadj[seg] = place.etextpad - opt.tb - place.bdata
<1>1. Placed(place) /\ Used /\ Summed(NMods) /\ LaidOut
  BY DEF IInv, Passed, LaidOut
<1> QED
  BY <1>1, SegSmall DEF Placed, PlaceOK, InMemory, InFile, Used, Summed, Options

(* Text that is reached by far calls is behind the rest of the text.       *)
LEMMA FarPieces ==
    ASSUME IInv, pc = "done", NEW seg \in Seg, seg >= 4, segsz[seg] # 0
    PROVE  /\ place.segbase[seg] = 0 /\ opt.tb + segsz[0] <= place.segadj[seg]
           /\ place.segadj[seg] + segsz[seg] <= place.etextpad
           /\ \A s \in Seg : 4 <= s /\ s < seg => place.segadj[s] + segsz[s] <= place.segadj[seg]
<1>1. InFile(place)
  BY DonePlaces DEF Placed
<1>2. /\ opt.tb + segsz[0] <= place.segadj[seg] /\ place.segbase[seg] = 0
      /\ place.segadj[seg] + segsz[seg] <= place.etextpad
      /\ \A s \in 4 .. seg - 1 : place.segadj[s] + segsz[s] <= place.segadj[seg]
  BY <1>1 DEF InFile
<1>3. \A s \in Seg : 4 <= s /\ s < seg => s \in 4 .. seg - 1
  BY SegSmall
<1> QED
  BY <1>2, <1>3

(* In the file.                                                            *)
Start0(seg) == place.segbase[seg] + place.segadj[seg]
FarData(r, s) == opt.tb # 0 /\ r >= 4 /\ s \in 1 .. 3
LEMMA FilePlaces ==
    ASSUME IInv, pc = "done"
    PROVE  /\ \A seg \in Seg : segsz[seg] # 0 => /\ Start0(seg) \in Nat
                                                 /\ seg = 0 =>
                                                      Start0(seg) + segsz[seg] <= place.etextpad - opt.tb
                                                 /\ seg >= 4 =>
                                                      Start0(seg) + segsz[seg] <= place.etextpad
                                                 /\ seg \in 1 .. 3 =>
                                                      place.etextpad - opt.tb <= Start0(seg)
           /\ \A r, s \in Seg : segsz[r] # 0 /\ segsz[s] # 0 /\ r # s =>
                 \/ Apart(Start0(r), Start0(r) + segsz[r], Start0(s), Start0(s) + segsz[s])
                 \/ FarData(r, s) \/ FarData(s, r)
<1>1. ASSUME NEW s \in Seg, segsz[s] # 0
      PROVE  /\ Start0(s) \in Nat
             /\ s = 0 => Start0(s) = 0 /\ Start0(s) + segsz[s] <= place.etextpad - opt.tb
             /\ s >= 4 => /\ segsz[0] <= Start0(s) /\ Start0(s) = place.segadj[s]
                          /\ Start0(s) + segsz[s] <= place.etextpad
             /\ s \in 1 .. 3 => place.etextpad - opt.tb <= Start0(s)
             /\ segsz[s] \in Nat /\ place.etextpad \in Nat /\ opt.tb \in Nat
  <2>1. CASE s = 0
    BY <2>1, DonePlaces, SegSmall DEF Start0
  <2>2. CASE s \in {1, 2, 3}
    BY <2>2, DonePlaces, SegSmall DEF Start0
  <2>3. CASE s >= 4 /\ s \in Nat
    BY <1>1, <2>3, DonePlaces, FarPieces, SegSmall DEF Start0
  <2> QED
    BY <2>1, <2>2, <2>3, DonePlaces
<1>2. ASSUME NEW r \in Seg, NEW s \in Seg, segsz[r] # 0, segsz[s] # 0, r < s, ~FarData(s, r)
      PROVE  Start0(r) + segsz[r] <= Start0(s) \/ Start0(s) + segsz[s] <= Start0(r)
  <2>0. r \in Nat /\ s \in Nat
    BY SegSmall
  <2>1. CASE r = 0 /\ s \in 1 .. 3
    BY <1>1, <1>2, <2>1
  <2>2. CASE r = 0 /\ s >= 4
    BY <1>1, <1>2, <2>2
  <2>3. CASE r \in 1 .. 3 /\ s \in 1 .. 3
    <3>1. (r = 1 /\ s = 2) \/ (r = 1 /\ s = 3) \/ (r = 2 /\ s = 3)
      BY <1>2, <2>3
    <3> QED
      BY <3>1, DonePlaces, SegSmall DEF Start0
  <2>4. CASE r >= 4 /\ s >= 4
    BY <1>1, <1>2, <2>4, FarPieces
  <2>5. CASE r \in 1 .. 3 /\ s >= 4
    <3>1. opt.tb = 0
      BY <1>2, <2>5 DEF FarData
    <3> QED
      BY <1>1, <1>2, <2>0, <2>5, <3>1
  <2> QED
    BY <2>0, <1>2, <2>1, <2>2, <2>3, <2>4, <2>5
<1>3. ASSUME NEW r \in Seg, NEW s \in Seg, segsz[r] # 0, segsz[s] # 0, r # s,
             ~FarData(r, s), ~FarData(s, r)
      PROVE  Apart(Start0(r), Start0(r) + segsz[r], Start0(s), Start0(s) + segsz[s])
  <2>1. r < s \/ s < r
    BY <1>3, SegSmall
  <2> QED
    BY <1>2, <1>3, <2>1 DEF Apart
<1>4. \A seg \in Seg : segsz[seg] # 0 =>
         /\ Start0(seg) \in Nat
         /\ seg = 0 => Start0(seg) + segsz[seg] <= place.etextpad - opt.tb
         /\ seg >= 4 => Start0(seg) + segsz[seg] <= place.etextpad
         /\ seg \in 1 .. 3 => place.etextpad - opt.tb <= Start0(seg)
  BY <1>1
<1> QED
  BY <1>3, <1>4

(* Data ends with the last segment that has any, and with it the memory    *)
(* that is initialised.                                                    *)
LEMMA DataEnds ==
    ASSUME IInv, pc = "done"
    PROVE  /\ place.edata \in Nat /\ place.end \in Nat /\ place.bdata <= place.edata
           /\ place.edata <= place.segbase[3] + segsz[3]
           /\ place.end = place.segbase[3] + segsz[3] + comsz[3] /\ place.end <= place.heap
           /\ \A s \in 1 .. 3 : segsz[s] # 0 => place.segbase[s] + segsz[s] <= place.edata
           /\ \A s \in 1 .. 3 : place.bdata <= place.segbase[s]
                                /\ place.segbase[s] + segsz[s] <= place.segbase[3] + segsz[3]
<1>1. Ends(place) /\ InMemory(place) /\ FitsIn16Bits(place.etext, place.end)
  BY DonePlaces DEF Placed, LaidOut
<1>2. PICK last \in 1 .. 3 : /\ place.edata = place.segbase[last] + segsz[last]
                             /\ \A seg \in 1 .. 3 : seg > last => segsz[seg] = 0
  BY <1>1 DEF Ends
<1>3. /\ place.combase[3] = place.segbase[3] + segsz[3]
      /\ place.end = place.combase[3] + comsz[3] /\ place.end <= place.heap
  BY <1>1, SegSmall DEF Ends, InMemory
<1>4. /\ segsz[1] \in Nat /\ segsz[2] \in Nat /\ segsz[3] \in Nat /\ comsz[3] \in Nat
      /\ place.segbase[1] = place.bdata /\ place.bdata \in Nat
      /\ place.segbase[2] = place.segbase[1] + segsz[1]
      /\ place.segbase[3] = place.segbase[2] + segsz[2]
  BY DonePlaces, SegSmall
<1>5. last = 1 \/ last = 2 \/ last = 3
  OBVIOUS
<1>6. \A s \in 1 .. 3 : s = 1 \/ s = 2 \/ s = 3
  OBVIOUS
<1>7. \A s \in 1 .. 3 : segsz[s] # 0 => place.segbase[s] + segsz[s] <= place.edata
  <2>1. CASE last = 1
    <3>1. segsz[2] = 0 /\ segsz[3] = 0
      BY <1>2, <2>1
    <3> QED
      BY <1>2, <1>4, <1>6, <2>1, <3>1
  <2>2. CASE last = 2
    <3>1. segsz[3] = 0
      BY <1>2, <2>2
    <3> QED
      BY <1>2, <1>4, <1>6, <2>2, <3>1
  <2>3. CASE last = 3
    BY <1>2, <1>4, <1>6, <2>3
  <2> QED
    BY <1>5, <2>1, <2>2, <2>3
<1>8. place.edata \in Nat /\ place.bdata <= place.edata
      /\ place.edata <= place.segbase[3] + segsz[3]
  BY <1>2, <1>4, <1>5
<1>9. \A s \in 1 .. 3 : place.bdata <= place.segbase[s]
                        /\ place.segbase[s] + segsz[s] <= place.segbase[3] + segsz[3]
  BY <1>4, <1>6
<1>10. place.end = place.segbase[3] + segsz[3] + comsz[3] /\ place.end \in Nat
  BY <1>3, <1>4
<1> QED
  BY <1>3, <1>7, <1>8, <1>9, <1>10

(* So nothing in the file overwrites anything else.                        *)
LEMMA ImpliesFileOnce == IInv /\ pc = "done" => FileOnce
<1> SUFFICES ASSUME IInv, pc = "done" PROVE FileOnce
  OBVIOUS
<1> DEFINE text == place.etextpad - opt.tb
           data == place.edata - place.bdata
<1>1. ASSUME NEW x \in w.out
      PROVE  /\ x.seg \in Seg /\ segsz[x.seg] # 0 /\ x.from \in Nat /\ x.to \in Nat
             /\ Start0(x.seg) \in Nat /\ segsz[x.seg] \in Nat
             /\ Start0(x.seg) <= x.from /\ x.to <= Start0(x.seg) + segsz[x.seg]
  <2>1. /\ x.seg \in Seg /\ x.at \in Nat /\ x.from \in Nat /\ x.to \in Nat
        /\ x.from = x.at + place.segadj[x.seg] /\ place.segbase[x.seg] <= x.at
        /\ segsz[x.seg] # 0
        /\ x.to <= place.segbase[x.seg] + segsz[x.seg] + place.segadj[x.seg]
    BY PieceOf
  <2>2. /\ segsz[x.seg] \in Nat /\ place.segbase[x.seg] \in Nat /\ place.segadj[x.seg] \in Int
    BY <2>1, DonePlaces
  <2> QED
    BY <2>1, <2>2, FilePlaces DEF Start0
<1>2. ASSUME NEW x \in w.out, NEW y \in w.out, x # y, ~Overrun(x, y), ~Overrun(y, x)
      PROVE  Apart(x.from, x.to, y.from, y.to)
  <2>1. CASE x.seg = y.seg
    <3>1. Pieces(place, w)
      BY DonePlaces DEF LaidOut, WRight
    <3> QED
      BY <1>2, <2>1, <3>1 DEF Pieces
  <2>2. CASE x.seg # y.seg
    <3>0. ~FarData(x.seg, y.seg) /\ ~FarData(y.seg, x.seg)
      BY <1>2 DEF Overrun, FarData
    <3>1. Apart(Start0(x.seg), Start0(x.seg) + segsz[x.seg],
                Start0(y.seg), Start0(y.seg) + segsz[y.seg])
      BY <1>1, <2>2, <3>0, FilePlaces
    <3> QED
      BY <1>1, <3>1 DEF Apart
  <2> QED
    BY <2>1, <2>2
<1>3. ASSUME NEW x \in w.out
      PROVE  IF x.seg \in 1 .. 3 THEN text <= x.from /\ x.to <= text + data
             ELSE x.to <= IF x.seg = 0 THEN text ELSE text + opt.tb
  <2>1. /\ text \in Int /\ place.edata \in Nat /\ place.bdata \in Nat
        /\ opt.tb \in Nat /\ place.etextpad \in Nat
    BY DonePlaces, DataEnds
  <2>2. CASE x.seg = 0
    <3>1. Start0(x.seg) + segsz[x.seg] <= text
      BY <1>1, <2>2, FilePlaces
    <3> HIDE DEF text
    <3> QED
      BY <1>1, <2>1, <2>2, <3>1
  <2>4. CASE x.seg >= 4
    <3>1. Start0(x.seg) + segsz[x.seg] <= place.etextpad
      BY <1>1, <2>4, FilePlaces
    <3>2. text + opt.tb = place.etextpad
      BY <2>1
    <3>3. x.seg \notin 1 .. 3 /\ x.seg # 0
      BY <1>1, <2>4, SegSmall
    <3> HIDE DEF text
    <3> QED
      BY <1>1, <2>1, <3>1, <3>2, <3>3
  <2>3. CASE x.seg \in 1 .. 3
    <3>1. text <= Start0(x.seg)
      BY <1>1, <2>3, FilePlaces
    <3>2. Start0(x.seg) = place.segbase[x.seg] + (text - place.bdata)
      BY <2>3, DonePlaces DEF Start0
    <3>3. /\ place.segbase[x.seg] + segsz[x.seg] <= place.edata
          /\ place.segbase[x.seg] \in Nat
      BY <1>1, <2>3, DataEnds, DonePlaces
    <3> HIDE DEF text
    <3> QED
      BY <1>1, <2>1, <2>3, <3>1, <3>2, <3>3
  <2>5. x.seg = 0 \/ x.seg \in 1 .. 3 \/ x.seg >= 4
    BY <1>1, DonePlaces
  <2> QED
    BY <2>2, <2>3, <2>4, <2>5
<1> QED
  BY <1>2, <1>3 DEF FileOnce

(* In memory.  What is written, and the common areas.                      *)
LEMMA PiecesOnce ==
    ASSUME IInv, pc = "done", NEW x \in w.out, NEW y \in w.out, x # y,
           Space(x.seg) = Space(y.seg)
    PROVE  Apart(x.at, x.at + (x.to - x.from), y.at, y.at + (y.to - y.from))
<1>1. /\ x.seg \in Seg /\ x.at \in Nat /\ x.from \in Nat /\ x.to \in Nat
      /\ x.from = x.at + place.segadj[x.seg] /\ place.segbase[x.seg] <= x.at
      /\ x.at + (x.to - x.from) <= place.segbase[x.seg] + segsz[x.seg]
  BY PieceOf
<1>2. /\ y.seg \in Seg /\ y.at \in Nat /\ y.from \in Nat /\ y.to \in Nat
      /\ y.from = y.at + place.segadj[y.seg] /\ place.segbase[y.seg] <= y.at
      /\ y.at + (y.to - y.from) <= place.segbase[y.seg] + segsz[y.seg]
  BY PieceOf
<1>3. /\ place.segadj[x.seg] \in Int /\ place.segbase[x.seg] \in Nat /\ segsz[x.seg] \in Nat
      /\ place.segadj[y.seg] \in Int /\ place.segbase[y.seg] \in Nat /\ segsz[y.seg] \in Nat
  BY <1>1, <1>2, DonePlaces
<1>4. CASE x.seg = y.seg
  <2>1. Apart(x.from, x.to, y.from, y.to)
    <3>1. Pieces(place, w)
      BY DonePlaces DEF LaidOut, WRight
    <3> QED
      BY <1>4, <3>1 DEF Pieces
  <2> QED
    BY <1>1, <1>2, <1>3, <1>4, <2>1 DEF Apart
<1>5. CASE x.seg # y.seg
  <2>1. /\ x.seg \in {0, 1, 2, 3} /\ y.seg \in {0, 1, 2, 3}
        /\ x.seg = 0 \/ y.seg = 0 => ~opt.sepid
    BY <1>1, <1>2, <1>5, DonePlaces DEF Space
  <2>2. /\ opt.tb \in Nat /\ segsz[0] \in Nat /\ segsz[1] \in Nat /\ segsz[2] \in Nat
        /\ segsz[3] \in Nat
        /\ place.segbase[0] = opt.tb /\ place.segbase[1] = place.bdata /\ place.bdata \in Nat
        /\ ~opt.sepid => opt.tb + segsz[0] <= place.bdata
        /\ place.segbase[2] = place.segbase[1] + segsz[1]
        /\ place.segbase[3] = place.segbase[2] + segsz[2]
    BY DonePlaces, SegSmall
  <2>3. ASSUME NEW r \in {0, 1, 2, 3}, NEW s \in {0, 1, 2, 3}, r < s, r = 0 => ~opt.sepid
        PROVE  place.segbase[r] + segsz[r] <= place.segbase[s]
    <3>1. CASE r = 0
      BY <2>2, <2>3, <3>1
    <3>2. CASE r = 1
      BY <2>2, <2>3, <3>2
    <3>3. CASE r = 2
      BY <2>2, <2>3, <3>3
    <3> QED
      BY <2>3, <3>1, <3>2, <3>3
  <2>4. CASE x.seg < y.seg
    <3>1. place.segbase[x.seg] + segsz[x.seg] <= place.segbase[y.seg]
      BY <2>1, <2>3, <2>4
    <3> QED
      BY <1>1, <1>2, <1>3, <3>1 DEF Apart
  <2>5. CASE y.seg < x.seg
    <3>1. place.segbase[y.seg] + segsz[y.seg] <= place.segbase[x.seg]
      BY <2>1, <2>3, <2>5
    <3> QED
      BY <1>1, <1>2, <1>3, <3>1 DEF Apart
  <2> QED
    BY <1>5, <2>1, <2>4, <2>5
<1> QED
  BY <1>4, <1>5

(* The common areas, which are in segment 3, are behind what is written,   *)
(* apart from each other and below the end of data.                        *)
LEMMA AreasOnce ==
    ASSUME IInv, pc = "done", NEW i \in Mods, NEW s \in Seg, common[i][s] # 0
    PROVE  /\ s = 3 /\ area[i][s] \in Nat /\ common[i][s] \in Nat
           /\ place.segbase[3] + segsz[3] <= area[i][s]
           /\ area[i][s] + common[i][s] <= place.end
           /\ \A j \in Mods : i # j =>
                 Apart(area[i][3], area[i][3] + common[i][3], area[j][3], area[j][3] + common[j][3])
<1>1. s = 3 /\ \A j \in Mods : common[j][3] \in Nat
  BY DonePlaces, SegSmall DEF Used
<1>2. \A j \in Mods : area[j][3] \in Nat
  BY SegSmall DEF IInv, Typed
<1>3. AreasIn(area, place.combase, Area, NMods)
  BY DonePlaces DEF LaidOut
<1>4. /\ place.combase[3] = place.segbase[3] + segsz[3]
      /\ Area[3] = place.end
  BY DonePlaces, SegSmall DEF Placed, InMemory, Ends, Area
<1>5. /\ place.combase[3] <= area[i][3] /\ area[i][3] + common[i][3] <= Area[3]
  BY <1>3, SegSmall DEF AreasIn, Mods
<1>6. ASSUME NEW j \in Mods, i # j
      PROVE  Apart(area[i][3], area[i][3] + common[i][3], area[j][3], area[j][3] + common[j][3])
  <2>1. i < j \/ j < i
    BY <1>6, LayoutAssumption DEF Mods
  <2>2. i < j => area[i][3] + common[i][3] <= area[j][3]
    BY <1>3, SegSmall DEF AreasIn, Mods
  <2>3. j < i => area[j][3] + common[j][3] <= area[i][3]
    BY <1>3, SegSmall DEF AreasIn, Mods
  <2> QED
    BY <2>1, <2>2, <2>3 DEF Apart
<1> QED
  BY <1>1, <1>2, <1>4, <1>5, <1>6

(* And nothing in memory.                                                  *)
LEMMA ImpliesMemoryOnce == IInv /\ pc = "done" => MemoryOnce
<1> SUFFICES ASSUME IInv, pc = "done" PROVE MemoryOnce
  OBVIOUS
<1> DEFINE ofPiece(x) == [space |-> Space(x.seg), from |-> x.at, to |-> x.at + (x.to - x.from),
                          is |-> x]
           ofArea(p) == [space |-> Space(p[2]), from |-> area[p[1]][p[2]],
                         to |-> area[p[1]][p[2]] + common[p[1]][p[2]], is |-> p]
           common3 == {q \in Mods \X Seg : common[q[1]][q[2]] # 0}
<1>1. Objects = {ofPiece(x) : x \in w.out} \cup {ofArea(p) : p \in common3}
  BY DEF Objects
<1>2. ASSUME NEW x \in w.out
      PROVE  /\ ofPiece(x).space = Space(x.seg) /\ ofPiece(x).from = x.at
             /\ ofPiece(x).to = x.at + (x.to - x.from)
  OBVIOUS
<1>3. ASSUME NEW p \in common3
      PROVE  /\ p[1] \in Mods /\ p[2] = 3 /\ ofArea(p).space = 1
             /\ ofArea(p).from = area[p[1]][3]
             /\ ofArea(p).to = area[p[1]][3] + common[p[1]][3]
             /\ area[p[1]][3] \in Nat /\ common[p[1]][3] \in Nat
             /\ place.segbase[3] + segsz[3] <= area[p[1]][3]
             /\ area[p[1]][3] + common[p[1]][3] <= place.end
             /\ p = <<p[1], 3>>
             /\ \A j \in Mods : p[1] # j =>
                   Apart(area[p[1]][3], area[p[1]][3] + common[p[1]][3],
                         area[j][3], area[j][3] + common[j][3])
  <2>1. p[1] \in Mods /\ p[2] \in Seg /\ common[p[1]][p[2]] # 0 /\ p = <<p[1], p[2]>>
    OBVIOUS
  <2>2. p[2] = 3
    BY <2>1, AreasOnce
  <2> HIDE DEF common3
  <2> QED
    BY <2>1, <2>2, AreasOnce DEF Space
<1> HIDE DEF ofPiece, ofArea, common3
(* What is written in the space of data, and where it ends.                *)
<1>4. ASSUME NEW x \in w.out, Space(x.seg) = 1
      PROVE  /\ x.at \in Nat /\ x.at + (x.to - x.from) \in Nat
             /\ x.at + (x.to - x.from) <= place.segbase[3] + segsz[3]
             /\ x.seg \in 1 .. 3 => x.at + (x.to - x.from) <= place.edata
  <2>1. /\ x.seg \in Seg /\ x.at \in Nat /\ x.from \in Nat /\ x.to \in Nat /\ x.from < x.to
        /\ x.at + (x.to - x.from) <= place.segbase[x.seg] + segsz[x.seg] /\ segsz[x.seg] # 0
    BY PieceOf
  <2>2. x.seg \in {0, 1, 2, 3} /\ (x.seg = 0 => ~opt.sepid)
    BY <1>4, <2>1, DonePlaces DEF Space
  <2>3. /\ place.segbase[x.seg] \in Nat /\ segsz[x.seg] \in Nat
        /\ place.segbase[3] \in Nat /\ segsz[3] \in Nat
    BY <2>1, DonePlaces, SegSmall
  <2>4. place.segbase[x.seg] + segsz[x.seg] <= place.segbase[3] + segsz[3]
    <3>1. CASE x.seg = 0
      <4>1. place.segbase[0] + segsz[0] <= place.bdata
        BY <2>2, <3>1, DonePlaces
      <4>2. place.bdata <= place.segbase[3]
        BY DataEnds
      <4> QED
        BY <2>3, <3>1, <4>1, <4>2, DonePlaces
    <3>2. CASE x.seg \in 1 .. 3
      BY <3>2, DataEnds
    <3> QED
      BY <2>2, <3>1, <3>2
  <2>5. x.seg \in 1 .. 3 => x.at + (x.to - x.from) <= place.edata
    <3> SUFFICES ASSUME x.seg \in 1 .. 3 PROVE x.at + (x.to - x.from) <= place.edata
      OBVIOUS
    <3>1. place.segbase[x.seg] + segsz[x.seg] <= place.edata /\ place.edata \in Nat
      BY <2>1, DataEnds
    <3> QED
      BY <2>1, <2>3, <3>1
  <2> QED
    BY <2>1, <2>3, <2>4, <2>5
<1>5. ASSUME NEW x \in w.out, NEW p \in common3, Space(x.seg) = 1
      PROVE  x.at + (x.to - x.from) <= area[p[1]][3]
  <2>1. place.segbase[3] \in Nat /\ segsz[3] \in Nat
    BY DonePlaces, SegSmall
  <2> QED
    BY <1>3, <1>4, <1>5, <2>1
<1>6. ASSUME NEW a \in Objects, NEW b \in Objects, a # b, a.space = b.space
      PROVE  Apart(a.from, a.to, b.from, b.to)
  <2>1. CASE (\E x \in w.out : a = ofPiece(x)) /\ (\E y \in w.out : b = ofPiece(y))
    <3>1. PICK x \in w.out : a = ofPiece(x)
      BY <2>1
    <3>2. PICK y \in w.out : b = ofPiece(y)
      BY <2>1
    <3>3. x # y /\ Space(x.seg) = Space(y.seg)
      BY <1>2, <1>6, <3>1, <3>2
    <3> QED
      BY <1>2, <3>1, <3>2, <3>3, PiecesOnce
  <2>2. CASE (\E x \in w.out : a = ofPiece(x)) /\ (\E p \in common3 : b = ofArea(p))
    <3>1. PICK x \in w.out : a = ofPiece(x)
      BY <2>2
    <3>2. PICK p \in common3 : b = ofArea(p)
      BY <2>2
    <3>3. Space(x.seg) = 1
      BY <1>2, <1>3, <1>6, <3>1, <3>2
    <3>4. a.to <= b.from
      BY <1>2, <1>3, <1>5, <3>1, <3>2, <3>3
    <3> QED
      BY <3>4 DEF Apart
  <2>3. CASE (\E p \in common3 : a = ofArea(p)) /\ (\E x \in w.out : b = ofPiece(x))
    <3>1. PICK x \in w.out : b = ofPiece(x)
      BY <2>3
    <3>2. PICK p \in common3 : a = ofArea(p)
      BY <2>3
    <3>3. Space(x.seg) = 1
      BY <1>2, <1>3, <1>6, <3>1, <3>2
    <3>4. b.to <= a.from
      BY <1>2, <1>3, <1>5, <3>1, <3>2, <3>3
    <3> QED
      BY <3>4 DEF Apart
  <2>4. CASE (\E p \in common3 : a = ofArea(p)) /\ (\E q \in common3 : b = ofArea(q))
    <3>1. PICK p \in common3 : a = ofArea(p)
      BY <2>4
    <3>2. PICK q \in common3 : b = ofArea(q)
      BY <2>4
    <3>3. p[1] # q[1]
      BY <1>3, <1>6, <3>1, <3>2
    <3> QED
      BY <1>3, <3>1, <3>2, <3>3
  <2> QED
    BY <1>1, <2>1, <2>2, <2>3, <2>4
<1>7. ASSUME NEW a \in Objects, a.space = 1 PROVE a.to <= place.end
  <2>1. place.segbase[3] \in Nat /\ segsz[3] \in Nat /\ comsz[3] \in Nat
    BY DonePlaces, SegSmall
  <2>2. place.end = place.segbase[3] + segsz[3] + comsz[3]
    BY DataEnds
  <2>3. CASE \E x \in w.out : a = ofPiece(x)
    <3>1. PICK x \in w.out : a = ofPiece(x)
      BY <2>3
    <3>2. Space(x.seg) = 1 /\ a.to = x.at + (x.to - x.from)
      BY <1>2, <1>7, <3>1
    <3> QED
      BY <1>4, <2>1, <2>2, <3>2
  <2>4. CASE \E p \in common3 : a = ofArea(p)
    BY <1>3, <2>4
  <2> QED
    BY <1>1, <2>3, <2>4
<1>8. EndOfData
  <2>1. /\ place.edata \in Nat /\ place.bdata <= place.edata
        /\ place.edata <= place.segbase[3] + segsz[3]
        /\ place.end = place.segbase[3] + segsz[3] + comsz[3]
    BY DataEnds
  <2>2. place.segbase[3] \in Nat /\ segsz[3] \in Nat /\ comsz[3] \in Nat
    BY DonePlaces, SegSmall
  <2>3. \A x \in w.out : x.seg \in 1 .. 3 => x.at + (x.to - x.from) <= place.edata
    BY <1>4 DEF Space
  <2> QED
    BY <2>1, <2>2, <2>3 DEF EndOfData
<1>9. place.end <= place.heap
  BY DataEnds
<1> QED
  BY <1>6, <1>7, <1>8, <1>9 DEF MemoryOnce

(* Every byte of the program has a place of its own, in the file and in    *)
(* memory, common areas included, and text and data end where the header   *)
(* says, for any options and modules whose text and data fit in 64 K; with *)
(* a base for the text, far text may run into the data by as much.         *)
THEOREM EveryByteOnce == Spec => []WrittenOnce
<1>1. IInv => WrittenOnce
  BY ImpliesFileOnce, ImpliesMemoryOnce DEF WrittenOnce
<1> QED
  BY <1>1, Invariant, PTL

(* The paragraphs __segoff and __segXSO, counted from where the program is *)
(* loaded, lead to what was written of each segment, with separate and     *)
(* with joined data; and to a far segment of a program with joined data,   *)
(* less what its text has over whole paragraphs.                           *)
THEOREM SegmentsReachable == Spec => []Reachable
<1>1. ASSUME IInv, pc = "done", NEW x \in w.out
      PROVE  Behind(x) = IF opt.sepid \/ x.seg < 4 THEN 0 ELSE place.etext % 16
  <2> DEFINE d == place.segadj[x.seg] + opt.tb
  <2>1. /\ x.seg \in Seg /\ x.at \in Nat /\ x.from \in Nat
        /\ x.from = x.at + place.segadj[x.seg]
    BY <1>1, PieceOf
  <2>2. /\ place.segadj[x.seg] \in Int /\ place.segadj[0] = -opt.tb /\ opt.tb \in Nat
    BY <1>1, <2>1, DonePlaces
  <2>3. d % 16 = Over(place, x.seg)
    BY <1>1, <2>1, DonePlaces DEF Placed, InFile
  <2>4. place.segadj[x.seg] - place.segadj[0] = d /\ d \in Int
    BY <2>2
  <2>5. opt.tb + x.from = d + x.at
    BY <2>1, <2>2
  <2> HIDE DEF d
  <2> DEFINE over == d % 16
  <2>6. over = IF opt.sepid \/ x.seg < 4 THEN 0 ELSE place.etext % 16
    BY <2>3 DEF Over
  <2>7. over \in 0 .. 15 /\ 16 * (d \div 16) = d - over
    BY <2>4, Sixteenths
  <2> HIDE DEF over
  <2> DEFINE k == SegmentOffset(x.seg)
  <2>8. k \in Int /\ 16 * k = d - over
    BY <2>4, <2>7 DEF SegmentOffset
  <2>9. Behind(x) = opt.tb + x.from - (16 * k + x.at)
    BY DEF Behind
  <2> HIDE DEF k
  <2>10. Behind(x) = over
    BY <2>1, <2>2, <2>4, <2>5, <2>7, <2>8, <2>9
  <2> QED
    BY <2>6, <2>10
<1>2. IInv => Reachable
  BY <1>1 DEF Reachable
<1> QED
  BY <1>2, Invariant, PTL
=============================================================================
