----------------------------- MODULE StdioProofs ----------------------------
(***************************************************************************)
(* Proofs about Stdio: for every buffer size, file, open mode and failure  *)
(* of the system, the pointers of a FILE stay in the buffer and agree with *)
(* its flags, so that the macros getc and putc are safe; no line waits in  *)
(* a buffer that should have been written out at its end; and a stream     *)
(* with a buffer does what Stream, which has none, may do, or flags that   *)
(* something was lost.                                                     *)
(***************************************************************************)
EXTENDS Stdio, SequenceTheorems, TLAPS

USE DEF EOF, Ret

(* What every operation keeps.  TypeOK and MacrosSafe are not enough: that  *)
(* putc lets the pointer of output pass what was read rests on an idle     *)
(* buffer holding no more than the one character ungetc can put there, and *)
(* that ungetc leaves fflush a place to seek back to rests on a stream     *)
(* that is reading having read something.                                  *)
Kept(f) ==
    /\ "READING" \in f.mode => f.at > 0
    /\ "READING" \notin f.mode /\ "WRITING" \notin f.mode => f.bufread <= 1

Good(f) == Typed(f) /\ Safe(f) /\ Kept(f)
InFile(f) == f.at <= Len(f.data)

(* Cells of the buffer that have been written make a string.               *)
LEMMA CellsString ==
  ASSUME NEW buf, NEW i \in Int, NEW n \in Nat,
         \A j \in i .. i + n - 1 : buf[j] \in Byte
  PROVE  Cells(buf, i, n) \in Seq(Byte) /\ Len(Cells(buf, i, n)) = n
<1>1. Cells(buf, i, n) \in [1 .. n -> Byte]
  BY DEF Cells
<1>2. Cells(buf, i, n) \in Seq(Byte)
  BY <1>1, SeqDef
<1> QED BY <1>1, <1>2, LenProperties

(* Writing at a place in the file gives a file that reaches at least as    *)
(* far as what was written.                                                *)
LEMMA WriteAtString ==
  ASSUME NEW file \in Seq(Byte), NEW at \in Nat, at <= Len(file), NEW s \in Seq(Byte)
  PROVE  WriteAt(file, at, s) \in Seq(Byte) /\ at + Len(s) <= Len(WriteAt(file, at, s))
<1> DEFINE a == SubSeq(file, 1, at)
           b == SubSeq(file, at + Len(s) + 1, Len(file))
<1>1. Len(s) \in Nat /\ Len(file) \in Nat
  BY LenProperties
<1>2. a \in Seq(Byte) /\ Len(a) = at
  <2>1. \A i \in 1 .. at : file[i] \in Byte
    BY <1>1, ElementOfSeq
  <2> QED BY <2>1, SubSeqProperties
<1>3. b \in Seq(Byte)
  <2>1. \A i \in at + Len(s) + 1 .. Len(file) : file[i] \in Byte
    BY <1>1, ElementOfSeq
  <2> QED BY <2>1, <1>1, SubSeqProperties
<1> HIDE DEF a, b
<1>4. a \o s \in Seq(Byte) /\ Len(a \o s) = at + Len(s)
  BY <1>2, ConcatProperties
<1>5. (a \o s) \o b \in Seq(Byte) /\ Len((a \o s) \o b) = at + Len(s) + Len(b)
  <2> DEFINE c == a \o s
  <2> HIDE DEF c
  <2>1. c \in Seq(Byte) /\ Len(c) = at + Len(s)
    BY <1>4 DEF c
  <2>2. c \o b \in Seq(Byte) /\ Len(c \o b) = Len(c) + Len(b)
    BY <2>1, <1>3, ConcatProperties
  <2> QED BY <2>1, <2>2 DEF c
<1>6. Len(b) \in Nat
  BY <1>3, LenProperties
<1>7. WriteAt(file, at, s) = (a \o s) \o b
  BY DEF WriteAt, a, b
<1>8. at + Len(s) <= at + Len(s) + Len(b)
  BY <1>1, <1>6
<1> QED BY <1>5, <1>7, <1>8

(* write() changes the file, the position, the room and the error flag.    *)
LEMMA WriteOutFacts ==
  ASSUME NEW buf, NEW f \in FILE(buf), InFile(f), NEW s \in Seq(Byte)
  PROVE  LET g == WriteOut(f, s) IN
         /\ g \in FILE(buf) /\ InFile(g) /\ g.at >= f.at
         /\ g.bufpos = f.bufpos /\ g.bufread = f.bufread /\ g.bufwrite = f.bufwrite
         /\ g.bufend = f.bufend /\ g.mode \in {f.mode, f.mode \cup {"ERR"}}
<1> DEFINE n == Smaller(Len(s), f.room)
           p == SubSeq(s, 1, n)
           g == WriteOut(f, s)
<1>0. Len(s) \in Nat /\ f.room \in Nat
  BY LenProperties DEF FILE
<1>1. n \in Nat /\ n <= Len(s) /\ n <= f.room
  BY <1>0 DEF Smaller
<1>2. p \in Seq(Byte) /\ Len(p) = n
  <2>1. \A i \in 1 .. n : s[i] \in Byte
    BY <1>1, ElementOfSeq, LenProperties
  <2> QED BY <2>1, <1>1, SubSeqProperties
<1>3. f.at \in Nat /\ f.data \in Seq(Byte) /\ f.at <= Len(f.data)
  BY DEF FILE, InFile
<1> HIDE DEF n, p
<1>4. /\ WriteAt(f.data, f.at, p) \in Seq(Byte)
      /\ f.at + n <= Len(WriteAt(f.data, f.at, p))
  BY <1>2, <1>3, WriteAtString
<1>5. g = [f EXCEPT !.data = WriteAt(f.data, f.at, p), !.at = f.at + n, !.room = f.room - n,
                    !.mode = IF n < Len(s) THEN f.mode \cup {"ERR"} ELSE f.mode]
  BY DEF WriteOut, n, p, FILE
<1>6. f.at + n \in Nat /\ f.room - n \in Nat
  BY <1>0, <1>1, <1>3
<1>7. f.mode \cup {"ERR"} \in SUBSET Modes
  BY DEF FILE, Modes
<1> HIDE DEF g
<1>8. g \in FILE(buf)
  BY <1>4, <1>5, <1>6, <1>7 DEF FILE
<1>9. /\ g.data = WriteAt(f.data, f.at, p) /\ g.at = f.at + n
      /\ g.bufpos = f.bufpos /\ g.bufread = f.bufread /\ g.bufwrite = f.bufwrite
      /\ g.bufend = f.bufend /\ g.mode \in {f.mode, f.mode \cup {"ERR"}}
  BY <1>5 DEF FILE
<1> QED BY <1>1, <1>3, <1>4, <1>8, <1>9 DEF InFile, g

(* An emptied buffer is well formed whatever was in it.                    *)
IsEmptied(f) ==
    /\ f.bufpos = 0 /\ f.bufread = 0 /\ f.bufwrite = 0
    /\ {"READING", "WRITING", "EOF", "UNGOT"} \cap f.mode = {}

Buffering(m) == m \cap {"IOLBF", "IONBF"}

LEMMA EmptiedFacts ==
  ASSUME NEW buf, NEW g \in FILE(buf), InFile(g)
  PROVE  /\ Good(Emptied(g)) /\ InFile(Emptied(g)) /\ IsEmptied(Emptied(g))
         /\ Emptied(g).bufend = g.bufend
         /\ Buffering(Emptied(g).mode) = Buffering(g.mode)
<1> DEFINE e == Emptied(g)
<1>1. /\ e.bufpos = 0 /\ e.bufread = 0 /\ e.bufwrite = 0 /\ e.pushed = 0
      /\ e.bufend = g.bufend /\ e.data = g.data /\ e.at = g.at
      /\ e.mode = g.mode \ {"READING", "WRITING", "EOF", "UNGOT"}
      /\ e.buf = buf
  BY DEF Emptied, FILE
<1>2. e \in FILE(buf)
  BY DEF Emptied, FILE
<1> HIDE DEF e
<1>3. Typed(e)
  BY <1>1, <1>2 DEF Typed, Larger
<1>4. Safe(e) /\ Kept(e)
  BY <1>1, <1>2 DEF Safe, Kept, FILE
<1>5. InFile(e) /\ IsEmptied(e)
  BY <1>1 DEF InFile, IsEmptied
<1>6. Buffering(e.mode) = Buffering(g.mode)
  BY <1>1 DEF Buffering
<1> QED BY <1>1, <1>3, <1>4, <1>5, <1>6 DEF Good, e

(* After fflush the buffer is empty and the flags of use are cleared.      *)
LEMMA FlushFacts ==
  ASSUME NEW f, Good(f), InFile(f)
  PROVE  LET r == fflush(f) IN
         /\ Good(r.f) /\ InFile(r.f) /\ IsEmptied(r.f) /\ r.rv \in {0, EOF}
         /\ r.f.bufend = f.bufend
         /\ Buffering(r.f.mode) = Buffering(f.mode)
<1> DEFINE s == Cells(f.buf, 0, f.bufpos)
           g == IF "WRITING" \in f.mode THEN WriteOut(f, s)
                ELSE IF "READING" \in f.mode THEN SeekBack(f) ELSE f
           r == fflush(f)
<1>1. r.f = Emptied(g) /\ r.rv \in {0, EOF}
  <2>1. CASE "WRITING" \in f.mode
    BY <2>1 DEF fflush
  <2>2. CASE "WRITING" \notin f.mode /\ "READING" \in f.mode
    BY <2>2 DEF fflush
  <2>3. CASE "WRITING" \notin f.mode /\ "READING" \notin f.mode
    BY <2>3 DEF fflush
  <2> QED BY <2>1, <2>2, <2>3
<1> SUFFICES /\ g \in FILE(f.buf) /\ InFile(g) /\ g.bufend = f.bufend
             /\ Buffering(g.mode) = Buffering(f.mode)
  <2> HIDE DEF g, r
  <2> QED BY <1>1, EmptiedFacts DEF r
<1>0. f \in FILE(f.buf) /\ f.bufpos \in Nat
  BY DEF Good, Typed, FILE
<1>2. CASE "WRITING" \in f.mode
  <2>1. \A j \in 0 .. 0 + f.bufpos - 1 : f.buf[j] \in Byte
    BY <1>0 DEF Good, Typed, FILE, Larger
  <2>2. s \in Seq(Byte)
    <3> HIDE DEF Good
    <3> QED BY <2>1, <1>0, CellsString
  <2> HIDE DEF s
  <2> DEFINE w == WriteOut(f, s)
  <2>3. /\ w \in FILE(f.buf) /\ InFile(w) /\ w.bufend = f.bufend
        /\ w.mode \in {f.mode, f.mode \cup {"ERR"}}
    BY <2>2, <1>0, WriteOutFacts
  <2>4. g = w
    BY <1>2
  <2> HIDE DEF w, g
  <2> QED BY <2>3, <2>4 DEF Buffering
<1>3. CASE "WRITING" \notin f.mode /\ "READING" \in f.mode
  <2>1. g = [f EXCEPT !.at = f.at - (f.bufread - f.bufpos)]
    BY <1>3 DEF SeekBack
  <2> HIDE DEF g
  <2>2. f.at - (f.bufread - f.bufpos) \in Nat /\ f.at - (f.bufread - f.bufpos) <= f.at
    BY <1>3 DEF Good, Typed, Safe, FILE
  <2>3. Len(f.data) \in Nat /\ f.at \in Nat
    BY <1>0, LenProperties DEF FILE
  <2>4. /\ g.at = f.at - (f.bufread - f.bufpos) /\ g.data = f.data
        /\ g.bufend = f.bufend /\ g.mode = f.mode
    BY <1>0, <2>1 DEF FILE
  <2>5. g \in FILE(f.buf)
    BY <1>0, <2>1, <2>2 DEF FILE
  <2>6. InFile(g)
    BY <2>2, <2>3, <2>4 DEF InFile
  <2> QED BY <2>4, <2>5, <2>6
<1>4. CASE "WRITING" \notin f.mode /\ "READING" \notin f.mode
  BY <1>0, <1>4
<1> QED BY <1>2, <1>3, <1>4

LEMMA Fields ==
  ASSUME NEW f, Good(f)
  PROVE  /\ f \in FILE(f.buf) /\ f.bufpos \in Nat /\ f.bufread \in Nat /\ f.bufwrite \in Nat
         /\ f.bufend \in Nat \ {0} /\ f.at \in Nat /\ f.data \in Seq(Byte)
         /\ f.mode \subseteq Modes /\ f.room \in Nat /\ f.take \in Int /\ f.pushed \in Nat
BY DEF Good, Typed, FILE

LEMMA StopReadingFacts ==
  ASSUME NEW f, Good(f), InFile(f)
  PROVE  LET r == StopReading(f) IN
         /\ Good(r.f) /\ InFile(r.f) /\ r.rv \in {0, EOF}
         /\ "READING" \notin r.f.mode
<1>1. CASE "READING" \in f.mode
  BY <1>1, FlushFacts DEF StopReading, IsEmptied
<1>2. CASE "READING" \notin f.mode
  BY <1>2 DEF StopReading
<1> QED BY <1>1, <1>2

LEMMA StopWritingFacts ==
  ASSUME NEW f, Good(f), InFile(f)
  PROVE  LET g == StopWriting(f) IN Good(g) /\ InFile(g) /\ "WRITING" \notin g.mode
<1>1. CASE "WRITING" \in f.mode
  BY <1>1, FlushFacts DEF StopWriting, IsEmptied
<1>2. CASE "WRITING" \notin f.mode
  BY <1>2 DEF StopWriting
<1> QED BY <1>1, <1>2

-----------------------------------------------------------------------------
(* Storing characters in the buffer writes their cells and no others.      *)
LEMMA PutFacts ==
  ASSUME NEW buf, NEW i \in Nat, NEW s \in Seq(Byte), NEW j \in Nat,
         j \in i .. i + Len(s) - 1 \/ (j \in DOMAIN buf /\ buf[j] \in Byte)
  PROVE  j \in DOMAIN Put(buf, i, s) /\ Put(buf, i, s)[j] \in Byte
<1>0. Len(s) \in Nat
  BY LenProperties
<1>1. CASE j \in i .. i + Len(s) - 1
  <2>1. j - i + 1 \in 1 .. Len(s)
    BY <1>0, <1>1
  <2>2. s[j - i + 1] \in Byte
    BY <2>1, ElementOfSeq
  <2> QED BY <1>1, <2>2 DEF Put
<1>2. CASE j \notin i .. i + Len(s) - 1
  BY <1>2 DEF Put
<1> QED BY <1>1, <1>2

(* A stream that is not reading may store what fits in its buffer.         *)
LEMMA StoredFacts ==
  ASSUME NEW f, Good(f), InFile(f), "READING" \notin f.mode,
         NEW s \in Seq(Byte), s # <<>>, f.bufpos + Len(s) <= f.bufend
  PROVE  LET g == Stored(f, s) IN
         /\ Good(g) /\ InFile(g) /\ "WRITING" \in g.mode /\ "READING" \notin g.mode
         /\ Buffering(g.mode) = Buffering(f.mode) /\ g.bufend = f.bufend
<1> DEFINE g == Stored(f, s)
           b == Put(f.buf, f.bufpos, s)
<1>0. f \in FILE(f.buf) /\ f.bufpos \in Nat /\ f.bufread \in Nat
  BY DEF Good, Typed, FILE
<1>1. Len(s) \in Nat /\ Len(s) > 0
  BY LenProperties, EmptySeq
<1>2. g = [f EXCEPT !.buf = b, !.bufpos = f.bufpos + Len(s), !.mode = f.mode \cup {"WRITING"},
                    !.pushed = 0]
  BY DEF Stored
<1>3. f.bufread <= f.bufpos + Len(s)
  BY <1>0, <1>1 DEF Good, Safe, Kept
<1>4. \A j \in 0 .. f.bufpos + Len(s) - 1 : j \in DOMAIN b /\ b[j] \in Byte
  <2> TAKE j \in 0 .. f.bufpos + Len(s) - 1
  <2>1. j \in Nat
    BY <1>0, <1>1
  <2>2. j \in f.bufpos .. f.bufpos + Len(s) - 1 \/ (j \in DOMAIN f.buf /\ f.buf[j] \in Byte)
    BY <1>0, <1>1, <2>1 DEF Good, Typed, Larger
  <2> QED BY <1>0, <2>1, <2>2, PutFacts
<1> HIDE DEF b, g
<1>5. /\ g.bufpos = f.bufpos + Len(s) /\ g.bufread = f.bufread /\ g.bufwrite = f.bufwrite
      /\ g.bufend = f.bufend /\ g.mode = f.mode \cup {"WRITING"} /\ g.buf = b
      /\ g.data = f.data /\ g.at = f.at
  BY <1>0, <1>2 DEF FILE
<1>6. f.mode \cup {"WRITING"} \in SUBSET Modes /\ f.bufpos + Len(s) \in Nat
  BY <1>0, <1>1 DEF FILE, Modes
<1>7. g \in FILE(b)
  BY <1>0, <1>2, <1>6 DEF FILE
<1>8. Typed(g)
  BY <1>0, <1>1, <1>3, <1>4, <1>5, <1>7 DEF Typed, Larger
<1>9. Safe(g)
  BY <1>0, <1>3, <1>5 DEF Safe, Good
<1>10. Kept(g) /\ InFile(g)
  BY <1>5 DEF Kept, InFile
<1>11. Buffering(g.mode) = Buffering(f.mode)
  BY <1>5 DEF Buffering
<1> QED BY <1>5, <1>8, <1>9, <1>10, <1>11 DEF Good, g

LEMMA OneChar ==
  ASSUME NEW c \in Byte
  PROVE  <<c>> \in Seq(Byte) /\ <<c>> # <<>> /\ Len(<<c>>) = 1
OBVIOUS

(* The macro may store by itself only in a buffer of output that needs no  *)
(* flush.                                                                  *)
LEMMA MacroMayFacts ==
  ASSUME NEW f, Good(f), "WRITING" \in f.mode \/ Buffering(f.mode) # {}
  PROVE  Good(MacroMay(f))
<1> DEFINE g == MacroMay(f)
<1>0. f \in FILE(f.buf) /\ f.bufend \in Nat \ {0}
  BY DEF Good, Typed, FILE
<1>1. g = [f EXCEPT !.bufwrite = IF f.mode \cap {"IOLBF", "IONBF"} # {} THEN 0 ELSE f.bufend]
  BY DEF MacroMay
<1> HIDE DEF g
<1>2. /\ g.bufpos = f.bufpos /\ g.bufread = f.bufread /\ g.bufend = f.bufend /\ g.mode = f.mode
      /\ g.bufwrite = (IF f.mode \cap {"IOLBF", "IONBF"} # {} THEN 0 ELSE f.bufend)
      /\ g.buf = f.buf /\ g.at = f.at
  BY <1>0, <1>1 DEF FILE
<1>3. g \in FILE(f.buf)
  BY <1>0, <1>1 DEF FILE
<1>4. Typed(g) /\ Kept(g)
  BY <1>2, <1>3 DEF Good, Typed, Kept
<1>5. Safe(g)
  BY <1>2 DEF Good, Safe, Buffering
<1> QED BY <1>4, <1>5 DEF Good, g

LEMMA StoreFacts ==
  ASSUME NEW f, Good(f), InFile(f), "READING" \notin f.mode, f.bufpos < f.bufend,
         NEW c \in Byte
  PROVE  Good(Store(f, c).f)
<1> DEFINE stored == Stored(f, <<c>>)
           flushed == IF Visible(f, <<c>>) THEN fflush(stored) ELSE Ret(stored, 0)
<1>0. f.bufpos + Len(<<c>>) <= f.bufend
  BY OneChar DEF Good, Typed, FILE
<1>1. /\ Good(stored) /\ InFile(stored) /\ "WRITING" \in stored.mode
      /\ Buffering(stored.mode) = Buffering(f.mode)
  BY <1>0, OneChar, StoredFacts
<1> HIDE DEF stored
<1>2. /\ Good(flushed.f)
      /\ "WRITING" \in flushed.f.mode \/ Buffering(flushed.f.mode) # {}
  <2>1. CASE Visible(f, <<c>>)
    BY <2>1, <1>1, FlushFacts DEF Visible, Buffering
  <2>2. CASE ~Visible(f, <<c>>)
    BY <2>2, <1>1
  <2> QED BY <2>1, <2>2
<1> HIDE DEF flushed
<1>3. Store(f, c).f \in {flushed.f, MacroMay(flushed.f)}
  BY DEF Store, flushed, stored
<1> QED BY <1>2, <1>3, MacroMayFacts

(* Storing the character of fputc, by itself or by the macro.              *)
LEMMA FputcFacts ==
  ASSUME NEW f, Good(f), InFile(f), NEW c \in Byte
  PROVE  Good(fputc(f, c).f)
<1> DEFINE start == StopReading(f)
           roomy == IF start.f.bufpos >= start.f.bufend THEN fflush(start.f) ELSE start
<1>1. /\ Good(start.f) /\ InFile(start.f) /\ start.rv \in {0, EOF}
      /\ "READING" \notin start.f.mode
  BY StopReadingFacts
<1> HIDE DEF start
<1>2. /\ Good(roomy.f) /\ InFile(roomy.f) /\ "READING" \notin roomy.f.mode
      /\ roomy.f.bufpos < roomy.f.bufend
  <2>1. CASE start.f.bufpos >= start.f.bufend
    <3>1. /\ Good(roomy.f) /\ InFile(roomy.f) /\ IsEmptied(roomy.f)
      BY <2>1, <1>1, FlushFacts
    <3> HIDE DEF roomy
    <3>2. "READING" \notin roomy.f.mode /\ roomy.f.bufpos = 0
      BY <3>1 DEF IsEmptied
    <3>3. roomy.f.bufend \in Nat \ {0}
      BY <3>1, Fields
    <3> QED BY <3>1, <3>2, <3>3
  <2>2. CASE ~(start.f.bufpos >= start.f.bufend)
    BY <2>2, <1>1, Fields
  <2> QED BY <2>1, <2>2
<1> HIDE DEF roomy
<1>3. fputc(f, c).f \in {start.f, roomy.f, Store(roomy.f, c).f}
  BY DEF fputc, start, roomy
<1> QED BY <1>1, <1>2, <1>3, StoreFacts

LEMMA PutcFacts ==
  ASSUME NEW f, Good(f), InFile(f), NEW c \in Byte
  PROVE  Good(putc(f, c).f)
<1>0. /\ f \in FILE(f.buf) /\ f.bufpos \in Nat /\ f.bufwrite \in Nat /\ f.bufend \in Nat
      /\ f.bufread \in Nat
  BY DEF Good, Typed, FILE
<1>1. CASE f.bufpos >= f.bufwrite
  BY <1>1, FputcFacts DEF putc
<1>2. CASE f.bufpos < f.bufwrite
  <2> DEFINE b == Put(f.buf, f.bufpos, <<c>>)
             g == [f EXCEPT !.buf = b, !.bufpos = f.bufpos + 1]
  <2>1. putc(f, c).f = g
    BY <1>0, <1>2 DEF putc
  <2>2. /\ f.bufwrite = f.bufend /\ "WRITING" \in f.mode
        /\ f.bufread <= f.bufpos
    BY <1>0, <1>2 DEF Good, Safe
  <2>3. \A j \in 0 .. f.bufpos : j \in DOMAIN b /\ b[j] \in Byte
    <3> TAKE j \in 0 .. f.bufpos
    <3>1. j \in Nat
      BY <1>0
    <3>2. j \in f.bufpos .. f.bufpos + Len(<<c>>) - 1 \/ (j \in DOMAIN f.buf /\ f.buf[j] \in Byte)
      BY <1>0, <3>1, OneChar DEF Good, Typed, Larger
    <3> QED BY <1>0, <3>1, <3>2, OneChar, PutFacts
  <2> HIDE DEF b, g
  <2>4. /\ g.bufpos = f.bufpos + 1 /\ g.bufread = f.bufread /\ g.bufwrite = f.bufwrite
        /\ g.bufend = f.bufend /\ g.mode = f.mode /\ g.buf = b /\ g.at = f.at
    BY <1>0 DEF FILE, g
  <2>5. g \in FILE(b)
    <3>1. f.bufpos + 1 \in Nat
      BY <1>0
    <3> QED BY <1>0, <3>1 DEF FILE, g
  <2>6. Typed(g)
    BY <1>0, <2>2, <2>3, <2>4, <2>5 DEF Typed, Larger
  <2>7. Safe(g) /\ Kept(g)
    BY <1>0, <1>2, <2>2, <2>4 DEF Good, Safe, Kept
  <2> QED BY <2>1, <2>6, <2>7 DEF Good
<1> QED BY <1>0, <1>1, <1>2

LEMMA FwriteFacts ==
  ASSUME NEW f, Good(f), InFile(f), NEW s \in Seq(Byte), s # <<>>
  PROVE  Good(fwrite(f, s).f)
<1> DEFINE start == StopReading(f)
           Room(g) == g.bufend - g.bufpos
           roomy == IF Len(s) > Room(start.f) THEN fflush(start.f) ELSE start
           stored == Stored(roomy.f, s)
<1>1. /\ Good(start.f) /\ InFile(start.f) /\ start.rv \in {0, EOF}
      /\ "READING" \notin start.f.mode
  BY StopReadingFacts
<1>2. Len(s) \in Nat
  BY LenProperties
<1> HIDE DEF start
<1>3. /\ Good(roomy.f) /\ InFile(roomy.f) /\ "READING" \notin roomy.f.mode
      /\ Len(s) <= Room(roomy.f) \/ IsEmptied(roomy.f)
  <2>1. CASE Len(s) > Room(start.f)
    <3>1. Good(roomy.f) /\ InFile(roomy.f) /\ IsEmptied(roomy.f)
      BY <2>1, <1>1, FlushFacts
    <3> HIDE DEF roomy
    <3> QED BY <3>1 DEF IsEmptied
  <2>2. CASE ~(Len(s) > Room(start.f))
    <3>1. /\ start.f.bufpos \in Nat /\ start.f.bufend \in Nat
      BY <1>1, Fields
    <3>2. roomy = start
      BY <2>2
    <3> HIDE DEF roomy
    <3> QED BY <1>1, <1>2, <2>2, <3>1, <3>2
  <2> QED BY <2>1, <2>2
<1> HIDE DEF roomy
<1>4. CASE Len(s) <= Room(roomy.f)
  <2>1. Good(stored) /\ InFile(stored)
    <3>1. roomy.f.bufpos + Len(s) <= roomy.f.bufend
      <4>1. roomy.f.bufpos \in Nat /\ roomy.f.bufend \in Nat
        BY <1>3, Fields
      <4> QED BY <1>2, <1>4, <4>1
    <3> QED BY <3>1, <1>3, StoredFacts
  <2> HIDE DEF stored
  <2>2. Good(fflush(stored).f)
    BY <2>1, FlushFacts
  <2>3. fwrite(f, s).f \in {start.f, roomy.f, stored, fflush(stored).f}
    BY <1>1, <1>4 DEF fwrite, start, roomy, stored
  <2> QED BY <1>1, <1>3, <2>1, <2>2, <2>3
<1>5. CASE ~(Len(s) <= Room(roomy.f))
  <2> DEFINE w == WriteOut(roomy.f, s)
  <2>1. fwrite(f, s).f \in {start.f, roomy.f, w}
    BY <1>1, <1>5 DEF fwrite, start, roomy
  <2>2. roomy.f \in FILE(roomy.f.buf)
    BY <1>3 DEF Good, Typed
  <2>3. /\ w \in FILE(roomy.f.buf) /\ InFile(w) /\ w.bufpos = 0 /\ w.bufread = 0
        /\ w.bufwrite = 0 /\ w.mode \in {roomy.f.mode, roomy.f.mode \cup {"ERR"}}
    BY <1>3, <1>5, <2>2, WriteOutFacts DEF IsEmptied
  <2>4. w.buf = roomy.f.buf
    BY <2>3 DEF FILE
  <2>5. "READING" \notin w.mode /\ "WRITING" \notin w.mode
    BY <1>3, <1>5, <2>3 DEF IsEmptied
  <2> HIDE DEF w
  <2>6. Typed(w)
    BY <2>3, <2>4 DEF Typed, Larger
  <2>7. Safe(w) /\ Kept(w)
    BY <2>3, <2>5 DEF Safe, Kept, FILE
  <2> QED BY <1>1, <1>3, <2>1, <2>6, <2>7 DEF Good
<1> QED BY <1>4, <1>5

-----------------------------------------------------------------------------
(* read() returns no more than was asked for nor than the file has left.   *)
LEMMA ReadCountFacts ==
  ASSUME NEW f, f.take \in Int, f.at \in Nat, f.data \in Seq(Byte), NEW n \in Int
  PROVE  LET k == ReadCount(f, n) IN
         /\ k \in Int
         /\ k > 0 => k <= n /\ f.at + k <= Len(f.data)
         /\ ReadFlag(k) \in {{}, {"EOF"}, {"ERR"}}
<1>1. Len(f.data) \in Nat
  BY LenProperties
<1>2. /\ ReadCount(f, n) \in Int
      /\ ReadCount(f, n) > 0 => ReadCount(f, n) <= n /\ f.at + ReadCount(f, n) <= Len(f.data)
  BY <1>1 DEF ReadCount, Smaller, Larger
<1>3. ASSUME NEW k \in Int PROVE ReadFlag(k) \in {{}, {"EOF"}, {"ERR"}}
  <2>1. CASE k < 0 BY <2>1 DEF ReadFlag
  <2>2. CASE k = 0 BY <2>2 DEF ReadFlag
  <2>3. CASE k > 0 BY <2>3 DEF ReadFlag
  <2> QED BY <2>1, <2>2, <2>3
<1> QED BY <1>2, <1>3

(* Taking characters that are there, when the buffer is not one of output. *)
LEMMA TakenFacts ==
  ASSUME NEW f, Good(f), "WRITING" \notin f.mode,
         NEW n \in Nat, f.bufpos + n <= f.bufread
  PROVE  LET g == Taken(f, n) IN
         /\ Good(g) /\ g.at = f.at /\ g.data = f.data /\ g.mode = f.mode /\ g.take = f.take
<1> DEFINE p == Larger(f.pushed - n, 0)
           g == Taken(f, n)
<1>0. /\ f \in FILE(f.buf) /\ f.bufpos \in Nat /\ f.bufread \in Nat
      /\ f.bufend \in Nat /\ f.pushed \in Nat
  BY Fields
<1>1. p \in Nat /\ f.bufpos + n \in Nat
  BY <1>0 DEF Larger
<1>2. g = [f EXCEPT !.bufpos = f.bufpos + n, !.pushed = p]
  BY DEF Taken
<1> HIDE DEF p, g
<1>3. /\ g.bufpos = f.bufpos + n /\ g.bufread = f.bufread /\ g.bufwrite = f.bufwrite
      /\ g.bufend = f.bufend /\ g.mode = f.mode /\ g.buf = f.buf /\ g.at = f.at
      /\ g.data = f.data /\ g.take = f.take
  BY <1>0, <1>2 DEF FILE
<1>4. g \in FILE(f.buf)
  BY <1>0, <1>1, <1>2 DEF FILE
<1>5. Typed(g)
  BY <1>0, <1>1, <1>3, <1>4 DEF Good, Typed, Larger
<1>6. Safe(g) /\ Kept(g)
  BY <1>0, <1>1, <1>3 DEF Good, Safe, Kept
<1> QED BY <1>3, <1>5, <1>6 DEF Good, g

(* Filling the buffer of a stream that does not write.                     *)
LEMMA FillFacts ==
  ASSUME NEW f0, Good(f0), InFile(f0), "WRITING" \notin f0.mode
  PROVE  LET r == Fill(f0) IN
         /\ Good(r.f) /\ r.rv \in {0, EOF}
         /\ r.rv = 0 => "WRITING" \notin r.f.mode /\ r.f.bufpos < r.f.bufread
<1> DEFINE f == [f0 EXCEPT !.bufpos = 0, !.bufread = 0]
           k == ReadCount(f, f.bufend)
           flag == ReadFlag(k)
           r == Fill(f0)
<1>0. /\ f0 \in FILE(f0.buf) /\ f0.bufend \in Nat \ {0} /\ f0.mode \subseteq Modes
      /\ f0.at \in Nat /\ f0.data \in Seq(Byte) /\ f0.take \in Int
  BY Fields
<1>1. /\ f \in FILE(f0.buf) /\ f.bufpos = 0 /\ f.bufread = 0 /\ f.bufwrite = f0.bufwrite
      /\ f.bufend = f0.bufend /\ f.mode = f0.mode /\ f.at = f0.at /\ f.data = f0.data
      /\ f.buf = f0.buf /\ f.take = f0.take
  BY <1>0 DEF FILE
<1>2. /\ k \in Int /\ flag \in {{}, {"EOF"}, {"ERR"}}
      /\ k > 0 => k <= f0.bufend /\ f0.at + k <= Len(f0.data)
  <2> HIDE DEF f
  <2> QED BY <1>0, <1>1, ReadCountFacts
<1>3. f0.bufwrite = 0
  BY DEF Good, Safe
<1>4. CASE k <= 0
  <2> DEFINE g == [f EXCEPT !.mode = f.mode \cup flag]
  <2>1. r = Ret(g, EOF)
    BY <1>4 DEF Fill
  <2> HIDE DEF f, k, r, flag, g
  <2>2. f.mode \cup flag \in SUBSET Modes
    BY <1>0, <1>1, <1>2 DEF Modes
  <2>3. /\ g \in FILE(f0.buf) /\ g.bufpos = 0 /\ g.bufread = 0 /\ g.bufwrite = 0
        /\ g.bufend = f0.bufend /\ g.mode = f0.mode \cup flag /\ g.buf = f0.buf /\ g.at = f0.at
    BY <1>1, <1>3, <2>2 DEF FILE, g
  <2>4. Typed(g) /\ Safe(g) /\ Kept(g)
    BY <1>0, <1>2, <2>3 DEF Good, Typed, Safe, Kept, Larger
  <2> QED BY <2>1, <2>4 DEF Good, r
<1>5. CASE k > 0
  <2> DEFINE s == SubSeq(f0.data, f0.at + 1, f0.at + k)
             b == Put(f0.buf, 0, s)
             m == (f0.mode \cup {"READING"}) \ {"UNGOT"}
             g == [f EXCEPT !.buf = b, !.bufread = k, !.at = f0.at + k, !.mode = m]
  <2>1. r = Ret(g, 0)
    <3>1. /\ f.mode = f0.mode /\ f.at = f0.at /\ f.data = f0.data /\ f.buf = f0.buf
      BY <1>1
    <3> QED BY <1>5, <3>1, <1>2 DEF Fill
  <2> HIDE DEF f, k, r, flag, g
  <2>2. k \in Nat /\ f0.at + k <= Len(f0.data) /\ k <= f0.bufend
    BY <1>2, <1>5
  <2>3. s \in Seq(Byte) /\ Len(s) = k
    <3>1. \A i \in f0.at + 1 .. f0.at + k : f0.data[i] \in Byte
      BY <1>0, <2>2, ElementOfSeq
    <3> QED BY <3>1, <1>0, <2>2, SubSeqProperties
  <2> HIDE DEF s
  <2>4. \A j \in 0 .. k - 1 : j \in DOMAIN b /\ b[j] \in Byte
    <3> TAKE j \in 0 .. k - 1
    <3>1. j \in Nat /\ j \in 0 .. 0 + Len(s) - 1
      BY <2>2, <2>3
    <3> QED BY <2>3, <3>1, PutFacts
  <2> HIDE DEF b
  <2>5. m \in SUBSET Modes /\ "READING" \in m /\ "WRITING" \notin m
    BY <1>0 DEF Modes
  <2> HIDE DEF m
  <2>6. f0.at + k \in Nat
    BY <1>0, <2>2
  <2>7. /\ g \in FILE(b) /\ g.bufpos = 0 /\ g.bufread = k /\ g.bufwrite = 0
        /\ g.bufend = f0.bufend /\ g.mode = m /\ g.buf = b /\ g.at = f0.at + k
    <3>1. g \in FILE(b)
      BY <1>1, <2>2, <2>5, <2>6 DEF FILE, g
    <3> QED BY <1>1, <1>3, <3>1 DEF FILE, g
  <2>8. Typed(g)
    BY <2>2, <2>4, <2>7 DEF Typed, Larger
  <2>9. Safe(g) /\ Kept(g)
    BY <1>0, <1>5, <2>2, <2>5, <2>7 DEF Safe, Kept
  <2> QED BY <1>5, <2>1, <2>5, <2>7, <2>8, <2>9 DEF Good, r
<1> QED BY <1>2, <1>4, <1>5

LEMMA FgetcFacts ==
  ASSUME NEW f0, Good(f0), InFile(f0)
  PROVE  Good(fgetc(f0).f)
<1> DEFINE f == StopWriting(f0)
           filled == IF f.bufpos >= f.bufread THEN Fill(f) ELSE Ret(f, 0)
<1>1. Good(f) /\ InFile(f) /\ "WRITING" \notin f.mode
  BY StopWritingFacts
<1> HIDE DEF f
<1>2. f.bufpos \in Nat /\ f.bufread \in Nat
  BY <1>1, Fields
<1>3. /\ Good(filled.f) /\ filled.rv \in {0, EOF}
      /\ filled.rv = 0 => "WRITING" \notin filled.f.mode /\ filled.f.bufpos < filled.f.bufread
  <2>1. CASE f.bufpos >= f.bufread
    BY <2>1, <1>1, FillFacts
  <2>2. CASE f.bufpos < f.bufread
    BY <2>2, <1>1, <1>2
  <2> QED BY <1>2, <2>1, <2>2
<1> HIDE DEF filled
<1>4. filled.rv = 0 => Good(Taken(filled.f, 1))
  <2> SUFFICES ASSUME filled.rv = 0 PROVE Good(Taken(filled.f, 1))
    OBVIOUS
  <2>1. filled.f.bufpos \in Nat /\ filled.f.bufread \in Nat
    BY <1>3, Fields
  <2>2. filled.f.bufpos + 1 <= filled.f.bufread
    BY <1>3, <2>1
  <2> QED BY <1>3, <2>2, TakenFacts
<1>5. \/ fgetc(f0).f = f
      \/ fgetc(f0).f = filled.f
      \/ filled.rv # EOF /\ fgetc(f0).f = Taken(filled.f, 1)
  BY DEF fgetc, f, filled
<1> QED BY <1>1, <1>3, <1>4, <1>5

LEMMA GetcFacts ==
  ASSUME NEW f, Good(f), InFile(f)
  PROVE  Good(getc(f).f)
<1>0. f.bufpos \in Nat /\ f.bufread \in Nat
  BY Fields
<1>1. CASE f.bufpos >= f.bufread
  BY <1>1, FgetcFacts DEF getc
<1>2. CASE f.bufpos < f.bufread
  <2>1. "WRITING" \notin f.mode /\ f.bufpos + 1 <= f.bufread
    BY <1>0, <1>2 DEF Good, Safe
  <2>2. Good(Taken(f, 1))
    BY <2>1, TakenFacts
  <2> QED BY <1>0, <1>2, <2>2 DEF getc
<1> QED BY <1>0, <1>1, <1>2

(* Advancing in the file and raising or clearing the flags EOF and ERR     *)
(* disturbs nothing.                                                       *)
LEMMA AdvanceFacts ==
  ASSUME NEW f, Good(f), NEW g \in FILE(f.buf), g.at >= f.at,
         g.bufpos = f.bufpos, g.bufread = f.bufread, g.bufwrite = f.bufwrite,
         g.bufend = f.bufend, g.mode \ {"EOF", "ERR"} = f.mode \ {"EOF", "ERR"}
  PROVE  Good(g)
<1>0. /\ f.at \in Nat /\ f.bufread \in Nat /\ g.at \in Nat /\ g.buf = f.buf
  BY Fields DEF FILE
<1>1. \A x \in {"READING", "WRITING", "IOLBF", "IONBF"} : x \in g.mode <=> x \in f.mode
  OBVIOUS
<1>2. Typed(g)
  BY <1>0 DEF Good, Typed
<1>3. Safe(g) /\ Kept(g)
  BY <1>0, <1>1 DEF Good, Safe, Kept
<1> QED BY <1>2, <1>3 DEF Good

LEMMA FreadFacts ==
  ASSUME NEW f0, Good(f0), InFile(f0), NEW n \in Nat
  PROVE  Good(fread(f0, n).f)
<1> DEFINE f == StopWriting(f0)
           len == f.bufread - f.bufpos
           from == Larger(len, 0)
           rest == Taken(f, from)
           k == ReadCount(f, n - from)
           m == rest.mode \cup ReadFlag(k)
           last == [rest EXCEPT !.at = rest.at + Larger(k, 0), !.mode = m]
<1>1. Good(f) /\ InFile(f) /\ "WRITING" \notin f.mode
  BY StopWritingFacts
<1> HIDE DEF f
<1>2. /\ f.bufpos \in Nat /\ f.bufread \in Nat /\ f.at \in Nat /\ f.data \in Seq(Byte)
      /\ f.take \in Int
  BY <1>1, Fields
<1>3. len \in Nat /\ from = len /\ f.bufpos + from <= f.bufread
  BY <1>1, <1>2 DEF Good, Safe, Larger
<1>4. Good(rest) /\ rest.at = f.at
  BY <1>1, <1>3, TakenFacts
<1>5. len >= n => Good(Taken(f, n))
  <2>1. len >= n => f.bufpos + n <= f.bufread
    BY <1>2, <1>3
  <2> QED BY <2>1, <1>1, TakenFacts
<1>6. k \in Int /\ ReadFlag(k) \in {{}, {"EOF"}, {"ERR"}}
  <2>1. n - from \in Int
    BY <1>3
  <2> QED BY <2>1, <1>2, ReadCountFacts
<1>7. fread(f0, n).f = f \/ (len >= n /\ fread(f0, n).f = Taken(f, n)) \/ fread(f0, n).f = last
  BY DEF fread, f
<1> HIDE DEF rest, k
<1>8. Larger(k, 0) \in Nat
  BY <1>6 DEF Larger
<1>9. m \in SUBSET Modes /\ m \ {"EOF", "ERR"} = rest.mode \ {"EOF", "ERR"}
  <2>1. rest.mode \subseteq Modes
    BY <1>4, Fields
  <2> QED BY <2>1, <1>6 DEF Modes
<1>10. Good(last)
  <2> HIDE DEF m
  <2>1. rest \in FILE(rest.buf) /\ rest.at \in Nat
    BY <1>4, Fields
  <2>2. rest.at + Larger(k, 0) \in Nat /\ rest.at + Larger(k, 0) >= rest.at
    BY <1>8, <2>1
  <2>3. /\ last \in FILE(rest.buf) /\ last.at = rest.at + Larger(k, 0) /\ last.mode = m
        /\ last.bufpos = rest.bufpos /\ last.bufread = rest.bufread
        /\ last.bufwrite = rest.bufwrite /\ last.bufend = rest.bufend
    BY <1>9, <2>1, <2>2 DEF FILE
  <2> HIDE DEF last
  <2> QED BY <1>4, <1>9, <2>2, <2>3, AdvanceFacts
<1> QED BY <1>1, <1>5, <1>7, <1>10

LEMMA ClearerrFacts ==
  ASSUME NEW f, Good(f)
  PROVE  Good(clearerr(f))
<1> DEFINE g == clearerr(f)
<1>1. f \in FILE(f.buf) /\ f.at \in Nat
  BY Fields
<1>2. /\ g \in FILE(f.buf) /\ g.at = f.at /\ g.mode = f.mode \ {"EOF", "ERR"}
      /\ g.bufpos = f.bufpos /\ g.bufread = f.bufread /\ g.bufwrite = f.bufwrite
      /\ g.bufend = f.bufend
  BY <1>1 DEF clearerr, FILE
<1> HIDE DEF g
<1>3. g.mode \ {"EOF", "ERR"} = f.mode \ {"EOF", "ERR"} /\ g.at >= f.at
  BY <1>1, <1>2
<1>4. Good(g)
  BY <1>2, <1>3, AdvanceFacts
<1> QED BY <1>4 DEF g

(* Pushing a character back takes the place of the last one taken or the   *)
(* first place of an empty buffer.                                         *)
LEMMA UngetcFacts ==
  ASSUME NEW f0, Good(f0), InFile(f0), NEW c \in Byte
  PROVE  Good(ungetc(f0, c).f)
<1> DEFINE f == StopWriting(f0)
           m == f.mode \cup {"UNGOT"}
           g == [f EXCEPT !.mode = @ \cup {"UNGOT"}]
           back == [g EXCEPT !.bufpos = @ - 1, !.buf = Put(@, f.bufpos - 1, <<c>>),
                             !.pushed = @ + 1]
           first == [g EXCEPT !.bufread = 1, !.buf = Put(@, 0, <<c>>), !.pushed = @ + 1]
<1>1. Good(f) /\ InFile(f) /\ "WRITING" \notin f.mode
  BY StopWritingFacts
<1>2. \/ ungetc(f0, c).f \in {f, g}
      \/ f.bufpos > 0 /\ ungetc(f0, c).f = back
      \/ ~(f.bufpos > 0) /\ f.bufread = 0 /\ ungetc(f0, c).f = first
  BY DEF ungetc, RoomBehind
<1> HIDE DEF f
<1>3. /\ f \in FILE(f.buf) /\ f.bufpos \in Nat /\ f.bufread \in Nat /\ f.bufend \in Nat \ {0}
      /\ f.at \in Nat /\ f.mode \subseteq Modes /\ f.pushed \in Nat
  BY <1>1, Fields
<1>4. f.bufwrite = 0 /\ f.bufpos <= f.bufread
  BY <1>1 DEF Good, Safe
<1>5. m \in SUBSET Modes /\ "WRITING" \notin m /\ ("READING" \in m <=> "READING" \in f.mode)
  BY <1>1, <1>3 DEF Modes
<1> HIDE DEF m
<1>6. /\ g \in FILE(f.buf) /\ g.bufpos = f.bufpos /\ g.bufread = f.bufread /\ g.bufwrite = 0
      /\ g.bufend = f.bufend /\ g.mode = m /\ g.buf = f.buf /\ g.at = f.at /\ g.pushed = f.pushed
  BY <1>3, <1>4, <1>5 DEF FILE, m
<1>7. f.pushed + 1 \in Nat
  BY <1>3
<1> HIDE DEF g
<1>8. Good(g)
  <2>1. Typed(g)
    BY <1>1, <1>6 DEF Good, Typed
  <2>2. Safe(g) /\ Kept(g)
    BY <1>1, <1>3, <1>4, <1>5, <1>6 DEF Good, Safe, Kept
  <2> QED BY <2>1, <2>2 DEF Good
<1>9. CASE f.bufpos > 0
  <2> DEFINE i == f.bufpos - 1
             b == Put(f.buf, i, <<c>>)
  <2>1. i \in Nat /\ i < f.bufread
    BY <1>3, <1>4, <1>9
  <2>2. \A j \in 0 .. f.bufread - 1 : j \in DOMAIN b /\ b[j] \in Byte
    <3> TAKE j \in 0 .. f.bufread - 1
    <3>1. j \in Nat
      BY <1>3
    <3>2. j \in DOMAIN f.buf /\ f.buf[j] \in Byte
      BY <1>1, <1>3, <1>4 DEF Good, Typed, Larger
    <3> QED BY <2>1, <3>1, <3>2, OneChar, PutFacts
  <2>3. back = [g EXCEPT !.bufpos = i, !.buf = b, !.pushed = f.pushed + 1]
    BY <1>6
  <2> HIDE DEF b, i, back
  <2>4. /\ back.bufpos = i /\ back.bufread = f.bufread /\ back.bufwrite = 0
        /\ back.bufend = f.bufend /\ back.mode = m /\ back.buf = b /\ back.at = f.at
    BY <1>6, <2>3 DEF FILE
  <2>5. back \in FILE(b)
    BY <1>6, <1>7, <2>1, <2>3 DEF FILE
  <2>6. Typed(back)
    BY <1>3, <2>1, <2>2, <2>4, <2>5 DEF Typed, Larger
  <2>7. Safe(back) /\ Kept(back)
    BY <1>1, <1>3, <1>4, <1>5, <2>1, <2>4 DEF Good, Safe, Kept, i
  <2> QED BY <1>1, <1>2, <1>8, <1>9, <2>6, <2>7 DEF Good
<1>10. CASE ~(f.bufpos > 0)
  <2> DEFINE b == Put(f.buf, 0, <<c>>)
  <2>1. SUFFICES ASSUME f.bufread = 0 PROVE Good(first)
    BY <1>1, <1>2, <1>8, <1>10
  <2>2. 0 \in DOMAIN b /\ b[0] \in Byte
    <3>1. 0 \in Nat /\ 0 \in 0 .. 0 + Len(<<c>>) - 1
      BY OneChar
    <3> QED BY <3>1, OneChar, PutFacts
  <2>3. first = [g EXCEPT !.bufread = 1, !.buf = b, !.pushed = f.pushed + 1]
    BY <1>6
  <2> HIDE DEF b, first
  <2>4. /\ first.bufpos = f.bufpos /\ first.bufread = 1 /\ first.bufwrite = 0
        /\ first.bufend = f.bufend /\ first.mode = m /\ first.buf = b /\ first.at = f.at
    BY <1>6, <2>3 DEF FILE
  <2>5. first \in FILE(b)
    BY <1>6, <1>7, <2>3 DEF FILE
  <2>6. Typed(first)
    BY <1>3, <1>10, <2>2, <2>4, <2>5 DEF Typed, Larger
  <2>7. Safe(first) /\ Kept(first)
    BY <1>1, <1>3, <1>4, <1>5, <1>10, <2>4 DEF Good, Safe, Kept
  <2> QED BY <2>6, <2>7 DEF Good
<1> QED BY <1>9, <1>10

-----------------------------------------------------------------------------
(* The descriptor of an empty stream may be anywhere.                      *)
LEMMA LseekFacts ==
  ASSUME NEW f, Good(f), IsEmptied(f), NEW offset \in Int, NEW ref \in {"SET", "CUR", "END"}
  PROVE  Good(lseek(f, offset, ref).f)
<1> DEFINE to == CASE ref = "SET" -> offset
                   [] ref = "CUR" -> f.at + offset
                   [] ref = "END" -> Len(f.data) + offset
           g == [f EXCEPT !.at = to]
<1>1. f \in FILE(f.buf) /\ f.at \in Nat /\ Len(f.data) \in Nat
  BY Fields, LenProperties
<1>2. to \in Int
  <2>1. CASE ref = "SET" BY <2>1
  <2>2. CASE ref = "CUR" BY <2>2, <1>1
  <2>3. CASE ref = "END" BY <2>3, <1>1
  <2> QED BY <2>1, <2>2, <2>3
<1>3. lseek(f, offset, ref).f = f \/ (to >= 0 /\ lseek(f, offset, ref).f = g)
  <2> HIDE DEF g
  <2>1. lseek(f, offset, ref) = IF to < 0 THEN Ret(f, EOF) ELSE Ret(g, 0)
    BY DEF lseek, g
  <2> HIDE DEF to
  <2> QED BY <2>1, <1>2
<1> HIDE DEF to
<1>4. SUFFICES ASSUME to >= 0 PROVE Good(g)
  BY <1>3
<1>5. /\ g \in FILE(f.buf) /\ g.at = to /\ g.mode = f.mode /\ g.buf = f.buf
      /\ g.bufpos = f.bufpos /\ g.bufread = f.bufread /\ g.bufwrite = f.bufwrite
      /\ g.bufend = f.bufend
  BY <1>1, <1>2, <1>4, SMTT(30) DEF FILE
<1> HIDE DEF g
<1>6. Typed(g)
  BY <1>5 DEF Good, Typed
<1>7. Safe(g) /\ Kept(g)
  BY <1>5 DEF Good, Safe, Kept, IsEmptied
<1> QED BY <1>6, <1>7 DEF Good

LEMMA FseekFacts ==
  ASSUME NEW f, Good(f), InFile(f), NEW offset \in Int, NEW ref \in {"SET", "CUR", "END"}
  PROVE  Good(fseek(f, offset, ref).f)
<1> DEFINE absolute == IF ref = "CUR" THEN f.at + offset + f.bufpos - f.bufread ELSE offset
           flushed == fflush(f)
           p == absolute - f.at + f.bufread
           g == [f EXCEPT !.bufpos = p]
<1>1. /\ f \in FILE(f.buf) /\ f.at \in Nat /\ f.bufpos \in Nat /\ f.bufread \in Nat
      /\ f.bufend \in Nat
  BY Fields
<1>2. absolute \in Int
  BY <1>1
<1>3. Good(flushed.f) /\ IsEmptied(flushed.f)
  BY FlushFacts
<1> HIDE DEF absolute, flushed
<1>4. \/ Fast(f, ref) /\ InBuffer(f, absolute) /\ fseek(f, offset, ref).f = g
      \/ fseek(f, offset, ref).f = flushed.f
      \/ fseek(f, offset, ref).f = lseek(flushed.f, absolute, "SET").f
      \/ fseek(f, offset, ref).f = lseek(flushed.f, offset, ref).f
  BY DEF fseek, absolute, flushed
<1>5. ASSUME Fast(f, ref), InBuffer(f, absolute) PROVE Good(g)
  <2>1. "READING" \in f.mode
    BY <1>5 DEF Fast
  <2>2. p \in Nat /\ p < f.bufread
    BY <1>1, <1>2, <1>5 DEF InBuffer
  <2>3. /\ g \in FILE(f.buf) /\ g.at = f.at /\ g.mode = f.mode /\ g.buf = f.buf
        /\ g.bufpos = p /\ g.bufread = f.bufread /\ g.bufwrite = f.bufwrite
        /\ g.bufend = f.bufend
    BY <1>1, <2>2 DEF FILE
  <2> HIDE DEF g, p
  <2>4. Typed(g)
    BY <1>1, <2>2, <2>3 DEF Good, Typed, Larger
  <2>5. Safe(g) /\ Kept(g)
    BY <1>1, <2>1, <2>2, <2>3 DEF Good, Safe, Kept
  <2> QED BY <2>4, <2>5 DEF Good
<1>6. /\ Good(lseek(flushed.f, absolute, "SET").f)
      /\ Good(lseek(flushed.f, offset, ref).f)
  BY <1>2, <1>3, LseekFacts
<1> QED BY <1>3, <1>4, <1>5, <1>6

LEMMA RewindFacts ==
  ASSUME NEW f, Good(f), InFile(f)
  PROVE  Good(rewind(f))
<1>1. Good(fseek(f, 0, "SET").f)
  BY FseekFacts
<1> QED BY <1>1, ClearerrFacts DEF rewind

LEMMA FtellFacts ==
  ASSUME NEW f, Good(f), InFile(f)
  PROVE  Good(ftell(f).f)
BY FlushFacts DEF ftell

(* Another buffer replaces one that fflush has emptied.                    *)
LEMMA NewBufferFacts ==
  ASSUME NEW f, Good(f), InFile(f), NEW kind \in {{}, {"IOLBF"}, {"IONBF"}},
         NEW size \in Nat \ {0}
  PROVE  Good(NewBuffer(f, kind, size))
<1> DEFINE g == fflush(f).f
           end == IF kind = {"IONBF"} THEN UNBUF ELSE size
           m == (g.mode \ {"IOLBF", "IONBF"}) \cup kind
           h == [g EXCEPT !.bufend = end, !.buf = <<>>, !.mode = m]
<1>1. Good(g) /\ IsEmptied(g)
  BY FlushFacts
<1>2. NewBuffer(f, kind, size) = h
  BY DEF NewBuffer
<1> HIDE DEF g
<1>3. g \in FILE(g.buf) /\ g.mode \subseteq Modes /\ g.at \in Nat
  BY <1>1, Fields
<1>4. end \in Nat \ {0}
  BY StdioAssumption
<1>5. m \in SUBSET Modes /\ "READING" \notin m /\ "WRITING" \notin m
  BY <1>1, <1>3 DEF Modes, IsEmptied
<1> HIDE DEF end, m
<1>6. /\ h \in FILE(<<>>) /\ h.at = g.at /\ h.mode = m /\ h.buf = <<>>
      /\ h.bufpos = 0 /\ h.bufread = 0 /\ h.bufwrite = 0 /\ h.bufend = end
  BY <1>1, <1>3, <1>4, <1>5 DEF FILE, IsEmptied
<1> HIDE DEF h
<1>7. Typed(h)
  BY <1>6 DEF Typed, Larger
<1>8. Safe(h) /\ Kept(h)
  BY <1>4, <1>5, <1>6 DEF Safe, Kept
<1> QED BY <1>2, <1>7, <1>8 DEF Good

-----------------------------------------------------------------------------
(* The inductive invariant: MacrosSafe, what Kept adds, and the descriptor *)
(* in the file.                                                            *)
Inv == Good(fp) /\ InFile(fp)

LEMMA InitInv == Init => Inv
<1> SUFFICES ASSUME Init PROVE Inv
  OBVIOUS
<1>1. fp = Opened
  BY DEF Init
<1>2. Len(InitialFile) \in Nat /\ InitialFile \in Seq(Byte)
  BY StdioAssumption, LenProperties
<1>3. Access \cup InitialMode \in SUBSET Modes
      /\ "READING" \notin Access \cup InitialMode /\ "WRITING" \notin Access \cup InitialMode
  BY StdioAssumption DEF Modes
<1>4. fp \in FILE(<<>>)
  BY <1>1, <1>2, <1>3, StdioAssumption DEF Opened, FILE
<1>5. /\ fp.bufpos = 0 /\ fp.bufread = 0 /\ fp.bufwrite = 0 /\ fp.bufend = BUFSIZ /\ fp.at = 0
      /\ fp.buf = <<>> /\ fp.mode = Access \cup InitialMode /\ fp.data = InitialFile
  BY <1>1 DEF Opened
<1>6. Typed(fp)
  BY <1>4, <1>5 DEF Typed, Larger
<1>7. Safe(fp) /\ Kept(fp)
  BY <1>3, <1>5, StdioAssumption DEF Safe, Kept
<1> QED BY <1>2, <1>5, <1>6, <1>7 DEF Inv, Good, InFile

(* A call ends with the system at rest, which no part of the invariant     *)
(* looks at.                                                               *)
LEMMA FinishInv ==
  ASSUME NEW f, Good(f), NEW what, Finish(f, what)
  PROVE  Inv'
<1>1. f \in FILE(f.buf) /\ f.at \in Nat
  BY Fields
<1>2. fp' = [f EXCEPT !.room = 0, !.take = 0] /\ f.at <= Len(f.data)
  BY DEF Finish
<1> DEFINE g == [f EXCEPT !.room = 0, !.take = 0]
<1>3. /\ g \in FILE(f.buf) /\ g.at = f.at /\ g.mode = f.mode /\ g.data = f.data
      /\ g.bufpos = f.bufpos /\ g.bufread = f.bufread /\ g.bufwrite = f.bufwrite
      /\ g.bufend = f.bufend
  <2>1. g \in FILE(f.buf)
    <3> DEFINE h == [f EXCEPT !.room = 0]
    <3>1. h \in FILE(f.buf)
      BY <1>1, SMTT(30) DEF FILE
    <3>2. g = [h EXCEPT !.take = 0]
      OBVIOUS
    <3> HIDE DEF g, h
    <3> QED BY <3>1, <3>2, SMTT(30) DEF FILE
  <2>2. g.at = f.at /\ g.mode = f.mode /\ g.data = f.data
    BY <1>1 DEF FILE
  <2>3. /\ g.bufpos = f.bufpos /\ g.bufread = f.bufread /\ g.bufwrite = f.bufwrite
        /\ g.bufend = f.bufend
    BY <1>1 DEF FILE
  <2> QED BY <2>1, <2>2, <2>3
<1> HIDE DEF g
<1>4. Good(g)
  BY <1>1, <1>3, AdvanceFacts
<1>5. Good(fp') /\ InFile(fp')
  BY <1>2, <1>3, <1>4 DEF InFile, g
<1> QED BY <1>5 DEF Inv, Good, Typed, Safe, Kept, InFile

(* One call, on the FILE f.                                                *)
Acts(f) ==
    \/ \E c \in Byte : Putc(f, c) \/ Fputc(f, c) \/ Ungetc(f, c)
    \/ \E n \in WriteCounts : \E s \in [1 .. n -> Byte] : Fwrite(f, s)
    \/ Getc(f) \/ Fgetc(f)
    \/ \E n \in ReadCounts : Fread(f, n)
    \/ Fflush(f) \/ Ftell(f) \/ Rewind(f) \/ Clearerr(f)
    \/ \E offset \in Offsets, ref \in {"SET", "CUR", "END"} : Fseek(f, offset, ref)
    \/ \E kind \in {{}, {"IOLBF"}, {"IONBF"}}, size \in BufSizes : Setvbuf(f, kind, size)

(* Every step but a stutter is a call, with the system in some state.      *)
LEMMA CallMade ==
  ASSUME Next
  PROVE  \E room \in Nat, take \in Int : Acts(System(room, take))
<1>1. Rooms \subseteq Nat /\ Takes \subseteq Int /\ 0 \in Int
  BY StdioAssumption
<1>2. PICK room \in Rooms :
        \/ \E take \in Takes :
            LET f == System(room, take) IN
            \/ Getc(f) \/ Fgetc(f)
            \/ \E n \in ReadCounts : Fread(f, n)
        \/ LET f == System(room, 0) IN
            \/ \E c \in Byte : Putc(f, c) \/ Fputc(f, c) \/ Ungetc(f, c)
            \/ \E n \in WriteCounts : \E s \in [1 .. n -> Byte] : Fwrite(f, s)
            \/ Fflush(f) \/ Ftell(f) \/ Rewind(f) \/ Clearerr(f)
            \/ \E offset \in Offsets, ref \in {"SET", "CUR", "END"} : Fseek(f, offset, ref)
            \/ \E kind \in {{}, {"IOLBF"}, {"IONBF"}}, size \in BufSizes : Setvbuf(f, kind, size)
  BY DEF Next
<1>3. CASE \E take \in Takes : LET f == System(room, take) IN
             \/ Getc(f) \/ Fgetc(f)
             \/ \E n \in ReadCounts : Fread(f, n)
  BY <1>1, <1>3 DEF Acts
<1>4. CASE LET f == System(room, 0) IN
             \/ \E c \in Byte : Putc(f, c) \/ Fputc(f, c) \/ Ungetc(f, c)
             \/ \E n \in WriteCounts : \E s \in [1 .. n -> Byte] : Fwrite(f, s)
             \/ Fflush(f) \/ Ftell(f) \/ Rewind(f) \/ Clearerr(f)
             \/ \E offset \in Offsets, ref \in {"SET", "CUR", "END"} : Fseek(f, offset, ref)
             \/ \E kind \in {{}, {"IOLBF"}, {"IONBF"}}, size \in BufSizes : Setvbuf(f, kind, size)
  BY <1>1, <1>4 DEF Acts
<1> QED BY <1>2, <1>3, <1>4

(* What the system does in a call is no part of the invariant.             *)
LEMMA SystemFacts ==
  ASSUME Inv, NEW room \in Nat, NEW take \in Int
  PROVE  LET f == System(room, take) IN Good(f) /\ InFile(f)
<1> DEFINE f == System(room, take)
<1>1. fp \in FILE(fp.buf) /\ fp.at \in Nat
  BY Fields DEF Inv
<1>2. /\ f \in FILE(fp.buf) /\ f.at = fp.at /\ f.mode = fp.mode /\ f.data = fp.data
      /\ f.bufpos = fp.bufpos /\ f.bufread = fp.bufread /\ f.bufwrite = fp.bufwrite
      /\ f.bufend = fp.bufend
  BY <1>1 DEF System, FILE
<1> HIDE DEF f
<1> QED BY <1>1, <1>2, AdvanceFacts DEF Inv, InFile, f

LEMMA NextInv == Inv /\ [Next]_vars => Inv'
<1> SUFFICES ASSUME Inv, [Next]_vars PROVE Inv'
  OBVIOUS
<1>1. CASE UNCHANGED vars
  BY <1>1 DEF vars, Inv, Good, Typed, Safe, Kept, InFile
<1>2. CASE Next
  <2>1. PICK room \in Nat, take \in Int : Acts(System(room, take))
    BY <1>2, CallMade
  <2> DEFINE f == System(room, take)
  <2>2. Good(f) /\ InFile(f)
    BY <2>1, SystemFacts
  <2> HIDE DEF f
  <2>3. ASSUME NEW c \in Byte, Putc(f, c) \/ Fputc(f, c) \/ Ungetc(f, c) PROVE Inv'
    BY <2>2, <2>3, PutcFacts, FputcFacts, UngetcFacts, FinishInv DEF Putc, Fputc, Ungetc
  <2>4. ASSUME NEW n \in WriteCounts, NEW s \in [1 .. n -> Byte], Fwrite(f, s) PROVE Inv'
    <3>1. n \in Nat \ {0}
      BY StdioAssumption
    <3>2. s \in Seq(Byte) /\ s # <<>>
      BY <3>1, SeqDef, EmptySeq
    <3>3. Good(fwrite(f, s).f)
      BY <2>2, <3>2, FwriteFacts
    <3> QED BY <2>4, <3>3, FinishInv DEF Fwrite
  <2>5. ASSUME Getc(f) \/ Fgetc(f) PROVE Inv'
    BY <2>2, <2>5, GetcFacts, FgetcFacts, FinishInv DEF Getc, Fgetc
  <2>6. ASSUME NEW n \in ReadCounts, Fread(f, n) PROVE Inv'
    <3>1. n \in Nat
      BY StdioAssumption
    <3> QED BY <2>2, <2>6, <3>1, FreadFacts, FinishInv DEF Fread
  <2>7. ASSUME Fflush(f) \/ Ftell(f) \/ Rewind(f) \/ Clearerr(f) PROVE Inv'
    BY <2>2, <2>7, FlushFacts, FtellFacts, RewindFacts, ClearerrFacts, FinishInv
       DEF Fflush, Ftell, Rewind, Clearerr
  <2>8. ASSUME NEW offset \in Offsets, NEW ref \in {"SET", "CUR", "END"},
               Fseek(f, offset, ref)
        PROVE  Inv'
    <3>1. offset \in Int
      BY StdioAssumption
    <3> QED BY <2>2, <2>8, <3>1, FseekFacts, FinishInv DEF Fseek
  <2>9. ASSUME NEW kind \in {{}, {"IOLBF"}, {"IONBF"}}, NEW size \in BufSizes,
               Setvbuf(f, kind, size)
        PROVE  Inv'
    <3>1. size \in Nat \ {0}
      BY StdioAssumption
    <3> QED BY <2>2, <2>9, <3>1, NewBufferFacts, FinishInv DEF Setvbuf
  <2> QED BY <2>1, <2>3, <2>4, <2>5, <2>6, <2>7, <2>8, <2>9 DEF Acts, f
<1> QED BY <1>1, <1>2

(* For every buffer, file, mode and failure of the system, every cell the  *)
(* pointers of a FILE claim holds a character that was stored there.       *)
THEOREM StdioTypes == Spec => []TypeOK
<1>1. Inv => TypeOK
  BY DEF Inv, Good, TypeOK
<1> QED BY <1>1, InitInv, NextInv, PTL DEF Spec

(* And getc and putc, which look at one pointer and no flag, stay inside   *)
(* the buffer and never take output for input or the reverse.              *)
THEOREM StdioMacros == Spec => []MacrosSafe
<1>1. Inv => MacrosSafe
  BY DEF Inv, Good, MacrosSafe
<1> QED BY <1>1, InitInv, NextInv, PTL DEF Spec

-----------------------------------------------------------------------------
(* Lines.  LinesVisible for any FILE, and what it rests on when the first  *)
(* character is stored: only a stream that reads has a buffer of input, so *)
(* that output starts where the buffer does.                               *)
Lines(f) ==
    "WRITING" \in f.mode =>
        /\ "IONBF" \notin f.mode
        /\ "IOLBF" \in f.mode => \A i \in 0 .. f.bufpos - 1 : f.buf[i] # NL

Tidy(f) == ("READING" \notin f.mode => f.bufread = 0) /\ Lines(f)

(* Only these four fields matter.                                          *)
LEMMA TidyOnly ==
    ASSUME NEW f, NEW g, Tidy(f), g.bufread = f.bufread, g.bufpos = f.bufpos, g.buf = f.buf,
           \A x \in {"READING", "WRITING", "IOLBF", "IONBF"} : x \in g.mode <=> x \in f.mode
    PROVE  Tidy(g)
BY DEF Tidy, Lines

(* A stream that does not write has no lines to show.                      *)
LEMMA ReadTidy ==
    ASSUME NEW g, "WRITING" \notin g.mode, "READING" \in g.mode \/ g.bufread = 0
    PROVE  Tidy(g)
BY DEF Tidy, Lines

(* fflush leaves no output.                                                *)
LEMMA FlushTidy ==
    ASSUME NEW f, Good(f), InFile(f)
    PROVE  Tidy(fflush(f).f)
BY FlushFacts, ReadTidy DEF IsEmptied

LEMMA StopReadingTidy ==
    ASSUME NEW f, Good(f), InFile(f), Tidy(f)
    PROVE  Tidy(StopReading(f).f)
BY FlushTidy DEF StopReading

LEMMA StopWritingTidy ==
    ASSUME NEW f, Good(f), InFile(f), Tidy(f)
    PROVE  Tidy(StopWriting(f))
BY FlushTidy DEF StopWriting

(* What is stored and need not be seen at once leaves no finished line.    *)
LEMMA StoredTidy ==
    ASSUME NEW f, Good(f), InFile(f), Tidy(f), "READING" \notin f.mode,
           NEW s \in Seq(Byte), ~Visible(f, s)
    PROVE  Tidy(Stored(f, s))
<1> DEFINE g == Stored(f, s)
<1>0. f \in FILE(f.buf) /\ f.bufpos \in Nat /\ f.bufread \in Nat /\ Len(s) \in Nat
  BY Fields, LenProperties
<1>1. /\ g.mode = f.mode \cup {"WRITING"} /\ g.bufread = f.bufread
      /\ g.bufpos = f.bufpos + Len(s) /\ g.buf = Put(f.buf, f.bufpos, s)
  BY <1>0 DEF Stored, FILE
<1> HIDE DEF g
<1>2. f.bufread = 0
  BY DEF Tidy
<1>3. /\ "IONBF" \notin f.mode
      /\ "IOLBF" \in f.mode => \A i \in 1 .. Len(s) : s[i] # NL
  BY DEF Visible
<1>4. ASSUME "IOLBF" \in f.mode, NEW i \in 0 .. f.bufpos + Len(s) - 1
      PROVE  Put(f.buf, f.bufpos, s)[i] # NL
  <2>1. CASE i \in f.bufpos .. f.bufpos + Len(s) - 1
    <3>1. i - f.bufpos + 1 \in 1 .. Len(s)
      BY <1>0, <2>1
    <3>2. s[i - f.bufpos + 1] # NL
      BY <1>3, <1>4, <3>1
    <3> QED
      BY <2>1, <3>2 DEF Put
  <2>2. CASE i \notin f.bufpos .. f.bufpos + Len(s) - 1
    <3>1. i \in 0 .. f.bufpos - 1
      BY <1>0, <2>2
    <3>2. "WRITING" \in f.mode
      <4>1. "WRITING" \notin f.mode => f.bufpos = 0
        BY <1>0, <1>2 DEF Good, Safe
      <4> QED
        BY <1>0, <3>1, <4>1
    <3>3. f.buf[i] # NL
      BY <1>4, <3>1, <3>2 DEF Tidy, Lines
    <3>4. i \in DOMAIN f.buf
      <4>1. i \in 0 .. Larger(f.bufpos, f.bufread) - 1
        BY <1>0, <3>1 DEF Larger
      <4> QED
        BY <4>1 DEF Good, Typed
    <3> QED
      BY <2>2, <3>3, <3>4 DEF Put
  <2> QED
    BY <2>1, <2>2
<1>5. Lines(g)
  <2>1. "IONBF" \notin g.mode /\ ("IOLBF" \in g.mode => "IOLBF" \in f.mode)
    BY <1>1, <1>3
  <2>2. ASSUME "IOLBF" \in g.mode, NEW i \in 0 .. g.bufpos - 1 PROVE g.buf[i] # NL
    <3>0. g.bufpos = f.bufpos + Len(s)
      BY <1>1
    <3>1. i \in 0 .. f.bufpos + Len(s) - 1
      BY <1>0, <2>2, <3>0
    <3> QED
      BY <1>1, <1>4, <2>1, <2>2, <3>1
  <2> QED
    BY <2>1, <2>2 DEF Lines
<1> QED
  BY <1>1, <1>2, <1>5 DEF Tidy, g

(* Store writes out what must be seen and stores the rest.                 *)
LEMMA StoreTidy ==
    ASSUME NEW f, Good(f), InFile(f), Tidy(f), "READING" \notin f.mode, f.bufpos < f.bufend,
           NEW c \in Byte
    PROVE  Tidy(Store(f, c).f)
<1> DEFINE s == <<c>>
           stored == Stored(f, s)
           flushed == IF Visible(f, s) THEN fflush(stored) ELSE Ret(stored, 0)
           g == MacroMay(flushed.f)
<1>0. f.bufpos \in Nat /\ f.bufend \in Nat
  BY Fields
<1>1. s \in Seq(Byte) /\ s # <<>> /\ f.bufpos + Len(s) <= f.bufend
  BY <1>0, OneChar
<1>2. Store(f, c).f \in {flushed.f, g}
  BY DEF Store
<1> HIDE DEF s
<1>3. Good(stored) /\ InFile(stored)
  BY <1>1, StoredFacts
<1>4. ~Visible(f, s) => Tidy(stored)
  BY <1>1, StoredTidy
<1> HIDE DEF stored
<1>5. Good(flushed.f) /\ Tidy(flushed.f)
  <2>1. CASE Visible(f, s)
    <3>1. flushed = fflush(stored)
      BY <2>1
    <3> HIDE DEF flushed
    <3> QED
      BY <1>3, <3>1, FlushFacts, FlushTidy
  <2>2. CASE ~Visible(f, s)
    BY <1>3, <1>4, <2>2
  <2> QED
    BY <2>1, <2>2
<1> HIDE DEF flushed
<1>6. Tidy(g)
  <2>1. flushed.f \in FILE(flushed.f.buf)
    BY <1>5, Fields
  <2>2. /\ g.bufread = flushed.f.bufread /\ g.bufpos = flushed.f.bufpos
        /\ g.buf = flushed.f.buf /\ g.mode = flushed.f.mode
    BY <2>1 DEF MacroMay, FILE
  <2> HIDE DEF g
  <2> QED
    BY <1>5, <2>2, TidyOnly
<1> QED
  BY <1>2, <1>5, <1>6

(* fputc flushes a full buffer first, fwrite one that is too small.        *)
LEMMA FputcTidy ==
    ASSUME NEW f, Good(f), InFile(f), Tidy(f), NEW c \in Byte
    PROVE  Tidy(fputc(f, c).f)
<1> DEFINE start == StopReading(f)
           roomy == IF start.f.bufpos >= start.f.bufend THEN fflush(start.f) ELSE start
<1>1. Good(start.f) /\ InFile(start.f) /\ "READING" \notin start.f.mode
  BY StopReadingFacts
<1>2. Tidy(start.f)
  BY StopReadingTidy
<1>3. fputc(f, c).f \in {start.f, roomy.f, Store(roomy.f, c).f}
  BY DEF fputc
<1> HIDE DEF start
<1>4. /\ Good(roomy.f) /\ InFile(roomy.f) /\ "READING" \notin roomy.f.mode
      /\ roomy.f.bufpos < roomy.f.bufend /\ Tidy(roomy.f)
  <2>0. start.f.bufpos \in Nat /\ start.f.bufend \in Nat \ {0}
    BY <1>1, Fields
  <2>1. CASE start.f.bufpos >= start.f.bufend
    <3>1. roomy = fflush(start.f)
      BY <2>1
    <3> HIDE DEF roomy
    <3>2. /\ Good(roomy.f) /\ InFile(roomy.f) /\ IsEmptied(roomy.f) /\ roomy.f.bufend = start.f.bufend
      BY <1>1, <3>1, FlushFacts
    <3>3. Tidy(roomy.f)
      BY <1>1, <3>1, FlushTidy
    <3> QED
      BY <2>0, <3>2, <3>3 DEF IsEmptied
  <2>2. CASE ~(start.f.bufpos >= start.f.bufend)
    <3>1. roomy = start
      BY <2>2
    <3> HIDE DEF roomy
    <3> QED
      BY <1>1, <1>2, <2>0, <2>2, <3>1
  <2> QED
    BY <2>1, <2>2
<1> HIDE DEF roomy
<1>5. Tidy(Store(roomy.f, c).f)
  BY <1>4, StoreTidy
<1> QED
  BY <1>2, <1>3, <1>4, <1>5

(* The macro stores without a look at what it stores: it has room only     *)
(* when lines do not matter.                                               *)
LEMMA PutcTidy ==
    ASSUME NEW f, Good(f), InFile(f), Tidy(f), NEW c \in Byte
    PROVE  Tidy(putc(f, c).f)
<1>0. f \in FILE(f.buf) /\ f.bufpos \in Nat /\ f.bufwrite \in Nat
  BY Fields
<1>1. CASE f.bufpos >= f.bufwrite
  BY <1>1, FputcTidy DEF putc
<1>2. CASE ~(f.bufpos >= f.bufwrite)
  <2> DEFINE g == [f EXCEPT !.buf = Put(@, f.bufpos, <<c>>), !.bufpos = @ + 1]
  <2>1. putc(f, c).f = g
    BY <1>2 DEF putc
  <2>2. g.mode = f.mode /\ g.bufread = f.bufread
    BY <1>0 DEF FILE
  <2>3. "IOLBF" \notin f.mode /\ "IONBF" \notin f.mode
    BY <1>0, <1>2 DEF Good, Safe
  <2> HIDE DEF g
  <2> QED
    BY <2>1, <2>2, <2>3 DEF Tidy, Lines
<1> QED
  BY <1>1, <1>2

LEMMA FwriteTidy ==
    ASSUME NEW f, Good(f), InFile(f), Tidy(f), NEW s \in Seq(Byte), s # <<>>
    PROVE  Tidy(fwrite(f, s).f)
<1> DEFINE start == StopReading(f)
           Room(g) == g.bufend - g.bufpos
           roomy == IF Len(s) > Room(start.f) THEN fflush(start.f) ELSE start
           stored == Stored(roomy.f, s)
           last == IF Visible(stored, s) THEN fflush(stored).f ELSE stored
           direct == WriteOut(roomy.f, s)
<1>0. Len(s) \in Nat
  BY LenProperties
<1>1. Good(start.f) /\ InFile(start.f) /\ "READING" \notin start.f.mode
  BY StopReadingFacts
<1>2. Tidy(start.f)
  BY StopReadingTidy
<1>3. \/ fwrite(f, s).f \in {start.f, roomy.f}
      \/ Len(s) <= Room(roomy.f) /\ fwrite(f, s).f = last
      \/ ~(Len(s) <= Room(roomy.f)) /\ fwrite(f, s).f = direct
  BY DEF fwrite
<1> HIDE DEF start
<1>4. /\ Good(roomy.f) /\ InFile(roomy.f) /\ "READING" \notin roomy.f.mode /\ Tidy(roomy.f)
      /\ Len(s) <= Room(roomy.f) \/ IsEmptied(roomy.f)
  <2>0. start.f.bufpos \in Nat /\ start.f.bufend \in Nat
    BY <1>1, Fields
  <2>1. CASE Len(s) > Room(start.f)
    <3>1. roomy = fflush(start.f)
      BY <2>1
    <3> HIDE DEF roomy
    <3>2. Good(roomy.f) /\ InFile(roomy.f) /\ IsEmptied(roomy.f)
      BY <1>1, <3>1, FlushFacts
    <3>3. Tidy(roomy.f)
      BY <1>1, <3>1, FlushTidy
    <3> QED
      BY <3>2, <3>3 DEF IsEmptied
  <2>2. CASE ~(Len(s) > Room(start.f))
    <3>1. roomy = start
      BY <2>2
    <3> HIDE DEF roomy
    <3>2. Len(s) <= Room(roomy.f)
      BY <1>0, <2>0, <2>2, <3>1
    <3> QED
      BY <1>1, <1>2, <3>1, <3>2
  <2> QED
    BY <2>1, <2>2
<1> HIDE DEF roomy
<1>5. ASSUME Len(s) <= Room(roomy.f) PROVE Tidy(last)
  <2>0. roomy.f \in FILE(roomy.f.buf) /\ roomy.f.bufpos \in Nat /\ roomy.f.bufend \in Nat
    BY <1>4, Fields
  <2>1. roomy.f.bufpos + Len(s) <= roomy.f.bufend
    BY <1>0, <1>5, <2>0
  <2>2. Good(stored) /\ InFile(stored)
    BY <1>4, <2>1, StoredFacts
  <2>3. stored.mode = roomy.f.mode \cup {"WRITING"}
    BY <2>0 DEF Stored, FILE
  <2>4. ~Visible(stored, s) => Tidy(stored)
    <3>1. Visible(stored, s) <=> Visible(roomy.f, s)
      <4> HIDE DEF stored
      <4> QED
        BY <2>3 DEF Visible
    <3> QED
      BY <1>4, <3>1, StoredTidy
  <2> HIDE DEF stored
  <2>5. CASE Visible(stored, s)
    BY <2>2, <2>5, FlushTidy
  <2>6. CASE ~Visible(stored, s)
    BY <2>4, <2>6
  <2> QED
    BY <2>5, <2>6
<1>6. ASSUME ~(Len(s) <= Room(roomy.f)) PROVE Tidy(direct)
  <2>1. IsEmptied(roomy.f) /\ roomy.f \in FILE(roomy.f.buf)
    BY <1>4, <1>6, Fields
  <2>2. direct.bufread = roomy.f.bufread /\ direct.mode \in {roomy.f.mode, roomy.f.mode \cup {"ERR"}}
    BY <1>4, <2>1, WriteOutFacts
  <2> HIDE DEF direct
  <2>3. "WRITING" \notin direct.mode /\ direct.bufread = 0
    BY <2>1, <2>2 DEF IsEmptied
  <2> QED
    BY <2>3, ReadTidy
<1> QED
  BY <1>2, <1>3, <1>4, <1>5, <1>6

-----------------------------------------------------------------------------
(* Reading: what is buffered was read, or nothing is.                      *)
LEMMA StoppedTidy ==
    ASSUME NEW f, Good(f), InFile(f), Tidy(f)
    PROVE  LET g == StopWriting(f) IN
           /\ Tidy(g) /\ "WRITING" \notin g.mode
           /\ "READING" \in g.mode \/ g.bufread = 0
BY StopWritingTidy, StopWritingFacts DEF Tidy

(* Taking characters leaves what was buffered.                             *)
LEMMA TakenTidy ==
    ASSUME NEW f, Good(f), "WRITING" \notin f.mode, "READING" \in f.mode \/ f.bufread = 0, NEW n
    PROVE  LET g == Taken(f, n) IN
           Tidy(g) /\ g.mode = f.mode /\ g.bufread = f.bufread
<1> DEFINE g == Taken(f, n)
<1>1. f \in FILE(f.buf)
  BY Fields
<1>2. g.mode = f.mode /\ g.bufread = f.bufread
  BY <1>1 DEF Taken, FILE
<1> HIDE DEF g
<1> QED
  BY <1>2, ReadTidy DEF g

(* A buffer filled is one of input, or empty.                              *)
LEMMA FillTidy ==
    ASSUME NEW f0, Good(f0), InFile(f0), "WRITING" \notin f0.mode
    PROVE  LET r == Fill(f0) IN
           "WRITING" \notin r.f.mode /\ ("READING" \in r.f.mode \/ r.f.bufread = 0)
<1> DEFINE f == [f0 EXCEPT !.bufpos = 0, !.bufread = 0]
           k == ReadCount(f, f.bufend)
           none == [f EXCEPT !.mode = f.mode \cup ReadFlag(k)]
           some == [f EXCEPT !.buf = Put(@, 0, SubSeq(f.data, f.at + 1, f.at + k)),
                             !.bufread = k, !.at = @ + k,
                             !.mode = (@ \cup {"READING"}) \ {"UNGOT"}]
<1>0. /\ f0 \in FILE(f0.buf) /\ f0.bufend \in Nat \ {0} /\ f0.mode \subseteq Modes
      /\ f0.at \in Nat /\ f0.data \in Seq(Byte) /\ f0.take \in Int
  BY Fields
<1>1. /\ f \in FILE(f0.buf) /\ f.bufread = 0 /\ f.bufend = f0.bufend /\ f.mode = f0.mode
      /\ f.at = f0.at /\ f.data = f0.data /\ f.take = f0.take
  BY <1>0 DEF FILE
<1>2. Fill(f0).f \in {none, some}
  BY DEF Fill
<1> HIDE DEF f
<1>3. ReadFlag(k) \in {{}, {"EOF"}, {"ERR"}}
  <2>1. f.take \in Int /\ f.at \in Nat /\ f.data \in Seq(Byte) /\ f.bufend \in Int
    BY <1>0, <1>1
  <2> QED
    BY <2>1, ReadCountFacts
<1> HIDE DEF k
<1>4. none.mode = f.mode \cup ReadFlag(k) /\ none.bufread = 0
  BY <1>1 DEF FILE
<1>5. some.mode = (f.mode \cup {"READING"}) \ {"UNGOT"}
  BY <1>1 DEF FILE
<1> HIDE DEF none, some
<1>6. "WRITING" \notin none.mode
  BY <1>1, <1>3, <1>4
<1>7. "WRITING" \notin some.mode /\ "READING" \in some.mode
  BY <1>1, <1>5
<1> QED
  BY <1>2, <1>4, <1>6, <1>7

LEMMA FgetcTidy ==
    ASSUME NEW f0, Good(f0), InFile(f0), Tidy(f0)
    PROVE  Tidy(fgetc(f0).f)
<1> DEFINE f == StopWriting(f0)
           filled == IF f.bufpos >= f.bufread THEN Fill(f) ELSE Ret(f, 0)
<1>1. Good(f) /\ InFile(f) /\ "WRITING" \notin f.mode
  BY StopWritingFacts
<1>2. Tidy(f) /\ ("READING" \in f.mode \/ f.bufread = 0)
  BY StoppedTidy
<1>3. fgetc(f0).f \in {f, filled.f, Taken(filled.f, 1)}
  BY DEF fgetc
<1> HIDE DEF f
<1>4. /\ Good(filled.f) /\ "WRITING" \notin filled.f.mode
      /\ "READING" \in filled.f.mode \/ filled.f.bufread = 0
  <2>1. CASE f.bufpos >= f.bufread
    BY <1>1, <2>1, FillFacts, FillTidy
  <2>2. CASE ~(f.bufpos >= f.bufread)
    BY <1>1, <1>2, <2>2
  <2> QED
    BY <2>1, <2>2
<1> HIDE DEF filled
<1>5. Tidy(filled.f) /\ Tidy(Taken(filled.f, 1))
  BY <1>4, ReadTidy, TakenTidy
<1> QED
  BY <1>2, <1>3, <1>5

LEMMA GetcTidy ==
    ASSUME NEW f, Good(f), InFile(f), Tidy(f)
    PROVE  Tidy(getc(f).f)
<1>0. f.bufpos \in Nat /\ f.bufread \in Nat
  BY Fields
<1>1. CASE f.bufpos >= f.bufread
  BY <1>1, FgetcTidy DEF getc
<1>2. CASE ~(f.bufpos >= f.bufread)
  <2>1. "WRITING" \notin f.mode
    BY <1>0, <1>2 DEF Good, Safe
  <2>2. "READING" \in f.mode \/ f.bufread = 0
    BY DEF Tidy
  <2>3. Tidy(Taken(f, 1))
    BY <2>1, <2>2, TakenTidy
  <2> QED
    BY <1>2, <2>3 DEF getc
<1> QED
  BY <1>1, <1>2

LEMMA FreadTidy ==
    ASSUME NEW f0, Good(f0), InFile(f0), Tidy(f0), NEW n \in Nat
    PROVE  Tidy(fread(f0, n).f)
<1> DEFINE f == StopWriting(f0)
           from == Larger(f.bufread - f.bufpos, 0)
           rest == Taken(f, from)
           k == ReadCount(f, n - from)
           last == [rest EXCEPT !.at = @ + Larger(k, 0), !.mode = @ \cup ReadFlag(k)]
<1>1. Good(f) /\ InFile(f) /\ "WRITING" \notin f.mode
  BY StopWritingFacts
<1>2. Tidy(f) /\ ("READING" \in f.mode \/ f.bufread = 0)
  BY StoppedTidy
<1>3. fread(f0, n).f \in {f, Taken(f, n), last}
  BY DEF fread
<1> HIDE DEF f
<1>4. /\ f.bufpos \in Nat /\ f.bufread \in Nat /\ f.at \in Nat /\ f.data \in Seq(Byte)
      /\ f.take \in Int /\ f \in FILE(f.buf)
  BY <1>1, Fields
<1>5. from \in Int
  BY <1>4 DEF Larger
<1> HIDE DEF from
<1>6. ReadFlag(k) \in {{}, {"EOF"}, {"ERR"}}
  <2>1. n - from \in Int
    BY <1>5
  <2> QED
    BY <1>4, <2>1, ReadCountFacts
<1> HIDE DEF k
<1>7. rest.mode = f.mode /\ rest.bufread = f.bufread
  BY <1>1, <1>2, TakenTidy
<1>8. last.mode = f.mode \cup ReadFlag(k) /\ last.bufread = f.bufread
  <2>1. last.mode = rest.mode \cup ReadFlag(k) /\ last.bufread = rest.bufread
    BY <1>4 DEF Taken, FILE
  <2> QED
    BY <1>7, <2>1
<1> HIDE DEF last
<1>9. "WRITING" \notin last.mode /\ ("READING" \in last.mode \/ last.bufread = 0)
  BY <1>1, <1>2, <1>6, <1>8
<1>10. Tidy(last) /\ Tidy(Taken(f, n))
  BY <1>1, <1>2, <1>9, ReadTidy, TakenTidy
<1> QED
  BY <1>2, <1>3, <1>10

(* A stream that reads keeps reading when a character is pushed back.      *)
LEMMA UngetcTidy ==
    ASSUME NEW f, Good(f), InFile(f), "READING" \in f.mode, NEW c
    PROVE  Tidy(ungetc(f, c).f)
<1> DEFINE g == [f EXCEPT !.mode = @ \cup {"UNGOT"}]
           back == [g EXCEPT !.bufpos = @ - 1, !.buf = Put(@, f.bufpos - 1, <<c>>),
                             !.pushed = @ + 1]
           first == [g EXCEPT !.bufread = 1, !.buf = Put(@, 0, <<c>>), !.pushed = @ + 1]
<1>1. f \in FILE(f.buf)
  BY Fields
<1>2. "WRITING" \notin f.mode
  BY DEF Good, Safe
<1>3. StopWriting(f) = f
  BY <1>2 DEF StopWriting
<1>4. ungetc(f, c).f \in {f, g, back, first}
  BY <1>3 DEF ungetc
<1>5. /\ g.mode = f.mode \cup {"UNGOT"} /\ back.mode = f.mode \cup {"UNGOT"}
      /\ first.mode = f.mode \cup {"UNGOT"}
  BY <1>1 DEF FILE
<1> HIDE DEF g, back, first
<1>6. ASSUME NEW h \in {f, g, back, first} PROVE Tidy(h)
  <2>1. "WRITING" \notin h.mode /\ "READING" \in h.mode
    BY <1>2, <1>5
  <2> QED
    BY <2>1, ReadTidy
<1> QED
  BY <1>4, <1>6

-----------------------------------------------------------------------------
(* Moving: after fflush, or in a buffer of input, there is no output.      *)
LEMMA LseekTidy ==
    ASSUME NEW f, Good(f), Tidy(f), NEW offset, NEW ref
    PROVE  Tidy(lseek(f, offset, ref).f)
<1> DEFINE to == CASE ref = "SET" -> offset
                   [] ref = "CUR" -> f.at + offset
                   [] ref = "END" -> Len(f.data) + offset
           g == [f EXCEPT !.at = to]
<1>1. f \in FILE(f.buf)
  BY Fields
<1>2. lseek(f, offset, ref).f \in {f, g}
  BY DEF lseek
<1> HIDE DEF to
<1>3. g.bufread = f.bufread /\ g.bufpos = f.bufpos /\ g.buf = f.buf /\ g.mode = f.mode
  BY <1>1 DEF FILE
<1> HIDE DEF g
<1>4. Tidy(g)
  BY <1>3, TidyOnly
<1> QED
  BY <1>2, <1>4

(* fseek stays in a buffer of input, or flushes.                           *)
LEMMA FseekTidy ==
    ASSUME NEW f, Good(f), InFile(f), Tidy(f), NEW offset, NEW ref
    PROVE  Tidy(fseek(f, offset, ref).f)
<1> DEFINE absolute == IF ref = "CUR" THEN f.at + offset + f.bufpos - f.bufread ELSE offset
           flushed == fflush(f)
           g == [f EXCEPT !.bufpos = absolute - f.at + f.bufread]
<1>1. f \in FILE(f.buf)
  BY Fields
<1>2. Good(flushed.f) /\ Tidy(flushed.f)
  BY FlushFacts, FlushTidy
<1> HIDE DEF absolute, flushed
<1>3. \/ Fast(f, ref) /\ fseek(f, offset, ref).f = g
      \/ fseek(f, offset, ref).f \in {flushed.f, lseek(flushed.f, absolute, "SET").f,
                                      lseek(flushed.f, offset, ref).f}
  BY DEF fseek, absolute, flushed
<1>4. g.bufread = f.bufread /\ g.mode = f.mode
  BY <1>1 DEF FILE
<1> HIDE DEF g
<1>5. Fast(f, ref) => Tidy(g)
  <2>1. Fast(f, ref) => "READING" \in g.mode /\ "WRITING" \notin g.mode
    BY <1>4 DEF Fast, Good, Safe
  <2> QED
    BY <2>1, ReadTidy
<1>6. Tidy(lseek(flushed.f, absolute, "SET").f) /\ Tidy(lseek(flushed.f, offset, ref).f)
  BY <1>2, LseekTidy
<1> QED
  BY <1>2, <1>3, <1>5, <1>6

(* clearerr clears none of the flags that matter.                          *)
LEMMA ClearerrTidy ==
    ASSUME NEW f, Good(f), Tidy(f)
    PROVE  Tidy(clearerr(f))
<1> DEFINE g == clearerr(f)
<1>1. f \in FILE(f.buf)
  BY Fields
<1>2. /\ g.bufread = f.bufread /\ g.bufpos = f.bufpos /\ g.buf = f.buf
      /\ g.mode = f.mode \ {"EOF", "ERR"}
  BY <1>1 DEF clearerr, FILE
<1> HIDE DEF g
<1>3. \A x \in {"READING", "WRITING", "IOLBF", "IONBF"} : x \in g.mode <=> x \in f.mode
  BY <1>2
<1> QED
  BY <1>2, <1>3, TidyOnly DEF g

LEMMA RewindTidy ==
    ASSUME NEW f, Good(f), InFile(f), Tidy(f)
    PROVE  Tidy(rewind(f))
<1>1. Good(fseek(f, 0, "SET").f)
  BY FseekFacts
<1>2. Tidy(fseek(f, 0, "SET").f)
  BY FseekTidy
<1> QED
  BY <1>1, <1>2, ClearerrTidy DEF rewind

LEMMA FtellTidy ==
    ASSUME NEW f, Good(f), InFile(f)
    PROVE  Tidy(ftell(f).f)
BY FlushTidy DEF ftell

(* And setvbuf replaces an empty buffer.                                   *)
LEMMA NewBufferTidy ==
    ASSUME NEW f, Good(f), InFile(f), NEW kind \in {{}, {"IOLBF"}, {"IONBF"}}, NEW size
    PROVE  Tidy(NewBuffer(f, kind, size))
<1> DEFINE g == fflush(f).f
           h == [g EXCEPT !.bufend = IF kind = {"IONBF"} THEN UNBUF ELSE size, !.buf = <<>>,
                          !.mode = (@ \ {"IOLBF", "IONBF"}) \cup kind]
<1>1. IsEmptied(g) /\ g \in FILE(g.buf)
  BY FlushFacts, Fields
<1>2. NewBuffer(f, kind, size) = h
  BY DEF NewBuffer
<1> HIDE DEF g
<1>3. h.bufread = 0 /\ h.mode = (g.mode \ {"IOLBF", "IONBF"}) \cup kind
  BY <1>1 DEF FILE, IsEmptied
<1> HIDE DEF h
<1>4. "WRITING" \notin h.mode
  BY <1>1, <1>3 DEF IsEmptied
<1> QED
  BY <1>2, <1>3, <1>4, ReadTidy

-----------------------------------------------------------------------------
(* The end of a call leaves the four fields alone.                         *)
LEMMA FinishTidy ==
    ASSUME NEW f, Good(f), Tidy(f), NEW what, Finish(f, what)
    PROVE  Tidy(fp')
<1> DEFINE g == [f EXCEPT !.room = 0, !.take = 0]
<1>1. f \in FILE(f.buf)
  BY Fields
<1>2. g.bufread = f.bufread /\ g.bufpos = f.bufpos /\ g.buf = f.buf /\ g.mode = f.mode
  BY <1>1 DEF FILE
<1>3. fp' = g
  BY DEF Finish
<1> HIDE DEF g
<1> QED
  BY <1>2, <1>3, TidyOnly

(* The first state: nothing is stored.                                     *)
LEMMA InitTidy == Init => Tidy(fp)
<1> SUFFICES ASSUME Init PROVE Tidy(fp)
  OBVIOUS
<1>1. fp.mode = Access \cup InitialMode /\ fp.bufread = 0
  BY DEF Init, Opened
<1>2. "WRITING" \notin fp.mode
  BY <1>1, StdioAssumption
<1> QED
  BY <1>1, <1>2, ReadTidy

(* Every step, when ungetc is called only on a stream that reads.          *)
LEMMA NextTidy ==
    ASSUME ~UngetAnywhere
    PROVE  Inv /\ Tidy(fp) /\ [Next]_vars => Tidy(fp)'
<1> SUFFICES ASSUME Inv, Tidy(fp), [Next]_vars PROVE Tidy(fp')
  BY DEF Tidy, Lines
<1>1. CASE UNCHANGED vars
  BY <1>1 DEF vars
<1>2. CASE Next
  <2>1. PICK room \in Nat, take \in Int : Acts(System(room, take))
    BY <1>2, CallMade
  <2> DEFINE f == System(room, take)
  <2>2. Good(f) /\ InFile(f)
    BY <2>1, SystemFacts
  <2>3. Tidy(f)
    <3>1. fp \in FILE(fp.buf)
      BY Fields DEF Inv
    <3>2. /\ f.bufread = fp.bufread /\ f.bufpos = fp.bufpos /\ f.buf = fp.buf
          /\ f.mode = fp.mode
      BY <3>1 DEF System, FILE
    <3> HIDE DEF f
    <3> QED
      BY <3>2, TidyOnly
  <2> HIDE DEF f
  <2>4. ASSUME NEW c \in Byte, Putc(f, c) \/ Fputc(f, c) PROVE Tidy(fp')
    BY <2>2, <2>3, <2>4, PutcFacts, FputcFacts, PutcTidy, FputcTidy, FinishTidy DEF Putc, Fputc
  <2>5. ASSUME NEW c \in Byte, Ungetc(f, c) PROVE Tidy(fp')
    <3>1. "READING" \in f.mode /\ \E what : Finish(ungetc(f, c).f, what)
      BY <2>5 DEF Ungetc
    <3> QED
      BY <2>2, <2>3, <3>1, UngetcFacts, UngetcTidy, FinishTidy
  <2>6. ASSUME NEW n \in WriteCounts, NEW s \in [1 .. n -> Byte], Fwrite(f, s) PROVE Tidy(fp')
    <3>1. n \in Nat \ {0}
      BY StdioAssumption
    <3>2. s \in Seq(Byte) /\ s # <<>>
      BY <3>1, SeqDef, EmptySeq
    <3>3. Good(fwrite(f, s).f) /\ Tidy(fwrite(f, s).f)
      BY <2>2, <2>3, <3>2, FwriteFacts, FwriteTidy
    <3> QED
      BY <2>6, <3>3, FinishTidy DEF Fwrite
  <2>7. ASSUME Getc(f) \/ Fgetc(f) PROVE Tidy(fp')
    BY <2>2, <2>3, <2>7, GetcFacts, FgetcFacts, GetcTidy, FgetcTidy, FinishTidy DEF Getc, Fgetc
  <2>8. ASSUME NEW n \in ReadCounts, Fread(f, n) PROVE Tidy(fp')
    <3>1. n \in Nat
      BY StdioAssumption
    <3> QED
      BY <2>2, <2>3, <2>8, <3>1, FreadFacts, FreadTidy, FinishTidy DEF Fread
  <2>9. ASSUME Fflush(f) \/ Ftell(f) PROVE Tidy(fp')
    BY <2>2, <2>3, <2>9, FlushFacts, FtellFacts, FlushTidy, FtellTidy, FinishTidy
       DEF Fflush, Ftell
  <2>10. ASSUME Rewind(f) \/ Clearerr(f) PROVE Tidy(fp')
    BY <2>2, <2>3, <2>10, RewindFacts, ClearerrFacts, RewindTidy, ClearerrTidy, FinishTidy
       DEF Rewind, Clearerr
  <2>11. ASSUME NEW offset \in Offsets, NEW ref \in {"SET", "CUR", "END"},
                Fseek(f, offset, ref)
         PROVE  Tidy(fp')
    <3>1. offset \in Int
      BY StdioAssumption
    <3> QED
      BY <2>2, <2>3, <2>11, <3>1, FseekFacts, FseekTidy, FinishTidy DEF Fseek
  <2>12. ASSUME NEW kind \in {{}, {"IOLBF"}, {"IONBF"}}, NEW size \in BufSizes,
                Setvbuf(f, kind, size)
         PROVE  Tidy(fp')
    <3>1. size \in Nat \ {0}
      BY StdioAssumption
    <3> QED
      BY <2>2, <2>12, <3>1, NewBufferFacts, NewBufferTidy, FinishTidy DEF Setvbuf
  <2> QED
    BY <2>1, <2>4, <2>5, <2>6, <2>7, <2>8, <2>9, <2>10, <2>11, <2>12 DEF Acts, f
<1> QED
  BY <1>1, <1>2

(* Whenever no call is under way, an unbuffered stream has no output       *)
(* pending and a line buffered one no finished line, whatever the buffer   *)
(* holds and wherever write() stopped.  It needs that ungetc is called     *)
(* only on a stream that reads: a character pushed back before anything    *)
(* was read stays in the buffer when output is stored behind it.           *)
THEOREM StdioLines == ASSUME ~UngetAnywhere PROVE Spec => []LinesVisible
<1>1. Tidy(fp) => LinesVisible
  BY DEF Tidy, Lines, LinesVisible
<1>2. Inv /\ Tidy(fp) /\ [Next]_vars => Inv' /\ Tidy(fp)'
  BY NextInv, NextTidy
<1> QED
  BY <1>1, <1>2, InitInv, InitTidy, PTL DEF Spec

-----------------------------------------------------------------------------
(* The refinement of Stream.  For each operation a lemma ...Sees says of   *)
(* any FILE what it does to what the user sees (Cont, Place, Back), and    *)
(* one ...Seen that this is a step of Stream.                              *)

(* What a FILE looks like to its user, for any FILE and not only fp.       *)
Out(f) == "WRITING" \in f.mode
Cont(f) == IF Out(f) THEN WriteAt(f.data, f.at, Cells(f.buf, 0, f.bufpos)) ELSE f.data
Place(f) == IF Out(f) THEN f.at + f.bufpos ELSE f.at - (f.bufread - f.bufpos) + f.pushed
Back(f) == IF Out(f) THEN <<>> ELSE Cells(f.buf, f.bufpos, f.pushed)

Over(file, at, s) == Unbuffered!Overlay(file, at, s)

(* What Stream's Overlay makes of a file, element by element.              *)
LEMMA OverElements ==
    ASSUME NEW file \in Seq(Byte), NEW at \in Nat, at <= Len(file), NEW s \in Seq(Byte)
    PROVE  LET o == Over(file, at, s) IN
           /\ o \in Seq(Byte) /\ Len(o) = Larger(at + Len(s), Len(file))
           /\ \A i \in 1 .. Len(o) : o[i] = IF i \in at + 1 .. at + Len(s) THEN s[i - at] ELSE file[i]
<1> DEFINE o == Over(file, at, s)
           n == IF at + Len(s) > Len(file) THEN at + Len(s) ELSE Len(file)
<1>0. Len(s) \in Nat /\ Len(file) \in Nat /\ n \in Nat
  BY LenProperties
<1>1. o = [i \in 1 .. n |-> IF i \in at + 1 .. at + Len(s) THEN s[i - at] ELSE file[i]]
  BY DEF Over, Unbuffered!Overlay
<1>2. n = Larger(at + Len(s), Len(file))
  BY <1>0 DEF Larger
<1> HIDE DEF n, o
<1>3. ASSUME NEW i \in 1 .. n
      PROVE  (IF i \in at + 1 .. at + Len(s) THEN s[i - at] ELSE file[i]) \in Byte
  <2>1. CASE i \in at + 1 .. at + Len(s)
    <3>1. i - at \in 1 .. Len(s)
      BY <1>0, <2>1
    <3> QED
      BY <2>1, <3>1, ElementOfSeq
  <2>2. CASE i \notin at + 1 .. at + Len(s)
    <3>1. i \in 1 .. Len(file)
      BY <1>0, <1>2, <2>2 DEF Larger
    <3> QED
      BY <2>2, <3>1, ElementOfSeq
  <2> QED
    BY <2>1, <2>2
<1>4. o \in [1 .. n -> Byte]
  BY <1>1, <1>3
<1>5. o \in Seq(Byte) /\ Len(o) = n
  BY <1>0, <1>4, SeqDef, LenProperties
<1> QED
  BY <1>1, <1>2, <1>5 DEF o

(* Sequences of characters with the same elements are the same.            *)
LEMMA SameSequence ==
    ASSUME NEW s \in Seq(Byte), NEW t \in Seq(Byte), Len(s) = Len(t),
           \A i \in 1 .. Len(s) : s[i] = t[i]
    PROVE  s = t
BY SeqEqual

(* Stdio's WriteAt, made of three pieces, is Stream's Overlay.             *)
LEMMA WriteAtOver ==
    ASSUME NEW file \in Seq(Byte), NEW at \in Nat, at <= Len(file), NEW s \in Seq(Byte)
    PROVE  WriteAt(file, at, s) = Over(file, at, s)
<1> DEFINE a == SubSeq(file, 1, at)
           b == SubSeq(file, at + Len(s) + 1, Len(file))
           w == (a \o s) \o b
           o == Over(file, at, s)
<1>0. Len(s) \in Nat /\ Len(file) \in Nat
  BY LenProperties
<1>1. a \in Seq(Byte) /\ Len(a) = at /\ \A i \in 1 .. at : a[i] = file[i]
  BY <1>0, SubSeqProperties, ElementOfSeq
<1>2. /\ b \in Seq(Byte) /\ Len(b) = Larger(Len(file) - (at + Len(s)), 0)
      /\ \A i \in 1 .. Len(b) : b[i] = file[at + Len(s) + i]
  <2>1. \A i \in at + Len(s) + 1 .. Len(file) : file[i] \in Byte
    BY <1>0, ElementOfSeq
  <2>2. /\ b \in Seq(Byte)
        /\ Len(b) = IF at + Len(s) + 1 <= Len(file) THEN Len(file) - (at + Len(s) + 1) + 1 ELSE 0
        /\ \A i \in 1 .. Len(file) - (at + Len(s) + 1) + 1 : b[i] = file[at + Len(s) + 1 + i - 1]
    BY <1>0, <2>1, SubSeqProperties
  <2>3. Len(b) = Larger(Len(file) - (at + Len(s)), 0)
    BY <1>0, <2>2 DEF Larger
  <2>4. ASSUME NEW i \in 1 .. Len(b) PROVE b[i] = file[at + Len(s) + i]
    <3>1. i \in 1 .. Len(file) - (at + Len(s) + 1) + 1 /\ at + Len(s) + 1 + i - 1 = at + Len(s) + i
      BY <1>0, <2>3, <2>4 DEF Larger
    <3> QED
      BY <2>2, <3>1
  <2> QED
    BY <2>2, <2>3, <2>4
<1> HIDE DEF a, b
<1>3. /\ a \o s \in Seq(Byte) /\ Len(a \o s) = at + Len(s)
      /\ \A i \in 1 .. at + Len(s) : (a \o s)[i] = IF i <= at THEN a[i] ELSE s[i - at]
  BY <1>0, <1>1, ConcatProperties
<1> DEFINE c == a \o s
<1>4. c \in Seq(Byte) /\ Len(c) = at + Len(s)
  BY <1>3
<1> HIDE DEF c
<1>5. /\ c \o b \in Seq(Byte) /\ Len(c \o b) = Len(c) + Len(b)
      /\ \A i \in 1 .. Len(c) + Len(b) : (c \o b)[i] = IF i <= Len(c) THEN c[i] ELSE b[i - Len(c)]
  <2>1. b \in Seq(Byte) /\ c \in Seq(Byte)
    BY <1>2, <1>4
  <2> QED
    BY <2>1, ConcatProperties
<1>6. w = c \o b
  BY DEF c
<1> HIDE DEF w
<1>7. /\ o \in Seq(Byte) /\ Len(o) = Larger(at + Len(s), Len(file))
      /\ \A i \in 1 .. Len(o) : o[i] = IF i \in at + 1 .. at + Len(s) THEN s[i - at] ELSE file[i]
  BY OverElements
<1> HIDE DEF o
<1>11. Len(w) = at + Len(s) + Len(b) /\ Len(b) = Larger(Len(file) - (at + Len(s)), 0)
  BY <1>2, <1>4, <1>5, <1>6
<1>12. Len(o) = Larger(at + Len(s), Len(file))
  BY <1>7
<1>8. w \in Seq(Byte) /\ Len(w) = Len(o)
  <2>1. w \in Seq(Byte)
    BY <1>5, <1>6
  <2>2. CASE at + Len(s) > Len(file)
    <3>1. Larger(Len(file) - (at + Len(s)), 0) = 0 /\ Larger(at + Len(s), Len(file)) = at + Len(s)
      BY <1>0, <2>2 DEF Larger
    <3> QED
      BY <1>0, <1>11, <1>12, <2>1, <3>1
  <2>3. CASE ~(at + Len(s) > Len(file))
    <3>1. /\ Larger(Len(file) - (at + Len(s)), 0) = Len(file) - (at + Len(s))
          /\ Larger(at + Len(s), Len(file)) = Len(file)
      BY <1>0, <2>3 DEF Larger
    <3> QED
      BY <1>0, <1>11, <1>12, <2>1, <3>1
  <2> QED
    BY <2>2, <2>3
<1>9. ASSUME NEW i \in 1 .. Len(w) PROVE w[i] = o[i]
  <2>0. i \in Nat /\ Len(w) = at + Len(s) + Len(b) /\ Len(b) \in Nat
    <3>1. Len(b) \in Nat
      <4>1. b \in Seq(Byte)
        BY <1>2
      <4> QED
        BY <4>1, LenProperties
    <3>2. Len(w) = at + Len(s) + Len(b)
      BY <1>11
    <3>3. i \in Nat
      OBVIOUS
    <3> QED
      BY <3>1, <3>2, <3>3
  <2>1. CASE i <= at
    <3>1. i \in 1 .. at /\ i \in 1 .. at + Len(s) /\ i \notin at + 1 .. at + Len(s)
          /\ i \in 1 .. Len(c) + Len(b) /\ i <= Len(c) /\ i \in 1 .. Len(o)
      BY <1>0, <1>4, <1>8, <2>0, <2>1
    <3>2. w[i] = c[i] /\ c[i] = a[i]
      <4>1. w[i] = c[i]
        BY <1>5, <1>6, <3>1
      <4>2. (a \o s)[i] = a[i]
        BY <1>3, <2>1, <3>1
      <4> QED
        BY <4>1, <4>2 DEF c
    <3> QED
      BY <1>1, <1>7, <3>1, <3>2
  <2>2. CASE i > at /\ i <= at + Len(s)
    <3>1. i \in 1 .. at + Len(s) /\ i \in at + 1 .. at + Len(s)
          /\ i \in 1 .. Len(c) + Len(b) /\ i <= Len(c) /\ i \in 1 .. Len(o)
      BY <1>0, <1>4, <1>8, <2>0, <2>2
    <3>2. w[i] = c[i] /\ c[i] = s[i - at]
      <4>1. w[i] = c[i]
        BY <1>5, <1>6, <3>1
      <4>2. (a \o s)[i] = s[i - at]
        BY <1>3, <2>0, <2>2, <3>1
      <4> QED
        BY <4>1, <4>2 DEF c
    <3> QED
      BY <1>7, <3>1, <3>2
  <2>3. CASE i > at + Len(s)
    <3>1. i - (at + Len(s)) \in 1 .. Len(b) /\ at + Len(s) + (i - (at + Len(s))) = i
      BY <1>0, <2>0, <2>3
    <3>2. b[i - (at + Len(s))] = file[i]
      BY <1>2, <3>1
    <3>3. w[i] = b[i - Len(c)]
      BY <1>0, <1>4, <1>5, <1>6, <2>0, <2>3
    <3>4. o[i] = file[i]
      BY <1>0, <1>7, <1>8, <2>3
    <3> QED
      BY <1>4, <3>2, <3>3, <3>4
  <2> QED
    BY <1>0, <2>0, <2>1, <2>2, <2>3
<1>10. w = o
  BY <1>7, <1>8, <1>9, SameSequence
<1> QED
  BY <1>10 DEF WriteAt, w, o, a, b

(* Writing nothing changes nothing.                                        *)
LEMMA OverNothing ==
    ASSUME NEW file \in Seq(Byte), NEW at \in Nat, at <= Len(file)
    PROVE  Over(file, at, <<>>) = file
<1> DEFINE o == Over(file, at, <<>>)
<1>1. <<>> \in Seq(Byte) /\ Len(<<>>) = 0 /\ Len(file) \in Nat
  BY LenProperties, EmptySeq
<1> DEFINE none == <<>>
<1>5. none \in Seq(Byte)
  BY <1>1
<1>7. Len(none) = 0
  BY <1>1
<1> HIDE DEF none
<1>2. /\ Over(file, at, none) \in Seq(Byte)
      /\ Len(Over(file, at, none)) = Larger(at + Len(none), Len(file))
      /\ \A i \in 1 .. Len(Over(file, at, none)) :
            Over(file, at, none)[i] = IF i \in at + 1 .. at + Len(none) THEN none[i - at] ELSE file[i]
  BY <1>5, OverElements, ZenonT(30)
<1>6. o = Over(file, at, none)
  BY DEF none
<1> HIDE DEF o
<1>3. o \in Seq(Byte) /\ Len(o) = Len(file) /\ \A i \in 1 .. Len(o) : o[i] = file[i]
  BY <1>1, <1>2, <1>6, <1>7 DEF Larger
<1>4. o = file
  BY <1>3, SameSequence
<1> QED
  BY <1>4 DEF o

(* Writing on where the last writing ended is writing once.                *)
LEMMA OverOver ==
    ASSUME NEW file \in Seq(Byte), NEW at \in Nat, at <= Len(file),
           NEW s \in Seq(Byte), NEW t \in Seq(Byte)
    PROVE  Over(Over(file, at, s), at + Len(s), t) = Over(file, at, s \o t)
<1> DEFINE o == Over(file, at, s)
           end == at + Len(s)
           p == Over(o, end, t)
           st == s \o t
           q == Over(file, at, st)
<1>0. Len(s) \in Nat /\ Len(t) \in Nat /\ Len(file) \in Nat
  BY LenProperties
<1>1. /\ o \in Seq(Byte) /\ Len(o) = Larger(end, Len(file))
      /\ \A i \in 1 .. Len(o) : o[i] = IF i \in at + 1 .. end THEN s[i - at] ELSE file[i]
  BY OverElements
<1>2. end \in Nat /\ end <= Len(o)
  BY <1>0, <1>1 DEF Larger
<1> HIDE DEF o
<1>3. o \in Seq(Byte) /\ Len(o) \in Nat
  BY <1>1, LenProperties
<1>4. end = at + Len(s)
  OBVIOUS
<1> HIDE DEF end
<1>5. /\ p \in Seq(Byte) /\ Len(p) = Larger(end + Len(t), Len(o))
      /\ \A i \in 1 .. Len(p) : p[i] = IF i \in end + 1 .. end + Len(t) THEN t[i - end] ELSE o[i]
  BY <1>2, <1>3, OverElements
<1>6. /\ st \in Seq(Byte) /\ Len(st) = Len(s) + Len(t)
      /\ \A i \in 1 .. Len(s) + Len(t) : st[i] = IF i <= Len(s) THEN s[i] ELSE t[i - Len(s)]
  BY ConcatProperties
<1> HIDE DEF st
<1>7. st \in Seq(Byte)
  BY <1>6
<1>8. /\ q \in Seq(Byte) /\ Len(q) = Larger(at + Len(st), Len(file))
      /\ \A i \in 1 .. Len(q) : q[i] = IF i \in at + 1 .. at + Len(st) THEN st[i - at] ELSE file[i]
  BY <1>7, OverElements
<1> HIDE DEF p, q
<1>9. /\ Len(o) = Larger(end, Len(file)) /\ Len(p) = Larger(end + Len(t), Len(o))
      /\ Len(st) = Len(s) + Len(t) /\ Len(q) = Larger(at + Len(st), Len(file))
  BY <1>1, <1>5, <1>6, <1>8
<1>10. Len(p) = Len(q) /\ Len(p) \in Nat
  <2>1. Len(p) \in Nat
    BY <1>5, LenProperties
  <2>2. Len(st) = Len(s) + Len(t) /\ at + Len(st) = end + Len(t)
    BY <1>0, <1>4, <1>9
  <2>3. Larger(end + Len(t), Larger(end, Len(file))) = Larger(end + Len(t), Len(file))
    BY <1>0, <1>2 DEF Larger
  <2> QED
    BY <1>9, <2>1, <2>2, <2>3
<1>11. ASSUME NEW i \in 1 .. Len(p) PROVE p[i] = q[i]
  <2>0. i \in Nat /\ i # 0 /\ i <= Len(p) /\ i <= Len(q)
    BY <1>10
  <2>1. p[i] = IF i \in end + 1 .. end + Len(t) THEN t[i - end] ELSE o[i]
    BY <1>5
  <2>2. q[i] = IF i \in at + 1 .. at + Len(st) THEN st[i - at] ELSE file[i]
    BY <1>8, <1>10
  <2>3. CASE i <= end
    <3>1. i \in 1 .. Len(o) /\ i \notin end + 1 .. end + Len(t)
      BY <1>2, <1>3, <2>0, <2>3
    <3>2. p[i] = IF i \in at + 1 .. end THEN s[i - at] ELSE file[i]
      BY <1>1, <2>1, <3>1
    <3>3. CASE i <= at
      <4>1. i \notin at + 1 .. end /\ i \notin at + 1 .. at + Len(st)
        BY <3>3
      <4> QED
        BY <2>2, <3>2, <4>1
    <3>4. CASE i > at
      <4>1. i \in at + 1 .. end /\ i \in at + 1 .. at + Len(st)
        BY <1>0, <1>4, <1>9, <2>0, <2>3, <3>4
      <4>2. i - at \in 1 .. Len(s) + Len(t) /\ i - at <= Len(s)
        BY <1>0, <1>4, <2>0, <2>3, <3>4
      <4>3. st[i - at] = s[i - at]
        BY <1>6, <4>2
      <4> QED
        BY <2>2, <3>2, <4>1, <4>3
    <3> QED
      BY <2>0, <3>3, <3>4
  <2>4. CASE i > end /\ i <= end + Len(t)
    <3>1. i \in end + 1 .. end + Len(t) /\ i \in at + 1 .. at + Len(st)
      BY <1>0, <1>2, <1>4, <1>9, <2>0, <2>4
    <3>2. i - at \in 1 .. Len(s) + Len(t) /\ ~(i - at <= Len(s)) /\ (i - at) - Len(s) = i - end
      BY <1>0, <1>4, <2>0, <2>4
    <3>3. st[i - at] = t[i - end]
      BY <1>6, <3>2
    <3> QED
      BY <2>1, <2>2, <3>1, <3>3
  <2>5. CASE i > end + Len(t)
    <3>1. i \notin end + 1 .. end + Len(t) /\ i \notin at + 1 .. at + Len(st) /\ i \notin at + 1 .. end
      BY <1>0, <1>2, <1>4, <1>9, <2>0, <2>5
    <3>2. i \in 1 .. Len(o)
      BY <1>0, <1>2, <1>3, <1>9, <2>0, <2>5 DEF Larger
    <3>3. o[i] = file[i]
      BY <1>1, <3>1, <3>2
    <3> QED
      BY <2>1, <2>2, <3>1, <3>3
  <2> QED
    BY <1>0, <1>2, <2>0, <2>3, <2>4, <2>5
<1>12. p = q
  BY <1>5, <1>8, <1>10, <1>11, SameSequence
<1> QED
  BY <1>12 DEF p, q, o, st, end

-----------------------------------------------------------------------------
(* What is unread in the buffer, but for what ungetc put there, is what    *)
(* the file has in front of the descriptor; and while the descriptor is    *)
(* where the buffer ends, all of the buffer is the start of the file, so   *)
(* that rewind may stay in it.                                             *)
Matched(f) ==
    /\ "READING" \notin f.mode => f.bufread = 0 /\ f.pushed = 0
    /\ "READING" \in f.mode =>
         /\ f.bufpos + f.pushed <= f.bufread
         /\ \A i \in f.bufpos + f.pushed .. f.bufread - 1 : f.buf[i] = f.data[f.at - f.bufread + i + 1]
         /\ f.pushed > 0 => "UNGOT" \in f.mode
         /\ "UNGOT" \notin f.mode /\ f.at = f.bufread =>
              \A i \in 0 .. f.bufread - 1 : f.buf[i] = f.data[i + 1]

Fine(f) == Good(f) /\ InFile(f) /\ Matched(f)

(* Where a stream may be once what was pushed back is dropped; and what a  *)
(* call that reads and writes nothing may do to it.                        *)
PlacesOf(f) == {p \in {Place(f), Place(f) - Len(Back(f))} : p >= 0}
Same(f, g) == Cont(g) = Cont(f) /\ Place(g) = Place(f) /\ Back(g) = Back(f)
Dropped(f, g) == Cont(g) = Cont(f) /\ Place(g) \in PlacesOf(f) /\ Back(g) = <<>>
Lost(f) == "ERR" \in f.mode

(* No cells are no characters.                                             *)
LEMMA NoCells ==
    ASSUME NEW buf, NEW i \in Int
    PROVE  Cells(buf, i, 0) = <<>>
<1>1. Cells(buf, i, 0) \in Seq(Byte) /\ Len(Cells(buf, i, 0)) = 0
  BY CellsString
<1>2. <<>> \in Seq(Byte) /\ Len(<<>>) = 0
  BY EmptySeq
<1> QED
  BY <1>1, <1>2, SameSequence

(* A stream that is not reading is its file with what is pending in place. *)
LEMMA OutView ==
    ASSUME NEW f, Fine(f), "READING" \notin f.mode
    PROVE  LET s == Cells(f.buf, 0, f.bufpos) IN
           /\ s \in Seq(Byte) /\ Len(s) = f.bufpos
           /\ Cont(f) = Over(f.data, f.at, s) /\ Place(f) = f.at + f.bufpos /\ Back(f) = <<>>
           /\ f.bufread = 0 /\ f.pushed = 0
<1> DEFINE s == Cells(f.buf, 0, f.bufpos)
<1>0. Good(f) /\ f.at <= Len(f.data) /\ f.bufread = 0 /\ f.pushed = 0
  BY DEF Fine, InFile, Matched
<1>1. f.bufpos \in Nat /\ f.at \in Nat /\ f.data \in Seq(Byte)
  BY <1>0, Fields
<1>2. s \in Seq(Byte) /\ Len(s) = f.bufpos
  <2>1. \A j \in 0 .. 0 + f.bufpos - 1 : f.buf[j] \in Byte
    BY <1>0, <1>1 DEF Good, Typed, Larger
  <2> QED
    BY <2>1, <1>1, CellsString
<1> HIDE DEF s
<1>3. CASE Out(f)
  <2>1. Cont(f) = Over(f.data, f.at, s)
    BY <1>0, <1>1, <1>2, <1>3, WriteAtOver DEF Cont, s
  <2> QED
    BY <1>0, <1>2, <1>3, <2>1 DEF Place, Back, s
<1>4. CASE ~Out(f)
  <2>1. f.bufpos = 0
    BY <1>0, <1>1, <1>4 DEF Good, Safe, Out
  <2>2. s = <<>>
    BY <2>1, NoCells DEF s
  <2>3. Cont(f) = Over(f.data, f.at, s)
    BY <1>0, <1>1, <1>4, <2>2, OverNothing DEF Cont
  <2>4. Place(f) = f.at + f.bufpos /\ Back(f) = <<>>
    BY <1>0, <1>1, <1>4, <2>1, NoCells DEF Place, Back
  <2> QED
    BY <1>0, <1>2, <2>3, <2>4 DEF s
<1> QED
  BY <1>3, <1>4

(* One that is reading is its file; what was pushed back is in front of    *)
(* where the descriptor goes when the buffer is dropped, or behind.        *)
LEMMA InView ==
    ASSUME NEW f, Fine(f), "READING" \in f.mode
    PROVE  /\ ~Out(f) /\ Cont(f) = f.data /\ Back(f) = Cells(f.buf, f.bufpos, f.pushed)
           /\ Place(f) = f.at - (f.bufread - f.bufpos) + f.pushed /\ Place(f) \in Nat
           /\ Back(f) \in Seq(Byte) /\ Len(Back(f)) = f.pushed
           /\ f.bufpos + f.pushed <= f.bufread /\ f.bufread <= f.at
           /\ f.at - (f.bufread - f.bufpos) \in PlacesOf(f)
<1>0. Good(f) /\ f.at <= Len(f.data) /\ f.bufpos + f.pushed <= f.bufread
  BY DEF Fine, InFile, Matched
<1>1. f.bufpos \in Nat /\ f.at \in Nat /\ f.data \in Seq(Byte) /\ f.bufread \in Nat /\ f.pushed \in Nat
  BY <1>0, Fields
<1>2. ~Out(f) /\ f.bufread <= f.at
  BY <1>0 DEF Good, Safe, Out
<1>3. Cells(f.buf, f.bufpos, f.pushed) \in Seq(Byte) /\ Len(Cells(f.buf, f.bufpos, f.pushed)) = f.pushed
  <2>1. \A j \in f.bufpos .. f.bufpos + f.pushed - 1 : f.buf[j] \in Byte
    BY <1>0, <1>1 DEF Good, Typed, Larger
  <2> QED
    BY <1>1, <2>1, CellsString, SMTT(30)
<1>4. /\ Cont(f) = f.data /\ Back(f) = Cells(f.buf, f.bufpos, f.pushed)
      /\ Place(f) = f.at - (f.bufread - f.bufpos) + f.pushed
  BY <1>2 DEF Cont, Back, Place
<1>5. Place(f) \in Nat /\ f.at - (f.bufread - f.bufpos) >= 0
      /\ f.at - (f.bufread - f.bufpos) = Place(f) - Len(Back(f))
  BY <1>0, <1>1, <1>2, <1>3, <1>4
<1> QED
  BY <1>0, <1>2, <1>3, <1>4, <1>5 DEF PlacesOf

(* An emptied stream is its file.                                          *)
LEMMA EmptiedView ==
    ASSUME NEW g, Good(g), InFile(g), IsEmptied(g), g.pushed = 0
    PROVE  Fine(g) /\ Cont(g) = g.data /\ Place(g) = g.at /\ Back(g) = <<>>
<1>1. "READING" \notin g.mode /\ ~Out(g) /\ g.bufpos = 0 /\ g.bufread = 0
  BY DEF IsEmptied, Out
<1>2. Matched(g)
  BY <1>1 DEF Matched
<1>3. g.at \in Nat
  BY Fields
<1> QED
  BY <1>1, <1>2, <1>3, NoCells DEF Fine, Cont, Place, Back

(* fflush loses something and says so, or leaves the stream as it was but  *)
(* for what was pushed back.                                               *)
LEMMA FlushSees ==
    ASSUME NEW f, Fine(f)
    PROVE  LET r == fflush(f) IN
           /\ Fine(r.f) /\ IsEmptied(r.f) /\ r.f.pushed = 0
           /\ r.rv = EOF => Lost(r.f)
           /\ Lost(f) => Lost(r.f)
           /\ Lost(r.f) \/ Dropped(f, r.f)
           /\ ~Lost(r.f) => /\ r.f.data = Cont(f)
                            /\ "READING" \in f.mode => r.f.at = f.at - (f.bufread - f.bufpos)
                            /\ "READING" \notin f.mode => r.f.at = Place(f)
<1> DEFINE r == fflush(f)
<1>0. Good(f) /\ InFile(f)
  BY DEF Fine
<1>1. /\ f \in FILE(f.buf) /\ f.bufpos \in Nat /\ f.bufread \in Nat /\ f.at \in Nat
      /\ f.data \in Seq(Byte) /\ f.room \in Nat
  BY <1>0, Fields
<1>2. Good(r.f) /\ InFile(r.f) /\ IsEmptied(r.f)
  BY <1>0, FlushFacts
<1> SUFFICES /\ r.f.pushed = 0
             /\ r.rv = EOF => Lost(r.f)
             /\ Lost(f) => Lost(r.f)
             /\ ~Lost(r.f) => /\ r.f.data = Cont(f)
                              /\ "READING" \in f.mode => r.f.at = f.at - (f.bufread - f.bufpos)
                              /\ "READING" \notin f.mode => r.f.at = Place(f)
  <2> HIDE DEF r
  <2>1. Fine(r.f) /\ Cont(r.f) = r.f.data /\ Place(r.f) = r.f.at /\ Back(r.f) = <<>>
    BY <1>2, EmptiedView
  <2>2. ASSUME ~Lost(r.f) PROVE r.f.at \in PlacesOf(f)
    <3>1. CASE "READING" \in f.mode
      BY <2>2, <3>1, InView
    <3>2. CASE "READING" \notin f.mode
      <4>1. Place(f) >= 0
        BY <1>1, <3>2, OutView
      <4> QED
        BY <2>2, <3>2, <4>1 DEF PlacesOf
    <3> QED
      BY <3>1, <3>2
  <2> QED
    BY <1>2, <2>1, <2>2 DEF r, Dropped
<1>3. CASE "WRITING" \in f.mode
  <2> DEFINE s == Cells(f.buf, 0, f.bufpos)
             n == Smaller(Len(s), f.room)
             g == WriteOut(f, s)
  <2>1. "READING" \notin f.mode
    BY <1>0, <1>3 DEF Good, Safe
  <2>2. s \in Seq(Byte) /\ Len(s) = f.bufpos /\ Place(f) = f.at + f.bufpos
    BY <2>1, OutView
  <2>3. Cont(f) = WriteAt(f.data, f.at, s)
    BY <1>3 DEF Cont, Out
  <2>4. r.f = Emptied(g) /\ r.rv = IF f.bufpos > f.room THEN EOF ELSE 0
    BY <1>3 DEF fflush
  <2> HIDE DEF s, r
  <2>5. /\ g.data = WriteAt(f.data, f.at, SubSeq(s, 1, n)) /\ g.at = f.at + n
        /\ g.mode = IF n < Len(s) THEN f.mode \cup {"ERR"} ELSE f.mode
        /\ g = [f EXCEPT !.data = g.data, !.at = g.at, !.room = g.room, !.mode = g.mode]
    BY <1>1 DEF WriteOut, FILE
  <2> HIDE DEF g
  <2>6. /\ r.f.data = g.data /\ r.f.at = g.at /\ r.f.pushed = 0
        /\ r.f.mode = g.mode \ {"READING", "WRITING", "EOF", "UNGOT"}
    BY <1>1, <2>4, <2>5 DEF Emptied, FILE
  <2>7. n \in Nat /\ (n < Len(s) <=> f.bufpos > f.room)
    BY <1>1, <2>2 DEF Smaller
  <2>8. CASE f.bufpos > f.room
    BY <2>4, <2>5, <2>6, <2>7, <2>8 DEF Lost
  <2>9. CASE ~(f.bufpos > f.room)
    <3>1. n = Len(s)
      BY <1>1, <2>2, <2>9 DEF Smaller
    <3>2. SubSeq(s, 1, n) = s
      <4>1. \A i \in 1 .. Len(s) : s[i] \in Byte
        BY <2>2, ElementOfSeq
      <4>2. SubSeq(s, 1, Len(s)) \in Seq(Byte) /\ Len(SubSeq(s, 1, Len(s))) = Len(s)
            /\ \A i \in 1 .. Len(s) : SubSeq(s, 1, Len(s))[i] = s[i]
        BY <1>1, <2>2, <4>1, SubSeqProperties
      <4>3. SubSeq(s, 1, Len(s)) = s
        BY <2>2, <4>2, SameSequence
      <4> QED
        BY <3>1, <4>3
    <3>3. r.f.data = Cont(f) /\ r.f.at = Place(f)
      BY <2>2, <2>3, <2>5, <2>6, <3>1, <3>2
    <3>4. g.mode = f.mode
      BY <2>5, <2>7, <2>9
    <3> QED
      BY <2>1, <2>4, <2>6, <2>9, <3>3, <3>4 DEF Lost
  <2> QED
    BY <2>8, <2>9
<1>4. CASE "WRITING" \notin f.mode /\ "READING" \in f.mode
  <2>1. r.f = Emptied(SeekBack(f)) /\ r.rv = 0
    BY <1>4 DEF fflush
  <2> HIDE DEF r
  <2>2. /\ r.f.data = f.data /\ r.f.at = f.at - (f.bufread - f.bufpos) /\ r.f.pushed = 0
        /\ r.f.mode = f.mode \ {"READING", "WRITING", "EOF", "UNGOT"}
    BY <1>1, <2>1 DEF Emptied, SeekBack, FILE
  <2>3. Cont(f) = f.data
    BY <1>4, InView
  <2> QED
    BY <1>4, <2>1, <2>2, <2>3 DEF Lost
<1>5. CASE "WRITING" \notin f.mode /\ "READING" \notin f.mode
  <2>1. r.f = Emptied(f) /\ r.rv = 0
    BY <1>5 DEF fflush
  <2> HIDE DEF r
  <2>2. /\ r.f.data = f.data /\ r.f.at = f.at /\ r.f.pushed = 0
        /\ r.f.mode = f.mode \ {"READING", "WRITING", "EOF", "UNGOT"}
    BY <1>1, <2>1 DEF Emptied, FILE
  <2>3. Cont(f) = f.data
    BY <1>5 DEF Cont, Out
  <2>4. f.bufpos = 0 /\ Place(f) = f.at + f.bufpos
    <3>1. f.bufread = 0
      BY <1>5, OutView
    <3>2. f.bufpos = 0
      BY <1>0, <1>1, <1>5, <3>1 DEF Good, Safe
    <3> QED
      BY <1>5, <3>2, OutView
  <2> QED
    BY <1>1, <1>5, <2>1, <2>2, <2>3, <2>4 DEF Lost
<1> QED
  BY <1>3, <1>4, <1>5

-----------------------------------------------------------------------------
(* Writing.                                                                *)
Written(f, g, s) ==
    \E p \in PlacesOf(f) :
        Cont(g) = Over(Cont(f), p, s) /\ Place(g) = p + Len(s) /\ Back(g) = <<>>

(* What the views of a stream are made of.                                 *)
LEMMA FineView ==
    ASSUME NEW f, Fine(f)
    PROVE  /\ Cont(f) \in Seq(Byte) /\ Place(f) \in Nat /\ Back(f) \in Seq(Byte)
           /\ Place(f) \in PlacesOf(f)
<1>1. CASE "READING" \in f.mode
  <2>1. Cont(f) \in Seq(Byte)
    BY <1>1, InView, Fields DEF Fine
  <2> QED
    BY <1>1, <2>1, InView DEF PlacesOf
<1>2. CASE "READING" \notin f.mode
  <2>1. f.at \in Nat /\ f.data \in Seq(Byte) /\ f.bufpos \in Nat /\ f.at <= Len(f.data)
    BY Fields DEF Fine, InFile
  <2>2. Place(f) \in Nat /\ Back(f) = <<>>
    BY <1>2, <2>1, OutView
  <2>3. Back(f) \in Seq(Byte)
    BY <2>2, EmptySeq
  <2>4. Cont(f) \in Seq(Byte)
    <3> DEFINE s == Cells(f.buf, 0, f.bufpos)
    <3>1. s \in Seq(Byte) /\ Cont(f) = Over(f.data, f.at, s)
      BY <1>2, OutView
    <3> HIDE DEF s
    <3> QED
      BY <2>1, <3>1, OverElements
  <2> QED
    BY <2>2, <2>3, <2>4 DEF PlacesOf
<1> QED
  BY <1>1, <1>2

(* With nothing pushed back there is one place.                            *)
LEMMA OnePlace ==
    ASSUME NEW f, Place(f) \in Nat, Back(f) = <<>>
    PROVE  PlacesOf(f) = {Place(f)}
<1>1. Len(Back(f)) = 0
  BY EmptySeq
<1>2. Place(f) - Len(Back(f)) = Place(f) /\ Place(f) >= 0
  BY <1>1
<1> QED
  BY <1>2 DEF PlacesOf

(* An operation that drops what was pushed back and then does more: to its *)
(* user it is one step from where it began.                                *)
LEMMA AfterDropped ==
    ASSUME NEW f, NEW h, NEW g, Dropped(f, h), Fine(h)
    PROVE  /\ \A s : Written(h, g, s) => Written(f, g, s)
           /\ Dropped(h, g) => Dropped(f, g)
<1>1. PlacesOf(h) = {Place(h)} /\ Place(h) \in PlacesOf(f) /\ Cont(h) = Cont(f)
  BY FineView, OnePlace DEF Dropped
<1> QED
  BY <1>1 DEF Written, Dropped

(* Flushing after the characters were stored is not to be seen.            *)
LEMMA AfterWritten ==
    ASSUME NEW f, NEW h, NEW g, NEW s, Written(f, h, s), Fine(h), Dropped(h, g)
    PROVE  Written(f, g, s)
<1>1. Back(h) = <<>>
  BY DEF Written
<1>2. PlacesOf(h) = {Place(h)}
  BY <1>1, FineView, OnePlace
<1> QED
  BY <1>2 DEF Written, Dropped

(* The view does not depend on the other fields.                           *)
LEMMA ViewOnly ==
    ASSUME NEW f, NEW g,
           /\ g.bufpos = f.bufpos /\ g.bufread = f.bufread /\ g.buf = f.buf
           /\ g.data = f.data /\ g.at = f.at /\ g.pushed = f.pushed,
           \A x \in {"WRITING", "READING", "UNGOT"} : x \in g.mode <=> x \in f.mode
    PROVE  /\ Cont(g) = Cont(f) /\ Place(g) = Place(f) /\ Back(g) = Back(f)
           /\ PlacesOf(g) = PlacesOf(f) /\ (Matched(g) <=> Matched(f))
<1>1. Cont(g) = Cont(f) /\ Place(g) = Place(f) /\ Back(g) = Back(f)
  BY DEF Cont, Place, Back, Out
<1>2. Matched(g) <=> Matched(f)
  BY DEF Matched
<1> QED
  BY <1>1, <1>2 DEF PlacesOf

(* A string put behind the cells in use.                                   *)
LEMMA PutCells ==
    ASSUME NEW buf, NEW n \in Nat, NEW s \in Seq(Byte),
           \A j \in 0 .. n - 1 : j \in DOMAIN buf /\ buf[j] \in Byte
    PROVE  Cells(Put(buf, n, s), 0, n + Len(s)) = Cells(buf, 0, n) \o s
<1> DEFINE b == Put(buf, n, s)
           u == Cells(b, 0, n + Len(s))
           t == Cells(buf, 0, n)
           ts == t \o s
<1>0. Len(s) \in Nat
  BY LenProperties
<1>1. ASSUME NEW j \in 0 .. n + Len(s) - 1
      PROVE  b[j] = (IF j \in n .. n + Len(s) - 1 THEN s[j - n + 1] ELSE buf[j]) /\ b[j] \in Byte
  <2>1. j \in DOMAIN buf \cup (n .. n + Len(s) - 1)
    BY <1>0
  <2>2. b[j] = IF j \in n .. n + Len(s) - 1 THEN s[j - n + 1] ELSE buf[j]
    BY <2>1 DEF Put
  <2>3. CASE j \in n .. n + Len(s) - 1
    <3>1. j - n + 1 \in 1 .. Len(s)
      BY <1>0, <2>3
    <3> QED
      BY <2>2, <2>3, <3>1, ElementOfSeq
  <2>4. CASE j \notin n .. n + Len(s) - 1
    BY <1>0, <2>2, <2>4
  <2> QED
    BY <2>2, <2>3, <2>4
<1>2. t \in Seq(Byte) /\ Len(t) = n
  BY CellsString
<1>3. \A k \in 1 .. n : t[k] = buf[k - 1]
  BY DEF Cells
<1> HIDE DEF b, t
<1>4. u \in Seq(Byte) /\ Len(u) = n + Len(s)
  BY <1>0, <1>1, CellsString
<1>5. \A k \in 1 .. n + Len(s) : u[k] = b[k - 1]
  BY <1>0 DEF Cells
<1> HIDE DEF u
<1>6. /\ ts \in Seq(Byte) /\ Len(ts) = Len(t) + Len(s)
      /\ \A k \in 1 .. Len(t) + Len(s) : ts[k] = IF k <= Len(t) THEN t[k] ELSE s[k - Len(t)]
  BY <1>2, ConcatProperties
<1> HIDE DEF ts
<1>7. ASSUME NEW k \in 1 .. Len(u) PROVE u[k] = ts[k]
  <2>1. k \in Nat /\ k - 1 \in 0 .. n + Len(s) - 1 /\ k \in 1 .. n + Len(s) /\ k \in 1 .. Len(t) + Len(s)
    BY <1>0, <1>2, <1>4
  <2>2. u[k] = IF k - 1 \in n .. n + Len(s) - 1 THEN s[k - 1 - n + 1] ELSE buf[k - 1]
    BY <1>1, <1>5, <2>1
  <2>3. CASE k <= n
    <3>1. k - 1 \notin n .. n + Len(s) - 1 /\ k \in 1 .. n
      BY <2>1, <2>3
    <3> QED
      BY <1>2, <1>3, <1>6, <2>1, <2>2, <2>3, <3>1
  <2>4. CASE k > n
    <3>1. k - 1 \in n .. n + Len(s) - 1 /\ k - 1 - n + 1 = k - n /\ ~(k <= n)
      BY <1>0, <2>1, <2>4
    <3> QED
      BY <1>2, <1>6, <2>1, <2>2, <3>1
  <2> QED
    BY <2>1, <2>3, <2>4
<1>8. u = ts
  BY <1>0, <1>2, <1>4, <1>6, <1>7, SameSequence
<1> QED
  BY <1>8 DEF u, ts, b, t

(* A string stored in the buffer is one written.                           *)
LEMMA StoredSees ==
    ASSUME NEW f, Fine(f), "READING" \notin f.mode,
           NEW s \in Seq(Byte), s # <<>>, f.bufpos + Len(s) <= f.bufend
    PROVE  LET g == Stored(f, s) IN
           /\ Fine(g) /\ Written(f, g, s) /\ (Lost(g) <=> Lost(f))
<1> DEFINE g == Stored(f, s)
           b == Put(f.buf, f.bufpos, s)
           t == Cells(f.buf, 0, f.bufpos)
<1>0. Good(f) /\ InFile(f) /\ f.at <= Len(f.data)
  BY DEF Fine, InFile
<1>1. /\ f \in FILE(f.buf) /\ f.bufpos \in Nat /\ f.at \in Nat /\ f.data \in Seq(Byte)
      /\ f.mode \subseteq Modes /\ f.bufread \in Nat
  BY <1>0, Fields
<1>2. /\ t \in Seq(Byte) /\ Len(t) = f.bufpos /\ f.bufread = 0
      /\ Cont(f) = Over(f.data, f.at, t) /\ Place(f) = f.at + f.bufpos /\ Back(f) = <<>>
  BY OutView
<1>3. Good(g) /\ InFile(g) /\ "WRITING" \in g.mode /\ "READING" \notin g.mode
  BY <1>0, StoredFacts
<1>4. /\ g.buf = b /\ g.bufpos = f.bufpos + Len(s) /\ g.bufread = f.bufread /\ g.pushed = 0
      /\ g.data = f.data /\ g.at = f.at /\ g.mode = f.mode \cup {"WRITING"}
  BY <1>1 DEF Stored, FILE
<1> HIDE DEF g
<1>5. Fine(g) /\ (Lost(g) <=> Lost(f))
  BY <1>2, <1>3, <1>4 DEF Fine, Matched, Lost
<1>6. Cells(b, 0, f.bufpos + Len(s)) = t \o s
  <2>1. \A j \in 0 .. f.bufpos - 1 : j \in DOMAIN f.buf /\ f.buf[j] \in Byte
    BY <1>0, <1>1 DEF Good, Typed, Larger
  <2> QED
    BY <1>1, <2>1, PutCells
<1> HIDE DEF b, t
<1>7. t \o s \in Seq(Byte)
  BY <1>2, ConcatProperties
<1>8. Cont(g) = Over(f.data, f.at, t \o s)
  <2>1. Cont(g) = WriteAt(f.data, f.at, t \o s)
    BY <1>3, <1>4, <1>6 DEF Cont, Out
  <2> QED
    BY <1>0, <1>1, <1>7, <2>1, WriteAtOver
<1>9. Cont(g) = Over(Cont(f), Place(f), s)
  <2>1. Over(Over(f.data, f.at, t), f.at + Len(t), s) = Over(f.data, f.at, t \o s)
    <3>1. /\ f.data \in Seq(Byte) /\ f.at \in Nat /\ f.at <= Len(f.data)
          /\ t \in Seq(Byte) /\ s \in Seq(Byte)
      BY <1>0, <1>1, <1>2
    <3> QED
      BY <3>1, OverOver, SMTT(30)
  <2> QED
    BY <1>2, <1>8, <2>1
<1>10. Place(g) = Place(f) + Len(s) /\ Back(g) = <<>>
  <2>1. Len(s) \in Nat
    BY LenProperties
  <2> QED
    BY <1>1, <1>2, <1>3, <1>4, <2>1 DEF Place, Back, Out
<1>11. Place(f) \in PlacesOf(f)
  BY FineView
<1> QED
  BY <1>5, <1>9, <1>10, <1>11 DEF Written, g

(* Reading is over: what was read ahead is given back.                     *)
LEMMA StopReadingSees ==
    ASSUME NEW f, Fine(f)
    PROVE  LET r == StopReading(f) IN
           /\ Fine(r.f) /\ "READING" \notin r.f.mode /\ r.rv \in {0, EOF}
           /\ r.rv = EOF => Lost(r.f)
           /\ Lost(f) => Lost(r.f)
           /\ Lost(r.f) \/ Dropped(f, r.f)
<1>0. Good(f) /\ InFile(f)
  BY DEF Fine
<1>1. CASE "READING" \in f.mode
  <2> DEFINE r == fflush(f)
  <2>1. r.rv \in {0, EOF}
    BY <1>0, FlushFacts
  <2>2. /\ Fine(r.f) /\ IsEmptied(r.f) /\ (r.rv = EOF => Lost(r.f))
        /\ (Lost(f) => Lost(r.f)) /\ (Lost(r.f) \/ Dropped(f, r.f))
    BY FlushSees
  <2>3. StopReading(f) = r
    BY <1>1 DEF StopReading
  <2> HIDE DEF r
  <2> QED
    BY <2>1, <2>2, <2>3 DEF IsEmptied
<1>2. CASE "READING" \notin f.mode
  <2>1. Dropped(f, f)
    BY <1>2, OutView, FineView DEF Dropped
  <2> QED
    BY <1>2, <2>1 DEF StopReading
<1> QED
  BY <1>1, <1>2

(* Store, whether or not it writes the buffer out at once.                 *)
LEMMA StoreSees ==
    ASSUME NEW f, Fine(f), "READING" \notin f.mode, f.bufpos < f.bufend, NEW c \in Byte
    PROVE  LET r == Store(f, c) IN
           /\ Fine(r.f) /\ (Lost(f) => Lost(r.f)) /\ (r.rv = EOF => Lost(r.f)) /\ r.rv \in {c, EOF}
           /\ Lost(r.f) \/ Written(f, r.f, <<c>>)
<1> DEFINE s == <<c>>
           stored == Stored(f, s)
           flushed == IF Visible(f, s) THEN fflush(stored) ELSE Ret(stored, 0)
           r == Store(f, c)
<1>0. Good(f) /\ InFile(f)
  BY DEF Fine
<1>1. s \in Seq(Byte) /\ s # <<>> /\ f.bufpos + Len(s) <= f.bufend
  BY <1>0, OneChar, Fields
<1>2. Good(r.f)
  BY <1>0, StoreFacts
<1>3. r = IF flushed.rv = EOF THEN flushed ELSE Ret(MacroMay(flushed.f), c)
  BY DEF Store
<1> HIDE DEF s, r
<1>4. Fine(stored) /\ Written(f, stored, s) /\ (Lost(stored) <=> Lost(f))
  BY <1>1, StoredSees
<1> HIDE DEF stored
<1>5. /\ Fine(flushed.f) /\ (Lost(f) => Lost(flushed.f)) /\ (flushed.rv = EOF => Lost(flushed.f))
      /\ (Lost(flushed.f) \/ Written(f, flushed.f, s))
  <2>1. CASE Visible(f, s)
    <3>1. flushed = fflush(stored)
      BY <2>1
    <3> HIDE DEF flushed
    <3> QED
      BY <1>4, <3>1, FlushSees, AfterWritten
  <2>2. CASE ~Visible(f, s)
    BY <1>4, <2>2
  <2> QED
    BY <2>1, <2>2
<1> HIDE DEF flushed
<1>6. CASE flushed.rv = EOF
  BY <1>3, <1>5, <1>6 DEF s, r
<1>7. CASE flushed.rv # EOF
  <2> DEFINE g == MacroMay(flushed.f)
  <2>1. r.f = g /\ r.rv = c
    BY <1>3, <1>7
  <2>2. flushed.f \in FILE(flushed.f.buf)
    BY <1>5, Fields DEF Fine
  <2>3. /\ g.bufpos = flushed.f.bufpos /\ g.bufread = flushed.f.bufread /\ g.buf = flushed.f.buf
        /\ g.data = flushed.f.data /\ g.at = flushed.f.at /\ g.pushed = flushed.f.pushed
        /\ g.mode = flushed.f.mode
    BY <2>2 DEF MacroMay, FILE
  <2> HIDE DEF g
  <2>4. /\ Cont(g) = Cont(flushed.f) /\ Place(g) = Place(flushed.f) /\ Back(g) = Back(flushed.f)
        /\ (Matched(g) <=> Matched(flushed.f))
    BY <2>3, ViewOnly
  <2>5. Fine(g)
    BY <1>2, <1>5, <2>1, <2>3, <2>4 DEF Fine, InFile
  <2>6. (Lost(g) <=> Lost(flushed.f)) /\ c # EOF
    BY <2>3, StdioAssumption DEF Lost
  <2>7. Written(f, flushed.f, s) => Written(f, g, s)
    BY <2>4 DEF Written
  <2> QED
    BY <1>5, <2>1, <2>5, <2>6, <2>7 DEF s, r
<1> QED
  BY <1>6, <1>7

(* fputc writes its character, or fails and leaves the stream as it was    *)
(* but for what was pushed back.                                           *)
LEMMA FputcSees ==
    ASSUME NEW f, Fine(f), NEW c \in Byte
    PROVE  LET r == fputc(f, c) IN
           /\ Fine(r.f) /\ r.rv \in {c, EOF}
           /\ \/ Lost(r.f)
              \/ r.rv = EOF /\ Dropped(f, r.f)
              \/ r.rv = c /\ Written(f, r.f, <<c>>)
<1> DEFINE start == StopReading(f)
           roomy == IF start.f.bufpos >= start.f.bufend THEN fflush(start.f) ELSE start
           stored == Store(roomy.f, c)
           r == fputc(f, c)
<1>0. r = IF start.rv = EOF \/ ~Writable(start.f.mode) THEN Ret(start.f, EOF)
          ELSE IF roomy.rv = EOF THEN roomy ELSE stored
  BY DEF fputc
<1> HIDE DEF r
<1>1. /\ Fine(start.f) /\ "READING" \notin start.f.mode /\ start.rv \in {0, EOF}
      /\ (start.rv = EOF => Lost(start.f)) /\ (Lost(start.f) \/ Dropped(f, start.f))
  BY StopReadingSees
<1> HIDE DEF start
<1>2. CASE start.rv = EOF \/ ~Writable(start.f.mode)
  <2>1. r.f = start.f /\ r.rv = EOF
    BY <1>0, <1>2
  <2> QED
    BY <1>1, <2>1 DEF r
<1>3. CASE start.rv # EOF /\ Writable(start.f.mode)
  <2>1. ~Lost(start.f) /\ Dropped(f, start.f) /\ start.rv = 0
    BY <1>1, <1>3 DEF Writable, Lost
  <2>2. /\ Fine(roomy.f) /\ "READING" \notin roomy.f.mode /\ roomy.f.bufpos < roomy.f.bufend
        /\ (roomy.rv = EOF => Lost(roomy.f)) /\ (Lost(roomy.f) \/ Dropped(f, roomy.f))
    <3>0. Good(start.f) /\ InFile(start.f) /\ start.f.bufpos \in Nat /\ start.f.bufend \in Nat \ {0}
      BY <1>1, Fields DEF Fine
    <3>1. CASE start.f.bufpos >= start.f.bufend
      <4> DEFINE g == fflush(start.f)
      <4>1. /\ Fine(g.f) /\ IsEmptied(g.f) /\ (g.rv = EOF => Lost(g.f))
            /\ (Lost(g.f) \/ Dropped(start.f, g.f))
        BY <1>1, FlushSees
      <4>2. g.f.bufend = start.f.bufend
        BY <3>0, FlushFacts
      <4>3. roomy = g
        BY <3>1
      <4> HIDE DEF g, roomy
      <4>4. Lost(g.f) \/ Dropped(f, g.f)
        BY <1>1, <2>1, <4>1, AfterDropped
      <4>5. g.f.bufpos = 0 /\ "READING" \notin g.f.mode
        BY <4>1 DEF IsEmptied
      <4> QED
        BY <3>0, <4>1, <4>2, <4>3, <4>4, <4>5
    <3>2. CASE ~(start.f.bufpos >= start.f.bufend)
      BY <1>1, <2>1, <3>0, <3>2
    <3> QED
      BY <3>1, <3>2
  <2> HIDE DEF roomy
  <2>3. CASE roomy.rv = EOF
    BY <1>0, <1>3, <2>2, <2>3 DEF r
  <2>4. CASE roomy.rv # EOF
    <3>1. r = stored
      BY <1>0, <1>3, <2>4
    <3>2. /\ Fine(stored.f) /\ (Lost(roomy.f) => Lost(stored.f)) /\ (stored.rv = EOF => Lost(stored.f))
          /\ stored.rv \in {c, EOF} /\ (Lost(stored.f) \/ Written(roomy.f, stored.f, <<c>>))
      BY <2>2, StoreSees
    <3> HIDE DEF stored
    <3>3. Lost(stored.f) \/ Written(f, stored.f, <<c>>)
      BY <2>2, <3>2, AfterDropped
    <3> QED
      BY <3>1, <3>2, <3>3 DEF r
  <2> QED
    BY <2>3, <2>4
<1> QED
  BY <1>2, <1>3

(* So does the macro, which stores like Stored when it may.                *)
LEMMA PutcSees ==
    ASSUME NEW f, Fine(f), NEW c \in Byte
    PROVE  LET r == putc(f, c) IN
           /\ Fine(r.f) /\ r.rv \in {c, EOF}
           /\ \/ Lost(r.f)
              \/ r.rv = EOF /\ Dropped(f, r.f)
              \/ r.rv = c /\ Written(f, r.f, <<c>>)
<1>0. Good(f) /\ f \in FILE(f.buf) /\ f.bufpos \in Nat /\ f.bufwrite \in Nat /\ f.bufend \in Nat
  BY Fields DEF Fine
<1>1. CASE f.bufpos >= f.bufwrite
  <2>1. putc(f, c) = fputc(f, c)
    BY <1>1 DEF putc
  <2> QED
    BY <2>1, FputcSees
<1>2. CASE ~(f.bufpos >= f.bufwrite)
  <2> DEFINE g == Stored(f, <<c>>)
  <2>1. "WRITING" \in f.mode /\ "READING" \notin f.mode /\ f.bufpos < f.bufend
    BY <1>0, <1>2 DEF Good, Safe
  <2>2. f.pushed = 0
    BY <2>1, OutView
  <2>3. <<c>> \in Seq(Byte) /\ <<c>> # <<>> /\ f.bufpos + Len(<<c>>) <= f.bufend /\ Len(<<c>>) = 1
    BY <1>0, <2>1, OneChar
  <2>4. g = [f EXCEPT !.buf = Put(f.buf, f.bufpos, <<c>>), !.bufpos = f.bufpos + 1]
    <3>1. f.mode \cup {"WRITING"} = f.mode
      BY <2>1
    <3>2. g = [f EXCEPT !.buf = Put(f.buf, f.bufpos, <<c>>), !.bufpos = f.bufpos + 1,
                        !.mode = f.mode, !.pushed = f.pushed]
      BY <2>2, <2>3, <3>1 DEF Stored
    <3> HIDE DEF g
    <3> QED
      BY <1>0, <3>2 DEF FILE
  <2>5. putc(f, c) = Ret(g, c)
    BY <1>2, <2>4 DEF putc
  <2>6. Fine(g) /\ Written(f, g, <<c>>)
    BY <2>1, <2>3, StoredSees
  <2> HIDE DEF g
  <2> QED
    BY <2>5, <2>6
<1> QED
  BY <1>1, <1>2

(* What write() takes of a string is written at the descriptor's place.    *)
LEMMA WriteOutSees ==
    ASSUME NEW f, Fine(f), IsEmptied(f), f.pushed = 0, NEW s \in Seq(Byte)
    PROVE  LET g == WriteOut(f, s) IN
           /\ Fine(g) /\ (Lost(f) => Lost(g))
           /\ Lost(g) \/ (Written(f, g, s) /\ Len(s) <= f.room)
<1> DEFINE n == Smaller(Len(s), f.room)
           p == SubSeq(s, 1, n)
           g == WriteOut(f, s)
<1>0. Good(f) /\ InFile(f) /\ f.at <= Len(f.data) /\ Len(s) \in Nat
  BY LenProperties DEF Fine, InFile
<1>1. f \in FILE(f.buf) /\ f.at \in Nat /\ f.data \in Seq(Byte) /\ f.room \in Nat
  BY <1>0, Fields
<1>2. g \in FILE(f.buf) /\ InFile(g) /\ g.at >= f.at
  BY <1>0, <1>1, WriteOutFacts
<1>3. /\ g.data = WriteAt(f.data, f.at, p) /\ g.at = f.at + n
      /\ g.mode = (IF n < Len(s) THEN f.mode \cup {"ERR"} ELSE f.mode)
      /\ g.bufpos = f.bufpos /\ g.bufread = f.bufread /\ g.bufwrite = f.bufwrite
      /\ g.bufend = f.bufend /\ g.buf = f.buf /\ g.pushed = f.pushed
  BY <1>1 DEF WriteOut, FILE
<1> HIDE DEF g
<1>4. n \in Nat /\ (n < Len(s) \/ (n = Len(s) /\ Len(s) <= f.room))
  BY <1>0, <1>1 DEF Smaller
<1>5. IsEmptied(g)
  BY <1>3 DEF IsEmptied
<1>6. Good(g)
  <2>1. g.buf = f.buf /\ g.bufpos = 0 /\ g.bufread = 0 /\ g.bufwrite = 0
    BY <1>3 DEF IsEmptied
  <2>2. Typed(g)
    BY <1>2, <2>1 DEF Typed, Larger
  <2>3. Safe(g) /\ Kept(g)
    BY <1>2, <1>5, <2>1 DEF Safe, Kept, IsEmptied, FILE
  <2> QED
    BY <2>2, <2>3 DEF Good
<1>7. Fine(g) /\ Cont(g) = g.data /\ Place(g) = g.at /\ Back(g) = <<>>
  BY <1>2, <1>3, <1>5, <1>6, EmptiedView
<1>8. Lost(f) => Lost(g)
  BY <1>3 DEF Lost
<1>9. CASE n < Len(s)
  BY <1>3, <1>7, <1>8, <1>9 DEF Lost, g
<1>10. CASE n = Len(s) /\ Len(s) <= f.room
  <2>1. p = s
    <3>1. \A i \in 1 .. Len(s) : s[i] \in Byte
      BY ElementOfSeq
    <3>2. SubSeq(s, 1, Len(s)) \in Seq(Byte) /\ Len(SubSeq(s, 1, Len(s))) = Len(s)
          /\ \A i \in 1 .. Len(s) : SubSeq(s, 1, Len(s))[i] = s[i]
      BY <1>0, <3>1, SubSeqProperties
    <3>3. SubSeq(s, 1, Len(s)) = s
      BY <3>2, SameSequence
    <3> QED
      BY <1>10, <3>3
  <2> HIDE DEF p, n
  <2>2. Cont(f) = f.data /\ Place(f) = f.at
    BY <1>0, EmptiedView
  <2>3. Cont(g) = Over(Cont(f), Place(f), s)
    BY <1>0, <1>1, <1>3, <1>7, <2>1, <2>2, WriteAtOver
  <2>4. Place(f) \in PlacesOf(f)
    BY FineView
  <2> QED
    BY <1>3, <1>7, <1>8, <1>10, <2>2, <2>3, <2>4 DEF Written, g
<1> QED
  BY <1>4, <1>9, <1>10

(* fwrite writes all of its string, or nothing, or says that it failed.    *)
LEMMA FwriteSees ==
    ASSUME NEW f, Fine(f), NEW s \in Seq(Byte), s # <<>>
    PROVE  LET r == fwrite(f, s) IN
           /\ Fine(r.f)
           /\ \/ Lost(r.f)
              \/ r.rv = 0 /\ Dropped(f, r.f)
              \/ r.rv = Len(s) /\ Written(f, r.f, s)
<1> DEFINE start == StopReading(f)
           Room(g) == g.bufend - g.bufpos
           roomy == IF Len(s) > Room(start.f) THEN fflush(start.f) ELSE start
           stored == Stored(roomy.f, s)
           last == IF Visible(stored, s) THEN fflush(stored).f ELSE stored
           direct == WriteOut(roomy.f, s)
           r == fwrite(f, s)
<1>0. Len(s) \in Nat /\ Len(s) > 0
  BY LenProperties, EmptySeq
<1>1. r = IF start.rv = EOF \/ ~Writable(start.f.mode) THEN Ret(start.f, 0)
          ELSE IF roomy.rv = EOF THEN Ret(roomy.f, 0)
          ELSE IF Len(s) <= Room(roomy.f) THEN Ret(last, Len(s))
          ELSE Ret(direct, Smaller(Len(s), roomy.f.room))
  BY DEF fwrite
<1> HIDE DEF r
<1>2. /\ Fine(start.f) /\ "READING" \notin start.f.mode /\ start.rv \in {0, EOF}
      /\ (start.rv = EOF => Lost(start.f)) /\ (Lost(start.f) \/ Dropped(f, start.f))
  BY StopReadingSees
<1> HIDE DEF start
<1>3. CASE start.rv = EOF \/ ~Writable(start.f.mode)
  <2>1. r.f = start.f /\ r.rv = 0
    BY <1>1, <1>3
  <2> QED
    BY <1>2, <2>1 DEF r
<1>4. CASE ~(start.rv = EOF \/ ~Writable(start.f.mode))
  <2>1. ~Lost(start.f) /\ Dropped(f, start.f) /\ start.rv = 0
    BY <1>2, <1>4 DEF Writable, Lost
  <2> DEFINE full == Len(s) > Room(start.f)
  <2>2. /\ start.f.bufpos \in Nat /\ start.f.bufend \in Nat
    BY <1>2, Fields DEF Fine
  <2>3. /\ Fine(roomy.f) /\ "READING" \notin roomy.f.mode /\ roomy.f.bufend = start.f.bufend
        /\ full => IsEmptied(roomy.f) /\ roomy.f.pushed = 0
        /\ ~full => roomy.f = start.f
        /\ roomy.rv = EOF => Lost(roomy.f)
        /\ Lost(roomy.f) \/ Dropped(start.f, roomy.f)
    <3> DEFINE q == IF full THEN fflush(start.f) ELSE Ret(start.f, 0)
    <3>1. full \in BOOLEAN
      OBVIOUS
    <3>2. CASE full
      <4>1. roomy = fflush(start.f)
        BY <3>2
      <4> HIDE DEF roomy
      <4>2. /\ Fine(roomy.f) /\ IsEmptied(roomy.f) /\ roomy.f.pushed = 0
            /\ (roomy.rv = EOF => Lost(roomy.f)) /\ (Lost(roomy.f) \/ Dropped(start.f, roomy.f))
        BY <1>2, <4>1, FlushSees
      <4>3. roomy.f.bufend = start.f.bufend
        BY <1>2, <4>1, FlushFacts DEF Fine
      <4> HIDE DEF full
      <4> QED
        BY <3>2, <4>2, <4>3 DEF IsEmptied
    <3>3. CASE ~full
      <4>1. roomy = start
        BY <3>3
      <4> HIDE DEF roomy
      <4>2. Dropped(start.f, start.f)
        BY <1>2, OutView, FineView DEF Dropped
      <4> HIDE DEF full
      <4> QED
        BY <1>2, <2>1, <3>3, <4>1, <4>2
    <3> QED
      BY <3>2, <3>3
  <2> HIDE DEF roomy
  <2>4. Lost(roomy.f) \/ Dropped(f, roomy.f)
    BY <1>2, <2>1, <2>3, AfterDropped
  <2>5. CASE roomy.rv = EOF
    <3>1. r = Ret(roomy.f, 0)
      BY <1>1, <1>4, <2>5
    <3> QED
      BY <2>3, <2>5, <3>1 DEF r
  <2>6. CASE roomy.rv # EOF /\ Len(s) <= Room(roomy.f)
    <3>1. r.f = last /\ r.rv = Len(s)
      BY <1>1, <1>4, <2>6
    <3>2. roomy.f.bufpos + Len(s) <= roomy.f.bufend
      <4>1. roomy.f.bufpos \in Nat /\ roomy.f.bufend \in Nat
        BY <2>3, Fields DEF Fine
      <4> QED
        BY <1>0, <2>6, <4>1
    <3>3. Fine(stored) /\ Written(roomy.f, stored, s) /\ (Lost(stored) <=> Lost(roomy.f))
      BY <2>3, <3>2, StoredSees
    <3> HIDE DEF stored
    <3>4. Lost(stored) \/ Written(f, stored, s)
      BY <2>3, <2>4, <3>3, AfterDropped
    <3>5. Fine(last) /\ (Lost(last) \/ Written(f, last, s))
      <4>1. CASE Visible(stored, s)
        <5>1. last = fflush(stored).f
          BY <4>1
        <5> HIDE DEF last
        <5>2. /\ Fine(last) /\ (Lost(stored) => Lost(last))
              /\ (Lost(last) \/ Dropped(stored, last))
          BY <3>3, <5>1, FlushSees
        <5> QED
          BY <3>3, <3>4, <5>2, AfterWritten
      <4>2. CASE ~Visible(stored, s)
        BY <3>3, <3>4, <4>2
      <4> QED
        BY <4>1, <4>2
    <3> QED
      BY <3>1, <3>5 DEF r
  <2>7. CASE roomy.rv # EOF /\ ~(Len(s) <= Room(roomy.f))
    <3>1. r.f = direct /\ r.rv = Smaller(Len(s), roomy.f.room)
      BY <1>1, <1>4, <2>7
    <3>2. IsEmptied(roomy.f) /\ roomy.f.pushed = 0
      <4>1. full
        BY <1>0, <2>2, <2>3, <2>7
      <4> QED
        BY <2>3, <4>1
    <3>3. /\ Fine(direct) /\ (Lost(roomy.f) => Lost(direct))
          /\ (Lost(direct) \/ (Written(roomy.f, direct, s) /\ Len(s) <= roomy.f.room))
      BY <2>3, <3>2, WriteOutSees
    <3> HIDE DEF direct
    <3>4. roomy.f.room \in Nat
      BY <2>3, Fields DEF Fine
    <3>5. Len(s) <= roomy.f.room => r.rv = Len(s)
      BY <1>0, <3>1, <3>4 DEF Smaller
    <3> QED
      BY <2>3, <2>4, <3>1, <3>3, <3>5, AfterDropped DEF r
  <2> QED
    BY <2>5, <2>6, <2>7
<1> QED
  BY <1>3, <1>4

-----------------------------------------------------------------------------
(* Reading.  What is ahead of a stream is what Stream says it is; a read   *)
(* takes k characters of it.                                               *)
Ahead(f) == Back(f) \o SubSeq(Cont(f), Place(f) + 1, Len(Cont(f)))

HasRead(f, g, k, got) ==
    /\ k > 0 /\ k <= Len(Ahead(f)) /\ got = SubSeq(Ahead(f), 1, k)
    /\ Back(g) = IF k < Len(Back(f)) THEN SubSeq(Back(f), k + 1, Len(Back(f))) ELSE <<>>
    /\ Place(g) = Place(f) + (IF k < Len(Back(f)) THEN 0 ELSE k - Len(Back(f)))
    /\ Cont(g) = Cont(f)

(* Output is written out before anything is read, and that is all.         *)
LEMMA StopWritingSees ==
    ASSUME NEW f, Fine(f)
    PROVE  LET g == StopWriting(f) IN
           /\ Fine(g) /\ "WRITING" \notin g.mode
           /\ Lost(f) => Lost(g)
           /\ Lost(g) \/ Same(f, g)
<1>1. CASE "WRITING" \in f.mode
  <2> DEFINE r == fflush(f)
  <2>1. /\ Fine(r.f) /\ IsEmptied(r.f) /\ (Lost(f) => Lost(r.f)) /\ (Lost(r.f) \/ Dropped(f, r.f))
    BY FlushSees
  <2>2. StopWriting(f) = r.f
    BY <1>1 DEF StopWriting
  <2> HIDE DEF r
  <2>3. Back(f) = <<>>
    BY <1>1 DEF Back, Out
  <2>4. PlacesOf(f) = {Place(f)}
    BY <2>3, FineView, OnePlace
  <2>5. Dropped(f, r.f) => Same(f, r.f)
    BY <2>3, <2>4 DEF Dropped, Same
  <2> QED
    BY <2>1, <2>2, <2>5 DEF IsEmptied
<1>2. CASE "WRITING" \notin f.mode
  <2>1. StopWriting(f) = f
    BY <1>2 DEF StopWriting
  <2> QED
    BY <1>2, <2>1 DEF Same
<1> QED
  BY <1>1, <1>2

(* A stream that does not write, whether it reads or is idle.              *)
LEMMA ReadView ==
    ASSUME NEW f, Fine(f), "WRITING" \notin f.mode
    PROVE  /\ Cont(f) = f.data /\ Back(f) = Cells(f.buf, f.bufpos, f.pushed)
           /\ Place(f) = f.at - (f.bufread - f.bufpos) + f.pushed
           /\ Back(f) \in Seq(Byte) /\ Len(Back(f)) = f.pushed
           /\ f.bufpos + f.pushed <= f.bufread /\ f.bufread <= f.at /\ f.at <= Len(f.data)
           /\ \A i \in f.bufpos + f.pushed .. f.bufread - 1 : f.buf[i] = f.data[f.at - f.bufread + i + 1]
           /\ \A i \in 0 .. f.bufread - 1 : f.buf[i] \in Byte
           /\ f.bufpos \in Nat /\ f.bufread \in Nat /\ f.pushed \in Nat /\ f.at \in Nat
           /\ f.data \in Seq(Byte) /\ Len(f.data) \in Nat /\ f.bufend \in Nat \ {0}
           /\ f.take \in Int /\ f.mode \subseteq Modes /\ f \in FILE(f.buf)
<1>0. Good(f) /\ InFile(f) /\ Matched(f)
  BY DEF Fine
<1>1. /\ f.bufpos \in Nat /\ f.bufread \in Nat /\ f.pushed \in Nat /\ f.at \in Nat
      /\ f.data \in Seq(Byte) /\ f.bufend \in Nat \ {0}
      /\ f.take \in Int /\ f.mode \subseteq Modes /\ f \in FILE(f.buf)
  BY <1>0, Fields
<1>2. Len(f.data) \in Nat
  BY <1>1, LenProperties
<1>3. f.bufpos <= f.bufread /\ f.at <= Len(f.data)
  BY <1>0 DEF Good, Safe, InFile
<1>4. f.bufpos + f.pushed <= f.bufread /\ f.bufread <= f.at
  BY <1>0, <1>1, <1>3 DEF Matched, Good, Safe
<1>5. \A i \in f.bufpos + f.pushed .. f.bufread - 1 : f.buf[i] = f.data[f.at - f.bufread + i + 1]
  BY <1>0, <1>1, SMTT(30) DEF Matched
<1>6. \A i \in 0 .. f.bufread - 1 : f.buf[i] \in Byte
  BY <1>0, <1>1, <1>3 DEF Good, Typed, Larger
<1>7. Cells(f.buf, f.bufpos, f.pushed) \in Seq(Byte) /\ Len(Cells(f.buf, f.bufpos, f.pushed)) = f.pushed
  <2>1. \A i \in f.bufpos .. f.bufpos + f.pushed - 1 : f.buf[i] \in Byte
    BY <1>1, <1>4, <1>6
  <2> QED
    BY <1>1, <2>1, CellsString, SMTT(30)
<1>8. /\ Cont(f) = f.data /\ Back(f) = Cells(f.buf, f.bufpos, f.pushed)
      /\ Place(f) = f.at - (f.bufread - f.bufpos) + f.pushed
  BY DEF Cont, Back, Place, Out
<1> QED
  BY <1>1, <1>2, <1>3, <1>4, <1>5, <1>6, <1>7, <1>8

(* What is ahead is what is in the buffer and then what is in the file.    *)
LEMMA AheadElements ==
    ASSUME NEW f, Fine(f), "WRITING" \notin f.mode
    PROVE  LET m == f.bufread - f.bufpos IN
           /\ Ahead(f) \in Seq(Byte) /\ Len(Ahead(f)) = m + (Len(f.data) - f.at)
           /\ \A j \in 1 .. Len(Ahead(f)) :
                 Ahead(f)[j] = IF j <= m THEN f.buf[f.bufpos + j - 1] ELSE f.data[f.at + j - m]
<1> DEFINE m == f.bufread - f.bufpos
           b == Back(f)
           t == SubSeq(f.data, Place(f) + 1, Len(f.data))
           bt == b \o t
<1>0. /\ Cont(f) = f.data /\ b = Cells(f.buf, f.bufpos, f.pushed)
      /\ Place(f) = f.at - (f.bufread - f.bufpos) + f.pushed
      /\ b \in Seq(Byte) /\ Len(b) = f.pushed
  BY ReadView
<1>1. /\ f.bufpos + f.pushed <= f.bufread /\ f.bufread <= f.at /\ f.at <= Len(f.data)
      /\ \A i \in f.bufpos + f.pushed .. f.bufread - 1 : f.buf[i] = f.data[f.at - f.bufread + i + 1]
      /\ f.bufpos \in Nat /\ f.bufread \in Nat /\ f.pushed \in Nat /\ f.at \in Nat
      /\ f.data \in Seq(Byte) /\ Len(f.data) \in Nat
  BY ReadView
<1>2. Place(f) \in Nat /\ Place(f) <= Len(f.data)
  BY <1>0, <1>1
<1>3. /\ t \in Seq(Byte) /\ Len(t) = Len(f.data) - Place(f)
      /\ \A i \in 1 .. Len(f.data) - Place(f) : t[i] = f.data[Place(f) + i]
  <2> DEFINE p == Place(f) + 1
             n == Len(f.data)
  <2>1. p \in Nat /\ n \in Nat /\ p <= n + 1 /\ p \in 1 .. n + 1
    BY <1>1, <1>2
  <2>2. \A i \in p .. n : f.data[i] \in Byte
    BY <1>1, <2>1, ElementOfSeq
  <2>5. n - p + 1 = n - Place(f) /\ \A i \in 1 .. n - Place(f) : p + i - 1 = Place(f) + i
    BY <1>1, <1>2
  <2> HIDE DEF p, n
  <2>3. /\ SubSeq(f.data, p, n) \in Seq(Byte)
        /\ Len(SubSeq(f.data, p, n)) = IF p <= n THEN n - p + 1 ELSE 0
        /\ \A i \in 1 .. n - p + 1 : SubSeq(f.data, p, n)[i] = f.data[p + i - 1]
    BY <2>1, <2>2, SubSeqProperties
  <2>4. Len(SubSeq(f.data, p, n)) = n - p + 1
    BY <2>1, <2>3
  <2> QED
    BY <2>3, <2>4, <2>5 DEF p, n
<1>4. Ahead(f) = bt
  BY <1>0 DEF Ahead
<1> HIDE DEF t, b
<1>5. /\ bt \in Seq(Byte) /\ Len(bt) = Len(b) + Len(t)
      /\ \A j \in 1 .. Len(b) + Len(t) : bt[j] = IF j <= Len(b) THEN b[j] ELSE t[j - Len(b)]
  <2>1. b \in Seq(Byte) /\ t \in Seq(Byte)
    BY <1>0, <1>3
  <2> QED
    BY <2>1, ConcatProperties
<1> HIDE DEF bt
<1>6. m \in Nat /\ m >= f.pushed /\ f.at - m = Place(f) - f.pushed
  BY <1>0, <1>1, SMTT(30)
<1>7. Len(bt) = m + (Len(f.data) - f.at) /\ Len(bt) = f.pushed + (Len(f.data) - Place(f))
  <2>1. Len(bt) = f.pushed + (Len(f.data) - Place(f))
    BY <1>0, <1>3, <1>5
  <2>2. f.pushed + (Len(f.data) - Place(f)) = m + (Len(f.data) - f.at)
    <3>1. /\ f.pushed \in Nat /\ f.at \in Nat /\ Len(f.data) \in Nat /\ Place(f) \in Nat /\ m \in Nat
          /\ f.at - m = Place(f) - f.pushed
      BY <1>1, <1>2, <1>6
    <3> HIDE DEF m
    <3> QED
      BY <3>1, SMTT(30)
  <2> QED
    BY <2>1, <2>2
<1>8. ASSUME NEW j \in 1 .. Len(bt)
      PROVE  bt[j] = IF j <= m THEN f.buf[f.bufpos + j - 1] ELSE f.data[f.at + j - m]
  <2>0. j \in Nat /\ j # 0 /\ j \in 1 .. Len(b) + Len(t)
    BY <1>1, <1>2, <1>5, <1>7
  <2>1. bt[j] = IF j <= f.pushed THEN b[j] ELSE t[j - f.pushed]
    BY <1>0, <1>5, <2>0
  <2>2. CASE j <= f.pushed
    <3>1. j \in 1 .. f.pushed /\ j <= m
      BY <1>1, <1>6, <2>0, <2>2
    <3>2. b[j] = f.buf[f.bufpos + j - 1]
      BY <1>0, <3>1 DEF Cells
    <3> QED
      BY <2>1, <2>2, <3>1, <3>2
  <2>3. CASE ~(j <= f.pushed)
    <3>1. j - f.pushed \in 1 .. Len(f.data) - Place(f)
      BY <1>1, <1>2, <1>7, <2>0, <2>3, SMTT(30)
    <3>2. bt[j] = f.data[Place(f) + (j - f.pushed)]
      BY <1>3, <2>1, <2>3, <3>1
    <3>3. Place(f) + (j - f.pushed) = f.at + j - m
      BY <1>0, <1>1, <2>0, SMTT(30)
    <3>4. CASE j <= m
      <4>1. f.bufpos + j - 1 \in f.bufpos + f.pushed .. f.bufread - 1
        BY <1>1, <2>0, <2>3, <3>4
      <4>2. f.at - f.bufread + (f.bufpos + j - 1) + 1 = f.at + j - m
        BY <1>1, <2>0
      <4>3. f.buf[f.bufpos + j - 1] = f.data[f.at - f.bufread + (f.bufpos + j - 1) + 1]
        BY <1>1, <4>1
      <4> QED
        BY <3>2, <3>3, <3>4, <4>2, <4>3
    <3>5. CASE ~(j <= m)
      BY <3>2, <3>3, <3>5
    <3> QED
      BY <3>4, <3>5
  <2> QED
    BY <2>2, <2>3
<1> QED
  BY <1>4, <1>5, <1>7, <1>8

(* A string that agrees with the start of another is that start.           *)
LEMMA PrefixIs ==
    ASSUME NEW s \in Seq(Byte), NEW t \in Seq(Byte), Len(t) <= Len(s),
           \A j \in 1 .. Len(t) : t[j] = s[j]
    PROVE  t = SubSeq(s, 1, Len(t))
<1> DEFINE n == Len(t)
           u == SubSeq(s, 1, n)
<1>1. n \in Nat /\ Len(s) \in Nat /\ n <= Len(s)
  BY LenProperties
<1>2. \A i \in 1 .. n : s[i] \in Byte
  BY <1>1, ElementOfSeq
<1>3. /\ u \in Seq(Byte) /\ Len(u) = IF 1 <= n THEN n - 1 + 1 ELSE 0
      /\ \A i \in 1 .. n - 1 + 1 : u[i] = s[1 + i - 1]
  <2> HIDE DEF n
  <2> QED
    BY <1>1, <1>2, SubSeqProperties
<1> HIDE DEF u
<1>4. Len(u) = n
  BY <1>1, <1>3
<1>5. \A i \in 1 .. n : u[i] = t[i]
  BY <1>1, <1>3
<1>6. u = t
  BY <1>3, <1>4, <1>5, SameSequence
<1> QED
  BY <1>6 DEF u

(* Taking characters that are in the buffer reads what is ahead.           *)
LEMMA TakenSees ==
    ASSUME NEW f, Fine(f), "WRITING" \notin f.mode,
           NEW n \in Nat, n > 0, f.bufpos + n <= f.bufread
    PROVE  LET g == Taken(f, n)
               got == Cells(f.buf, f.bufpos, n)
           IN  /\ Fine(g) /\ (Lost(g) <=> Lost(f))
               /\ HasRead(f, g, n, got) /\ got \in Seq(Byte) /\ Len(got) = n
<1> DEFINE g == Taken(f, n)
           got == Cells(f.buf, f.bufpos, n)
           q == Larger(f.pushed - n, 0)
<1>0. Good(f) /\ Matched(f)
  BY DEF Fine
<1>1. /\ f.bufpos + f.pushed <= f.bufread /\ f.bufread <= f.at /\ f.at <= Len(f.data)
      /\ f.bufpos \in Nat /\ f.bufread \in Nat /\ f.pushed \in Nat /\ f.at \in Nat
      /\ Len(f.data) \in Nat
  BY ReadView
<1>2. /\ Cont(f) = f.data /\ Back(f) = Cells(f.buf, f.bufpos, f.pushed)
      /\ Place(f) = f.at - (f.bufread - f.bufpos) + f.pushed
      /\ Len(Back(f)) = f.pushed /\ f \in FILE(f.buf)
  BY ReadView
<1>3. /\ g.bufpos = f.bufpos + n /\ g.bufread = f.bufread /\ g.buf = f.buf
      /\ g.data = f.data /\ g.at = f.at /\ g.pushed = q /\ g.mode = f.mode
  BY <1>2 DEF Taken, FILE
<1>4. Good(g)
  BY <1>0, TakenFacts
<1> HIDE DEF g
<1>5. /\ q \in Nat /\ (n < f.pushed => q = f.pushed - n) /\ (~(n < f.pushed) => q = 0)
      /\ f.bufpos + n + q <= f.bufread /\ f.bufpos + f.pushed <= f.bufpos + n + q
  BY <1>1 DEF Larger
<1> HIDE DEF q
<1>6. "READING" \in f.mode
  BY <1>0, <1>1 DEF Matched
<1>7. Fine(g)
  <2>1. InFile(g)
    BY <1>1, <1>3 DEF InFile
  <2>2. \A i \in f.bufpos + f.pushed .. f.bufread - 1 : f.buf[i] = f.data[f.at - f.bufread + i + 1]
    BY <1>0, <1>6 DEF Matched
  <2>3. \A i \in g.bufpos + g.pushed .. g.bufread - 1 : i \in f.bufpos + f.pushed .. f.bufread - 1
    BY <1>1, <1>3, <1>5
  <2>4. \A i \in g.bufpos + g.pushed .. g.bufread - 1 : g.buf[i] = g.data[g.at - g.bufread + i + 1]
    BY <1>3, <2>2, <2>3
  <2>5. g.pushed > 0 => "UNGOT" \in g.mode
    BY <1>0, <1>1, <1>3, <1>5, <1>6 DEF Matched
  <2>6. g.bufpos + g.pushed <= g.bufread
    BY <1>3, <1>5
  <2>7. Matched(g)
    BY <1>0, <1>3, <1>6, <2>4, <2>5, <2>6 DEF Matched
  <2> QED
    BY <1>4, <2>1, <2>7 DEF Fine
<1>8. got \in Seq(Byte) /\ Len(got) = n
  <2>1. \A i \in f.bufpos .. f.bufpos + n - 1 : i \in 0 .. f.bufread - 1
    BY <1>1
  <2>2. \A i \in 0 .. f.bufread - 1 : f.buf[i] \in Byte
    BY ReadView
  <2> QED
    BY <1>1, <2>1, <2>2, CellsString, SMTT(30)
<1>9. n <= Len(Ahead(f)) /\ got = SubSeq(Ahead(f), 1, n)
  <2> DEFINE a == Ahead(f)
             m == f.bufread - f.bufpos
  <2>1. /\ a \in Seq(Byte) /\ Len(a) = m + (Len(f.data) - f.at)
        /\ \A j \in 1 .. Len(a) : a[j] = IF j <= m THEN f.buf[f.bufpos + j - 1] ELSE f.data[f.at + j - m]
    BY AheadElements
  <2> HIDE DEF a
  <2>2. n <= m /\ m <= Len(a)
    BY <1>1, <2>1
  <2>3. \A j \in 1 .. n : got[j] = f.buf[f.bufpos + j - 1]
    BY DEF Cells
  <2> HIDE DEF got
  <2>4. \A j \in 1 .. n : j \in 1 .. Len(a) /\ j <= m
    BY <1>1, <2>1, <2>2
  <2>5. \A j \in 1 .. n : got[j] = a[j]
    BY <2>1, <2>3, <2>4
  <2>6. Len(got) <= Len(a)
    BY <1>1, <1>8, <2>1, <2>2
  <2>7. got = SubSeq(a, 1, Len(got))
    BY <1>8, <2>1, <2>5, <2>6, PrefixIs
  <2> QED
    BY <1>8, <2>6, <2>7 DEF a
<1>10. Cont(g) = Cont(f) /\ Back(g) = Cells(f.buf, f.bufpos + n, q)
       /\ Place(g) = f.at - (f.bufread - (f.bufpos + n)) + q
  <2>1. "WRITING" \notin g.mode
    BY <1>3
  <2> QED
    BY <1>2, <1>3, <2>1 DEF Cont, Back, Place, Out
<1>11. Place(g) = Place(f) + (IF n < Len(Back(f)) THEN 0 ELSE n - Len(Back(f)))
  <2>0. /\ f.bufpos \in Int /\ f.bufread \in Int /\ f.pushed \in Int /\ f.at \in Int
        /\ Place(f) = f.at - (f.bufread - f.bufpos) + f.pushed /\ Len(Back(f)) = f.pushed
        /\ Place(g) = f.at - (f.bufread - (f.bufpos + n)) + q
    BY <1>1, <1>2, <1>10
  <2> HIDE DEF got
  <2>1. CASE n < f.pushed
    <3>1. q = f.pushed - n
      BY <1>5, <2>1
    <3>2. Place(g) = Place(f)
      BY <2>0, <3>1
    <3> QED
      BY <2>0, <2>1, <3>2
  <2>2. CASE ~(n < f.pushed)
    <3>1. q = 0
      BY <1>5, <2>2
    <3>2. Place(g) = Place(f) + (n - f.pushed)
      BY <2>0, <3>1
    <3> QED
      BY <2>0, <2>2, <3>2
  <2> QED
    BY <2>1, <2>2
<1>12. Back(g) = IF n < Len(Back(f)) THEN SubSeq(Back(f), n + 1, Len(Back(f))) ELSE <<>>
  <2>1. CASE n < f.pushed
    <3> DEFINE s == SubSeq(Back(f), n + 1, f.pushed)
               u == Cells(f.buf, f.bufpos + n, q)
    <3>1. q = f.pushed - n /\ n + 1 <= f.pushed /\ n + 1 \in Nat
      BY <1>1, <1>5, <2>1
    <3>2. \A i \in n + 1 .. f.pushed : Back(f)[i] \in Byte
      <4>1. Back(f) \in Seq(Byte)
        BY ReadView
      <4> QED
        BY <1>1, <1>2, <3>1, <4>1, ElementOfSeq
    <3>3. /\ s \in Seq(Byte) /\ Len(s) = f.pushed - (n + 1) + 1
          /\ \A i \in 1 .. f.pushed - (n + 1) + 1 : s[i] = Back(f)[n + 1 + i - 1]
      BY <1>1, <3>1, <3>2, SubSeqProperties
    <3>4. u \in Seq(Byte) /\ Len(u) = q
      <4>1. \A i \in f.bufpos + n .. f.bufpos + n + q - 1 : i \in 0 .. f.bufread - 1
        BY <1>1, <1>5
      <4>2. \A i \in 0 .. f.bufread - 1 : f.buf[i] \in Byte
        BY ReadView
      <4> DEFINE e == f.bufpos + n
      <4>3. e \in Int /\ q \in Nat
        BY <1>1, <1>5
      <4>4. \A i \in e .. e + q - 1 : f.buf[i] \in Byte
        BY <4>1, <4>2
      <4> HIDE DEF e
      <4>5. Cells(f.buf, e, q) \in Seq(Byte) /\ Len(Cells(f.buf, e, q)) = q
        BY <4>3, <4>4, CellsString
      <4> QED
        BY <4>5 DEF e
    <3>5. \A i \in 1 .. q : u[i] = f.buf[f.bufpos + n + i - 1]
      BY DEF Cells
    <3> HIDE DEF u, s
    <3>6. ASSUME NEW i \in 1 .. Len(s) PROVE u[i] = s[i]
      <4>0. f.pushed - (n + 1) + 1 = q /\ i \in Nat
        BY <1>1, <3>1
      <4>1. s[i] = Back(f)[n + 1 + i - 1] /\ i \in 1 .. q
        BY <3>3, <4>0
      <4>2. n + 1 + i - 1 \in 1 .. f.pushed /\ f.bufpos + (n + 1 + i - 1) - 1 = f.bufpos + n + i - 1
        <5>1. i >= 1 /\ i <= f.pushed - n /\ i \in Int
          BY <3>1, <4>0, <4>1
        <5>2. f.pushed \in Int /\ f.bufpos \in Int
          BY <1>1
        <5> HIDE DEF got
        <5> QED
          BY <5>1, <5>2
      <4>3. Back(f)[n + 1 + i - 1] = f.buf[f.bufpos + (n + 1 + i - 1) - 1]
        BY <1>2, <4>2 DEF Cells
      <4> QED
        BY <3>5, <4>1, <4>2, <4>3
    <3>7. Len(u) = Len(s)
      BY <1>1, <3>1, <3>3, <3>4
    <3>8. u = s
      BY <3>3, <3>4, <3>6, <3>7, SameSequence
    <3> QED
      BY <1>2, <1>10, <2>1, <3>8 DEF u, s
  <2>2. CASE ~(n < f.pushed)
    <3>1. q = 0 /\ f.bufpos + n \in Int
      BY <1>1, <1>5, <2>2
    <3>2. Back(g) = <<>>
      BY <1>10, <3>1, NoCells
    <3> QED
      BY <1>2, <2>2, <3>2
  <2> QED
    BY <2>1, <2>2
<1>13. HasRead(f, g, n, got)
  <2> HIDE DEF got
  <2> QED
    BY <1>9, <1>10, <1>11, <1>12 DEF HasRead
<1> QED
  BY <1>3, <1>7, <1>8, <1>13 DEF Lost, g

(* Filling a buffer that has been read changes nothing to be seen.         *)
LEMMA FillSees ==
    ASSUME NEW f0, Fine(f0), "WRITING" \notin f0.mode, f0.bufpos >= f0.bufread
    PROVE  LET r == Fill(f0) IN
           /\ Fine(r.f) /\ r.rv \in {0, EOF}
           /\ Lost(r.f) \/ Same(f0, r.f)
           /\ r.rv = 0 => "WRITING" \notin r.f.mode /\ r.f.bufpos < r.f.bufread
<1> DEFINE f == [f0 EXCEPT !.bufpos = 0, !.bufread = 0]
           k == ReadCount(f, f.bufend)
           flag == ReadFlag(k)
           r == Fill(f0)
<1>0. Good(f0) /\ InFile(f0) /\ Matched(f0)
  BY DEF Fine
<1>1. /\ f0 \in FILE(f0.buf) /\ f0.bufend \in Nat \ {0} /\ f0.mode \subseteq Modes
      /\ f0.at \in Nat /\ f0.data \in Seq(Byte) /\ f0.take \in Int /\ Len(f0.data) \in Nat
      /\ f0.bufpos \in Nat /\ f0.bufread \in Nat /\ f0.pushed \in Nat
      /\ f0.bufpos + f0.pushed <= f0.bufread
  BY ReadView
<1>2. f0.bufpos = f0.bufread /\ f0.pushed = 0
  BY <1>1
<1>3. Cont(f0) = f0.data /\ Place(f0) = f0.at /\ Back(f0) = <<>>
  <2>1. /\ Cont(f0) = f0.data /\ Back(f0) = Cells(f0.buf, f0.bufpos, f0.pushed)
        /\ Place(f0) = f0.at - (f0.bufread - f0.bufpos) + f0.pushed
    BY ReadView
  <2>2. Back(f0) = <<>>
    BY <1>1, <1>2, <2>1, NoCells
  <2> QED
    BY <1>1, <1>2, <2>1, <2>2
<1>4. /\ f \in FILE(f0.buf) /\ f.bufpos = 0 /\ f.bufread = 0
      /\ f.bufend = f0.bufend /\ f.mode = f0.mode /\ f.at = f0.at /\ f.data = f0.data
      /\ f.buf = f0.buf /\ f.take = f0.take /\ f.pushed = 0
  BY <1>1, <1>2 DEF FILE
<1>5. /\ k \in Int /\ flag \in {{}, {"EOF"}, {"ERR"}}
      /\ k > 0 => k <= f0.bufend /\ f0.at + k <= Len(f0.data)
  <2> HIDE DEF f
  <2>1. f.take \in Int /\ f.at \in Nat /\ f.data \in Seq(Byte) /\ f.bufend \in Int
    BY <1>1, <1>4
  <2>2. /\ k \in Int /\ (k > 0 => k <= f.bufend /\ f.at + k <= Len(f.data))
        /\ flag \in {{}, {"EOF"}, {"ERR"}}
    BY <2>1, ReadCountFacts
  <2> HIDE DEF k
  <2> QED
    BY <1>4, <2>2
<1>6. /\ Good(r.f) /\ r.rv \in {0, EOF}
      /\ r.rv = 0 => "WRITING" \notin r.f.mode /\ r.f.bufpos < r.f.bufread
  BY <1>0, FillFacts
<1>7. CASE k <= 0
  <2> DEFINE g == [f EXCEPT !.mode = f.mode \cup flag]
  <2>1. r = Ret(g, EOF)
    BY <1>7 DEF Fill
  <2> HIDE DEF f, k, r, flag
  <2>2. /\ g.bufpos = 0 /\ g.bufread = 0 /\ g.buf = f0.buf /\ g.at = f0.at /\ g.data = f0.data
        /\ g.pushed = 0 /\ g.mode = f0.mode \cup flag
    BY <1>4 DEF FILE
  <2> HIDE DEF g
  <2>3. flag \in {{}, {"EOF"}, {"ERR"}}
    BY <1>5
  <2>4. Matched(g)
    BY <2>2 DEF Matched
  <2>5. Fine(g)
    BY <1>0, <1>6, <2>1, <2>2, <2>4 DEF Fine, InFile
  <2>6. Cont(g) = g.data /\ Place(g) = g.at - (g.bufread - g.bufpos) + g.pushed
        /\ Back(g) = Cells(g.buf, g.bufpos, g.pushed)
    <3>1. "WRITING" \notin g.mode
      BY <2>2, <2>3
    <3> QED
      BY <3>1 DEF Cont, Place, Back, Out
  <2>7. Back(g) = <<>> /\ Place(g) = f0.at
    BY <1>1, <2>2, <2>6, NoCells
  <2>8. Same(f0, g)
    BY <1>3, <2>2, <2>6, <2>7 DEF Same
  <2> QED
    BY <1>6, <2>1, <2>5, <2>8 DEF r
<1>8. CASE k > 0
  <2> DEFINE s == SubSeq(f0.data, f0.at + 1, f0.at + k)
             b == Put(f0.buf, 0, s)
             m == (f0.mode \cup {"READING"}) \ {"UNGOT"}
             g == [f EXCEPT !.buf = b, !.bufread = k, !.at = f0.at + k, !.mode = m]
  <2>1. r = Ret(g, 0)
    <3>1. /\ f.mode = f0.mode /\ f.at = f0.at /\ f.data = f0.data /\ f.buf = f0.buf
      BY <1>4
    <3> QED
      BY <1>8, <3>1, <1>5 DEF Fill
  <2>2. k \in Nat /\ f0.at + k <= Len(f0.data) /\ k # 0
    BY <1>5, <1>8
  <2> HIDE DEF f, k, r, flag
  <2>3. /\ s \in Seq(Byte) /\ Len(s) = k
        /\ \A i \in 1 .. k : s[i] = f0.data[f0.at + i]
    <3> DEFINE p == f0.at + 1
               e == f0.at + k
    <3>0. f0.at \in Nat /\ k \in Nat /\ k # 0
      BY <1>1, <2>2
    <3>1. p \in Nat /\ e \in Nat /\ p <= e /\ e - p + 1 = k /\ \A i \in 1 .. k : p + i - 1 = f0.at + i
      BY <3>0
    <3>2. \A i \in p .. e : f0.data[i] \in Byte
      BY <1>1, <2>2, ElementOfSeq
    <3> HIDE DEF p, e
    <3>3. /\ SubSeq(f0.data, p, e) \in Seq(Byte)
          /\ Len(SubSeq(f0.data, p, e)) = IF p <= e THEN e - p + 1 ELSE 0
          /\ \A i \in 1 .. e - p + 1 : SubSeq(f0.data, p, e)[i] = f0.data[p + i - 1]
      BY <3>1, <3>2, SubSeqProperties
    <3> QED
      BY <3>1, <3>3 DEF p, e
  <2> HIDE DEF s
  <2>4. /\ g.bufpos = 0 /\ g.bufread = k /\ g.buf = b /\ g.at = f0.at + k /\ g.data = f0.data
        /\ g.pushed = 0 /\ g.mode = m
    BY <1>4 DEF FILE
  <2> HIDE DEF g
  <2>5. \A i \in 0 .. k - 1 : b[i] = f0.data[f0.at + i + 1]
    <3> TAKE i \in 0 .. k - 1
    <3>0. f0.at \in Nat /\ k \in Nat /\ Len(s) = k
      BY <1>1, <2>2, <2>3
    <3>1. i \in 0 .. 0 + Len(s) - 1 /\ i - 0 + 1 \in 1 .. k /\ i - 0 + 1 = i + 1 /\ f0.at + (i + 1) = f0.at + i + 1
      BY <3>0
    <3>2. b[i] = s[i - 0 + 1]
      BY <3>1 DEF Put
    <3> QED
      BY <2>3, <3>1, <3>2
  <2> HIDE DEF b
  <2>6. "READING" \in m /\ "WRITING" \notin m
    OBVIOUS
  <2> HIDE DEF m
  <2>7. Matched(g)
    <3>1. g.bufpos + g.pushed = 0 /\ g.at - g.bufread = f0.at
      BY <1>1, <2>2, <2>4
    <3>2. \A i \in g.bufpos + g.pushed .. g.bufread - 1 : g.buf[i] = g.data[g.at - g.bufread + i + 1]
      BY <2>4, <2>5, <3>1
    <3>3. g.at = g.bufread => \A i \in 0 .. g.bufread - 1 : g.buf[i] = g.data[i + 1]
      <4> SUFFICES ASSUME g.at = g.bufread, NEW i \in 0 .. g.bufread - 1 PROVE g.buf[i] = g.data[i + 1]
        OBVIOUS
      <4>1. f0.at = 0 /\ f0.at + i + 1 = i + 1 /\ i \in 0 .. k - 1
        BY <1>1, <2>2, <2>4
      <4> QED
        BY <2>4, <2>5, <4>1
    <3> QED
      BY <2>2, <2>4, <2>6, <3>1, <3>2, <3>3 DEF Matched
  <2>8. Fine(g)
    BY <1>6, <2>1, <2>2, <2>4, <2>7 DEF Fine, InFile
  <2>9. Cont(g) = g.data /\ Place(g) = g.at - (g.bufread - g.bufpos) + g.pushed
        /\ Back(g) = Cells(g.buf, g.bufpos, g.pushed)
    BY <2>4, <2>6 DEF Cont, Place, Back, Out
  <2>10. Back(g) = <<>> /\ Place(g) = f0.at
    BY <1>1, <2>2, <2>4, <2>9, NoCells
  <2>11. Same(f0, g)
    BY <1>3, <2>4, <2>9, <2>10 DEF Same
  <2> QED
    BY <1>6, <2>1, <2>8, <2>11 DEF r
<1> QED
  BY <1>5, <1>7, <1>8

(* What comes of a call that reads up to n characters.                     *)
ReadUpTo(f, g, n, got) ==
    \/ Lost(g)
    \/ got = <<>> /\ Same(f, g)
    \/ got # <<>> /\ \E k \in 1 .. n : HasRead(f, g, k, got)

(* Nor is flushing before a read.                                          *)
LEMMA SameThenRead ==
    ASSUME NEW f, NEW h, NEW g, NEW n, NEW got, Same(f, h)
    PROVE  /\ ReadUpTo(h, g, n, got) => ReadUpTo(f, g, n, got)
           /\ \A k : HasRead(h, g, k, got) => HasRead(f, g, k, got)
           /\ Same(h, g) => Same(f, g)
<1>1. Ahead(h) = Ahead(f)
  BY DEF Same, Ahead
<1>2. \A k : HasRead(h, g, k, got) => HasRead(f, g, k, got)
  BY <1>1 DEF Same, HasRead
<1> QED
  BY <1>2 DEF Same, ReadUpTo

(* What a getc returns, as a string.                                       *)
Got(rv) == IF rv = EOF THEN <<>> ELSE <<rv>>

(* The character at bufpos is the next one the reader is due.              *)
LEMMA OneTaken ==
    ASSUME NEW f, Fine(f), "WRITING" \notin f.mode, f.bufpos < f.bufread
    PROVE  LET g == Taken(f, 1) IN
           /\ Fine(g) /\ ReadUpTo(f, g, 1, Got(f.buf[f.bufpos]))
<1> DEFINE g == Taken(f, 1)
           c == f.buf[f.bufpos]
           got == Cells(f.buf, f.bufpos, 1)
<1>1. f.bufpos \in Nat /\ f.bufread \in Nat /\ \A i \in 0 .. f.bufread - 1 : f.buf[i] \in Byte
  BY ReadView
<1>2. f.bufpos + 1 <= f.bufread
  BY <1>1
<1>3. Fine(g) /\ HasRead(f, g, 1, got) /\ got \in Seq(Byte) /\ Len(got) = 1
  <2> DEFINE n == 1
  <2>1. n \in Nat /\ n > 0 /\ f.bufpos + n <= f.bufread
    BY <1>2
  <2> HIDE DEF n
  <2>2. /\ Fine(Taken(f, n)) /\ HasRead(f, Taken(f, n), n, Cells(f.buf, f.bufpos, n))
        /\ Cells(f.buf, f.bufpos, n) \in Seq(Byte) /\ Len(Cells(f.buf, f.bufpos, n)) = n
    BY <2>1, TakenSees
  <2> QED
    BY <2>2 DEF n
<1>4. c \in Byte /\ c # EOF
  BY <1>1, StdioAssumption
<1>5. got[1] = c
  BY <1>1 DEF Cells
<1> HIDE DEF c, g, got
<1>6. <<c>> \in Seq(Byte) /\ Len(<<c>>) = 1 /\ <<c>>[1] = c
  BY <1>4, OneChar
<1>7. got = <<c>>
  <2> DEFINE d == <<c>>
  <2>1. d \in Seq(Byte) /\ Len(d) = 1 /\ d[1] = c
    BY <1>6
  <2> HIDE DEF d
  <2>2. got = d
    BY <1>3, <1>5, <2>1, SameSequence
  <2> QED
    BY <2>2 DEF d
<1>8. got # <<>>
  BY <1>3, EmptySeq
<1> QED
  BY <1>3, <1>4, <1>7, <1>8 DEF Got, ReadUpTo, c, g

(* getc and fgetc read one character, or nothing.                          *)
LEMMA FgetcSees ==
    ASSUME NEW f0, Fine(f0)
    PROVE  LET r == fgetc(f0) IN Fine(r.f) /\ ReadUpTo(f0, r.f, 1, Got(r.rv))
<1> DEFINE f == StopWriting(f0)
           filled == IF f.bufpos >= f.bufread THEN Fill(f) ELSE Ret(f, 0)
           h == filled.f
           r == fgetc(f0)
<1>0. r = IF ~Readable(f.mode) THEN Ret(f, EOF)
          ELSE IF filled.rv = EOF THEN filled ELSE Ret(Taken(h, 1), h.buf[h.bufpos])
  BY DEF fgetc
<1> HIDE DEF r
<1>1. Fine(f) /\ "WRITING" \notin f.mode /\ (Lost(f) \/ Same(f0, f))
  BY StopWritingSees
<1> HIDE DEF f
<1>2. CASE ~Readable(f.mode)
  <2>1. r.f = f /\ r.rv = EOF
    BY <1>0, <1>2
  <2> QED
    BY <1>1, <2>1 DEF r, ReadUpTo, Got
<1>3. CASE Readable(f.mode)
  <2>1. Same(f0, f)
    BY <1>1, <1>3 DEF Readable, Lost
  <2>2. f.bufpos \in Nat /\ f.bufread \in Nat
    BY <1>1, ReadView
  <2>3. /\ Fine(h) /\ filled.rv \in {0, EOF} /\ (Lost(h) \/ Same(f, h))
        /\ filled.rv = 0 => "WRITING" \notin h.mode /\ h.bufpos < h.bufread
    <3>1. CASE f.bufpos >= f.bufread
      <4>1. filled = Fill(f)
        BY <3>1
      <4> HIDE DEF filled
      <4> QED
        BY <1>1, <3>1, <4>1, FillSees
    <3>2. CASE ~(f.bufpos >= f.bufread)
      <4>1. filled = Ret(f, 0)
        BY <3>2
      <4> HIDE DEF filled
      <4>2. Same(f, f)
        BY DEF Same
      <4> QED
        BY <1>1, <2>2, <3>2, <4>1, <4>2
    <3> QED
      BY <3>1, <3>2
  <2> HIDE DEF filled
  <2>4. CASE filled.rv = EOF
    <3>1. r.f = h /\ r.rv = EOF
      BY <1>0, <1>3, <2>4
    <3>2. Lost(h) \/ Same(f0, h)
      BY <2>1, <2>3, SameThenRead
    <3> QED
      BY <2>3, <3>1, <3>2 DEF r, ReadUpTo, Got
  <2>5. CASE filled.rv # EOF
    <3>1. r.f = Taken(h, 1) /\ r.rv = h.buf[h.bufpos]
      BY <1>0, <1>3, <2>5
    <3>2. "WRITING" \notin h.mode /\ h.bufpos < h.bufread
      BY <2>3, <2>5
    <3> HIDE DEF h
    <3>3. Fine(r.f) /\ ReadUpTo(h, r.f, 1, Got(r.rv))
      BY <2>3, <3>1, <3>2, OneTaken
    <3>4. CASE Lost(h)
      <4>1. h \in FILE(h.buf)
        BY <2>3, Fields DEF Fine
      <4>2. Taken(h, 1).mode = h.mode
        BY <4>1 DEF Taken, FILE
      <4> QED
        BY <3>1, <3>3, <3>4, <4>2 DEF r, ReadUpTo, Lost
    <3>5. CASE Same(f, h)
      BY <2>1, <3>3, <3>5, SameThenRead DEF r
    <3> QED
      BY <2>3, <3>4, <3>5
  <2> QED
    BY <2>4, <2>5
<1> QED
  BY <1>2, <1>3

(* The macro getc does what fgetc does.                                    *)
LEMMA GetcSees ==
    ASSUME NEW f, Fine(f)
    PROVE  LET r == getc(f) IN Fine(r.f) /\ ReadUpTo(f, r.f, 1, Got(r.rv))
<1>0. f.bufpos \in Nat /\ f.bufread \in Nat
  BY Fields DEF Fine
<1>1. CASE f.bufpos >= f.bufread
  <2>1. getc(f) = fgetc(f)
    BY <1>1 DEF getc
  <2> QED
    BY <2>1, FgetcSees
<1>2. CASE ~(f.bufpos >= f.bufread)
  <2>1. getc(f) = Ret(Taken(f, 1), f.buf[f.bufpos])
    BY <1>2 DEF getc
  <2>2. "WRITING" \notin f.mode /\ f.bufpos < f.bufread
    BY <1>0, <1>2 DEF Fine, Good, Safe
  <2> QED
    BY <2>1, <2>2, OneTaken
<1> QED
  BY <1>1, <1>2

(* What fread takes past the buffer follows what it takes from it.         *)
LEMMA DirectSees ==
    ASSUME NEW f, Fine(f), "WRITING" \notin f.mode, NEW n \in Nat, n > f.bufread - f.bufpos
    PROVE  LET from == f.bufread - f.bufpos
               k == ReadCount(f, n - from)
               rest == Taken(f, from)
               g == [rest EXCEPT !.at = rest.at + Larger(k, 0), !.mode = rest.mode \cup ReadFlag(k)]
               got == Cells(f.buf, f.bufpos, from) \o SubSeq(f.data, f.at + 1, f.at + Larger(k, 0))
           IN  Good(g) => /\ Fine(g) /\ ReadUpTo(f, g, n, got)
                          /\ (Lost(f) => Lost(g))
<1> DEFINE from == f.bufread - f.bufpos
           k == ReadCount(f, n - from)
           rest == Taken(f, from)
           kk == Larger(k, 0)
           g == [rest EXCEPT !.at = rest.at + kk, !.mode = rest.mode \cup ReadFlag(k)]
           cells == Cells(f.buf, f.bufpos, from)
           direct == SubSeq(f.data, f.at + 1, f.at + kk)
           got == cells \o direct
           total == from + kk
<1> SUFFICES ASSUME Good(g)
             PROVE  Fine(g) /\ ReadUpTo(f, g, n, got) /\ (Lost(f) => Lost(g))
  OBVIOUS
<1>0. Good(f) /\ InFile(f) /\ Matched(f)
  BY DEF Fine
<1>1. /\ f.bufpos + f.pushed <= f.bufread /\ f.bufread <= f.at /\ f.at <= Len(f.data)
      /\ f.bufpos \in Nat /\ f.bufread \in Nat /\ f.pushed \in Nat /\ f.at \in Nat
      /\ Len(f.data) \in Nat
  BY ReadView
<1>2. /\ Cont(f) = f.data /\ Place(f) = f.at - (f.bufread - f.bufpos) + f.pushed
      /\ Len(Back(f)) = f.pushed /\ f \in FILE(f.buf) /\ f.data \in Seq(Byte) /\ f.take \in Int
  BY ReadView
<1>3. from \in Nat /\ f.bufpos + from = f.bufread /\ f.pushed <= from /\ n - from \in Int
  BY <1>1
<1> HIDE DEF from
<1>4. /\ k \in Int /\ (k > 0 => k <= n - from /\ f.at + k <= Len(f.data))
      /\ ReadFlag(k) \in {{}, {"EOF"}, {"ERR"}}
  BY <1>1, <1>2, <1>3, ReadCountFacts
<1> HIDE DEF k
<1>5. /\ kk \in Nat /\ from + kk <= n /\ f.at + kk <= Len(f.data)
  <2>1. f.at \in Nat /\ Len(f.data) \in Nat /\ f.at <= Len(f.data) /\ n > from
    BY <1>1 DEF from
  <2>2. CASE k > 0
    BY <1>3, <1>4, <2>1, <2>2 DEF Larger
  <2>3. CASE ~(k > 0)
    BY <1>3, <1>4, <2>1, <2>3 DEF Larger
  <2> QED
    BY <2>2, <2>3
<1> HIDE DEF kk
<1>6. Larger(f.pushed - from, 0) = 0
  BY <1>1, <1>3 DEF Larger
<1>7. /\ g.bufpos = f.bufread /\ g.bufread = f.bufread /\ g.buf = f.buf /\ g.pushed = 0
      /\ g.data = f.data /\ g.at = f.at + kk /\ g.mode = f.mode \cup ReadFlag(k)
  <2>1. /\ rest.bufpos = f.bufread /\ rest.bufread = f.bufread /\ rest.buf = f.buf
        /\ rest.pushed = 0 /\ rest.data = f.data /\ rest.at = f.at /\ rest.mode = f.mode
        /\ rest = [f EXCEPT !.bufpos = f.bufread, !.pushed = 0]
    BY <1>2, <1>3, <1>6 DEF Taken, FILE
  <2>2. DOMAIN rest = DOMAIN f /\ \A x \in {"bufpos", "bufread", "buf", "pushed", "data", "at", "mode"} : x \in DOMAIN f
    BY <1>2, <2>1 DEF FILE
  <2> HIDE DEF rest
  <2> QED
    BY <2>1, <2>2
<1> HIDE DEF rest, g
<1>8. Fine(g)
  <2>1. "READING" \in g.mode <=> "READING" \in f.mode
    BY <1>4, <1>7
  <2>2. "UNGOT" \in g.mode <=> "UNGOT" \in f.mode
    BY <1>4, <1>7
  <2>3. g.bufpos + g.pushed = g.bufread
    BY <1>1, <1>7
  <2>4. ASSUME "READING" \notin f.mode PROVE Matched(g)
    <3>1. f.bufread = 0
      BY <1>0, <2>4 DEF Matched
    <3>2. g.bufread = 0 /\ g.pushed = 0 /\ "READING" \notin g.mode
      BY <1>7, <2>1, <2>4, <3>1
    <3> QED
      BY <3>2 DEF Matched
  <2>5. ASSUME "READING" \in f.mode PROVE Matched(g)
    <3>1. "UNGOT" \notin g.mode /\ g.at = g.bufread => f.at = f.bufread /\ "UNGOT" \notin f.mode
      BY <1>1, <1>5, <1>7, <2>2
    <3>2. "UNGOT" \notin g.mode /\ g.at = g.bufread =>
             \A i \in 0 .. g.bufread - 1 : g.buf[i] = g.data[i + 1]
      BY <1>0, <1>7, <2>5, <3>1 DEF Matched
    <3>3. g.bufread \in Nat /\ ~(g.pushed > 0)
      BY <1>1, <1>7
    <3>4. \A i \in g.bufpos + g.pushed .. g.bufread - 1 : g.buf[i] = g.data[g.at - g.bufread + i + 1]
      BY <2>3, <3>3
    <3>5. "READING" \in g.mode /\ g.bufpos + g.pushed <= g.bufread
      BY <2>1, <2>3, <2>5, <3>3
    <3>6. Matched(g)
      BY <3>2, <3>3, <3>4, <3>5 DEF Matched
    <3> QED
      BY <3>6
  <2>6. InFile(g)
    BY <1>5, <1>7 DEF InFile
  <2> QED
    BY <2>4, <2>5, <2>6 DEF Fine
<1>9. "WRITING" \notin g.mode
  BY <1>4, <1>7
<1>10. Cont(g) = Cont(f) /\ Back(g) = <<>> /\ Place(g) = f.at + kk
  <2>1. Cont(g) = g.data /\ Back(g) = Cells(g.buf, g.bufpos, 0)
        /\ Place(g) = g.at - (g.bufread - g.bufpos) + g.pushed
    BY <1>7, <1>9 DEF Cont, Back, Place, Out
  <2>2. Cells(g.buf, g.bufpos, 0) = <<>>
    BY <1>1, <1>7, NoCells
  <2> QED
    BY <1>1, <1>2, <1>5, <1>7, <2>1, <2>2
<1>11. cells \in Seq(Byte) /\ Len(cells) = from
  <2>1. \A i \in f.bufpos .. f.bufpos + from - 1 : i \in 0 .. f.bufread - 1
    BY <1>1, <1>3
  <2>2. \A i \in 0 .. f.bufread - 1 : f.buf[i] \in Byte
    BY ReadView
  <2> QED
    <3>1. f.bufpos \in Int /\ from \in Nat /\ \A i \in f.bufpos .. f.bufpos + from - 1 : f.buf[i] \in Byte
      BY <1>1, <1>3, <2>1, <2>2
    <3> QED
      BY <3>1, CellsString
<1>12. \A j \in 1 .. from : cells[j] = f.buf[f.bufpos + j - 1]
  BY DEF Cells
<1> HIDE DEF cells
<1>13. /\ direct \in Seq(Byte) /\ Len(direct) = kk /\ \A i \in 1 .. kk : direct[i] = f.data[f.at + i]
  <2> DEFINE p == f.at + 1
             e == f.at + kk
  <2>0. f.at \in Nat /\ kk \in Nat
    BY <1>1, <1>5
  <2>1. /\ p \in Nat /\ e \in Nat /\ p <= e + 1 /\ e - p + 1 = kk
        /\ \A i \in 1 .. kk : p + i - 1 = f.at + i
    BY <2>0
  <2>2. \A i \in p .. e : f.data[i] \in Byte
    BY <1>1, <1>2, <1>5, ElementOfSeq, SMTT(30)
  <2> HIDE DEF p, e
  <2>3. /\ SubSeq(f.data, p, e) \in Seq(Byte)
        /\ Len(SubSeq(f.data, p, e)) = IF p <= e THEN e - p + 1 ELSE 0
        /\ \A i \in 1 .. e - p + 1 : SubSeq(f.data, p, e)[i] = f.data[p + i - 1]
    BY <2>1, <2>2, SubSeqProperties
  <2>4. Len(SubSeq(f.data, p, e)) = kk
    BY <2>1, <2>3
  <2> QED
    BY <2>1, <2>3, <2>4 DEF p, e
<1> HIDE DEF direct
<1>14. /\ got \in Seq(Byte) /\ Len(got) = Len(cells) + Len(direct)
       /\ \A j \in 1 .. Len(cells) + Len(direct) :
             got[j] = IF j <= Len(cells) THEN cells[j] ELSE direct[j - Len(cells)]
  <2>1. cells \in Seq(Byte) /\ direct \in Seq(Byte)
    BY <1>11, <1>13
  <2> QED
    BY <2>1, ConcatProperties
<1> HIDE DEF got
<1>15. Len(got) = total
  BY <1>11, <1>13, <1>14
<1>16. total \in Nat /\ total <= n
  BY <1>3, <1>5
<1>17. Lost(f) => Lost(g)
  BY <1>7 DEF Lost
<1>18. CASE total = 0
  <2>1. from = 0 /\ kk = 0
    BY <1>3, <1>5, <1>18
  <2>2. got = <<>>
    BY <1>14, <1>15, <1>18, EmptySeq
  <2>3. f.pushed = 0
    BY <1>1, <1>3, <2>1
  <2>4. Back(f) = <<>>
    <3>1. Back(f) = Cells(f.buf, f.bufpos, f.pushed)
      BY ReadView
    <3> QED
      BY <1>1, <2>3, <3>1, NoCells
  <2>5. Place(f) = f.at
    BY <1>1, <1>2, <1>3, <2>1, <2>3
  <2>6. Same(f, g)
    BY <1>1, <1>10, <2>1, <2>4, <2>5 DEF Same
  <2> QED
    BY <1>8, <1>17, <2>2, <2>6 DEF ReadUpTo
<1>19. CASE total # 0
  <2> DEFINE a == Ahead(f)
             m == f.bufread - f.bufpos
  <2>1. /\ a \in Seq(Byte) /\ Len(a) = m + (Len(f.data) - f.at)
        /\ \A j \in 1 .. Len(a) : a[j] = IF j <= m THEN f.buf[f.bufpos + j - 1] ELSE f.data[f.at + j - m]
    BY AheadElements
  <2>2. m = from
    BY DEF from
  <2> HIDE DEF a, m
  <2>3. total <= Len(a) /\ Len(a) \in Nat
    BY <1>1, <1>3, <1>5, <2>1, <2>2, SMTT(30)
  <2>4. ASSUME NEW j \in 1 .. Len(got) PROVE got[j] = a[j]
    <3>0. j \in Nat /\ j # 0 /\ j <= from + kk /\ j \in 1 .. Len(a) /\ j \in 1 .. Len(cells) + Len(direct)
      BY <1>11, <1>13, <1>15, <1>16, <2>3
    <3>1. got[j] = IF j <= from THEN cells[j] ELSE direct[j - from]
      BY <1>11, <1>14, <3>0
    <3>2. CASE j <= from
      <4>1. j \in 1 .. from
        BY <3>0, <3>2
      <4>2. cells[j] = f.buf[f.bufpos + j - 1]
        BY <1>12, <4>1
      <4> QED
        BY <2>1, <2>2, <3>0, <3>1, <3>2, <4>2
    <3>3. CASE ~(j <= from)
      <4>1. j - from \in 1 .. kk /\ f.at + (j - from) = f.at + j - from
        BY <1>1, <1>3, <1>5, <3>0, <3>3
      <4>2. direct[j - from] = f.data[f.at + (j - from)]
        BY <1>13, <4>1
      <4> QED
        BY <2>1, <2>2, <3>0, <3>1, <3>3, <4>1, <4>2
    <3> QED
      BY <3>2, <3>3
  <2>5. Len(got) <= Len(a)
    BY <1>15, <2>3
  <2>6. got = SubSeq(a, 1, Len(got))
    BY <1>14, <2>1, <2>4, <2>5, PrefixIs
  <2>7. got = SubSeq(a, 1, total) /\ total <= Len(a) /\ total > 0
    BY <1>15, <1>16, <1>19, <2>3, <2>6
  <2>8. ~(total < Len(Back(f)))
    BY <1>1, <1>2, <1>3, <1>5
  <2>9. Place(g) = Place(f) + (total - Len(Back(f)))
    BY <1>1, <1>2, <1>3, <1>5, <1>10, SMTT(30)
  <2>10. HasRead(f, g, total, got)
    <3> HIDE DEF total
    <3> QED
      BY <1>10, <2>7, <2>8, <2>9 DEF HasRead, a
  <2>11. total \in 1 .. n
    BY <1>16, <1>19
  <2>12. got # <<>>
    <3> HIDE DEF total
    <3> QED
      BY <1>15, <1>19, EmptySeq
  <2> QED
    BY <1>8, <1>17, <2>10, <2>11, <2>12 DEF ReadUpTo
<1> QED
  BY <1>18, <1>19

(* fread reads up to the n characters it was asked for.                    *)
LEMMA FreadSees ==
    ASSUME NEW f0, Fine(f0), NEW n \in Nat, n > 0
    PROVE  LET r == fread(f0, n) IN Fine(r.f) /\ ReadUpTo(f0, r.f, n, r.rv)
<1> DEFINE f == StopWriting(f0)
           len == f.bufread - f.bufpos
           from == Larger(len, 0)
           k == ReadCount(f, n - from)
           rest == Taken(f, from)
           g == [rest EXCEPT !.at = rest.at + Larger(k, 0), !.mode = rest.mode \cup ReadFlag(k)]
           got == Cells(f.buf, f.bufpos, from) \o SubSeq(f.data, f.at + 1, f.at + Larger(k, 0))
           r == fread(f0, n)
<1>0. Good(r.f)
  BY FreadFacts DEF Fine
<1>1. r = CASE ~Readable(f0.mode) -> Ret(f, <<>>)
            [] Readable(f0.mode) /\ len >= n -> Ret(Taken(f, n), Cells(f.buf, f.bufpos, n))
            [] OTHER -> Ret(g, got)
  BY DEF fread
<1> HIDE DEF r
<1>2. Fine(f) /\ "WRITING" \notin f.mode /\ (Lost(f) \/ Same(f0, f))
  BY StopWritingSees
<1> HIDE DEF f
<1>3. /\ f.bufpos \in Nat /\ f.bufread \in Nat /\ f.bufpos <= f.bufread
  <2>1. /\ f.bufpos + f.pushed <= f.bufread
        /\ f.bufpos \in Nat /\ f.bufread \in Nat /\ f.pushed \in Nat
    BY <1>2, ReadView
  <2> QED
    BY <2>1
<1>4. from = len
  BY <1>3 DEF Larger
<1>5. CASE ~Readable(f0.mode)
  <2>1. r.f = f /\ r.rv = <<>>
    BY <1>1, <1>5
  <2> QED
    BY <1>2, <2>1 DEF r, ReadUpTo
<1>6. CASE Readable(f0.mode) /\ len >= n
  <2> DEFINE t == Taken(f, n)
             c == Cells(f.buf, f.bufpos, n)
  <2>1. r.f = t /\ r.rv = c
    BY <1>1, <1>6
  <2>2. f.bufpos + n <= f.bufread
    BY <1>3, <1>6
  <2>3. Fine(t) /\ (Lost(t) <=> Lost(f)) /\ HasRead(f, t, n, c) /\ c \in Seq(Byte) /\ Len(c) = n
    BY <1>2, <2>2, TakenSees
  <2> HIDE DEF t, c
  <2>4. c # <<>> /\ n \in 1 .. n
    BY <2>3, EmptySeq
  <2>5. ReadUpTo(f, t, n, c)
    BY <2>3, <2>4 DEF ReadUpTo
  <2>6. ReadUpTo(f0, t, n, c)
    <3>1. CASE Lost(f)
      BY <2>3, <3>1 DEF ReadUpTo
    <3>2. CASE Same(f0, f)
      BY <2>5, <3>2, SameThenRead
    <3> QED
      BY <1>2, <3>1, <3>2
  <2> QED
    BY <2>1, <2>3, <2>6 DEF r
<1>7. CASE Readable(f0.mode) /\ ~(len >= n)
  <2>1. r.f = g /\ r.rv = got
    BY <1>1, <1>7
  <2>2. n > f.bufread - f.bufpos
    BY <1>3, <1>7
  <2>3. Good(g)
    BY <1>0, <2>1 DEF r
  <2>4. Fine(g) /\ ReadUpTo(f, g, n, got) /\ (Lost(f) => Lost(g))
    <3> HIDE DEF from
    <3>1. from = f.bufread - f.bufpos
      BY <1>4
    <3> QED
      BY <1>2, <2>2, <2>3, <3>1, DirectSees
  <2> HIDE DEF g, got
  <2>5. ReadUpTo(f0, g, n, got)
    <3>1. CASE Lost(f)
      BY <2>4, <3>1 DEF ReadUpTo
    <3>2. CASE Same(f0, f)
      BY <2>4, <3>2, SameThenRead
    <3> QED
      BY <1>2, <3>1, <3>2
  <2> QED
    BY <2>1, <2>4, <2>5 DEF r
<1> QED
  BY <1>5, <1>6, <1>7

-----------------------------------------------------------------------------
(* Pushing a character back.                                               *)
Pushes(f, g, c) == Cont(g) = Cont(f) /\ Place(g) = Place(f) /\ Back(g) = <<c>> \o Back(f)

(* A cell in front of those pushed back makes one string with them.        *)
LEMMA CellInFront ==
    ASSUME NEW buf, NEW i \in Nat, NEW n \in Nat, NEW c \in Byte,
           \A j \in i + 1 .. i + n : j \in DOMAIN buf /\ buf[j] \in Byte
    PROVE  Cells(Put(buf, i, <<c>>), i, n + 1) = <<c>> \o Cells(buf, i + 1, n)
<1> DEFINE b == Put(buf, i, <<c>>)
           u == Cells(b, i, n + 1)
           d == <<c>>
           t == Cells(buf, i + 1, n)
           dt == d \o t
<1>1. d \in Seq(Byte) /\ Len(d) = 1 /\ d[1] = c
  BY OneChar
<1>2. ASSUME NEW j \in i .. i + (n + 1) - 1
      PROVE  b[j] = (IF j = i THEN c ELSE buf[j]) /\ b[j] \in Byte
  <2>1. CASE j = i
    <3>1. j \in i .. i + Len(<<c>>) - 1 /\ j - i + 1 = 1
      BY <1>1, <2>1
    <3>2. b[j] = <<c>>[1]
      BY <3>1 DEF Put
    <3> QED
      BY <1>1, <2>1, <3>2
  <2>2. CASE j # i
    <3>1. j \notin i .. i + Len(<<c>>) - 1 /\ j \in i + 1 .. i + n
      BY <1>1, <2>2
    <3>2. b[j] = buf[j]
      BY <3>1 DEF Put
    <3> QED
      BY <2>2, <3>1, <3>2
  <2> QED
    BY <2>1, <2>2
<1> HIDE DEF b
<1>3. u \in Seq(Byte) /\ Len(u) = n + 1
  BY <1>2, CellsString
<1>4. \A k \in 1 .. n + 1 : u[k] = b[i + k - 1]
  BY DEF Cells
<1>5. t \in Seq(Byte) /\ Len(t) = n
  <2> DEFINE e == i + 1
  <2>1. e \in Int /\ \A j \in e .. e + n - 1 : j \in i + 1 .. i + n
    OBVIOUS
  <2>2. \A j \in e .. e + n - 1 : buf[j] \in Byte
    BY <2>1
  <2> HIDE DEF e
  <2>3. Cells(buf, e, n) \in Seq(Byte) /\ Len(Cells(buf, e, n)) = n
    BY <2>1, <2>2, CellsString
  <2> QED
    BY <2>3 DEF e
<1>6. \A k \in 1 .. n : t[k] = buf[i + 1 + k - 1]
  BY DEF Cells
<1> HIDE DEF u, t, d
<1>7. /\ dt \in Seq(Byte) /\ Len(dt) = 1 + n
      /\ \A k \in 1 .. Len(d) + Len(t) : dt[k] = IF k <= Len(d) THEN d[k] ELSE t[k - Len(d)]
  <2>1. /\ dt \in Seq(Byte) /\ Len(dt) = Len(d) + Len(t)
        /\ \A k \in 1 .. Len(d) + Len(t) : dt[k] = IF k <= Len(d) THEN d[k] ELSE t[k - Len(d)]
    BY <1>1, <1>5, ConcatProperties
  <2> QED
    BY <1>1, <1>5, <2>1
<1> HIDE DEF dt
<1>8. ASSUME NEW k \in 1 .. Len(u) PROVE u[k] = dt[k]
  <2>0. k \in Nat /\ k \in 1 .. n + 1 /\ k \in 1 .. Len(d) + Len(t) /\ Len(d) = 1
    BY <1>1, <1>3, <1>5
  <2>1. i + k - 1 \in i .. i + (n + 1) - 1
    BY <2>0
  <2>2. u[k] = IF i + k - 1 = i THEN c ELSE buf[i + k - 1]
    BY <1>2, <1>4, <2>0, <2>1
  <2>3. dt[k] = IF k <= 1 THEN d[k] ELSE t[k - 1]
    BY <1>7, <2>0
  <2>4. CASE k = 1
    BY <1>1, <2>2, <2>3, <2>4
  <2>5. CASE k # 1
    <3>1. k - 1 \in 1 .. n /\ i + 1 + (k - 1) - 1 = i + k - 1 /\ i + k - 1 # i /\ ~(k <= 1)
      BY <2>0, <2>5
    <3>2. t[k - 1] = buf[i + 1 + (k - 1) - 1]
      BY <1>6, <3>1
    <3> QED
      BY <2>2, <2>3, <3>1, <3>2
  <2> QED
    BY <2>4, <2>5
<1>9. u = dt
  <2>1. Len(u) = Len(dt)
    BY <1>3, <1>7
  <2> QED
    BY <1>3, <1>7, <1>8, <2>1, SameSequence
<1> QED
  BY <1>9 DEF u, dt, d, t, b

(* ungetc of a stream that is reading pushes its character back or does    *)
(* nothing.                                                                *)
LEMMA UngetcSees ==
    ASSUME NEW f, Fine(f), "READING" \in f.mode, NEW c \in Byte
    PROVE  LET r == ungetc(f, c) IN
           /\ Fine(r.f)
           /\ \/ r.rv = EOF /\ Same(f, r.f)
              \/ r.rv = c /\ Pushes(f, r.f, c)
<1> DEFINE r == ungetc(f, c)
           g == [f EXCEPT !.mode = @ \cup {"UNGOT"}]
           back == [g EXCEPT !.bufpos = @ - 1, !.buf = Put(@, f.bufpos - 1, <<c>>),
                             !.pushed = @ + 1]
           first == [g EXCEPT !.bufread = 1, !.buf = Put(@, 0, <<c>>), !.pushed = @ + 1]
<1>0. Good(f) /\ InFile(f) /\ Matched(f)
  BY DEF Fine
<1>1. "WRITING" \notin f.mode
  BY <1>0 DEF Good, Safe
<1>2. Good(r.f)
  BY <1>0, UngetcFacts
<1>3. StopWriting(f) = f
  BY <1>1 DEF StopWriting
<1>4. \/ r.f = f /\ r.rv = EOF
      \/ r.f = g /\ r.rv = EOF
      \/ f.bufpos > 0 /\ r.f = back /\ r.rv = c
      \/ ~(f.bufpos > 0) /\ f.bufread = 0 /\ r.f = first /\ r.rv = c
  BY <1>3 DEF ungetc, RoomBehind
<1>5. /\ f.bufpos + f.pushed <= f.bufread /\ f.bufread <= f.at /\ f.at <= Len(f.data)
      /\ f.bufpos \in Nat /\ f.bufread \in Nat /\ f.pushed \in Nat /\ f.at \in Nat
      /\ Len(f.data) \in Nat
  BY <1>1, ReadView
<1>6. /\ Cont(f) = f.data /\ Back(f) = Cells(f.buf, f.bufpos, f.pushed)
      /\ Place(f) = f.at - (f.bufread - f.bufpos) + f.pushed /\ f \in FILE(f.buf)
  BY <1>1, ReadView
<1>7. /\ g.bufpos = f.bufpos /\ g.bufread = f.bufread /\ g.buf = f.buf /\ g.pushed = f.pushed
      /\ g.data = f.data /\ g.at = f.at /\ g.mode = f.mode \cup {"UNGOT"}
  BY <1>6 DEF FILE
<1>8. /\ back.bufpos = f.bufpos - 1 /\ back.bufread = f.bufread /\ back.pushed = f.pushed + 1
      /\ back.buf = Put(f.buf, f.bufpos - 1, <<c>>)
      /\ back.data = f.data /\ back.at = f.at /\ back.mode = f.mode \cup {"UNGOT"}
  BY <1>6 DEF FILE
<1>9. /\ first.bufpos = f.bufpos /\ first.bufread = 1 /\ first.pushed = f.pushed + 1
      /\ first.buf = Put(f.buf, 0, <<c>>)
      /\ first.data = f.data /\ first.at = f.at /\ first.mode = f.mode \cup {"UNGOT"}
  BY <1>6 DEF FILE
<1> HIDE DEF r, g, back, first
<1>10. CASE r.f = f /\ r.rv = EOF
  BY <1>10 DEF Same, r
<1>11. CASE r.f = g /\ r.rv = EOF
  <2>1. Same(f, g)
    BY <1>7 DEF Same, Cont, Place, Back, Out
  <2>2. Matched(g)
    BY <1>0, <1>7 DEF Matched
  <2>3. Fine(g)
    BY <1>0, <1>2, <1>7, <1>11, <2>2 DEF Fine, InFile
  <2> QED
    BY <1>11, <2>1, <2>3 DEF r
<1>12. ASSUME NEW h, NEW i \in Nat,
              /\ h.bufpos = i /\ h.pushed = f.pushed + 1 /\ h.buf = Put(f.buf, i, <<c>>)
              /\ h.data = f.data /\ h.at = f.at /\ h.mode = f.mode \cup {"UNGOT"},
              Good(h), h.bufpos + h.pushed <= h.bufread,
              \/ i = f.bufpos - 1 /\ h.bufread = f.bufread
              \/ i = 0 /\ f.bufpos = 0 /\ f.bufread = 0 /\ h.bufread = 1
       PROVE  Fine(h) /\ Pushes(f, h, c)
  <2>1. \A j \in i + 1 .. i + f.pushed : j \in DOMAIN f.buf /\ f.buf[j] \in Byte
    <3>1. \A j \in i + 1 .. i + f.pushed : j \in 0 .. f.bufread - 1
      BY <1>5, <1>12, SMTT(30)
    <3>2. \A j \in 0 .. Larger(f.bufpos, f.bufread) - 1 : j \in DOMAIN f.buf /\ f.buf[j] \in Byte
      BY <1>0 DEF Good, Typed
    <3>3. Larger(f.bufpos, f.bufread) = f.bufread
      BY <1>5 DEF Larger
    <3> QED
      BY <3>1, <3>2, <3>3
  <2>2. Cells(h.buf, i, f.pushed + 1) = <<c>> \o Cells(f.buf, i + 1, f.pushed)
    <3>1. f.pushed \in Nat
      BY <1>5
    <3>2. Cells(Put(f.buf, i, <<c>>), i, f.pushed + 1) = <<c>> \o Cells(f.buf, i + 1, f.pushed)
      BY <2>1, <3>1, CellInFront
    <3> QED
      BY <1>12, <3>2
  <2>3. "READING" \in h.mode /\ "WRITING" \notin h.mode /\ "UNGOT" \in h.mode
    BY <1>1, <1>12
  <2>4. /\ Cont(h) = h.data /\ Back(h) = Cells(h.buf, h.bufpos, h.pushed)
        /\ Place(h) = h.at - (h.bufread - h.bufpos) + h.pushed
    BY <2>3 DEF Cont, Back, Place, Out
  <2>5. Cells(f.buf, i + 1, f.pushed) = Back(f)
    <3>1. CASE i = f.bufpos - 1
      <4>1. i + 1 = f.bufpos
        BY <1>5, <3>1
      <4> QED
        BY <1>6, <4>1
    <3>2. CASE i = 0 /\ f.bufpos = 0 /\ f.bufread = 0
      <4>1. f.pushed = 0 /\ i + 1 \in Int /\ f.bufpos \in Int
        BY <1>5, <3>2
      <4>2. Cells(f.buf, i + 1, 0) = <<>> /\ Cells(f.buf, f.bufpos, 0) = <<>>
        BY <4>1, NoCells
      <4> QED
        BY <1>6, <4>1, <4>2
    <3> QED
      BY <1>12, <3>1, <3>2
  <2>6. Place(h) = Place(f)
    <3>1. CASE i = f.bufpos - 1 /\ h.bufread = f.bufread
      <4>1. Place(h) = f.at - (f.bufread - (f.bufpos - 1)) + (f.pushed + 1)
        BY <1>12, <2>4, <3>1
      <4>2. f.at \in Int /\ f.bufread \in Int /\ f.bufpos \in Int /\ f.pushed \in Int
        BY <1>5
      <4>3. Place(f) = f.at - (f.bufread - f.bufpos) + f.pushed
        BY <1>6
      <4> QED
        BY <4>1, <4>2, <4>3
    <3>2. CASE i = 0 /\ f.bufpos = 0 /\ f.bufread = 0 /\ h.bufread = 1
      BY <1>5, <1>6, <1>12, <2>4, <3>2
    <3> QED
      BY <1>12, <3>1, <3>2
  <2>7. Pushes(f, h, c)
    BY <1>6, <1>12, <2>2, <2>4, <2>5, <2>6 DEF Pushes
  <2>8. \A j \in h.bufpos + h.pushed .. h.bufread - 1 : h.buf[j] = h.data[h.at - h.bufread + j + 1]
    <3> SUFFICES ASSUME NEW j \in h.bufpos + h.pushed .. h.bufread - 1
                 PROVE  h.buf[j] = h.data[h.at - h.bufread + j + 1]
      OBVIOUS
    <3>1. CASE i = f.bufpos - 1 /\ h.bufread = f.bufread
      <4>1. j \in f.bufpos + f.pushed .. f.bufread - 1 /\ j \in Int /\ j > i /\ j \in 0 .. f.bufread - 1
        BY <1>5, <1>12, <3>1
      <4>2. f.buf[j] = f.data[f.at - f.bufread + j + 1]
        BY <1>0, <4>1 DEF Matched
      <4>3. j \in DOMAIN f.buf
        <5>1. Larger(f.bufpos, f.bufread) = f.bufread
          BY <1>5 DEF Larger
        <5> QED
          BY <1>0, <4>1, <5>1 DEF Good, Typed
      <4>4. j \notin i .. i + Len(<<c>>) - 1
        BY <4>1, OneChar
      <4>5. h.buf[j] = f.buf[j]
        BY <1>12, <4>3, <4>4 DEF Put
      <4> QED
        BY <1>12, <3>1, <4>2, <4>5
    <3>2. CASE i = 0 /\ f.bufpos = 0 /\ f.bufread = 0 /\ h.bufread = 1
      <4>1. f.pushed = 0
        BY <1>5, <3>2
      <4> QED
        BY <1>12, <3>2, <4>1
    <3> QED
      BY <1>12, <3>1, <3>2
  <2>9. Matched(h)
    BY <1>12, <2>3, <2>8 DEF Matched
  <2> QED
    BY <1>5, <1>12, <2>7, <2>9 DEF Fine, InFile
<1>13. CASE f.bufpos > 0 /\ r.f = back /\ r.rv = c
  <2> DEFINE i == f.bufpos - 1
  <2>1. i \in Nat /\ back.bufpos + back.pushed <= back.bufread
    BY <1>5, <1>8, <1>13
  <2>2. Fine(back) /\ Pushes(f, back, c)
    BY <1>2, <1>8, <1>12, <1>13, <2>1
  <2> QED
    BY <1>13, <2>2 DEF r
<1>14. CASE ~(f.bufpos > 0) /\ f.bufread = 0 /\ r.f = first /\ r.rv = c
  <2>1. f.bufpos = 0 /\ f.pushed = 0 /\ first.bufpos + first.pushed <= first.bufread
    BY <1>5, <1>9, <1>14
  <2>2. Fine(first) /\ Pushes(f, first, c)
    BY <1>2, <1>9, <1>12, <1>14, <2>1
  <2> QED
    BY <1>14, <2>2 DEF r
<1> QED
  BY <1>4, <1>10, <1>11, <1>13, <1>14

-----------------------------------------------------------------------------
(* Seeking.                                                                *)
To(f, p, offset, ref) ==
    CASE ref = "SET" -> offset
      [] ref = "CUR" -> p + offset
      [] ref = "END" -> Len(Cont(f)) + offset

Sought(f, g, offset, ref) ==
    \E p \in PlacesOf(f) :
        /\ To(f, p, offset, ref) >= 0 /\ Place(g) = To(f, p, offset, ref)
        /\ Cont(g) = Cont(f) /\ Back(g) = <<>>

(* lseek of an emptied stream moves it.                                    *)
LEMMA LseekSees ==
    ASSUME NEW g, Fine(g), IsEmptied(g), g.pushed = 0,
           NEW offset \in Int, NEW ref \in {"SET", "CUR", "END"}
    PROVE  LET r == lseek(g, offset, ref)
               to == CASE ref = "SET" -> offset
                       [] ref = "CUR" -> g.at + offset
                       [] ref = "END" -> Len(g.data) + offset
           IN  /\ to \in Int /\ r.f.data = g.data /\ r.f.mode = g.mode /\ r.f.pushed = 0
               /\ r.f.at <= Len(r.f.data) => Fine(r.f)
               /\ Cont(r.f) = g.data /\ Back(r.f) = <<>>
               /\ \/ r.rv = EOF /\ r.f = g
                  \/ r.rv = 0 /\ to >= 0 /\ Place(r.f) = to
<1> DEFINE to == CASE ref = "SET" -> offset
                   [] ref = "CUR" -> g.at + offset
                   [] ref = "END" -> Len(g.data) + offset
           r == lseek(g, offset, ref)
<1>0. Good(g)
  BY DEF Fine
<1>1. /\ g \in FILE(g.buf) /\ g.at \in Nat /\ Len(g.data) \in Nat /\ g.bufpos = 0 /\ g.bufread = 0
      /\ "READING" \notin g.mode /\ "WRITING" \notin g.mode
  BY <1>0, Fields, LenProperties DEF IsEmptied
<1>2. to \in Int
  <2>1. CASE ref = "SET" BY <2>1
  <2>2. CASE ref = "CUR" BY <2>2, <1>1
  <2>3. CASE ref = "END" BY <2>3, <1>1
  <2> QED
    BY <2>1, <2>2, <2>3
<1>3. r = IF to < 0 THEN Ret(g, EOF) ELSE Ret([g EXCEPT !.at = to], 0)
  BY DEF lseek
<1>4. Good(r.f)
  BY <1>0, LseekFacts
<1> HIDE DEF to, r
<1>5. /\ r.f.data = g.data /\ r.f.mode = g.mode /\ r.f.pushed = 0 /\ r.f.bufpos = 0
      /\ r.f.bufread = 0 /\ r.f.bufwrite = g.bufwrite
      /\ \/ r.rv = EOF /\ r.f = g
         \/ r.rv = 0 /\ to >= 0 /\ r.f.at = to
  <2>1. CASE to < 0
    <3>1. r.f = g /\ r.rv = EOF
      BY <1>3, <2>1
    <3> QED
      BY <1>1, <3>1
  <2>2. CASE ~(to < 0)
    <3> DEFINE h == [g EXCEPT !.at = to]
    <3>1. r.f = h /\ r.rv = 0
      BY <1>3, <2>2
    <3>2. /\ h.data = g.data /\ h.mode = g.mode /\ h.pushed = 0 /\ h.bufpos = 0 /\ h.bufread = 0
          /\ h.bufwrite = g.bufwrite /\ h.at = to
      BY <1>1 DEF FILE
    <3> HIDE DEF h
    <3> QED
      BY <1>2, <2>2, <3>1, <3>2
  <2> QED
    BY <2>1, <2>2
<1>6. IsEmptied(r.f)
  BY <1>5 DEF IsEmptied
<1>7. Cont(r.f) = r.f.data /\ Place(r.f) = r.f.at /\ Back(r.f) = <<>>
  <2>1. r.f.at \in Nat
    BY <1>4, Fields
  <2>2. Back(r.f) = Cells(r.f.buf, 0, 0) /\ Place(r.f) = r.f.at - (0 - 0) + 0 /\ Cont(r.f) = r.f.data
    BY <1>1, <1>5 DEF Cont, Back, Place, Out
  <2> QED
    BY <2>1, <2>2, NoCells
<1>8. r.f.at <= Len(r.f.data) => Fine(r.f)
  BY <1>4, <1>5, <1>6, EmptiedView DEF InFile
<1>9. \/ r.rv = EOF /\ r.f = g
      \/ r.rv = 0 /\ to >= 0 /\ Place(r.f) = to
  BY <1>5, <1>7
<1> QED
  BY <1>2, <1>5, <1>7, <1>8, <1>9 DEF r, to

(* All of the buffer is what lies before the descriptor.                   *)
InFront(f) == \A i \in 0 .. f.bufread - 1 : f.buf[i] = f.data[f.at - f.bufread + i + 1]

(* fseek inside the buffer or out of it goes where it is told or fails.    *)
LEMMA FseekSees ==
    ASSUME NEW f, Fine(f), NEW offset \in Int, NEW ref \in {"SET", "CUR", "END"},
           fseek(f, offset, ref).f.at <= Len(fseek(f, offset, ref).f.data),
           "READING" \in f.mode /\ "UNGOT" \notin f.mode =>
              InFront(f) \/ (ref = "SET" /\ offset = 0)
    PROVE  LET r == fseek(f, offset, ref) IN
           /\ Fine(r.f)
           /\ \/ Lost(r.f)
              \/ r.rv = EOF /\ Dropped(f, r.f)
              \/ r.rv = 0 /\ Sought(f, r.f, offset, ref)
<1> DEFINE absolute == IF ref = "CUR" THEN f.at + offset + f.bufpos - f.bufread ELSE offset
           flushed == fflush(f)
           p == absolute - f.at + f.bufread
           g == [f EXCEPT !.bufpos = p]
           slow == IF Fast(f, ref) THEN lseek(flushed.f, absolute, "SET") ELSE lseek(flushed.f, offset, ref)
           r == fseek(f, offset, ref)
<1>0. Good(f) /\ InFile(f) /\ Matched(f) /\ Good(r.f)
  BY FseekFacts DEF Fine
<1>1. /\ f \in FILE(f.buf) /\ f.at \in Nat /\ f.bufpos \in Nat /\ f.bufread \in Nat
      /\ f.pushed \in Nat /\ f.bufend \in Nat
  BY <1>0, Fields
<1>2. absolute \in Int
  BY <1>1
<1>3. r.f.at <= Len(r.f.data)
  OBVIOUS
<1>4. r = CASE Fast(f, ref) /\ InBuffer(f, absolute) -> Ret(g, 0)
            [] ~(Fast(f, ref) /\ InBuffer(f, absolute)) /\ flushed.rv = EOF -> flushed
            [] ~(Fast(f, ref) /\ InBuffer(f, absolute)) /\ flushed.rv # EOF -> slow
  BY DEF fseek
<1>5. ref = "CUR" => absolute = f.at + offset + f.bufpos - f.bufread
  OBVIOUS
<1>6. ref # "CUR" => absolute = offset
  OBVIOUS
<1> HIDE DEF absolute, r
<1>7. CASE Fast(f, ref) /\ InBuffer(f, absolute)
  <2>1. "READING" \in f.mode /\ "UNGOT" \notin f.mode /\ ref \in {"SET", "CUR"}
    BY <1>7 DEF Fast
  <2>2. "WRITING" \notin f.mode
    BY <1>0, <2>1 DEF Good, Safe
  <2>3. ~(f.pushed > 0) /\ f.pushed = 0
    BY <1>0, <1>1, <2>1 DEF Matched
  <2>4. f.bufread <= f.at /\ f.bufpos <= f.bufread
    BY <1>0, <2>1, <2>2 DEF Good, Safe
  <2>5. absolute < f.at /\ absolute >= f.at - f.bufread
    BY <1>7 DEF InBuffer
  <2>6. p \in Nat /\ p < f.bufread /\ p - f.bufread = absolute - f.at
    BY <1>1, <1>2, <2>5
  <2>7. r.f = g /\ r.rv = 0
    BY <1>4, <1>7
  <2>8. /\ g.bufpos = p /\ g.bufread = f.bufread /\ g.buf = f.buf /\ g.pushed = f.pushed
        /\ g.data = f.data /\ g.at = f.at /\ g.mode = f.mode
    BY <1>1 DEF FILE
  <2> HIDE DEF g, p
  <2>9. \A i \in 0 .. f.bufread - 1 : f.buf[i] = f.data[f.at - f.bufread + i + 1]
    <3>1. CASE InFront(f)
      BY <3>1 DEF InFront
    <3>2. CASE ref = "SET" /\ offset = 0
      <4>1. absolute = 0
        BY <1>6, <3>2
      <4>2. f.at = f.bufread
        BY <1>1, <2>4, <2>5, <4>1
      <4>3. \A i \in 0 .. f.bufread - 1 : f.buf[i] = f.data[i + 1]
        BY <1>0, <2>1, <4>2 DEF Matched
      <4>4. ASSUME NEW i \in 0 .. f.bufread - 1 PROVE f.at - f.bufread + i + 1 = i + 1
        BY <1>1, <4>2
      <4> QED
        BY <4>3, <4>4
    <3> QED
      BY <2>1, <3>1, <3>2
  <2>10. Matched(g)
    <3>1. \A i \in g.bufpos + g.pushed .. g.bufread - 1 : i \in 0 .. f.bufread - 1
      BY <1>1, <2>3, <2>6, <2>8
    <3>2. \A i \in g.bufpos + g.pushed .. g.bufread - 1 : g.buf[i] = g.data[g.at - g.bufread + i + 1]
      BY <2>8, <2>9, <3>1
    <3>3. g.bufpos + g.pushed <= g.bufread
      BY <1>1, <2>3, <2>6, <2>8
    <3>4. "UNGOT" \notin g.mode /\ g.at = g.bufread => \A i \in 0 .. g.bufread - 1 : g.buf[i] = g.data[i + 1]
      BY <1>0, <2>1, <2>8 DEF Matched
    <3> QED
      BY <2>1, <2>3, <2>8, <3>2, <3>3, <3>4 DEF Matched
  <2>11. Fine(g)
    BY <1>0, <1>3, <2>7, <2>10 DEF Fine, InFile
  <2>12. /\ Cont(g) = Cont(f) /\ Back(g) = Cells(g.buf, g.bufpos, 0)
         /\ Place(g) = f.at - (f.bufread - p) + 0 /\ Place(f) = f.at - (f.bufread - f.bufpos) + 0
    BY <2>2, <2>3, <2>8 DEF Cont, Back, Place, Out
  <2>13. Back(g) = <<>>
    BY <2>6, <2>8, <2>12, NoCells
  <2>14. Place(g) = absolute /\ absolute >= 0
    <3>1. /\ f.at \in Int /\ f.bufread \in Int /\ f.bufread <= f.at /\ p \in Int
          /\ p - f.bufread = absolute - f.at /\ absolute >= f.at - f.bufread
          /\ Place(g) = f.at - (f.bufread - p) + 0
      BY <1>1, <2>4, <2>5, <2>6, <2>12
    <3> QED
      BY <1>2, <3>1
  <2>15. absolute = To(f, Place(f), offset, ref)
    <3>1. CASE ref = "CUR"
      <4>1. absolute = f.at + offset + f.bufpos - f.bufread
        BY <1>5, <3>1
      <4>2. absolute = Place(f) + offset
        BY <1>1, <2>12, <4>1
      <4> QED
        BY <3>1, <4>2 DEF To
    <3>2. CASE ref = "SET"
      BY <1>6, <3>2 DEF To
    <3> QED
      BY <2>1, <3>1, <3>2
  <2>16. Place(f) \in PlacesOf(f)
    BY FineView
  <2> QED
    BY <2>7, <2>11, <2>12, <2>13, <2>14, <2>15, <2>16 DEF Sought, r
<1>8. CASE ~(Fast(f, ref) /\ InBuffer(f, absolute))
  <2>1. /\ Fine(flushed.f) /\ IsEmptied(flushed.f) /\ flushed.f.pushed = 0
        /\ (flushed.rv = EOF => Lost(flushed.f)) /\ (Lost(flushed.f) \/ Dropped(f, flushed.f))
        /\ ~Lost(flushed.f) => flushed.f.data = Cont(f)
    BY FlushSees
  <2>2. Place(flushed.f) = flushed.f.at
    BY <2>1, EmptiedView DEF Fine
  <2>3. CASE flushed.rv = EOF
    <3>1. r = flushed
      BY <1>4, <1>8, <2>3
    <3> HIDE DEF flushed
    <3> QED
      BY <2>1, <2>3, <3>1 DEF r
  <2>4. CASE flushed.rv # EOF
    <3> DEFINE h == flushed.f
               where == IF Fast(f, ref) THEN absolute ELSE offset
               mode == IF Fast(f, ref) THEN "SET" ELSE ref
               to == CASE mode = "SET" -> where
                       [] mode = "CUR" -> h.at + where
                       [] mode = "END" -> Len(h.data) + where
    <3>1. r = lseek(h, where, mode)
      BY <1>4, <1>8, <2>4
    <3>2. where \in Int /\ mode \in {"SET", "CUR", "END"}
      BY <1>2
    <3> HIDE DEF h, where, mode, flushed
    <3>3. Fine(h) /\ IsEmptied(h) /\ h.pushed = 0 /\ (Lost(h) \/ Dropped(f, h)) /\ Place(h) = h.at
          /\ (~Lost(h) => h.data = Cont(f))
      BY <2>1, <2>2 DEF h
    <3>4. /\ to \in Int /\ r.f.mode = h.mode /\ (r.f.at <= Len(r.f.data) => Fine(r.f))
          /\ Cont(r.f) = h.data /\ Back(r.f) = <<>>
          /\ \/ r.rv = EOF /\ r.f = h
             \/ r.rv = 0 /\ to >= 0 /\ Place(r.f) = to
      BY <3>1, <3>2, <3>3, LseekSees
    <3> HIDE DEF to
    <3>5. Fine(r.f) /\ (Lost(h) => Lost(r.f))
      BY <1>3, <3>4 DEF Lost
    <3>6. CASE Lost(h)
      BY <3>5, <3>6 DEF r
    <3>7. CASE ~Lost(h)
      <4>1. Dropped(f, h) /\ h.data = Cont(f) /\ h.at \in PlacesOf(f) /\ Cont(r.f) = Cont(f)
        BY <3>3, <3>4, <3>7 DEF Dropped
      <4>2. CASE r.rv = EOF /\ r.f = h
        BY <3>5, <4>1, <4>2 DEF r
      <4>3. CASE r.rv = 0 /\ to >= 0 /\ Place(r.f) = to
        <5>1. \E q \in PlacesOf(f) : to = To(f, q, offset, ref)
          <6>1. CASE Fast(f, ref)
            <7>1. to = absolute
              BY <6>1 DEF to, mode, where
            <7>2. "READING" \in f.mode /\ ref \in {"SET", "CUR"}
              BY <6>1 DEF Fast
            <7>3. f.at - (f.bufread - f.bufpos) \in PlacesOf(f)
              BY <7>2, InView
            <7>4. CASE ref = "CUR"
              <8>1. absolute = f.at + offset + f.bufpos - f.bufread
                BY <1>5, <7>4
              <8>2. absolute = (f.at - (f.bufread - f.bufpos)) + offset
                BY <1>1, <8>1
              <8>3. to = To(f, f.at - (f.bufread - f.bufpos), offset, ref)
                BY <7>1, <7>4, <8>2 DEF To
              <8> QED
                BY <7>3, <8>3
            <7>5. CASE ref = "SET"
              BY <1>6, <7>1, <7>3, <7>5 DEF To
            <7> QED
              BY <7>2, <7>4, <7>5
          <6>2. CASE ~Fast(f, ref)
            <7>1. to = To(f, h.at, offset, ref)
              <8>1. mode = ref /\ where = offset /\ Len(h.data) = Len(Cont(f))
                BY <4>1, <6>2 DEF mode, where
              <8>2. CASE ref = "SET"
                BY <8>1, <8>2 DEF to, To
              <8>3. CASE ref = "CUR"
                BY <8>1, <8>3 DEF to, To
              <8>4. CASE ref = "END"
                BY <8>1, <8>4 DEF to, To
              <8> QED
                BY <8>2, <8>3, <8>4
            <7> QED
              BY <4>1, <7>1
          <6> QED
            BY <6>1, <6>2
        <5> QED
          BY <3>4, <3>5, <4>1, <4>3, <5>1 DEF Sought, r
      <4> QED
        BY <3>4, <4>2, <4>3
    <3> QED
      BY <3>6, <3>7
  <2> QED
    BY <2>3, <2>4
<1> QED
  BY <1>7, <1>8

(* clearerr changes nothing to be seen, and rewind keeps the stream fine.  *)
LEMMA ClearerrSees ==
    ASSUME NEW f, Good(f), f.at <= Len(f.data), Matched(f)
    PROVE  Fine(clearerr(f)) /\ Same(f, clearerr(f))
<1> DEFINE g == clearerr(f)
<1>1. f \in FILE(f.buf)
  BY Fields
<1>2. /\ g.bufpos = f.bufpos /\ g.bufread = f.bufread /\ g.buf = f.buf
      /\ g.data = f.data /\ g.at = f.at /\ g.pushed = f.pushed /\ g.mode = f.mode \ {"EOF", "ERR"}
  BY <1>1 DEF clearerr, FILE
<1>3. Good(g)
  BY ClearerrFacts
<1> HIDE DEF g
<1>4. \A x \in {"WRITING", "READING", "UNGOT"} : x \in g.mode <=> x \in f.mode
  BY <1>2
<1>5. /\ Cont(g) = Cont(f) /\ Place(g) = Place(f) /\ Back(g) = Back(f)
      /\ (Matched(g) <=> Matched(f))
  BY <1>2, <1>4, ViewOnly
<1> QED
  BY <1>2, <1>3, <1>5 DEF Fine, InFile, Same, g

(* rewind keeps what the others rely on; it tells of no loss.              *)
LEMMA RewindSees ==
    ASSUME NEW f, Fine(f), rewind(f).at <= Len(rewind(f).data)
    PROVE  Fine(rewind(f))
<1> DEFINE g == fseek(f, 0, "SET").f
           zero == 0
<1>0. Good(g)
  BY FseekFacts DEF Fine
<1>1. g \in FILE(g.buf)
  BY <1>0, Fields
<1>2. rewind(f) = clearerr(g)
  BY DEF rewind
<1> HIDE DEF g
<1>3. clearerr(g).at = g.at /\ clearerr(g).data = g.data
  BY <1>1 DEF clearerr, FILE
<1>4. g.at <= Len(g.data)
  BY <1>2, <1>3
<1>5. Fine(g)
  <2>1. zero \in Int /\ zero = 0 /\ fseek(f, zero, "SET").f = g
    BY DEF g
  <2> HIDE DEF zero
  <2> QED
    BY <1>4, <2>1, FseekSees
<1> QED
  BY <1>2, <1>5, ClearerrSees DEF Fine, InFile

(* Another buffer takes the place of one that fflush has emptied.          *)
LEMMA NewBufferSees ==
    ASSUME NEW f, Fine(f), NEW kind \in {{}, {"IOLBF"}, {"IONBF"}}, NEW size \in Nat \ {0}
    PROVE  LET h == NewBuffer(f, kind, size) IN Fine(h) /\ (Lost(h) \/ Dropped(f, h))
<1> DEFINE g == fflush(f).f
           h == NewBuffer(f, kind, size)
           end == IF kind = {"IONBF"} THEN UNBUF ELSE size
           m == (g.mode \ {"IOLBF", "IONBF"}) \cup kind
<1>0. Good(h)
  BY NewBufferFacts DEF Fine
<1>1. h = [g EXCEPT !.bufend = end, !.buf = <<>>, !.mode = m]
  BY DEF NewBuffer
<1>2. Fine(g) /\ IsEmptied(g) /\ g.pushed = 0 /\ (Lost(g) \/ Dropped(f, g))
  BY FlushSees
<1> HIDE DEF g, h, end
<1>3. g \in FILE(g.buf)
  BY <1>2, Fields DEF Fine
<1>4. /\ h.bufpos = g.bufpos /\ h.bufread = g.bufread /\ h.bufwrite = g.bufwrite
      /\ h.data = g.data /\ h.at = g.at /\ h.pushed = g.pushed /\ h.mode = m
  BY <1>1, <1>3 DEF FILE
<1>5. \A x \in {"READING", "WRITING", "EOF", "UNGOT", "ERR"} : x \in m <=> x \in g.mode
  OBVIOUS
<1> HIDE DEF m
<1>6. IsEmptied(h) /\ (Lost(h) <=> Lost(g))
  BY <1>2, <1>4, <1>5 DEF IsEmptied, Lost
<1>7. InFile(h)
  BY <1>2, <1>4 DEF Fine, InFile
<1>8. Fine(h) /\ Cont(h) = h.data /\ Place(h) = h.at /\ Back(h) = <<>>
  BY <1>0, <1>2, <1>4, <1>6, <1>7, EmptiedView
<1>9. Cont(g) = g.data /\ Place(g) = g.at /\ Back(g) = <<>>
  BY <1>2, EmptiedView DEF Fine
<1> QED
  BY <1>2, <1>4, <1>6, <1>8, <1>9 DEF Dropped, h

-----------------------------------------------------------------------------
(* Each call is a step of Stream.  Seen: the step under way takes what the *)
(* user sees of the stream from f to g, and the call is what.              *)
Seen(f, g, what) ==
    /\ Content = Cont(f) /\ Position = Place(f) /\ Pushed = Back(f)
    /\ Content' = Cont(g) /\ Position' = Place(g) /\ Pushed' = Back(g)
    /\ call' = what

(* The steps of Stream, said of the FILE before the call and the one after *)
(* it.                                                                     *)
LEMMA SeenPlaces ==
    ASSUME NEW f, Position = Place(f), Pushed = Back(f)
    PROVE  Unbuffered!Places = PlacesOf(f)
BY DEF Unbuffered!Places, PlacesOf

(* A call that reports nothing.                                            *)
LEMMA SeenOther ==
    ASSUME NEW f, NEW g, Seen(f, g, Nothing), Same(f, g) \/ Dropped(f, g)
    PROVE  Unbuffered!Next
<1>1. Unbuffered!Places = PlacesOf(f)
  BY SeenPlaces DEF Seen
<1>2. Unbuffered!Other
  BY <1>1 DEF Seen, Same, Dropped, Nothing, Unbuffered!Other
<1> QED
  BY <1>2 DEF Unbuffered!Next

(* A call that returns k of n characters.                                  *)
LEMMA SeenRead ==
    ASSUME NEW f, NEW g, NEW n \in 1 .. MaxLen, NEW k \in 1 .. n, NEW got,
           Seen(f, g, [op |-> "read", n |-> n, got |-> got]), HasRead(f, g, k, got)
    PROVE  Unbuffered!Next
<1>1. Unbuffered!Ahead = Ahead(f)
  BY DEF Unbuffered!Ahead, Ahead, Seen
<1>2. Unbuffered!Read(n)
  BY <1>1 DEF Seen, HasRead, Unbuffered!Read
<1> QED
  BY <1>2 DEF Unbuffered!Next

(* A character is pushed back.                                             *)
LEMMA SeenUnget ==
    ASSUME NEW f, NEW g, NEW c \in Byte,
           Seen(f, g, [op |-> "ungetc", n |-> c, got |-> <<c>>]), Pushes(f, g, c)
    PROVE  Unbuffered!Next
<1>1. Unbuffered!Unget(c)
  BY DEF Seen, Pushes, Unbuffered!Unget
<1> QED
  BY <1>1 DEF Unbuffered!Next

(* The string s is written.                                                *)
LEMMA SeenWrite ==
    ASSUME NEW f, NEW g, NEW n \in 1 .. MaxLen, NEW s \in [1 .. n -> Byte], Len(s) = n,
           Seen(f, g, [op |-> "write", n |-> n, got |-> s]), Written(f, g, s)
    PROVE  Unbuffered!Next
<1>1. Unbuffered!Places = PlacesOf(f)
  BY SeenPlaces DEF Seen
<1>2. Unbuffered!Write(s)
  BY <1>1 DEF Seen, Written, Over, Unbuffered!Write
<1> QED
  BY <1>2 DEF Unbuffered!Next

(* The stream is moved.                                                    *)
LEMMA SeenSeek ==
    ASSUME NEW f, NEW g, NEW offset \in Offsets \cup {0}, NEW ref \in {"SET", "CUR", "END"},
           Seen(f, g, [op |-> ref, n |-> offset, got |-> <<>>]), Sought(f, g, offset, ref)
    PROVE  Unbuffered!Next
<1>1. Unbuffered!Places = PlacesOf(f)
  BY SeenPlaces DEF Seen
<1>2. \A p : Unbuffered!Target(p, offset, ref) = To(f, p, offset, ref)
  BY DEF Seen, Unbuffered!Target, To
<1>3. Unbuffered!Seek(offset, ref)
  BY <1>1, <1>2 DEF Seen, Sought, Unbuffered!Seek
<1> QED
  BY <1>3 DEF Unbuffered!Next

(* ftell: what it returns is where the stream is afterwards.               *)
LEMMA SeenTell ==
    ASSUME NEW f, NEW g, Fine(f), Dropped(f, g),
           Seen(f, g, [op |-> "ftell", n |-> Place(g), got |-> <<>>])
    PROVE  Unbuffered!Next
<1>1. Unbuffered!Places = PlacesOf(f)
  BY SeenPlaces DEF Seen
<1>2. Unbuffered!Tell
  BY <1>1 DEF Seen, Dropped, Unbuffered!Tell
<1> QED
  BY <1>2 DEF Unbuffered!Next

(* A call begins with the stream as it is.                                 *)
LEMMA CallSees ==
    ASSUME Fine(fp), NEW room \in Nat, NEW take \in Int
    PROVE  LET f == System(room, take) IN
           Fine(f) /\ Content = Cont(f) /\ Position = Place(f) /\ Pushed = Back(f)
<1> DEFINE f == System(room, take)
<1>1. fp \in FILE(fp.buf) /\ fp.at \in Nat
  BY Fields DEF Fine
<1>2. /\ f \in FILE(fp.buf) /\ f.at = fp.at /\ f.mode = fp.mode /\ f.data = fp.data
      /\ f.bufpos = fp.bufpos /\ f.bufread = fp.bufread /\ f.bufwrite = fp.bufwrite
      /\ f.bufend = fp.bufend /\ f.buf = fp.buf /\ f.pushed = fp.pushed
  BY <1>1 DEF System, FILE
<1> HIDE DEF f
<1>3. Good(f)
  BY <1>1, <1>2, AdvanceFacts DEF Fine
<1>4. /\ Cont(f) = Cont(fp) /\ Place(f) = Place(fp) /\ Back(f) = Back(fp)
      /\ (Matched(f) <=> Matched(fp))
  BY <1>2, ViewOnly
<1>5. Content = Cont(fp) /\ Position = Place(fp) /\ Pushed = Back(fp)
  BY DEF Content, Position, Pushed, Writing, Cont, Place, Back, Out
<1> QED
  BY <1>2, <1>3, <1>4, <1>5 DEF Fine, InFile, f

(* And ends with it as the call leaves it.                                 *)
LEMMA FinishSees ==
    ASSUME NEW g, Fine(g), NEW what, Finish(g, what)
    PROVE  /\ Fine(fp') /\ ("ERR" \in fp'.mode <=> Lost(g))
           /\ Content' = Cont(g) /\ Position' = Place(g) /\ Pushed' = Back(g) /\ call' = what
<1> DEFINE h == [g EXCEPT !.room = 0, !.take = 0]
<1>1. g \in FILE(g.buf) /\ g.at \in Nat
  BY Fields DEF Fine
<1>2. fp' = h /\ call' = what
  BY DEF Finish
<1>3. /\ h.at = g.at /\ h.mode = g.mode /\ h.data = g.data
      /\ h.bufpos = g.bufpos /\ h.bufread = g.bufread /\ h.buf = g.buf /\ h.pushed = g.pushed
  BY <1>1 DEF FILE
<1>4. Good(fp') /\ InFile(fp')
  <2>1. Inv'
    BY FinishInv DEF Fine
  <2> QED
    BY <2>1 DEF Inv, Good, Typed, Safe, Kept, InFile
<1> HIDE DEF h
<1>5. /\ Cont(h) = Cont(g) /\ Place(h) = Place(g) /\ Back(h) = Back(g)
      /\ (Matched(h) <=> Matched(g))
  BY <1>3, ViewOnly
<1>6. Content' = Cont(fp') /\ Position' = Place(fp') /\ Pushed' = Back(fp')
  BY DEF Content, Position, Pushed, Writing, Cont, Place, Back, Out
<1> QED
  BY <1>2, <1>3, <1>4, <1>5, <1>6 DEF Fine, Lost

-----------------------------------------------------------------------------
Reported ==
    \/ "ERR" \in fp'.mode
    \/ Unbuffered!Next
    \/ \E room \in Rooms : Rewind(System(room, 0))

(* One lemma for each kind of call, with the system as it is at the call.  *)
Calling(f) == Fine(f) /\ Content = Cont(f) /\ Position = Place(f) /\ Pushed = Back(f)

(* The end of a call, as its user sees it.                                 *)
LEMMA EndsSeen ==
    ASSUME NEW f, Calling(f), NEW g, Fine(g), NEW what, Finish(g, what)
    PROVE  Fine(fp') /\ Seen(f, g, what) /\ ("ERR" \in fp'.mode <=> Lost(g))
BY FinishSees DEF Calling, Seen

(* From here on one lemma for each operation: what the call does, Stream   *)
(* can do, or the loss is flagged.                                         *)
LEMMA PutSeen ==
    ASSUME NEW f, Calling(f), NEW c \in Byte, Putc(f, c) \/ Fputc(f, c)
    PROVE  Fine(fp') /\ Reported
<1>1. PICK r : /\ Fine(r.f) /\ r.rv \in {c, EOF} /\ Finish(r.f, Wrote(r.rv, <<c>>))
               /\ \/ Lost(r.f)
                  \/ r.rv = EOF /\ Dropped(f, r.f)
                  \/ r.rv = c /\ Written(f, r.f, <<c>>)
  BY PutcSees, FputcSees DEF Putc, Fputc, Calling
<1>2. Fine(r.f) /\ Finish(r.f, Wrote(r.rv, <<c>>))
  BY <1>1
<1>3. Fine(fp') /\ Seen(f, r.f, Wrote(r.rv, <<c>>)) /\ ("ERR" \in fp'.mode <=> Lost(r.f))
  BY <1>2, EndsSeen
<1>4. CASE Lost(r.f)
  BY <1>3, <1>4 DEF Reported
<1>5. CASE r.rv = EOF /\ Dropped(f, r.f)
  <2>1. Wrote(r.rv, <<c>>) = Nothing
    BY <1>5 DEF Wrote
  <2> QED
    BY <1>3, <1>5, <2>1, SeenOther DEF Reported
<1>6. CASE r.rv = c /\ Written(f, r.f, <<c>>)
  <2> DEFINE s == <<c>>
  <2>1. c # EOF /\ 1 \in 1 .. MaxLen /\ Len(s) = 1 /\ s \in [1 .. 1 -> Byte]
    BY StdioAssumption, CountsAssumption, OneChar
  <2>2. Wrote(r.rv, s) = [op |-> "write", n |-> 1, got |-> s]
    BY <1>6, <2>1 DEF Wrote
  <2> HIDE DEF s
  <2>3. Unbuffered!Next
    BY <1>3, <1>6, <2>1, <2>2, SeenWrite DEF s
  <2> QED
    BY <1>3, <2>3 DEF Reported
<1> QED
  BY <1>1, <1>4, <1>5, <1>6

(* fwrite: a short count means that the flag is set.                       *)
LEMMA FwriteSeen ==
    ASSUME NEW f, Calling(f), NEW n \in WriteCounts, NEW s \in [1 .. n -> Byte], Fwrite(f, s)
    PROVE  Fine(fp') /\ Reported
<1> DEFINE r == fwrite(f, s)
           what == Wrote(IF r.rv = 0 THEN EOF ELSE 0, SubSeq(s, 1, r.rv))
<1>1. n \in Nat \ {0} /\ n \in 1 .. MaxLen
  BY StdioAssumption, CountsAssumption
<1>2. s \in Seq(Byte) /\ s # <<>> /\ Len(s) = n
  BY <1>1, SeqDef, EmptySeq, LenProperties
<1>3. /\ Fine(r.f)
      /\ \/ Lost(r.f)
         \/ r.rv = 0 /\ Dropped(f, r.f)
         \/ r.rv = Len(s) /\ Written(f, r.f, s)
  BY <1>2, FwriteSees DEF Calling
<1>4. Finish(r.f, what)
  BY DEF Fwrite
<1> HIDE DEF r
<1>5. Fine(fp') /\ Seen(f, r.f, what) /\ ("ERR" \in fp'.mode <=> Lost(r.f))
  <2> HIDE DEF what
  <2> QED
    BY <1>3, <1>4, EndsSeen
<1>6. CASE Lost(r.f)
  BY <1>5, <1>6 DEF Reported
<1>7. CASE r.rv = 0 /\ Dropped(f, r.f)
  <2>1. what = Nothing
    BY <1>7 DEF Wrote
  <2> HIDE DEF what
  <2> QED
    BY <1>5, <1>7, <2>1, SeenOther DEF Reported
<1>8. CASE r.rv = Len(s) /\ Written(f, r.f, s)
  <2>1. SubSeq(s, 1, Len(s)) = s
    <3>1. Len(s) <= Len(s) /\ \A j \in 1 .. Len(s) : s[j] = s[j]
      BY <1>1, <1>2
    <3> QED
      BY <1>2, <3>1, PrefixIs
  <2>2. what = [op |-> "write", n |-> n, got |-> s]
    <3>1. r.rv # 0
      BY <1>1, <1>2, <1>8
    <3>2. what = Wrote(0, s)
      BY <1>8, <2>1, <3>1
    <3> HIDE DEF what
    <3> QED
      BY <1>2, <3>2 DEF Wrote
  <2> HIDE DEF what
  <2>3. Unbuffered!Next
    BY <1>1, <1>2, <1>5, <1>8, <2>2, SeenWrite
  <2> QED
    BY <1>5, <2>3 DEF Reported
<1> QED
  BY <1>3, <1>6, <1>7, <1>8

(* getc, fgetc and fread: fewer characters than asked for is a step of     *)
(* Stream.                                                                 *)
LEMMA ReadSeen ==
    ASSUME NEW f, Calling(f), NEW g, Fine(g), NEW n \in 1 .. MaxLen, NEW got,
           ReadUpTo(f, g, n, got), Finish(g, DidRead(n, got))
    PROVE  Fine(fp') /\ Reported
<1> DEFINE what == DidRead(n, got)
<1>0. Finish(g, what)
  OBVIOUS
<1>1. Fine(fp') /\ Seen(f, g, what) /\ ("ERR" \in fp'.mode <=> Lost(g))
  <2> HIDE DEF what
  <2> QED
    BY <1>0, EndsSeen
<1>2. CASE Lost(g)
  BY <1>1, <1>2 DEF Reported
<1>3. CASE got = <<>> /\ Same(f, g)
  <2>1. what = Nothing
    BY <1>3 DEF DidRead
  <2> HIDE DEF what
  <2> QED
    BY <1>1, <1>3, <2>1, SeenOther DEF Reported
<1>4. CASE got # <<>> /\ \E k \in 1 .. n : HasRead(f, g, k, got)
  <2>1. what = [op |-> "read", n |-> n, got |-> got]
    BY <1>4 DEF DidRead
  <2> HIDE DEF what
  <2>2. Unbuffered!Next
    BY <1>1, <1>4, <2>1, SeenRead
  <2> QED
    BY <1>1, <2>2 DEF Reported
<1> QED
  BY <1>2, <1>3, <1>4 DEF ReadUpTo

(* ungetc on a stream that reads.                                          *)
LEMMA UngetSeen ==
    ASSUME ~UngetAnywhere, NEW f, Calling(f), NEW c \in Byte, Ungetc(f, c)
    PROVE  Fine(fp') /\ Reported
<1> DEFINE r == ungetc(f, c)
           what == IF r.rv = EOF THEN Nothing ELSE [op |-> "ungetc", n |-> c, got |-> <<c>>]
<1>1. "READING" \in f.mode /\ Finish(r.f, what)
  BY DEF Ungetc
<1>2. /\ Fine(r.f)
      /\ \/ r.rv = EOF /\ Same(f, r.f)
         \/ r.rv = c /\ Pushes(f, r.f, c)
  BY <1>1, UngetcSees DEF Calling
<1> HIDE DEF r
<1>3. Fine(fp') /\ Seen(f, r.f, what)
  <2> HIDE DEF what
  <2> QED
    BY <1>1, <1>2, EndsSeen
<1>4. CASE r.rv = EOF /\ Same(f, r.f)
  BY <1>3, <1>4, SeenOther DEF Reported
<1>5. CASE r.rv = c /\ Pushes(f, r.f, c)
  <2>1. c # EOF
    BY StdioAssumption
  <2>2. what = [op |-> "ungetc", n |-> c, got |-> <<c>>]
    BY <1>5, <2>1
  <2> HIDE DEF what
  <2>3. Unbuffered!Next
    BY <1>3, <1>5, <2>2, SeenUnget
  <2> QED
    BY <1>3, <2>3 DEF Reported
<1> QED
  BY <1>2, <1>4, <1>5

(* The guard of Fseek says of Cells and SubSeq what InFront says.          *)
LEMMA InStepInFront ==
    ASSUME NEW f, Fine(f), "READING" \in f.mode, "UNGOT" \notin f.mode, InStep(f)
    PROVE  InFront(f)
<1>1. Cells(f.buf, 0, f.bufread) = SubSeq(f.data, f.at - f.bufread + 1, f.at)
  BY DEF InStep, Fast
<1>2. "WRITING" \notin f.mode
  BY DEF Fine, Good, Safe
<1>3. /\ f.bufread <= f.at /\ f.at <= Len(f.data) /\ f.bufread \in Nat /\ f.at \in Nat
      /\ f.data \in Seq(Byte) /\ Len(f.data) \in Nat
  BY <1>2, ReadView
<1> DEFINE p == f.at - f.bufread + 1
<1>4. p \in Nat /\ p >= 1 /\ p - 1 = f.at - f.bufread /\ f.at - p + 1 = f.bufread
  BY <1>3
<1>5. \A i \in p .. f.at : f.data[i] \in Byte
  BY <1>3, <1>4, ElementOfSeq
<1>6. Cells(f.buf, 0, f.bufread) = SubSeq(f.data, p, f.at)
  BY <1>1
<1> HIDE DEF p
<1>7. \A i \in 1 .. f.at - p + 1 : SubSeq(f.data, p, f.at)[i] = f.data[p + i - 1]
  BY <1>3, <1>4, <1>5, SubSeqProperties
<1>8. ASSUME NEW i \in 0 .. f.bufread - 1 PROVE f.buf[i] = f.data[f.at - f.bufread + i + 1]
  <2>1. i + 1 \in 1 .. f.bufread /\ 0 + (i + 1) - 1 = i /\ p + (i + 1) - 1 = f.at - f.bufread + i + 1
    <3>1. i \in Int /\ f.bufread \in Int /\ f.at \in Int /\ p \in Int /\ p - 1 = f.at - f.bufread
      BY <1>3, <1>4
    <3> QED
      BY <3>1
  <2>2. Cells(f.buf, 0, f.bufread)[i + 1] = f.buf[i]
    BY <2>1 DEF Cells
  <2>3. i + 1 \in 1 .. f.at - p + 1
    BY <1>4, <2>1
  <2>4. SubSeq(f.data, p, f.at)[i + 1] = f.data[p + (i + 1) - 1]
    BY <1>7, <2>3
  <2> QED
    BY <1>6, <2>1, <2>2, <2>4
<1> QED
  BY <1>8 DEF InFront

(* fseek, when the buffer is what lies before the descriptor.              *)
LEMMA SeekSeen ==
    ASSUME ~SeekAnywhere, NEW f, Calling(f), NEW offset \in Offsets,
           NEW ref \in {"SET", "CUR", "END"}, Fseek(f, offset, ref)
    PROVE  Fine(fp') /\ Reported
<1> DEFINE r == fseek(f, offset, ref)
           what == Did(r.rv, ref, offset)
<1>1. InStep(f) /\ Finish(r.f, what) /\ Fine(f) /\ offset \in Int
  BY StdioAssumption DEF Fseek, Calling
<1>2. r.f.at <= Len(r.f.data)
  BY <1>1 DEF Finish
<1>3. /\ Fine(r.f)
      /\ \/ Lost(r.f)
         \/ r.rv = EOF /\ Dropped(f, r.f)
         \/ r.rv = 0 /\ Sought(f, r.f, offset, ref)
  BY <1>1, <1>2, FseekSees, InStepInFront
<1> HIDE DEF r
<1>4. Fine(fp') /\ Seen(f, r.f, what) /\ ("ERR" \in fp'.mode <=> Lost(r.f))
  <2> HIDE DEF what
  <2> QED
    BY <1>1, <1>3, EndsSeen
<1>5. CASE Lost(r.f)
  BY <1>4, <1>5 DEF Reported
<1>6. CASE r.rv = EOF /\ Dropped(f, r.f)
  <2>1. what = Nothing
    BY <1>6 DEF Did
  <2> HIDE DEF what
  <2> QED
    BY <1>4, <1>6, <2>1, SeenOther DEF Reported
<1>7. CASE r.rv = 0 /\ Sought(f, r.f, offset, ref)
  <2>1. what = [op |-> ref, n |-> offset, got |-> <<>>]
    BY <1>7 DEF Did
  <2> HIDE DEF what
  <2>2. Unbuffered!Next
    BY <1>4, <1>7, <2>1, SeenSeek
  <2> QED
    BY <1>4, <2>2 DEF Reported
<1> QED
  BY <1>3, <1>5, <1>6, <1>7

(* Calls that neither read nor write.                                      *)
LEMMA NothingSeen ==
    ASSUME NEW f, Calling(f), NEW g, Fine(g), Finish(g, Nothing),
           Lost(g) \/ Same(f, g) \/ Dropped(f, g)
    PROVE  Fine(fp') /\ Reported
<1>1. Fine(fp') /\ Seen(f, g, Nothing) /\ ("ERR" \in fp'.mode <=> Lost(g))
  BY EndsSeen
<1> QED
  BY <1>1, SeenOther DEF Reported

(* fflush, ftell, rewind, clearerr and setvbuf.                            *)
LEMMA OtherSeen ==
    ASSUME NEW room \in Rooms, NEW f, f = System(room, 0), Calling(f),
           \/ Fflush(f) \/ Ftell(f) \/ Rewind(f) \/ Clearerr(f)
           \/ \E kind \in {{}, {"IOLBF"}, {"IONBF"}}, size \in BufSizes : Setvbuf(f, kind, size)
    PROVE  Fine(fp') /\ Reported
<1>0. Fine(f)
  BY DEF Calling
<1> DEFINE flushed == fflush(f)
<1>1. /\ Fine(flushed.f) /\ IsEmptied(flushed.f) /\ flushed.f.pushed = 0
      /\ (flushed.rv = EOF => Lost(flushed.f)) /\ (Lost(flushed.f) \/ Dropped(f, flushed.f))
  BY <1>0, FlushSees
<1>2. CASE Fflush(f)
  BY <1>1, <1>2, NothingSeen DEF Fflush
<1>3. CASE Ftell(f)
  <2> DEFINE rv == IF flushed.rv = EOF THEN EOF ELSE flushed.f.at
             what == Did(rv, "ftell", rv)
  <2>1. Finish(flushed.f, what)
    BY <1>3 DEF Ftell, ftell
  <2> HIDE DEF flushed
  <2>2. Fine(fp') /\ Seen(f, flushed.f, what) /\ ("ERR" \in fp'.mode <=> Lost(flushed.f))
    <3> HIDE DEF what
    <3> QED
      BY <1>1, <2>1, EndsSeen
  <2>3. CASE Lost(flushed.f)
    BY <2>2, <2>3 DEF Reported
  <2>4. CASE ~Lost(flushed.f)
    <3>1. Place(flushed.f) = flushed.f.at /\ flushed.f.at \in Nat
      BY <1>1, EmptiedView, Fields DEF Fine
    <3>2. rv = Place(flushed.f) /\ rv # EOF
      BY <1>1, <2>4, <3>1
    <3> HIDE DEF rv
    <3>3. what = [op |-> "ftell", n |-> Place(flushed.f), got |-> <<>>]
      BY <3>2 DEF Did
    <3> HIDE DEF what
    <3>4. Unbuffered!Next
      BY <1>0, <1>1, <2>2, <2>4, <3>3, SeenTell
    <3> QED
      BY <2>2, <3>4 DEF Reported
  <2> QED
    BY <2>3, <2>4
<1>4. CASE Rewind(f)
  <2> DEFINE g == rewind(f)
             what == Did(0, "SET", 0)
  <2>1. Finish(g, what)
    BY <1>4 DEF Rewind
  <2>2. Fine(g)
    BY <1>0, <2>1, RewindSees DEF Finish
  <2> HIDE DEF g, what
  <2>3. Fine(fp')
    BY <2>1, <2>2, EndsSeen
  <2> QED
    BY <1>4, <2>3 DEF Reported
<1>5. CASE Clearerr(f)
  <2>1. Fine(clearerr(f)) /\ Same(f, clearerr(f))
    BY <1>0, ClearerrSees DEF Fine, InFile
  <2> QED
    BY <1>5, <2>1, NothingSeen DEF Clearerr
<1>6. ASSUME NEW kind \in {{}, {"IOLBF"}, {"IONBF"}}, NEW size \in BufSizes, Setvbuf(f, kind, size)
      PROVE  Fine(fp') /\ Reported
  <2> DEFINE g == NewBuffer(f, kind, size)
  <2>1. size \in Nat \ {0}
    BY StdioAssumption
  <2>2. Fine(g) /\ (Lost(g) \/ Dropped(f, g))
    BY <1>0, <2>1, NewBufferSees
  <2>3. Finish(g, Nothing)
    BY <1>6 DEF Setvbuf
  <2> HIDE DEF g
  <2> QED
    BY <2>2, <2>3, NothingSeen
<1> QED
  BY <1>2, <1>3, <1>4, <1>5, <1>6

(* Every step of Stdio.                                                    *)
LEMMA NextSees ==
    ASSUME ~UngetAnywhere, ~SeekAnywhere, Fine(fp), Next
    PROVE  Fine(fp') /\ Reported
<1>0. Rooms \subseteq Nat /\ Takes \subseteq Int /\ 0 \in Int
  BY StdioAssumption
<1>1. PICK room \in Rooms :
        \/ \E take \in Takes :
            LET f == System(room, take) IN
            \/ Getc(f) \/ Fgetc(f)
            \/ \E n \in ReadCounts : Fread(f, n)
        \/ LET f == System(room, 0) IN
            \/ \E c \in Byte : Putc(f, c) \/ Fputc(f, c) \/ Ungetc(f, c)
            \/ \E n \in WriteCounts : \E s \in [1 .. n -> Byte] : Fwrite(f, s)
            \/ Fflush(f) \/ Ftell(f) \/ Rewind(f) \/ Clearerr(f)
            \/ \E offset \in Offsets, ref \in {"SET", "CUR", "END"} : Fseek(f, offset, ref)
            \/ \E kind \in {{}, {"IOLBF"}, {"IONBF"}}, size \in BufSizes : Setvbuf(f, kind, size)
  BY DEF Next
<1>2. ASSUME NEW take \in Int PROVE Calling(System(room, take))
  BY <1>0, CallSees DEF Calling
<1>3. ASSUME NEW take \in Takes,
             LET f == System(room, take) IN
             \/ Getc(f) \/ Fgetc(f)
             \/ \E n \in ReadCounts : Fread(f, n)
      PROVE  Fine(fp') /\ Reported
  <2> DEFINE f == System(room, take)
  <2>1. Calling(f) /\ Fine(f)
    BY <1>0, <1>2 DEF Calling
  <2>2. Getc(f) \/ Fgetc(f) \/ \E n \in ReadCounts : Fread(f, n)
    BY <1>3
  <2> HIDE DEF f
  <2>3. 1 \in 1 .. MaxLen
    BY CountsAssumption
  <2>4. CASE Getc(f)
    <3> DEFINE r == getc(f)
    <3>1. Fine(r.f) /\ ReadUpTo(f, r.f, 1, Got(r.rv))
      BY <2>1, GetcSees
    <3>2. Finish(r.f, DidRead(1, Got(r.rv)))
      BY <2>4 DEF Getc, Got
    <3> HIDE DEF r
    <3> QED
      BY <2>1, <2>3, <3>1, <3>2, ReadSeen
  <2>5. CASE Fgetc(f)
    <3> DEFINE r == fgetc(f)
    <3>1. Fine(r.f) /\ ReadUpTo(f, r.f, 1, Got(r.rv))
      BY <2>1, FgetcSees
    <3>2. Finish(r.f, DidRead(1, Got(r.rv)))
      BY <2>5 DEF Fgetc, Got
    <3> HIDE DEF r
    <3> QED
      BY <2>1, <2>3, <3>1, <3>2, ReadSeen
  <2>6. ASSUME NEW n \in ReadCounts, Fread(f, n) PROVE Fine(fp') /\ Reported
    <3> DEFINE r == fread(f, n)
    <3>1. n \in Nat /\ n > 0 /\ n \in 1 .. MaxLen
      BY StdioAssumption, CountsAssumption
    <3>2. Fine(r.f) /\ ReadUpTo(f, r.f, n, r.rv)
      BY <2>1, <3>1, FreadSees
    <3>3. Finish(r.f, DidRead(n, r.rv))
      BY <2>6 DEF Fread
    <3> HIDE DEF r
    <3> QED
      BY <2>1, <3>1, <3>2, <3>3, ReadSeen
  <2> QED
    BY <2>2, <2>4, <2>5, <2>6
<1>4. ASSUME LET f == System(room, 0) IN
             \/ \E c \in Byte : Putc(f, c) \/ Fputc(f, c) \/ Ungetc(f, c)
             \/ \E n \in WriteCounts : \E s \in [1 .. n -> Byte] : Fwrite(f, s)
             \/ Fflush(f) \/ Ftell(f) \/ Rewind(f) \/ Clearerr(f)
             \/ \E offset \in Offsets, ref \in {"SET", "CUR", "END"} : Fseek(f, offset, ref)
             \/ \E kind \in {{}, {"IOLBF"}, {"IONBF"}}, size \in BufSizes : Setvbuf(f, kind, size)
      PROVE  Fine(fp') /\ Reported
  <2> DEFINE f == System(room, 0)
  <2>1. Calling(f) /\ f = System(room, 0)
    BY <1>0, <1>2
  <2>2. \/ \E c \in Byte : Putc(f, c) \/ Fputc(f, c) \/ Ungetc(f, c)
        \/ \E n \in WriteCounts : \E s \in [1 .. n -> Byte] : Fwrite(f, s)
        \/ Fflush(f) \/ Ftell(f) \/ Rewind(f) \/ Clearerr(f)
        \/ \E offset \in Offsets, ref \in {"SET", "CUR", "END"} : Fseek(f, offset, ref)
        \/ \E kind \in {{}, {"IOLBF"}, {"IONBF"}}, size \in BufSizes : Setvbuf(f, kind, size)
    BY <1>4
  <2> HIDE DEF f
  <2>3. ASSUME NEW c \in Byte, Putc(f, c) \/ Fputc(f, c) \/ Ungetc(f, c) PROVE Fine(fp') /\ Reported
    BY <2>1, <2>3, PutSeen, UngetSeen
  <2>4. ASSUME NEW n \in WriteCounts, NEW s \in [1 .. n -> Byte], Fwrite(f, s) PROVE Fine(fp') /\ Reported
    BY <2>1, <2>4, FwriteSeen
  <2>5. ASSUME \/ Fflush(f) \/ Ftell(f) \/ Rewind(f) \/ Clearerr(f)
               \/ \E kind \in {{}, {"IOLBF"}, {"IONBF"}}, size \in BufSizes : Setvbuf(f, kind, size)
        PROVE  Fine(fp') /\ Reported
    BY <2>1, <2>5, OtherSeen
  <2>6. ASSUME NEW offset \in Offsets, NEW ref \in {"SET", "CUR", "END"}, Fseek(f, offset, ref)
        PROVE  Fine(fp') /\ Reported
    BY <2>1, <2>6, SeekSeen
  <2> QED
    BY <2>2, <2>3, <2>4, <2>5, <2>6
<1> QED
  BY <1>1, <1>3, <1>4

Seeing == Fine(fp)

(* Whatever the buffer and its size, the file, how it was opened and what  *)
(* the system takes of a call: a stream starts as one without a buffer     *)
(* does, and every call either does what that one would, or says that      *)
(* something was lost, or is rewind.  The caller pushes back only while it *)
(* reads and does not seek over what fread read past the buffer: without   *)
(* that it is false.                                                       *)
THEOREM StdioFollowsStream ==
    ASSUME ~UngetAnywhere, ~SeekAnywhere
    PROVE  Spec => Unbuffered!Init /\ ReportsLoss
<1>1. Init => Seeing
  <2> SUFFICES ASSUME Init PROVE Fine(fp)
    BY DEF Seeing
  <2>1. Good(fp) /\ InFile(fp)
    BY InitInv DEF Inv
  <2>2. fp.bufread = 0 /\ fp.pushed = 0 /\ fp.mode = Access \cup InitialMode
    BY DEF Init, Opened
  <2>3. "READING" \notin fp.mode
    BY <2>2, StdioAssumption
  <2> QED
    BY <2>1, <2>2, <2>3 DEF Fine, Matched
<1>2. Seeing /\ [Next]_vars => Seeing'
  <2> SUFFICES ASSUME Seeing, [Next]_vars PROVE Fine(fp)'
    BY DEF Seeing
  <2>1. CASE Next
    <3>1. Fine(fp')
      BY <2>1, NextSees DEF Seeing
    <3> QED
      BY <3>1 DEF Fine, Good, InFile, Matched, Typed, Safe, Kept
  <2>2. CASE UNCHANGED vars
    BY <2>2 DEF vars, Seeing, Fine, Good, InFile, Matched, Typed, Safe, Kept
  <2> QED
    BY <2>1, <2>2
<1>3. Seeing /\ [Next]_vars => [Reported]_vars
  <2> SUFFICES ASSUME Seeing, Next PROVE Reported
    OBVIOUS
  <2> QED
    BY NextSees DEF Seeing
<1>4. Spec => [][Reported]_vars
  BY <1>1, <1>2, <1>3, PTL DEF Spec
<1>5. Spec => ReportsLoss
  BY <1>4 DEF ReportsLoss, Reported
<1>6. Init => Unbuffered!Init
  <2> SUFFICES ASSUME Init PROVE Unbuffered!Init
    OBVIOUS
  <2>1. /\ fp.bufpos = 0 /\ fp.bufread = 0 /\ fp.pushed = 0 /\ fp.at = 0
        /\ fp.data = InitialFile /\ fp.mode = Access \cup InitialMode /\ call = Nothing
    BY DEF Init, Opened
  <2>2. ~Writing
    BY <2>1, StdioAssumption DEF Writing
  <2>3. Content = InitialFile /\ Position = 0
    BY <2>1, <2>2 DEF Content, Position
  <2>4. Pushed = <<>>
    BY <2>1, <2>2, NoCells DEF Pushed
  <2> QED
    BY <2>1, <2>3, <2>4 DEF Unbuffered!Init, Nothing
<1> QED
  BY <1>5, <1>6, PTL DEF Spec
=============================================================================
