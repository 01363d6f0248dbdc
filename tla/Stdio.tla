-------------------------------- MODULE Stdio -------------------------------
(***************************************************************************)
(* libc/stdio/stdio.c: one buffered stream on a file.                      *)
(*                                                                         *)
(* The FILE is a record: bufpos, bufread, bufwrite and bufend are offsets  *)
(* from bufstart, mode is the set of its flags (_IOFBF is the absence of   *)
(* IOLBF and IONBF).  The record also has the file behind the descriptor,  *)
(* its contents and its position, because every operation is a function of *)
(* both, and what the system does in the call under way: room characters   *)
(* go through write() before it fails, and read() returns at most take     *)
(* characters or, when take is -1, fails.  Offsets count from zero, as in  *)
(* C; the file, being a sequence, counts from one.                         *)
(***************************************************************************)
EXTENDS Integers, Sequences

CONSTANTS Byte,        \* the characters
          NL,          \* the newline
          BUFSIZ,      \* size of the buffer a stream is opened with
          UNBUF,       \* sizeof(fp->unbuf), 8 in the source
          Access,      \* how it was opened: subset of {"READ", "WRITE"}
          InitialMode, \* {}, {"IOLBF"} or {"IONBF"}
          InitialFile, \* what the file holds
          ReadCounts,  \* sizes of fread calls
          WriteCounts, \* sizes of fwrite calls
          Offsets,     \* what fseek is called with
          BufSizes,    \* what setvbuf is called with
          Rooms,       \* how many characters write() takes before it fails
          Takes,       \* how many read() returns at most; -1 when it fails
          UngetAnywhere, \* whether ungetc is called with nothing read ahead
          SeekAnywhere,  \* whether fseek is called with the buffer out of step
          MaxLen       \* bound: length of the file

ASSUME StdioAssumption ==
    /\ Byte \subseteq Nat /\ NL \in Byte
    /\ BUFSIZ \in Nat \ {0} /\ UNBUF \in Nat \ {0}
    /\ Access \subseteq {"READ", "WRITE"}
    /\ InitialMode \in {{}, {"IOLBF"}, {"IONBF"}}
    /\ InitialFile \in Seq(Byte)
    /\ ReadCounts \cup WriteCounts \subseteq Nat \ {0}
    /\ Offsets \subseteq Int
    /\ BufSizes \subseteq Nat \ {0}
    /\ Rooms \subseteq Nat /\ Takes \subseteq {-1} \cup (Nat \ {0})
    /\ UngetAnywhere \in BOOLEAN /\ SeekAnywhere \in BOOLEAN
    /\ MaxLen \in Nat

(* MaxLen also bounds, for Stream, what one call reads or writes.          *)
ASSUME CountsAssumption == ReadCounts \cup WriteCounts \cup {1} \subseteq 1 .. MaxLen

VARIABLES fp,         \* the FILE and the file: see Opened
          call        \* ghost: the last call and what it returned

vars == <<fp, call>>

Modes == {"IOLBF", "IONBF", "READ", "WRITE", "READING", "WRITING",
          "EOF", "ERR", "UNGOT"}

Opened == [bufpos |-> 0, bufread |-> 0, bufwrite |-> 0, bufend |-> BUFSIZ,
           mode   |-> Access \cup InitialMode,
           buf    |-> <<>>,     \* the cells written so far: offset -> character
           data   |-> InitialFile, at |-> 0,  \* the file and the descriptor in it
           room   |-> 0, take |-> 0,          \* the system during a call
           pushed |-> 0]        \* ghost: characters of ungetc not read again

Smaller(a, b) == IF a < b THEN a ELSE b
Larger(a, b) == IF a > b THEN a ELSE b

EOF == -1
Ret(f, rv) == [f |-> f, rv |-> rv]

(* Buffer cells: storing a string at offset i, and n of them from i on.    *)
Put(buf, i, s) == [j \in DOMAIN buf \cup (i .. i + Len(s) - 1) |->
                     IF j \in i .. i + Len(s) - 1 THEN s[j - i + 1] ELSE buf[j]]
Cells(buf, i, n) == [k \in 1 .. n |-> buf[i + k - 1]]

(* The file after the string s was written at its position.                *)
WriteAt(file, at, s) ==
    SubSeq(file, 1, at) \o s \o SubSeq(file, at + Len(s) + 1, Len(file))

-----------------------------------------------------------------------------
(* fflush: write what is pending, or seek back over what was not read;     *)
(* then the buffer is empty, whatever happened.                            *)
Emptied(f) ==
    [f EXCEPT !.bufpos = 0, !.bufread = 0, !.bufwrite = 0, !.pushed = 0,
              !.mode = @ \ {"READING", "WRITING", "EOF", "UNGOT"}]

(* The loop of write() calls, which signals and partial writes do not      *)
(* stop: only the characters there was room for reach the file.            *)
WriteOutQuiet(f, s) ==
    LET n == Smaller(Len(s), f.room)
    IN  [f EXCEPT !.data = WriteAt(@, f.at, SubSeq(s, 1, n)), !.at = @ + n, !.room = @ - n]
WriteOut(f, s) ==
    LET n == Smaller(Len(s), f.room)
    IN  [f EXCEPT !.data = WriteAt(@, f.at, SubSeq(s, 1, n)),
                  !.at = @ + n, !.room = @ - n,
                  !.mode = IF n < Len(s) THEN @ \cup {"ERR"} ELSE @]

SeekBack(f) == [f EXCEPT !.at = @ - (f.bufread - f.bufpos)]

fflush(f) ==
    CASE "WRITING" \in f.mode ->
           LET g == WriteOut(f, Cells(f.buf, 0, f.bufpos))
           IN  Ret(Emptied(g), IF f.bufpos > f.room THEN EOF ELSE 0)
      [] "WRITING" \notin f.mode /\ "READING" \in f.mode -> Ret(Emptied(SeekBack(f)), 0)
      [] OTHER -> Ret(Emptied(f), 0)

(* Switching over: reading functions flush a buffer of output first, and   *)
(* writing functions give back what was read ahead.                        *)
KeepReading(f) == Ret(f, 0)
StopReading(f) == IF "READING" \in f.mode THEN fflush(f) ELSE Ret(f, 0)
StopWriting(f) == IF "WRITING" \in f.mode THEN fflush(f).f ELSE f

Writable(m) == "WRITE" \in m /\ m \cap {"EOF", "ERR"} = {}
Readable(m) == "READ" \in m /\ m \cap {"EOF", "ERR"} = {}

-----------------------------------------------------------------------------
(* fputc.  Store puts the character in the buffer, writes it out if the    *)
(* stream is unbuffered or it ends a line, and says whether the macro may  *)
(* store the next one itself.                                              *)
Stored(f, s) == [f EXCEPT !.buf = Put(@, f.bufpos, s), !.bufpos = @ + Len(s),
                          !.mode = @ \cup {"WRITING"}, !.pushed = 0]

MacroMay(f) == [f EXCEPT !.bufwrite = IF f.mode \cap {"IOLBF", "IONBF"} # {}
                                      THEN 0 ELSE f.bufend]

VisibleAtEnd(f, s) == "IONBF" \in f.mode \/ ("IOLBF" \in f.mode /\ s[Len(s)] = NL)
Visible(f, s) == "IONBF" \in f.mode \/ ("IOLBF" \in f.mode /\ \E i \in 1 .. Len(s) : s[i] = NL)

Store(f, c) ==
    LET stored == Stored(f, <<c>>)
        flushed == IF Visible(f, <<c>>) THEN fflush(stored) ELSE Ret(stored, 0)
    IN  IF flushed.rv = EOF THEN flushed ELSE Ret(MacroMay(flushed.f), c)

fputc(f0, c) ==
    LET start == StopReading(f0)
        roomy == IF start.f.bufpos >= start.f.bufend THEN fflush(start.f) ELSE start
    IN  IF start.rv = EOF \/ ~Writable(start.f.mode) THEN Ret(start.f, EOF)
        ELSE IF roomy.rv = EOF THEN roomy
        ELSE Store(roomy.f, c)

(* The macro calls fputc only when it has no room of its own.              *)
putc(f, c) ==
    IF f.bufpos >= f.bufwrite THEN fputc(f, c)
    ELSE Ret([f EXCEPT !.buf = Put(@, f.bufpos, <<c>>), !.bufpos = @ + 1], c)

fwrite(f0, s) ==
    LET start == StopReading(f0)
        Room(f) == f.bufend - f.bufpos
        roomy == IF Len(s) > Room(start.f) THEN fflush(start.f) ELSE start
        stored == Stored(roomy.f, s)
    IN  CASE start.rv = EOF \/ ~Writable(start.f.mode) -> Ret(start.f, 0)
          [] start.rv # EOF /\ Writable(start.f.mode) /\ roomy.rv = EOF -> Ret(roomy.f, 0)
          [] start.rv # EOF /\ Writable(start.f.mode) /\ roomy.rv # EOF ->
               IF Len(s) <= Room(roomy.f)
               THEN Ret(IF Visible(stored, s) THEN fflush(stored).f ELSE stored, Len(s))
               ELSE Ret(WriteOut(roomy.f, s), Smaller(Len(s), roomy.f.room))

-----------------------------------------------------------------------------
(* read(): how many of n characters it returns, and the flag it leaves.    *)
ReadCount(f, n) ==
    IF f.take = -1 THEN -1
    ELSE Smaller(Smaller(n, f.take), Larger(Len(f.data) - f.at, 0))

ReadFlag(k) == CASE k < 0 -> {"ERR"} [] k = 0 -> {"EOF"} [] k > 0 -> {}

(* Characters pushed back are the first to be read.                        *)
Taken(f, n) == [f EXCEPT !.bufpos = @ + n, !.pushed = Larger(@ - n, 0)]

(* fgetc fills an empty buffer through fread, whose direct read() is then  *)
(* all that happens.                                                       *)
Fill(f0) ==
    LET f == [f0 EXCEPT !.bufpos = 0, !.bufread = 0]
        k == ReadCount(f, f.bufend)
    IN  IF k <= 0 THEN Ret([f EXCEPT !.mode = @ \cup ReadFlag(k)], EOF)
        ELSE Ret([f EXCEPT !.buf = Put(@, 0, SubSeq(f.data, f.at + 1, f.at + k)),
                           !.bufread = k, !.at = @ + k,
                           !.mode = (@ \cup {"READING"}) \ {"UNGOT"}], 0)

fgetc(f0) ==
    LET f == StopWriting(f0)
        filled == IF f.bufpos >= f.bufread THEN Fill(f) ELSE Ret(f, 0)
    IN  IF ~Readable(f.mode) THEN Ret(f, EOF)
        ELSE IF filled.rv = EOF THEN filled
        ELSE Ret(Taken(filled.f, 1), filled.f.buf[filled.f.bufpos])

(* The macro calls fgetc only when the buffer has been read.               *)
getc(f) == IF f.bufpos >= f.bufread THEN fgetc(f) ELSE Ret(Taken(f, 1), f.buf[f.bufpos])

(* fread copies what is buffered and reads the rest past the buffer.  The  *)
(* flags it tests are those before the flush.  Returns the characters.     *)
fread(f0, n) ==
    LET f == StopWriting(f0)
        len == f.bufread - f.bufpos
        from == Larger(len, 0)
        rest == Taken(f, from)
        k == ReadCount(f, n - from)
        direct == SubSeq(f.data, f.at + 1, f.at + Larger(k, 0))
    IN  CASE ~Readable(f0.mode) -> Ret(f, <<>>)
          [] Readable(f0.mode) /\ len >= n -> Ret(Taken(f, n), Cells(f.buf, f.bufpos, n))
          [] OTHER -> Ret([rest EXCEPT !.at = @ + Larger(k, 0), !.mode = @ \cup ReadFlag(k)],
                          Cells(f.buf, f.bufpos, from) \o direct)

RoomAnyway(f) == f.bufpos >= 0
RoomBehind(f) == f.bufpos > 0

ungetc(f0, c) ==
    LET f == StopWriting(f0)
        g == [f EXCEPT !.mode = @ \cup {"UNGOT"}]
    IN  CASE ~("READ" \in f.mode /\ "ERR" \notin f.mode) -> Ret(f, EOF)
          [] "READ" \in f.mode /\ "ERR" \notin f.mode /\ RoomBehind(f) ->
               Ret([g EXCEPT !.bufpos = @ - 1, !.buf = Put(@, f.bufpos - 1, <<c>>),
                             !.pushed = @ + 1], c)
          [] "READ" \in f.mode /\ "ERR" \notin f.mode /\ ~RoomBehind(f) /\ f.bufread = 0 ->
               Ret([g EXCEPT !.bufread = 1, !.buf = Put(@, 0, <<c>>), !.pushed = @ + 1], c)
          [] OTHER -> Ret(g, EOF)

-----------------------------------------------------------------------------
(* fseek.  While reading, a target inside the buffer needs no system call. *)
(* SEEK_CUR is relative to what the caller has read, not to the descriptor.*)
InBuffer(f, offset) == offset < f.at /\ offset >= f.at - f.bufread

lseek(f, offset, ref) ==
    LET to == CASE ref = "SET" -> offset
                [] ref = "CUR" -> f.at + offset
                [] ref = "END" -> Len(f.data) + offset
    IN  IF to < 0 THEN Ret(f, EOF) ELSE Ret([f EXCEPT !.at = to], 0)

Fast(f, ref) == /\ "READING" \in f.mode /\ "UNGOT" \notin f.mode
                /\ ref \in {"SET", "CUR"}

fseek(f, offset, ref) ==
    LET absolute == IF ref = "CUR" THEN f.at + offset + f.bufpos - f.bufread ELSE offset
        flushed == fflush(f)
    IN  CASE Fast(f, ref) /\ InBuffer(f, absolute) ->
               Ret([f EXCEPT !.bufpos = absolute - f.at + f.bufread], 0)
          [] ~(Fast(f, ref) /\ InBuffer(f, absolute)) /\ flushed.rv = EOF -> flushed
          [] ~(Fast(f, ref) /\ InBuffer(f, absolute)) /\ flushed.rv # EOF ->
               IF Fast(f, ref) THEN lseek(flushed.f, absolute, "SET")
               ELSE lseek(flushed.f, offset, ref)

ftell(f) == LET flushed == fflush(f)
            IN  Ret(flushed.f, IF flushed.rv = EOF THEN EOF ELSE flushed.f.at)

clearerr(f) == [f EXCEPT !.mode = @ \ {"EOF", "ERR"}]

rewind(f) == clearerr(fseek(f, 0, "SET").f)

(* setvbuf and setbuffer: after a flush another buffer, of size characters *)
(* if it can be had, else the unbuffered one in the FILE.                  *)
NewBuffer(f, kind, size) ==
    LET g == fflush(f).f
    IN  [g EXCEPT !.bufend = IF kind = {"IONBF"} THEN UNBUF ELSE size, !.buf = <<>>,
                  !.mode = (@ \ {"IOLBF", "IONBF"}) \cup kind]

-----------------------------------------------------------------------------
(* What the stream looks like to its user: the file with pending output in *)
(* place, the position, and what ungetc pushed back.                       *)
Writing == "WRITING" \in fp.mode
Content == IF Writing THEN WriteAt(fp.data, fp.at, Cells(fp.buf, 0, fp.bufpos)) ELSE fp.data
Position == IF Writing THEN fp.at + fp.bufpos
            ELSE fp.at - (fp.bufread - fp.bufpos) + fp.pushed
Pushed == IF Writing THEN <<>> ELSE Cells(fp.buf, fp.bufpos, fp.pushed)

Nothing == [op |-> "none", n |-> 0, got |-> <<>>]

(* A call happens with the system as it is then; only getc, fgetc and fread*)
(* call read.  Bound: the file does not *)
(* outgrow MaxLen, and no one seeks past its end.                          *)
System(room, take) == [fp EXCEPT !.room = room, !.take = take]

Finish(f, what) ==
    /\ fp' = [f EXCEPT !.room = 0, !.take = 0]
    /\ call' = what
    /\ f.at <= Len(f.data) /\ Len(Content') <= MaxLen

Wrote(rv, s) == IF rv = EOF THEN Nothing ELSE [op |-> "write", n |-> Len(s), got |-> s]
DidRead(n, got) == IF got = <<>> THEN Nothing ELSE [op |-> "read", n |-> n, got |-> got]
Did(rv, op, n) == IF rv = EOF THEN Nothing ELSE [op |-> op, n |-> n, got |-> <<>>]

(* The buffer is what lies just before the descriptor; fread past the      *)
(* buffer moves the descriptor on and leaves the buffer as it was.         *)
InStep(f) == Fast(f, "SET") => Cells(f.buf, 0, f.bufread) = SubSeq(f.data, f.at - f.bufread + 1, f.at)

Putc(f, c) == LET r == putc(f, c) IN Finish(r.f, Wrote(r.rv, <<c>>))
Fputc(f, c) == LET r == fputc(f, c) IN Finish(r.f, Wrote(r.rv, <<c>>))
Fwrite(f, s) == LET r == fwrite(f, s) IN Finish(r.f, Wrote(IF r.rv = 0 THEN EOF ELSE 0, SubSeq(s, 1, r.rv)))
Getc(f) == LET r == getc(f) IN Finish(r.f, DidRead(1, IF r.rv = EOF THEN <<>> ELSE <<r.rv>>))
Fgetc(f) == LET r == fgetc(f) IN Finish(r.f, DidRead(1, IF r.rv = EOF THEN <<>> ELSE <<r.rv>>))
Fread(f, n) == LET r == fread(f, n) IN Finish(r.f, DidRead(n, r.rv))
Ungetc(f, c) ==
    /\ UngetAnywhere \/ "READING" \in f.mode
    /\ LET r == ungetc(f, c)
       IN  Finish(r.f, IF r.rv = EOF THEN Nothing
                       ELSE [op |-> "ungetc", n |-> c, got |-> <<c>>])
Fflush(f) == Finish(fflush(f).f, Nothing)
Fseek(f, offset, ref) ==
    /\ SeekAnywhere \/ InStep(f)
    /\ LET r == fseek(f, offset, ref) IN Finish(r.f, Did(r.rv, ref, offset))
Ftell(f) == LET r == ftell(f) IN Finish(r.f, Did(r.rv, "ftell", r.rv))
Rewind(f) == Finish(rewind(f), Did(0, "SET", 0))
Clearerr(f) == Finish(clearerr(f), Nothing)
Setvbuf(f, kind, size) == Finish(NewBuffer(f, kind, size), Nothing)

Init == fp = Opened /\ call = Nothing

Next == \E room \in Rooms :
    \/ \E take \in Takes :
        LET f == System(room, take) IN
        \/ Getc(f) \/ Fgetc(f)
        \/ \E n \in ReadCounts : Fread(f, n)
    \/ LET f == System(room, 0) IN
        \/ \E c \in Byte : Putc(f, c) \/ Fputc(f, c) \/ Ungetc(f, c)
        \/ \E n \in WriteCounts : \E s \in [1 .. n -> Byte] : Fwrite(f, s)
        \/ Fflush(f) \/ Ftell(f) \/ Rewind(f) \/ Clearerr(f)
        \/ \E offset \in Offsets, ref \in {"SET", "CUR", "END"} : Fseek(f, offset, ref)
        \/ \E kind \in {{}, {"IOLBF"}, {"IONBF"}}, size \in BufSizes : Setvbuf(f, kind, size)

Spec == Init /\ [][Next]_vars

-----------------------------------------------------------------------------
(* The FILE has its types, and every cell of the buffer that the pointers  *)
(* say holds output or unread input has been written.                      *)
FILE(buf) == [bufpos : Nat, bufread : Nat, bufwrite : Nat, bufend : Nat \ {0},
              mode : SUBSET Modes, buf : {buf}, data : Seq(Byte), at : Nat,
              room : Nat, take : Int, pushed : Nat]

Typed(f) ==
    /\ f \in FILE(f.buf)
    /\ \A i \in 0 .. Larger(f.bufpos, f.bufread) - 1 : i \in DOMAIN f.buf /\ f.buf[i] \in Byte

TypeOK == Typed(fp)

(* The macros getc and putc look at one pointer each and at no flag, so    *)
(* the pointers alone must keep them in the buffer and apart: putc has     *)
(* room only while the buffer is one of output that needs no flush, getc   *)
(* never finds pending output to read, and fflush never seeks back further *)
(* than the file has been read.                                            *)
Safe(f) ==
    /\ f.bufpos <= f.bufend /\ f.bufread <= f.bufend
    /\ f.bufwrite # 0 =>
          /\ f.bufwrite = f.bufend
          /\ "WRITING" \in f.mode
          /\ "IOLBF" \notin f.mode /\ "IONBF" \notin f.mode
    /\ "WRITING" \in f.mode => f.bufread <= f.bufpos /\ "READING" \notin f.mode
    /\ "WRITING" \notin f.mode => f.bufpos <= f.bufread
    /\ "READING" \in f.mode => f.bufread <= f.at

MacrosSafe == Safe(fp)

(* stdio.h line 26 says of __MODE_READING that the buffer has pending read *)
(* data; the functions that write rely on it to know that the last         *)
(* operation was a read.                                                   *)
ReadDataFlagged ==
    "WRITING" \notin fp.mode /\ fp.bufread > fp.bufpos => "READING" \in fp.mode

(* Between calls an unbuffered stream has no output pending, and a line    *)
(* buffered one no finished line.                                          *)
LinesVisible ==
    "WRITING" \in fp.mode =>
        /\ "IONBF" \notin fp.mode
        /\ "IOLBF" \in fp.mode => \A i \in 0 .. fp.bufpos - 1 : fp.buf[i] # NL

(* The stream behaves as if there were no buffer: every character read is  *)
(* the one at the position, every character written lands there, fseek and *)
(* ftell mean the same position, and ungetc changes what is read once and  *)
(* never the file.  A call that does not, because write() or read() failed *)
(* and characters or the place are lost, leaves the error flag set; only   *)
(* rewind, which clears it, does not tell.                                 *)
Unbuffered == INSTANCE Stream WITH
    File <- InitialFile, MaxCount <- MaxLen, Offsets <- Offsets \cup {0},
    content <- Content, pos <- Position, pushed <- Pushed, call <- call
ReportsLoss ==
    [][\/ "ERR" \in fp'.mode
       \/ Unbuffered!Next
       \/ \E room \in Rooms : Rewind(System(room, 0))]_vars
=============================================================================
