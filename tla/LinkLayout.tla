----------------------------- MODULE LinkLayout -----------------------------
(***************************************************************************)
(* ld/writex86.c: where ld86 puts the segments and common areas of the     *)
(* modules it loads, and the file it writes.                               *)
(*                                                                         *)
(* Addresses are computed twice.  A first pass adds up the sizes the       *)
(* modules' headers give and moves the symbols; a second one goes through  *)
(* the modules' text, switching between segments as the text does, and     *)
(* keeps the bases of the module at hand in segbase as it goes.  A symbol  *)
(* of a module moves as all of its segment does, so one for each module    *)
(* and segment, at offset zero, stands for them.                           *)
(*                                                                         *)
(* File positions count from the end of the header.                        *)
(***************************************************************************)
EXTENDS Integers, Sequences

CONSTANTS NSEG,      \* segments; 16 in the source
          NMods,     \* bound: modules loaded
          Inputs     \* calls of ld86: the options (flags i, z and 3; values of
                     \* -T, -D, -H) with the sizes in the modules' headers

Seg == 0 .. NSEG - 1
Page == 4096
Limit == 65536

Mods == 1 .. NMods
Options == [sepid : BOOLEAN, uzp : BOOLEAN, bits32 : BOOLEAN, tb : Nat, db : Nat, heap : Nat]

ASSUME LayoutAssumption ==
    /\ NSEG \in Nat /\ NSEG >= 4 /\ NMods \in Nat \ {0}
    /\ \A x \in Inputs :
          /\ x.opt \in Options /\ {x.size, x.common} \subseteq [Mods -> [Seg -> Nat]]
          /\ \A i \in Mods : \A seg \in Seg \ {3} : x.common[i][seg] = 0

(* How ld86 is used: bases at paragraphs, a base for data only if it has a *)
(* space of its own; and there is some data.                               *)
ASSUME BasesAssumption ==
    \A x \in Inputs : /\ x.opt.tb % 16 = 0 /\ x.opt.db % 16 = 0
                      /\ ~x.opt.sepid => x.opt.db = 0
ASSUME DataAssumption ==
    \A x \in Inputs : \E i \in Mods : \E seg \in 1 .. 3 : x.size[i][seg] # 0

VARIABLES opt,    \* the options, with what uzp makes of them
          size, common,  \* of each module and segment
          pc, m,         \* the pass and the module it is at
          segsz, comsz,
          symbol, area,  \* values of the symbols and the common areas
          place,         \* segbase, combase, segadj, and the offsets ends
          w,             \* the second pass: segbase, segpos, spos, curseg,
                         \* the position in the file and what is written
          left           \* of each segment, bytes of text still to come

vars == <<opt, size, common, pc, m, segsz, comsz, symbol, area, place, w, left>>
program == <<opt, size, common>>

ld_roundup(num, boundary) == ((num + boundary - 1) \div boundary) * boundary

Zero == [seg \in Seg |-> 0]

-----------------------------------------------------------------------------
(* First pass, one module: its symbols go to the end of the segments so    *)
(* far, its common areas to the end of the common areas.                   *)
SumModuleUnrounded ==
    /\ pc = "sum"
    /\ symbol' = [symbol EXCEPT ![m] = segsz]
    /\ area' = [area EXCEPT ![m] = comsz]
    /\ segsz' = [seg \in Seg |-> segsz[seg] + size[m][seg]]
    /\ comsz' = [seg \in Seg |-> comsz[seg] + ld_roundup(common[m][seg], 4)]
    /\ m' = IF m = NMods THEN 1 ELSE m + 1
    /\ pc' = IF m = NMods THEN "place" ELSE pc
    /\ UNCHANGED <<program, place, w, left>>
SumModule ==
    /\ pc = "sum"
    /\ symbol' = [symbol EXCEPT ![m] = segsz]
    /\ area' = [area EXCEPT ![m] = comsz]
    /\ segsz' = [seg \in Seg |-> ld_roundup(segsz[seg] + size[m][seg], 4)]
    /\ comsz' = [seg \in Seg |-> comsz[seg] + ld_roundup(common[m][seg], 4)]
    /\ m' = IF m = NMods THEN 1 ELSE m + 1
    /\ pc' = IF m = NMods THEN "place" ELSE pc
    /\ UNCHANGED <<program, place, w, left>>

(* Segment 0 is text, 1 to 3 follow each other as data, and the others are *)
(* text of their own that a program reaches by far calls; in the file they *)
(* come between text and data.                                             *)
NoRounding(n) == n
Paragraph(n) == ld_roundup(n, 16)

FarBeforeShared(seg) ==
    LET sum[s \in 4 .. NSEG] ==
            IF s <= 5 THEN 0 ELSE sum[s - 1] + Paragraph(segsz[s - 1] + comsz[s - 1])
    IN  sum[seg]
FarSums ==
    LET sum[s \in 4 .. NSEG] ==
            IF s = 4 THEN 0 ELSE sum[s - 1] + Paragraph(segsz[s - 1] + comsz[s - 1])
    IN  sum
FarBefore(seg) == FarSums[seg]
Far == IF NSEG > 4 THEN FarBefore(NSEG) ELSE 0

DataAdjNoText(textpad, bdata) == (IF opt.sepid THEN -bdata ELSE 0) - opt.tb + Far
DataAdj(textpad, bdata) == (IF opt.sepid THEN textpad - bdata ELSE 0) - opt.tb + Far

TextPad(etext) == IF opt.sepid THEN Paragraph(etext) ELSE etext

Positions ==
    LET etext == opt.tb + segsz[0] + comsz[0]
        textpad == TextPad(etext)
        bdata == IF ~opt.sepid /\ opt.db = 0 THEN textpad ELSE opt.db
        base[seg \in Seg] ==
            IF seg = 0 THEN opt.tb
            ELSE IF seg = 1 THEN bdata
            ELSE IF seg >= 4 THEN 0
            ELSE base[seg - 1] + segsz[seg - 1] + comsz[seg - 1]
    IN  [segbase |-> base,
         combase |-> [seg \in Seg |-> base[seg] + segsz[seg]],
         segadj  |-> [seg \in Seg |-> IF seg = 0 THEN -opt.tb
                                      ELSE IF seg >= 4 THEN textpad + FarBefore(seg)
                                      ELSE DataAdj(textpad, bdata)],
         bdata |-> bdata, etext |-> etext, etextpad |-> textpad + Far]

(* Special symbols.  The end of data is the end of the last segment that   *)
(* has any, text included.                                                 *)
LastUsedOfTwo == {seg \in 0 .. 2 : segsz[seg] # 0}
LastUsed == {seg \in 0 .. 3 : segsz[seg] # 0}
HeapTop(end) ==
    LET wanted == IF opt.heap < 256 \/ end > opt.heap - 256 THEN end + 32768 ELSE opt.heap
    IN  IF wanted > Limit /\ ~opt.bits32 THEN Limit ELSE wanted

Special(p) ==
    LET last == CHOOSE seg \in LastUsed : \A s \in LastUsed : s <= seg
        edata == IF LastUsed = {} THEN p.bdata ELSE p.segbase[last] + segsz[last]
        end == p.combase[3] + comsz[3]
    IN  [edata |-> edata, end |-> end, heap |-> HeapTop(end)]

NoPlace == [segbase |-> Zero, combase |-> Zero, segadj |-> Zero, bdata |-> 0,
            etext |-> 0, etextpad |-> 0, edata |-> 0, end |-> 0, heap |-> 0]

FitsIn16Bits(etext, end) == opt.bits32 \/ (etext <= Limit /\ end <= Limit)

(* Place the segments, move symbols and common areas with them, and check  *)
(* the limits of a 16 bit program; then the header is written and the      *)
(* second pass starts in segment 0.                                        *)
Place ==
    LET p == Positions
        q == Special(p)
    IN  /\ pc = "place"
        /\ place' = [segbase |-> p.segbase, combase |-> p.combase, segadj |-> p.segadj,
                     bdata |-> p.bdata, etext |-> p.etext, etextpad |-> p.etextpad,
                     edata |-> q.edata, end |-> q.end, heap |-> q.heap]
        /\ symbol' = [i \in Mods |-> [seg \in Seg |-> symbol[i][seg] + p.segbase[seg]]]
        /\ area' = [i \in Mods |-> [seg \in Seg |-> area[i][seg] + p.combase[seg]]]
        /\ w' = [segbase |-> p.segbase, segpos |-> p.segbase, spos |-> opt.tb, curseg |-> 0,
                 pos |-> 0, out |-> {}, wrong |-> FALSE]
        /\ pc' = IF FitsIn16Bits(p.etext, q.end) THEN "open" ELSE "fatal"
        /\ UNCHANGED <<program, m, segsz, comsz, left>>

-----------------------------------------------------------------------------
(* Second pass.  Switching segments saves the position and seeks; writing  *)
(* n bytes for module i moves both positions.                              *)
setsegUnsaved(x, seg) ==
    IF seg = x.curseg THEN x
    ELSE [x EXCEPT !.spos = x.segpos[seg], !.curseg = seg,
                   !.pos = x.segpos[seg] + place.segadj[seg]]
setseg(x, seg) ==
    IF seg = x.curseg THEN x
    ELSE [x EXCEPT !.segpos[x.curseg] = x.spos, !.spos = x.segpos[seg], !.curseg = seg,
                   !.pos = x.segpos[seg] + place.segadj[seg]]

Write(x, i, n) ==
    IF n = 0 THEN x
    ELSE [x EXCEPT !.spos = @ + n, !.pos = @ + n,
                   !.out = @ \cup {[mod |-> i, seg |-> x.curseg, at |-> x.spos,
                                    from |-> x.pos, to |-> x.pos + n]}]

(* linkmod opens the module's text.                                        *)
OpenModule ==
    /\ pc = "open"
    /\ w' = setseg(w, 0)
    /\ left' = size[m]
    /\ pc' = "text"
    /\ UNCHANGED <<program, m, segsz, comsz, symbol, area, place>>

(* Some of its text, in one segment: bytes as they are, relocated offsets  *)
(* or gaps.                                                                *)
Text ==
    /\ pc = "text"
    /\ \E seg \in Seg : \E n \in {left[seg], left[seg] - 1} :
          /\ n > 0
          /\ w' = Write(setseg(w, seg), m, n)
          /\ left' = [left EXCEPT ![seg] = @ - n]
    /\ UNCHANGED <<program, pc, m, segsz, comsz, symbol, area, place>>

(* End of text, and padmod: every segment is checked against the header    *)
(* and padded, and the next module's bases are behind it.                  *)
Padded(x, seg) ==
    LET pad == ld_roundup(x.segpos[seg], 4) - x.segpos[seg]
        y == Write(setseg(x, seg), m, pad)
        z == IF pad = 0 THEN x ELSE [y EXCEPT !.segpos[seg] = y.spos]
    IN  [z EXCEPT !.segbase[seg] = z.segpos[seg],
                  !.wrong = @ \/ x.segpos[seg] - x.segbase[seg] # size[m][seg]]

padmod(start) ==
    LET padded[s \in 0 .. NSEG] == IF s = 0 THEN start ELSE Padded(padded[s - 1], s - 1)
    IN  padded

EndModule ==
    LET start == [w EXCEPT !.segpos[w.curseg] = w.spos]
    IN  /\ pc = "text" /\ left = Zero
        /\ w' = padmod(start)[NSEG]
        /\ m' = IF m = NMods THEN 1 ELSE m + 1
        /\ pc' = IF m = NMods THEN "done" ELSE "open"
        /\ UNCHANGED <<program, segsz, comsz, symbol, area, place, left>>

(* An unmapped page zero moves text, and data that has a space of its own. *)
Start(o) == [o EXCEPT !.tb = IF o.uzp /\ @ = 0 THEN Page ELSE @,
                      !.db = IF o.uzp /\ @ = 0 /\ o.sepid THEN Page ELSE @]

Init ==
    /\ \E x \in Inputs : opt = Start(x.opt) /\ size = x.size /\ common = x.common
    /\ pc = "sum" /\ m = 1
    /\ segsz = Zero /\ comsz = Zero
    /\ symbol = [i \in Mods |-> Zero] /\ area = [i \in Mods |-> Zero]
    /\ place = NoPlace
    /\ w = [segbase |-> Zero, segpos |-> Zero, spos |-> 0, curseg |-> 0,
            pos |-> 0, out |-> {}, wrong |-> FALSE]
    /\ left = Zero

Next == SumModule \/ Place \/ OpenModule \/ Text \/ EndModule

Spec == Init /\ [][Next]_vars

-----------------------------------------------------------------------------
TypeOK ==
    /\ m \in Mods /\ pc \in {"sum", "place", "open", "text", "done", "fatal"}
    /\ {segsz, comsz, left, w.segbase, w.segpos} \subseteq [Seg -> Nat]
    /\ w.curseg \in Seg /\ w.spos \in Nat /\ w.pos \in Nat
    /\ \A x \in w.out : x.mod \in Mods /\ x.seg \in Seg /\ x.from \in Nat /\ x.to > x.from

Linking == pc \in {"open", "text"}

(* Relocation by symbol and relocation by offset mean the same addresses:  *)
(* when the second pass comes to a module its segments begin where the     *)
(* first pass moved the module's symbols; and a module's text is found to  *)
(* be as long as its header says, however it switches between segments.    *)
TextFits == ~w.wrong
SymbolsLand ==
    TypeOK /\ TextFits /\ (Linking => w.segbase = symbol[m])

(* In the file no segment, padding or module overwrites another, and text  *)
(* and data end where the header's sizes say: except that far text is put  *)
(* as far behind as the text's base is from zero (writex86.c:244), and may *)
(* run into the data by so much.                                           *)
Apart(a, b, c, d) == b <= c \/ d <= a
Overrun(x, y) == opt.tb # 0 /\ x.seg >= 4 /\ y.seg \in 1 .. 3
FileOnce ==
    LET text == place.etextpad - opt.tb
        data == place.edata - place.bdata
    IN  /\ \A x, y \in w.out :
              x # y => Apart(x.from, x.to, y.from, y.to) \/ Overrun(x, y) \/ Overrun(y, x)
        /\ \A x \in w.out : IF x.seg \in 1 .. 3 THEN text <= x.from /\ x.to <= text + data
                            ELSE x.to <= IF x.seg = 0 THEN text ELSE text + opt.tb

(* In memory nothing of one address space is in one place with something   *)
(* else, common areas included, and all of it is below the end of data and *)
(* the top of the heap.  __edata is the end of the initialised data:       *)
(* manual page ld86(1).                                                    *)
Space(seg) == IF seg >= 4 THEN seg ELSE IF opt.sepid /\ seg = 0 THEN 0 ELSE 1
Objects ==
    {[space |-> Space(x.seg), from |-> x.at, to |-> x.at + (x.to - x.from), is |-> x] : x \in w.out}
    \cup
    {[space |-> Space(p[2]), from |-> area[p[1]][p[2]],
      to |-> area[p[1]][p[2]] + common[p[1]][p[2]], is |-> p] :
        p \in {q \in Mods \X Seg : common[q[1]][q[2]] # 0}}
EndOfData ==
    /\ place.bdata <= place.edata /\ place.edata <= place.end
    /\ \A x \in w.out : x.seg \in 1 .. 3 => x.at + (x.to - x.from) <= place.edata
MemoryOnce ==
    /\ \A x, y \in Objects : x # y /\ x.space = y.space => Apart(x.from, x.to, y.from, y.to)
    /\ \A x \in Objects : x.space = 1 => x.to <= place.end
    /\ place.end <= place.heap
    /\ EndOfData

(* Every byte of the program is in a place of its own, in the file and in  *)
(* memory, far text with a base apart (FileOnce).                          *)
WrittenOnce == pc = "done" => FileOnce /\ MemoryOnce

(* The file loaded at address tb of a code segment, the special symbols    *)
(* __segXSO and __segoff, in paragraphs, lead from there to the segment,   *)
(* whatever the options and the sizes of the others: manual page ld86(1),  *)
(* predefined labels.  The far segments of an impure program, whose text   *)
(* is not rounded to a paragraph (writex86.c:233), begin behind the place  *)
(* __segXSO leads to by what its text has over whole ones.                 *)
SegmentOffset(seg) == (place.segadj[seg] - place.segadj[0]) \div 16
Behind(x) == opt.tb + x.from - (16 * SegmentOffset(x.seg) + x.at)
Reachable ==
    pc = "done" =>
        \A x \in w.out : Behind(x) = IF opt.sepid \/ x.seg < 4 THEN 0 ELSE place.etext % 16
=============================================================================
