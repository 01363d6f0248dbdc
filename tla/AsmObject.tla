------------------------------ MODULE AsmObject ------------------------------
(***************************************************************************)
(* The object code as/genobj.c writes and ld/writex86.c reads.  The writer *)
(* holds absolute bytes and gaps back, to join them to what follows; the   *)
(* reader goes through the commands with a position for each segment.      *)
(*                                                                         *)
(* The file is a sequence of commands.  A byte is a value of its own: one  *)
(* of an instruction, or one of the bytes of a number.                     *)
(***************************************************************************)
EXTENDS Integers, Sequences, SequencesExt

CONSTANTS ABSMAX,   \* OBJ_MAX_ABS_LEN, bytes in a command; ABS_TEXT_MAX of ld
          Seg       \* segments

ASSUME ObjectAssumption == ABSMAX \in Nat \ {0} /\ 0 \in Seg

\* The bytes of a number, least significant first, as u2cn and u4cn lay them out.
Bytes(value, width) == [k \in 1 .. width |-> <<"byte", k, value>>]

-----------------------------------------------------------------------------
(* The writer: bytes and gap held back, size of the last relocation, and   *)
(* the commands written.                                                   *)
initobj == [abs |-> <<>>, rmb |-> 0, relsize |-> 0, out |-> <<>>]

putobj1(o, command) == [o EXCEPT !.out = Append(@, command)]

\* The count has the low bits of the command, so that the longest one reads 0.
flushabs(o) ==
    IF o.abs = <<>> THEN o
    ELSE [putobj1(o, [is |-> "abs", count |-> Len(o.abs) % ABSMAX, bytes |-> o.abs])
             EXCEPT !.abs = <<>>]

flushrmb(o) ==
    IF o.rmb = 0 THEN o
    ELSE [putobj1(o, [is |-> "skip", count |-> o.rmb]) EXCEPT !.rmb = 0]

putabsNoGap(o, byte) ==
    LET p == IF Len(o.abs) >= ABSMAX THEN flushabs(o) ELSE o
    IN  [p EXCEPT !.abs = Append(@, byte)]
putabs(o, byte) ==
    LET p == flushrmb(o)
        q == IF Len(p.abs) >= ABSMAX THEN flushabs(p) ELSE p
    IN  [q EXCEPT !.abs = Append(@, byte)]
putabsAll(o, bytes) ==
    LET put[n \in 0 .. Len(bytes)] == IF n = 0 THEN o ELSE putabs(put[n - 1], bytes[n])
    IN  put[Len(bytes)]

putobj(o, command) == putobj1(flushrmb(flushabs(o)), command)

accumulate_rmb(o, n) == [flushabs(o) EXCEPT !.rmb = @ + n]

(* An address of some width: absolute, an offset in a segment of this      *)
(* module, or a symbol of another one and an offset from it.               *)
genobjadr(o, adr, width, pcr) ==
    IF ~adr.rel THEN putabsAll(o, Bytes(adr.value, width))
    ELSE LET p == IF width = o.relsize THEN o
                  ELSE [putobj(o, [is |-> "size", count |-> width]) EXCEPT !.relsize = width]
         IN  putobj(p, IF adr.imp THEN [is |-> "symbol", name |-> adr.name, value |-> adr.value, pcr |-> pcr]
                       ELSE [is |-> "offset", seg |-> adr.seg, value |-> adr.value, pcr |-> pcr])

objtrailer(o) == putobj(o, [is |-> "end"])

-----------------------------------------------------------------------------
(* The reader: linkmod, for one module, with segments that start at 0.     *)
(* What it puts where is a set of cells: a byte, or a relocated address.   *)
Loading == [pos |-> [s \in Seg |-> 0], seg |-> 0, relsize |-> 2, cells |-> {}]

Place(r, items) ==
    [r EXCEPT !.cells = @ \cup {[seg |-> r.seg, at |-> r.pos[r.seg] + k - 1, is |-> items[k]] :
                                   k \in DOMAIN items},
              !.pos[r.seg] = @ + Len(items)]

PlaceAddress(r, what, width) ==
    [r EXCEPT !.cells = @ \cup {[seg |-> r.seg, at |-> r.pos[r.seg], is |-> what]},
              !.pos[r.seg] = @ + width]

\* The end of the address, from which a relative one counts, and its target.
Offset(command, r) ==
    [seg |-> command.seg, name |-> "", width |-> r.relsize, pcr |-> command.pcr,
     value |-> command.value - (IF command.pcr THEN r.pos[r.seg] + r.relsize ELSE 0)]
Symbol(command, r) ==
    [seg |-> 0, name |-> command.name, width |-> r.relsize, pcr |-> command.pcr,
     value |-> command.value - (IF command.pcr THEN r.pos[r.seg] + r.relsize ELSE 0)]

Read(r, command) ==
    CASE command.is = "size"   -> [r EXCEPT !.relsize = command.count]
      [] command.is = "skip"   -> [r EXCEPT !.pos[r.seg] = @ + command.count]
      [] command.is = "seg"    -> [r EXCEPT !.seg = command.count]
      [] command.is = "abs"    ->
            Place(r, SubSeq(command.bytes, 1, IF command.count = 0 THEN ABSMAX ELSE command.count))
      [] command.is = "offset" -> PlaceAddress(r, Offset(command, r), r.relsize)
      [] command.is = "symbol" -> PlaceAddress(r, Symbol(command, r), r.relsize)
      [] command.is = "end"    -> r

linkmod(commands) ==
    LET read[n \in 0 .. Len(commands)] == IF n = 0 THEN Loading ELSE Read(read[n - 1], commands[n])
    IN  read[Len(commands)]
=============================================================================
