------------------------------- MODULE Stream -------------------------------
(***************************************************************************)
(* What a stream opened for reading and writing promises: it behaves as if *)
(* every call worked on the file itself.  There is a file, a position in   *)
(* it and the characters pushed back by ungetc; no buffer.  Module Stdio   *)
(* implements this specification.                                          *)
(***************************************************************************)
EXTENDS Integers, Sequences

CONSTANTS Byte,       \* the characters
          File,       \* what the file holds at first
          MaxCount,   \* the most a single call reads or writes
          Offsets     \* what fseek is called with

VARIABLES content,    \* the file
          pos,        \* bytes of the file before the next one to read
          pushed,     \* characters pushed back and not yet read again
          call        \* the last call and what it returned

vars == <<content, pos, pushed, call>>

Overlay(file, at, bytes) ==
    [i \in 1 .. (IF at + Len(bytes) > Len(file) THEN at + Len(bytes) ELSE Len(file)) |->
       IF i \in at + 1 .. at + Len(bytes) THEN bytes[i - at] ELSE file[i]]

(* What the reader will see.                                               *)
Ahead == pushed \o SubSeq(content, pos + 1, Len(content))

(* Where the stream is once pushed-back characters are dropped: ungetc may *)
(* or may not have moved it back.                                          *)
Places == {p \in {pos, pos - Len(pushed)} : p >= 0}

Read(n) ==
    \E k \in 1 .. n :
        /\ k <= Len(Ahead)
        /\ call' = [op |-> "read", n |-> n, got |-> SubSeq(Ahead, 1, k)]
        /\ pushed' = IF k < Len(pushed) THEN SubSeq(pushed, k + 1, Len(pushed)) ELSE <<>>
        /\ pos' = pos + (IF k < Len(pushed) THEN 0 ELSE k - Len(pushed))
        /\ UNCHANGED content

Unget(c) ==
    /\ call' = [op |-> "ungetc", n |-> c, got |-> <<c>>]
    /\ pushed' = <<c>> \o pushed
    /\ UNCHANGED <<content, pos>>

Write(bytes) ==
    \E p \in Places :
        /\ call' = [op |-> "write", n |-> Len(bytes), got |-> bytes]
        /\ content' = Overlay(content, p, bytes)
        /\ pos' = p + Len(bytes)
        /\ pushed' = <<>>

Target(p, offset, ref) ==
    CASE ref = "SET" -> offset
      [] ref = "CUR" -> p + offset
      [] ref = "END" -> Len(content) + offset

Seek(offset, ref) ==
    \E p \in Places :
        /\ Target(p, offset, ref) >= 0
        /\ call' = [op |-> ref, n |-> offset, got |-> <<>>]
        /\ pos' = Target(p, offset, ref)
        /\ pushed' = <<>>
        /\ UNCHANGED content

Tell ==
    \E p \in Places :
        /\ call' = [op |-> "ftell", n |-> p, got |-> <<>>]
        /\ pos' = p
        /\ pushed' = <<>>
        /\ UNCHANGED content

Init ==
    /\ content = File
    /\ pos = 0
    /\ pushed = <<>>
    /\ call = [op |-> "none", n |-> 0, got |-> <<>>]

(* A call that fails, or that has no effect to speak of, may drop what was *)
(* pushed back.                                                            *)
Other ==
    /\ call' = [op |-> "none", n |-> 0, got |-> <<>>]
    /\ \/ UNCHANGED <<pos, pushed>>
       \/ pos' \in Places /\ pushed' = <<>>
    /\ UNCHANGED content

Next ==
    \/ \E n \in 1 .. MaxCount : Read(n)
    \/ \E c \in Byte : Unget(c)
    \/ \E n \in 1 .. MaxCount : \E bytes \in [1 .. n -> Byte] : Write(bytes)
    \/ \E offset \in Offsets, ref \in {"SET", "CUR", "END"} : Seek(offset, ref)
    \/ Tell
    \/ Other

Spec == Init /\ [][Next]_vars
=============================================================================
