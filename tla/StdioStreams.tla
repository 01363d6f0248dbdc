---------------------------- MODULE StdioStreams ----------------------------
(***************************************************************************)
(* libc/stdio/stdio.c: the streams of a program, from fopen, freopen and   *)
(* fclose to the flush at exit.                                            *)
(*                                                                         *)
(* A stream is the address of its FILE: one of the static ones, or one     *)
(* that malloc gave.  Of a FILE's contents it matters here only whether    *)
(* there is a buffer and whether output is pending in it; module Stdio has *)
(* the rest.  Descriptors and memory are those of the system.              *)
(***************************************************************************)
EXTENDS Integers, FiniteSets

CONSTANTS Std,        \* the static streams flushed at exit: stdout and stderr
          Dyn,        \* the addresses malloc has for FILEs
          Fds,        \* descriptors of the process
          Outcomes,   \* how write() may end: subset of BOOLEAN
          NewBuffers, \* what setvbuf is called with: subset of {"unbuf", "heap", "user"}
          Reopened    \* whether freopen is called on a static stream that is closed

ASSUME StreamsAssumption ==
    /\ Fds \subseteq Nat /\ Std \cup Dyn \subseteq Nat \ {0} /\ Std \cap Dyn = {}
    /\ IsFiniteSet(Std) /\ IsFiniteSet(Dyn)
    /\ Outcomes \subseteq BOOLEAN /\ Reopened \in BOOLEAN
    /\ NewBuffers \subseteq {"unbuf", "heap", "user"}

VARIABLES file,      \* the FILEs: see Closed and Static
          IO_list,   \* __IO_list
          alive,     \* FILEs malloc has given and not got back
          buffers,   \* how many buffers malloc has given and not got back
          fds,       \* open descriptors
          held,      \* ghost: streams the program has open, as it sees it
          past,      \* ghost: "unwritten" when a stream could not be closed because
                     \* write() failed, "disorder" when one was not the newest
          exited

vars == <<file, IO_list, alive, buffers, fds, held, past, exited>>

NULL == 0
NoFd == -1
Stream == Std \cup Dyn

Closed == [fd |-> NoFd, mode |-> {}, start |-> "null", next |-> NULL, dirty |-> FALSE]
Static(fd) == [fd |-> fd, mode |-> {"WRITE"}, start |-> "static", next |-> NULL, dirty |-> FALSE]

(* The state while a call runs, and the streams on the list of one.        *)
State == [file |-> file, list |-> IO_list, alive |-> alive, buffers |-> buffers, fds |-> fds]

Finish(s) ==
    /\ file' = s.file /\ IO_list' = s.list /\ alive' = s.alive
    /\ buffers' = s.buffers /\ fds' = s.fds

(* The streams that the links lead to from f on: the smallest set that has *)
(* f and, with a stream, the one that its next points to.                  *)
Leads(s, f, S) == f \in S \cup {NULL} /\ \A g \in S : s.file[g].next \in S \cup {NULL}
From(s, f) == {g \in Stream : \A S \in SUBSET Stream : Leads(s, f, S) => g \in S}

Listed(s) == From(s, s.list)

-----------------------------------------------------------------------------
(* fflush clears the buffer even when it cannot be written.                *)
fflush(s, f, ok) ==
    [s EXCEPT !.file[f].dirty = FALSE,
              !.file[f].mode = IF s.file[f].dirty /\ ~ok THEN @ \cup {"ERR"} ELSE @]
Failed(s, f, ok) == s.file[f].dirty /\ ~ok
(* How write() may end in a call that flushes f: without output it is not  *)
(* called.                                                                 *)
Writes(f) == IF file[f].dirty THEN Outcomes ELSE {TRUE}

FreeBufferKept(s, f) ==
    IF "FREEBUF" \notin s.file[f].mode THEN s
    ELSE [s EXCEPT !.file[f].mode = @ \ {"FREEBUF"}]
FreeBuffer(s, f) ==
    IF "FREEBUF" \notin s.file[f].mode THEN s
    ELSE [s EXCEPT !.file[f].mode = @ \ {"FREEBUF"}, !.buffers = @ - 1]

(* fclose takes a stream off the list by making its successor the first:   *)
(* prev is never anything but 0.                                           *)
StayListed(s, f) == s
Unlist(s, f) == IF f \in Listed(s) THEN [s EXCEPT !.list = s.file[f].next] ELSE s

FreeFile(s, f) ==
    IF "FREEFIL" \in s.file[f].mode
    THEN [Unlist(s, f) EXCEPT !.file[f].mode = {}, !.alive = @ \ {f}]
    ELSE [s EXCEPT !.file[f].mode = {}]

CloseFd(s, f) ==
    IF s.file[f].fd = NoFd THEN s
    ELSE [s EXCEPT !.fds = @ \ {s.file[f].fd}, !.file[f].fd = NoFd]

fclose(s, f, ok) ==
    LET flushed == fflush(s, f, ok)
        freed == FreeBuffer(CloseFd(flushed, f), f)
        gone == IF "FREEBUF" \in s.file[f].mode
                THEN [freed EXCEPT !.file[f].start = "null"] ELSE freed
    IN  IF s.file[f].fd # NoFd /\ Failed(s, f, ok) THEN flushed ELSE FreeFile(gone, f)

-----------------------------------------------------------------------------
(* __fopen.  The kernel gives the lowest free descriptor, or none.         *)
LowestFd(s) == CHOOSE fd \in Fds \ s.fds : \A g \in Fds \ s.fds : fd <= g

Opened(s, f, access) ==
    [s EXCEPT !.file[f].fd = LowestFd(s), !.fds = @ \cup {LowestFd(s)},
              !.file[f].mode = @ \cup access, !.file[f].dirty = FALSE]

Unchained(s, f) == [s EXCEPT !.list = f, !.file[f].next = NULL]
Chain(s, f) == [s EXCEPT !.list = f, !.file[f].next = s.list]

(* A new FILE, with a buffer or, without the memory, its own few bytes.    *)
Create(s, f, memory) ==
    LET chained == Chain([s EXCEPT !.alive = @ \cup {f}], f)
    IN  IF memory
        THEN [chained EXCEPT !.file[f].mode = {"FREEFIL", "FREEBUF"}, !.buffers = @ + 1,
                             !.file[f].start = "heap"]
        ELSE [chained EXCEPT !.file[f].mode = {"FREEFIL"}, !.file[f].start = "unbuf"]

fopen ==
    /\ ~exited /\ Fds \ fds # {}
    /\ \E f \in Dyn \ alive, memory \in BOOLEAN, access \in {{"READ"}, {"WRITE"}} :
          /\ Finish(Opened(Create(State, f, memory), f, access))
          /\ held' = held \cup {f}
    /\ UNCHANGED <<past, exited>>

(* What the properties ask of the program and the system.                  *)
Unwritten(f, ok) == IF Failed(State, f, ok) THEN {"unwritten"} ELSE {}
Disorder(f) == IF f \in Dyn /\ f # IO_list THEN {"disorder"} ELSE {}

(* freopen closes the stream without giving back its FILE and buffer, and  *)
(* opens it again, or gives them back after all.                           *)
Keepable(s, f) == s.file[f].mode \cap {"FREEFIL", "FREEBUF"}

CloseKept(s, f, ok) ==
    LET bare == [s EXCEPT !.file[f].mode = @ \ Keepable(s, f)]
    IN  [fclose(bare, f, ok) EXCEPT !.file[f].mode = @ \cup Keepable(s, f)]

CloseAfterAll(s, f, access, ok) ==
    fclose([s EXCEPT !.file[f].mode = @ \cup access], f, ok)

freopen ==
    /\ ~exited
    /\ \E f \in held \cup (IF Reopened THEN Std ELSE {}) : \E ok \in Writes(f),
          opens \in BOOLEAN, access \in {{"READ"}, {"WRITE"}} :
          LET kept == CloseKept(State, f, ok)
          IN  IF opens /\ Fds \ kept.fds # {}
              THEN /\ Finish(Opened(kept, f, access))
                   /\ held' = held \cup {f}
                   /\ past' = past \cup Unwritten(f, ok)
              ELSE /\ Finish(CloseAfterAll(kept, f, access, ok))
                   /\ held' = held \ {f}
                   /\ past' = past \cup Unwritten(f, ok) \cup Disorder(f)
    /\ UNCHANGED exited

Fclose ==
    /\ ~exited
    /\ \E f \in held : \E ok \in Writes(f) :
          /\ Finish(fclose(State, f, ok))
          /\ held' = held \ {f}
          /\ past' = past \cup Unwritten(f, ok) \cup Disorder(f)
    /\ UNCHANGED exited

(* Output to a stream stays in its buffer for a while.                     *)
Put ==
    /\ ~exited
    /\ \E f \in held :
          /\ "WRITE" \in file[f].mode /\ "ERR" \notin file[f].mode
          /\ file' = [file EXCEPT ![f].dirty = TRUE]
    /\ UNCHANGED <<IO_list, alive, buffers, fds, held, past, exited>>

(* setvbuf, which may find no memory for a buffer, and setbuffer.          *)
setvbuf(s, f, new, ok) ==
    LET freed == FreeBuffer(fflush(s, f, ok), f)
    IN  IF new = "heap"
        THEN [freed EXCEPT !.file[f].start = new, !.buffers = @ + 1,
                           !.file[f].mode = @ \cup {"FREEBUF"}]
        ELSE [freed EXCEPT !.file[f].start = new]

SetBuffer ==
    /\ ~exited
    /\ \E f \in held, new \in NewBuffers : \E ok \in Writes(f) :
          Finish(setvbuf(State, f, new, ok))
    /\ UNCHANGED <<held, past, exited>>

(* fflush(NULL) flushes the static streams and then those on the list, up  *)
(* to the first that fails.                                                *)
Ahead(g) == IF g \in Std THEN {f \in Std : f < g}
            ELSE Std \cup (Listed(State) \ From(State, g))
Flushed(S) == [f \in Stream |-> IF f \in S THEN [file[f] EXCEPT !.dirty = FALSE] ELSE file[f]]

FlushAll ==
    /\ ~exited
    /\ \/ TRUE \in Outcomes /\ file' = Flushed(Std \cup Listed(State))
       \/ \E g \in Std \cup Listed(State) :
             /\ FALSE \in Outcomes /\ file[g].dirty
             /\ file' = [Flushed(Ahead(g)) EXCEPT ![g] = fflush(State, g, FALSE).file[g]]
    /\ UNCHANGED <<IO_list, alive, buffers, fds, held, past, exited>>

(* At exit the static streams are flushed, and those on the list flushed   *)
(* and closed; nobody is left to see an error flag.                        *)
AtExit == Std \cup Listed(State)

stdio_close_all ==
    /\ ~exited /\ exited' = TRUE
    /\ file' = [f \in Stream |->
                  IF f \in Listed(State) THEN [file[f] EXCEPT !.dirty = FALSE, !.fd = NoFd]
                  ELSE IF f \in AtExit THEN [file[f] EXCEPT !.dirty = FALSE] ELSE file[f]]
    /\ fds' = fds \ {file[f].fd : f \in Listed(State)}
    /\ UNCHANGED <<IO_list, alive, buffers, held, past>>

Init ==
    /\ \E fd \in [Std -> Fds] :
          /\ \A f, g \in Std : f # g => fd[f] # fd[g]
          /\ file = [f \in Stream |->
                       IF f \in Dyn THEN Closed ELSE Static(fd[f])]
    /\ IO_list = NULL /\ alive = {} /\ buffers = 0
    /\ fds = {file[f].fd : f \in Std}
    /\ held = Std /\ past = {} /\ exited = FALSE

Next == fopen \/ freopen \/ Fclose \/ Put \/ SetBuffer \/ FlushAll \/ stdio_close_all

Spec == Init /\ [][Next]_vars

-----------------------------------------------------------------------------
TypeOK ==
    /\ file \in [Stream -> [fd : Fds \cup {NoFd},
                            mode : SUBSET {"READ", "WRITE", "ERR", "FREEFIL", "FREEBUF"},
                            start : {"null", "static", "unbuf", "heap", "user"},
                            next : Dyn \cup {NULL}, dirty : BOOLEAN]]
    /\ IO_list \in Dyn \cup {NULL} /\ alive \subseteq Dyn /\ held \subseteq Stream
    /\ buffers \in Nat /\ fds \subseteq Fds
    /\ past \subseteq {"unwritten", "disorder"} /\ exited \in BOOLEAN

(* What a FILE holds after it was given back is not told apart.            *)
Relevant == <<[f \in Stream |-> IF f \in Std \cup alive THEN file[f] ELSE Closed],
              IO_list, alive, buffers, fds, held, past, exited>>

(* The list that fflush(NULL) and exit walk never leads to a FILE that has *)
(* been given back to malloc, and never in a circle, although addresses    *)
(* are used again and fclose breaks the list.                              *)
ListSound ==
    /\ TypeOK
    /\ Listed(State) \subseteq alive
    /\ \A f \in Listed(State) : f \notin From(State, file[f].next)

(* As long as no flush fails in it, a closed stream leaves nothing behind, *)
(* and an open one has all it had: no FILE, buffer or descriptor is lost,  *)
(* or given back twice, by any order of fopen, freopen, setvbuf, fclose.   *)
(* The buffer an open stream points to is never one that was given back.   *)
OpenHasBuffer == \A f \in held : file[f].start # "null"
NothingLeaks ==
    OpenHasBuffer /\ ("unwritten" \notin past =>
        /\ alive = held \cap Dyn
        /\ buffers = Cardinality({f \in Stream : "FREEBUF" \in file[f].mode})
        /\ fds = {file[f].fd : f \in Stream} \ {NoFd})

(* Line 20 says that __IO_list is for fflush at exit: then no output of a  *)
(* stream that is open is left in its buffer.                              *)
AllFlushed == exited => \A f \in held : ~file[f].dirty

(* So it is for a program that closes its newest stream first.             *)
FlushedInOrder == "disorder" \notin past => AllFlushed
=============================================================================
