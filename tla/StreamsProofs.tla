--------------------------- MODULE StreamsProofs ---------------------------
(***************************************************************************)
(* Proofs about StdioStreams, for any number of streams, descriptors and   *)
(* buffers: the list of streams is sound, nothing is lost or given back    *)
(* twice unless a flush fails in a close, and a program that closes its    *)
(* newest stream first loses no output. What one call does is stated of    *)
(* the state it leaves (Facts), then that it keeps the parts of the        *)
(* invariant (Good).                                                       *)
(***************************************************************************)
EXTENDS StdioStreams, FiniteSetTheorems, TLAPS

(* The types of StdioStreams!TypeOK, for states as records.                *)
Modes == {"READ", "WRITE", "ERR", "FREEFIL", "FREEBUF"}
Starts == {"null", "static", "unbuf", "heap", "user"}

FileType == [fd : Fds \cup {NoFd},
             mode : SUBSET Modes, start : Starts,
             next : Dyn \cup {NULL}, dirty : BOOLEAN]

Shape == [file : [Stream -> FileType], list : Dyn \cup {NULL}, alive : SUBSET Dyn,
          buffers : Int, fds : SUBSET Fds]

(* What From gives is closed under the links, and has its first stream.    *)
LEMMA FromLeads ==
    ASSUME NEW s \in Shape, NEW f \in Dyn \cup {NULL}
    PROVE  /\ From(s, f) \in SUBSET Stream
           /\ Leads(s, f, From(s, f))
           /\ NULL \notin From(s, f)
<1>1. Leads(s, f, Stream)
  BY DEF Leads, Shape, FileType, Stream
<1>2. NULL \notin Stream
  BY StreamsAssumption DEF NULL, Stream
<1>3. f \in From(s, f) \cup {NULL}
  BY <1>1, <1>2 DEF Leads, From, Stream
<1>4. ASSUME NEW g \in From(s, f)
      PROVE  s.file[g].next \in From(s, f) \cup {NULL}
  <2>1. g \in Stream /\ s.file[g].next \in Stream \cup {NULL}
    BY DEF From, Shape, FileType, Stream
  <2>2. \A S \in SUBSET Stream : Leads(s, f, S) => s.file[g].next \in S \cup {NULL}
    BY DEF From, Leads
  <2> QED
    BY <2>1, <2>2 DEF From
<1> QED
  BY <1>2, <1>3, <1>4 DEF From, Leads

(* It is the smallest such set.                                            *)
LEMMA FromLeast ==
    ASSUME NEW s, NEW f, NEW S \in SUBSET Stream, Leads(s, f, S)
    PROVE  From(s, f) \subseteq S
BY DEF From

(* Two states with the same links from f on lead to the same streams.      *)
LEMMA FromSame ==
    ASSUME NEW s \in Shape, NEW t \in Shape, NEW f \in Dyn \cup {NULL},
           \A g \in From(s, f) : t.file[g].next = s.file[g].next
    PROVE  From(t, f) = From(s, f)
<1>1. From(t, f) \subseteq From(s, f)
  <2>1. Leads(t, f, From(s, f))
    BY FromLeads DEF Leads
  <2> QED
    BY <2>1, FromLeads, FromLeast
<1>2. Leads(s, f, From(t, f))
  BY <1>1, FromLeads DEF Leads
<1> QED
  BY <1>1, <1>2, FromLeads, FromLeast

(* A stream leads to itself and to what its successor leads to.            *)
LEMMA FromNext ==
    ASSUME NEW s \in Shape, NEW f \in Dyn
    PROVE  From(s, f) = {f} \cup From(s, s.file[f].next)
<1> DEFINE next == s.file[f].next
<1>1. f \in Stream /\ next \in Dyn \cup {NULL} /\ f # NULL
  BY StreamsAssumption DEF Shape, FileType, Stream, NULL
<1> HIDE DEF next
<1>2. f \in From(s, f) /\ next \in From(s, f) \cup {NULL}
  BY <1>1, FromLeads DEF Leads, next
<1>3. Leads(s, next, From(s, f))
  BY <1>2, FromLeads DEF Leads
<1>4. From(s, next) \subseteq From(s, f)
  BY <1>3, FromLeads, FromLeast
<1>5. /\ From(s, next) \in SUBSET Stream
      /\ Leads(s, next, From(s, next))
  BY <1>1, FromLeads
<1>6. Leads(s, f, {f} \cup From(s, next))
  BY <1>5 DEF Leads, next
<1>7. From(s, f) \subseteq {f} \cup From(s, next)
  BY <1>1, <1>5, <1>6, FromLeast
<1> QED
  BY <1>2, <1>4, <1>7 DEF next

(* What a stream on the way leads to is on the way.                        *)
LEMMA FromInside ==
    ASSUME NEW s \in Shape, NEW f \in Dyn \cup {NULL}, NEW g \in From(s, f)
    PROVE  From(s, s.file[g].next) \subseteq From(s, f)
<1>1. Leads(s, s.file[g].next, From(s, f))
  BY FromLeads DEF Leads
<1> QED
  BY <1>1, FromLeads, FromLeast

(* From nowhere there is no way.                                           *)
LEMMA FromNull == ASSUME NEW s \in Shape PROVE From(s, NULL) = {}
<1>1. Leads(s, NULL, {})
  BY DEF Leads
<1> QED
  BY <1>1, FromLeast

(* There is a lowest of the free descriptors when there is one.            *)
LEMMA LowestFdFree ==
    ASSUME NEW s \in Shape, Fds \ s.fds # {}
    PROVE  LowestFd(s) \in Fds \ s.fds
<1> DEFINE T == Fds \ s.fds
           Less == {ss \in Nat \X Nat : ss[1] < ss[2]}
<1>1. OpToRel(<, Nat) = Less
  BY Zenon DEF OpToRel
<1>2. IsWellFoundedOn(Less, Nat)
  BY <1>1, NatLessThanWellFounded, Zenon
<1>3. T \subseteq Nat
  BY StreamsAssumption
<1>4. \E x \in T : \A y \in T : <<y, x>> \notin Less
  <2> HIDE DEF T, Less
  <2> QED
    BY <1>2, <1>3, WFMin DEF T
<1>5. PICK x \in T : \A y \in T : <<y, x>> \notin Less
  BY <1>4
<1>6. ASSUME NEW y \in T PROVE x <= y
  <2>1. <<y, x>> \in Nat \X Nat /\ <<y, x>>[1] = y /\ <<y, x>>[2] = x
    BY <1>3
  <2>2. ~(y < x)
    BY <1>5, <2>1
  <2> QED
    BY <1>3, <2>2
<1> QED
  BY <1>6 DEF LowestFd

-----------------------------------------------------------------------------
(* t is s but for what names says of the stream f and of the system.       *)
Touches(s, t, f, names) ==
    /\ t \in Shape
    /\ \A g \in Stream : g # f => t.file[g] = s.file[g]
    /\ "fd" \in names \/ t.file[f].fd = s.file[f].fd
    /\ "mode" \in names \/ t.file[f].mode = s.file[f].mode
    /\ "start" \in names \/ t.file[f].start = s.file[f].start
    /\ "next" \in names \/ t.file[f].next = s.file[f].next
    /\ "dirty" \in names \/ t.file[f].dirty = s.file[f].dirty
    /\ "list" \in names \/ t.list = s.list
    /\ "alive" \in names \/ t.alive = s.alive
    /\ "buffers" \in names \/ t.buffers = s.buffers
    /\ "fds" \in names \/ t.fds = s.fds

(* What it comes to when one field of a stream or of the system changes.   *)
LEMMA SetFd ==
    ASSUME NEW s \in Shape, NEW f \in Stream, NEW x \in Fds \cup {NoFd}
    PROVE  LET t == [s EXCEPT !.file[f].fd = x] IN
           Touches(s, t, f, {"fd"}) /\ t.file[f].fd = x
BY DEF Touches, Shape, FileType

LEMMA SetMode ==
    ASSUME NEW s \in Shape, NEW f \in Stream, NEW x \in SUBSET Modes
    PROVE  LET t == [s EXCEPT !.file[f].mode = x] IN
           Touches(s, t, f, {"mode"}) /\ t.file[f].mode = x
BY DEF Touches, Shape, FileType

LEMMA SetStart ==
    ASSUME NEW s \in Shape, NEW f \in Stream, NEW x \in Starts
    PROVE  LET t == [s EXCEPT !.file[f].start = x] IN
           Touches(s, t, f, {"start"}) /\ t.file[f].start = x
BY DEF Touches, Shape, FileType

LEMMA SetNext ==
    ASSUME NEW s \in Shape, NEW f \in Stream, NEW x \in Dyn \cup {NULL}
    PROVE  LET t == [s EXCEPT !.file[f].next = x] IN
           Touches(s, t, f, {"next"}) /\ t.file[f].next = x
BY DEF Touches, Shape, FileType

LEMMA SetDirty ==
    ASSUME NEW s \in Shape, NEW f \in Stream, NEW x \in BOOLEAN
    PROVE  LET t == [s EXCEPT !.file[f].dirty = x] IN
           Touches(s, t, f, {"dirty"}) /\ t.file[f].dirty = x
BY DEF Touches, Shape, FileType

LEMMA SetList ==
    ASSUME NEW s \in Shape, NEW f \in Stream, NEW x \in Dyn \cup {NULL}
    PROVE  LET t == [s EXCEPT !.list = x] IN
           Touches(s, t, f, {"list"}) /\ t.list = x
BY DEF Touches, Shape

LEMMA SetAlive ==
    ASSUME NEW s \in Shape, NEW f \in Stream, NEW x \in SUBSET Dyn
    PROVE  LET t == [s EXCEPT !.alive = x] IN
           Touches(s, t, f, {"alive"}) /\ t.alive = x
BY DEF Touches, Shape

LEMMA SetBuffers ==
    ASSUME NEW s \in Shape, NEW f \in Stream, NEW x \in Int
    PROVE  LET t == [s EXCEPT !.buffers = x] IN
           Touches(s, t, f, {"buffers"}) /\ t.buffers = x
BY DEF Touches, Shape

LEMMA SetFds ==
    ASSUME NEW s \in Shape, NEW f \in Stream, NEW x \in SUBSET Fds
    PROVE  LET t == [s EXCEPT !.fds = x] IN
           Touches(s, t, f, {"fds"}) /\ t.fds = x
BY DEF Touches, Shape

(* The buffer is empty afterwards; the error flag may be set.              *)
LEMMA FflushFacts ==
    ASSUME NEW s \in Shape, NEW f \in Stream, NEW ok \in BOOLEAN
    PROVE  LET t == fflush(s, f, ok) IN
           /\ Touches(s, t, f, {"mode", "dirty"})
           /\ t.file[f].mode \in {s.file[f].mode, s.file[f].mode \cup {"ERR"}}
           /\ ~t.file[f].dirty
<1> DEFINE u == [s EXCEPT !.file[f].dirty = FALSE]
           mode == IF s.file[f].dirty /\ ~ok THEN s.file[f].mode \cup {"ERR"} ELSE s.file[f].mode
<1>1. fflush(s, f, ok) = [u EXCEPT !.file[f].mode = mode]
  BY Zenon DEF fflush
<1>2. /\ mode \in {s.file[f].mode, s.file[f].mode \cup {"ERR"}}
      /\ mode \in SUBSET Modes
  BY DEF Shape, FileType, Modes
<1>3. Touches(s, u, f, {"dirty"}) /\ u.file[f].dirty = FALSE
  BY SetDirty
<1> HIDE DEF u, mode
<1>4. u \in Shape
  BY <1>3 DEF Touches
<1>5. /\ Touches(u, fflush(s, f, ok), f, {"mode"})
      /\ fflush(s, f, ok).file[f].mode = mode
  BY <1>1, <1>2, <1>4, SetMode
<1> QED
  BY <1>2, <1>3, <1>5 DEF Touches

(* A buffer is given back at most once.                                    *)
LEMMA FreeBufferFacts ==
    ASSUME NEW s \in Shape, NEW f \in Stream
    PROVE  LET t == FreeBuffer(s, f) IN
           /\ Touches(s, t, f, {"mode", "buffers"})
           /\ t.buffers = IF "FREEBUF" \in s.file[f].mode THEN s.buffers - 1 ELSE s.buffers
           /\ t.file[f].mode = s.file[f].mode \ {"FREEBUF"}
<1>1. CASE "FREEBUF" \notin s.file[f].mode
  BY <1>1 DEF FreeBuffer, Touches, Shape, FileType
<1>2. CASE "FREEBUF" \in s.file[f].mode
  <2> DEFINE mode == s.file[f].mode \ {"FREEBUF"}
             u == [s EXCEPT !.file[f].mode = mode]
  <2>1. FreeBuffer(s, f) = [u EXCEPT !.buffers = s.buffers - 1]
    BY <1>2, Zenon DEF FreeBuffer
  <2>2. mode \in SUBSET Modes /\ s.buffers - 1 \in Int
    BY DEF Shape, FileType
  <2> HIDE DEF mode
  <2>3. Touches(s, u, f, {"mode"}) /\ u.file[f].mode = mode
    BY <2>2, SetMode
  <2> HIDE DEF u
  <2>4. u \in Shape
    BY <2>3 DEF Touches
  <2>5. /\ Touches(u, FreeBuffer(s, f), f, {"buffers"})
        /\ FreeBuffer(s, f).buffers = s.buffers - 1
    BY <2>1, <2>2, <2>4, SetBuffers
  <2> QED
    BY <1>2, <2>3, <2>5 DEF Touches, mode
<1> QED
  BY <1>1, <1>2

(* The descriptor is closed, if there is one.                              *)
LEMMA CloseFdFacts ==
    ASSUME NEW s \in Shape, NEW f \in Stream
    PROVE  LET t == CloseFd(s, f) IN
           /\ Touches(s, t, f, {"fd", "fds"})
           /\ t.fds = s.fds \ {s.file[f].fd}
           /\ t.file[f].fd = NoFd
<1>0. NoFd \notin s.fds
  BY StreamsAssumption DEF Shape, NoFd
<1>1. CASE s.file[f].fd = NoFd
  BY <1>0, <1>1 DEF CloseFd, Touches, Shape, FileType
<1>2. CASE s.file[f].fd # NoFd
  <2> DEFINE open == s.fds \ {s.file[f].fd}
             u == [s EXCEPT !.fds = open]
  <2>1. CloseFd(s, f) = [u EXCEPT !.file[f].fd = NoFd]
    BY <1>2, Zenon DEF CloseFd
  <2>2. open \in SUBSET Fds
    BY DEF Shape
  <2> HIDE DEF open
  <2>3. Touches(s, u, f, {"fds"}) /\ u.fds = open
    BY <2>2, SetFds
  <2> HIDE DEF u
  <2>4. u \in Shape
    BY <2>3 DEF Touches
  <2>5. /\ Touches(u, CloseFd(s, f), f, {"fd"})
        /\ CloseFd(s, f).file[f].fd = NoFd
    BY <2>1, <2>4, SetFd
  <2> QED
    BY <2>3, <2>5 DEF Touches, open
<1> QED
  BY <1>1, <1>2

(* Who leads where depends on nothing but the links.                       *)
LEMMA SameLinks ==
    ASSUME NEW s \in Shape, NEW t, NEW f \in Stream, NEW names,
           Touches(s, t, f, names), "next" \notin names
    PROVE  \A h \in Dyn \cup {NULL} : From(t, h) = From(s, h)
<1>1. t \in Shape /\ \A g \in Stream : t.file[g].next = s.file[g].next
  BY DEF Touches
<1> QED
  BY <1>1, FromSame, FromLeads

(* A FILE of malloc's leaves the list and is given back.                   *)
LEMMA FreeFileFacts ==
    ASSUME NEW s \in Shape, NEW f \in Stream
    PROVE  LET t == FreeFile(s, f) IN
           /\ Touches(s, t, f, {"mode", "alive", "list"})
           /\ t.alive = IF "FREEFIL" \in s.file[f].mode THEN s.alive \ {f} ELSE s.alive
           /\ t.list = IF "FREEFIL" \in s.file[f].mode /\ f \in Listed(s)
                       THEN s.file[f].next ELSE s.list
           /\ t.file[f].mode = {}
<1>0. {} \in SUBSET Modes
  OBVIOUS
<1>1. CASE "FREEFIL" \notin s.file[f].mode
  <2> DEFINE v == [s EXCEPT !.file[f].mode = {}]
  <2>1. FreeFile(s, f) = v
    BY <1>1 DEF FreeFile
  <2>2. Touches(s, v, f, {"mode"}) /\ v.file[f].mode = {}
    BY <1>0, SetMode
  <2> HIDE DEF v
  <2> QED
    BY <1>1, <2>1, <2>2 DEF Touches
<1>2. CASE "FREEFIL" \in s.file[f].mode
  <2> DEFINE u == Unlist(s, f)
             v == [u EXCEPT !.file[f].mode = {}]
  <2>1. FreeFile(s, f) = [v EXCEPT !.alive = u.alive \ {f}]
    BY <1>2, Zenon DEF FreeFile
  <2>2. s.file[f].next \in Dyn \cup {NULL}
    BY DEF Shape, FileType
  <2>3. /\ Touches(s, u, f, {"list"})
        /\ u.list = IF f \in Listed(s) THEN s.file[f].next ELSE s.list
    BY <2>2, SetList DEF Unlist, Touches
  <2> HIDE DEF u
  <2>4. u \in Shape /\ u.alive \ {f} \in SUBSET Dyn
    BY <2>3 DEF Touches, Shape
  <2>5. Touches(u, v, f, {"mode"}) /\ v.file[f].mode = {}
    BY <1>0, <2>4, SetMode
  <2> HIDE DEF v
  <2>6. v \in Shape
    BY <2>5 DEF Touches
  <2>7. /\ Touches(v, FreeFile(s, f), f, {"alive"})
        /\ FreeFile(s, f).alive = u.alive \ {f}
    BY <2>1, <2>4, <2>6, SetAlive
  <2> QED
    BY <1>2, <2>3, <2>5, <2>7 DEF Touches
<1> QED
  BY <1>1, <1>2

(* A stream whose output cannot be written is not closed.                  *)
Stays(s, f, ok) == s.file[f].fd # NoFd /\ Failed(s, f, ok)

Closes(s, t, f) ==
    /\ Touches(s, t, f, {"fd", "mode", "start", "dirty", "list", "alive", "buffers", "fds"})
    /\ t.file[f].fd = NoFd /\ t.file[f].mode = {} /\ ~t.file[f].dirty
    /\ t.file[f].start = IF "FREEBUF" \in s.file[f].mode THEN "null" ELSE s.file[f].start
    /\ t.buffers = IF "FREEBUF" \in s.file[f].mode THEN s.buffers - 1 ELSE s.buffers
    /\ t.fds = s.fds \ {s.file[f].fd}
    /\ t.alive = IF "FREEFIL" \in s.file[f].mode THEN s.alive \ {f} ELSE s.alive
    /\ t.list = IF "FREEFIL" \in s.file[f].mode /\ f \in Listed(s)
                THEN s.file[f].next ELSE s.list

LEMMA FcloseFacts ==
    ASSUME NEW s \in Shape, NEW f \in Stream, NEW ok \in BOOLEAN, ~Stays(s, f, ok)
    PROVE  Closes(s, fclose(s, f, ok), f)
<1> DEFINE flushed == fflush(s, f, ok)
           closed == CloseFd(flushed, f)
           freed == FreeBuffer(closed, f)
           gone == IF "FREEBUF" \in s.file[f].mode
                   THEN [freed EXCEPT !.file[f].start = "null"] ELSE freed
           t == FreeFile(gone, f)
<1>1. fclose(s, f, ok) = t
  BY DEF fclose, Stays
<1>2. /\ Touches(s, flushed, f, {"mode", "dirty"})
      /\ flushed.file[f].mode \in {s.file[f].mode, s.file[f].mode \cup {"ERR"}}
      /\ ~flushed.file[f].dirty
  BY FflushFacts
<1>3. flushed \in Shape
  BY <1>2 DEF Touches
<1> HIDE DEF flushed
<1>4. /\ Touches(flushed, closed, f, {"fd", "fds"})
      /\ closed.fds = flushed.fds \ {flushed.file[f].fd}
      /\ closed.file[f].fd = NoFd
  BY <1>3, CloseFdFacts
<1>5. closed \in Shape
  BY <1>4 DEF Touches
<1> HIDE DEF closed
<1>6. /\ Touches(closed, freed, f, {"mode", "buffers"})
      /\ freed.buffers = IF "FREEBUF" \in closed.file[f].mode
                         THEN closed.buffers - 1 ELSE closed.buffers
      /\ freed.file[f].mode = closed.file[f].mode \ {"FREEBUF"}
  BY <1>5, FreeBufferFacts
<1>7. freed \in Shape
  BY <1>6 DEF Touches
<1> HIDE DEF freed
<1>8. /\ Touches(freed, gone, f, {"start"})
      /\ gone.file[f].start = IF "FREEBUF" \in s.file[f].mode THEN "null" ELSE freed.file[f].start
  <2>1. CASE "FREEBUF" \in s.file[f].mode
    <3>1. gone = [freed EXCEPT !.file[f].start = "null"]
      BY <2>1
    <3>2. "null" \in Starts
      BY DEF Starts
    <3> HIDE DEF gone
    <3> QED
      BY <1>7, <2>1, <3>1, <3>2, SetStart
  <2>2. CASE "FREEBUF" \notin s.file[f].mode
    BY <1>7, <2>2 DEF Touches
  <2> QED
    BY <2>1, <2>2
<1>9. gone \in Shape
  BY <1>8 DEF Touches
<1> HIDE DEF gone
<1>10. /\ Touches(gone, t, f, {"mode", "alive", "list"})
       /\ t.alive = IF "FREEFIL" \in gone.file[f].mode THEN gone.alive \ {f} ELSE gone.alive
       /\ t.list = IF "FREEFIL" \in gone.file[f].mode /\ f \in Listed(gone)
                   THEN gone.file[f].next ELSE gone.list
       /\ t.file[f].mode = {}
  BY <1>9, FreeFileFacts
<1> HIDE DEF t
<1>11. /\ Touches(s, gone, f, {"fd", "mode", "start", "dirty", "buffers", "fds"})
       /\ gone.fds = s.fds \ {s.file[f].fd}
       /\ gone.file[f].fd = NoFd /\ ~gone.file[f].dirty
       /\ gone.buffers = IF "FREEBUF" \in s.file[f].mode THEN s.buffers - 1 ELSE s.buffers
       /\ "FREEFIL" \in gone.file[f].mode <=> "FREEFIL" \in s.file[f].mode
       /\ gone.file[f].start = IF "FREEBUF" \in s.file[f].mode THEN "null" ELSE s.file[f].start
  BY <1>2, <1>4, <1>6, <1>8 DEF Touches
<1>12. Listed(gone) = Listed(s)
  <2>1. s.list \in Dyn \cup {NULL} /\ gone.list = s.list
    BY <1>11 DEF Touches, Shape
  <2> QED
    BY <1>11, <2>1, SameLinks DEF Listed
<1> QED
  BY <1>1, <1>10, <1>11, <1>12 DEF Touches, Closes

(* An opened stream has a descriptor of its own.                           *)
LEMMA OpenedFacts ==
    ASSUME NEW s \in Shape, NEW f \in Stream, NEW access \in SUBSET {"READ", "WRITE"},
           Fds \ s.fds # {}
    PROVE  LET t == Opened(s, f, access) IN
           /\ Touches(s, t, f, {"fd", "mode", "dirty", "fds"})
           /\ t.file[f].fd = LowestFd(s) /\ t.fds = s.fds \cup {LowestFd(s)}
           /\ t.file[f].mode = s.file[f].mode \cup access
           /\ ~t.file[f].dirty
<1> DEFINE fd == LowestFd(s)
           open == s.fds \cup {fd}
           mode == s.file[f].mode \cup access
           u == [s EXCEPT !.file[f].fd = fd]
           v == [u EXCEPT !.fds = open]
           w == [v EXCEPT !.file[f].mode = mode]
<1>1. Opened(s, f, access) = [w EXCEPT !.file[f].dirty = FALSE]
  BY Zenon DEF Opened
<1>2. mode \in SUBSET Modes
  BY DEF Shape, FileType, Modes
<1>3. fd \in Fds \cup {NoFd} /\ open \in SUBSET Fds
  BY LowestFdFree DEF Shape
<1> HIDE DEF fd, mode, open
<1>4. Touches(s, u, f, {"fd"}) /\ u.file[f].fd = fd
  BY <1>3, SetFd
<1>5. u \in Shape
  BY <1>4 DEF Touches
<1> HIDE DEF u
<1>6. Touches(u, v, f, {"fds"}) /\ v.fds = open
  BY <1>3, <1>5, SetFds
<1>7. v \in Shape
  BY <1>6 DEF Touches
<1> HIDE DEF v
<1>8. Touches(v, w, f, {"mode"}) /\ w.file[f].mode = mode
  BY <1>2, <1>7, SetMode
<1>9. w \in Shape
  BY <1>8 DEF Touches
<1> HIDE DEF w
<1>10. /\ Touches(w, Opened(s, f, access), f, {"dirty"})
       /\ Opened(s, f, access).file[f].dirty = FALSE
  BY <1>1, <1>9, SetDirty
<1> QED
  BY <1>4, <1>6, <1>8, <1>10 DEF Touches, fd, mode, open

(* A new stream is the first of the list.                                  *)
LEMMA ChainFacts ==
    ASSUME NEW s \in Shape, NEW f \in Dyn
    PROVE  LET t == Chain(s, f) IN
           /\ Touches(s, t, f, {"next", "list"})
           /\ t.list = f /\ t.file[f].next = s.list
<1> DEFINE u == [s EXCEPT !.list = f]
<1>1. Chain(s, f) = [u EXCEPT !.file[f].next = s.list]
  BY Zenon DEF Chain
<1>2. f \in Stream /\ f \in Dyn \cup {NULL} /\ s.list \in Dyn \cup {NULL}
  BY DEF Shape, Stream
<1>3. Touches(s, u, f, {"list"}) /\ u.list = f
  BY <1>2, SetList
<1>4. u \in Shape
  BY <1>3 DEF Touches
<1> HIDE DEF u
<1>5. Touches(u, Chain(s, f), f, {"next"}) /\ Chain(s, f).file[f].next = s.list
  BY <1>1, <1>2, <1>4, SetNext
<1> QED
  BY <1>3, <1>5 DEF Touches

(* A new FILE has a buffer, its own bytes at least.                        *)
LEMMA CreateFacts ==
    ASSUME NEW s \in Shape, NEW f \in Dyn, NEW memory \in BOOLEAN
    PROVE  LET t == Create(s, f, memory) IN
           /\ Touches(s, t, f, {"mode", "start", "next", "list", "alive", "buffers"})
           /\ t.alive = s.alive \cup {f} /\ t.list = f /\ t.file[f].next = s.list
           /\ t.file[f].mode = IF memory THEN {"FREEFIL", "FREEBUF"} ELSE {"FREEFIL"}
           /\ t.buffers = IF memory THEN s.buffers + 1 ELSE s.buffers
           /\ t.file[f].start # "null"
<1> DEFINE more == s.alive \cup {f}
           u == [s EXCEPT !.alive = more]
           chained == Chain(u, f)
<1>1. more \in SUBSET Dyn /\ f \in Stream
  BY DEF Shape, Stream
<1> HIDE DEF more
<1>2. Touches(s, u, f, {"alive"}) /\ u.alive = more
  BY <1>1, SetAlive
<1>3. u \in Shape
  BY <1>2 DEF Touches
<1> HIDE DEF u
<1>4. /\ Touches(u, chained, f, {"next", "list"})
      /\ chained.list = f /\ chained.file[f].next = u.list
  BY <1>3, ChainFacts
<1>5. chained \in Shape
  BY <1>4 DEF Touches
<1>6. /\ Touches(s, chained, f, {"alive", "next", "list"})
      /\ chained.alive = s.alive \cup {f} /\ chained.list = f
      /\ chained.file[f].next = s.list
  BY <1>2, <1>4 DEF Touches, more
<1> HIDE DEF chained
<1>7. CASE memory
  <2> DEFINE mode == {"FREEFIL", "FREEBUF"}
             v == [chained EXCEPT !.file[f].mode = mode]
             w == [v EXCEPT !.buffers = chained.buffers + 1]
  <2>1. Create(s, f, memory) = [w EXCEPT !.file[f].start = "heap"]
    BY <1>7, Zenon DEF Create, chained, u, more
  <2>2. mode \in SUBSET Modes /\ "heap" \in Starts /\ chained.buffers + 1 \in Int
    BY <1>5 DEF Modes, Starts, Shape
  <2> HIDE DEF mode
  <2>3. Touches(chained, v, f, {"mode"}) /\ v.file[f].mode = mode
    BY <1>1, <1>5, <2>2, SetMode
  <2>4. v \in Shape
    BY <2>3 DEF Touches
  <2> HIDE DEF v
  <2>5. Touches(v, w, f, {"buffers"}) /\ w.buffers = chained.buffers + 1
    BY <1>1, <2>2, <2>4, SetBuffers
  <2>6. w \in Shape
    BY <2>5 DEF Touches
  <2> HIDE DEF w
  <2>7. /\ Touches(w, Create(s, f, memory), f, {"start"})
        /\ Create(s, f, memory).file[f].start = "heap"
    BY <1>1, <2>1, <2>2, <2>6, SetStart
  <2>8. /\ Touches(chained, Create(s, f, memory), f, {"mode", "buffers", "start"})
        /\ Create(s, f, memory).file[f].mode = mode
        /\ Create(s, f, memory).buffers = chained.buffers + 1
    BY <2>3, <2>5, <2>7 DEF Touches
  <2>9. "heap" # "null" /\ chained.buffers = s.buffers
    BY <1>6 DEF Touches
  <2>10. /\ Touches(s, Create(s, f, memory), f,
                    {"mode", "start", "next", "list", "alive", "buffers"})
         /\ Create(s, f, memory).alive = s.alive \cup {f}
         /\ Create(s, f, memory).list = f
         /\ Create(s, f, memory).file[f].next = s.list
    BY <1>6, <2>8 DEF Touches
  <2> QED
    BY <1>7, <2>7, <2>8, <2>9, <2>10 DEF mode
<1>8. CASE ~memory
  <2> DEFINE mode == {"FREEFIL"}
             v == [chained EXCEPT !.file[f].mode = mode]
  <2>1. Create(s, f, memory) = [v EXCEPT !.file[f].start = "unbuf"]
    BY <1>8, Zenon DEF Create, chained, u, more
  <2>2. mode \in SUBSET Modes /\ "unbuf" \in Starts
    BY DEF Modes, Starts
  <2> HIDE DEF mode
  <2>3. Touches(chained, v, f, {"mode"}) /\ v.file[f].mode = mode
    BY <1>1, <1>5, <2>2, SetMode
  <2>4. v \in Shape
    BY <2>3 DEF Touches
  <2> HIDE DEF v
  <2>5. /\ Touches(v, Create(s, f, memory), f, {"start"})
        /\ Create(s, f, memory).file[f].start = "unbuf"
    BY <1>1, <2>1, <2>2, <2>4, SetStart
  <2> QED
    BY <1>6, <1>8, <2>3, <2>5 DEF Touches, mode
<1> QED
  BY <1>7, <1>8

-----------------------------------------------------------------------------
(* What every call keeps.                                                  *)
Linked(s) ==
    /\ Listed(s) \subseteq s.alive
    /\ \A f \in Listed(s) : f \notin From(s, s.file[f].next)

Buffered(s) == {f \in Stream : "FREEBUF" \in s.file[f].mode}
Counted(s) == s.buffers = Cardinality(Buffered(s))

(* No descriptor belongs to two streams.                                   *)
OwnFds(s) ==
    \A f \in Stream :
        /\ s.file[f].fd \in s.fds \cup {NoFd}
        /\ \A g \in Stream : g # f /\ s.file[g].fd = s.file[f].fd => s.file[f].fd = NoFd

(* A stream says that its FILE is malloc's as long as that has not got it  *)
(* back; then nothing is left in it.                                       *)
Given(s) ==
    \A f \in Stream :
        /\ "FREEFIL" \in s.file[f].mode <=> f \in s.alive
        /\ f \in Dyn \ s.alive => s.file[f].mode = {} /\ s.file[f].fd = NoFd

Good(s) == Linked(s) /\ Counted(s) /\ OwnFds(s) /\ Given(s)

(* The buffers can be counted.                                             *)
LEMMA BufferedFinite ==
    ASSUME NEW s \in Shape
    PROVE  IsFiniteSet(Buffered(s)) /\ Cardinality(Buffered(s)) \in Nat
<1>1. IsFiniteSet(Stream)
  BY StreamsAssumption, FS_Union DEF Stream
<1>2. Buffered(s) \in SUBSET Stream
  BY DEF Buffered
<1> QED
  BY <1>1, <1>2, FS_Subset, FS_CardinalityType

(* Changes that leave alone the list, the kinds of the streams and their   *)
(* buffers.                                                                *)
LEMMA LinkedSame ==
    ASSUME NEW s \in Shape, NEW t \in Shape, Linked(s),
           t.list = s.list, t.alive = s.alive,
           \A g \in Stream : t.file[g].next = s.file[g].next
    PROVE  Linked(t) /\ Listed(t) = Listed(s)
<1>1. \A h \in Dyn \cup {NULL} : From(t, h) = From(s, h)
  BY FromSame, FromLeads
<1>2. /\ s.list \in Dyn \cup {NULL}
      /\ \A g \in Stream : s.file[g].next \in Dyn \cup {NULL}
  BY DEF Shape, FileType
<1>3. Listed(t) = Listed(s) /\ Listed(s) \subseteq Stream
  BY <1>1, <1>2, FromLeads DEF Listed
<1> QED
  BY <1>1, <1>2, <1>3 DEF Linked

(* So it is for a change of one stream.                                    *)
LEMMA LinkedKept ==
    ASSUME NEW s \in Shape, NEW f \in Stream, NEW t, NEW names,
           Touches(s, t, f, names), names \cap {"next", "list", "alive"} = {},
           Linked(s)
    PROVE  Linked(t) /\ Listed(t) = Listed(s)
<1>1. /\ t \in Shape /\ t.list = s.list /\ t.alive = s.alive
      /\ \A g \in Stream : t.file[g].next = s.file[g].next
  BY DEF Touches
<1> QED
  BY <1>1, LinkedSame

(* The count of buffers stays right when no buffer comes or goes,          *)
LEMMA CountedKept ==
    ASSUME NEW s \in Shape, NEW f \in Stream, NEW t, NEW names,
           Touches(s, t, f, names), t.buffers = s.buffers,
           "FREEBUF" \in t.file[f].mode <=> "FREEBUF" \in s.file[f].mode,
           Counted(s)
    PROVE  Counted(t)
<1>1. Buffered(t) = Buffered(s)
  BY DEF Touches, Buffered
<1> QED
  BY <1>1 DEF Counted

(* when one is given back,                                                 *)
LEMMA CountedLess ==
    ASSUME NEW s \in Shape, NEW f \in Stream, NEW t, NEW names,
           Touches(s, t, f, names), "FREEBUF" \notin t.file[f].mode,
           t.buffers = IF "FREEBUF" \in s.file[f].mode THEN s.buffers - 1 ELSE s.buffers,
           Counted(s)
    PROVE  Counted(t)
<1>1. Buffered(t) = Buffered(s) \ {f}
  BY DEF Touches, Buffered
<1>2. f \in Buffered(s) <=> "FREEBUF" \in s.file[f].mode
  BY DEF Buffered
<1> QED
  BY <1>1, <1>2, BufferedFinite, FS_RemoveElement DEF Counted

(* and when there is a new one.                                            *)
LEMMA CountedMore ==
    ASSUME NEW s \in Shape, NEW f \in Stream, NEW t, NEW names,
           Touches(s, t, f, names), "FREEBUF" \notin s.file[f].mode,
           t.buffers = IF "FREEBUF" \in t.file[f].mode THEN s.buffers + 1 ELSE s.buffers,
           Counted(s)
    PROVE  Counted(t)
<1>1. f \notin Buffered(s)
  BY DEF Buffered
<1>2. CASE "FREEBUF" \in t.file[f].mode
  <2>1. Buffered(t) = Buffered(s) \cup {f}
    BY <1>2 DEF Touches, Buffered
  <2>2. Cardinality(Buffered(s) \cup {f}) = Cardinality(Buffered(s)) + 1
    BY <1>1, BufferedFinite, FS_AddElement
  <2> QED
    BY <1>2, <2>1, <2>2 DEF Counted
<1>3. CASE "FREEBUF" \notin t.file[f].mode
  BY <1>3, CountedKept
<1> QED
  BY <1>2, <1>3

-----------------------------------------------------------------------------
(* The calls on one stream keep it.                                        *)
LEMMA FflushGood ==
    ASSUME NEW s \in Shape, NEW f \in Std \cup s.alive, NEW ok \in BOOLEAN, Good(s)
    PROVE  Good(fflush(s, f, ok)) /\ Listed(fflush(s, f, ok)) = Listed(s)
<1> DEFINE t == fflush(s, f, ok)
<1>1. f \in Stream
  BY DEF Shape, Stream
<1>2. /\ Touches(s, t, f, {"mode", "dirty"})
      /\ t.file[f].mode \in {s.file[f].mode, s.file[f].mode \cup {"ERR"}}
  BY <1>1, FflushFacts
<1> HIDE DEF t
<1>3. Linked(t) /\ Listed(t) = Listed(s)
  BY <1>1, <1>2, LinkedKept DEF Good
<1>4. Counted(t)
  <2>1. t.buffers = s.buffers
    BY <1>2 DEF Touches
  <2>2. "FREEBUF" \in t.file[f].mode <=> "FREEBUF" \in s.file[f].mode
    BY <1>2
  <2> QED
    BY <1>1, <1>2, <2>1, <2>2, CountedKept DEF Good
<1>5. OwnFds(t)
  BY <1>1, <1>2 DEF Touches, OwnFds, Good
<1>6. Given(t)
  <2>1. "FREEFIL" \in t.file[f].mode <=> "FREEFIL" \in s.file[f].mode
    BY <1>2
  <2>2. f \notin Dyn \ s.alive
    BY StreamsAssumption DEF Shape
  <2> QED
    BY <1>1, <1>2, <2>1, <2>2 DEF Touches, Given, Good
<1> QED
  BY <1>3, <1>4, <1>5, <1>6 DEF Good, t

(* A stream leaves the list, which may lose others with it.                *)
LEMMA FcloseListed ==
    ASSUME NEW s \in Shape, NEW f \in Std \cup s.alive, NEW ok \in BOOLEAN, Good(s),
           ~Stays(s, f, ok)
    PROVE  LET t == fclose(s, f, ok) IN
           /\ \A h \in Dyn \cup {NULL} : From(t, h) = From(s, h)
           /\ Listed(t) = IF "FREEFIL" \in s.file[f].mode /\ f \in Listed(s)
                          THEN From(s, s.file[f].next) ELSE Listed(s)
           /\ Linked(t)
<1> DEFINE t == fclose(s, f, ok)
<1>1. f \in Stream
  BY DEF Shape, Stream
<1>2. Closes(s, t, f)
  BY <1>1, FcloseFacts
<1> HIDE DEF t
<1>3. /\ Touches(s, t, f, {"fd", "mode", "start", "dirty",
                           "list", "alive", "buffers", "fds"})
      /\ t.alive = IF "FREEFIL" \in s.file[f].mode THEN s.alive \ {f} ELSE s.alive
      /\ t.list = IF "FREEFIL" \in s.file[f].mode /\ f \in Listed(s)
                  THEN s.file[f].next ELSE s.list
  BY <1>2 DEF Closes
<1>4. \A h \in Dyn \cup {NULL} : From(t, h) = From(s, h)
  BY <1>1, <1>3, SameLinks
<1>5. /\ s.list \in Dyn \cup {NULL}
      /\ \A g \in Stream : s.file[g].next \in Dyn \cup {NULL} /\ t.file[g].next = s.file[g].next
  BY <1>3 DEF Touches, Shape, FileType
<1>6. Listed(t) = IF "FREEFIL" \in s.file[f].mode /\ f \in Listed(s)
                  THEN From(s, s.file[f].next) ELSE Listed(s)
  BY <1>1, <1>3, <1>4, <1>5 DEF Listed
<1>7. Listed(t) \subseteq Listed(s) /\ Listed(s) \subseteq Stream
  <2>1. Listed(s) \subseteq Stream
    BY <1>5, FromLeads DEF Listed
  <2>2. f \in Listed(s) => From(s, s.file[f].next) \subseteq Listed(s)
    BY <1>5, FromInside DEF Listed
  <2> QED
    BY <1>6, <2>1, <2>2
<1>8. "FREEFIL" \in s.file[f].mode => f \notin Listed(t)
  BY <1>6 DEF Good, Linked
<1>9. Linked(t)
  <2>1. Listed(t) \subseteq t.alive
    BY <1>3, <1>7, <1>8 DEF Good, Linked
  <2>2. \A g \in Listed(t) : g \notin From(t, t.file[g].next)
    BY <1>4, <1>5, <1>7 DEF Good, Linked
  <2> QED
    BY <2>1, <2>2 DEF Linked
<1> QED
  BY <1>4, <1>6, <1>9 DEF t

(* Closing a stream keeps what is Good.                                    *)
LEMMA FcloseGood ==
    ASSUME NEW s \in Shape, NEW f \in Std \cup s.alive, NEW ok \in BOOLEAN, Good(s)
    PROVE  Good(fclose(s, f, ok))
<1>1. f \in Stream
  BY DEF Shape, Stream
<1>2. CASE Stays(s, f, ok)
  <2>1. fclose(s, f, ok) = fflush(s, f, ok)
    BY <1>2 DEF fclose, Stays
  <2> QED
    BY <2>1, FflushGood
<1>3. CASE ~Stays(s, f, ok)
  <2> DEFINE t == fclose(s, f, ok)
  <2>1. Closes(s, t, f) /\ Linked(t)
    BY <1>1, <1>3, FcloseFacts, FcloseListed
  <2> HIDE DEF t
  <2>2. /\ Touches(s, t, f, {"fd", "mode", "start", "dirty",
                             "list", "alive", "buffers", "fds"})
        /\ t.file[f].fd = NoFd /\ t.file[f].mode = {}
        /\ t.buffers = IF "FREEBUF" \in s.file[f].mode THEN s.buffers - 1 ELSE s.buffers
        /\ t.fds = s.fds \ {s.file[f].fd}
        /\ t.alive = IF "FREEFIL" \in s.file[f].mode THEN s.alive \ {f} ELSE s.alive
    BY <2>1 DEF Closes
  <2>3. Counted(t)
    BY <1>1, <2>2, CountedLess DEF Good
  <2>4. OwnFds(t)
    BY <1>1, <2>2 DEF Touches, OwnFds, Good
  <2>5. Given(t)
    BY <1>1, <2>2 DEF Touches, Given, Good
  <2> QED
    BY <2>1, <2>3, <2>4, <2>5 DEF Good, t
<1> QED
  BY <1>2, <1>3

(* So does opening one that exists, whatever its descriptor was,           *)
LEMMA OpenedGood ==
    ASSUME NEW s \in Shape, NEW f \in Std \cup s.alive, Good(s),
           NEW access \in SUBSET {"READ", "WRITE"}, Fds \ s.fds # {}
    PROVE  Good(Opened(s, f, access)) /\ Listed(Opened(s, f, access)) = Listed(s)
<1> DEFINE t == Opened(s, f, access)
<1>1. f \in Stream
  BY DEF Shape, Stream
<1>2. /\ Touches(s, t, f, {"fd", "mode", "dirty", "fds"})
      /\ t.file[f].fd = LowestFd(s) /\ t.fds = s.fds \cup {LowestFd(s)}
      /\ t.file[f].mode = s.file[f].mode \cup access
  BY <1>1, OpenedFacts
<1> HIDE DEF t
<1>3. Linked(t) /\ Listed(t) = Listed(s)
  BY <1>1, <1>2, LinkedKept DEF Good
<1>4. Counted(t)
  <2>1. t.buffers = s.buffers
    BY <1>2 DEF Touches
  <2>2. "FREEBUF" \in t.file[f].mode <=> "FREEBUF" \in s.file[f].mode
    BY <1>2
  <2> QED
    BY <1>1, <1>2, <2>1, <2>2, CountedKept DEF Good
<1>5. OwnFds(t)
  <2>1. LowestFd(s) \notin s.fds /\ LowestFd(s) # NoFd
    BY LowestFdFree, StreamsAssumption DEF NoFd
  <2> QED
    BY <1>1, <1>2, <2>1 DEF Touches, OwnFds, Good
<1>6. Given(t)
  <2>1. "FREEFIL" \in t.file[f].mode <=> "FREEFIL" \in s.file[f].mode
    BY <1>2
  <2>2. f \notin Dyn \ s.alive
    BY StreamsAssumption DEF Shape
  <2> QED
    BY <1>1, <1>2, <2>1, <2>2 DEF Touches, Given, Good
<1> QED
  BY <1>3, <1>4, <1>5, <1>6 DEF Good, t

(* and putting a new one in front of the list.                             *)
LEMMA CreateGood ==
    ASSUME NEW s \in Shape, NEW f \in Dyn \ s.alive, NEW memory \in BOOLEAN, Good(s)
    PROVE  LET t == Create(s, f, memory) IN
           Good(t) /\ Listed(t) = {f} \cup Listed(s) /\ t.file[f].fd = NoFd
<1> DEFINE t == Create(s, f, memory)
<1>1. f \in Stream /\ f \in Dyn \cup {NULL}
  BY DEF Stream
<1>2. /\ Touches(s, t, f, {"mode", "start", "next", "list", "alive", "buffers"})
      /\ t.alive = s.alive \cup {f} /\ t.list = f /\ t.file[f].next = s.list
      /\ t.file[f].mode = IF memory THEN {"FREEFIL", "FREEBUF"} ELSE {"FREEFIL"}
      /\ t.buffers = IF memory THEN s.buffers + 1 ELSE s.buffers
  BY CreateFacts
<1> HIDE DEF t
<1>3. t \in Shape
  BY <1>2 DEF Touches
<1>4. s.file[f].mode = {} /\ s.file[f].fd = NoFd
  BY <1>1 DEF Good, Given
<1>5. /\ s.list \in Dyn \cup {NULL}
      /\ \A g \in Stream : s.file[g].next \in Dyn \cup {NULL}
      /\ \A g \in Stream : g # f => t.file[g].next = s.file[g].next
  BY <1>2 DEF Touches, Shape, FileType
<1>6. f \notin Listed(s) /\ Listed(s) \subseteq Stream
  BY <1>5, FromLeads DEF Good, Linked, Listed
<1>7. ASSUME NEW h \in Dyn \cup {NULL}, From(s, h) \subseteq Listed(s)
      PROVE  From(t, h) = From(s, h)
  <2>1. \A g \in From(s, h) : t.file[g].next = s.file[g].next
    BY <1>5, <1>6, <1>7
  <2> QED
    BY <1>3, <2>1, FromSame
<1>8. Listed(t) = {f} \cup Listed(s)
  <2>1. From(t, s.list) = Listed(s)
    BY <1>5, <1>7 DEF Listed
  <2> QED
    BY <1>2, <1>3, <2>1, FromNext DEF Listed
<1>9. Linked(t)
  <2>1. Listed(t) \subseteq t.alive
    BY <1>2, <1>8 DEF Good, Linked
  <2>2. f \notin From(t, t.file[f].next)
    BY <1>2, <1>5, <1>6, <1>7 DEF Listed
  <2>3. ASSUME NEW g \in Listed(s)
        PROVE  g \notin From(t, t.file[g].next)
    <3>1. From(s, s.file[g].next) \subseteq Listed(s)
      BY <1>5, FromInside DEF Listed
    <3>2. From(t, s.file[g].next) = From(s, s.file[g].next)
      BY <1>5, <1>6, <1>7, <3>1
    <3>3. t.file[g].next = s.file[g].next
      BY <1>5, <1>6
    <3> QED
      BY <3>2, <3>3 DEF Good, Linked
  <2> QED
    BY <1>8, <2>1, <2>2, <2>3 DEF Linked
<1>10. Counted(t)
  <2>1. "FREEBUF" \notin s.file[f].mode
    BY <1>4
  <2>2. t.buffers = IF "FREEBUF" \in t.file[f].mode THEN s.buffers + 1 ELSE s.buffers
    BY <1>2
  <2> QED
    BY <1>1, <1>2, <2>1, <2>2, CountedMore DEF Good
<1>11. OwnFds(t)
  BY <1>1, <1>2 DEF Touches, OwnFds, Good
<1>12. Given(t)
  <2>1. "FREEFIL" \in t.file[f].mode
    BY <1>2
  <2> QED
    BY <1>1, <1>2, <2>1 DEF Touches, Given, Good
<1>13. t.file[f].fd = NoFd
  BY <1>2, <1>4 DEF Touches
<1> QED
  BY <1>8, <1>9, <1>10, <1>11, <1>12, <1>13 DEF Good, t

(* What freopen closes keeps its FILE, its buffer and its place.           *)
LEMMA CloseKeptFacts ==
    ASSUME NEW s \in Shape, NEW f \in Stream, NEW ok \in BOOLEAN
    PROVE  LET t == CloseKept(s, f, ok) IN
           /\ Touches(s, t, f, {"fd", "mode", "dirty", "fds"})
           /\ ~t.file[f].dirty
           /\ "FREEFIL" \in t.file[f].mode <=> "FREEFIL" \in s.file[f].mode
           /\ "FREEBUF" \in t.file[f].mode <=> "FREEBUF" \in s.file[f].mode
           /\ \/ t.file[f].fd = NoFd /\ t.fds = s.fds \ {s.file[f].fd}
              \/ Failed(s, f, ok) /\ t.file[f].fd = s.file[f].fd /\ t.fds = s.fds
<1> DEFINE keep == Keepable(s, f)
           bareMode == s.file[f].mode \ keep
           bare == [s EXCEPT !.file[f].mode = bareMode]
           closed == fclose(bare, f, ok)
           mode == closed.file[f].mode \cup keep
           t == [closed EXCEPT !.file[f].mode = mode]
<1>1. CloseKept(s, f, ok) = t
  BY Zenon DEF CloseKept
<1>2. /\ bareMode \in SUBSET Modes /\ keep \in SUBSET Modes
      /\ "FREEFIL" \notin bareMode /\ "FREEBUF" \notin bareMode
      /\ "FREEFIL" \in keep <=> "FREEFIL" \in s.file[f].mode
      /\ "FREEBUF" \in keep <=> "FREEBUF" \in s.file[f].mode
  BY DEF Shape, FileType, Modes, Keepable
<1> HIDE DEF keep, bareMode
<1>3. Touches(s, bare, f, {"mode"}) /\ bare.file[f].mode = bareMode
  BY <1>2, SetMode
<1>4. bare \in Shape
  BY <1>3 DEF Touches
<1> HIDE DEF bare
<1>5. /\ Touches(bare, closed, f, {"fd", "mode", "dirty", "fds"})
      /\ ~closed.file[f].dirty
      /\ "FREEFIL" \notin closed.file[f].mode /\ "FREEBUF" \notin closed.file[f].mode
      /\ \/ closed.file[f].fd = NoFd /\ closed.fds = bare.fds \ {bare.file[f].fd}
         \/ /\ Failed(bare, f, ok)
            /\ closed.file[f].fd = bare.file[f].fd /\ closed.fds = bare.fds
  <2>1. CASE Stays(bare, f, ok)
    <3>1. closed = fflush(bare, f, ok)
      BY <2>1 DEF fclose, Stays
    <3> HIDE DEF closed
    <3>2. /\ Touches(bare, closed, f, {"mode", "dirty"})
          /\ closed.file[f].mode \in {bare.file[f].mode, bare.file[f].mode \cup {"ERR"}}
          /\ ~closed.file[f].dirty
      BY <1>4, <3>1, FflushFacts
    <3> QED
      BY <1>2, <1>3, <2>1, <3>2 DEF Touches, Stays
  <2>2. CASE ~Stays(bare, f, ok)
    <3>1. Closes(bare, closed, f)
      BY <1>4, <2>2, FcloseFacts
    <3> HIDE DEF closed
    <3>2. /\ Touches(bare, closed, f, {"fd", "mode", "start", "dirty",
                                       "list", "alive", "buffers", "fds"})
          /\ closed.file[f].start = bare.file[f].start /\ closed.buffers = bare.buffers
          /\ closed.alive = bare.alive /\ closed.list = bare.list
          /\ closed.file[f].fd = NoFd /\ closed.file[f].mode = {} /\ ~closed.file[f].dirty
          /\ closed.fds = bare.fds \ {bare.file[f].fd}
      BY <1>2, <1>3, <3>1 DEF Closes
    <3> QED
      BY <3>2 DEF Touches
  <2> QED
    BY <2>1, <2>2
<1>6. closed \in Shape
  BY <1>5 DEF Touches
<1> HIDE DEF closed
<1>7. mode \in SUBSET Modes
  BY <1>2, <1>6 DEF Shape, FileType
<1>8. /\ "FREEFIL" \in mode <=> "FREEFIL" \in s.file[f].mode
      /\ "FREEBUF" \in mode <=> "FREEBUF" \in s.file[f].mode
  BY <1>2, <1>5
<1> HIDE DEF mode
<1>9. Touches(closed, t, f, {"mode"}) /\ t.file[f].mode = mode
  BY <1>6, <1>7, SetMode
<1> HIDE DEF t
<1>10. Touches(s, t, f, {"fd", "mode", "dirty", "fds"})
  BY <1>3, <1>5, <1>9 DEF Touches
<1>11. /\ ~t.file[f].dirty /\ t.file[f].fd = closed.file[f].fd /\ t.fds = closed.fds
       /\ bare.fds = s.fds /\ bare.file[f].fd = s.file[f].fd
  BY <1>3, <1>5, <1>9 DEF Touches
<1> QED
  BY <1>1, <1>3, <1>5, <1>8, <1>9, <1>10, <1>11 DEF Touches, Failed

(* What is Good stays so when freopen closes a stream in this way.         *)
LEMMA CloseKeptGood ==
    ASSUME NEW s \in Shape, NEW f \in Std \cup s.alive, NEW ok \in BOOLEAN, Good(s)
    PROVE  Good(CloseKept(s, f, ok)) /\ Listed(CloseKept(s, f, ok)) = Listed(s)
<1> DEFINE t == CloseKept(s, f, ok)
<1>1. f \in Stream
  BY DEF Shape, Stream
<1>2. /\ Touches(s, t, f, {"fd", "mode", "dirty", "fds"})
      /\ "FREEFIL" \in t.file[f].mode <=> "FREEFIL" \in s.file[f].mode
      /\ "FREEBUF" \in t.file[f].mode <=> "FREEBUF" \in s.file[f].mode
      /\ \/ t.file[f].fd = NoFd /\ t.fds = s.fds \ {s.file[f].fd}
         \/ Failed(s, f, ok) /\ t.file[f].fd = s.file[f].fd /\ t.fds = s.fds
  BY <1>1, CloseKeptFacts
<1> HIDE DEF t
<1>3. Linked(t) /\ Listed(t) = Listed(s)
  BY <1>1, <1>2, LinkedKept DEF Good
<1>4. Counted(t)
  <2>1. t.buffers = s.buffers
    BY <1>2 DEF Touches
  <2> QED
    BY <1>1, <1>2, <2>1, CountedKept DEF Good
<1>5. OwnFds(t)
  BY <1>1, <1>2 DEF Touches, OwnFds, Good
<1>6. Given(t)
  <2>1. f \notin Dyn \ s.alive
    BY StreamsAssumption DEF Shape
  <2> QED
    BY <1>1, <1>2, <2>1 DEF Touches, Given, Good
<1> QED
  BY <1>3, <1>4, <1>5, <1>6 DEF Good, t

(* Nor do the access flags matter, which freopen sets before it fails.     *)
LEMMA AccessGood ==
    ASSUME NEW s \in Shape, NEW f \in Std \cup s.alive, Good(s),
           NEW access \in SUBSET {"READ", "WRITE"}
    PROVE  LET t == [s EXCEPT !.file[f].mode = s.file[f].mode \cup access] IN
           /\ Touches(s, t, f, {"mode"}) /\ t.file[f].mode = s.file[f].mode \cup access
           /\ Good(t) /\ Listed(t) = Listed(s)
<1> DEFINE mode == s.file[f].mode \cup access
           t == [s EXCEPT !.file[f].mode = mode]
<1>1. f \in Stream
  BY DEF Shape, Stream
<1>2. mode \in SUBSET Modes
  BY <1>1 DEF Shape, FileType, Modes
<1>3. /\ "FREEFIL" \in mode <=> "FREEFIL" \in s.file[f].mode
      /\ "FREEBUF" \in mode <=> "FREEBUF" \in s.file[f].mode
  OBVIOUS
<1>4. t = [s EXCEPT !.file[f].mode = s.file[f].mode \cup access]
  OBVIOUS
<1>5. mode = s.file[f].mode \cup access
  OBVIOUS
<1> HIDE DEF mode
<1>6. Touches(s, t, f, {"mode"}) /\ t.file[f].mode = mode
  BY <1>1, <1>2, SetMode
<1> HIDE DEF t
<1>7. Linked(t) /\ Listed(t) = Listed(s)
  BY <1>1, <1>6, LinkedKept DEF Good
<1>8. Counted(t)
  <2>1. t.buffers = s.buffers
    BY <1>6 DEF Touches
  <2> QED
    BY <1>1, <1>3, <1>6, <2>1, CountedKept DEF Good
<1>9. OwnFds(t)
  BY <1>1, <1>6 DEF Touches, OwnFds, Good
<1>10. Given(t)
  <2>1. f \notin Dyn \ s.alive
    BY StreamsAssumption DEF Shape
  <2> QED
    BY <1>1, <1>3, <1>6, <2>1 DEF Touches, Given, Good
<1> QED
  BY <1>4, <1>5, <1>6, <1>7, <1>8, <1>9, <1>10 DEF Good

(* setvbuf replaces the buffer, and leaves one.                            *)
LEMMA setvbufFacts ==
    ASSUME NEW s \in Shape, NEW f \in Stream, NEW ok \in BOOLEAN,
           NEW new \in {"unbuf", "heap", "user"}
    PROVE  LET t == setvbuf(s, f, new, ok) IN
           /\ Touches(s, t, f, {"mode", "start", "dirty", "buffers"})
           /\ t.file[f].start # "null"
           /\ "FREEFIL" \in t.file[f].mode <=> "FREEFIL" \in s.file[f].mode
           /\ Counted(s) => Counted(t)
<1> DEFINE flushed == fflush(s, f, ok)
           freed == FreeBuffer(flushed, f)
           u == [freed EXCEPT !.file[f].start = new]
           t == setvbuf(s, f, new, ok)
<1>1. /\ Touches(s, flushed, f, {"mode", "dirty"})
      /\ flushed.file[f].mode \in {s.file[f].mode, s.file[f].mode \cup {"ERR"}}
  BY FflushFacts
<1>2. flushed \in Shape
  BY <1>1 DEF Touches
<1> HIDE DEF flushed
<1>3. /\ Touches(flushed, freed, f, {"mode", "buffers"})
      /\ freed.buffers = IF "FREEBUF" \in flushed.file[f].mode
                         THEN flushed.buffers - 1 ELSE flushed.buffers
      /\ freed.file[f].mode = flushed.file[f].mode \ {"FREEBUF"}
  BY <1>2, FreeBufferFacts
<1>4. freed \in Shape
  BY <1>3 DEF Touches
<1> HIDE DEF freed
<1>5. Counted(s) => Counted(flushed)
  <2>1. /\ flushed.buffers = s.buffers
        /\ "FREEBUF" \in flushed.file[f].mode <=> "FREEBUF" \in s.file[f].mode
    BY <1>1 DEF Touches
  <2> QED
    BY <1>1, <2>1, CountedKept
<1>6. Counted(flushed) => Counted(freed)
  BY <1>2, <1>3, CountedLess
<1>7. new \in Starts /\ new # "null"
  BY DEF Starts
<1>8. Touches(freed, u, f, {"start"}) /\ u.file[f].start = new
  BY <1>4, <1>7, SetStart
<1>9. u \in Shape
  BY <1>8 DEF Touches
<1>10. /\ Touches(freed, t, f, {"start", "mode", "buffers"})
       /\ t.file[f].start = new
       /\ "FREEFIL" \in t.file[f].mode <=> "FREEFIL" \in freed.file[f].mode
       /\ t.buffers = IF "FREEBUF" \in t.file[f].mode THEN freed.buffers + 1 ELSE freed.buffers
  <2>1. CASE new = "heap"
    <3> DEFINE mode == freed.file[f].mode \cup {"FREEBUF"}
               more == freed.buffers + 1
               v == [u EXCEPT !.buffers = more]
    <3>1. t = [v EXCEPT !.file[f].mode = mode]
      BY <2>1, Zenon DEF setvbuf, freed, flushed
    <3>2. mode \in SUBSET Modes /\ more \in Int
      BY <1>4 DEF Shape, FileType, Modes
    <3>3. more = freed.buffers + 1
      OBVIOUS
    <3> HIDE DEF mode, more, u
    <3>4. Touches(u, v, f, {"buffers"}) /\ v.buffers = more
      BY <1>9, <3>2, SetBuffers
    <3>5. v \in Shape
      BY <3>4 DEF Touches
    <3> HIDE DEF v, t
    <3>6. Touches(v, t, f, {"mode"}) /\ t.file[f].mode = mode
      BY <3>1, <3>2, <3>5, SetMode
    <3>7. "FREEBUF" \in mode /\ ("FREEFIL" \in mode <=> "FREEFIL" \in freed.file[f].mode)
      BY DEF mode
    <3>8. /\ Touches(freed, t, f, {"start", "mode", "buffers"})
          /\ t.file[f].start = new /\ t.buffers = more
      BY <1>8, <3>4, <3>6 DEF Touches
    <3> QED
      BY <3>3, <3>6, <3>7, <3>8
  <2>2. CASE new # "heap"
    <3>1. t = u
      BY <2>2 DEF setvbuf, freed, flushed
    <3>2. "FREEBUF" \notin freed.file[f].mode
      BY <1>3
    <3> HIDE DEF t, u
    <3> QED
      BY <1>8, <3>1, <3>2 DEF Touches
  <2> QED
    BY <2>1, <2>2
<1> HIDE DEF t
<1>11. Counted(freed) => Counted(t)
  <2>1. "FREEBUF" \notin freed.file[f].mode
    BY <1>3
  <2> QED
    BY <1>4, <1>10, <2>1, CountedMore
<1>12. Touches(s, t, f, {"mode", "start", "dirty", "buffers"})
  BY <1>1, <1>3, <1>10 DEF Touches
<1>13. "FREEFIL" \in t.file[f].mode <=> "FREEFIL" \in s.file[f].mode
  BY <1>1, <1>3, <1>10
<1> QED
  BY <1>5, <1>6, <1>7, <1>10, <1>11, <1>12, <1>13 DEF t

(* So it keeps what is Good.                                               *)
LEMMA setvbufGood ==
    ASSUME NEW s \in Shape, NEW f \in Std \cup s.alive, NEW ok \in BOOLEAN, Good(s),
           NEW new \in {"unbuf", "heap", "user"}
    PROVE  LET t == setvbuf(s, f, new, ok) IN Good(t) /\ Listed(t) = Listed(s)
<1> DEFINE t == setvbuf(s, f, new, ok)
<1>1. f \in Stream
  BY DEF Shape, Stream
<1>2. /\ Touches(s, t, f, {"mode", "start", "dirty", "buffers"})
      /\ "FREEFIL" \in t.file[f].mode <=> "FREEFIL" \in s.file[f].mode
      /\ Counted(s) => Counted(t)
  BY <1>1, setvbufFacts
<1> HIDE DEF t
<1>3. Linked(t) /\ Listed(t) = Listed(s)
  BY <1>1, <1>2, LinkedKept DEF Good
<1>4. OwnFds(t)
  BY <1>1, <1>2 DEF Touches, OwnFds, Good
<1>5. Given(t)
  <2>1. f \notin Dyn \ s.alive
    BY StreamsAssumption DEF Shape
  <2> QED
    BY <1>1, <1>2, <2>1 DEF Touches, Given, Good
<1> QED
  BY <1>2, <1>3, <1>4, <1>5 DEF Good, t

(* Calls that only change flags and what is pending.                       *)
LEMMA SameGood ==
    ASSUME NEW s \in Shape, NEW t \in Shape, Good(s),
           t.list = s.list, t.alive = s.alive, t.buffers = s.buffers, t.fds = s.fds,
           \A g \in Stream :
               /\ t.file[g].next = s.file[g].next /\ t.file[g].fd = s.file[g].fd
               /\ \/ t.file[g].mode = s.file[g].mode
                  \/ g \in Std \cup s.alive /\ t.file[g].mode = s.file[g].mode \cup {"ERR"}
    PROVE  Good(t) /\ Listed(t) = Listed(s)
<1>1. Linked(t) /\ Listed(t) = Listed(s)
  BY LinkedSame DEF Good
<1>2. ASSUME NEW g \in Stream
      PROVE  /\ "FREEBUF" \in t.file[g].mode <=> "FREEBUF" \in s.file[g].mode
             /\ "FREEFIL" \in t.file[g].mode <=> "FREEFIL" \in s.file[g].mode
             /\ g \in Dyn \ s.alive => t.file[g].mode = s.file[g].mode
  BY StreamsAssumption
<1>3. Counted(t)
  <2>1. Buffered(t) = Buffered(s)
    BY <1>2 DEF Buffered
  <2> QED
    BY <2>1 DEF Counted, Good
<1>4. OwnFds(t)
  BY DEF OwnFds, Good
<1>5. Given(t)
  BY <1>2 DEF Given, Good
<1> QED
  BY <1>1, <1>3, <1>4, <1>5 DEF Good

(* What is left of a stream that was closed, and of the list.              *)
LEMMA FcloseRest ==
    ASSUME NEW s \in Shape, NEW f \in Std \cup s.alive, NEW ok \in BOOLEAN, Good(s),
           ~Stays(s, f, ok)
    PROVE  LET t == fclose(s, f, ok) IN
           /\ t \in Shape /\ Good(t)
           /\ \A g \in Stream : g # f => t.file[g] = s.file[g]
           /\ t.alive = s.alive \ {f} /\ t.fds = s.fds \ {s.file[f].fd}
           /\ f \in Std \/ f = s.list => Listed(s) \ {f} \subseteq Listed(t)
<1> DEFINE t == fclose(s, f, ok)
<1>1. f \in Stream
  BY DEF Shape, Stream
<1>2. Closes(s, t, f)
  BY <1>1, FcloseFacts
<1>3. Good(t)
  BY FcloseGood
<1>4. Listed(t) = IF "FREEFIL" \in s.file[f].mode /\ f \in Listed(s)
                  THEN From(s, s.file[f].next) ELSE Listed(s)
  BY FcloseListed
<1> HIDE DEF t
<1>5. "FREEFIL" \in s.file[f].mode <=> f \in s.alive
  BY <1>1 DEF Good, Given
<1>6. t.alive = s.alive \ {f}
  BY <1>2, <1>5 DEF Closes
<1>7. t \in Shape /\ \A g \in Stream : g # f => t.file[g] = s.file[g]
  BY <1>2 DEF Closes, Touches
<1>8. CASE f \in Std
  <2>1. f \notin s.alive
    BY <1>8, StreamsAssumption DEF Shape
  <2>2. Listed(t) = Listed(s)
    BY <1>4, <1>5, <2>1
  <2> QED
    BY <1>2, <1>3, <1>6, <1>7, <2>2 DEF Closes, t
<1>9. CASE f \notin Std
  <2>1. f \in s.alive /\ f \in Dyn
    BY <1>9 DEF Shape
  <2>2. f = s.list => Listed(s) = {f} \cup From(s, s.file[f].next)
    BY <2>1, FromNext DEF Listed
  <2>3. f = s.list => Listed(s) \ {f} \subseteq Listed(t)
    BY <1>4, <2>2
  <2> QED
    BY <1>2, <1>3, <1>6, <1>7, <1>9, <2>3 DEF Closes, t
<1> QED
  BY <1>8, <1>9

-----------------------------------------------------------------------------
(* The inductive invariant: to the properties it adds that descriptors and *)
(* FILEs have one owner, that open streams exist, and that they are on the *)
(* list as long as streams were closed in order, without which exit could  *)
(* miss one.                                                               *)
HeldExist == held \cap Dyn \subseteq alive
Returned == "unwritten" \notin past =>
    alive = held \cap Dyn /\ fds \subseteq {file[f].fd : f \in Stream}
HeldListed == "disorder" \notin past => held \cap Dyn \subseteq Listed(State)

IInv == /\ TypeOK /\ Good(State) /\ HeldExist /\ Returned /\ HeldListed
        /\ ~Reopened => OpenHasBuffer
        /\ FlushedInOrder

(* The variables make a state.                                             *)
LEMMA StateShape == ASSUME TypeOK PROVE State \in Shape
BY DEF TypeOK, State, Shape, FileType, Modes, Starts

(* Its parts.                                                              *)
LEMMA StateParts ==
    /\ State.file = file /\ State.list = IO_list /\ State.alive = alive
    /\ State.buffers = buffers /\ State.fds = fds
BY DEF State

(* A call leaves the state it ends in,                                     *)
LEMMA Finished ==
    ASSUME NEW t \in Shape, Good(t), Finish(t)
    PROVE  State' = t
<1>1. t = [file |-> t.file, list |-> t.list, alive |-> t.alive,
           buffers |-> t.buffers, fds |-> t.fds]
  BY DEF Shape
<1> QED
  BY <1>1 DEF Finish, State

(* with variables of the right types.                                      *)
LEMMA TypeFinished ==
    ASSUME NEW t \in Shape, Good(t), Finish(t), held' \subseteq Stream,
           past' \subseteq {"unwritten", "disorder"}, exited' \in BOOLEAN
    PROVE  TypeOK'
<1>1. t.buffers \in Nat
  BY BufferedFinite DEF Good, Counted
<1> QED
  BY <1>1 DEF Finish, TypeOK, Shape, FileType, Modes, Starts

(* The static streams as the program starts.                               *)
LEMMA StaticFields ==
    ASSUME NEW x
    PROVE  Static(x).fd = x /\ Static(x).mode = {"WRITE"} /\ Static(x).start = "static"
BY DEF Static

(* The invariant holds at first.                                           *)
LEMMA InitIInv == Init => IInv
<1> SUFFICES ASSUME Init PROVE IInv
  OBVIOUS
<1>1. PICK fd \in [Std -> Fds] :
          /\ \A f, g \in Std : f # g => fd[f] # fd[g]
          /\ file = [f \in Stream |-> IF f \in Dyn THEN Closed ELSE Static(fd[f])]
  BY DEF Init
<1>2. \A f \in Std : f \in Stream /\ f \notin Dyn /\ file[f] = Static(fd[f]) /\ fd[f] \in Fds
  <2> TAKE f \in Std
  <2>1. f \in Stream /\ f \notin Dyn /\ fd[f] \in Fds
    BY StreamsAssumption DEF Stream
  <2> QED
    BY <1>1, <2>1
<1>3. \A f \in Dyn : f \in Stream /\ file[f] = Closed
  BY <1>1 DEF Stream
<1>4. IO_list = NULL /\ alive = {} /\ buffers = 0 /\ held = Std /\ past = {} /\ exited = FALSE
  BY DEF Init
<1>5. fds = {file[f].fd : f \in Std}
  BY DEF Init
<1>6. \A f \in Std : file[f].fd = fd[f]
  BY <1>2, StaticFields
<1>7. TypeOK
  <2>1. Closed \in FileType
    BY DEF Closed, FileType, Starts
  <2>2. \A x \in Fds : Static(x) \in FileType
    BY DEF Static, FileType, Starts, Modes
  <2>3. file \in [Stream -> FileType]
    BY <1>1, <1>2, <2>1, <2>2 DEF Stream
  <2>4. fds \subseteq Fds
    BY <1>2, <1>5, <1>6
  <2> QED
    BY <1>4, <2>3, <2>4 DEF TypeOK, FileType, Starts, Modes, Stream
<1>8. State \in Shape
  BY <1>7, StateShape
<1>9. Listed(State) = {}
  BY <1>4, <1>8, StateParts, FromNull DEF Listed
<1>10. Linked(State)
  BY <1>9 DEF Linked
<1>11. Counted(State)
  <2>1. Buffered(State) = {}
    <3>1. \A f \in Stream : "FREEBUF" \notin file[f].mode
      BY <1>2, <1>3, StaticFields DEF Closed, Stream
    <3> QED
      BY <3>1, StateParts DEF Buffered
  <2> QED
    BY <1>4, <2>1, StateParts, FS_EmptySet DEF Counted
<1>12. OwnFds(State)
  <2>1. \A f \in Std, g \in Std : g # f => file[g].fd # file[f].fd
    BY <1>1, <1>6
  <2>2. \A f \in Std : file[f].fd \in fds
    BY <1>5
  <2>3. \A f \in Dyn : file[f].fd = NoFd
    BY <1>3 DEF Closed
  <2>4. \A f \in Stream : f \in Std \/ f \in Dyn
    BY DEF Stream
  <2> QED
    BY <2>1, <2>2, <2>3, <2>4, StateParts DEF OwnFds
<1>13. Given(State)
  <2>1. \A f \in Stream : "FREEFIL" \notin file[f].mode
    BY <1>2, <1>3, StaticFields DEF Closed, Stream
  <2>2. \A f \in Dyn : file[f].mode = {} /\ file[f].fd = NoFd
    BY <1>3 DEF Closed
  <2> QED
    BY <1>4, <2>1, <2>2, StateParts DEF Given
<1>14. HeldExist /\ HeldListed
  BY <1>4, StreamsAssumption DEF HeldExist, HeldListed
<1>15. Returned
  BY <1>4, <1>5, StreamsAssumption DEF Returned, Stream
<1>16. OpenHasBuffer
  BY <1>2, <1>4, StaticFields DEF OpenHasBuffer
<1>17. FlushedInOrder
  BY <1>4 DEF FlushedInOrder, AllFlushed
<1> QED
  BY <1>7, <1>10, <1>11, <1>12, <1>13, <1>14, <1>15, <1>16, <1>17 DEF IInv, Good

(* What the steps take from the invariant.                                 *)
LEMMA InvFacts ==
    ASSUME IInv
    PROVE  /\ State \in Shape /\ Good(State)
           /\ \A f \in held : f \in Stream /\ f \in Std \cup State.alive
           /\ held \subseteq Stream /\ past \subseteq {"unwritten", "disorder"}
           /\ exited \in BOOLEAN /\ NewBuffers \subseteq {"unbuf", "heap", "user"}
BY StateShape, StateParts, StreamsAssumption DEF IInv, TypeOK, HeldExist, Stream

(* What is to show of a call that ends in state t.                         *)
LEMMA FinishInv ==
    ASSUME IInv, ~exited, exited' = exited,
           NEW t \in Shape, Good(t), Finish(t),
           held' \subseteq Stream, past' \subseteq {"unwritten", "disorder"},
           held' \cap Dyn \subseteq t.alive,
           "unwritten" \notin past' =>
               t.alive = held' \cap Dyn /\ t.fds \subseteq {t.file[f].fd : f \in Stream},
           "disorder" \notin past' => held' \cap Dyn \subseteq Listed(t),
           ~Reopened => \A f \in held' : t.file[f].start # "null"
    PROVE  IInv'
<1>1. State' = t
  BY Finished
<1>2. TypeOK'
  <2>1. exited' \in BOOLEAN
    BY InvFacts
  <2> QED
    BY <2>1, TypeFinished
<1>3. Good(State)' /\ Listed(State)' = Listed(t)
  BY <1>1 DEF Good, Linked, Counted, Buffered, OwnFds, Given, Listed, From, Leads
<1>4. file' = t.file /\ alive' = t.alive /\ fds' = t.fds
  BY DEF Finish
<1>5. HeldExist' /\ Returned'
  BY <1>4 DEF HeldExist, Returned
<1>6. HeldListed'
  BY <1>3 DEF HeldListed
<1>7. (~Reopened => OpenHasBuffer)'
  BY <1>4 DEF OpenHasBuffer
<1>8. FlushedInOrder'
  BY DEF FlushedInOrder, AllFlushed
<1> QED
  BY <1>2, <1>3, <1>5, <1>6, <1>7, <1>8 DEF IInv

(* fopen keeps the invariant: the new FILE was not on the list.            *)
LEMMA FopenStep == ASSUME IInv, fopen PROVE IInv'
<1>1. /\ State \in Shape /\ Good(State)
      /\ held \subseteq Stream /\ past \subseteq {"unwritten", "disorder"}
  BY InvFacts
<1>2. PICK f \in Dyn \ alive, memory \in BOOLEAN, access \in {{"READ"}, {"WRITE"}} :
          /\ Finish(Opened(Create(State, f, memory), f, access))
          /\ held' = held \cup {f}
  BY DEF fopen
<1>3. ~exited /\ exited' = exited /\ past' = past /\ Fds \ State.fds # {}
  BY StateParts DEF fopen
<1> DEFINE s == State
           c == Create(s, f, memory)
           t == Opened(c, f, access)
<1>4. /\ f \in Stream /\ f \in Dyn \ s.alive
      /\ access \in SUBSET {"READ", "WRITE"}
  BY StateParts DEF Stream
<1>5. /\ file = s.file /\ alive = s.alive /\ fds = s.fds
  BY StateParts
<1> HIDE DEF s
<1>6. /\ Touches(s, c, f, {"mode", "start", "next", "list", "alive", "buffers"})
      /\ c.alive = s.alive \cup {f} /\ c.file[f].start # "null"
  BY <1>1, <1>4, CreateFacts DEF s
<1>7. Good(c) /\ Listed(c) = {f} \cup Listed(s) /\ c.file[f].fd = NoFd
  BY <1>1, <1>4, CreateGood DEF s
<1> HIDE DEF c
<1>8. c \in Shape /\ f \in Std \cup c.alive /\ c.fds = s.fds /\ s.file[f].fd = NoFd
  BY <1>6, <1>7 DEF Touches
<1>9. Fds \ c.fds # {}
  BY <1>3, <1>8 DEF s
<1>10. /\ Touches(c, t, f, {"fd", "mode", "dirty", "fds"})
       /\ t.file[f].fd = LowestFd(c) /\ t.fds = c.fds \cup {LowestFd(c)}
  BY <1>4, <1>8, <1>9, OpenedFacts
<1>11. Good(t) /\ Listed(t) = Listed(c)
  BY <1>4, <1>7, <1>8, <1>9, OpenedGood
<1>12. Finish(t)
  BY <1>2 DEF t, c, s
<1> HIDE DEF t
<1>13. /\ t \in Shape /\ t.alive = s.alive \cup {f} /\ t.file[f].start # "null"
       /\ \A g \in Stream : g # f => t.file[g] = s.file[g]
  BY <1>6, <1>10 DEF Touches
<1>14. held' \cap Dyn \subseteq t.alive
  BY <1>2, <1>5, <1>13 DEF IInv, HeldExist
<1>15. ASSUME "unwritten" \notin past'
       PROVE  t.alive = held' \cap Dyn /\ t.fds \subseteq {t.file[g].fd : g \in Stream}
  <2>1. s.alive = held \cap Dyn /\ s.fds \subseteq {s.file[g].fd : g \in Stream}
    BY <1>3, <1>5, <1>15 DEF IInv, Returned
  <2>2. t.alive = held' \cap Dyn
    BY <1>2, <1>13, <2>1
  <2>3. ASSUME NEW x \in s.fds PROVE \E g \in Stream : t.file[g].fd = x
    <3>1. PICK g \in Stream : s.file[g].fd = x
      BY <2>1
    <3>2. x # NoFd
      BY <1>1, StreamsAssumption DEF s, Shape, NoFd
    <3> QED
      BY <1>8, <1>13, <3>1, <3>2
  <2> QED
    BY <1>4, <1>8, <1>10, <2>2, <2>3
<1>16. "disorder" \notin past' => held' \cap Dyn \subseteq Listed(t)
  BY <1>2, <1>3, <1>7, <1>11 DEF IInv, HeldListed, s
<1>17. ~Reopened => \A g \in held' : t.file[g].start # "null"
  BY <1>1, <1>2, <1>5, <1>13 DEF IInv, OpenHasBuffer
<1>18. held' \subseteq Stream /\ past' \subseteq {"unwritten", "disorder"}
  BY <1>1, <1>2, <1>3, <1>4
<1> QED
  BY <1>3, <1>11, <1>12, <1>13, <1>14, <1>15, <1>16, <1>17, <1>18, FinishInv

(* fclose does: what it drops from the list with the stream is newer, so   *)
(* that a program that closes its newest stream drops nothing.             *)
LEMMA FcloseStep == ASSUME IInv, Fclose PROVE IInv'
<1>1. /\ State \in Shape /\ Good(State)
      /\ held \subseteq Stream /\ past \subseteq {"unwritten", "disorder"}
  BY InvFacts
<1>2. ~exited /\ exited' = exited
  BY DEF Fclose
<1>3. PICK f \in held : \E ok \in Writes(f) :
          /\ Finish(fclose(State, f, ok))
          /\ held' = held \ {f}
          /\ past' = past \cup Unwritten(f, ok) \cup Disorder(f)
  BY DEF Fclose
<1>4. PICK ok \in BOOLEAN :
          /\ Finish(fclose(State, f, ok))
          /\ held' = held \ {f}
          /\ past' = past \cup Unwritten(f, ok) \cup Disorder(f)
  BY <1>3, StreamsAssumption DEF Writes
<1> DEFINE s == State
           t == fclose(s, f, ok)
<1>5. f \in Stream /\ f \in Std \cup s.alive
  BY InvFacts
<1>6. /\ file = s.file /\ alive = s.alive /\ fds = s.fds /\ IO_list = s.list
  BY StateParts
<1>7. /\ Failed(s, f, ok) => "unwritten" \in past'
      /\ f \in Dyn /\ f # s.list => "disorder" \in past'
      /\ past' \subseteq {"unwritten", "disorder"} /\ past \subseteq past'
  BY <1>1, <1>4, <1>6 DEF Unwritten, Disorder
<1>8. Finish(t)
  BY <1>4
<1>9. s \in Shape /\ Good(s)
  BY <1>1
<1>10. held \cap Dyn \subseteq s.alive
  BY <1>6 DEF IInv, HeldExist
<1>11. "unwritten" \notin past' =>
           s.alive = held \cap Dyn /\ s.fds \subseteq {s.file[g].fd : g \in Stream}
  BY <1>6, <1>7 DEF IInv, Returned
<1>12. "disorder" \notin past' => held \cap Dyn \subseteq Listed(s)
  BY <1>7 DEF IInv, HeldListed
<1>13. ~Reopened => \A g \in held : s.file[g].start # "null"
  BY <1>6 DEF IInv, OpenHasBuffer
<1>14. held' \subseteq Stream
  BY <1>1, <1>4
<1> HIDE DEF s
<1>15. CASE Stays(s, f, ok)
  <2>1. t = fflush(s, f, ok)
    BY <1>15 DEF fclose, Stays
  <2>2. Touches(s, t, f, {"mode", "dirty"})
    BY <1>5, <1>9, <2>1, FflushFacts
  <2>3. Good(t) /\ Listed(t) = Listed(s)
    BY <1>5, <1>9, <2>1, FflushGood
  <2> HIDE DEF t
  <2>4. /\ t \in Shape /\ t.alive = s.alive
        /\ \A g \in Stream : t.file[g].start = s.file[g].start
    BY <2>2 DEF Touches
  <2>5. "unwritten" \in past'
    BY <1>7, <1>15 DEF Stays
  <2>6. held' \cap Dyn \subseteq t.alive
    BY <1>4, <1>10, <2>4
  <2>7. "disorder" \notin past' => held' \cap Dyn \subseteq Listed(t)
    BY <1>4, <1>12, <2>3
  <2>8. ~Reopened => \A g \in held' : t.file[g].start # "null"
    BY <1>1, <1>4, <1>13, <2>4
  <2> QED
    BY <1>2, <1>7, <1>8, <1>14, <2>3, <2>4, <2>5, <2>6, <2>7, <2>8, FinishInv
<1>16. CASE ~Stays(s, f, ok)
  <2>1. /\ t \in Shape /\ Good(t)
        /\ \A g \in Stream : g # f => t.file[g] = s.file[g]
        /\ t.alive = s.alive \ {f} /\ t.fds = s.fds \ {s.file[f].fd}
        /\ f \in Std \/ f = s.list => Listed(s) \ {f} \subseteq Listed(t)
    BY <1>5, <1>9, <1>16, FcloseRest
  <2> HIDE DEF t
  <2>2. held' \cap Dyn \subseteq t.alive
    BY <1>4, <1>10, <2>1
  <2>3. ASSUME "unwritten" \notin past'
        PROVE  t.alive = held' \cap Dyn /\ t.fds \subseteq {t.file[g].fd : g \in Stream}
    BY <1>4, <1>11, <2>1, <2>3
  <2>4. ASSUME "disorder" \notin past'
        PROVE  held' \cap Dyn \subseteq Listed(t)
    <3>1. f \in Std \/ f = s.list
      BY <1>5, <1>7, <2>4 DEF Stream
    <3> QED
      BY <1>4, <1>12, <2>1, <2>4, <3>1
  <2>5. ~Reopened => \A g \in held' : t.file[g].start # "null"
    BY <1>1, <1>4, <1>13, <2>1
  <2> QED
    BY <1>2, <1>7, <1>8, <1>14, <2>1, <2>2, <2>3, <2>4, <2>5, FinishInv
<1> QED
  BY <1>15, <1>16

(* freopen does, whether it opens the file or gives everything back.       *)
LEMMA FreopenStep == ASSUME IInv, freopen PROVE IInv'
<1>1. /\ State \in Shape /\ Good(State)
      /\ held \subseteq Stream /\ past \subseteq {"unwritten", "disorder"}
  BY InvFacts
<1>2. ~exited /\ exited' = exited
  BY DEF freopen
<1>3. PICK f \in held \cup (IF Reopened THEN Std ELSE {}) :
          \E ok \in Writes(f), opens \in BOOLEAN, access \in {{"READ"}, {"WRITE"}} :
              LET kept == CloseKept(State, f, ok)
              IN  IF opens /\ Fds \ kept.fds # {}
                  THEN /\ Finish(Opened(kept, f, access))
                       /\ held' = held \cup {f}
                       /\ past' = past \cup Unwritten(f, ok)
                  ELSE /\ Finish(CloseAfterAll(kept, f, access, ok))
                       /\ held' = held \ {f}
                       /\ past' = past \cup Unwritten(f, ok) \cup Disorder(f)
  BY DEF freopen
<1>4. PICK ok \in BOOLEAN, opens \in BOOLEAN, access \in {{"READ"}, {"WRITE"}} :
              LET kept == CloseKept(State, f, ok)
              IN  IF opens /\ Fds \ kept.fds # {}
                  THEN /\ Finish(Opened(kept, f, access))
                       /\ held' = held \cup {f}
                       /\ past' = past \cup Unwritten(f, ok)
                  ELSE /\ Finish(CloseAfterAll(kept, f, access, ok))
                       /\ held' = held \ {f}
                       /\ past' = past \cup Unwritten(f, ok) \cup Disorder(f)
  BY <1>3, StreamsAssumption DEF Writes
<1> DEFINE s == State
           k == CloseKept(s, f, ok)
<1>5. /\ f \in Stream /\ f \in Std \cup s.alive
      /\ f \in Dyn => f \in held
      /\ ~Reopened => f \in held
      /\ access \in SUBSET {"READ", "WRITE"}
  <2>1. f \in Std => f \in Stream /\ f \notin Dyn
    BY StreamsAssumption DEF Stream
  <2>2. f \in held => f \in Stream /\ f \in Std \cup s.alive
    BY InvFacts
  <2> QED
    BY <1>3, <2>1, <2>2
<1>6. /\ file = s.file /\ alive = s.alive /\ fds = s.fds /\ IO_list = s.list
  BY StateParts
<1>7. Failed(s, f, ok) => "unwritten" \in past \cup Unwritten(f, ok)
  BY DEF Unwritten
<1>8. f \in Dyn /\ f # s.list => "disorder" \in Disorder(f)
  BY <1>6 DEF Disorder
<1>9. /\ past \cup Unwritten(f, ok) \subseteq {"unwritten", "disorder"}
      /\ past \cup Unwritten(f, ok) \cup Disorder(f) \subseteq {"unwritten", "disorder"}
  BY <1>1 DEF Unwritten, Disorder
<1>10. s \in Shape /\ Good(s)
  BY <1>1
<1>11. held \cap Dyn \subseteq s.alive
  BY <1>6 DEF IInv, HeldExist
<1>12. "unwritten" \notin past =>
           s.alive = held \cap Dyn /\ s.fds \subseteq {s.file[g].fd : g \in Stream}
  BY <1>6 DEF IInv, Returned
<1>13. "disorder" \notin past => held \cap Dyn \subseteq Listed(s)
  BY DEF IInv, HeldListed
<1>14. ~Reopened => \A g \in held : s.file[g].start # "null"
  BY <1>6 DEF IInv, OpenHasBuffer
<1>15. \/ /\ opens /\ Fds \ k.fds # {}
          /\ Finish(Opened(k, f, access))
          /\ held' = held \cup {f}
          /\ past' = past \cup Unwritten(f, ok)
       \/ /\ Finish(CloseAfterAll(k, f, access, ok))
          /\ held' = held \ {f}
          /\ past' = past \cup Unwritten(f, ok) \cup Disorder(f)
  BY <1>4
<1> HIDE DEF s
<1>16. /\ Touches(s, k, f, {"fd", "mode", "dirty", "fds"})
       /\ ~k.file[f].dirty
       /\ \/ k.file[f].fd = NoFd /\ k.fds = s.fds \ {s.file[f].fd}
          \/ Failed(s, f, ok) /\ k.file[f].fd = s.file[f].fd /\ k.fds = s.fds
  BY <1>5, <1>10, CloseKeptFacts
<1>17. Good(k) /\ Listed(k) = Listed(s)
  BY <1>5, <1>10, CloseKeptGood
<1> HIDE DEF k
<1>18. /\ k \in Shape /\ k.alive = s.alive /\ k.list = s.list
       /\ f \in Std \cup k.alive
       /\ \A g \in Stream : k.file[g].start = s.file[g].start
       /\ \A g \in Stream : g # f => k.file[g] = s.file[g]
  BY <1>5, <1>16 DEF Touches
<1>19. ASSUME opens, Fds \ k.fds # {}, Finish(Opened(k, f, access)),
              held' = held \cup {f}, past' = past \cup Unwritten(f, ok)
       PROVE  IInv'
  <2> DEFINE t == Opened(k, f, access)
  <2>1. /\ Touches(k, t, f, {"fd", "mode", "dirty", "fds"})
        /\ t.file[f].fd = LowestFd(k) /\ t.fds = k.fds \cup {LowestFd(k)}
    BY <1>5, <1>18, <1>19, OpenedFacts
  <2>2. Good(t) /\ Listed(t) = Listed(k)
    BY <1>5, <1>17, <1>18, <1>19, OpenedGood
  <2>3. Finish(t)
    BY <1>19
  <2> HIDE DEF t
  <2>4. /\ t \in Shape /\ t.alive = s.alive
        /\ \A g \in Stream : t.file[g].start = s.file[g].start
        /\ \A g \in Stream : g # f => t.file[g] = s.file[g]
    BY <1>18, <2>1 DEF Touches
  <2>5. held' \cap Dyn = held \cap Dyn
    BY <1>5, <1>19
  <2>6. held' \cap Dyn \subseteq t.alive
    BY <1>11, <2>4, <2>5
  <2>7. ASSUME "unwritten" \notin past'
        PROVE  t.alive = held' \cap Dyn /\ t.fds \subseteq {t.file[g].fd : g \in Stream}
    <3>1. s.alive = held \cap Dyn /\ s.fds \subseteq {s.file[g].fd : g \in Stream}
      BY <1>12, <1>19, <2>7
    <3>2. k.fds = s.fds \ {s.file[f].fd}
      BY <1>7, <1>16, <1>19, <2>7
    <3> QED
      BY <1>5, <2>1, <2>4, <2>5, <3>1, <3>2
  <2>8. "disorder" \notin past' => held' \cap Dyn \subseteq Listed(t)
    BY <1>13, <1>17, <1>19, <2>2, <2>5
  <2>9. ~Reopened => \A g \in held' : t.file[g].start # "null"
    BY <1>1, <1>5, <1>14, <1>19, <2>4
  <2>10. held' \subseteq Stream /\ past' \subseteq {"unwritten", "disorder"}
    BY <1>1, <1>5, <1>9, <1>19
  <2> QED
    BY <1>2, <2>2, <2>3, <2>4, <2>6, <2>7, <2>8, <2>9, <2>10, FinishInv
<1>20. ASSUME Finish(CloseAfterAll(k, f, access, ok)), held' = held \ {f},
              past' = past \cup Unwritten(f, ok) \cup Disorder(f)
       PROVE  IInv'
  <2> DEFINE w == [k EXCEPT !.file[f].mode = k.file[f].mode \cup access]
             t == fclose(w, f, ok)
  <2>1. /\ Touches(k, w, f, {"mode"}) /\ Good(w) /\ Listed(w) = Listed(k)
    BY <1>5, <1>17, <1>18, AccessGood
  <2>2. Finish(t)
    BY <1>20, Zenon DEF CloseAfterAll
  <2> HIDE DEF w
  <2>3. /\ w \in Shape /\ w.alive = k.alive /\ w.list = k.list /\ w.fds = k.fds
        /\ f \in Std \cup w.alive /\ w.file[f].fd = k.file[f].fd
        /\ ~w.file[f].dirty
        /\ \A g \in Stream : g # f => w.file[g] = k.file[g]
    BY <1>16, <1>18, <2>1 DEF Touches
  <2>4. ~Stays(w, f, ok)
    BY <2>3 DEF Stays, Failed
  <2>5. /\ t \in Shape /\ Good(t)
        /\ \A g \in Stream : g # f => t.file[g] = w.file[g]
        /\ t.alive = w.alive \ {f} /\ t.fds = w.fds \ {w.file[f].fd}
        /\ f \in Std \/ f = w.list => Listed(w) \ {f} \subseteq Listed(t)
    BY <2>1, <2>3, <2>4, FcloseRest
  <2> HIDE DEF t
  <2>6. /\ t.alive = s.alive \ {f}
        /\ \A g \in Stream : g # f => t.file[g] = s.file[g]
    BY <1>18, <2>3, <2>5
  <2>7. held' \cap Dyn \subseteq t.alive
    BY <1>11, <1>20, <2>6
  <2>8. ASSUME "unwritten" \notin past'
        PROVE  t.alive = held' \cap Dyn /\ t.fds \subseteq {t.file[g].fd : g \in Stream}
    <3>1. s.alive = held \cap Dyn /\ s.fds \subseteq {s.file[g].fd : g \in Stream}
      BY <1>12, <1>20, <2>8
    <3>2. k.fds = s.fds \ {s.file[f].fd}
      BY <1>7, <1>16, <1>20, <2>8
    <3>3. t.fds \subseteq s.fds \ {s.file[f].fd}
      BY <2>3, <2>5, <3>2
    <3> QED
      BY <1>20, <2>6, <3>1, <3>3
  <2>9. ASSUME "disorder" \notin past'
        PROVE  held' \cap Dyn \subseteq Listed(t)
    <3>1. f \in Std \/ f = w.list
      BY <1>5, <1>8, <1>18, <1>20, <2>3, <2>9 DEF Stream
    <3> QED
      BY <1>13, <1>17, <1>20, <2>1, <2>5, <2>9, <3>1
  <2>10. ~Reopened => \A g \in held' : t.file[g].start # "null"
    BY <1>1, <1>14, <1>20, <2>6
  <2>11. held' \subseteq Stream /\ past' \subseteq {"unwritten", "disorder"}
    BY <1>1, <1>9, <1>20
  <2> QED
    BY <1>2, <2>2, <2>5, <2>7, <2>8, <2>9, <2>10, <2>11, FinishInv
<1> QED
  BY <1>15, <1>19, <1>20

(* setvbuf and setbuffer do.                                               *)
LEMMA SetBufferStep == ASSUME IInv, SetBuffer PROVE IInv'
<1>1. /\ State \in Shape /\ Good(State)
      /\ held \subseteq Stream /\ past \subseteq {"unwritten", "disorder"}
  BY InvFacts
<1>2. ~exited /\ exited' = exited /\ held' = held /\ past' = past
  BY DEF SetBuffer
<1>3. PICK f \in held, new \in NewBuffers : \E ok \in Writes(f) :
          Finish(setvbuf(State, f, new, ok))
  BY DEF SetBuffer
<1>4. PICK ok \in BOOLEAN : Finish(setvbuf(State, f, new, ok))
  BY <1>3, StreamsAssumption DEF Writes
<1> DEFINE s == State
           t == setvbuf(s, f, new, ok)
<1>5. f \in Stream /\ f \in Std \cup s.alive /\ new \in {"unbuf", "heap", "user"}
  BY InvFacts
<1>6. /\ file = s.file /\ alive = s.alive /\ fds = s.fds
  BY StateParts
<1>7. s \in Shape /\ Good(s) /\ Finish(t)
  BY <1>1, <1>4
<1>8. "disorder" \notin past => held \cap Dyn \subseteq Listed(s)
  BY DEF IInv, HeldListed
<1> HIDE DEF s
<1>9. /\ Touches(s, t, f, {"mode", "start", "dirty", "buffers"})
      /\ t.file[f].start # "null"
  BY <1>5, <1>7, setvbufFacts
<1>10. Good(t) /\ Listed(t) = Listed(s)
  BY <1>5, <1>7, setvbufGood
<1> HIDE DEF t
<1>11. /\ t \in Shape /\ t.alive = s.alive /\ t.fds = s.fds
       /\ \A g \in Stream : t.file[g].fd = s.file[g].fd
       /\ \A g \in Stream : g # f => t.file[g] = s.file[g]
  BY <1>9 DEF Touches
<1>12. held' \cap Dyn \subseteq t.alive
  BY <1>2, <1>6, <1>11 DEF IInv, HeldExist
<1>13. "unwritten" \notin past' =>
           t.alive = held' \cap Dyn /\ t.fds \subseteq {t.file[g].fd : g \in Stream}
  BY <1>2, <1>6, <1>11 DEF IInv, Returned
<1>14. "disorder" \notin past' => held' \cap Dyn \subseteq Listed(t)
  BY <1>2, <1>8, <1>10
<1>15. ~Reopened => \A g \in held' : t.file[g].start # "null"
  BY <1>1, <1>2, <1>6, <1>9, <1>11 DEF IInv, OpenHasBuffer
<1> QED
  BY <1>1, <1>2, <1>7, <1>10, <1>11, <1>12, <1>13, <1>14, <1>15, FinishInv

(* So do calls that only change flags and what is pending.                 *)
LEMMA SameInv ==
    ASSUME IInv, ~exited, UNCHANGED <<IO_list, alive, buffers, fds, held, past, exited>>,
           file' \in [Stream -> FileType],
           \A g \in Stream :
               /\ file'[g].next = file[g].next /\ file'[g].fd = file[g].fd
               /\ file'[g].start = file[g].start
               /\ \/ file'[g].mode = file[g].mode
                  \/ g \in Std \cup alive /\ file'[g].mode = file[g].mode \cup {"ERR"}
    PROVE  IInv'
<1> DEFINE s == State
           t == State'
<1>1. s \in Shape /\ Good(s) /\ held \subseteq Stream /\ past \subseteq {"unwritten", "disorder"}
  BY InvFacts
<1>2. /\ file = s.file /\ IO_list = s.list /\ alive = s.alive
      /\ buffers = s.buffers /\ fds = s.fds
  BY StateParts
<1>3. /\ t.file = file' /\ t.list = IO_list' /\ t.alive = alive'
      /\ t.buffers = buffers' /\ t.fds = fds'
  BY DEF State
<1>4. t \in Shape
  BY <1>1, <1>2 DEF State, Shape
<1>5. Finish(t)
  BY <1>3 DEF Finish
<1>6. "disorder" \notin past => held \cap Dyn \subseteq Listed(s)
  BY DEF IInv, HeldListed
<1> HIDE DEF s, t
<1>7. Good(t) /\ Listed(t) = Listed(s)
  BY <1>1, <1>2, <1>3, <1>4, SameGood
<1>8. held' \cap Dyn \subseteq t.alive
  BY <1>3 DEF IInv, HeldExist
<1>9. "unwritten" \notin past' =>
          t.alive = held' \cap Dyn /\ t.fds \subseteq {t.file[g].fd : g \in Stream}
  BY <1>3 DEF IInv, Returned
<1>10. "disorder" \notin past' => held' \cap Dyn \subseteq Listed(t)
  BY <1>6, <1>7
<1>11. ~Reopened => \A g \in held' : t.file[g].start # "null"
  BY <1>1, <1>3 DEF IInv, OpenHasBuffer
<1> QED
  BY <1>1, <1>4, <1>5, <1>7, <1>8, <1>9, <1>10, <1>11, FinishInv

(* The FILEs as the lemmas about them take them.                           *)
LEMMA FileTyped == ASSUME IInv PROVE file \in [Stream -> FileType]
BY DEF IInv, TypeOK, FileType, Modes, Starts

(* Output does.                                                            *)
LEMMA PutStep == ASSUME IInv, Put PROVE IInv'
<1>1. ~exited /\ UNCHANGED <<IO_list, alive, buffers, fds, held, past, exited>>
  BY DEF Put
<1>2. PICK f \in held : file' = [file EXCEPT ![f].dirty = TRUE]
  BY DEF Put
<1> DEFINE r == [file[f] EXCEPT !.dirty = TRUE]
<1>3. f \in Stream /\ file[f] \in FileType
  BY InvFacts, FileTyped
<1>4. /\ r \in FileType
      /\ r.next = file[f].next /\ r.fd = file[f].fd
      /\ r.start = file[f].start /\ r.mode = file[f].mode
  BY <1>3 DEF FileType
<1>5. file' = [file EXCEPT ![f] = r]
  BY <1>2
<1> HIDE DEF r
<1>6. /\ file' \in [Stream -> FileType]
      /\ \A g \in Stream :
            /\ file'[g].next = file[g].next /\ file'[g].fd = file[g].fd
            /\ file'[g].start = file[g].start /\ file'[g].mode = file[g].mode
  BY <1>3, <1>4, <1>5, FileTyped
<1> QED
  BY <1>1, <1>6, SameInv

(* Flushing changes only what is pending.                                  *)
LEMMA FlushedFacts ==
    ASSUME file \in [Stream -> FileType], NEW S
    PROVE  /\ Flushed(S) \in [Stream -> FileType]
           /\ \A g \in Stream :
                 /\ Flushed(S)[g].next = file[g].next /\ Flushed(S)[g].fd = file[g].fd
                 /\ Flushed(S)[g].start = file[g].start /\ Flushed(S)[g].mode = file[g].mode
BY DEF Flushed, FileType

(* fflush(NULL) does.                                                      *)
LEMMA FlushAllStep == ASSUME IInv, FlushAll PROVE IInv'
<1>1. ~exited /\ UNCHANGED <<IO_list, alive, buffers, fds, held, past, exited>>
  BY DEF FlushAll
<1>2. CASE file' = Flushed(Std \cup Listed(State))
  BY <1>1, <1>2, FileTyped, FlushedFacts, SameInv
<1>3. ASSUME NEW g \in Std \cup Listed(State),
             file' = [Flushed(Ahead(g)) EXCEPT ![g] = fflush(State, g, FALSE).file[g]]
      PROVE  IInv'
  <2> DEFINE t == fflush(State, g, FALSE)
             F == Flushed(Ahead(g))
  <2>1. State \in Shape /\ g \in Stream /\ g \in Std \cup alive
    BY InvFacts, StateParts DEF Good, Linked, Shape, Stream
  <2>2. /\ Touches(State, t, g, {"mode", "dirty"})
        /\ t.file[g].mode \in {file[g].mode, file[g].mode \cup {"ERR"}}
    BY <2>1, StateParts, FflushFacts
  <2>3. /\ F \in [Stream -> FileType]
        /\ \A h \in Stream :
              /\ F[h].next = file[h].next /\ F[h].fd = file[h].fd
              /\ F[h].start = file[h].start /\ F[h].mode = file[h].mode
    BY FileTyped, FlushedFacts
  <2>4. file' = [F EXCEPT ![g] = t.file[g]]
    BY <1>3
  <2> HIDE DEF t, F
  <2>5. /\ t.file[g] \in FileType /\ t.file[g].next = file[g].next
        /\ t.file[g].fd = file[g].fd /\ t.file[g].start = file[g].start
    BY <2>1, <2>2, StateParts DEF Touches, Shape
  <2>6. /\ file' \in [Stream -> FileType] /\ file'[g] = t.file[g]
        /\ \A h \in Stream : h # g => file'[h] = F[h]
    BY <2>1, <2>3, <2>4, <2>5
  <2>7. \A h \in Stream :
            /\ file'[h].next = file[h].next /\ file'[h].fd = file[h].fd
            /\ file'[h].start = file[h].start
            /\ \/ file'[h].mode = file[h].mode
               \/ h \in Std \cup alive /\ file'[h].mode = file[h].mode \cup {"ERR"}
    BY <2>1, <2>2, <2>3, <2>5, <2>6
  <2> QED
    BY <1>1, <2>6, <2>7, SameInv
<1> QED
  BY <1>2, <1>3 DEF FlushAll

(* A stream that exit has closed.                                          *)
LEMMA ClosedRecord ==
    ASSUME NEW r \in FileType
    PROVE  LET q == [r EXCEPT !.dirty = FALSE, !.fd = NoFd] IN
           /\ q \in FileType /\ q.fd = NoFd /\ ~q.dirty
           /\ q.next = r.next /\ q.mode = r.mode /\ q.start = r.start
<1> DEFINE u == [r EXCEPT !.dirty = FALSE]
           q == [u EXCEPT !.fd = NoFd]
<1>1. [r EXCEPT !.dirty = FALSE, !.fd = NoFd] = q
  BY Zenon
<1>2. /\ u \in FileType /\ ~u.dirty
      /\ u.next = r.next /\ u.mode = r.mode /\ u.start = r.start
  BY DEF FileType
<1> HIDE DEF u
<1>3. /\ q \in FileType /\ q.fd = NoFd /\ ~q.dirty
      /\ q.next = r.next /\ q.mode = r.mode /\ q.start = r.start
  BY <1>2 DEF FileType
<1> QED
  BY <1>1, <1>3

(* Exit does: every stream that is held is static or on the list.          *)
LEMMA ExitStep == ASSUME IInv, stdio_close_all PROVE IInv'
<1> DEFINE s == State
           t == State'
           end(r) == [r EXCEPT !.dirty = FALSE, !.fd = NoFd]
           clear(r) == [r EXCEPT !.dirty = FALSE]
<1>1. /\ s \in Shape /\ Good(s) /\ held \subseteq Stream
      /\ \A f \in held : f \in Std \cup s.alive
  BY InvFacts
<1>2. /\ file = s.file /\ IO_list = s.list /\ alive = s.alive
      /\ buffers = s.buffers /\ fds = s.fds
  BY StateParts
<1>3. /\ t.file = file' /\ t.list = IO_list' /\ t.alive = alive'
      /\ t.buffers = buffers' /\ t.fds = fds'
  BY DEF State
<1>4. /\ UNCHANGED <<IO_list, alive, buffers, held, past>> /\ exited' = TRUE
      /\ fds' = fds \ {file[f].fd : f \in Listed(s)}
      /\ file' = [f \in Stream |->
                    IF f \in Listed(s) THEN end(file[f])
                    ELSE IF f \in AtExit THEN clear(file[f]) ELSE file[f]]
  BY DEF stdio_close_all
<1>5. AtExit = Std \cup Listed(s)
  BY DEF AtExit
<1>6. \A r \in FileType :
          /\ end(r) \in FileType /\ end(r).fd = NoFd /\ ~end(r).dirty
          /\ end(r).next = r.next /\ end(r).mode = r.mode /\ end(r).start = r.start
  BY ClosedRecord
<1>7. \A r \in FileType :
          /\ clear(r) \in FileType /\ clear(r).fd = r.fd /\ ~clear(r).dirty
          /\ clear(r).next = r.next /\ clear(r).mode = r.mode /\ clear(r).start = r.start
  BY DEF FileType
<1>8. t = [file |-> file', list |-> IO_list', alive |-> alive',
           buffers |-> buffers', fds |-> fds']
  BY DEF State
<1>9. TypeOK /\ HeldExist /\ Returned /\ HeldListed /\ (~Reopened => OpenHasBuffer)
  BY DEF IInv
<1>10. "disorder" \notin past => held \cap Dyn \subseteq Listed(s)
  BY <1>9 DEF HeldListed
<1> HIDE DEF s, t, end, clear
<1>11. file \in [Stream -> FileType]
  BY FileTyped
<1>12. /\ file' \in [Stream -> FileType]
       /\ \A f \in Stream :
             /\ file'[f].next = file[f].next /\ file'[f].mode = file[f].mode
             /\ file'[f].start = file[f].start
             /\ file'[f].fd = IF f \in Listed(s) THEN NoFd ELSE file[f].fd
             /\ f \in Std \cup Listed(s) => ~file'[f].dirty
  BY <1>4, <1>5, <1>6, <1>7, <1>11
<1>13. t \in Shape
  BY <1>1, <1>2, <1>4, <1>8, <1>12 DEF Shape
<1>14. Linked(t) /\ Listed(t) = Listed(s)
  BY <1>1, <1>2, <1>3, <1>4, <1>12, <1>13, LinkedSame DEF Good
<1>15. Counted(t)
  <2>1. Buffered(t) = Buffered(s)
    BY <1>2, <1>3, <1>12 DEF Buffered
  <2> QED
    BY <1>1, <1>2, <1>3, <1>4, <2>1 DEF Counted, Good
<1>16. OwnFds(t)
  <2>1. Listed(s) \subseteq Stream
    BY <1>1, FromLeads DEF Listed, Shape
  <2>2. ASSUME NEW f \in Stream
        PROVE  file'[f].fd \in fds' \cup {NoFd}
    BY <1>1, <1>2, <1>4, <1>12, <2>1, <2>2 DEF Good, OwnFds
  <2>3. ASSUME NEW f \in Stream, NEW g \in Stream, g # f, file'[g].fd = file'[f].fd
        PROVE  file'[f].fd = NoFd
    BY <1>1, <1>2, <1>12, <2>3 DEF Good, OwnFds
  <2> QED
    BY <1>3, <2>2, <2>3 DEF OwnFds
<1>17. Given(t)
  BY <1>1, <1>2, <1>3, <1>4, <1>12 DEF Good, Given
<1>18. TypeOK'
  BY <1>4, <1>9, <1>12 DEF TypeOK, FileType, Modes, Starts
<1>19. Good(State)'
  BY <1>14, <1>15, <1>16, <1>17
     DEF t, Good, Linked, Counted, Buffered, OwnFds, Given, Listed, From, Leads
<1>20. HeldExist'
  BY <1>4, <1>9 DEF HeldExist
<1>21. Returned'
  <2>1. ASSUME NEW x \in fds', fds \subseteq {file[f].fd : f \in Stream}
        PROVE  \E f \in Stream : file'[f].fd = x
    BY <1>4, <1>12, <2>1
  <2> QED
    BY <1>4, <1>9, <2>1 DEF Returned
<1>22. HeldListed'
  BY <1>4, <1>10, <1>14 DEF HeldListed, t, Listed, From, Leads
<1>23. (~Reopened => OpenHasBuffer)'
  BY <1>1, <1>4, <1>9, <1>12 DEF OpenHasBuffer
<1>24. FlushedInOrder'
  BY <1>1, <1>4, <1>10, <1>12 DEF FlushedInOrder, AllFlushed, Stream
<1> QED
  BY <1>18, <1>19, <1>20, <1>21, <1>22, <1>23, <1>24 DEF IInv

(* Every step keeps the invariant.                                         *)
LEMMA NextInv == IInv /\ [Next]_vars => IInv'
<1> SUFFICES ASSUME IInv, [Next]_vars PROVE IInv'
  OBVIOUS
<1>1. CASE UNCHANGED vars
  BY <1>1 DEF vars, IInv, TypeOK, Good, Linked, Counted, Buffered, OwnFds, Given, Listed,
      From, Leads, State, HeldExist, Returned, HeldListed, OpenHasBuffer, FlushedInOrder,
      AllFlushed
<1> QED
  BY <1>1, FopenStep, FreopenStep, FcloseStep, PutStep, SetBufferStep, FlushAllStep,
     ExitStep DEF Next

(* The invariant holds in every state of every behaviour.                  *)
THEOREM StreamsInv == Spec => []IInv
BY InitIInv, NextInv, PTL DEF Spec

(* However many streams are opened and closed, in any order, the list that *)
(* is walked at exit leads only to FILEs that exist, and ends.             *)
THEOREM StreamsListSound == Spec => []ListSound
<1>1. IInv => ListSound
  BY StateParts DEF IInv, ListSound, Good, Linked
<1> QED
  BY <1>1, StreamsInv, PTL

(* As long as no flush fails in a close nothing is lost or given back      *)
(* twice, whatever the number of streams, descriptors and buffers.         *)
THEOREM StreamsReturned == ASSUME ~Reopened PROVE Spec => []NothingLeaks
<1>1. IInv => NothingLeaks
  <2> SUFFICES ASSUME IInv PROVE NothingLeaks
    OBVIOUS
  <2>1. OpenHasBuffer
    BY DEF IInv
  <2>2. buffers = Cardinality({f \in Stream : "FREEBUF" \in file[f].mode})
    BY StateParts DEF IInv, Good, Counted, Buffered
  <2>3. \A f \in Stream : file[f].fd \in fds \cup {NoFd}
    BY StateParts DEF IInv, Good, OwnFds
  <2>4. NoFd \notin fds
    BY StreamsAssumption DEF IInv, TypeOK, NoFd
  <2> QED
    BY <2>1, <2>2, <2>3, <2>4 DEF IInv, Returned, NothingLeaks
<1> QED
  BY <1>1, StreamsInv, PTL

(* A program that always closes its newest stream first loses no output at *)
(* exit, with any number of streams.                                       *)
THEOREM StreamsFlushed == Spec => []FlushedInOrder
<1>1. IInv => FlushedInOrder
  BY DEF IInv
<1> QED
  BY <1>1, StreamsInv, PTL
=============================================================================
