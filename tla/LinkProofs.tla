----------------------------- MODULE LinkProofs -----------------------------
(***************************************************************************)
(* Proofs about LinkSymbols, for any number of modules, names, classes and *)
(* segments: bindings and errors do not depend on the order of modules, no *)
(* redefinition is lost, and linking ends with the right modules and       *)
(* bindings.  One name's reading is shown case by case (ReadAbsent to      *)
(* ReadPut), all names' by induction (ReadsRight), then each action keeps  *)
(* the invariant IInv, from which the properties follow.                   *)
(***************************************************************************)
EXTENDS LinkSymbols, SequenceTheorems, FiniteSetTheorems, TLAPS

(* A set of naturals that is not empty has a least element.                *)
LEMMA LeastOf ==
    ASSUME NEW S \in SUBSET Nat, S # {}
    PROVE  \E x \in S : \A y \in S : x <= y
<1> DEFINE R == OpToRel(<, Nat)
<1>1. IsWellFoundedOn(R, Nat)
  BY NatLessThanWellFounded
<1>2. PICK x \in S : \A y \in S : <<y, x>> \notin R
  <2>1. S \subseteq Nat
    OBVIOUS
  <2> HIDE DEF R
  <2> QED
    BY <1>1, <2>1, WFMin
<1>3. x \in Nat /\ \A y \in S : ~(y < x)
  BY <1>2 DEF OpToRel
<1>4. \A y \in S : x <= y
  <2> TAKE y \in S
  <2>1. x \in Nat /\ y \in Nat /\ ~(y < x)
    BY <1>3
  <2> QED
    BY <2>1
<1> QED
  BY <1>4

(* Induction: a set of naturals with 0 and the successors of its elements. *)
LEMMA SetInduction ==
    ASSUME NEW S \in SUBSET Nat, 0 \in S, \A n \in S : n + 1 \in S
    PROVE  S = Nat
<1> SUFFICES ASSUME Nat \ S # {} PROVE FALSE
  OBVIOUS
<1>1. PICK x \in Nat \ S : \A y \in Nat \ S : x <= y
  BY LeastOf
<1>2. x \in Nat /\ x # 0
  BY <1>1
<1>3. x - 1 \in S /\ (x - 1) + 1 = x
  BY <1>1, <1>2
<1> QED
  BY <1>1, <1>3

IsModule(f) == f.class \in Nat /\ \A s \in Sym : f.decl[s] \in Decl
Module == UNION {UNION {files[i] : i \in 1 .. Len(files)} : files \in Files}

(* What may be read is a module.                                           *)
LEMMA ModuleType == \A f \in Module : IsModule(f)
BY LinkAssumption DEF Module, IsModule

SymRec == [mod : Nat, value : Nat, seg : Nat, exp : BOOLEAN]
Node == [sym : Sym, mod : Nat, value : Nat, next : Nat]
Shape == [sym : [Sym -> SymRec], red : Seq(Node), redfirst : Nat,
          entries : Seq(Sym), errors : BOOLEAN]

(* The tables while the names of a module are read exist.                  *)
LEMMA ReadsDef ==
    ASSUME NEW t, NEW ms, NEW m
    PROVE  Reads(t, ms, m) = [s \in 0 .. NSyms |->
              IF s = 0 THEN t ELSE ReadSym(Reads(t, ms, m)[s - 1], ms, m, s)]
<1> DEFINE Upto(f, n) == f = [s \in 0 .. n |-> IF s = 0 THEN t ELSE ReadSym(f[s - 1], ms, m, s)]
           S == {n \in Nat : \E f : Upto(f, n)}
<1>1. 0 \in S
  <2>1. Upto([s \in 0 .. 0 |-> t], 0)
    OBVIOUS
  <2> QED
    BY <2>1
<1>2. ASSUME NEW n \in S PROVE n + 1 \in S
  <2>1. PICK f : Upto(f, n)
    OBVIOUS
  <2> DEFINE g == [s \in 0 .. n + 1 |-> IF s = n + 1 THEN ReadSym(f[n], ms, m, n + 1) ELSE f[s]]
  <2>2. n \in Nat
    OBVIOUS
  <2>3. ASSUME NEW s \in 0 .. n + 1
        PROVE  g[s] = IF s = 0 THEN t ELSE ReadSym(g[s - 1], ms, m, s)
    <3>1. CASE s = n + 1
      BY <2>2, <3>1
    <3>2. CASE s # n + 1
      <4>1. s \in 0 .. n /\ (s # 0 => s - 1 \in 0 .. n)
        BY <2>2, <3>2
      <4>2. f[s] = IF s = 0 THEN t ELSE ReadSym(f[s - 1], ms, m, s)
        BY <2>1, <4>1
      <4> QED
        BY <2>2, <3>2, <4>1, <4>2
    <3> QED
      BY <3>1, <3>2
  <2>4. Upto(g, n + 1)
    BY <2>3
  <2> HIDE DEF g, Upto
  <2> QED
    BY <2>2, <2>4
<1>3. S = Nat
  <2>1. S \subseteq Nat
    OBVIOUS
  <2> HIDE DEF S
  <2> QED
    BY <1>1, <1>2, <2>1, SetInduction
<1>4. \E f : Upto(f, NSyms)
  BY <1>3, LinkAssumption
<1> DEFINE read == CHOOSE f : Upto(f, NSyms)
<1>5. Upto(read, NSyms)
  <2> HIDE DEF Upto
  <2> QED
    BY <1>4
<1>6. Reads(t, ms, m) = read
  BY DEF Reads
<1> QED
  BY <1>5, <1>6

-----------------------------------------------------------------------------
SegOf(ms, i, s) == IF ms[i].decl[s].kind = "absent" THEN AnySeg ELSE ms[i].decl[s].seg
Speaks(ms, i, s) == ms[i].decl[s].kind # "absent"
Exports(ms, i, s) == ms[i].decl[s].kind = "export"

Bound(t, ms, n, s) ==
    IF t.sym[s] = NoSym THEN \A i \in 1 .. n : ~Speaks(ms, i, s)
    ELSE /\ t.sym[s].mod \in 1 .. n /\ Speaks(ms, t.sym[s].mod, s)
         /\ t.sym[s].value = ms[t.sym[s].mod].decl[s].value
         /\ t.sym[s].exp <=> Exports(ms, t.sym[s].mod, s)

Waiting(t, ms, n, s) ==
    \A j \in 1 .. Len(t.red) : t.red[j].sym = s =>
        /\ t.red[j].mod \in 1 .. n /\ Exports(ms, t.red[j].mod, s)
        /\ t.red[j].value = ms[t.red[j].mod].decl[s].value

OneSegment(t, ms, n, s) ==
    /\ t.sym[s].seg # AnySeg => \E i \in 1 .. n : SegOf(ms, i, s) = t.sym[s].seg
    /\ \A i \in 1 .. n : SegOf(ms, i, s) # AnySeg =>
          t.sym[s].seg # AnySeg /\ (t.errors \/ SegOf(ms, i, s) = t.sym[s].seg)

Kept(t, i, s) ==
    \/ i = t.sym[s].mod
    \/ \E j \in 1 .. Len(t.red) : t.red[j].sym = s /\ t.red[j].mod = i

Ranked(t, ms, n, s) ==
    ~t.errors => \A i \in 1 .. n : Exports(ms, i, s) =>
        /\ t.sym[s].exp /\ ms[t.sym[s].mod].class <= ms[i].class /\ Kept(t, i, s)
        /\ \A k \in 1 .. n : Exports(ms, k, s) /\ k # i => ms[k].class # ms[i].class

Largest(t, ms, n, s) ==
    ~t.errors /\ (\A i \in 1 .. n : ~Exports(ms, i, s)) =>
        \A i \in 1 .. n : Speaks(ms, i, s) => ms[i].decl[s].value <= t.sym[s].value

NameRead(t, ms, n, s) ==
    /\ Bound(t, ms, n, s) /\ Waiting(t, ms, n, s) /\ OneSegment(t, ms, n, s)
    /\ Ranked(t, ms, n, s) /\ Largest(t, ms, n, s)

ClashIn(ms, n, s) ==
    \/ \E i, k \in 1 .. n : /\ Exports(ms, i, s) /\ Exports(ms, k, s) /\ i # k
                            /\ ms[i].class = ms[k].class
    \/ \E i, k \in 1 .. n : /\ SegOf(ms, i, s) # AnySeg /\ SegOf(ms, k, s) # AnySeg
                            /\ SegOf(ms, i, s) # SegOf(ms, k, s)

(* What reading a name leaves as it is.                                    *)
SameNodes(t, u, s) ==
    /\ Len(u.red) >= Len(t.red)
    /\ \A j \in 1 .. Len(t.red) : /\ u.red[j].sym = t.red[j].sym
                                  /\ u.red[j].mod = t.red[j].mod
                                  /\ u.red[j].value = t.red[j].value
    /\ \A j \in Len(t.red) + 1 .. Len(u.red) : u.red[j].sym = s
Elsewhere(t, u, s) ==
    /\ \A x \in Sym \ {s} : u.sym[x] = t.sym[x]
    /\ t.sym[s] # NoSym => u.sym[s] # NoSym
    /\ SameNodes(t, u, s)
    /\ t.errors => u.errors

InOrder(t) ==
    /\ t.redfirst = IF Len(t.red) = 0 THEN Nul ELSE 1
    /\ \A j \in 1 .. Len(t.red) : t.red[j].next = IF j = Len(t.red) THEN Nul ELSE j + 1

EntriesFound(t) == \A i \in 1 .. Len(t.entries) : t.sym[t.entries[i]] # NoSym

(* The last node gets a successor.                                         *)
LEMMA ChainedFacts ==
    ASSUME NEW nodes \in Seq(Node)
    PROVE  /\ Chained(nodes) \in Seq(Node) /\ Len(Chained(nodes)) = Len(nodes)
           /\ \A j \in 1 .. Len(nodes) :
                 /\ Chained(nodes)[j].sym = nodes[j].sym /\ Chained(nodes)[j].mod = nodes[j].mod
                 /\ Chained(nodes)[j].value = nodes[j].value
                 /\ Chained(nodes)[j].next = IF j = Len(nodes) THEN j + 1 ELSE nodes[j].next
<1>1. Len(nodes) \in Nat /\ \A j \in 1 .. Len(nodes) : nodes[j] \in Node
  OBVIOUS
<1>2. \A j \in 1 .. Len(nodes) :
         Chained(nodes)[j] = IF j = Len(nodes) THEN [nodes[j] EXCEPT !.next = j + 1] ELSE nodes[j]
  BY <1>1 DEF Chained
<1>3. Chained(nodes) \in [1 .. Len(nodes) -> Node]
  BY <1>1 DEF Chained, Node
<1>4. Chained(nodes) \in Seq(Node) /\ Len(Chained(nodes)) = Len(nodes)
  BY <1>1, <1>3
<1> QED
  BY <1>1, <1>2, <1>4 DEF Node

(* A node is put at the end of the list.                                   *)
LEMMA AddRedFacts ==
    ASSUME NEW t \in Shape, NEW node \in Node, node.next = Nul
    PROVE  LET u == AddRed(t, node) IN
           /\ u \in Shape
           /\ u.sym = t.sym /\ u.entries = t.entries /\ u.errors = t.errors
           /\ Len(u.red) = Len(t.red) + 1 /\ u.red[Len(t.red) + 1] = node
           /\ \A j \in 1 .. Len(t.red) : /\ u.red[j].sym = t.red[j].sym
                                         /\ u.red[j].mod = t.red[j].mod
                                         /\ u.red[j].value = t.red[j].value
           /\ InOrder(t) => InOrder(u)
<1> DEFINE u == AddRed(t, node)
<1>1. t.red \in Seq(Node) /\ t.redfirst \in Nat /\ Len(t.red) \in Nat
  BY DEF Shape
<1>2. /\ u.red = Append(Chained(t.red), node)
      /\ u.redfirst = IF t.redfirst = Nul THEN 1 ELSE t.redfirst
      /\ u.sym = t.sym /\ u.entries = t.entries /\ u.errors = t.errors
  BY DEF AddRed, Shape
<1>3. /\ u.red \in Seq(Node) /\ Len(u.red) = Len(t.red) + 1 /\ u.red[Len(t.red) + 1] = node
      /\ \A j \in 1 .. Len(t.red) : u.red[j] = Chained(t.red)[j]
  BY <1>1, <1>2, ChainedFacts
<1>4. u \in Shape
  <2>1. Append(Chained(t.red), node) \in Seq(Node)
    BY <1>2, <1>3
  <2> QED
    BY <2>1 DEF AddRed, Shape
<1>5. \A j \in 1 .. Len(t.red) :
         /\ u.red[j].sym = t.red[j].sym /\ u.red[j].mod = t.red[j].mod
         /\ u.red[j].value = t.red[j].value
         /\ u.red[j].next = IF j = Len(t.red) THEN j + 1 ELSE t.red[j].next
  BY <1>1, <1>3, ChainedFacts, SMTT(30)
<1>6. ASSUME InOrder(t) PROVE InOrder(u)
  <2>1. u.redfirst = 1
    BY <1>1, <1>2, <1>6 DEF InOrder, Nul
  <2> HIDE DEF u
  <2>2. ASSUME NEW j \in 1 .. Len(u.red)
        PROVE  u.red[j].next = IF j = Len(u.red) THEN Nul ELSE j + 1
    <3>1. CASE j = Len(u.red)
      BY <1>3, <3>1
    <3>2. CASE j # Len(u.red)
      <4>1. j \in 1 .. Len(t.red)
        BY <1>1, <1>3, <3>2
      <4> QED
        BY <1>1, <1>3, <1>5, <1>6, <3>2, <4>1 DEF InOrder
    <3> QED
      BY <3>1, <3>2
  <2> QED
    BY <1>1, <1>3, <2>1, <2>2 DEF InOrder
<1> HIDE DEF u
<1>7. u = AddRed(t, node)
  BY DEF u
<1> QED
  BY <1>2, <1>3, <1>4, <1>5, <1>6, <1>7

(* A name is among the entry symbols afterwards, and nothing else is new.  *)
LEMMA EntrysymFacts ==
    ASSUME NEW list \in Seq(Sym), NEW s \in Sym
    PROVE  /\ entrysym(list, s) \in Seq(Sym) /\ Len(entrysym(list, s)) > 0
           /\ \A i \in 1 .. Len(entrysym(list, s)) :
                 entrysym(list, s)[i] = s \/ \E j \in 1 .. Len(list) : entrysym(list, s)[i] = list[j]
<1>1. CASE \E i \in 1 .. Len(list) : list[i] = s
  <2>1. PICK i \in 1 .. Len(list) : list[i] = s
    BY <1>1
  <2>2. entrysym(list, s) = list
    BY <1>1 DEF entrysym
  <2>3. Len(list) \in Nat /\ Len(list) > 0
    BY <2>1
  <2> QED
    BY <2>2, <2>3
<1>2. CASE ~\E i \in 1 .. Len(list) : list[i] = s
  <2>1. entrysym(list, s) = Append(list, s)
    BY <1>2 DEF entrysym
  <2> QED
    BY <2>1
<1> QED
  BY <1>1, <1>2

(* A name is made the module's.                                            *)
LEMMA DefineFacts ==
    ASSUME NEW t \in Shape, NEW m \in Nat, NEW s \in Sym, NEW d \in Decl, NEW seg \in Nat
    PROVE  LET u == Define(t, m, s, d, seg) IN
           /\ u \in Shape
           /\ u.sym[s].mod = m /\ u.sym[s].value = d.value /\ u.sym[s].seg = seg
           /\ u.sym[s].exp <=> d.kind = "export"
           /\ \A x \in Sym \ {s} : u.sym[x] = t.sym[x]
           /\ u.red = t.red /\ u.redfirst = t.redfirst /\ u.errors = t.errors
           /\ \A i \in 1 .. Len(u.entries) :
                 u.entries[i] = s \/ \E j \in 1 .. Len(t.entries) : u.entries[i] = t.entries[j]
<1> DEFINE u == Define(t, m, s, d, seg)
           r == [mod |-> m, value |-> d.value, seg |-> seg, exp |-> d.kind = "export"]
<1>1. /\ u.sym = [t.sym EXCEPT ![s] = r]
      /\ u.entries = IF d.entry THEN entrysym(t.entries, s) ELSE t.entries
      /\ u.red = t.red /\ u.redfirst = t.redfirst /\ u.errors = t.errors
  BY DEF Define, Shape
<1>2. r \in SymRec
  BY DEF SymRec, Decl
<1>3. u.sym \in [Sym -> SymRec]
  BY <1>1, <1>2 DEF Shape
<1>4. u.entries \in Seq(Sym) /\ \A i \in 1 .. Len(u.entries) :
         u.entries[i] = s \/ \E j \in 1 .. Len(t.entries) : u.entries[i] = t.entries[j]
  <2>1. CASE d.entry
    BY <1>1, <2>1, EntrysymFacts DEF Shape
  <2>2. CASE ~d.entry
    BY <1>1, <2>2 DEF Shape
  <2> QED
    BY <2>1, <2>2
<1>5. u \in Shape
  <2>1. /\ [t.sym EXCEPT ![s] = r] \in [Sym -> SymRec]
        /\ (IF d.entry THEN entrysym(t.entries, s) ELSE t.entries) \in Seq(Sym)
    BY <1>1, <1>3, <1>4
  <2> HIDE DEF r
  <2> QED
    BY <2>1 DEF Define, Shape, r
<1>6. /\ u.sym[s].mod = m /\ u.sym[s].value = d.value /\ u.sym[s].seg = seg
      /\ \A x \in Sym \ {s} : u.sym[x] = t.sym[x]
  BY <1>1 DEF Shape
<1>8. u.sym[s].exp <=> d.kind = "export"
  <2>1. u.sym[s] = r
    BY <1>1 DEF Shape
  <2>2. r.exp <=> d.kind = "export"
    OBVIOUS
  <2> HIDE DEF u, r
  <2> QED
    BY <2>1, <2>2
<1> HIDE DEF u, r
<1>7. u = Define(t, m, s, d, seg)
  BY DEF u
<1>9. u.red = t.red /\ u.redfirst = t.redfirst /\ u.errors = t.errors
  BY <1>1
<1> QED
  BY <1>4, <1>5, <1>6, <1>7, <1>8, <1>9

(* What is to be shown of the tables u after a name of module m is read.   *)
ReadRight(t, u, ms, m, s) ==
    /\ u \in Shape /\ NameRead(u, ms, m, s) /\ Elsewhere(t, u, s)
    /\ InOrder(u) /\ EntriesFound(u)
    /\ u.errors => t.errors \/ ClashIn(ms, m, s)

(* The tables with the segment of a name settled.                          *)
Settle(t, s, seg) == [t EXCEPT !.sym[s].seg = seg]

(* Only the segment changes.                                               *)
LEMMA SettleFacts ==
    ASSUME NEW t \in Shape, NEW s \in Sym, NEW seg \in Nat
    PROVE  LET u == Settle(t, s, seg) IN
           /\ u \in Shape
           /\ u.sym[s].mod = t.sym[s].mod /\ u.sym[s].value = t.sym[s].value /\ u.sym[s].seg = seg
           /\ u.sym[s].exp = t.sym[s].exp
           /\ \A x \in Sym \ {s} : u.sym[x] = t.sym[x]
           /\ u.red = t.red /\ u.redfirst = t.redfirst /\ u.errors = t.errors
           /\ u.entries = t.entries
BY DEF Settle, Shape, SymRec

(* Only the error count changes.                                           *)
LEMMA FailFacts ==
    ASSUME NEW t \in Shape
    PROVE  LET u == [t EXCEPT !.errors = TRUE] IN
           /\ u \in Shape /\ u.errors = TRUE
           /\ u.sym = t.sym /\ u.red = t.red /\ u.redfirst = t.redfirst /\ u.entries = t.entries
BY DEF Shape

(* The table with a name bound to another module.                          *)
TakeOver(t, s, m, value) == [t EXCEPT !.sym[s].mod = m, !.sym[s].value = value]

(* Only the module and the value change.                                   *)
LEMMA TakeOverFacts ==
    ASSUME NEW t \in Shape, NEW s \in Sym, NEW m \in Nat, NEW value \in Nat
    PROVE  LET u == TakeOver(t, s, m, value) IN
           /\ u \in Shape
           /\ u.sym[s].mod = m /\ u.sym[s].value = value /\ u.sym[s].seg = t.sym[s].seg
           /\ u.sym[s].exp = t.sym[s].exp
           /\ \A x \in Sym \ {s} : u.sym[x] = t.sym[x]
           /\ u.red = t.red /\ u.redfirst = t.redfirst /\ u.errors = t.errors
           /\ u.entries = t.entries
BY DEF TakeOver, Shape, SymRec

(* The table of names is as before but for s, which was and is known.      *)
LEMMA SameEntries ==
    ASSUME NEW t \in Shape, NEW u \in Shape, NEW s \in Sym, EntriesFound(t),
           \A x \in Sym \ {s} : u.sym[x] = t.sym[x], u.sym[s] # NoSym,
           \A i \in 1 .. Len(u.entries) :
              u.entries[i] = s \/ \E j \in 1 .. Len(t.entries) : u.entries[i] = t.entries[j]
    PROVE  EntriesFound(u)
<1> SUFFICES ASSUME NEW i \in 1 .. Len(u.entries) PROVE u.sym[u.entries[i]] # NoSym
  BY DEF EntriesFound
<1>1. CASE u.entries[i] = s
  BY <1>1
<1>2. CASE u.entries[i] # s
  <2>1. PICK j \in 1 .. Len(t.entries) : u.entries[i] = t.entries[j]
    BY <1>2
  <2>2. t.entries[j] \in Sym /\ t.sym[t.entries[j]] # NoSym
    BY <2>1 DEF EntriesFound, Shape
  <2> QED
    BY <1>2, <2>1, <2>2
<1> QED
  BY <1>1, <1>2

(* A name with a module is a name that was found.                          *)
LEMMA KnownSym ==
    ASSUME NEW r, r.mod # 0
    PROVE  r # NoSym
BY DEF NoSym

(* A name that the module does not mention.                                *)
LEMMA ReadAbsent ==
    ASSUME NEW ms, NEW m \in Nat \ {0}, NEW s \in Sym, NEW t \in Shape,
           NameRead(t, ms, m - 1, s), InOrder(t), EntriesFound(t),
           ms[m].decl[s].kind = "absent"
    PROVE  ReadRight(t, t, ms, m, s)
<1>1. ~Speaks(ms, m, s) /\ ~Exports(ms, m, s) /\ SegOf(ms, m, s) = AnySeg
  BY DEF Speaks, Exports, SegOf
<1>2. \A i \in 1 .. m : i \in 1 .. m - 1 \/ i = m
  OBVIOUS
<1>3. 1 .. m - 1 \subseteq 1 .. m
  OBVIOUS
<1>4. Bound(t, ms, m, s)
  BY <1>1, <1>2, <1>3 DEF NameRead, Bound
<1>5. Waiting(t, ms, m, s)
  BY <1>3 DEF NameRead, Waiting
<1>6. OneSegment(t, ms, m, s)
  BY <1>1, <1>2, <1>3 DEF NameRead, OneSegment
<1>7. Ranked(t, ms, m, s)
  BY <1>1, <1>2 DEF NameRead, Ranked
<1>8. Largest(t, ms, m, s)
  BY <1>1, <1>2, <1>3 DEF NameRead, Largest
<1>9. Elsewhere(t, t, s)
  BY DEF Elsewhere, SameNodes, Shape
<1> QED
  BY <1>4, <1>5, <1>6, <1>7, <1>8, <1>9 DEF ReadRight, NameRead

(* A name heard of for the first time.                                     *)
LEMMA ReadFirst ==
    ASSUME NEW ms, NEW m \in Nat \ {0}, NEW s \in Sym, NEW t \in Shape,
           NameRead(t, ms, m - 1, s), InOrder(t), EntriesFound(t),
           IsModule(ms[m]), ms[m].decl[s].kind # "absent", t.sym[s] = NoSym
    PROVE  ReadRight(t, Define(t, m, s, ms[m].decl[s], ms[m].decl[s].seg), ms, m, s)
<1> DEFINE d == ms[m].decl[s]
           u == Define(t, m, s, d, d.seg)
<1>1. d \in Decl /\ d.seg \in Nat /\ d.value \in Nat
  BY DEF IsModule, Decl
<1>2. /\ u \in Shape
      /\ u.sym[s].mod = m /\ u.sym[s].value = d.value /\ u.sym[s].seg = d.seg
      /\ u.sym[s].exp <=> d.kind = "export"
      /\ \A x \in Sym \ {s} : u.sym[x] = t.sym[x]
      /\ u.red = t.red /\ u.redfirst = t.redfirst /\ u.errors = t.errors
      /\ \A i \in 1 .. Len(u.entries) :
            u.entries[i] = s \/ \E j \in 1 .. Len(t.entries) : u.entries[i] = t.entries[j]
  <2> HIDE DEF d
  <2>1. m \in Nat
    OBVIOUS
  <2> QED
    BY <1>1, <2>1, DefineFacts, SMTT(30)
<1>3. /\ Speaks(ms, m, s) /\ SegOf(ms, m, s) = d.seg /\ (Exports(ms, m, s) <=> d.kind = "export")
      /\ \A i \in 1 .. m - 1 : ~Speaks(ms, i, s) /\ SegOf(ms, i, s) = AnySeg /\ ~Exports(ms, i, s)
  BY DEF NameRead, Bound, Speaks, SegOf, Exports
<1>4. \A i \in 1 .. m : i \in 1 .. m - 1 \/ i = m
  OBVIOUS
<1>5. m \in 1 .. m /\ 1 .. m - 1 \subseteq 1 .. m
  OBVIOUS
<1> HIDE DEF u
<1>6. u.sym[s] # NoSym
  <2>1. u.sym[s].mod # 0
    BY <1>2
  <2> QED
    BY <2>1, KnownSym
<1>7. Bound(u, ms, m, s)
  BY <1>2, <1>3, <1>5, <1>6 DEF Bound
<1>8. Waiting(u, ms, m, s)
  BY <1>2, <1>5 DEF NameRead, Waiting
<1>9. OneSegment(u, ms, m, s)
  BY <1>2, <1>3, <1>4, <1>5 DEF OneSegment
<1>10. Ranked(u, ms, m, s)
  BY <1>1, <1>2, <1>3, <1>4 DEF Ranked, Kept, IsModule
<1>11. Largest(u, ms, m, s)
  BY <1>1, <1>2, <1>3, <1>4 DEF Largest
<1>12. Elsewhere(t, u, s)
  BY <1>2 DEF Elsewhere, SameNodes, Shape
<1>13. InOrder(u)
  BY <1>2 DEF InOrder
<1>14. EntriesFound(u)
  BY <1>2, <1>6, SameEntries
<1>15. ReadRight(t, u, ms, m, s)
  BY <1>2, <1>7, <1>8, <1>9, <1>10, <1>11, <1>12, <1>13, <1>14 DEF ReadRight, NameRead
<1> QED
  BY <1>15 DEF u

(* A name heard of before, whose segment agrees.                           *)
Agreed(t, ms, m, s) ==
    t.sym[s].seg = AnySeg \/ ms[m].decl[s].seg = AnySeg \/ ms[m].decl[s].seg = t.sym[s].seg
OldSeg(t, ms, m, s) == SettledSegment(t.sym[s], ms[m].decl[s])

(* The settled segment is that of all the modules that give one.           *)
LEMMA OldSegFacts ==
    ASSUME NEW ms, NEW m \in Nat \ {0}, NEW s \in Sym, NEW t \in Shape,
           OneSegment(t, ms, m - 1, s), IsModule(ms[m]), ms[m].decl[s].kind # "absent"
    PROVE  /\ OldSeg(t, ms, m, s) \in Nat
           /\ OldSeg(t, ms, m, s) # AnySeg =>
                 \E i \in 1 .. m : SegOf(ms, i, s) = OldSeg(t, ms, m, s)
           /\ \A i \in 1 .. m : SegOf(ms, i, s) # AnySeg =>
                 /\ OldSeg(t, ms, m, s) # AnySeg
                 /\ Agreed(t, ms, m, s) => t.errors \/ SegOf(ms, i, s) = OldSeg(t, ms, m, s)
<1> DEFINE seg == OldSeg(t, ms, m, s)
           d == ms[m].decl[s]
<1>1. seg = IF t.sym[s].seg = AnySeg THEN d.seg ELSE t.sym[s].seg
  BY DEF OldSeg, SettledSegment
<1>2. d \in Decl /\ d.seg \in Nat /\ t.sym[s].seg \in Nat
  BY DEF IsModule, Decl, Shape, SymRec
<1>3. SegOf(ms, m, s) = d.seg
  BY DEF SegOf
<1>4. m \in 1 .. m /\ 1 .. m - 1 \subseteq 1 .. m /\ \A i \in 1 .. m : i \in 1 .. m - 1 \/ i = m
  OBVIOUS
<1> HIDE DEF seg, d
<1>5. seg # AnySeg => \E i \in 1 .. m : SegOf(ms, i, s) = seg
  <2>1. CASE t.sym[s].seg = AnySeg
    BY <1>1, <1>3, <1>4, <2>1
  <2>2. CASE t.sym[s].seg # AnySeg
    BY <1>1, <1>4, <2>2 DEF OneSegment
  <2> QED
    BY <2>1, <2>2
<1>6. ASSUME NEW i \in 1 .. m, SegOf(ms, i, s) # AnySeg
      PROVE  seg # AnySeg /\ (Agreed(t, ms, m, s) => t.errors \/ SegOf(ms, i, s) = seg)
  <2>1. CASE i = m
    BY <1>1, <1>3, <1>6, <2>1 DEF Agreed, d
  <2>2. CASE i # m
    <3>1. i \in 1 .. m - 1
      BY <1>4, <2>2
    <3>2. t.sym[s].seg # AnySeg /\ (t.errors \/ SegOf(ms, i, s) = t.sym[s].seg)
      BY <1>6, <3>1 DEF OneSegment
    <3> QED
      BY <1>1, <3>2
  <2> QED
    BY <2>1, <2>2
<1> QED
  BY <1>1, <1>2, <1>5, <1>6 DEF seg

(* The parts of NameRead depend only on the entry of s and its nodes.      *)
LEMMA BoundSame ==
    ASSUME NEW ms, NEW m \in Nat \ {0}, NEW s, NEW t, NEW u,
           Bound(t, ms, m - 1, s), t.sym[s] # NoSym, u.sym[s] # NoSym,
           u.sym[s].mod = t.sym[s].mod, u.sym[s].value = t.sym[s].value,
           u.sym[s].exp = t.sym[s].exp
    PROVE  Bound(u, ms, m, s)
BY DEF Bound

(* And what waits depends on the nodes only.                               *)
LEMMA WaitingSame ==
    ASSUME NEW ms, NEW m \in Nat \ {0}, NEW s, NEW t, NEW u,
           Waiting(t, ms, m - 1, s), u.red = t.red
    PROVE  Waiting(u, ms, m, s)
BY DEF Waiting

(* Two segments.                                                           *)
LEMMA ReadTorn ==
    ASSUME NEW ms, NEW m \in Nat \ {0}, NEW s \in Sym, NEW t \in Shape,
           NameRead(t, ms, m - 1, s), InOrder(t), EntriesFound(t),
           IsModule(ms[m]), ms[m].decl[s].kind # "absent", t.sym[s] # NoSym,
           ~Agreed(t, ms, m, s)
    PROVE  ReadRight(t, [Settle(t, s, OldSeg(t, ms, m, s)) EXCEPT !.errors = TRUE], ms, m, s)
<1> DEFINE seg == OldSeg(t, ms, m, s)
           w == Settle(t, s, seg)
           u == [w EXCEPT !.errors = TRUE]
<1>1. OneSegment(t, ms, m - 1, s) /\ Bound(t, ms, m - 1, s) /\ Waiting(t, ms, m - 1, s)
  BY DEF NameRead
<1>2. /\ seg \in Nat
      /\ seg # AnySeg => \E i \in 1 .. m : SegOf(ms, i, s) = seg
      /\ \A i \in 1 .. m : SegOf(ms, i, s) # AnySeg => seg # AnySeg
  BY <1>1, OldSegFacts
<1>3. /\ w \in Shape
      /\ w.sym[s].mod = t.sym[s].mod /\ w.sym[s].value = t.sym[s].value /\ w.sym[s].seg = seg
      /\ w.sym[s].exp = t.sym[s].exp
      /\ \A x \in Sym \ {s} : w.sym[x] = t.sym[x]
      /\ w.red = t.red /\ w.redfirst = t.redfirst /\ w.entries = t.entries
  <2> HIDE DEF seg
  <2> QED
    BY <1>2, SettleFacts
<1> HIDE DEF w
<1>4. /\ u \in Shape /\ u.errors = TRUE
      /\ u.sym = w.sym /\ u.red = w.red /\ u.redfirst = w.redfirst /\ u.entries = w.entries
  BY <1>3, FailFacts
<1> HIDE DEF u, seg
<1>5. u.sym[s] # NoSym
  <2>1. u.sym[s].mod # 0
    BY <1>1, <1>3, <1>4 DEF Bound
  <2> QED
    BY <2>1, KnownSym
<1>6. Bound(u, ms, m, s) /\ Waiting(u, ms, m, s)
  BY <1>1, <1>3, <1>4, <1>5, BoundSame, WaitingSame
<1>7. OneSegment(u, ms, m, s)
  BY <1>2, <1>3, <1>4 DEF OneSegment
<1>8. Ranked(u, ms, m, s) /\ Largest(u, ms, m, s)
  BY <1>4 DEF Ranked, Largest
<1>9. Elsewhere(t, u, s)
  BY <1>3, <1>4, <1>5 DEF Elsewhere, SameNodes, Shape
<1>10. InOrder(u) /\ EntriesFound(u)
  <2>1. EntriesFound(u)
    BY <1>3, <1>4, <1>5, SameEntries
  <2> QED
    BY <1>3, <1>4, <2>1 DEF InOrder
<1>11. ClashIn(ms, m, s)
  <2>1. t.sym[s].seg # AnySeg /\ ms[m].decl[s].seg # AnySeg /\ ms[m].decl[s].seg # t.sym[s].seg
    BY DEF Agreed
  <2>2. PICK i \in 1 .. m - 1 : SegOf(ms, i, s) = t.sym[s].seg
    BY <1>1, <2>1 DEF OneSegment
  <2>3. SegOf(ms, m, s) = ms[m].decl[s].seg
    BY DEF SegOf
  <2>4. i \in 1 .. m /\ m \in 1 .. m
    OBVIOUS
  <2> QED
    BY <2>1, <2>2, <2>3, <2>4 DEF ClashIn
<1>12. ReadRight(t, u, ms, m, s)
  BY <1>4, <1>6, <1>7, <1>8, <1>9, <1>10, <1>11 DEF ReadRight, NameRead
<1> QED
  BY <1>12 DEF u, w, seg

(* A name heard of before that changes nothing but perhaps the segment: an *)
(* import of what is exported, or of a common area that is not larger.     *)
LEMMA ReadNothing ==
    ASSUME NEW ms, NEW m \in Nat \ {0}, NEW s \in Sym, NEW t \in Shape,
           NameRead(t, ms, m - 1, s), InOrder(t), EntriesFound(t),
           IsModule(ms[m]), ms[m].decl[s].kind = "import", t.sym[s] # NoSym,
           Agreed(t, ms, m, s), t.sym[s].exp \/ ms[m].decl[s].value <= t.sym[s].value
    PROVE  ReadRight(t, Settle(t, s, OldSeg(t, ms, m, s)), ms, m, s)
<1> DEFINE seg == OldSeg(t, ms, m, s)
           u == Settle(t, s, seg)
<1>1. OneSegment(t, ms, m - 1, s) /\ Bound(t, ms, m - 1, s) /\ Waiting(t, ms, m - 1, s)
  BY DEF NameRead
<1>2. /\ seg \in Nat
      /\ seg # AnySeg => \E i \in 1 .. m : SegOf(ms, i, s) = seg
      /\ \A i \in 1 .. m : SegOf(ms, i, s) # AnySeg =>
            seg # AnySeg /\ (t.errors \/ SegOf(ms, i, s) = seg)
  BY <1>1, OldSegFacts
<1> HIDE DEF seg
<1>3. /\ u \in Shape
      /\ u.sym[s].mod = t.sym[s].mod /\ u.sym[s].value = t.sym[s].value /\ u.sym[s].seg = seg
      /\ u.sym[s].exp = t.sym[s].exp
      /\ \A x \in Sym \ {s} : u.sym[x] = t.sym[x]
      /\ u.red = t.red /\ u.redfirst = t.redfirst /\ u.entries = t.entries /\ u.errors = t.errors
  BY <1>2, SettleFacts
<1> HIDE DEF u
<1>5. u.sym[s] # NoSym
  <2>1. u.sym[s].mod # 0
    BY <1>1, <1>3 DEF Bound
  <2> QED
    BY <2>1, KnownSym
<1>6. Bound(u, ms, m, s) /\ Waiting(u, ms, m, s)
  BY <1>1, <1>3, <1>5, BoundSame, WaitingSame
<1>7. OneSegment(u, ms, m, s)
  BY <1>2, <1>3 DEF OneSegment
<1>4. \A i \in 1 .. m : i \in 1 .. m - 1 \/ i = m
  OBVIOUS
<1>8. Ranked(u, ms, m, s)
  <2>1. ~Exports(ms, m, s)
    BY DEF Exports
  <2> QED
    BY <1>3, <1>4, <2>1 DEF NameRead, Ranked, Kept
<1>9. Largest(u, ms, m, s)
  <2> SUFFICES ASSUME ~u.errors, \A i \in 1 .. m : ~Exports(ms, i, s), NEW i \in 1 .. m,
                      Speaks(ms, i, s)
               PROVE  ms[i].decl[s].value <= u.sym[s].value
    BY DEF Largest
  <2>1. CASE i = m
    <3>1. ~t.sym[s].exp
      BY <1>1 DEF Bound
    <3> QED
      BY <1>3, <2>1, <3>1
  <2>2. CASE i # m
    BY <1>3, <1>4, <2>2 DEF NameRead, Largest
  <2> QED
    BY <2>1, <2>2
<1>10. Elsewhere(t, u, s)
  BY <1>3, <1>5 DEF Elsewhere, SameNodes, Shape
<1>11. InOrder(u) /\ EntriesFound(u)
  <2>1. EntriesFound(u)
    BY <1>3, <1>5, SameEntries
  <2> QED
    BY <1>3, <2>1 DEF InOrder
<1>12. ReadRight(t, u, ms, m, s)
  BY <1>3, <1>6, <1>7, <1>8, <1>9, <1>10, <1>11 DEF ReadRight, NameRead
<1> QED
  BY <1>12 DEF u, seg

(* A name that was only imported, now exported or with a larger area.      *)
LEMMA ReadMore ==
    ASSUME NEW ms, NEW m \in Nat \ {0}, \A i \in 1 .. m : IsModule(ms[i]),
           NEW s \in Sym, NEW t \in Shape,
           NameRead(t, ms, m - 1, s), InOrder(t), EntriesFound(t),
           ms[m].decl[s].kind # "absent", t.sym[s] # NoSym,
           Agreed(t, ms, m, s), ~t.sym[s].exp,
           ms[m].decl[s].kind = "export" \/ ms[m].decl[s].value > t.sym[s].value
    PROVE  LET seg == OldSeg(t, ms, m, s)
           IN  ReadRight(t, Define(Settle(t, s, seg), m, s, ms[m].decl[s], seg), ms, m, s)
<1> DEFINE seg == OldSeg(t, ms, m, s)
           d == ms[m].decl[s]
           w == Settle(t, s, seg)
           u == Define(w, m, s, d, seg)
<1>1. OneSegment(t, ms, m - 1, s) /\ Bound(t, ms, m - 1, s) /\ Waiting(t, ms, m - 1, s)
  BY DEF NameRead
<1>0. m \in Nat /\ IsModule(ms[m])
  OBVIOUS
<1>2. /\ seg \in Nat
      /\ seg # AnySeg => \E i \in 1 .. m : SegOf(ms, i, s) = seg
      /\ \A i \in 1 .. m : SegOf(ms, i, s) # AnySeg =>
            seg # AnySeg /\ (t.errors \/ SegOf(ms, i, s) = seg)
  BY <1>0, <1>1, OldSegFacts
<1>3. d \in Decl /\ d.value \in Nat /\ (Exports(ms, m, s) <=> d.kind = "export")
  BY <1>0 DEF IsModule, Decl, Exports
<1>4. Speaks(ms, m, s) /\ (d.kind = "export" \/ d.value > t.sym[s].value)
  BY DEF Speaks
<1> HIDE DEF seg, d
<1>5. /\ w \in Shape
      /\ \A x \in Sym \ {s} : w.sym[x] = t.sym[x]
      /\ w.red = t.red /\ w.redfirst = t.redfirst /\ w.entries = t.entries /\ w.errors = t.errors
  BY <1>2, SettleFacts
<1> HIDE DEF w
<1>6. /\ u \in Shape
      /\ u.sym[s].mod = m /\ u.sym[s].value = d.value /\ u.sym[s].seg = seg
      /\ u.sym[s].exp <=> d.kind = "export"
      /\ \A x \in Sym \ {s} : u.sym[x] = w.sym[x]
      /\ u.red = w.red /\ u.redfirst = w.redfirst /\ u.errors = w.errors
      /\ \A i \in 1 .. Len(u.entries) :
            u.entries[i] = s \/ \E j \in 1 .. Len(w.entries) : u.entries[i] = w.entries[j]
  BY <1>0, <1>2, <1>3, <1>5, DefineFacts, SMTT(30)
<1> HIDE DEF u
<1>7. u.sym[s] # NoSym
  <2>1. u.sym[s].mod # 0
    BY <1>6
  <2> QED
    BY <2>1, KnownSym
<1>8. m \in 1 .. m /\ \A i \in 1 .. m : i \in 1 .. m - 1 \/ i = m
  OBVIOUS
<1>9. Bound(u, ms, m, s)
  BY <1>3, <1>4, <1>6, <1>7, <1>8 DEF Bound, d
<1>10. Waiting(u, ms, m, s)
  BY <1>1, <1>5, <1>6, WaitingSame
<1>11. OneSegment(u, ms, m, s)
  BY <1>2, <1>5, <1>6 DEF OneSegment
<1>12. ~u.errors => \A i \in 1 .. m - 1 : ~Exports(ms, i, s)
  BY <1>5, <1>6 DEF NameRead, Ranked
<1>13. Ranked(u, ms, m, s)
  <2> SUFFICES ASSUME ~u.errors, NEW i \in 1 .. m, Exports(ms, i, s)
               PROVE  /\ u.sym[s].exp /\ ms[u.sym[s].mod].class <= ms[i].class /\ Kept(u, i, s)
                      /\ \A k \in 1 .. m : Exports(ms, k, s) /\ k # i => ms[k].class # ms[i].class
    BY DEF Ranked
  <2>1. i = m /\ \A k \in 1 .. m : Exports(ms, k, s) => k = m
    BY <1>8, <1>12
  <2>2. ms[m].class \in Nat
    BY <1>0 DEF IsModule
  <2> QED
    BY <1>3, <1>6, <2>1, <2>2 DEF Kept
<1>14. Largest(u, ms, m, s)
  <2> SUFFICES ASSUME ~u.errors, \A i \in 1 .. m : ~Exports(ms, i, s), NEW i \in 1 .. m,
                      Speaks(ms, i, s)
               PROVE  ms[i].decl[s].value <= u.sym[s].value
    BY DEF Largest
  <2>1. CASE i = m
    BY <1>3, <1>6, <2>1 DEF d
  <2>2. CASE i # m
    <3>1. i \in 1 .. m - 1 /\ 1 .. m - 1 \subseteq 1 .. m
      BY <1>8, <2>2
    <3>2. ms[i].decl[s].value <= t.sym[s].value
      BY <1>5, <1>6, <3>1 DEF NameRead, Largest
    <3>3. d.value > t.sym[s].value
      BY <1>3, <1>4, <1>8
    <3>4. ms[i].decl[s].value \in Nat /\ t.sym[s].value \in Nat
      BY DEF IsModule, Decl, Shape, SymRec
    <3> QED
      BY <1>3, <1>6, <3>2, <3>3, <3>4
  <2> QED
    BY <2>1, <2>2
<1>15. Elsewhere(t, u, s)
  BY <1>5, <1>6, <1>7 DEF Elsewhere, SameNodes, Shape
<1>16. InOrder(u) /\ EntriesFound(u)
  <2>1. EntriesFound(u)
    BY <1>5, <1>6, <1>7, SameEntries
  <2> QED
    BY <1>5, <1>6, <2>1 DEF InOrder
<1>17. ReadRight(t, u, ms, m, s)
  BY <1>5, <1>6, <1>9, <1>10, <1>11, <1>13, <1>14, <1>15, <1>16 DEF ReadRight, NameRead
<1> QED
  BY <1>17 DEF u, w, seg, d

(* A second export.                                                        *)
Again(t, ms, m, s) ==
    /\ NameRead(t, ms, m - 1, s) /\ InOrder(t) /\ EntriesFound(t)
    /\ ms[m].decl[s].kind = "export" /\ t.sym[s] # NoSym
    /\ Agreed(t, ms, m, s) /\ t.sym[s].exp

Taken(t, ms, m, s) ==
    ms[t.sym[s].mod].class = ms[m].class \/ OnRedlist(t, ms, s, ms[m].class)

AfterAgain(t, w, seg, ms, m, s) ==
    /\ seg \in Nat
    /\ seg # AnySeg => \E i \in 1 .. m : SegOf(ms, i, s) = seg
    /\ \A i \in 1 .. m : SegOf(ms, i, s) # AnySeg =>
          seg # AnySeg /\ (t.errors \/ SegOf(ms, i, s) = seg)
    /\ w \in Shape
    /\ w.sym[s].mod = t.sym[s].mod /\ w.sym[s].value = t.sym[s].value
    /\ w.sym[s].seg = seg /\ w.sym[s].exp = t.sym[s].exp
    /\ \A x \in Sym \ {s} : w.sym[x] = t.sym[x]
    /\ w.red = t.red /\ w.redfirst = t.redfirst /\ w.entries = t.entries
    /\ w.errors = t.errors
    /\ t.sym[s].mod \in 1 .. m - 1 /\ Exports(ms, t.sym[s].mod, s)
    /\ t.sym[s].value = ms[t.sym[s].mod].decl[s].value
    /\ Exports(ms, m, s) /\ m \in 1 .. m
    /\ \A i \in 1 .. m : i \in 1 .. m - 1 \/ i = m

(* The table with the segment settled, of which redsym starts.             *)
LEMMA AgainSettled ==
    ASSUME NEW ms, NEW m \in Nat \ {0}, \A i \in 1 .. m : IsModule(ms[i]),
           NEW s \in Sym, NEW t \in Shape, Again(t, ms, m, s)
    PROVE  AfterAgain(t, Settle(t, s, OldSeg(t, ms, m, s)), OldSeg(t, ms, m, s), ms, m, s)
<1> DEFINE seg == OldSeg(t, ms, m, s)
           w == Settle(t, s, seg)
<1>0. m \in Nat /\ IsModule(ms[m]) /\ ms[m].decl[s].kind # "absent" /\ m \in 1 .. m
  BY DEF Again
<1>1. /\ seg \in Nat
      /\ seg # AnySeg => \E i \in 1 .. m : SegOf(ms, i, s) = seg
      /\ \A i \in 1 .. m : SegOf(ms, i, s) # AnySeg =>
            seg # AnySeg /\ (t.errors \/ SegOf(ms, i, s) = seg)
  BY <1>0, OldSegFacts DEF Again, NameRead
<1>2. /\ t.sym[s].mod \in 1 .. m - 1 /\ Exports(ms, t.sym[s].mod, s)
      /\ t.sym[s].value = ms[t.sym[s].mod].decl[s].value
      /\ Exports(ms, m, s)
  BY DEF Again, NameRead, Bound, Exports
<1>3. \A i \in 1 .. m : i \in 1 .. m - 1 \/ i = m
  OBVIOUS
<1> HIDE DEF seg
<1>4. /\ w \in Shape
      /\ w.sym[s].mod = t.sym[s].mod /\ w.sym[s].value = t.sym[s].value
      /\ w.sym[s].seg = seg /\ w.sym[s].exp = t.sym[s].exp
      /\ \A x \in Sym \ {s} : w.sym[x] = t.sym[x]
      /\ w.red = t.red /\ w.redfirst = t.redfirst /\ w.entries = t.entries
      /\ w.errors = t.errors
  BY <1>1, SettleFacts
<1> HIDE DEF w
<1>5. AfterAgain(t, w, seg, ms, m, s)
  BY <1>0, <1>1, <1>2, <1>3, <1>4 DEF AfterAgain
<1> QED
  BY <1>5 DEF w, seg

(* The class is taken.                                                     *)
LEMMA ReadTaken ==
    ASSUME NEW ms, NEW m \in Nat \ {0}, \A i \in 1 .. m : IsModule(ms[i]),
           NEW s \in Sym, NEW t \in Shape, Again(t, ms, m, s), Taken(t, ms, m, s)
    PROVE  ReadRight(t, [Settle(t, s, OldSeg(t, ms, m, s)) EXCEPT !.errors = TRUE], ms, m, s)
<1> DEFINE seg == OldSeg(t, ms, m, s)
           w == Settle(t, s, seg)
           u == [w EXCEPT !.errors = TRUE]
<1>1. /\ seg # AnySeg => \E i \in 1 .. m : SegOf(ms, i, s) = seg
      /\ \A i \in 1 .. m : SegOf(ms, i, s) # AnySeg => seg # AnySeg
      /\ w \in Shape
      /\ w.sym[s].mod = t.sym[s].mod /\ w.sym[s].value = t.sym[s].value
      /\ w.sym[s].seg = seg /\ w.sym[s].exp = t.sym[s].exp
      /\ \A x \in Sym \ {s} : w.sym[x] = t.sym[x]
      /\ w.red = t.red /\ w.redfirst = t.redfirst /\ w.entries = t.entries
      /\ t.sym[s].mod \in 1 .. m - 1 /\ Exports(ms, t.sym[s].mod, s)
      /\ Exports(ms, m, s) /\ m \in 1 .. m
  <2>1. AfterAgain(t, w, seg, ms, m, s)
    BY AgainSettled
  <2> HIDE DEF w, seg
  <2> QED
    BY <2>1 DEF AfterAgain
<1> HIDE DEF w, seg
<1>2. /\ u \in Shape /\ u.errors = TRUE
      /\ u.sym = w.sym /\ u.red = w.red /\ u.redfirst = w.redfirst /\ u.entries = w.entries
  BY <1>1, FailFacts
<1> HIDE DEF u
<1>3. u.sym[s] # NoSym
  <2>1. u.sym[s].mod # 0
    BY <1>1, <1>2
  <2> QED
    BY <2>1, KnownSym
<1>4. Bound(u, ms, m, s) /\ Waiting(u, ms, m, s)
  <2>1. /\ Bound(t, ms, m - 1, s) /\ Waiting(t, ms, m - 1, s) /\ t.sym[s] # NoSym
    BY DEF Again, NameRead
  <2> QED
    BY <1>1, <1>2, <1>3, <2>1, BoundSame, WaitingSame
<1>5. OneSegment(u, ms, m, s)
  BY <1>1, <1>2 DEF OneSegment
<1>6. Ranked(u, ms, m, s) /\ Largest(u, ms, m, s)
  BY <1>2 DEF Ranked, Largest
<1>7. Elsewhere(t, u, s)
  BY <1>1, <1>2, <1>3 DEF Elsewhere, SameNodes, Shape
<1>8. InOrder(u) /\ EntriesFound(u)
  <2>1. EntriesFound(u)
    BY <1>1, <1>2, <1>3, SameEntries DEF Again
  <2> QED
    BY <1>1, <1>2, <2>1 DEF Again, InOrder
<1>9. ClashIn(ms, m, s)
  <2>1. CASE ms[t.sym[s].mod].class = ms[m].class
    <3>1. t.sym[s].mod \in 1 .. m /\ t.sym[s].mod # m
      BY <1>1
    <3> QED
      BY <1>1, <2>1, <3>1 DEF ClashIn
  <2>2. CASE OnRedlist(t, ms, s, ms[m].class)
    <3>1. PICK j \in 1 .. Len(t.red) : t.red[j].sym = s /\ ms[t.red[j].mod].class = ms[m].class
      BY <2>2 DEF OnRedlist
    <3>2. t.red[j].mod \in 1 .. m - 1 /\ Exports(ms, t.red[j].mod, s)
      BY <3>1 DEF Again, NameRead, Waiting
    <3>3. t.red[j].mod \in 1 .. m /\ t.red[j].mod # m
      BY <3>2
    <3> QED
      BY <1>1, <3>1, <3>2, <3>3 DEF ClashIn
  <2> QED
    BY <2>1, <2>2 DEF Taken
<1>10. ReadRight(t, u, ms, m, s)
  BY <1>2, <1>4, <1>5, <1>6, <1>7, <1>8, <1>9 DEF ReadRight, NameRead
<1> QED
  BY <1>10 DEF u, w, seg

(* The classes of a name's exporters are different from that of a module   *)
(* whose class is not taken.                                               *)
LEMMA NotTaken ==
    ASSUME NEW ms, NEW m \in Nat \ {0}, NEW s \in Sym, NEW t \in Shape,
           Again(t, ms, m, s), ~Taken(t, ms, m, s), ~t.errors,
           NEW i \in 1 .. m - 1, Exports(ms, i, s)
    PROVE  /\ ms[i].class # ms[m].class /\ Kept(t, i, s)
           /\ ms[t.sym[s].mod].class <= ms[i].class
<1>1. Kept(t, i, s) /\ ms[t.sym[s].mod].class <= ms[i].class
  BY DEF Again, NameRead, Ranked
<1> QED
  BY <1>1 DEF Kept, Taken, OnRedlist

(* What both ways to keep the loser have in common: one is bound, the      *)
(* other in a new node.                                                    *)
LEMMA ReadPut ==
    ASSUME NEW ms, NEW m \in Nat \ {0}, \A i \in 1 .. m : IsModule(ms[i]),
           NEW s \in Sym, NEW t \in Shape, Again(t, ms, m, s), ~Taken(t, ms, m, s),
           NEW winner \in {t.sym[s].mod, m}, NEW loser \in {t.sym[s].mod, m},
           winner # loser, ms[winner].class < ms[loser].class,
           NEW u \in Shape,
           u.sym[s].mod = winner, u.sym[s].value = ms[winner].decl[s].value,
           u.sym[s].seg = OldSeg(t, ms, m, s), u.sym[s].exp,
           \A x \in Sym \ {s} : u.sym[x] = t.sym[x],
           u.entries = t.entries, u.errors = t.errors,
           Len(u.red) = Len(t.red) + 1,
           u.red[Len(t.red) + 1].sym = s, u.red[Len(t.red) + 1].mod = loser,
           u.red[Len(t.red) + 1].value = ms[loser].decl[s].value,
           \A j \in 1 .. Len(t.red) : /\ u.red[j].sym = t.red[j].sym
                                      /\ u.red[j].mod = t.red[j].mod
                                      /\ u.red[j].value = t.red[j].value,
           InOrder(u)
    PROVE  ReadRight(t, u, ms, m, s)
<1> DEFINE seg == OldSeg(t, ms, m, s)
<1>1. /\ seg # AnySeg => \E i \in 1 .. m : SegOf(ms, i, s) = seg
      /\ \A i \in 1 .. m : SegOf(ms, i, s) # AnySeg =>
            seg # AnySeg /\ (t.errors \/ SegOf(ms, i, s) = seg)
      /\ t.sym[s].mod \in 1 .. m - 1 /\ Exports(ms, t.sym[s].mod, s)
      /\ Exports(ms, m, s) /\ m \in 1 .. m
      /\ \A i \in 1 .. m : i \in 1 .. m - 1 \/ i = m
  <2>1. AfterAgain(t, Settle(t, s, seg), seg, ms, m, s)
    BY AgainSettled
  <2> HIDE DEF seg
  <2> QED
    BY <2>1 DEF AfterAgain
<1> HIDE DEF seg
<1>2. Len(t.red) \in Nat
  BY DEF Shape
<1>3. winner \in 1 .. m /\ loser \in 1 .. m /\ Exports(ms, winner, s) /\ Exports(ms, loser, s)
  BY <1>1
<1>4. u.sym[s] # NoSym
  <2>1. u.sym[s].mod # 0
    BY <1>3
  <2> QED
    BY <2>1, KnownSym
<1>5. Bound(u, ms, m, s)
  BY <1>3, <1>4 DEF Bound, Exports, Speaks
<1>6. Waiting(u, ms, m, s)
  <2> SUFFICES ASSUME NEW j \in 1 .. Len(u.red), u.red[j].sym = s
               PROVE  /\ u.red[j].mod \in 1 .. m /\ Exports(ms, u.red[j].mod, s)
                      /\ u.red[j].value = ms[u.red[j].mod].decl[s].value
    BY DEF Waiting
  <2>1. CASE j = Len(t.red) + 1
    BY <1>3, <2>1
  <2>2. CASE j # Len(t.red) + 1
    <3>1. j \in 1 .. Len(t.red)
      BY <1>2, <2>2
    <3>2. /\ t.red[j].mod \in 1 .. m - 1 /\ Exports(ms, t.red[j].mod, s)
          /\ t.red[j].value = ms[t.red[j].mod].decl[s].value
      BY <3>1 DEF Again, NameRead, Waiting
    <3>3. 1 .. m - 1 \subseteq 1 .. m
      OBVIOUS
    <3> QED
      BY <3>1, <3>2, <3>3
  <2> QED
    BY <2>1, <2>2
<1>7. OneSegment(u, ms, m, s)
  BY <1>1 DEF OneSegment, seg
<1>8. Ranked(u, ms, m, s)
  <2> SUFFICES ASSUME ~u.errors, NEW i \in 1 .. m, Exports(ms, i, s)
               PROVE  /\ u.sym[s].exp /\ ms[u.sym[s].mod].class <= ms[i].class /\ Kept(u, i, s)
                      /\ \A k \in 1 .. m : Exports(ms, k, s) /\ k # i => ms[k].class # ms[i].class
    BY DEF Ranked
  <2>1. \A k \in 1 .. m : ms[k].class \in Nat
    BY DEF IsModule
  <2>2. ms[winner].class <= ms[t.sym[s].mod].class /\ ms[winner].class <= ms[m].class
    BY <1>3, <2>1
  <2>3. ms[u.sym[s].mod].class <= ms[i].class
    <3>1. CASE i = m
      BY <2>2, <3>1
    <3>2. CASE i # m
      <4>1. i \in 1 .. m - 1 /\ ms[t.sym[s].mod].class <= ms[i].class
        BY <1>1, <3>2, NotTaken
      <4> QED
        BY <1>1, <1>3, <2>1, <2>2, <4>1, SMTT(30)
    <3> QED
      BY <3>1, <3>2
  <2>4. Kept(u, i, s)
    <3>1. CASE i \in {winner, loser}
      <4>1. Len(t.red) + 1 \in 1 .. Len(u.red)
        BY <1>2
      <4> QED
        BY <3>1, <4>1 DEF Kept
    <3>2. CASE i \notin {winner, loser}
      <4>1. i \in 1 .. m - 1 /\ i # t.sym[s].mod
        BY <1>1, <3>2
      <4>2. PICK j \in 1 .. Len(t.red) : t.red[j].sym = s /\ t.red[j].mod = i
        BY <4>1, NotTaken DEF Kept
      <4>3. j \in 1 .. Len(u.red)
        BY <1>2
      <4> QED
        BY <4>2, <4>3 DEF Kept
    <3> QED
      BY <3>1, <3>2
  <2>5. ASSUME NEW k \in 1 .. m, Exports(ms, k, s), k # i
        PROVE  ms[k].class # ms[i].class
    <3>1. CASE k = m
      <4>1. i \in 1 .. m - 1
        BY <1>1, <2>5, <3>1
      <4> QED
        BY <3>1, <4>1, NotTaken
    <3>2. CASE i = m
      <4>1. k \in 1 .. m - 1
        BY <1>1, <2>5, <3>2
      <4> QED
        BY <2>5, <3>2, <4>1, NotTaken
    <3>3. CASE k # m /\ i # m
      <4>1. k \in 1 .. m - 1 /\ i \in 1 .. m - 1
        BY <1>1, <3>3
      <4> QED
        BY <2>5, <4>1 DEF Again, NameRead, Ranked
    <3> QED
      BY <3>1, <3>2, <3>3
  <2> QED
    BY <2>3, <2>4, <2>5
<1>9. Largest(u, ms, m, s)
  BY <1>1 DEF Largest
<1>10. Elsewhere(t, u, s)
  <2>1. SameNodes(t, u, s)
    BY <1>2 DEF SameNodes
  <2> QED
    BY <1>4, <2>1 DEF Elsewhere
<1>11. EntriesFound(u)
  <2>1. \A i \in 1 .. Len(u.entries) :
           u.entries[i] = s \/ \E j \in 1 .. Len(t.entries) : u.entries[i] = t.entries[j]
    OBVIOUS
  <2>2. EntriesFound(t)
    BY DEF Again
  <2> QED
    BY <1>4, <2>1, <2>2, SameEntries
<1> QED
  BY <1>5, <1>6, <1>7, <1>8, <1>9, <1>10, <1>11 DEF ReadRight, NameRead

(* The new module is of a lower class, and takes the name over.            *)
LEMMA ReadLower ==
    ASSUME NEW ms, NEW m \in Nat \ {0}, \A i \in 1 .. m : IsModule(ms[i]),
           NEW s \in Sym, NEW t \in Shape, Again(t, ms, m, s), ~Taken(t, ms, m, s),
           ms[m].class < ms[t.sym[s].mod].class
    PROVE  LET w == Settle(t, s, OldSeg(t, ms, m, s))
               v == TakeOver(w, s, m, ms[m].decl[s].value)
           IN  ReadRight(t, AddRed(v, [sym |-> s, mod |-> t.sym[s].mod, value |-> t.sym[s].value,
                                       next |-> Nul]), ms, m, s)
<1> DEFINE w == Settle(t, s, OldSeg(t, ms, m, s))
           value == ms[m].decl[s].value
           v == TakeOver(w, s, m, value)
           node == [sym |-> s, mod |-> t.sym[s].mod, value |-> t.sym[s].value, next |-> Nul]
           u == AddRed(v, node)
<1>1. /\ w \in Shape
      /\ w.sym[s].seg = OldSeg(t, ms, m, s) /\ w.sym[s].exp = t.sym[s].exp
      /\ \A x \in Sym \ {s} : w.sym[x] = t.sym[x]
      /\ w.red = t.red /\ w.redfirst = t.redfirst /\ w.entries = t.entries
      /\ w.errors = t.errors
      /\ t.sym[s].mod \in 1 .. m - 1
      /\ t.sym[s].value = ms[t.sym[s].mod].decl[s].value
  <2>1. AfterAgain(t, w, OldSeg(t, ms, m, s), ms, m, s)
    BY AgainSettled
  <2> HIDE DEF w
  <2> QED
    BY <2>1 DEF AfterAgain
<1>2. m \in Nat /\ value \in Nat /\ t.sym[s].exp /\ InOrder(t)
  BY DEF IsModule, Decl, Again
<1> HIDE DEF w, value
<1>3. /\ v \in Shape
      /\ v.sym[s].mod = m /\ v.sym[s].value = value /\ v.sym[s].seg = w.sym[s].seg
      /\ v.sym[s].exp = w.sym[s].exp
      /\ \A x \in Sym \ {s} : v.sym[x] = w.sym[x]
      /\ v.red = w.red /\ v.redfirst = w.redfirst /\ v.errors = w.errors
      /\ v.entries = w.entries
  BY <1>1, <1>2, TakeOverFacts
<1> HIDE DEF v
<1>4. /\ node \in Node /\ node.next = Nul /\ node.sym = s /\ node.mod = t.sym[s].mod
      /\ node.value = t.sym[s].value
  BY DEF Node, Nul, Shape, SymRec
<1>5. InOrder(v)
  BY <1>1, <1>2, <1>3 DEF InOrder
<1> HIDE DEF node
<1>6. /\ u \in Shape
      /\ u.sym = v.sym /\ u.entries = v.entries /\ u.errors = v.errors
      /\ Len(u.red) = Len(v.red) + 1 /\ u.red[Len(v.red) + 1] = node
      /\ \A j \in 1 .. Len(v.red) : /\ u.red[j].sym = v.red[j].sym
                                    /\ u.red[j].mod = v.red[j].mod
                                    /\ u.red[j].value = v.red[j].value
      /\ InOrder(u)
  BY <1>3, <1>4, <1>5, AddRedFacts
<1> HIDE DEF u
<1>7. t.sym[s].mod # m
  BY <1>1
<1>8. /\ u.sym[s].mod = m /\ u.sym[s].value = ms[m].decl[s].value
      /\ u.sym[s].seg = OldSeg(t, ms, m, s) /\ u.sym[s].exp
      /\ \A x \in Sym \ {s} : u.sym[x] = t.sym[x]
      /\ u.entries = t.entries /\ u.errors = t.errors
  BY <1>1, <1>2, <1>3, <1>6 DEF value
<1>9. /\ Len(u.red) = Len(t.red) + 1
      /\ u.red[Len(t.red) + 1].sym = s /\ u.red[Len(t.red) + 1].mod = t.sym[s].mod
      /\ u.red[Len(t.red) + 1].value = ms[t.sym[s].mod].decl[s].value
      /\ \A j \in 1 .. Len(t.red) : /\ u.red[j].sym = t.red[j].sym
                                    /\ u.red[j].mod = t.red[j].mod
                                    /\ u.red[j].value = t.red[j].value
  <2>1. v.red = t.red
    BY <1>1, <1>3
  <2>2. u.red[Len(t.red) + 1] = node /\ Len(u.red) = Len(t.red) + 1
    BY <1>6, <2>1
  <2>3. \A j \in 1 .. Len(t.red) : /\ u.red[j].sym = t.red[j].sym
                                   /\ u.red[j].mod = t.red[j].mod
                                   /\ u.red[j].value = t.red[j].value
    BY <1>6, <2>1
  <2> QED
    BY <1>1, <1>4, <2>2, <2>3
<1>10. ReadRight(t, u, ms, m, s)
  BY <1>6, <1>7, <1>8, <1>9, ReadPut
<1> QED
  BY <1>10 DEF u, v, w, node, value

(* It is of a higher class, and waits.                                     *)
LEMMA ReadHigher ==
    ASSUME NEW ms, NEW m \in Nat \ {0}, \A i \in 1 .. m : IsModule(ms[i]),
           NEW s \in Sym, NEW t \in Shape, Again(t, ms, m, s), ~Taken(t, ms, m, s),
           ms[t.sym[s].mod].class < ms[m].class
    PROVE  ReadRight(t, AddRed(Settle(t, s, OldSeg(t, ms, m, s)),
                               [sym |-> s, mod |-> m, value |-> ms[m].decl[s].value, next |-> Nul]),
                     ms, m, s)
<1> DEFINE w == Settle(t, s, OldSeg(t, ms, m, s))
           node == [sym |-> s, mod |-> m, value |-> ms[m].decl[s].value, next |-> Nul]
           u == AddRed(w, node)
<1>1. /\ w \in Shape
      /\ w.sym[s].mod = t.sym[s].mod /\ w.sym[s].value = t.sym[s].value
      /\ w.sym[s].seg = OldSeg(t, ms, m, s) /\ w.sym[s].exp = t.sym[s].exp
      /\ \A x \in Sym \ {s} : w.sym[x] = t.sym[x]
      /\ w.red = t.red /\ w.redfirst = t.redfirst /\ w.entries = t.entries
      /\ w.errors = t.errors
      /\ t.sym[s].mod \in 1 .. m - 1
      /\ t.sym[s].value = ms[t.sym[s].mod].decl[s].value
  <2>1. AfterAgain(t, w, OldSeg(t, ms, m, s), ms, m, s)
    BY AgainSettled
  <2> HIDE DEF w
  <2> QED
    BY <2>1 DEF AfterAgain
<1>2. m \in Nat /\ ms[m].decl[s].value \in Nat /\ t.sym[s].exp /\ InOrder(t)
  BY DEF IsModule, Decl, Again
<1> HIDE DEF w
<1>3. /\ node \in Node /\ node.next = Nul /\ node.sym = s /\ node.mod = m
      /\ node.value = ms[m].decl[s].value
  BY <1>2 DEF Node, Nul
<1>4. InOrder(w)
  BY <1>1, <1>2 DEF InOrder
<1> HIDE DEF node
<1>5. /\ u \in Shape
      /\ u.sym = w.sym /\ u.entries = w.entries /\ u.errors = w.errors
      /\ Len(u.red) = Len(w.red) + 1 /\ u.red[Len(w.red) + 1] = node
      /\ \A j \in 1 .. Len(w.red) : /\ u.red[j].sym = w.red[j].sym
                                    /\ u.red[j].mod = w.red[j].mod
                                    /\ u.red[j].value = w.red[j].value
      /\ InOrder(u)
  BY <1>1, <1>3, <1>4, AddRedFacts
<1> HIDE DEF u
<1>6. t.sym[s].mod # m
  BY <1>1
<1>7. /\ u.sym[s].mod = t.sym[s].mod /\ u.sym[s].value = ms[t.sym[s].mod].decl[s].value
      /\ u.sym[s].seg = OldSeg(t, ms, m, s) /\ u.sym[s].exp
      /\ \A x \in Sym \ {s} : u.sym[x] = t.sym[x]
      /\ u.entries = t.entries /\ u.errors = t.errors
  BY <1>1, <1>2, <1>5
<1>8. /\ Len(u.red) = Len(t.red) + 1
      /\ u.red[Len(t.red) + 1].sym = s /\ u.red[Len(t.red) + 1].mod = m
      /\ u.red[Len(t.red) + 1].value = ms[m].decl[s].value
      /\ \A j \in 1 .. Len(t.red) : /\ u.red[j].sym = t.red[j].sym
                                    /\ u.red[j].mod = t.red[j].mod
                                    /\ u.red[j].value = t.red[j].value
  <2>1. w.red = t.red
    BY <1>1
  <2>2. u.red[Len(t.red) + 1] = node /\ Len(u.red) = Len(t.red) + 1
    BY <1>5, <2>1
  <2>3. \A j \in 1 .. Len(t.red) : /\ u.red[j].sym = t.red[j].sym
                                   /\ u.red[j].mod = t.red[j].mod
                                   /\ u.red[j].value = t.red[j].value
    BY <1>5, <2>1
  <2> QED
    BY <1>3, <2>2, <2>3
<1>9. ReadRight(t, u, ms, m, s)
  BY <1>5, <1>6, <1>7, <1>8, ReadPut
<1> QED
  BY <1>9 DEF u, w, node

(* One name of a module.                                                   *)
LEMMA ReadSymRight ==
    ASSUME NEW ms, NEW m \in Nat \ {0}, \A i \in 1 .. m : IsModule(ms[i]),
           NEW s \in Sym, NEW t \in Shape,
           NameRead(t, ms, m - 1, s), InOrder(t), EntriesFound(t)
    PROVE  ReadRight(t, ReadSym(t, ms, m, s), ms, m, s)
<1> DEFINE d == ms[m].decl[s]
           old == t.sym[s]
           oldseg == OldSeg(t, ms, m, s)
           seg == IF old.seg # AnySeg /\ d.seg = AnySeg THEN old.seg ELSE d.seg
           w == Settle(t, s, oldseg)
           u == ReadSym(t, ms, m, s)
<1>0. m \in 1 .. m /\ IsModule(ms[m])
  OBVIOUS
<1>1. u = IF d.kind = "absent" THEN t
          ELSE IF old = NoSym THEN Define(t, m, s, d, d.seg)
          ELSE IF seg # oldseg THEN [w EXCEPT !.errors = TRUE]
          ELSE IF old.exp THEN IF d.kind = "export" THEN redsym(w, ms, m, s, d.value) ELSE w
          ELSE IF AddsNothing(old, d) THEN w
          ELSE Define(w, m, s, d, seg)
  BY DEF ReadSym, OldSeg, Settle
<1>2. seg # oldseg <=> ~Agreed(t, ms, m, s)
  BY DEF OldSeg, SettledSegment, Agreed
<1>3. d.kind \in {"absent", "import", "export"} /\ d.value \in Nat /\ old.value \in Nat
  BY <1>0 DEF IsModule, Decl, Shape, SymRec
<1>4. CASE d.kind = "absent"
  BY <1>1, <1>4, ReadAbsent
<1>5. CASE d.kind # "absent" /\ old = NoSym
  BY <1>0, <1>1, <1>5, ReadFirst
<1>6. CASE d.kind # "absent" /\ old # NoSym /\ ~Agreed(t, ms, m, s)
  BY <1>0, <1>1, <1>2, <1>6, ReadTorn
<1>7. CASE /\ old # NoSym /\ Agreed(t, ms, m, s)
           /\ d.kind = "import" /\ (old.exp \/ d.value <= old.value)
  <2>1. u = w
    BY <1>1, <1>2, <1>7 DEF AddsNothing
  <2> QED
    BY <1>0, <1>7, <2>1, ReadNothing
<1>8. CASE /\ d.kind # "absent" /\ old # NoSym /\ Agreed(t, ms, m, s) /\ ~old.exp
           /\ d.kind = "export" \/ d.value > old.value
  <2>1. u = Define(w, m, s, d, oldseg)
    BY <1>1, <1>2, <1>3, <1>8 DEF AddsNothing
  <2> QED
    BY <1>8, <2>1, ReadMore
<1>9. CASE Again(t, ms, m, s)
  <2> DEFINE node(mod, v) == [sym |-> s, mod |-> mod, value |-> v, next |-> Nul]
  <2>1. u = redsym(w, ms, m, s, d.value)
    BY <1>1, <1>2, <1>9 DEF Again
  <2>2. w.sym[s].mod = old.mod /\ w.sym[s].value = old.value /\ w.red = t.red /\ old.mod \in 1 .. m
    <3>1. AfterAgain(t, w, oldseg, ms, m, s)
      BY <1>9, AgainSettled
    <3> HIDE DEF w, oldseg
    <3> QED
      BY <3>1 DEF AfterAgain
  <2>3. OnRedlist(w, ms, s, ms[m].class) = OnRedlist(t, ms, s, ms[m].class)
    BY <2>2 DEF OnRedlist
  <2> HIDE DEF w, u
  <2>4. u = IF ms[old.mod].class = ms[m].class \/ OnRedlist(t, ms, s, ms[m].class)
            THEN [w EXCEPT !.errors = TRUE]
            ELSE IF ms[old.mod].class < ms[m].class THEN AddRed(w, node(m, d.value))
            ELSE AddRed(TakeOver(w, s, m, d.value), node(old.mod, old.value))
    BY <2>1, <2>2, <2>3 DEF redsym, TakeOver
  <2>5. old.mod \in 1 .. m
    BY <2>2
  <2>6. ms[old.mod].class \in Nat /\ ms[m].class \in Nat
    BY <1>0, <2>5 DEF IsModule
  <2>7. CASE Taken(t, ms, m, s)
    BY <1>9, <2>4, <2>7, ReadTaken DEF Taken, w, u
  <2>8. CASE ~Taken(t, ms, m, s) /\ ms[old.mod].class < ms[m].class
    BY <1>9, <2>4, <2>8, ReadHigher DEF Taken, w, u
  <2>9. CASE ~Taken(t, ms, m, s) /\ ms[m].class < ms[old.mod].class
    BY <1>9, <2>4, <2>6, <2>9, ReadLower DEF Taken, w, u
  <2> QED
    BY <2>6, <2>7, <2>8, <2>9 DEF Taken
<1>10. \/ d.kind = "absent"
       \/ d.kind # "absent" /\ old = NoSym
       \/ d.kind # "absent" /\ old # NoSym /\ ~Agreed(t, ms, m, s)
       \/ /\ old # NoSym /\ Agreed(t, ms, m, s)
          /\ d.kind = "import" /\ (old.exp \/ d.value <= old.value)
       \/ /\ d.kind # "absent" /\ old # NoSym /\ Agreed(t, ms, m, s) /\ ~old.exp
          /\ d.kind = "export" \/ d.value > old.value
       \/ Again(t, ms, m, s)
  BY <1>3 DEF Again
<1> QED
  BY <1>4, <1>5, <1>6, <1>7, <1>8, <1>9, <1>10


-----------------------------------------------------------------------------
(* What is known of a name is not touched by the reading of another.       *)
LEMMA NameKept ==
    ASSUME NEW ms, NEW n \in Nat, NEW s \in Sym, NEW x \in Sym \ {s},
           NEW t \in Shape, NEW u \in Shape, Elsewhere(t, u, s), NameRead(t, ms, n, x)
    PROVE  NameRead(u, ms, n, x)
<1>1. u.sym[x] = t.sym[x] /\ (t.errors => u.errors) /\ SameNodes(t, u, s)
  BY DEF Elsewhere
<1>2. Len(t.red) \in Nat /\ Len(u.red) \in Nat /\ Len(u.red) >= Len(t.red)
  BY <1>1 DEF Shape, SameNodes
<1>3. \A j \in 1 .. Len(u.red) : u.red[j].sym = x => j \in 1 .. Len(t.red)
  BY <1>1, <1>2 DEF SameNodes
<1>4. Bound(u, ms, n, x)
  BY <1>1 DEF NameRead, Bound
<1>5. Waiting(u, ms, n, x)
  BY <1>1, <1>3 DEF NameRead, Waiting, SameNodes
<1>6. OneSegment(u, ms, n, x)
  BY <1>1 DEF NameRead, OneSegment
<1>7. \A i : Kept(t, i, x) => Kept(u, i, x)
  <2>1. 1 .. Len(t.red) \subseteq 1 .. Len(u.red)
    BY <1>2
  <2> QED
    BY <1>1, <2>1 DEF Kept, SameNodes
<1>8. Ranked(u, ms, n, x)
  BY <1>1, <1>7 DEF NameRead, Ranked
<1>9. Largest(u, ms, n, x)
  BY <1>1 DEF NameRead, Largest
<1> QED
  BY <1>4, <1>5, <1>6, <1>8, <1>9 DEF NameRead

(* All names of a module.                                                  *)
LEMMA ReadsRight ==
    ASSUME NEW ms, NEW m \in Nat \ {0}, \A i \in 1 .. m : IsModule(ms[i]),
           NEW t \in Shape, InOrder(t), EntriesFound(t),
           \A s \in Sym : NameRead(t, ms, m - 1, s)
    PROVE  LET u == Reads(t, ms, m)[NSyms] IN
           /\ u \in Shape /\ InOrder(u) /\ EntriesFound(u)
           /\ \A s \in Sym : NameRead(u, ms, m, s)
           /\ t.errors => u.errors
           /\ u.errors => t.errors \/ \E s \in Sym : ClashIn(ms, m, s)
<1> DEFINE f == Reads(t, ms, m)
           Right(k) == /\ f[k] \in Shape /\ InOrder(f[k]) /\ EntriesFound(f[k])
                       /\ \A s \in Sym : NameRead(f[k], ms, IF s <= k THEN m ELSE m - 1, s)
                       /\ t.errors => f[k].errors
                       /\ f[k].errors => t.errors \/ \E s \in Sym : ClashIn(ms, m, s)
           S == {k \in Nat : k <= NSyms => Right(k)}
<1>1. f = [s \in 0 .. NSyms |-> IF s = 0 THEN t ELSE ReadSym(f[s - 1], ms, m, s)]
  BY ReadsDef
<1>2. NSyms \in Nat /\ Sym \subseteq Nat \ {0}
  BY LinkAssumption DEF Sym
<1>3. f[0] = t
  BY <1>1, <1>2
<1>4. \A k \in 1 .. NSyms : f[k] = ReadSym(f[k - 1], ms, m, k)
  BY <1>1, <1>2
<1> HIDE DEF f
<1>5. 0 \in S
  <2>1. \A s \in Sym : ~(s <= 0)
    BY <1>2
  <2>2. Right(0)
    BY <1>3, <2>1
  <2> QED
    BY <2>2
<1>6. ASSUME NEW k \in S PROVE k + 1 \in S
  <2> SUFFICES ASSUME k + 1 <= NSyms PROVE Right(k + 1)
    BY <1>6
  <2>1. k \in Nat /\ k <= NSyms /\ k + 1 \in Sym
    BY <1>2 DEF Sym
  <2>2. Right(k)
    BY <1>6, <2>1
  <2>3. NameRead(f[k], ms, m - 1, k + 1)
    <3>1. ~(k + 1 <= k)
      BY <2>1
    <3> QED
      BY <2>1, <2>2, <3>1
  <2>4. f[k + 1] = ReadSym(f[k], ms, m, k + 1)
    <3>1. k + 1 \in 1 .. NSyms /\ (k + 1) - 1 = k
      BY <1>2, <2>1
    <3> QED
      BY <1>4, <3>1
  <2>5. ReadRight(f[k], f[k + 1], ms, m, k + 1)
    BY <2>1, <2>2, <2>3, <2>4, ReadSymRight
  <2>6. \A s \in Sym : NameRead(f[k + 1], ms, IF s <= k + 1 THEN m ELSE m - 1, s)
    <3> TAKE s \in Sym
    <3>1. CASE s = k + 1
      BY <2>1, <2>5, <3>1 DEF ReadRight
    <3>2. CASE s # k + 1
      <4> DEFINE n == IF s <= k THEN m ELSE m - 1
      <4>1. n \in Nat /\ n = IF s <= k + 1 THEN m ELSE m - 1
        BY <1>2, <2>1, <3>2
      <4>2. NameRead(f[k], ms, n, s)
        BY <2>2
      <4>3. s \in Sym \ {k + 1} /\ Elsewhere(f[k], f[k + 1], k + 1) /\ f[k] \in Shape
            /\ f[k + 1] \in Shape
        BY <2>2, <2>5, <3>2 DEF ReadRight
      <4> HIDE DEF n
      <4>4. NameRead(f[k + 1], ms, n, s)
        BY <2>1, <4>1, <4>2, <4>3, NameKept
      <4> QED
        BY <4>1, <4>4
    <3> QED
      BY <3>1, <3>2
  <2>7. f[k].errors => f[k + 1].errors
    BY <2>5 DEF ReadRight, Elsewhere
  <2>8. f[k + 1].errors => f[k].errors \/ ClashIn(ms, m, k + 1)
    BY <2>5 DEF ReadRight
  <2> QED
    BY <2>1, <2>2, <2>5, <2>6, <2>7, <2>8 DEF ReadRight
<1>7. S = Nat
  <2>1. S \subseteq Nat
    OBVIOUS
  <2> HIDE DEF S
  <2> QED
    BY <1>5, <1>6, <2>1, SetInduction
<1>8. Right(NSyms)
  BY <1>2, <1>7
<1>9. \A s \in Sym : s <= NSyms
  BY <1>2 DEF Sym
<1> QED
  BY <1>8, <1>9 DEF f

(* What is known of the modules read is known of them when one more is.    *)
LEMMA OneMore ==
    ASSUME NEW ms, NEW n \in Nat, ms \in Seq(Module), Len(ms) = n, NEW file \in Module,
           NEW s \in Sym, NEW t \in Shape
    PROVE  /\ NameRead(t, ms, n, s) => NameRead(t, Append(ms, file), n, s)
           /\ ClashIn(ms, n, s) => ClashIn(Append(ms, file), n + 1, s)
<1> DEFINE us == Append(ms, file)
<1>1. \A i \in 1 .. n : us[i] = ms[i]
  OBVIOUS
<1>2. 1 .. n \subseteq 1 .. n + 1
  OBVIOUS
<1> HIDE DEF us
<1>3. \A i \in 1 .. n : /\ SegOf(us, i, s) = SegOf(ms, i, s)
                        /\ Speaks(us, i, s) <=> Speaks(ms, i, s)
                        /\ Exports(us, i, s) <=> Exports(ms, i, s)
  BY <1>1 DEF SegOf, Speaks, Exports
<1>4. ASSUME NameRead(t, ms, n, s) PROVE NameRead(t, us, n, s)
  <2>1. Bound(t, us, n, s)
    BY <1>1, <1>3, <1>4 DEF NameRead, Bound
  <2>2. Waiting(t, us, n, s)
    BY <1>1, <1>3, <1>4 DEF NameRead, Waiting
  <2>3. OneSegment(t, us, n, s)
    BY <1>3, <1>4 DEF NameRead, OneSegment
  <2>4. Ranked(t, us, n, s)
    <3> SUFFICES ASSUME ~t.errors, NEW i \in 1 .. n, Exports(us, i, s)
                 PROVE  /\ t.sym[s].exp /\ us[t.sym[s].mod].class <= us[i].class /\ Kept(t, i, s)
                        /\ \A k \in 1 .. n : Exports(us, k, s) /\ k # i => us[k].class # us[i].class
      BY DEF Ranked
    <3>1. /\ t.sym[s].exp /\ ms[t.sym[s].mod].class <= ms[i].class /\ Kept(t, i, s)
          /\ \A k \in 1 .. n : Exports(ms, k, s) /\ k # i => ms[k].class # ms[i].class
      BY <1>3, <1>4 DEF NameRead, Ranked
    <3>2. t.sym[s].mod \in 1 .. n
      <4>1. Speaks(ms, i, s)
        BY <1>3 DEF Exports, Speaks
      <4> QED
        BY <1>4, <4>1 DEF NameRead, Bound
    <3> QED
      BY <1>1, <1>3, <3>1, <3>2
  <2>5. Largest(t, us, n, s)
    BY <1>1, <1>3, <1>4 DEF NameRead, Largest
  <2> QED
    BY <2>1, <2>2, <2>3, <2>4, <2>5 DEF NameRead
<1>5. ASSUME ClashIn(ms, n, s) PROVE ClashIn(us, n + 1, s)
  BY <1>1, <1>2, <1>3, <1>5 DEF ClashIn
<1> QED
  BY <1>4, <1>5 DEF us


-----------------------------------------------------------------------------
(* The modules marked.                                                     *)
LEMMA ReachedDef ==
    ASSUME NEW from, mods \in Seq(Module)
    PROVE  Reached(from) = [n \in 0 .. Len(mods) |->
              IF n = 0 THEN from
              ELSE Reached(from)[n - 1] \cup
                   {sym[s].mod : s \in UNION {Mentions(m) : m \in Reached(from)[n - 1]}}]
<1> DEFINE Step(set) == set \cup {sym[s].mod : s \in UNION {Mentions(m) : m \in set}}
           Upto(f, n) == f = [k \in 0 .. n |-> IF k = 0 THEN from ELSE Step(f[k - 1])]
           S == {n \in Nat : \E f : Upto(f, n)}
<1> HIDE DEF Step
<1>1. 0 \in S
  <2>1. Upto([k \in 0 .. 0 |-> from], 0)
    OBVIOUS
  <2> QED
    BY <2>1
<1>2. ASSUME NEW n \in S PROVE n + 1 \in S
  <2>1. PICK f : Upto(f, n)
    OBVIOUS
  <2> DEFINE g == [k \in 0 .. n + 1 |-> IF k = n + 1 THEN Step(f[n]) ELSE f[k]]
  <2>2. n \in Nat
    OBVIOUS
  <2>3. ASSUME NEW k \in 0 .. n + 1
        PROVE  g[k] = IF k = 0 THEN from ELSE Step(g[k - 1])
    <3>1. CASE k = n + 1
      BY <2>2, <3>1
    <3>2. CASE k # n + 1
      <4>1. k \in 0 .. n /\ (k # 0 => k - 1 \in 0 .. n)
        BY <2>2, <3>2
      <4>2. f[k] = IF k = 0 THEN from ELSE Step(f[k - 1])
        BY <2>1, <4>1
      <4> QED
        BY <2>2, <3>2, <4>1, <4>2
    <3> QED
      BY <3>1, <3>2
  <2>4. Upto(g, n + 1)
    BY <2>3
  <2> HIDE DEF g, Upto
  <2> QED
    BY <2>2, <2>4
<1>3. S = Nat
  <2>1. S \subseteq Nat
    OBVIOUS
  <2> HIDE DEF S
  <2> QED
    BY <1>1, <1>2, <2>1, SetInduction
<1>4. \E f : Upto(f, Len(mods))
  <2>1. Len(mods) \in Nat
    OBVIOUS
  <2> QED
    BY <1>3, <2>1
<1> DEFINE reached == CHOOSE f : Upto(f, Len(mods))
<1>5. Upto(reached, Len(mods))
  <2> HIDE DEF Upto
  <2> QED
    BY <1>4
<1>6. Reached(from) = reached
  BY DEF Reached, Step
<1> QED
  BY <1>5, <1>6 DEF Step

(* Enough rounds mark all that can be reached, and nothing else: of the    *)
(* sets that the names of their modules do not lead out of, the least.     *)
Closed(set) == \A m \in set : \A s \in Mentions(m) : sym[s].mod \in set

(* linkrefs has the least such set.                                        *)
LEMMA LinkrefsRight ==
    ASSUME NEW from \in SUBSET (1 .. Len(mods)), mods \in Seq(Module),
           \A m \in 1 .. Len(mods) : \A s \in Mentions(m) : sym[s].mod \in 1 .. Len(mods)
    PROVE  /\ linkrefs(from) \subseteq 1 .. Len(mods)
           /\ from \subseteq linkrefs(from) /\ Closed(linkrefs(from))
           /\ \A set : from \subseteq set /\ Closed(set) => linkrefs(from) \subseteq set
<1> DEFINE n == Len(mods)
           Step(set) == set \cup {sym[s].mod : s \in UNION {Mentions(m) : m \in set}}
           r == Reached(from)
<1>1. n \in Nat /\ IsFiniteSet(1 .. n) /\ Cardinality(1 .. n) = n
  <2>1. n \in Nat
    OBVIOUS
  <2> QED
    BY <2>1, FS_Interval, SMTT(30)
<1>2. r[0] = from /\ \A k \in 1 .. n : r[k] = Step(r[k - 1])
  <2>1. r = [k \in 0 .. n |-> IF k = 0 THEN from ELSE Step(r[k - 1])]
    BY ReachedDef
  <2> HIDE DEF r, n, Step
  <2> QED
    BY <1>1, <2>1
<1>3. \A set : set \subseteq 1 .. n => Step(set) \subseteq 1 .. n
  OBVIOUS
<1>4. \A set : set \subseteq Step(set) /\ (Closed(set) => Step(set) = set)
  BY DEF Closed
<1>5. \A set : ~Closed(set) => \E x \in Step(set) : x \notin set
  BY DEF Closed
<1>6. \A set, set2 : set \subseteq set2 /\ Closed(set2) => Step(set) \subseteq set2
  BY DEF Closed
<1>7. linkrefs(from) = r[n]
  BY DEF linkrefs
<1> HIDE DEF Step, r, n
<1> DEFINE Right(k) == /\ r[k] \subseteq 1 .. n /\ from \subseteq r[k]
                       /\ Closed(r[k]) \/ Cardinality(r[k]) >= k
                       /\ \A set : from \subseteq set /\ Closed(set) => r[k] \subseteq set
           S == {k \in Nat : k <= n => Right(k)}
<1>8. \A set : set \subseteq 1 .. n => IsFiniteSet(set) /\ Cardinality(set) \in Nat
  BY <1>1, FS_Subset, FS_CardinalityType
<1>9. 0 \in S
  <2>1. r[0] = from /\ r[0] \subseteq 1 .. n
    BY <1>2 DEF n
  <2>2. Cardinality(r[0]) >= 0
    <3>1. Cardinality(r[0]) \in Nat
      BY <1>8, <2>1
    <3> HIDE DEF S, Right
    <3> QED
      BY <3>1
  <2>3. Right(0)
    BY <2>1, <2>2
  <2> QED
    BY <2>3
<1>10. ASSUME NEW k \in S PROVE k + 1 \in S
  <2> SUFFICES ASSUME k + 1 <= n PROVE Right(k + 1)
    BY <1>10
  <2>1. k \in Nat /\ k <= n
    BY <1>1
  <2>2. Right(k)
    BY <1>10, <2>1
  <2>3. r[k + 1] = Step(r[k])
    <3>1. k + 1 \in 1 .. n /\ (k + 1) - 1 = k
      BY <1>1, <2>1
    <3> QED
      BY <1>2, <3>1
  <2>4. r[k + 1] \subseteq 1 .. n /\ from \subseteq r[k + 1]
    BY <1>3, <1>4, <2>2, <2>3
  <2>5. \A set : from \subseteq set /\ Closed(set) => r[k + 1] \subseteq set
    BY <1>6, <2>2, <2>3
  <2>6. Closed(r[k + 1]) \/ Cardinality(r[k + 1]) >= k + 1
    <3>1. CASE Closed(r[k])
      BY <1>4, <2>3, <3>1
    <3>2. CASE ~Closed(r[k])
      <4>1. PICK x \in r[k + 1] : x \notin r[k]
        BY <1>5, <2>3, <3>2
      <4>2. r[k] \cup {x} \subseteq r[k + 1]
        BY <1>4, <2>3, <4>1
      <4>3. IsFiniteSet(r[k]) /\ Cardinality(r[k]) \in Nat /\ Cardinality(r[k]) >= k
        BY <1>8, <2>2, <3>2
      <4>4. Cardinality(r[k] \cup {x}) = Cardinality(r[k]) + 1
        BY <4>1, <4>3, FS_AddElement
      <4>5. IsFiniteSet(r[k + 1]) /\ Cardinality(r[k + 1]) \in Nat
        BY <1>8, <2>4
      <4>6. Cardinality(r[k] \cup {x}) <= Cardinality(r[k + 1])
        BY <4>2, <4>5, FS_Subset
      <4> QED
        BY <2>1, <4>3, <4>4, <4>5, <4>6
    <3> QED
      BY <3>1, <3>2
  <2> QED
    BY <2>4, <2>5, <2>6
<1>11. S = Nat
  <2>1. S \subseteq Nat
    OBVIOUS
  <2> HIDE DEF S
  <2> QED
    BY <1>9, <1>10, <2>1, SetInduction
<1>12. Right(n)
  BY <1>1, <1>11
<1>13. Closed(r[n])
  <2>1. CASE Cardinality(r[n]) >= n
    <3>1. r[n] = 1 .. n
      <4>1. r[n] \subseteq 1 .. n /\ Cardinality(r[n]) \in Nat
        BY <1>8, <1>12
      <4>2. Cardinality(r[n]) <= n
        BY <1>1, <4>1, FS_Subset
      <4>3. Cardinality(r[n]) = Cardinality(1 .. n)
        BY <1>1, <2>1, <4>1, <4>2
      <4> QED
        BY <1>1, <4>1, <4>3, FS_Subset
    <3> QED
      BY <3>1 DEF Closed, n
  <2> QED
    BY <1>12, <2>1
<1> QED
  BY <1>7, <1>12, <1>13 DEF n


-----------------------------------------------------------------------------
(* The inductive invariant: what holds of the tables t and the modules ms. *)
(*                                                                         *)
(* A name is bound to a module that mentions it, with the value it has     *)
(* there, and so is every node of the list.                                *)
Placed(t, ms, n, s) ==
    IF t.sym[s] = NoSym THEN \A i \in 1 .. n : ~Speaks(ms, i, s)
    ELSE /\ t.sym[s].mod \in 1 .. n /\ Speaks(ms, t.sym[s].mod, s)
         /\ t.sym[s].value = ms[t.sym[s].mod].decl[s].value
AllPlaced(t, ms) == \A s \in Sym : Placed(t, ms, Len(ms), s) /\ Waiting(t, ms, Len(ms), s)

(* All that is known while modules are read, the nodes being on the list   *)
(* in their order.                                                         *)
AllRead(t, ms) == InOrder(t) /\ \A s \in Sym : NameRead(t, ms, Len(ms), s)

ErrorsRight(t, ms) == t.errors <=> \E s \in Sym : ClashIn(ms, Len(ms), s)

Forward(t) ==
    /\ t.redfirst \in 0 .. Len(t.red)
    /\ \A i \in 1 .. Len(t.red) : t.red[i].next \in {Nul} \cup (i + 1 .. Len(t.red))

(* No definition is forgotten: what is not bound, and of a higher class    *)
(* than what is, has a node.                                               *)
NoneForgotten(t, ms) ==
    ~t.errors => \A s \in Sym : \A i \in 1 .. Len(ms) : Exports(ms, i, s) =>
        ms[i].class <= ms[t.sym[s].mod].class \/ Kept(t, i, s)

(* A node that could still win is on the list.                             *)
Listed(t, ms) ==
    \A i \in 1 .. Len(t.red) :
        ms[t.red[i].mod].class > ms[t.sym[t.red[i].sym].mod].class =>
            i \in ListFrom(t.red, t.redfirst)

(* Of the walk and the flags.  A node that prlptr is at leads to rlptr,    *)
(* whether or not it is still on the list itself.                          *)
Behind == pc = "walk" /\ prl # Nul => red[prl].next = rl

(* While nothing has been taken over the flags are what linkrefs makes of  *)
(* the bindings there are, and no node that was passed wins.               *)
Marked ==
    pc \in {"walk", "done"} /\ ~needlink =>
        load = linkrefs(Roots) /\ \A i \in OnList \ ListFrom(red, rl) : ~Wins(red[i])

Typed ==
    /\ mods \in Seq(Module) /\ From # {} /\ Tables \in Shape
    /\ load \in SUBSET (1 .. Len(mods)) /\ pc \in {"read", "mark", "walk", "done", "fatal"}
    /\ needlink \in BOOLEAN /\ rl \in 0 .. Len(red) /\ prl \in 0 .. Len(red)

Phases ==
    /\ pc = "read" => AllRead(Tables, mods) /\ load = {} /\ rl = Nul /\ prl = Nul
    /\ pc = "done" => ~needlink /\ rl = Nul

IInv ==
    /\ Typed /\ AllPlaced(Tables, mods) /\ EntriesFound(Tables) /\ ErrorsRight(Tables, mods)
    /\ Forward(Tables) /\ NoneForgotten(Tables, mods) /\ Listed(Tables, mods)
    /\ Behind /\ Marked /\ Phases

(* The tables as a record and as variables.                                *)
LEMMA TablesFields ==
    /\ Tables.sym = sym /\ Tables.red = red /\ Tables.redfirst = redfirst
    /\ Tables.entries = entries /\ Tables.errors = errors
    /\ Tables \in Shape <=> /\ sym \in [Sym -> SymRec] /\ red \in Seq(Node) /\ redfirst \in Nat
                            /\ entries \in Seq(Sym) /\ errors \in BOOLEAN
BY DEF Tables, Shape

(* What follows of the tables that have been read.                         *)
LEMMA ListInOrder ==
    ASSUME NEW t \in Shape, InOrder(t)
    PROVE  ListFrom(t.red, t.redfirst) = 1 .. Len(t.red)
<1> DEFINE n == Len(t.red)
<1>1. n \in Nat
  BY DEF Shape
<1>2. SUFFICES ASSUME NEW i \in 1 .. n, NEW S \in SUBSET (1 .. n),
                      Leads(t.red, t.redfirst, S)
               PROVE  i \in S
  BY DEF ListFrom
<1>3. /\ n > 0 => 1 \in S
      /\ \A j \in S : j < n => j + 1 \in S
  <2>1. t.redfirst \in S \cup {Nul} /\ \A j \in S : t.red[j].next \in S \cup {Nul}
    BY <1>2 DEF Leads
  <2>2. /\ t.redfirst = IF n = 0 THEN Nul ELSE 1
        /\ \A j \in 1 .. n : t.red[j].next = IF j = n THEN Nul ELSE j + 1
    BY DEF InOrder
  <2> QED
    BY <1>1, <2>1, <2>2 DEF Nul
<1> HIDE DEF n
<1> DEFINE I == {k \in Nat : k + 1 <= n => k + 1 \in S}
<1>4. 0 \in I
  BY <1>1, <1>3
<1>5. ASSUME NEW k \in I PROVE k + 1 \in I
  BY <1>1, <1>3
<1>6. I = Nat
  <2>1. I \subseteq Nat
    OBVIOUS
  <2> HIDE DEF I
  <2> QED
    BY <1>4, <1>5, <2>1, SetInduction
<1>7. i - 1 \in Nat /\ (i - 1) + 1 = i /\ i <= n
  BY <1>1
<1> QED
  BY <1>6, <1>7

(* The invariant after reading follows from what reading shows.            *)
LEMMA WhenRead ==
    ASSUME NEW t \in Shape, NEW ms \in Seq(Module), AllRead(t, ms)
    PROVE  /\ AllPlaced(t, ms) /\ Forward(t) /\ NoneForgotten(t, ms) /\ Listed(t, ms)
           /\ \A s \in Sym : ClashIn(ms, Len(ms), s) => t.errors
<1> DEFINE n == Len(ms)
<1>1. n \in Nat /\ \A i \in 1 .. n : IsModule(ms[i])
  <2>1. \A i \in 1 .. n : ms[i] \in Module
    OBVIOUS
  <2> QED
    BY <2>1, ModuleType
<1>2. Len(t.red) \in Nat
  BY DEF Shape
<1>3. AllPlaced(t, ms)
  <2> SUFFICES ASSUME NEW s \in Sym
               PROVE  Placed(t, ms, n, s) /\ Waiting(t, ms, n, s)
    BY DEF AllPlaced
  <2>1. Bound(t, ms, n, s) /\ Waiting(t, ms, n, s)
    BY DEF AllRead, NameRead
  <2> QED
    BY <2>1 DEF Bound, Placed
<1>4. Forward(t)
  BY <1>2 DEF AllRead, InOrder, Forward, Nul
<1>5. NoneForgotten(t, ms)
  BY DEF AllRead, NameRead, Ranked, NoneForgotten
<1>6. Listed(t, ms)
  BY ListInOrder DEF AllRead, Listed
<1>7. ASSUME NEW s \in Sym, ClashIn(ms, n, s), ~t.errors PROVE FALSE
  <2>1. Ranked(t, ms, n, s) /\ OneSegment(t, ms, n, s)
    BY DEF AllRead, NameRead
  <2>2. CASE \E i, k \in 1 .. n : /\ Exports(ms, i, s) /\ Exports(ms, k, s) /\ i # k
                                  /\ ms[i].class = ms[k].class
    BY <1>7, <2>1, <2>2 DEF Ranked
  <2>3. CASE \E i, k \in 1 .. n : /\ SegOf(ms, i, s) # AnySeg /\ SegOf(ms, k, s) # AnySeg
                                  /\ SegOf(ms, i, s) # SegOf(ms, k, s)
    BY <1>7, <2>1, <2>3 DEF OneSegment
  <2> QED
    BY <1>7, <2>2, <2>3 DEF ClashIn
<1> QED
  BY <1>3, <1>4, <1>5, <1>6, <1>7


(* Nothing is read yet.                                                    *)
LEMMA InitInv == Init => IInv
<1> SUFFICES ASSUME Init PROVE IInv
  OBVIOUS
<1>1. /\ mods = <<>> /\ Len(mods) = 0 /\ red = <<>> /\ Len(red) = 0 /\ entries = <<>>
      /\ Len(entries) = 0 /\ errors = FALSE /\ sym = [s \in Sym |-> NoSym] /\ redfirst = Nul
      /\ pc = "read" /\ load = {} /\ rl = Nul /\ prl = Nul /\ needlink = FALSE
  BY DEF Init
<1>2. NoSym \in SymRec /\ NoSym.seg = AnySeg /\ NoSym.exp = FALSE
  BY LinkAssumption DEF NoSym, SymRec
<1>3. Tables \in Shape
  <2>1. sym \in [Sym -> SymRec] /\ redfirst \in Nat /\ errors \in BOOLEAN
    BY <1>1, <1>2 DEF Nul
  <2>2. red \in Seq(Node) /\ entries \in Seq(Sym)
    BY <1>1
  <2> QED
    BY <2>1, <2>2, TablesFields
<1>4. From # {}
  BY <1>1, LinkAssumption DEF From
<1>5. Typed
  <2>1. mods \in Seq(Module)
    BY <1>1
  <2>2. load \in SUBSET (1 .. Len(mods)) /\ needlink \in BOOLEAN
    BY <1>1
  <2>3. rl \in 0 .. Len(red) /\ prl \in 0 .. Len(red)
    BY <1>1 DEF Nul
  <2> QED
    BY <1>1, <1>3, <1>4, <2>1, <2>2, <2>3 DEF Typed
<1>6. AllRead(Tables, mods)
  <2>1. InOrder(Tables)
    BY <1>1, TablesFields DEF InOrder
  <2>2. ASSUME NEW s \in Sym PROVE NameRead(Tables, mods, Len(mods), s)
    <3>1. Tables.sym[s] = NoSym /\ Len(Tables.red) = 0 /\ Tables.errors = FALSE
      BY <1>1, TablesFields
    <3> HIDE DEF Nul
    <3> QED
      BY <1>1, <1>2, <3>1 DEF NameRead, Bound, Waiting, OneSegment, Ranked, Largest
  <2> QED
    BY <2>1, <2>2 DEF AllRead
<1>7. EntriesFound(Tables)
  BY <1>1, TablesFields DEF EntriesFound
<1>8. ErrorsRight(Tables, mods)
  BY <1>1, TablesFields DEF ErrorsRight, ClashIn
<1>9. AllPlaced(Tables, mods) /\ Forward(Tables) /\ NoneForgotten(Tables, mods)
      /\ Listed(Tables, mods)
  BY <1>3, <1>5, <1>6, WhenRead DEF Typed
<1>10. Behind /\ Marked /\ Phases
  BY <1>1, <1>6 DEF Behind, Marked, Phases
<1> QED
  BY <1>5, <1>7, <1>8, <1>9, <1>10 DEF IInv

(* One more module is read.                                                *)
LEMMA ReadModuleInv == IInv /\ ReadModule => IInv'
<1> SUFFICES ASSUME IInv, ReadModule PROVE IInv'
  OBVIOUS
<1>1. PICK files \in From : /\ Len(mods) < Len(files)
                            /\ \E file \in files[Len(mods) + 1] : readmodule(file)
  BY DEF ReadModule
<1>2. PICK file \in files[Len(mods) + 1] : readmodule(file)
  BY <1>1
<1> DEFINE n == Len(mods)
           ms == Append(mods, file)
           u == Reads(Tables, ms, n + 1)[NSyms]
<1>3. mods \in Seq(Module) /\ n \in Nat /\ Tables \in Shape /\ pc = "read"
  BY <1>2 DEF IInv, Typed, readmodule
<1>4. /\ files \in Files /\ Len(files) \in Nat /\ n + 1 \in 1 .. Len(files)
      /\ \A m \in 1 .. n : mods[m] \in files[m]
  BY <1>1, <1>3, LinkAssumption DEF From
<1>5. file \in Module
  BY <1>2, <1>4 DEF Module
<1>6. ms \in Seq(Module) /\ Len(ms) = n + 1 /\ \A i \in 1 .. n + 1 : IsModule(ms[i])
  <2>1. ms \in Seq(Module) /\ Len(ms) = n + 1
    BY <1>3, <1>5
  <2>2. \A i \in 1 .. n + 1 : ms[i] \in Module
    BY <2>1
  <2> QED
    BY <2>1, <2>2, ModuleType
<1>7. AllRead(Tables, mods) /\ EntriesFound(Tables) /\ ErrorsRight(Tables, mods)
      /\ load = {} /\ rl = Nul /\ prl = Nul
  BY <1>3 DEF IInv, Phases
<1>8. /\ u \in Shape /\ InOrder(u) /\ EntriesFound(u)
      /\ \A s \in Sym : NameRead(u, ms, n + 1, s)
      /\ Tables.errors => u.errors
      /\ u.errors => Tables.errors \/ \E s \in Sym : ClashIn(ms, n + 1, s)
  <2>1. \A s \in Sym : NameRead(Tables, ms, n, s)
    BY <1>3, <1>5, <1>7, OneMore DEF AllRead
  <2>2. n + 1 \in Nat \ {0} /\ (n + 1) - 1 = n
    BY <1>3
  <2> HIDE DEF n, ms
  <2> QED
    BY <1>3, <1>6, <1>7, <2>1, <2>2, ReadsRight DEF AllRead
<1> HIDE DEF u
<1>9. /\ mods' = ms /\ Tables' = u
      /\ UNCHANGED <<load, pc, rl, prl, needlink>>
  <2>1. /\ mods' = ms /\ UNCHANGED <<load, pc, rl, prl, needlink>>
        /\ sym' = u.sym /\ red' = u.red /\ redfirst' = u.redfirst
        /\ entries' = u.entries /\ errors' = u.errors
    BY <1>2, <1>6 DEF readmodule, u
  <2> QED
    BY <1>8, <2>1 DEF Tables, Shape
<1>10. AllRead(u, ms)
  BY <1>6, <1>8 DEF AllRead
<1>11. AllPlaced(u, ms) /\ Forward(u) /\ NoneForgotten(u, ms) /\ Listed(u, ms)
  BY <1>6, <1>8, <1>10, WhenRead
<1>12. ErrorsRight(u, ms)
  <2>1. ASSUME u.errors PROVE \E s \in Sym : ClashIn(ms, n + 1, s)
    <3>1. CASE Tables.errors
      <4>1. PICK s \in Sym : ClashIn(mods, n, s)
        BY <1>7, <3>1 DEF ErrorsRight
      <4>2. ClashIn(ms, n + 1, s)
        BY <1>3, <1>5, <4>1, OneMore
      <4> QED
        BY <4>2
    <3> QED
      BY <1>8, <2>1, <3>1
  <2>2. \A s \in Sym : ClashIn(ms, n + 1, s) => u.errors
    BY <1>6, <1>8, <1>10, WhenRead
  <2>3. u.errors \in BOOLEAN
    BY <1>8 DEF Shape
  <2> HIDE DEF ms, n
  <2> QED
    BY <1>6, <2>1, <2>2, <2>3 DEF ErrorsRight
<1> HIDE DEF ms
<1>13. Typed'
  <2>1. (From # {})'
    <3>1. \A m \in 1 .. n + 1 : ms[m] \in files[m]
      <4> TAKE m \in 1 .. n + 1
      <4>1. CASE m = n + 1
        BY <1>2, <1>3, <4>1 DEF ms
      <4>2. CASE m # n + 1
        BY <1>3, <1>4, <4>2 DEF ms
      <4> QED
        BY <4>1, <4>2
    <3>2. files \in From'
      BY <1>3, <1>4, <1>6, <1>9, <3>1 DEF From
    <3> QED
      BY <3>2
  <2>2. rl' \in 0 .. Len(red') /\ prl' \in 0 .. Len(red')
    <3>1. Len(red') \in Nat
      <4>1. red' = u.red
        BY <1>9 DEF Tables
      <4> QED
        BY <1>8, <4>1 DEF Shape
    <3> QED
      BY <1>7, <1>9, <3>1 DEF Nul
  <2>3. load' = {} /\ pc' = "read" /\ needlink' \in BOOLEAN
    BY <1>3, <1>7, <1>9 DEF IInv, Typed
  <2> QED
    BY <1>6, <1>8, <1>9, <2>1, <2>2, <2>3 DEF Typed
<1>14. Behind' /\ Marked'
  BY <1>3, <1>9 DEF Behind, Marked
<1>15. Phases'
  BY <1>3, <1>7, <1>9, <1>10 DEF Phases
<1> QED
  BY <1>8, <1>9, <1>11, <1>12, <1>13, <1>14, <1>15 DEF IInv


(* The modules that can be marked exist.                                   *)
LEMMA MarkedExist ==
    ASSUME IInv
    PROVE  /\ Roots \subseteq 1 .. Len(mods)
           /\ \A m \in 1 .. Len(mods) : \A s \in Mentions(m) : sym[s].mod \in 1 .. Len(mods)
<1>1. \A s \in Sym : sym[s] # NoSym => sym[s].mod \in 1 .. Len(mods)
  BY TablesFields DEF IInv, AllPlaced, Placed
<1>2. entries \in Seq(Sym) /\ \A i \in 1 .. Len(entries) : sym[entries[i]] # NoSym
  BY TablesFields DEF IInv, Typed, EntriesFound
<1>3. \A i \in 1 .. Len(entries) : entries[i] \in Sym
  BY <1>2
<1>4. StartNames \subseteq Sym
  BY LinkAssumption
<1>5. Roots \subseteq 1 .. Len(mods)
  BY <1>1, <1>2, <1>3, <1>4 DEF Roots, Found
<1>6. ASSUME NEW m \in 1 .. Len(mods), NEW s \in Mentions(m)
      PROVE  sym[s].mod \in 1 .. Len(mods)
  <2>1. s \in Sym /\ Speaks(mods, m, s)
    BY DEF Mentions, Speaks
  <2>2. sym[s] # NoSym
    BY <2>1, TablesFields DEF IInv, AllPlaced, Placed
  <2> QED
    BY <1>1, <2>1, <2>2
<1> QED
  BY <1>5, <1>6

(* The first of the entry names that exists is an entry.                   *)
LEMMA BeginInv == IInv /\ Begin => IInv'
<1> SUFFICES ASSUME IInv, Begin PROVE IInv'
  OBVIOUS
<1> DEFINE found == {i \in 1 .. Len(MainNames) : Found(MainNames[i])}
           first == CHOOSE i \in found : \A j \in found : i <= j
<1>1. /\ pc = "read"
      /\ entries' = IF found = {} THEN entries ELSE entrysym(entries, MainNames[first])
      /\ pc' = IF entries' = <<>> THEN "fatal" ELSE "mark"
      /\ UNCHANGED <<mods, sym, red, redfirst, errors, load, rl, prl, needlink>>
  BY DEF Begin
<1>2. entries \in Seq(Sym) /\ \A i \in 1 .. Len(entries) : sym[entries[i]] # NoSym
  BY TablesFields DEF IInv, Typed, EntriesFound
<1>3. /\ entries' \in Seq(Sym)
      /\ \A i \in 1 .. Len(entries') : sym[entries'[i]] # NoSym
  <2>1. CASE found = {}
    BY <1>1, <1>2, <2>1
  <2>2. CASE found # {}
    <3>1. first \in found
      <4>1. found \in SUBSET Nat
        BY LinkAssumption
      <4>2. \E i \in found : \A j \in found : i <= j
        <5> HIDE DEF found
        <5> QED
          BY <2>2, <4>1, LeastOf
      <4> HIDE DEF found
      <4> QED
        BY <4>2
    <3> HIDE DEF first
    <3>2. MainNames[first] \in Sym /\ sym[MainNames[first]] # NoSym
      BY <3>1, LinkAssumption DEF Found
    <3> DEFINE x == MainNames[first]
    <3> HIDE DEF x, found
    <3>3. x \in Sym /\ sym[x] # NoSym /\ entries' = entrysym(entries, x)
      BY <1>1, <2>2, <3>2 DEF x
    <3>4. /\ entries' \in Seq(Sym)
          /\ \A i \in 1 .. Len(entries') :
                entries'[i] = x \/ \E j \in 1 .. Len(entries) : entries'[i] = entries[j]
      BY <1>2, <3>3, EntrysymFacts
    <3> QED
      BY <1>2, <3>3, <3>4
  <2> QED
    BY <2>1, <2>2
<1> HIDE DEF found
<1>4. /\ Tables' \in Shape /\ Tables'.sym = sym /\ Tables'.red = red
      /\ Tables'.redfirst = redfirst /\ Tables'.errors = errors /\ Tables'.entries = entries'
  BY <1>1, <1>3, TablesFields DEF IInv, Typed, Tables, Shape
<1>5. EntriesFound(Tables')
  BY <1>3, <1>4 DEF EntriesFound
<1>6. /\ AllPlaced(Tables', mods) /\ ErrorsRight(Tables', mods) /\ Forward(Tables')
      /\ NoneForgotten(Tables', mods) /\ Listed(Tables', mods)
  BY <1>4, TablesFields DEF IInv, AllPlaced, Placed, Waiting, ErrorsRight, Forward,
                            NoneForgotten, Kept, Listed
<1>7. Typed'
  <2>1. (From # {})'
    BY <1>1 DEF IInv, Typed, From
  <2> QED
    BY <1>1, <1>4, <2>1 DEF IInv, Typed
<1>8. pc' \in {"mark", "fatal"}
  BY <1>1
<1>9. Behind' /\ Marked' /\ Phases'
  BY <1>8 DEF Behind, Marked, Phases
<1> QED
  BY <1>1, <1>5, <1>6, <1>7, <1>9 DEF IInv

(* What holds of the tables and the modules stays when they do.            *)
LEMMA TablesKept ==
    ASSUME IInv, UNCHANGED <<mods, tables>>
    PROVE  /\ Tables' = Tables
           /\ (/\ AllPlaced(Tables, mods) /\ EntriesFound(Tables) /\ ErrorsRight(Tables, mods)
               /\ Forward(Tables) /\ NoneForgotten(Tables, mods) /\ Listed(Tables, mods)
               /\ From # {} /\ Tables \in Shape)'
           /\ linkrefs(Roots)' = linkrefs(Roots) /\ OnList' = OnList
<1>1. Tables' = Tables
  BY DEF tables, Tables
<1>2. (From # {})'
  BY DEF IInv, Typed, From
<1>3. linkrefs(Roots)' = linkrefs(Roots)
  BY DEF linkrefs, Reached, Roots, Mentions, Found, tables
<1>4. OnList' = OnList
  BY DEF OnList, ListFrom, Leads, tables
<1> QED
  BY <1>1, <1>2, <1>3, <1>4 DEF IInv, Typed

(* The flags are set anew.                                                 *)
LEMMA MarkInv == IInv /\ Mark => IInv'
<1> SUFFICES ASSUME IInv, Mark PROVE IInv'
  OBVIOUS
<1>1. /\ pc = "mark" /\ load' = linkrefs(Roots) /\ needlink' = FALSE
      /\ rl' = redfirst /\ prl' = Nul /\ pc' = "walk" /\ UNCHANGED <<mods, tables>>
  BY DEF Mark, ClearNeed
<1>2. linkrefs(Roots)' = linkrefs(Roots) /\ OnList' = OnList
  BY <1>1, TablesKept
<1>3. mods \in Seq(Module) /\ linkrefs(Roots) \subseteq 1 .. Len(mods)
  <2>1. mods \in Seq(Module)
    BY DEF IInv, Typed
  <2> QED
    BY <2>1, MarkedExist, LinkrefsRight
<1>4. Typed'
  <2>1. redfirst \in 0 .. Len(red) /\ Len(red) \in Nat /\ red' = red
    BY <1>1, TablesFields DEF IInv, Typed, Forward, tables
  <2>2. rl' \in 0 .. Len(red') /\ prl' \in 0 .. Len(red')
    BY <1>1, <2>1 DEF Nul
  <2>3. (From # {})' /\ Tables' \in Shape /\ mods' = mods
    BY <1>1, TablesKept
  <2> QED
    BY <1>1, <1>3, <2>2, <2>3 DEF Typed
<1>5. Behind' /\ Phases'
  BY <1>1 DEF Behind, Phases
<1>6. Marked'
  <2>1. OnList' = ListFrom(red, rl)'
    BY <1>1 DEF OnList, tables
  <2> QED
    BY <1>1, <1>2, <2>1 DEF Marked
<1> QED
  BY <1>1, <1>4, <1>5, <1>6, TablesKept DEF IInv

(* The end of the list.                                                    *)
LEMMA EndWalkInv == IInv /\ EndWalk => IInv'
<1> SUFFICES ASSUME IInv, EndWalk PROVE IInv'
  OBVIOUS
<1>1. /\ pc = "walk" /\ rl = Nul /\ pc' = IF needlink THEN "mark" ELSE "done"
      /\ UNCHANGED <<mods, tables, load, rl, prl, needlink>>
  BY DEF EndWalk, NextRound
<1>2. Typed'
  <2>1. red' = red
    BY <1>1 DEF tables
  <2> QED
    BY <1>1, <2>1, TablesKept DEF IInv, Typed
<1>3. Behind' /\ Phases'
  BY <1>1 DEF Behind, Phases
<1>4. Marked'
  <2>1. \A i : Wins(red[i])' <=> Wins(red[i])
    BY <1>1 DEF Wins, ClassOf, tables
  <2>2. ListFrom(red, rl)' = ListFrom(red, rl)
    BY <1>1 DEF tables
  <2> QED
    BY <1>1, <2>1, <2>2, TablesKept DEF IInv, Marked
<1> QED
  BY <1>1, <1>2, <1>3, <1>4, TablesKept DEF IInv

(* Nothing happens.                                                        *)
LEMMA StutterInv == IInv /\ UNCHANGED vars => IInv'
<1> SUFFICES ASSUME IInv, UNCHANGED vars PROVE IInv'
  OBVIOUS
<1>1. UNCHANGED <<mods, tables>> /\ UNCHANGED <<load, pc, rl, prl, needlink, red>>
  BY DEF vars, tables
<1>2. Typed'
  BY <1>1, TablesKept DEF IInv, Typed
<1>3. Behind' /\ Phases'
  BY <1>1, TablesKept DEF IInv, Behind, Phases
<1>4. Marked'
  <2>1. \A i : Wins(red[i])' <=> Wins(red[i])
    BY <1>1 DEF Wins, ClassOf, tables
  <2>2. ListFrom(red, rl)' = ListFrom(red, rl)
    BY <1>1
  <2> QED
    BY <1>1, <2>1, <2>2, TablesKept DEF IInv, Marked
<1> QED
  BY <1>1, <1>2, <1>3, <1>4, TablesKept DEF IInv


(* A node's pointer is changed.                                            *)
LEMMA RechainFacts ==
    ASSUME NEW nodes \in Seq(Node), NEW p \in 0 .. Len(nodes), NEW next \in Nat
    PROVE  LET new == [nodes EXCEPT ![p].next = next] IN
           /\ new \in Seq(Node) /\ Len(new) = Len(nodes)
           /\ \A j \in 1 .. Len(nodes) :
                 /\ new[j].sym = nodes[j].sym /\ new[j].mod = nodes[j].mod
                 /\ new[j].value = nodes[j].value
                 /\ new[j].next = IF j = p THEN next ELSE nodes[j].next
<1> DEFINE new == [nodes EXCEPT ![p].next = next]
           n == Len(nodes)
<1>1. n \in Nat /\ nodes \in [1 .. n -> Node]
  OBVIOUS
<1>2. \A j \in 1 .. n : new[j] = IF j = p THEN [nodes[j] EXCEPT !.next = next] ELSE nodes[j]
  BY <1>1
<1>3. new \in [1 .. n -> Node]
  BY <1>1 DEF Node
<1> HIDE DEF new
<1>4. new \in Seq(Node) /\ Len(new) = n
  BY <1>1, <1>3
<1>5. \A j \in 1 .. n :
         /\ new[j].sym = nodes[j].sym /\ new[j].mod = nodes[j].mod
         /\ new[j].value = nodes[j].value
         /\ new[j].next = IF j = p THEN next ELSE nodes[j].next
  BY <1>1, <1>2 DEF Node
<1> QED
  BY <1>4, <1>5 DEF new

(* The list from a node on is the node and the list from the next one.     *)
LEMMA ListAfter ==
    ASSUME NEW nodes \in Seq(Node), NEW i \in 1 .. Len(nodes)
    PROVE  ListFrom(nodes, i) \subseteq {i} \cup ListFrom(nodes, nodes[i].next)
<1> SUFFICES ASSUME NEW j \in ListFrom(nodes, i), j # i,
                    NEW S \in SUBSET (1 .. Len(nodes)), Leads(nodes, nodes[i].next, S)
             PROVE  j \in S
  BY DEF ListFrom
<1>1. S \cup {i} \in SUBSET (1 .. Len(nodes)) /\ Leads(nodes, i, S \cup {i})
  BY DEF Leads
<1>2. j \in S \cup {i}
  BY <1>1 DEF ListFrom
<1> QED
  BY <1>2

(* A node is taken off the list, and no other with it.  The pointer that   *)
(* is changed is the first one, or that of a node p that leads to the node *)
(* r; p may have been taken off before, and then it is r that stays.       *)
Unlinked(nodes, first, r, p, nodes2, first2) ==
    /\ r \in 1 .. Len(nodes) /\ p \in 0 .. Len(nodes) /\ (p # Nul => nodes[p].next = r)
    /\ Len(nodes2) = Len(nodes)
    /\ r = first =>
          /\ first2 = nodes[r].next
          /\ \A j \in 1 .. Len(nodes) : nodes2[j].next = nodes[j].next
    /\ r # first =>
          /\ first2 = first
          /\ \A j \in 1 .. Len(nodes) :
                nodes2[j].next = IF j = p THEN nodes[r].next ELSE nodes[j].next

(* Every other node that was on the list is still on it.                   *)
LEMMA OnlyUnlinked ==
    ASSUME NEW nodes \in Seq(Node), NEW first, NEW r, NEW p, NEW nodes2, NEW first2,
           Unlinked(nodes, first, r, p, nodes2, first2),
           NEW j \in ListFrom(nodes, first), j # r
    PROVE  j \in ListFrom(nodes2, first2)
<1>0. /\ r \in 1 .. Len(nodes) /\ p \in 0 .. Len(nodes) /\ (p # Nul => nodes[p].next = r)
      /\ Len(nodes2) = Len(nodes)
      /\ r = first =>
            /\ first2 = nodes[r].next
            /\ \A i \in 1 .. Len(nodes) : nodes2[i].next = nodes[i].next
      /\ r # first =>
            /\ first2 = first
            /\ \A i \in 1 .. Len(nodes) :
                  nodes2[i].next = IF i = p THEN nodes[r].next ELSE nodes[i].next
  BY DEF Unlinked
<1> SUFFICES ASSUME NEW S \in SUBSET (1 .. Len(nodes)), Leads(nodes2, first2, S)
             PROVE  j \in S
  BY <1>0 DEF ListFrom
<1>1. first2 \in S \cup {Nul} /\ \A i \in S : nodes2[i].next \in S \cup {Nul}
  BY DEF Leads
<1>2. \A S2 \in SUBSET (1 .. Len(nodes)) : Leads(nodes, first, S2) => j \in S2
  BY DEF ListFrom
<1>3. \A i \in S : i \in 1 .. Len(nodes)
  OBVIOUS
<1>4. CASE r = first
  <2>1. Leads(nodes, first, S \cup {r})
    BY <1>0, <1>1, <1>3, <1>4 DEF Leads
  <2>2. S \cup {r} \in SUBSET (1 .. Len(nodes))
    BY <1>0
  <2> QED
    BY <1>2, <2>1, <2>2
<1>5. CASE r # first /\ p \in S
  <2>1. nodes[p].next = r /\ nodes2[p].next = nodes[r].next
    BY <1>0, <1>3, <1>5 DEF Nul
  <2>2. nodes[r].next \in S \cup {Nul}
    BY <1>1, <1>5, <2>1
  <2>3. ASSUME NEW i \in S PROVE nodes[i].next \in S \cup {r} \cup {Nul}
    <3>1. CASE i = p
      BY <2>1, <3>1
    <3>2. CASE i # p
      BY <1>0, <1>1, <1>3, <1>5, <3>2
    <3> QED
      BY <3>1, <3>2
  <2>4. Leads(nodes, first, S \cup {r})
    BY <1>0, <1>1, <1>5, <2>2, <2>3 DEF Leads
  <2>5. S \cup {r} \in SUBSET (1 .. Len(nodes))
    BY <1>0
  <2> QED
    BY <1>2, <2>4, <2>5
<1>6. CASE r # first /\ p \notin S
  <2>1. Leads(nodes, first, S)
    BY <1>0, <1>1, <1>3, <1>6 DEF Leads
  <2> QED
    BY <1>2, <2>1
<1> QED
  BY <1>4, <1>5, <1>6

(* The walk passes a node.                                                 *)
LEMMA PassInv ==
    ASSUME IInv, Walk, ~Wins(red[rl])
    PROVE  IInv'
<1>1. /\ pc = "walk" /\ rl # Nul /\ prl' = rl /\ rl' = red[rl].next
      /\ UNCHANGED <<mods, tables, load, pc, needlink>>
  BY DEF Walk, tables
<1>2. red \in Seq(Node) /\ rl \in 1 .. Len(red) /\ Len(red) \in Nat
  <2>1. red \in Seq(Node) /\ rl \in 0 .. Len(red)
    BY TablesFields DEF IInv, Typed
  <2> QED
    BY <1>1, <2>1 DEF Nul
<1>3. Typed'
  <2>1. rl' \in 0 .. Len(red)
    BY <1>1, <1>2, TablesFields DEF IInv, Forward, Nul
  <2>2. red' = red
    BY <1>1 DEF tables
  <2>3. (From # {})' /\ Tables' \in Shape
    BY <1>1, TablesKept
  <2> QED
    BY <1>1, <1>2, <2>1, <2>2, <2>3 DEF IInv, Typed
<1>4. Behind' /\ Phases'
  BY <1>1 DEF Behind, Phases, tables
<1>5. Marked'
  <2> SUFFICES ASSUME ~needlink
               PROVE  /\ load = linkrefs(Roots)
                      /\ \A i \in OnList \ ListFrom(red, rl') : ~Wins(red[i])
    <3>1. \A i : Wins(red[i])' <=> Wins(red[i])
      BY <1>1 DEF Wins, ClassOf, tables
    <3>2. ListFrom(red, rl)' = ListFrom(red, rl')
      BY <1>1 DEF tables
    <3>3. linkrefs(Roots)' = linkrefs(Roots) /\ OnList' = OnList
      BY <1>1, TablesKept
    <3> QED
      BY <1>1, <3>1, <3>2, <3>3 DEF Marked
  <2>1. load = linkrefs(Roots) /\ \A i \in OnList \ ListFrom(red, rl) : ~Wins(red[i])
    BY <1>1 DEF IInv, Marked
  <2>2. ListFrom(red, rl) \subseteq {rl} \cup ListFrom(red, rl')
    BY <1>1, <1>2, ListAfter
  <2> QED
    BY <2>1, <2>2
<1> QED
  BY <1>1, <1>3, <1>4, <1>5, TablesKept DEF IInv


(* A marked module of a higher class takes a name over.                    *)
LEMMA TakeInv ==
    ASSUME IInv, Walk, Wins(red[rl])
    PROVE  IInv'
<1> DEFINE node == red[rl]
           s == node.sym
           n == Len(mods)
           t == Tables
           u == Tables'
<1>1. /\ pc = "walk" /\ rl # Nul /\ prl' = rl /\ rl' = node.next /\ needlink' = TRUE
      /\ sym' = [sym EXCEPT ![s].mod = node.mod, ![s].value = node.value]
      /\ Unlink(node.next) /\ UNCHANGED <<mods, entries, errors, load, pc>>
  BY DEF Walk
<1>2. /\ red \in Seq(Node) /\ rl \in 1 .. Len(red) /\ Len(red) \in Nat /\ prl \in 0 .. Len(red)
      /\ sym \in [Sym -> SymRec] /\ t \in Shape /\ redfirst \in 0 .. Len(red)
      /\ entries \in Seq(Sym) /\ errors \in BOOLEAN
      /\ mods \in Seq(Module) /\ n \in Nat
  <2>1. red \in Seq(Node) /\ rl \in 0 .. Len(red)
    BY TablesFields DEF IInv, Typed
  <2> QED
    BY <1>1, <2>1, TablesFields DEF IInv, Typed, Forward, Nul
<1>3. /\ node \in Node /\ s \in Sym /\ node.mod \in Nat /\ node.value \in Nat
      /\ node.next \in {Nul} \cup (rl + 1 .. Len(red)) /\ node.next \in Nat
  <2>1. node \in Node
    BY <1>2
  <2> QED
    BY <1>2, <2>1, TablesFields DEF Node, IInv, Forward
<1>4. \A i \in 1 .. n : mods[i].class \in Nat
  <2>1. \A i \in 1 .. n : mods[i] \in Module
    BY <1>2
  <2> QED
    BY <2>1, ModuleType DEF IsModule
<1>5. /\ node.mod \in 1 .. n /\ Exports(mods, node.mod, s) /\ Speaks(mods, node.mod, s)
      /\ node.value = mods[node.mod].decl[s].value
  <2>1. Waiting(t, mods, n, s)
    BY <1>3 DEF IInv, AllPlaced
  <2> QED
    BY <1>2, <2>1, TablesFields DEF Waiting, Exports, Speaks
<1>6. \A x \in Sym : sym[x].mod \in 1 .. n \/ (sym[x] = NoSym /\ x # s)
  <2> TAKE x \in Sym
  <2>1. /\ sym[x] = NoSym => \A i \in 1 .. n : ~Speaks(mods, i, x)
        /\ sym[x] # NoSym => sym[x].mod \in 1 .. n
    BY TablesFields DEF IInv, AllPlaced, Placed
  <2>2. CASE sym[x] = NoSym
    <3>1. ~Speaks(mods, node.mod, x) /\ Speaks(mods, node.mod, s)
      BY <1>5, <2>1, <2>2
    <3>2. x # s
      BY <3>1
    <3> QED
      BY <2>2, <3>2
  <2> QED
    BY <2>1, <2>2
<1>7. /\ sym' \in [Sym -> SymRec]
      /\ sym'[s].mod = node.mod /\ sym'[s].value = node.value
      /\ \A x \in Sym \ {s} : sym'[x] = sym[x]
  BY <1>1, <1>2, <1>3 DEF SymRec
<1>8. mods[node.mod].class > mods[sym[s].mod].class
  BY DEF Wins, ClassOf
<1> DEFINE new == [red EXCEPT ![prl].next = node.next]
<1>9. /\ new \in Seq(Node) /\ Len(new) = Len(red)
      /\ \A j \in 1 .. Len(red) :
            /\ new[j].sym = red[j].sym /\ new[j].mod = red[j].mod /\ new[j].value = red[j].value
            /\ new[j].next = IF j = prl THEN node.next ELSE red[j].next
  <2> HIDE DEF node
  <2> QED
    BY <1>2, <1>3, RechainFacts, SMTT(30)
<1>10. /\ rl = redfirst => redfirst' = node.next /\ red' = red
       /\ rl # redfirst => redfirst' = redfirst /\ red' = new
  BY <1>1 DEF Unlink
<1>11. prl # Nul => red[prl].next = rl
  BY <1>1 DEF IInv, Behind
<1> HIDE DEF new, node, s
<1>12. /\ red' \in Seq(Node) /\ Len(red') = Len(red) /\ redfirst' \in 0 .. Len(red)
       /\ \A j \in 1 .. Len(red) : /\ red'[j].sym = red[j].sym /\ red'[j].mod = red[j].mod
                                   /\ red'[j].value = red[j].value
       /\ red'[rl].next = node.next
  <2>1. node.next \in 0 .. Len(red) /\ red[rl].next = node.next
    BY <1>2, <1>3 DEF Nul, node
  <2>2. CASE rl = redfirst
    BY <1>2, <1>10, <2>1, <2>2
  <2>3. CASE rl # redfirst
    BY <1>2, <1>9, <1>10, <2>1, <2>3
  <2> QED
    BY <2>2, <2>3
<1>13. u \in Shape /\ u.sym = sym' /\ u.red = red' /\ u.redfirst = redfirst'
       /\ u.entries = entries /\ u.errors = errors
  BY <1>1, <1>2, <1>7, <1>12 DEF Tables, Shape
<1> HIDE DEF u, t
<1>14. t.sym = sym /\ t.red = red /\ t.redfirst = redfirst /\ t.entries = entries
       /\ t.errors = errors
  BY TablesFields DEF t
<1>15. AllPlaced(t, mods) /\ EntriesFound(t) /\ ErrorsRight(t, mods) /\ Forward(t)
       /\ NoneForgotten(t, mods) /\ Listed(t, mods)
  BY DEF IInv, t
<1>16. \A x \in Sym : sym[x] # NoSym => sym'[x] # NoSym
  <2> TAKE x \in Sym
  <2>1. CASE x = s
    <3>1. sym'[x].mod # 0
      BY <1>5, <1>7, <2>1
    <3> QED
      BY <3>1, KnownSym
  <2> QED
    BY <1>7, <2>1
<1>17. ASSUME NEW x \in Sym, sym[x] # NoSym
       PROVE  /\ mods[sym[x].mod].class \in Nat /\ mods[sym'[x].mod].class \in Nat
              /\ mods[sym[x].mod].class <= mods[sym'[x].mod].class
  <2>1. CASE x = s
    BY <1>4, <1>5, <1>6, <1>7, <1>8, <1>17, <2>1
  <2>2. CASE x # s
    BY <1>4, <1>6, <1>7, <1>17, <2>2
  <2> QED
    BY <2>1, <2>2
<1>18. AllPlaced(u, mods)
  <2> SUFFICES ASSUME NEW x \in Sym
               PROVE  Placed(u, mods, n, x) /\ Waiting(u, mods, n, x)
    BY DEF AllPlaced
  <2>1. Placed(t, mods, n, x) /\ Waiting(t, mods, n, x)
    BY <1>15 DEF AllPlaced
  <2>2. Waiting(u, mods, n, x)
    BY <1>12, <1>13, <1>14, <2>1 DEF Waiting
  <2>3. CASE x = s
    <3>1. sym'[s] # NoSym
      <4>1. sym'[s].mod # 0
        BY <1>5, <1>7
      <4> QED
        BY <4>1, KnownSym
    <3> QED
      BY <1>5, <1>7, <1>13, <2>2, <2>3, <3>1 DEF Placed
  <2>4. CASE x # s
    <3>1. u.sym[x] = t.sym[x]
      BY <1>7, <1>13, <1>14, <2>4
    <3> QED
      BY <2>1, <2>2, <3>1 DEF Placed
  <2> QED
    BY <2>3, <2>4
<1>19. EntriesFound(u)
  <2>1. \A i \in 1 .. Len(entries) : entries[i] \in Sym
    BY <1>2
  <2> QED
    BY <1>13, <1>14, <1>15, <1>16, <2>1 DEF EntriesFound
<1>20. ErrorsRight(u, mods)
  BY <1>13, <1>14, <1>15 DEF ErrorsRight
<1>21. Forward(u)
  <2>1. ASSUME NEW i \in 1 .. Len(red)
        PROVE  red'[i].next \in {Nul} \cup (i + 1 .. Len(red))
    <3>1. red[i].next \in {Nul} \cup (i + 1 .. Len(red))
      BY <1>14, <1>15 DEF Forward
    <3>2. CASE red'[i].next # red[i].next
      <4>1. i = prl /\ red'[i].next = node.next
        BY <1>9, <1>10, <3>2
      <4>2. rl > i
        BY <1>2, <1>11, <3>1, <4>1 DEF Nul
      <4> QED
        BY <1>2, <1>3, <4>1, <4>2
    <3> QED
      BY <3>1, <3>2
  <2> QED
    BY <1>12, <1>13, <2>1 DEF Forward
<1>22. NoneForgotten(u, mods)
  <2> SUFFICES ASSUME ~errors, NEW x \in Sym, NEW i \in 1 .. n, Exports(mods, i, x)
               PROVE  mods[i].class <= mods[sym'[x].mod].class \/ Kept(u, i, x)
    BY <1>13 DEF NoneForgotten
  <2>1. mods[i].class <= mods[sym[x].mod].class \/ Kept(t, i, x)
    BY <1>14, <1>15 DEF NoneForgotten
  <2>2. sym[x] # NoSym
    <3>1. Speaks(mods, i, x)
      BY DEF Speaks, Exports
    <3> QED
      BY <1>14, <1>15, <3>1 DEF AllPlaced, Placed
  <2>3. /\ mods[sym[x].mod].class \in Nat /\ mods[sym'[x].mod].class \in Nat
        /\ mods[sym[x].mod].class <= mods[sym'[x].mod].class /\ mods[i].class \in Nat
    BY <1>4, <1>17, <2>2
  <2>4. CASE mods[i].class <= mods[sym[x].mod].class \/ i = sym[x].mod
    BY <2>3, <2>4
  <2>5. CASE \E j \in 1 .. Len(red) : red[j].sym = x /\ red[j].mod = i
    BY <1>12, <1>13, <2>5 DEF Kept
  <2> QED
    BY <1>14, <2>1, <2>4, <2>5 DEF Kept
<1>23. Listed(u, mods)
  <2> SUFFICES ASSUME NEW i \in 1 .. Len(red),
                      mods[red[i].mod].class > mods[sym'[red[i].sym].mod].class
               PROVE  i \in ListFrom(red', redfirst')
    BY <1>12, <1>13 DEF Listed
  <2> DEFINE x == red[i].sym
  <2>1. x \in Sym
    <3>1. red[i] \in Node
      BY <1>2
    <3> QED
      BY <3>1 DEF Node
  <2>2. red[i].mod \in 1 .. n /\ Exports(mods, red[i].mod, x)
    BY <1>14, <1>15, <2>1 DEF AllPlaced, Waiting
  <2>3. sym[x] # NoSym
    <3>1. Speaks(mods, red[i].mod, x)
      BY <2>2 DEF Speaks, Exports
    <3> HIDE DEF x
    <3> QED
      BY <1>14, <1>15, <2>1, <2>2, <3>1 DEF AllPlaced, Placed
  <2>4. mods[red[i].mod].class > mods[sym[x].mod].class
    <3>1. mods[red[i].mod].class > mods[sym'[x].mod].class
      OBVIOUS
    <3> HIDE DEF x
    <3> QED
      BY <1>4, <1>17, <2>1, <2>2, <2>3, <3>1, SMTT(30)
  <2>5. i \in ListFrom(red, redfirst)
    BY <1>14, <1>15, <2>4 DEF Listed
  <2>6. i # rl
    <3>1. mods[node.mod].class \in Nat /\ sym'[s].mod = node.mod
      BY <1>4, <1>5, <1>7
    <3> QED
      BY <3>1 DEF s, node
  <2>7. /\ rl = redfirst => /\ redfirst' = red[rl].next
                            /\ \A j \in 1 .. Len(red) : red'[j].next = red[j].next
        /\ rl # redfirst => /\ redfirst' = redfirst
                            /\ \A j \in 1 .. Len(red) :
                                  red'[j].next = IF j = prl THEN red[rl].next ELSE red[j].next
    BY <1>9, <1>10 DEF node
  <2>8. red' \in Seq(Node) /\ Len(red') = Len(red)
    BY <1>12
  <2>9. /\ red \in Seq(Node) /\ rl \in 1 .. Len(red) /\ prl \in 0 .. Len(red)
        /\ prl # Nul => red[prl].next = rl
    BY <1>2, <1>11
  <2> HIDE DEF x
  <2>10. Unlinked(red, redfirst, rl, prl, red', redfirst')
    BY <2>7, <2>8, <2>9 DEF Unlinked
  <2> QED
    BY <2>5, <2>6, <2>9, <2>10, OnlyUnlinked
<1>24. Typed'
  <2>1. (From # {})'
    BY <1>1 DEF IInv, Typed, From
  <2>2. rl' \in 0 .. Len(red') /\ prl' \in 0 .. Len(red')
    BY <1>1, <1>2, <1>3, <1>12 DEF Nul
  <2>3. needlink' \in BOOLEAN
    BY <1>1
  <2> QED
    BY <1>1, <1>13, <2>1, <2>2, <2>3 DEF IInv, Typed, u
<1>25. Behind'
  BY <1>1, <1>12 DEF Behind
<1>26. Marked' /\ Phases'
  BY <1>1 DEF Marked, Phases
<1> QED
  BY <1>1, <1>18, <1>19, <1>20, <1>21, <1>22, <1>23, <1>24, <1>25, <1>26 DEF IInv, u

(* Every step keeps the invariant.                                         *)
LEMMA StepInv == IInv /\ [Next]_vars => IInv'
BY ReadModuleInv, BeginInv, MarkInv, PassInv, TakeInv, EndWalkInv, StutterInv DEF Next

(* The invariant holds whatever is read and linked.                        *)
THEOREM Invariant == Spec => []IInv
BY InitInv, StepInv, PTL DEF Spec


-----------------------------------------------------------------------------
(* What the runs check follows from the invariant.                         *)
LEMMA ClashSame ==
    ASSUME NEW s \in Sym
    PROVE  Clash(s) <=> ClashIn(mods, Len(mods), s)
BY DEF Clash, ClashIn, Exporters, ClassOf, Exports, SegOf

(* The types the runs check.                                               *)
LEMMA ImpliesTypeOK == IInv => TypeOK
<1> SUFFICES ASSUME IInv PROVE TypeOK
  OBVIOUS
<1>1. From # {} /\ Len(mods) \in Nat
  BY DEF IInv, Typed
<1>2. ASSUME NEW s \in Sym PROVE sym[s].mod \in 0 .. Len(mods)
  <2>1. IF sym[s] = NoSym THEN TRUE ELSE sym[s].mod \in 1 .. Len(mods)
    BY TablesFields DEF IInv, AllPlaced, Placed
  <2> QED
    BY <1>1, <2>1 DEF NoSym
<1>3. ASSUME NEW i \in 1 .. Len(red)
      PROVE  /\ red[i].mod \in 1 .. Len(mods) /\ red[i].sym \in Sym
             /\ red[i].next \in {Nul} \cup (i + 1 .. Len(red))
  <2>1. red[i] \in Node
    BY TablesFields DEF IInv, Typed
  <2>2. red[i].sym \in Sym
    BY <2>1 DEF Node
  <2>3. Waiting(Tables, mods, Len(mods), red[i].sym)
    BY <2>2 DEF IInv, AllPlaced
  <2>4. red[i].mod \in 1 .. Len(mods)
    BY <2>3, TablesFields DEF Waiting
  <2> QED
    BY <2>2, <2>4, TablesFields DEF IInv, Forward
<1>4. {redfirst, rl, prl} \subseteq 0 .. Len(red)
  BY TablesFields DEF IInv, Typed, Forward
<1>5. {errors, needlink} \subseteq BOOLEAN
  BY TablesFields DEF IInv, Typed
<1> QED
  BY <1>1, <1>2, <1>3, <1>4, <1>5 DEF TypeOK, IInv, Typed

(* Wherever a symbol is bound, it has the value that module gives it, and  *)
(* the list of redefinitions never leads backwards.                        *)
THEOREM Values == Spec => []ValueOfModule
<1>1. IInv => ValueOfModule
  <2> SUFFICES ASSUME IInv PROVE ValueOfModule
    OBVIOUS
  <2>1. TypeOK
    BY ImpliesTypeOK
  <2>2. \A s \in Sym : sym[s] # NoSym => sym[s].value = mods[sym[s].mod].decl[s].value
    BY TablesFields DEF IInv, AllPlaced, Placed
  <2> QED
    BY <2>1, <2>2 DEF ValueOfModule, Found
<1> QED
  BY <1>1, Invariant, PTL

(* Names are bound by class, and what cannot be is an error, whatever the  *)
(* order in which the modules are read.                                    *)
THEOREM Bindings == Spec => []BoundByClass
<1>1. IInv => ClashesReported
  BY ClashSame, TablesFields DEF IInv, ErrorsRight, ClashesReported
<1>2. IInv => LowestClass
  <2> SUFFICES ASSUME IInv, pc = "read", ~errors, NEW s \in Sym
               PROVE  /\ \A m \in Exporters(s) : sym[s].exp /\ ClassOf(sym[s].mod) <= ClassOf(m)
                      /\ Exporters(s) = {} =>
                            \A m \in 1 .. Len(mods) :
                                s \in Mentions(m) => mods[m].decl[s].value <= sym[s].value
    BY DEF LowestClass
  <2>1. Ranked(Tables, mods, Len(mods), s) /\ Largest(Tables, mods, Len(mods), s)
    BY DEF IInv, Phases, AllRead, NameRead
  <2>2. \A m \in Exporters(s) : sym[s].exp /\ ClassOf(sym[s].mod) <= ClassOf(m)
    BY <2>1, TablesFields DEF Ranked, Exporters, Exports, ClassOf
  <2>3. ASSUME Exporters(s) = {}, NEW m \in 1 .. Len(mods), s \in Mentions(m)
        PROVE  mods[m].decl[s].value <= sym[s].value
    <3>1. \A i \in 1 .. Len(mods) : ~Exports(mods, i, s)
      BY <2>3 DEF Exporters, Exports
    <3> QED
      BY <2>1, <2>3, <3>1, TablesFields DEF Largest, Mentions, Speaks
  <2> QED
    BY <2>2, <2>3
<1> QED
  BY <1>1, <1>2, Invariant, PTL DEF BoundByClass

(* No redefinition that could still win is lost from the list, although    *)
(* the walk takes nodes off it with a pointer that may be stale.           *)
THEOREM NodesKept == Spec => []NoneLost
<1>1. IInv => NoneLost
  BY TablesFields DEF IInv, Listed, NoneLost, ClassOf, OnList
<1> QED
  BY <1>1, Invariant, PTL

(* When linking is done, what is loaded is what the entry symbols lead to, *)
(* with the bindings as they are, and every name is taken from the highest *)
(* class among the loaded modules that export it.                          *)
THEOREM LinkedRight == Spec => []Linked
<1>1. IInv => Linked
  <2> SUFFICES ASSUME IInv, pc = "done"
               PROVE  /\ Complete(load) /\ \A set \in SUBSET load : Complete(set) => set = load
                      /\ ~errors => \A s \in Sym : \A m \in Exporters(s) \cap load :
                                       ClassOf(m) <= ClassOf(sym[s].mod)
    BY DEF Linked
  <2>1. ~needlink /\ rl = Nul
    BY DEF IInv, Phases
  <2>2. load = linkrefs(Roots) /\ \A i \in OnList \ ListFrom(red, Nul) : ~Wins(red[i])
    BY <2>1 DEF IInv, Marked
  <2>3. /\ Roots \subseteq load /\ Closed(load)
        /\ \A set : Roots \subseteq set /\ Closed(set) => load \subseteq set
    <3>1. mods \in Seq(Module)
      BY DEF IInv, Typed
    <3> QED
      BY <2>2, <3>1, MarkedExist, LinkrefsRight
  <2>4. Complete(load) /\ \A set \in SUBSET load : Complete(set) => set = load
    BY <2>3 DEF Complete, Closed
  <2>5. ASSUME ~errors, NEW s \in Sym, NEW m \in Exporters(s) \cap load
        PROVE  ClassOf(m) <= ClassOf(sym[s].mod)
    <3>1. m \in 1 .. Len(mods) /\ Exports(mods, m, s) /\ Speaks(mods, m, s)
      BY DEF Exporters, Exports, Speaks
    <3>2. ClassOf(m) <= ClassOf(sym[s].mod) \/ Kept(Tables, m, s)
      BY <2>5, <3>1, TablesFields DEF IInv, NoneForgotten, ClassOf
    <3>3. sym[s].mod \in 1 .. Len(mods)
      BY <3>1, TablesFields DEF IInv, AllPlaced, Placed
    <3>4. ClassOf(m) \in Nat /\ ClassOf(sym[s].mod) \in Nat
      <4>1. mods[m] \in Module /\ mods[sym[s].mod] \in Module
        BY <3>1, <3>3 DEF IInv, Typed
      <4> QED
        BY <4>1, ModuleType DEF IsModule, ClassOf
    <3>5. CASE \E j \in 1 .. Len(red) : red[j].sym = s /\ red[j].mod = m
      <4>1. PICK j \in 1 .. Len(red) : red[j].sym = s /\ red[j].mod = m
        BY <3>5
      <4>2. ListFrom(red, Nul) = {}
        BY DEF ListFrom, Leads
      <4> SUFFICES ASSUME ClassOf(m) > ClassOf(sym[s].mod) PROVE FALSE
        BY <3>4
      <4>3. j \in OnList
        BY <4>1, TablesFields DEF IInv, Listed, ClassOf, OnList
      <4>4. Wins(red[j])
        BY <4>1 DEF Wins
      <4> QED
        BY <2>2, <4>2, <4>3, <4>4
    <3> QED
      BY <3>2, <3>4, <3>5, TablesFields DEF Kept
  <2> QED
    BY <2>4, <2>5
<1> QED
  BY <1>1, Invariant, PTL
=============================================================================
