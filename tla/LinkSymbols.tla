----------------------------- MODULE LinkSymbols ----------------------------
(***************************************************************************)
(* ld/readobj.c and ld/linksyms.c: which modules ld86 loads, and which of  *)
(* several definitions of a symbol it uses.                                *)
(*                                                                         *)
(* Modules are read one after the other.  A name that several modules of   *)
(* different classes export is bound to the lowest class; the others wait  *)
(* on the list of redefinitions.  Linking then alternates between marking  *)
(* the modules the entry symbols lead to and walking that list, where a    *)
(* marked module of a higher class takes its symbols over, until nothing   *)
(* changes.  The list has its pointers: an index into red, or Nul.         *)
(*                                                                         *)
(* Names are numbers, in the order a module lists them.  Names that are    *)
(* neither exported nor imported lead only to their own module and are     *)
(* left out, and so are files and archives, which only order the modules.  *)
(***************************************************************************)
EXTENDS Naturals, Sequences

CONSTANTS NSyms,       \* the names are 1 .. NSyms
          MainNames,   \* "_start" and "_main": the names tried as entry
          StartNames,  \* "start", if it is among the names
          AnySeg,      \* the segment number that matches any
          Files        \* bound: a set of sequences; for each module read, the set
                       \* it is one of; a module has a class and says something
                       \* of every name

Sym == 1 .. NSyms
Nul == 0

(* What a module says of a name.  The value of an import is 0 or the size  *)
(* of a common area, that of an export its place in the module.            *)
Decl == [kind : {"absent", "import", "export"}, entry : BOOLEAN, value : Nat, seg : Nat]

ASSUME LinkAssumption ==
    /\ NSyms \in Nat /\ AnySeg \in Nat
    /\ MainNames \in Seq(Sym) /\ StartNames \subseteq Sym
    /\ Files # {}
    /\ \A files \in Files :
          /\ Len(files) \in Nat
          /\ \A m \in 1 .. Len(files) : \A f \in files[m] :
                f.class \in Nat /\ \A s \in Sym : f.decl[s] \in Decl

VARIABLES mods,      \* the modules read: class, and what each says of a name
          sym,       \* hashtab: each name's module, value, segment, or NoSym
          red,       \* nodes of the list of redefinitions, in order of creation
          redfirst,  \* the first of them still on the list
          entries,   \* the list of entry symbols
          errors,    \* whether errcount is not 0
          load,      \* modules with loadflag
          pc,        \* "read", "mark", "walk", "done" or "fatal"
          rl, prl,   \* rlptr and prlptr of the walk
          needlink

vars == <<mods, sym, red, redfirst, entries, errors, load, pc, rl, prl, needlink>>
tables == <<sym, red, redfirst, entries, errors>>

NoSym == [mod |-> 0, value |-> 0, seg |-> AnySeg, exp |-> FALSE]
Found(s) == sym[s] # NoSym

-----------------------------------------------------------------------------
(* Reading.  The tables are one record t while a module's names are taken  *)
(* one by one; m is modlast and ms the modules with it.                    *)
entrysym(list, s) == IF \E i \in 1 .. Len(list) : list[i] = s THEN list ELSE Append(list, s)

OnRedlist(t, ms, s, class) ==
    \E i \in 1 .. Len(t.red) : t.red[i].sym = s /\ ms[t.red[i].mod].class = class

(* Append a node; redlast is the newest of them.                           *)
ChainedToItself(nodes) ==
    [i \in 1 .. Len(nodes) |->
       IF i = Len(nodes) THEN [nodes[i] EXCEPT !.next = i] ELSE nodes[i]]
Chained(nodes) ==
    [i \in 1 .. Len(nodes) |->
       IF i = Len(nodes) THEN [nodes[i] EXCEPT !.next = i + 1] ELSE nodes[i]]
AddRed(t, node) ==
    [t EXCEPT !.red = Append(Chained(@), node), !.redfirst = IF @ = Nul THEN 1 ELSE @]

(* A second export: an error if the class is taken, else the lower class   *)
(* has the symbol and the other waits.                                     *)
redsymKeepValue(t, ms, m, s, value) ==
    LET bound == t.sym[s]
        node(mod, v) == [sym |-> s, mod |-> mod, value |-> v, next |-> Nul]
    IN  IF ms[bound.mod].class = ms[m].class \/ OnRedlist(t, ms, s, ms[m].class)
        THEN [t EXCEPT !.errors = TRUE]
        ELSE IF ms[bound.mod].class < ms[m].class THEN AddRed(t, node(m, value))
        ELSE AddRed([t EXCEPT !.sym[s].mod = m], node(bound.mod, bound.value))
redsym(t, ms, m, s, value) ==
    LET bound == t.sym[s]
        node(mod, v) == [sym |-> s, mod |-> mod, value |-> v, next |-> Nul]
    IN  IF ms[bound.mod].class = ms[m].class \/ OnRedlist(t, ms, s, ms[m].class)
        THEN [t EXCEPT !.errors = TRUE]
        ELSE IF ms[bound.mod].class < ms[m].class THEN AddRed(t, node(m, value))
        ELSE AddRed([t EXCEPT !.sym[s].mod = m, !.sym[s].value = value],
                    node(bound.mod, bound.value))

(* The name is this module's now.                                          *)
Define(t, m, s, d, seg) ==
    [t EXCEPT !.sym[s] = [mod |-> m, value |-> d.value, seg |-> seg, exp |-> d.kind = "export"],
              !.entries = IF d.entry THEN entrysym(@, s) ELSE @]

(* The highest segment number means any segment, on either side.           *)
SettledSegment(old, d) == IF old.seg = AnySeg THEN d.seg ELSE old.seg

AddsNothingEver(old, d) == d.kind = "import"
AddsNothing(old, d) == d.kind = "import" /\ d.value <= old.value

(* One name of a module.                                                   *)
ReadSym(t, ms, m, s) ==
    LET d == ms[m].decl[s]
        old == t.sym[s]
        oldseg == SettledSegment(old, d)
        seg == IF old.seg # AnySeg /\ d.seg = AnySeg THEN old.seg ELSE d.seg
        u == [t EXCEPT !.sym[s].seg = oldseg]
    IN  IF d.kind = "absent" THEN t
        ELSE IF old = NoSym THEN Define(t, m, s, d, d.seg)
        ELSE IF seg # oldseg THEN [u EXCEPT !.errors = TRUE]
        ELSE IF old.exp THEN IF d.kind = "export" THEN redsym(u, ms, m, s, d.value) ELSE u
        ELSE IF AddsNothing(old, d) THEN u
        ELSE Define(u, m, s, d, seg)

(* All of its names, in their order: the tables before each.               *)
Reads(t, ms, m) ==
    LET read[s \in 0 .. NSyms] == IF s = 0 THEN t ELSE ReadSym(read[s - 1], ms, m, s)
    IN  read

Tables == [sym |-> sym, red |-> red, redfirst |-> redfirst, entries |-> entries, errors |-> errors]

readmodule(file) ==
    LET ms == Append(mods, file)
        t == Reads(Tables, ms, Len(ms))[NSyms]
    IN  /\ pc = "read"
        /\ mods' = ms
        /\ sym' = t.sym /\ red' = t.red /\ redfirst' = t.redfirst
        /\ entries' = t.entries /\ errors' = t.errors
        /\ UNCHANGED <<load, pc, rl, prl, needlink>>

-----------------------------------------------------------------------------
(* Linking.  linkrefs follows every name a module mentions to the module   *)
(* that has it; starting with no flags it marks all that can be reached.   *)
Mentions(m) == {s \in Sym : mods[m].decl[s].kind # "absent"}

Reached(from) ==
    LET reached[n \in 0 .. Len(mods)] ==
            IF n = 0 THEN from
            ELSE reached[n - 1] \cup
                 {sym[s].mod : s \in UNION {Mentions(m) : m \in reached[n - 1]}}
    IN  reached

linkrefs(from) == Reached(from)[Len(mods)]

Roots == {sym[entries[i]].mod : i \in 1 .. Len(entries)}
         \cup {sym[s].mod : s \in {x \in StartNames : Found(x)}}

(* linksyms begins: the first of the entry names that exists is an entry.  *)
Begin ==
    LET found == {i \in 1 .. Len(MainNames) : Found(MainNames[i])}
        first == CHOOSE i \in found : \A j \in found : i <= j
    IN  /\ pc = "read" /\ mods # <<>>
        /\ entries' = IF found = {} THEN entries ELSE entrysym(entries, MainNames[first])
        /\ pc' = IF entries' = <<>> THEN "fatal" ELSE "mark"
        /\ UNCHANGED <<mods, sym, red, redfirst, errors, load, rl, prl, needlink>>

KeepNeed == needlink
ClearNeed == FALSE

Mark ==
    /\ pc = "mark"
    /\ load' = linkrefs(Roots)
    /\ needlink' = ClearNeed
    /\ rl' = redfirst /\ prl' = Nul
    /\ pc' = "walk"
    /\ UNCHANGED <<mods, tables>>

ClassOf(m) == mods[m].class

Wins(node) == node.mod \in load /\ ClassOf(node.mod) > ClassOf(sym[node.sym].mod)

(* Taking a node off the list.  prlptr is the node before only if that one *)
(* was left on the list.                                                   *)
UnlinkFirst(next) == redfirst' = next /\ UNCHANGED red
Unlink(next) ==
    IF rl = redfirst THEN redfirst' = next /\ UNCHANGED red
    ELSE red' = [red EXCEPT ![prl].next = next] /\ UNCHANGED redfirst

Walk ==
    /\ pc = "walk" /\ rl # Nul
    /\ LET node == red[rl] IN
       /\ IF Wins(node)
          THEN /\ sym' = [sym EXCEPT ![node.sym].mod = node.mod, ![node.sym].value = node.value]
               /\ Unlink(node.next)
               /\ needlink' = TRUE
          ELSE UNCHANGED <<sym, red, redfirst, needlink>>
       /\ prl' = rl /\ rl' = node.next
    /\ UNCHANGED <<mods, entries, errors, load, pc>>

OneRound(need) == "done"
NextRound(need) == IF need THEN "mark" ELSE "done"

EndWalk ==
    /\ pc = "walk" /\ rl = Nul
    /\ pc' = NextRound(needlink)
    /\ UNCHANGED <<mods, tables, load, rl, prl, needlink>>

\* What the modules read so far may be the beginning of.
From == {files \in Files : Len(mods) <= Len(files) /\ \A m \in 1 .. Len(mods) : mods[m] \in files[m]}

Init ==
    /\ mods = <<>> /\ sym = [s \in Sym |-> NoSym]
    /\ red = <<>> /\ redfirst = Nul /\ entries = <<>> /\ errors = FALSE
    /\ load = {} /\ pc = "read" /\ rl = Nul /\ prl = Nul /\ needlink = FALSE

ReadModule ==
    \E files \in From : /\ Len(mods) < Len(files)
                        /\ \E file \in files[Len(mods) + 1] : readmodule(file)

Next == ReadModule \/ Begin \/ Mark \/ Walk \/ EndWalk

Spec == Init /\ [][Next]_vars /\ WF_vars(Next)

-----------------------------------------------------------------------------
TypeOK ==
    /\ From # {}
    /\ \A s \in Sym : sym[s].mod \in 0 .. Len(mods)
    /\ \A i \in 1 .. Len(red) : /\ red[i].mod \in 1 .. Len(mods) /\ red[i].sym \in Sym
                                /\ red[i].next \in {Nul} \cup (i + 1 .. Len(red))
    /\ {redfirst, rl, prl} \subseteq 0 .. Len(red)
    /\ load \subseteq 1 .. Len(mods)
    /\ pc \in {"read", "mark", "walk", "done", "fatal"}
    /\ {errors, needlink} \subseteq BOOLEAN

Exporters(s) == {m \in 1 .. Len(mods) : mods[m].decl[s].kind = "export"}

(* Wherever a symbol is bound, it has the value that module gives it: a    *)
(* binding that moves between modules never leaves its value behind; and   *)
(* the nodes of the list of redefinitions never lead backwards.            *)
ValueOfModule ==
    TypeOK /\ \A s \in Sym : Found(s) => sym[s].value = mods[sym[s].mod].decl[s].value

(* errcount is raised for exactly the names two modules of one class       *)
(* export, or that are in two segments; nothing depends on the order in    *)
(* which the modules are read.                                             *)
Clash(s) ==
    LET by == 1 .. Len(mods)
        seg(m) == IF mods[m].decl[s].kind = "absent" THEN AnySeg ELSE mods[m].decl[s].seg
    IN  \/ \E m, n \in Exporters(s) : m # n /\ ClassOf(m) = ClassOf(n)
        \/ \E m, n \in by : seg(m) # AnySeg /\ seg(n) # AnySeg /\ seg(m) # seg(n)
ClashesReported == errors <=> \E s \in Sym : Clash(s)

(* When all is read a name belongs to the lowest class that exports it,    *)
(* and if none does to the largest common area asked for.                  *)
LowestClass ==
    pc = "read" /\ ~errors =>
        \A s \in Sym :
            /\ \A m \in Exporters(s) : sym[s].exp /\ ClassOf(sym[s].mod) <= ClassOf(m)
            /\ Exporters(s) = {} =>
                  \A m \in 1 .. Len(mods) :
                      s \in Mentions(m) => mods[m].decl[s].value <= sym[s].value

(* Names are bound by class, and what cannot be is an error, whatever the  *)
(* order of the modules.                                                   *)
BoundByClass == ClashesReported /\ LowestClass

(* The nodes that the list of nodes leads to from a pointer on.            *)
Leads(nodes, first, S) ==
    first \in S \cup {Nul} /\ \A i \in S : nodes[i].next \in S \cup {Nul}
ListFrom(nodes, first) ==
    {i \in 1 .. Len(nodes) : \A S \in SUBSET (1 .. Len(nodes)) : Leads(nodes, first, S) => i \in S}
OnList == ListFrom(red, redfirst)

(* No redefinition that could still win is lost from the list, although    *)
(* the walk takes nodes off it with a pointer that may be stale.           *)
NoneLost ==
    \A i \in 1 .. Len(red) : ClassOf(red[i].mod) > ClassOf(sym[red[i].sym].mod) => i \in OnList

(* When linking is done, the loaded modules are those the entry symbols    *)
(* lead to, and no others, with the bindings as they are; and every name   *)
(* is taken from the highest class among the loaded that export it.        *)
Complete(set) ==
    Roots \subseteq set /\ \A m \in set : \A s \in Mentions(m) : sym[s].mod \in set
Linked ==
    pc = "done" =>
        /\ Complete(load) /\ \A set \in SUBSET load : Complete(set) => set = load
        /\ ~errors => \A s \in Sym : \A m \in Exporters(s) \cap load :
                         ClassOf(m) <= ClassOf(sym[s].mod)

(* The loop of linksyms ends.                                              *)
Terminates == <>(pc \in {"done", "fatal"})
=============================================================================
