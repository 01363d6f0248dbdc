------------------------------ MODULE BccLabel ------------------------------
(***************************************************************************)
(* Labels and branches of the compiler, bcc/label.c for the 8086: branches *)
(* are written long and made short, in the output buffer, when their label *)
(* turns out to be near.  g is the code so far: g.code the instructions,   *)
(* g.lc the location counter, g.vis the last labels and branches, a        *)
(* circular table, g.next the place in it to use next.                     *)
(***************************************************************************)
EXTENDS Integers, Sequences, SequencesExt

CONSTANTS MAXVISLAB,     \* places in the table, 32
          MAXSCHTO,      \* reach of a short branch, 127
          OUTBUFSIZE     \* instructions in half of the output buffer

ASSUME LabelAssumption == MAXVISLAB \in Nat \ {0} /\ MAXSCHTO \in Nat /\ OUTBUFSIZE \in Nat \ {0}

Free == [labnum |-> 0, lablc |-> 0, labpatch |-> 0, labcond |-> ""]
NoCode == [code |-> <<>>, lc |-> 0, vis |-> [i \in 0 .. MAXVISLAB - 1 |-> Free], next |-> 0]

isshortbranch(n) == n \in -MAXSCHTO - 1 .. MAXSCHTO
Shorter(cond) == IF cond = "RA" THEN 1 ELSE 3         \* jmplonger, jcclonger
Branch(cond, label, short) ==
    [op |-> "branch", cond |-> cond, label |-> label, short |-> short,
     size |-> IF short THEN 2 ELSE 2 + Shorter(cond)]

(* flushout: when a half of the buffer is full the other one is written    *)
(* out and used again: the branches in it cannot be patched any more.      *)
clearlabels(vis, patchtop) ==
    [i \in DOMAIN vis |-> IF vis[i].labpatch \in 1 .. patchtop THEN [vis[i] EXCEPT !.labnum = 0] ELSE vis[i]]

Emit(g, i) ==
    [g EXCEPT !.code = Append(@, i), !.lc = @ + i.size,
              !.vis = IF (Len(g.code) + 1) % OUTBUFSIZE = 0
                      THEN clearlabels(@, Len(g.code) + 1 - OUTBUFSIZE) ELSE @]

addlabel(g, cond, label, patch) ==
    [g EXCEPT !.vis[g.next] = [labnum |-> label, lablc |-> g.lc, labpatch |-> patch, labcond |-> cond],
              !.next = (@ + 1) % MAXVISLAB]

\* findlabel: the first entry counts, and only if it is the label itself.
Defined(g, label) ==
    \E i \in DOMAIN g.vis : /\ g.vis[i].labnum = label /\ g.vis[i].labpatch = 0
                            /\ \A j \in 0 .. i - 1 : g.vis[j].labnum # label
LocationOf(g, label) ==
    g.vis[CHOOSE i \in DOMAIN g.vis : g.vis[i].labnum = label /\ \A j \in 0 .. i - 1 : g.vis[j].labnum # label].lablc

lbranch(g, cond, label) ==
    IF Defined(g, label)
    THEN Emit(g, Branch(cond, label, isshortbranch(g.lc - LocationOf(g, label) + 2)))
    ELSE LET h == Emit(g, Branch(cond, label, FALSE))
         IN  IF (Len(g.code) + 1) % (2 * OUTBUFSIZE) = 0      \* the buffer wraps around
             THEN h
             ELSE addlabel(h, cond, label, Len(g.code) + 1)

(* deflabel: from the newest entry to the oldest, a branch to the label    *)
(* that can be short is made so, and all that is behind it moves.          *)
Age(g, i) == (g.next - 1 - i) % MAXVISLAB
Moved(e, n) == [e EXCEPT !.lablc = @ - n]
MoveNone(g, i, n) == g
Move(g, i, n) ==
    [g EXCEPT !.vis = [j \in DOMAIN @ |-> IF Age(g, j) < Age(g, i) THEN Moved(@[j], n) ELSE @[j]]]

Patch(g, label, i) ==
    LET e == g.vis[i]
    IN  IF e.labnum = label /\ e.labpatch # 0 /\ isshortbranch(g.lc - e.lablc)
        THEN Move([g EXCEPT !.code[e.labpatch] = Branch(e.labcond, label, TRUE),
                            !.lc = @ - Shorter(e.labcond)], i, Shorter(e.labcond))
        ELSE g

Patches(g, label) ==
    LET patched[n \in 0 .. MAXVISLAB] ==
            IF n = 0 THEN g ELSE Patch(patched[n - 1], label, (g.next - n) % MAXVISLAB)
    IN  patched[MAXVISLAB]

LabelHere(label) == [op |-> "label", label |-> label, size |-> 0]
deflabel(g, label) == addlabel(Patches(Emit(g, LabelHere(label)), label), "", label, 0)

--------------------------------------------------------------------------
(* Where the instructions end, if the sizes they have now are added up;    *)
(* and whether each short branch reaches the label it names.               *)
Ends(code) ==
    LET at[n \in 0 .. Len(code)] == IF n = 0 THEN 0 ELSE at[n - 1] + code[n].size IN at
Where(code, l) == CHOOSE i \in DOMAIN code : code[i].op = "label" /\ code[i].label = l
ShortReach(code) ==
    \A i \in DOMAIN code : code[i].op = "branch" /\ code[i].short =>
        isshortbranch(Ends(code)[Where(code, code[i].label)] - Ends(code)[i])
=============================================================================
