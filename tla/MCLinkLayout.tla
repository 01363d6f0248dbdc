---------------------------- MODULE MCLinkLayout ----------------------------
(* Values of LinkLayout's constants that a configuration cannot write down. *)
EXTENDS LinkLayout

Call(sepid, uzp, tb, db) ==
    [sepid |-> sepid, uzp |-> uzp, bits32 |-> FALSE, tb |-> tb, db |-> db, heap |-> 0]

(* Bases at paragraphs; -D only with data of its own.                      *)
Aligned == {Call(i, z, tb, db) : i, z \in BOOLEAN, tb \in {0, 256}, db \in {0, 32}}
              \ {Call(FALSE, z, tb, 32) : z \in BOOLEAN, tb \in {0, 256}}
\* The top of the heap asked for, and programs of 32 bits.
Large == {[Call(i, z, 0, 0) EXCEPT !.heap = 60000, !.bits32 = b] : i, z, b \in BOOLEAN}
            \cup {Call(i, FALSE, 0, 0) : i \in BOOLEAN}

(* Programs with text in some segments, of certain sizes, and of data for  *)
(* the first module, so that there is some; common areas are in segment 3. *)
Programs(opts, used, sizes, data, commons) ==
    [opt    : opts,
     size   : {[i \in 1 .. NMods |-> [seg \in Seg |->
                  CASE seg \notin used -> 0 [] seg = 1 /\ i = 1 -> data [] OTHER -> f[i][seg]]] :
                 f \in [1 .. NMods -> [used -> sizes]]},
     common : {[i \in 1 .. NMods |-> [seg \in Seg |-> IF seg = 3 THEN g[i] ELSE 0]] :
                 g \in [1 .. NMods -> commons]}]

Small == Programs(Aligned, {0, 1, 3}, {0, 3}, 5, {0, 3})
FarText == Programs(Aligned, {0, 1, 4, 5}, {0, 3}, 5, {0})
Around64k == Programs(Large, {0, 1, 3}, {0, 32769}, 65532, {0, 3})
AnyProgram == Small \cup FarText \cup Around64k
=============================================================================
