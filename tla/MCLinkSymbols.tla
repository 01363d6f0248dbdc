--------------------------- MODULE MCLinkSymbols ---------------------------
(* Values of LinkSymbols' constants that a configuration cannot write down. *)
EXTENDS LinkSymbols

EitherMain == <<1, 2>>

Absent == [kind |-> "absent", entry |-> FALSE, value |-> 0, seg |-> AnySeg]
Import(common, seg) == [kind |-> "import", entry |-> FALSE, value |-> common, seg |-> seg]
(* An export's value tells which module it is from.                        *)
Export(m, entry, seg) == [kind |-> "export", entry |-> entry, value |-> m, seg |-> seg]

(* Three modules of any class that may say anything of the first name, in  *)
(* two segments or in no particular one, and less of the others.           *)
AnyThing == [m \in 1 .. 3 |->
    [class : {0, 1, 2},
     decl  : {[s \in Sym |-> CASE s = 1 -> d [] s = 2 -> e [] OTHER -> Absent] :
                d \in {Absent, Import(0, 1), Import(4, 1), Import(0, AnySeg),
                       Export(m, FALSE, 1), Export(m, FALSE, 2)},
                e \in {Absent, Import(0, 1), Export(m, TRUE, 1)}}]]

(* A main program that uses names 2 to 5, and three modules that each may  *)
(* mention some of them, so that redefinitions take effect in part, one    *)
(* after the other, and again.                                             *)
Some(m, names) == {[s \in Sym |-> IF s \in names THEN d[s] ELSE Absent] :
    d \in [names -> {Absent, Import(0, 1), Export(m, FALSE, 1)}]}
Library == <<
    {[class |-> 0, decl |-> [s \in Sym |-> IF s = 1 THEN Export(1, FALSE, 1) ELSE Import(0, 1)]]},
    [class : {0}, decl : Some(2, {2, 3, 4})],
    [class : {1}, decl : Some(3, {2, 3, 5})],
    [class : {1, 2}, decl : Some(4, {3, 4, 5})] >>
Both == {AnyThing, Library}
=============================================================================
