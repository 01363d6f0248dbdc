----------------------------- MODULE MCArchive -----------------------------
EXTENDS Archive

File(size, syms) == [size |-> size, syms |-> syms, object |-> syms # <<>>]
MCContent == [n \in {"a.o", "b.o", "c"} |->
                  CASE n = "a.o" -> <<File(1, <<"x">>), File(3, <<"x", "y">>)>>
                    [] n = "b.o" -> <<File(2, <<"z">>)>>
                    [] n = "c" -> <<File(1, <<>>)>>]
Files == {<<"a.o">>, <<"c">>, <<"b.o", "a.o">>}
Job(op, files, pos, posname, newer, symdef) ==
    [op |-> op, files |-> files, pos |-> pos, posname |-> posname, newer |-> newer, symdef |-> symdef]
Placed == {<<"end", "">>, <<"after", "a.o">>, <<"before", "a.o">>, <<"before", "b.o">>}
MCJobs ==
    {Job("d", f, "end", "", FALSE, FALSE) : f \in Files} \cup {Job("q", f, "end", "", FALSE, FALSE) : f \in {<<"a.o">>, <<"c", "b.o">>}}
    \cup {Job("m", f, p[1], p[2], FALSE, FALSE) : <<f, p>> \in Files \X Placed}
    \cup {Job("r", f, p[1], p[2], n, s) : <<f, p, n, s>> \in Files \X Placed \X {FALSE} \X BOOLEAN}
    \cup {Job("r", f, "end", "", TRUE, FALSE) : f \in Files}
MCStart == {<<"a.o", "b.o", "c">>, <<"c", "b.o">>}
Moves == {Job("m", <<f>>, "end", "", FALSE, FALSE) : f \in {"a.o", "b.o", "c"}}
MCFresh == {NoSymbols, Symbols("null", 0, 1, <<>>), Symbols("null", 1, 0, <<>>), Symbols("wild", 0, 0, <<>>), Symbols("wild", 1, 0, <<>>)}
=============================================================================
