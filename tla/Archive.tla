------------------------------ MODULE Archive ------------------------------
(***************************************************************************)
(* ar86, ar/ar.c: an archive is read into a linked map of its members, the *)
(* map is edited, and a new archive is written from it to a temporary file *)
(* that takes the old one's place.  The process may die between any two    *)
(* writes.  Sizes and offsets count units of an even number of bytes; a    *)
(* header is one of them.                                                  *)
(***************************************************************************)
EXTENDS Integers, Sequences, FiniteSets, SequencesExt

CONSTANTS Names,         \* of files
          Content,       \* of each, version by version: [size, syms, object]
          Jobs,          \* command lines: [op, files, pos, posname, newer, symdef]
          Start,         \* versions of the files that may be in the archive at first
          Fresh,         \* what malloc may have left where an element keeps its symbols
          MaxJobs, MaxCrashes,
          MaxSize        \* where the writing of a chain that runs in a circle is left off

VARIABLES archive, temp, \* files: [exists, cells]
          ver,           \* the version of each source file, 0 when there is none
          ar,            \* the process
          jobs, crashes, \* how many there were
          wanted         \* the members the last command line asks for, and whether it went normally
vars == <<archive, temp, ver, ar, jobs, crashes, wanted>>

SYMDEF == "__.SYMDEF"
Cancelled == ""
Cell(kind, name, n, date) == [kind |-> kind, name |-> name, n |-> n, date |-> date]
ARMAG == Cell("magic", "", 0, 0)
Absent == [exists |-> FALSE, cells |-> <<>>]
Empty == [exists |-> TRUE, cells |-> <<ARMAG>>]
Header(name, size, date) == Cell("header", name, size, date)
Data(name, size, date) == [i \in 1 .. size |-> Cell("data", name, i, date)]

\* write() at an offset of a file that may be longer already.
Overwrite(cells, at, new) ==
    SubSeq(cells, 1, at) \o new \o SubSeq(cells, at + Len(new) + 1, Len(cells))

\* read() of n units, into a buffer that keeps what it had when the file ends before.
ReadAt(cells, at, n) == [i \in 1 .. n |-> IF at + i <= Len(cells) THEN cells[at + i] ELSE Cell("junk", "", 0, 0)]

--------------------------------------------------------------------------
(* The map: elements 2, 3... in a chain that starts at the dummy, 1.  An   *)
(* element with offset 0 is a file to put in.  Its symbols are at a         *)
(* pointer, null, set or wild, and counted with their strings.             *)

Symbols(at, nsymdefs, string_size, symdefs) ==
    [at |-> at, nsymdefs |-> nsymdefs, string_size |-> string_size, symdefs |-> symdefs]
NoSymbols == Symbols("null", 0, 0, <<>>)
Element(name, offset, size, date, info) ==
    [name |-> name, offset |-> offset, size |-> size, date |-> date, new_offset |-> 0, info |-> info]
Dummy == Element(Cancelled, 0, 0, 0, NoSymbols)

RECURSIVE scan(_, _)
scan(cells, at) ==
    IF at >= Len(cells) THEN <<>>
    ELSE IF cells[at + 1].kind # "header" THEN <<[Dummy EXCEPT !.offset = -1]>>
    ELSE LET h == cells[at + 1] IN <<Element(h.name, at, h.n, h.date, NoSymbols)>> \o scan(cells, at + 1 + h.n)

Members(file) == scan(file.cells, 1)
Valid(file) == /\ file.exists /\ Len(file.cells) > 0 /\ file.cells[1] = ARMAG
               /\ \A i \in DOMAIN Members(file) : Members(file)[i].offset # -1

\* No member is shorter than its header says.
Whole(file) ==
    \A i \in DOMAIN Members(file) :
        LET e == Members(file)[i]
        IN  e.name # SYMDEF => ReadAt(file.cells, e.offset + 1, e.size) = Data(e.name, e.size, e.date)

make_map(members) ==
    [elts |-> <<Dummy>> \o members,
     next |-> [i \in 1 .. Len(members) + 1 |-> IF i > Len(members) THEN 0 ELSE i + 1]]

RECURSIVE Chain(_, _, _)
Chain(next, i, seen) == IF i = 0 \/ i \in seen THEN <<>> ELSE <<i>> \o Chain(next, next[i], seen \cup {i})
From(map, i) == Chain(map.next, i, {})

last_mapelt(map) == Last(From(map, 1))
Named(map, i, name) == SelectSeq(From(map, i), LAMBDA e : map.elts[e].name = name)
find_mapelt(map, name) == IF Named(map, 1, name) = <<>> THEN 0 ELSE Named(map, 1, name)[1]
prev_mapelt(map, e) ==
    LET before == SelectSeq(From(map, 1), LAMBDA i : map.next[i] = e) IN IF e = 0 \/ before = <<>> THEN 0 ELSE before[1]

CancelNone(map, name) == map
Cancel(map, name) ==
    IF find_mapelt(map, name) = 0 THEN map ELSE [map EXCEPT !.elts[find_mapelt(map, name)].name = Cancelled]
InsertSwapped(map, e, after) == [map EXCEPT !.next[after] = e, !.next[e] = e]
InsertAfter(map, e, after) == [map EXCEPT !.next[e] = map.next[after], !.next[after] = e]
AddAfter(map, elt, after) ==
    InsertAfter([elts |-> Append(map.elts, elt), next |-> Append(map.next, 0)], Len(map.elts) + 1, after)

\* The place a command line asks for, 0 if there is none.
Place(map, job) ==
    CASE job.pos = "end" -> last_mapelt(map)
      [] job.pos = "after" -> find_mapelt(map, job.posname)
      [] job.pos = "before" -> prev_mapelt(map, find_mapelt(map, job.posname))

\* Editing goes file by file: [map, after, changed].
delete_from_map(edit, name) == [edit EXCEPT !.map = Cancel(@, name)]

Unlinked(map, e) == [map EXCEPT !.next[prev_mapelt(map, e)] = map.next[e]]
move_in_map(edit, name) ==
    LET e == find_mapelt(edit.map, name)
        map == InsertAfter(Unlinked(edit.map, e), e, edit.after)
    IN  IF e = 0 THEN edit ELSE [edit EXCEPT !.map = map, !.after = map.next[edit.after]]

\* The new element keeps what memory had where its symbols go.
insert_in_map(edit, name, newer, memory) ==
    LET old == find_mapelt(edit.map, name)
        file == Content[name][ver[name]]
        map == AddAfter(Cancel(edit.map, name), Element(name, 0, file.size, ver[name], memory), edit.after)
    IN  IF ver[name] = 0 THEN edit
        ELSE IF old # 0 /\ newer /\ ver[name] <= edit.map.elts[old].date THEN edit
        ELSE [map |-> map, after |-> map.next[edit.after], changed |-> TRUE]

Edited(job, map, after, memory) ==
    FoldLeft(LAMBDA edit, name : CASE job.op = "d" -> delete_from_map(edit, name)
                                   [] job.op = "m" -> move_in_map(edit, name)
                                   [] job.op \in {"r", "q"} -> insert_in_map(edit, name, job.newer, memory[name]),
             [map |-> map, after |-> after, changed |-> FALSE], job.files)

--------------------------------------------------------------------------
(* The index of symbols, __.SYMDEF: entries [sym, offset].                 *)

OldSymdefs(file, map, e) ==
    LET data == ReadAt(file.cells, map.elts[e].offset + 2, map.elts[e].size - 1)
    IN  [i \in DOMAIN data |-> [sym |-> data[i].name, offset |-> data[i].n]]

SymbolsOf(elt) == Content[elt.name][elt.date].syms
IsObject(elt) == Content[elt.name][elt.date].object
\* Of a file that is no object nothing is set.
make_new_symdefs(elt) ==
    LET defs == [i \in DOMAIN SymbolsOf(elt) |-> [sym |-> SymbolsOf(elt)[i], offset |-> 0]]
    IN  IF IsObject(elt) THEN [elt EXCEPT !.info = Symbols("set", Len(defs), Len(defs), defs)] ELSE elt

RelocateNone(old, elts) == old
\* Offsets of old entries become new ones member by member, in the map's order.
Relocate(old, elts) ==
    FoldLeft(LAMBDA s, e : [i \in DOMAIN s |-> IF s[i].offset = e.offset THEN [s[i] EXCEPT !.offset = e.new_offset] ELSE s[i]],
             old, SelectSeq(elts, LAMBDA e : e.info.at = "null"))
\* A member's new offset is the old one of a member that comes after it: its entries move twice.
Aliased(elts) == \E j \in DOMAIN elts : \E i \in 1 .. j - 1 : elts[i].new_offset = elts[j].offset /\ elts[i].offset # elts[j].offset

Offsets(elts, first) == FoldLeft(LAMBDA os, e : Append(os, Last(os) + e.size + 1), <<first>>, elts)

\* [map, old, ended]: the map with new symbols and offsets, what stays of the old entries, and
\* how the program ends here if it does: by going through a wild pointer, or because the
\* strings are not as many as were counted.
update_symdefs(map, first, e, old) ==
    LET chain == Range(From(map, first))
        in == {i \in chain : map.elts[i].name # Cancelled}
        gone == {map.elts[i].offset : i \in chain \ in}
        kept == SelectSeq(old, LAMBDA s : s.offset \notin gone)
        new == {i \in in : map.elts[i].name # SYMDEF /\ (old = <<>> \/ map.elts[i].offset = 0)}
        elts1 == [i \in DOMAIN map.elts |-> IF i \in new THEN make_new_symdefs(map.elts[i]) ELSE map.elts[i]]
        order == SelectSeq(From(map, first), LAMBDA i : i \in in)
        size == 1 + Len(kept) + MapThenSumSet(LAMBDA i : elts1[i].info.nsymdefs, new)
        elts2 == [elts1 EXCEPT ![e].size = size]
        offsets == Offsets([i \in DOMAIN order |-> elts2[order[i]]], 1)
        offset(i) == offsets[CHOOSE k \in DOMAIN order : order[k] = i]
        elts3 == [i \in DOMAIN elts2 |->
                     IF i \notin in THEN elts2[i]
                     ELSE [elts2[i] EXCEPT !.new_offset = offset(i),
                                           !.info.symdefs = [s \in DOMAIN @ |-> [@[s] EXCEPT !.offset = offset(i)]]]]
        final == [i \in DOMAIN order |-> elts3[order[i]]]
        wild == \E i \in chain : elts1[i].info.at = "wild" /\ elts1[i].info.nsymdefs > 0
        counted == MapThenSumSet(LAMBDA i : elts1[i].info.string_size, new)
        copied == MapThenSumSet(LAMBDA i : Len(elts1[i].info.symdefs), chain)
    IN  [map |-> [map EXCEPT !.elts = elts3], first |-> first, symdef |-> e,
         old |-> Relocate(kept, final), aliased |-> kept # <<>> /\ Aliased(final),
         ended |-> IF wild THEN "fault" ELSE IF counted # copied THEN "inconsistent" ELSE "no"]

\* write_archive: an index that is asked for but not there yet goes in front.
Indexed(map, first, file, asked) ==
    LET e == IF Named(map, first, SYMDEF) = <<>> THEN 0 ELSE Named(map, first, SYMDEF)[1]
        new == [elts |-> Append(map.elts, Element(SYMDEF, 1, 0, 0, NoSymbols)), next |-> Append(map.next, first)]
        n == Len(new.elts)
    IN  IF e # 0 THEN update_symdefs(map, first, e, OldSymdefs(file, map, e))
        ELSE IF asked THEN update_symdefs(new, n, n, <<>>)
        ELSE [map |-> map, first |-> first, symdef |-> 0, old |-> <<>>, aliased |-> FALSE, ended |-> "no"]

--------------------------------------------------------------------------
(* What a command line asks for, on the list of the members' names and     *)
(* dates: the place, then the files one by one.                            *)

Listed(file) ==
    LET ms == SelectSeq(Members(file), LAMBDA e : e.name # SYMDEF)
    IN  [i \in DOMAIN ms |-> [name |-> ms[i].name, date |-> ms[i].date]]
IndexOf(list, name) == IF \E i \in DOMAIN list : list[i].name = name
                       THEN CHOOSE i \in DOMAIN list : list[i].name = name /\ \A j \in 1 .. i - 1 : list[j].name # name
                       ELSE 0
Hole == [name |-> Cancelled, date |-> 0]
Without(list, i) == IF i = 0 THEN list ELSE [list EXCEPT ![i] = Hole]
PlaceIn(list, job) ==
    CASE job.pos = "end" -> Len(list)
      [] job.pos = "after" -> IndexOf(list, job.posname)
      [] job.pos = "before" -> IndexOf(list, job.posname) - 1

Puts(job, list, name) ==
    LET old == IndexOf(list, name)
    IN  CASE job.op = "m" -> IF old = 0 THEN <<>> ELSE <<list[old]>>
          [] job.op = "d" \/ ver[name] = 0 -> <<>>
          [] job.op = "r" /\ old # 0 /\ job.newer /\ ver[name] <= list[old].date -> <<>>
          [] OTHER -> <<[name |-> name, date |-> ver[name]]>>
Step(job, edit, name) ==
    LET new == Puts(job, edit.list, name)
        rest == IF (new = <<>> /\ job.op # "d") \/ job.op = "q" THEN edit.list
                ELSE Without(edit.list, IndexOf(edit.list, name))
    IN  [list |-> SubSeq(rest, 1, edit.at) \o new \o SubSeq(rest, edit.at + 1, Len(rest)), at |-> edit.at + Len(new)]
Result(job, list) ==
    SelectSeq(FoldLeft(LAMBDA edit, name : Step(job, edit, name),
                       [list |-> list, at |-> PlaceIn(list, job)], job.files).list, LAMBDA m : m # Hole)

\* Moves that the chain survives: move_members goes on from the element that was first, and
\* a member put after itself is lost.
SafeMove(job, list) ==
    job.op = "m" =>
        /\ Members(archive) # <<>>
        /\ \/ Members(archive)[1].name = SYMDEF
           \/ PlaceIn(list, job) > 0 /\ list[1].name \notin Range(job.files)
        /\ PlaceIn(list, job) > 0 => list[PlaceIn(list, job)].name \notin Range(job.files)
        /\ Cardinality(Range(job.files)) = Len(job.files)

--------------------------------------------------------------------------
Idle == [pc |-> "idle", map |-> make_map(<<>>), first |-> 0, tail |-> 0, symdef |-> 0, old |-> <<>>, append |-> FALSE, at |-> 0]
HasIndex(file) == \E i \in DOMAIN Members(file) : Members(file)[i].name = SYMDEF

Init ==
    /\ archive \in {Absent} \cup {[exists |-> TRUE, cells |-> <<ARMAG>> \o FlattenSeq(
           [i \in DOMAIN list |-> <<Header(list[i], Content[list[i]][1].size, 1)>> \o Data(list[i], Content[list[i]][1].size, 1)])]
               : list \in Start}
    /\ temp = Absent /\ ver \in [Names -> {1}] /\ ar = Idle /\ jobs = 0 /\ crashes = 0
    /\ wanted = [before |-> Listed(archive), after |-> Listed(archive), append |-> FALSE, clean |-> TRUE, safe |-> TRUE,
                 ended |-> "no", trusted |-> TRUE, met |-> FALSE, unlisted |-> FALSE]

\* The command line is refused, or has nothing to do.
Refused(job, made) ==
    /\ archive' = IF made /\ ~archive.exists THEN Empty ELSE archive
    /\ wanted' = [wanted EXCEPT !.before = Listed(archive'), !.after = Listed(archive'), !.ended = "no"]
    /\ UNCHANGED <<temp, ar>>

\* From the edited map to the start of the writing: the temporary file is not emptied.
Opened(job, edit, members) ==
    LET first == IF job.op = "m" THEN IF members = <<>> THEN 0 ELSE 2 ELSE edit.map.next[1]
        append == job.op = "q"
    IN  \E w \in {Indexed(edit.map, first, archive, job.symdef)} :
            /\ archive' = IF archive.exists THEN archive ELSE Empty
            /\ temp' = IF append THEN temp ELSE [exists |-> TRUE, cells |-> Overwrite(temp.cells, 0, <<ARMAG>>)]
            /\ ar' = IF w.ended # "no" THEN Idle
                     ELSE [pc |-> "write", map |-> w.map, first |-> w.first, tail |-> w.first, symdef |-> w.symdef, old |-> w.old,
                           append |-> append, at |-> IF append THEN Len(archive'.cells) ELSE 1]
            /\ wanted' = [before |-> Listed(archive'), after |-> Result(job, Listed(archive')), append |-> append,
                          clean |-> Whole(archive) /\ (append \/ ~temp.exists), safe |-> SafeMove(job, Listed(archive')),
                          ended |-> w.ended,
                          trusted |-> wanted.trusted /\ wanted.clean /\ wanted.safe,
                          met |-> wanted.met \/ w.aliased,
                          unlisted |-> wanted.unlisted \/ (append /\ HasIndex(archive'))]

\* The files whose elements are read as malloc left them: make_new_symdefs sets those of
\* objects, and without an index nothing reads them.
Unset(job) == IF job.op = "r" /\ (job.symdef \/ HasIndex(archive))
              THEN {name \in Range(job.files) : ver[name] # 0 /\ ~Content[name][ver[name]].object}
              ELSE {}
Open(job) ==
    LET members == IF archive.exists /\ job.op # "q" THEN Members(archive) ELSE <<>>
        map == make_map(members)
        after == IF job.op \in {"r", "m"} THEN Place(map, job) ELSE 1
    IN  IF after = 0 THEN Refused(job, TRUE)
        ELSE \E fresh \in [Unset(job) -> Fresh] :
             \E edit \in {Edited(job, map, after, fresh @@ [name \in Range(job.files) |-> NoSymbols])} :
            IF job.op = "r" /\ ~edit.changed /\ (~job.symdef \/ HasIndex(archive)) THEN Refused(job, TRUE)
            ELSE Opened(job, edit, members)

Run(job) ==
    /\ ar.pc = "idle" /\ jobs < MaxJobs /\ jobs' = jobs + 1
    /\ IF job.op \in {"d", "m"} /\ ~archive.exists THEN Refused(job, FALSE)
       ELSE IF job.op # "q" /\ archive.exists /\ ~Valid(archive) THEN Refused(job, FALSE)
       ELSE Open(job)
    /\ UNCHANGED <<ver, crashes>>

delete_members(job) == job.op = "d" /\ Run(job)
move_members(job) == job.op = "m" /\ Run(job)
replace_members(job) == job.op = "r" /\ Run(job)
quick_append(job) == job.op = "q" /\ Run(job)

\* write_symdef_member and copy_out_member.
Entries(map, first) == LET es == SelectSeq(From(map, first), LAMBDA i : map.elts[i].info.symdefs # <<>>)
                       IN  FlattenSeq([i \in DOMAIN es |-> map.elts[es[i]].info.symdefs])
IndexCells ==
    LET es == ar.old \o Entries(ar.map, ar.first)
        size == ar.map.elts[ar.symdef].size
    IN  <<Header(SYMDEF, size, 0), Cell("count", "", size - 1, 0)>>
        \o [i \in DOMAIN es |-> Cell("entry", es[i].sym, es[i].offset, 0)]
copy_out_member(e) ==
    IF e.name = Cancelled THEN <<>>
    ELSE <<Header(e.name, e.size, e.date)>>
         \o (IF e.offset # 0 THEN ReadAt(archive.cells, e.offset + 1, e.size) ELSE Data(e.name, e.size, e.date))
Cells(i) == IF i = ar.symdef THEN IndexCells ELSE copy_out_member(ar.map.elts[i])

WrittenInPlace(at, cells) == archive' = [archive EXCEPT !.cells = Overwrite(@, at, cells)] /\ UNCHANGED temp
Written(at, cells) ==
    IF ar.append THEN archive' = [archive EXCEPT !.cells = Overwrite(@, at, cells)] /\ UNCHANGED temp
    ELSE temp' = [temp EXCEPT !.cells = Overwrite(@, at, cells)] /\ UNCHANGED archive

WriteMember ==
    /\ ar.pc = "write" /\ ar.tail # 0 /\ ar.at < MaxSize
    /\ \E cells \in {Cells(ar.tail)} :
           /\ Written(ar.at, cells)
           /\ ar' = [ar EXCEPT !.tail = ar.map.next[ar.tail], !.at = @ + Len(cells)]
    /\ UNCHANGED <<ver, jobs, crashes, wanted>>

\* With members whose place was not known their entries are gone through, which a count without
\* entries does not survive, and the index is written once more, where the old one was.
NewMembers == {i \in Range(From(ar.map, ar.first)) : ar.map.elts[i].offset = 0}
Counted == \E i \in NewMembers : ar.map.elts[i].info.at = "null" /\ ar.map.elts[i].info.nsymdefs > 0
Finish ==
    /\ ar.pc = "write" /\ ar.tail = 0
    /\ IF ar.symdef # 0 /\ Counted
       THEN ar' = Idle /\ wanted' = [wanted EXCEPT !.ended = "fault"] /\ UNCHANGED <<archive, temp>>
       ELSE /\ IF ar.symdef # 0 /\ NewMembers # {} THEN Written(ar.map.elts[ar.symdef].offset, IndexCells) ELSE UNCHANGED <<archive, temp>>
            /\ ar' = IF ar.append THEN Idle ELSE [ar EXCEPT !.pc = "unlink"]
            /\ wanted' = IF ar.append THEN [wanted EXCEPT !.ended = "done"] ELSE wanted
    /\ UNCHANGED <<ver, jobs, crashes>>

Unlink ==
    /\ ar.pc = "unlink" /\ archive' = Absent /\ ar' = [ar EXCEPT !.pc = "rename"]
    /\ UNCHANGED <<temp, ver, jobs, crashes, wanted>>
Rename ==
    /\ ar.pc = "rename" /\ archive' = temp /\ temp' = Absent /\ ar' = Idle /\ wanted' = [wanted EXCEPT !.ended = "done"]
    /\ UNCHANGED <<ver, jobs, crashes>>

\* The process dies, in the middle of a member too.
Crash ==
    /\ ar.pc # "idle" /\ crashes < MaxCrashes /\ crashes' = crashes + 1 /\ ar' = Idle
    /\ IF ar.pc = "write" /\ ar.tail # 0
       THEN \E n \in 0 .. Len(Cells(ar.tail)) : Written(ar.at, SubSeq(Cells(ar.tail), 1, n))
       ELSE UNCHANGED <<archive, temp>>
    /\ UNCHANGED <<ver, jobs, wanted>>

EditFile(name) ==
    /\ ar.pc = "idle" /\ jobs < MaxJobs /\ ver[name] < Len(Content[name]) /\ ver' = [ver EXCEPT ![name] = @ + 1]
    /\ UNCHANGED <<archive, temp, ar, jobs, crashes, wanted>>

Next ==
    \/ \E job \in Jobs : delete_members(job) \/ move_members(job) \/ replace_members(job) \/ quick_append(job)
    \/ WriteMember \/ Finish \/ Unlink \/ Rename \/ Crash
    \/ \E name \in Names : EditFile(name)
Spec == Init /\ [][Next]_vars /\ WF_vars(WriteMember \/ Finish \/ Unlink \/ Rename)

--------------------------------------------------------------------------
(* A command that went through leaves the archive with exactly the members *)
(* it asks for, whole and in their order, whatever was done before: unless *)
(* it found a temporary file or a half appended member that an earlier one *)
(* left, or made a move that the chain does not survive.                   *)
Holds(file, list) == Valid(file) /\ Listed(file) = list /\ Whole(file)
Done == wanted.ended = "done" /\ wanted.clean /\ wanted.safe
AsAsked == Done => Holds(archive, wanted.after)

(* Whenever the process dies, nothing is lost: the archive has what it had *)
(* or what was asked for, or else the temporary file has that; or members  *)
(* are being appended to it.                                               *)
NothingLost ==
    wanted.clean /\ wanted.safe =>
        \/ Holds(archive, wanted.before) \/ Holds(archive, wanted.after)
        \/ ~archive.exists /\ (Holds(temp, wanted.after) \/ wanted.before = <<>>)
        \/ wanted.append /\ IsPrefix(<<ARMAG>>, archive.cells) /\ IsPrefix(wanted.before, Listed(archive))

(* Through any commands that replace, delete and move members, each entry  *)
(* of the index leads to a member; it is the member that has the symbol,   *)
(* and the index has all symbols of all members, unless the new place of   *)
(* a member was the old place of a later one (ar.c:1937 moves the entries  *)
(* of the first with the second), and but for the symbols of members that  *)
(* q appended to an archive that had an index already, which it leaves     *)
(* alone.  Files that are no objects leave it right.                       *)
IndexOfFile(file) == LET i == CHOOSE k \in DOMAIN Members(file) : Members(file)[k].name = SYMDEF
                         e == Members(file)[i]
                         entries == ReadAt(file.cells, e.offset + 2, e.size - 1)
                     IN  {<<s.name, s.n>> : s \in Range(entries)}
Defined(file) == UNION {{<<s, e.offset>> : s \in Range(SymbolsOf(e))} : e \in {m \in Range(Members(file)) : m.name # SYMDEF /\ IsObject(m)}}
IndexKept == ar.pc = "idle" /\ Done /\ wanted.trusted /\ HasIndex(archive)
IndexRight ==
    IndexKept =>
        /\ \A entry \in IndexOfFile(archive) : \E e \in Range(Members(archive)) : e.name # SYMDEF /\ e.offset = entry[2]
        /\ ~wanted.met => IndexOfFile(archive) \subseteq Defined(archive)
        /\ ~wanted.met /\ ~wanted.unlisted => IndexOfFile(archive) = Defined(archive)

(* The writing of an archive comes to an end.                              *)
Ends == wanted.safe /\ ar.pc # "idle" ~> ar.pc = "idle"

(* The chain that is written has all members in it, wherever they are      *)
(* moved to.                                                               *)
MovedNotLost == wanted.ended = "done" /\ wanted.clean => Listed(archive) = wanted.after
=============================================================================
