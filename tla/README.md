# Formal models of dev86

This directory holds TLA+ models of the parts of dev86 (Bruce Evans' C compiler,
assembler and linker for the 8086, and Robert de Bath's C library for it) whose
correctness depends on long sequences of operations, TLC configurations that
check them on small instances, and proofs that TLAPS checks for instances of any
size. Line numbers refer to the sources in this repository.

## 1. The system and its parts

dev86 is a tool chain and a library, not a concurrent system. What is hard in
it is neither interleaving nor loss of messages but *state that outlives a call*:
pointers that several functions share without saying so, lists edited while they
are walked, numbers computed in one pass and relied on in the next, code that is
written before it is known what it must do, and calls of the system that fail in
the middle of something.

| part | state it keeps | operations | interaction | what makes it correct |
|---|---|---|---|---|
| `libc/malloc` | `__freed_list`, `chunk_list`, `alloca_stack`, the break, `__alloca_alloc` | malloc, free, calloc, realloc, alloca, `__mini_malloc` | stdio and every program call it; it calls sbrk/brk | blocks never overlap, data is never written over, nothing is lost, NULL only when full |
| `libc/stdio` (stdio.c) | the FILEs, each with a buffer and flags, and `__IO_list` | putc, fputc, fwrite, getc, fgetc, fread, ungetc, fflush, fseek, ftell, rewind, setvbuf, fopen, freopen, fclose, flush at exit | macros in stdio.h change FILEs behind the functions' back; calls malloc, read, write, lseek | a stream behaves as the file itself; macros stay in the buffer; losses are reported; everything is flushed at exit |
| `cpp` | stack of included files, levels of macros being read, table of macros, counters of conditionals | tokens, directives, macro calls | run by bcc before cc1 | the right branches are taken; replacing ends and gives the right text |
| `bcc` (cc1) | input stack, symbol table, loop and switch stacks, output buffer, stack pointer | declarations, statements, expressions, code output | writes assembler source | the code does what the source says, with the stack balanced |
| `as` | symbol table, location counters, pass number, conditional stack, macro and include stacks, object buffer | assemble a line, pass switch, IF/ELSE/ENDIF, MACRO, GET, object code output | writes what `ld` reads | all passes agree; jumps reach their labels; the object file means what was assembled |
| `ld` symbols (readobj.c, linksyms.c, table.c) | hash table of symbols, modules, list of redefinitions, entry symbols | readmodule, redsym, entrysym, linksyms | ld.c calls it for each file; writex86.c uses the result | bindings do not depend on the order of modules; the link loop ends with what is needed and no more |
| `ld` layout (writex86.c, writebin.c) | segment sizes, bases, file positions | write_elks: sum, place, linkmod, padmod, setseg | reads the modules' object code again | two passes agree on every address; no byte is written twice; special symbols are right |
| `ar` | map of members, archive file, temporary file, `__.SYMDEF` | delete, move, replace, append, with an index | ld reads archives by their index | order and contents kept, also when it is killed |
| `copt` | list of lines, rules of one file, variables of a match, accumulator of expressions | match, eval, subst, replace a window, back up | run by bcc between cc1 and as | the list stays sound; it is changed by the rules and in no other way; it ends |
| `unproto`, `dis88`, `objdump86`, `elksemu`, `doselks`, `bootblocks`, `libbsd`, rest of `libc` | little | | | see PROJECT.json |

`PROJECT.json` lists every component with its sources, the ones that are not
modelled with the reason, and every hazard with its line.

## 2. Modules

| module | models | kind |
|---|---|---|
| `Heap` | what malloc, free, realloc and alloca promise | abstract specification |
| `Malloc` | libc/malloc/malloc.c | detailed; `Implements == HeapSpec!Spec` |
| `MallocProofs` | | proofs about `Malloc` and, through it, `Heap` |
| `Stream` | what a stream promises: a file, a position, pushed-back characters, no buffer | abstract specification |
| `Stdio`, `MCStdio` | one stream of libc/stdio/stdio.c with its macros | detailed; `ReportsLoss`: each call is `Unbuffered!Next` or sets the error flag |
| `StdioProofs` | | proofs about `Stdio`: its invariants; that it follows `Stream` |
| `StdioStreams` | fopen, freopen, fclose, `__IO_list`, exit | state machine |
| `StreamsProofs` | | proofs about `StdioStreams` |
| `Cpp` | cpp/cpp.c | state machine with fairness |
| `CppReference`, `MCCpp` | macros by value | reference definitions the state machine is compared with |
| `CppProofs` | | proofs about `Cpp` |
| `BccLabel` | bcc/label.c: labels and branches made short | operators on the code so far |
| `BccState` | bcc/state.c, parts of glogcode.c, function.c and preserve.c | the compiler of statements, a stack of calls to do |
| `BccProofs` | | proofs about `BccLabel` and `BccState` |
| `BccRun`, `MCBccRun` | the 8086 and the rules of C | the code and its source run side by side |
| `AsmObject` | as/genobj.c writes, ld/writex86.c reads | operators: writer and reader of object code |
| `AsmCode` | as/assemble.c, pops.c, express.c, mops.c | operators: what a line does to symbols, counters and code |
| `Assembler`, `MCAssembler` | as/readsrc.c, macro.c, pops.c, assemble.c | state machine with fairness, composes the two above |
| `AssemblerProofs` | | proofs about `Assembler` |
| `LinkSymbols`, `MCLinkSymbols` | ld/readobj.c, linksyms.c, table.c | state machine with fairness |
| `LinkProofs` | | proofs about `LinkSymbols` |
| `LinkLayout`, `MCLinkLayout` | ld/writex86.c | state machine |
| `LayoutProofs` | | proofs about `LinkLayout` |
| `Archive`, `MCArchive` | ar/ar.c | state machine with crashes and fairness |
| `CoptPattern` | copt/copt.c: eval, match, subst | operators on texts and patterns |
| `Rewriting` | what copt does to a text | abstract specification |
| `Copt`, `MCCopt` | copt/copt.c: the list of lines, the search | detailed; `Implements == Rewriting!Spec`; fairness |

`MC` modules only give values to constants that a `.cfg` cannot write down
(sequences, negative numbers, records, families of programs). Every mutated
definition that shows that a property can fail (`JoinNoUnlink`, `RelocateNone`
and so on) stands directly before the definition it is a variant of
and is used by nothing.

The programs that read a text (cpp, cc1, copt, as) choose a program in `Init`, from
families in the MC module, and are deterministic from there on; what is explored is
every program of each family, which is where their state gets into trouble.

### Malloc

Memory is a function from cell addresses to numbers. Cell `p` of a block is its
`m_size`, cell `p + 1` is `m_next` while the block is free and the caller's while
it is not; so a stale link or a write into a block in use shows in the callers'
data. Each call is one action, because nothing in the library preempts a call:
`CallMalloc` is `malloc` with its drain of the freed list, return of the top
chunk, search, growth and scavenging. `held` is what callers believe they have;
`owner` and `depth` stand for the addresses of `alloca`'s probes. `EnterFunction`
and `LeaveTo` are the program's calls, returns and longjmps. `CallLibMalloc` is a
call from inside the library, which malloc.h sends through `__alloca_alloc`.
sbrk and brk are those of libc/bcc/heap.c with the safety space already taken off.
A loop of the source is a function from the number of rounds to the state after
so many of them (`LowerMore`, `SortedIn`, `Scavenge`, `Collect`), or the first round
at which it stops (`InsertFrom`, `FitFrom`) on the list `Nth` follows, so that the prover
can reason about it; a list has fewer blocks than there are cells, which bounds them.
`SizesAssumption` says that no request is so near the wrap of unsigned int that
rounding it up wraps (malloc.c:237): the code does not look, and a caller who asked for
that much would get a block of next to nothing.

### Stdio

The FILE is a record whose `bufpos`, `bufread`, `bufwrite` and `bufend` are
offsets; the file and the descriptor's position are in it, so each function of
the source is an operator from a record to a record and a result. `room` and
`take` are what the system does during one call: how much `write` takes before it
fails, how much `read` returns. `pushed` is a ghost that counts characters of
ungetc. `Content`, `Position` and `Pushed` map a FILE to the state of `Stream`.

### StdioStreams

A FILE is an address, from a small set that malloc uses again. What matters of
its buffer is where it is and whether output is pending. `held` is the streams
the program believes open. A call that fails is taken to end the use of its
stream, as for standard C.

### Cpp and CppReference

Text is a sequence of tokens; a directive, with the whole of its line, is one of
them. `files` is the stack of included files with what is left of each, `levels`
that of macros whose value (or whose replaced arguments) is being read, as
`saved_ref` and `def_start` keep it; `PopLevel` and `PopFile` are the ends found in
`chget`, which happen in whatever is being read then. `White`, `Plain`, `Object`
and `Function` are `get_onetok`; after a function macro's name `SkipSpace`, `Bracket`
and `NoBracket` look for its bracket, `Argument`, `Called` and `CalledAtEnd` are
`gen_substrings`, `Insert` and `Inserted` one token and the end of
`insert_substrings`. The directives are an action each. The condition of an `#if`
is part of its token.

What this should come to: the ghost `met` is a stack of frames, one for each `#if`
that is open, changed by the rules of the language (`Meet`) where the program keeps three
counters and the bits of `if_stack`; `ConditionsRight` compares the two. `if_stack`, an
unsigned integer that is only shifted, is the sequence of its bits, of which the
oldest is lost when there are more than IFBITS.
`CppReference` has `Expand`, which replaces
macros by value, arguments first, hiding the names being replaced, as the C
standard does, where the program reads its own result again with marks on macros
in use. `line` is a ghost too.

### BccLabel, BccState and BccRun

`BccState` compiles the token sequence of a function body. The recursive descent's
calls are the stack `todo`: an item is a call to be made, and one step does the
first item and puts what that function goes on to call in its place (`doif`,
`dowhile`, `dofor`, `dodowhile`, `doswitch`, `docase`, `dobreak`, ...). `frame`
holds sp, softsp, the last label used and returnflag. Expressions are events: a token that
tells where in the source it was, and the stack it was compiled for. The conditions
of glogcode.c and both ways to code a switch, table and comparisons with its binary
search, are modelled. `BccLabel` keeps `g`, the code with the circular table of the
last labels and branches that label.c makes short in place. `CompilerSpec` is the compiler
alone, as the proofs take it; in `BccRun` its steps come first and the others leave it as it is.

`BccRun` runs that code on a machine with ip, sp and the accumulator, beside the
source, run by the rules of C from the tokens. Both stop at each evaluation; they
must stop at the same one, and get the same value, any of `Values` or of true and
false. Compiling, jumping and the source's steps are thereby compared for all paths
through a function.

### AsmObject, AsmCode and Assembler

`Assembler` reads a program line by line, in two passes or (`-O`) as many as move
labels: `If`, `ElseIf`, `Else`, `EndIf` with `ifflag`, `elseflag` and the stack,
`SkipLine` where they say so, `Get` and `Call` push files and macros, `ReachEnd`
and `End` pop them or end the pass (`NextPass`, `Finish`). `Code` is one line of code:
its effect on symbols, counters and what is to be written is an operator of
`AsmCode`; `Write` hands one item of it to the object writer. A jump's or an
operand's length depends on what its expression is known to be in this pass, as in
mops.c, with a short range of 4 instead of 128 so that small programs lie on both
sides of it. `AsmObject` is the writer that holds bytes and gaps back, and the
reader of the linker, `linkmod`, that finds each byte's place again. `met` (the IFs that are open,
each with whether a branch of it was taken), `ran`,
`first`, `guessed` and the parts `cells`, `refs` and `stand` of `c` are ghosts.

### LinkSymbols

`ReadModule` is one call of readmodule, names taken in order, with the hash table
as a function. `Begin` is the start of linksyms, `Mark` the marking of modules,
`Walk` one node of the walk of the redefinition list with its two pointers, and
`EndWalk` the test of the loop. The redefinition list is kept as nodes with
`next`, because the walk unlinks nodes through a pointer that may be stale.

### LinkLayout

`SumModule` is the first pass over one module, `Place` computes positions,
special symbols and limits, `OpenModule`, `Text` and `EndModule` are linkmod and
padmod of the second pass. `Text` writes all or all but one of the bytes still to
come in a segment, so that text goes back and forth between segments. Symbols
are represented by the start of each segment of each module: all others are a
constant distance from these in both passes. `BasesAssumption` and
`DataAssumption` say how ld86 is used, as bcc and the libraries' startup code use it:
bases at paragraphs, a base for data only with `-i`, and a program that has some data;
section 3 says what happens otherwise. Far segments are in programs of any options: `Reachable`
says how far `__segXSO` is off in impure ones, and `Overrun` is what a base for the text
makes of them.

### Archive

The archive and the temporary file are sequences of cells (magic, headers, units
of data, entries of the index). The map is what ar.c has: elements and a chain of
`next`, so that unlinking and inserting go wrong where they do in the code. A
command line is read, applied to the map file by file (`delete_members`,
`move_members`, `replace_members`, `quick_append`) and leaves a process that writes
member by member (`WriteMember`), the index again where it has to (`Finish`), then
removes the archive and renames the temporary file (`Unlink`, `Rename`). `Crash`
kills it between any two of these, in the middle of a member too. `EditFile` gives a
file a new version. `wanted` is a ghost: what the last command asks for, on plain
lists (`Result`), how it ended, and whether it met one of the cases listed below.

insert_in_map does not set the pointer to an element's symbols nor their two counts (1454-1468), and
make_new_symdefs leaves them so in a file that is no object (1724). `Fresh` is what malloc may have left
there, and `Open` chooses for each such file: nothing, a count of symbols or of their strings with a
null pointer, or a wild pointer with and without a count. `update_symdefs` adds and tests them as the code does,
and `ended` says what comes of it: going through a wild pointer ends the process ("fault"), strings that
are not as many as were counted stop it (1985, "inconsistent"), and a count with a null pointer ends it after the members are
written, before the rename (`Finish`). Taking undefined behaviour to end the process is the one
choice made here. A wild pointer without a count does no harm, since such a member has no old entries. In no case
is a member lost (`NothingLost`), and an index that is written is right (`IndexRight`).

### CoptPattern, Rewriting and Copt

A line is a sequence of characters, each of which stands for a run of text that no rule
divides ("mov", "ax", ","); a pattern is a sequence of what rules are made of. `match`
is copt's: variables take as little as lets the rest match, and what an attempt binds
stays bound when it fails. `eval` has the accumulator, operator, sign and base in `g`,
which a variable's evaluation starts afresh, as the globals do (`Nested`).

In `Copt` lines are nodes at addresses that malloc uses again. `Skip` is a comment or
assembler code, `Pass` a line no rule matches, `Replace` the first rule that matches, with
the window freed, the new lines linked in and the way back; optimize's comparison
with the next of a line that may have been freed is a choice. `NextFile` is main's loop.
`Rewriting` has a text and no list: `Solutions` are all values of the variables for
which a pattern is a line, in place of what the greedy search finds, and any window may be
replaced at any time. `useless` is a ghost.

A program that prints the final texts of this model for some 14 000 of the texts of
MCCopt was compared with copt itself, built by the host's compiler: all agree.

## 3. Runs

Passing runs, with what each checks:

| run | question | distinct states |
|---|---|---|
| malloc | the lists and the blocks held tile the heap (`Tiled`); chunks are sorted and joined, alloca's list deepest first (`ListsSorted`); data is never written over (`DataIntact`); NULL means full; alloca collects exactly what has returned (`AllocaLives`); Malloc implements Heap | 55 191 |
| stdio | all calls in any order, seeks and transfers past the buffer, changes of buffering, read and write failing part of the way: pointers safe for the macros; finished lines visible; each call is a step of `Stream` or leaves the error flag | 26 544 |
| streams | the list leads only to live FILEs (`ListSound`); open streams have buffers and nothing leaks unless a flush failed (`NothingLeaks`); everything is flushed at exit if streams are closed newest first | 357 684 |
| link | any three modules in any order, and a library whose redefinitions win in turn: values, errors and classes do not depend on the order (`ValueOfModule`, `BoundByClass`), no redefinition is lost, the loop ends with the right modules and bindings | 911 707 |
| layout | two modules, base options, far segments with any of them, sizes around 64 kB: passes agree (`SymbolsLand`), nothing is written twice in the file or in memory (`WrittenOnce`), what is not refused can be reached (`Reachable`) | 2 196 982 |
| assembler | the flags are right for the conditionals open; passes assemble the same lines; header sizes are those of the code; jumps land; the linker reads back what was meant; it ends | 380 400 |
| cpp | marks of macros in use are right and no directive meets one; branches taken are the right ones; replacing by reading again comes to replacing by value; it ends | 207 961 |
| compile | code and source evaluate the same, in the same order; the stack is what the code was compiled for; short branches reach | 375 518 |
| archive | a command that ends leaves what it asks for; nothing is lost at any crash; the index leads to the members and has all their symbols, whatever malloc left in new elements; writing ends | 131 092 |
| copt | the list is sound in both directions and the search goes on at a line that is on it (`ListSound`); Copt implements Rewriting; it ends, or replaces lines by themselves for ever (`Ends`) | 73 791 |

Runs that find a disagreement (see "findings" in PROJECT.json):

| run | what it shows |
|---|---|
| archive_move | moving a member writes the archive from the element that was first before, so that what is put in front of it is lost (ar.c:1323) |
| copt_eval | a variable after an operator in a rule's expression throws away what came before it (copt.c:399): a multiplication by 10 becomes one by 1 |

### What the passing runs stay clear of

Modelling met more places that behave in ways a reader may not expect. The
passing properties except them, by name or by a constant, and setting the constant
or dropping the exception shows the counterexample.

stdio:

* fread moves the descriptor past the buffer (stdio.c:424); a later seek within
  reach of the buffer reads wrong bytes (554). `SeekAnywhere = FALSE`: fseek is called only
  where its short cut finds the buffer in step with the descriptor (`InStep`).
* ungetc on an empty buffer does not set the flag that writers test (891); the
  character ends up in the file. `UngetAnywhere = FALSE`: ungetc is called only while
  something has been read ahead.
* fclose drops newer streams from the list (790, where `prev` is never set); their
  output is lost at exit. `FlushedInOrder` speaks of programs that close the newest first.
* freopen after a failed freopen returns a stream without a buffer (717, 780-782).
  `Reopened = FALSE`: it is called on open streams only.
* freopen of a stream whose pending output cannot be written leaves the old descriptor
  open (770, 639, 750); `NothingLeaks` excepts failed flushes.
* `free` with the mini allocator alone: the sorted insertion (malloc.c:163-171) is
  never reached, because the condition at 161 is always true.

cpp:

* A `//` comment takes the end of its line out of sight of `last_char` (cpp.c:482), so
  that a directive in the next line is text; so do comments after directives.
  `DirectivesSeen` in CppReference says the opposite and is not checked.
* The expression of `#if` takes one operator at its inner levels (around 1174):
  `1+2*3*4`. `#if` in the models has its value.
* Nothing checks MAX_INCLUDE (757): past it the code writes beyond the end of its table, and `Include` goes no further.
* `#define f(x) f(x) f(x)` is replaced 2^MAX_DEFINE times; MCCpp leaves out such programs.
* `#include` is seen in the arguments of a macro, whose file is then read late.

bcc:

* After `return 1; out: ;` the empty statement returns (state.c:784) without clearing
  returnflag, and `compound` leaves the return at the function's end away (200): a `goto out`
  runs on into the code that follows. The programs of the compile run have no empty
  statement there; with one, `SameAsSource` is violated.

copt:

* Expressions with a variable after an operator: copt_eval. Names have the value 0, so
  that `%(%4+2)` (rules.86:286) of a name is $2, and a pattern whose value is 0 matches any name.
* A rule that puts nothing in the place of its window (rules.86:351) cuts the rest of the
  file off (copt.c:752-756). `Rewriting` says so; rules.i keeps `mov ax,ax` from getting there.
* `mov ax,ax` and `push ax` are replaced by themselves for ever (rules.86:320):
  the second part of `Ends`.
* A window begun before `!BCC_ASM` goes on into assembler code (696), and -b above 1 goes
  back into it; programs with assembler code are run with -b of 0 and 1.
* A match at the first line returns NULL and ends the pass of that file.
* rules.86:370-391 have a space after jmp where cc1 writes a tab: they match nothing in cc1's code.
* The rules are data and are not judged: `mov bx,[bx]` twice becomes one (rules.86:328).
* -b is read from its fourth character (868), so that -b2 is 0.

as86:

* IF on a name defined further on is guessed (pops.c:407), so passes may take other
  lines; `PassesAgree` and `HeaderRight` except programs that had to guess. So does `JumpsLand`:
  a label that comes to stand at the same offset of another segment is not noticed to have moved
  (assemble.c:171 compares values only), and jumps keep the segment of the pass before.
* A label defined twice is found by its value only: the mark is cleared when pass 1
  confirms the value (assemble.c:179). `HeaderRight` and `JumpsLand` except them.
* With `-j -O` the offset of a jump to an imported name is 0 (mops.c:1210, 1950).
* What is left of a long FCC is counted in an unsigned char (genobj.c:133).
* Errors of the first pass are wiped (readsrc.c:257-258), and only those of the last count.

ld86:

* With a text base that is no multiple of 4 (`-T`) the two passes of writex86.c round
  differently. The run uses bases that are multiples of 16.
* -i without initialised data puts `__edata` at the end of text. The run always has data.
* In impure programs with far segments `__segXSO` is the paragraph before the segment's
  start (318), where the manual page has the start itself: `Reachable` says by how much. `__segoff` is not zero in them, as the
  manual page has it, but counts their far text.
* With `-T` far text is put behind its place by the base (244), and with data of its own the two overlap in
  the file: `WrittenOnce` excepts such pairs (`Overrun`), and says that far text ends no more than the base behind the
  end of text.

ar86:

* `move_members` writes from the old head (1323), and a member moved after itself closes
  the chain into a circle: archive_move, and `safe` in the others.
* The temporary file is opened without O_TRUNC (956): leftovers of a crash get into the
  archive. `clean` excepts commands that find one.
* The archive is unlinked before the rename (1056), where the comment at 846-848 has
  it updated atomically. `NothingLost` counts the temporary file.
* Offsets of the index change one member after another (1937), so that a new
  offset equal to the old one of a later member changes twice: on the archive b.o c with its index,
  `ar rb b.o a.o` puts b.o where c was, and the entries of b.o then lead to c. TLC finds this without `met`, with which
  `IndexRight` asks of such archives only that entries lead to a member.
* q leaves an index alone: symbols of members appended to an archive that has one are not in it until the index is
  made again. `IndexRight` then asks only that the entries there are right (`unlisted`).
* After a command that `clean` or `safe` excepts, the index is not judged any more (`trusted`).
* A file that is no object, put into an archive with an index, has the counts that malloc left
  (1454, 1724): unless these are 0 the program stops with its "inconsistency in new_strings_size" (1985) or
  goes through a pointer. It has not changed the archive then, and leaves its temporary file.
* `symdef` is written once more at its old offset (1037); `mywrite` loops for ever when
  write fails (297-315); a member that cannot be read is left out (1155);
  `find_mapelt_noerror` looks at `name[len - 2]` of short names (791).

### Bounds, and why they are enough

* Malloc: 11 cells of 2 bytes, growth in units of 6 cells, so that the second
  unit does not fit and smaller pieces are taken; three blocks held; two depths of
  the stack. Blocks of two sizes, and alloca's, on a heap of that size give
  free lists with gaps on both sides of a chunk, chunks that join above, below
  and on both sides, exact and split fits, and a heap that cannot grow by a
  whole unit, which are all the cases `__insert_chunk` and `__search_chunk`
  distinguish. `VIEW Relevant` hides the contents of free cells that hold no
  link, and of blocks beyond what was asked for; they decide nothing.
* Stdio: two characters, one of them newline; a buffer of 2, or of 1 for an unbuffered stream; a file of at most
  3. With 2 cells there is a buffer that is empty, partly and quite full,
  and calls of 3 characters go past it. No one seeks past the end of the file and
  fwrite is not called with size 0.
* StdioStreams: stdout and two FILE addresses, three descriptors. With
  two streams one can be dropped from the list by closing the other, stay open,
  and see its neighbour's address used again. `past` is a ghost that remembers a
  flush that failed in a close and a close of another stream than the newest.
  stdin, which exit does not flush, is left out. A mode string without r, w or
  a is not used.
* Cpp: seven families of programs (MCCpp): three macros in terms of each other and
  themselves with every use of them, calls that begin in one macro and end in another
  with definitions among their arguments, every sequence of up to five conditionals,
  an `#else` with up to four more `#if`s in it (with IFBITS 2 the last ones shift its bit out),
  of three definitions, of included files and of comments. MAX_DEFINE is 6, enough
  for all macros that end and reached by those that do not; MAX_INCLUDE is 2.
* BccState: function bodies with loops and switches nested two and three deep, each
  with or without locals, around each kind of jump; conditions of up to three
  tests; branches over 4 to 30 bytes with a reach of 24; thirteen tables of cases, dense,
  sparse, wrapping around, with the values that sit on their edges. The table of
  labels has 6 places and half of the buffer 9 instructions, so that entries are used
  again and the buffer is written out in the middle of most bodies.
* Assembler: nine families: conditionals to one more than MAXIF = 2, macros and files that
  call themselves to MAXMAC and MAXGET, two labels with two kinds of jumps over
  gaps and alignments around the short range of 4, jumps that cross each other, and
  programs of bytes, gaps, words and segments with an object command of at most 2 bytes,
  so that each thing held back meets each that may follow. MAXPASS is 8 for 30.
* LinkSymbols: three modules of three classes and two names, where each
  module may say any of six things of the first, in two segments or in any, and
  three of the second: enough for a redefinition on either
  side of the binding and for a third that meets both. The other programs have four
  modules and five names, so that one win loads a module whose win unloads another.
* LinkLayout: two modules; sizes 0 and 3 (not a multiple of 4) and 5; common areas
  0 and 3; segment 2 is empty and segments 4 and 5 are far, for every combination of -i, -z, -T and -D. Another set has sizes
  around 32768 and 65532, so that sums lie on both sides of 65536. Addresses do
  not wrap: `bin_off_t` is 32 bits and sizes are below it.
* Archive: two commands, one crash, three files one of which changes and grows, archives
  of two and three members or none. Two commands are enough for the second to meet what
  a crash of the first left, and its index. `Fresh` has five values, one for each way the code goes
  with a pointer and counts that nobody set. Headers count as one unit of data.
* Copt: seven families of rules and texts, and an eighth in copt_eval: all texts of up to four lines (three for the 32
  bit rules) of the moves, jumps, counters and multiplications that the rules of a
  family speak of, behind a comment, and functions with the rules of rules.start, rules.86 and
  rules.end in turn, with every value of -b that tells them apart (0, 1, 2). No rule
  in a run is longer than four lines, and results of rules match other rules.

### Fairness

LinkSymbols, Cpp and Assembler assume `WF_vars(Next)`, Copt the same, written out (it has a
step to take as long as rules are left), and Archive weak fairness of the
writing of an archive, its crash and new commands excepted: each is a single
sequential program that keeps running, and in none of them a step waits for anybody.
The libraries are ones that a program may stop calling at any time, so nothing is
assumed to happen there. Deadlock is not checked where the program may be done.
`CompileStep` and the runs of compile have a safety property only.

## 4. Proofs

Checked by TLAPS for all values of the constants that the named assumptions allow.

* `MallocProofs!HeapTiled`, `ListsInOrder`, `DataKept`, `BlocksOfFrames` and `FollowsHeap` (under
  `MallocAssumption` and `SizesAssumption`): `Spec => []Tiled`, `[]ListsSorted`, `[]DataIntact`,
  `AllocaLives` and `Implements`, for any memory, cell size, unit of growth, sizes asked for, number of blocks
  and depth of calls. The inductive invariant `IInv` says that there are a freed list and
  a set of chunks which, with the blocks held, lie one after the other and fill the
  heap (`Laid`); that the chunks' links go round them in address order with one
  descent (`Cycle`), none touching the next; that the freed list and alloca's list end and
  have no element twice (`Stack`); and that every block held has its room, its
  data and, if it is alloca's, its depth (`InUse`). None of the properties is inductive without it:
  a wrong link in a free block shows only calls later, in two blocks that overlap. The
  argument goes up through the source: what the cells of other blocks are after a write
  (`Alters`, `Untouched`); linking, joining and cutting chunks among blocks that are not
  looked at (`InsertFacts`, `SearchFacts`), where the search for a place must end
  because in a circle with one descent every address has one (`PlaceExists`) and following links
  reaches every chunk (`CycleReached`, by counting: two of more links than cells are equal); malloc,
  free and the mini allocator (`MallocGood`, `FreeFacts`), each of which leaves the blocks in use as they were
  (`Spares`); what the callers write; and one lemma for each action (`TakeGoes` to
  `LeaveGoes`). `BlocksOfFrames` needs that alloca's list is deepest first: the loop that collects garbage
  stops at the first block that is not deeper, and only tells functions apart by their depth.
  `FollowsHeap` is the refinement of `Heap`, with `Blocks` as the mapping: from `IInv` before and after a step, and
  from the sizes of the blocks that were spared (`Sizes`), one lemma for each action of `Heap`
  says that it was taken (`AcquireFollows` to `LeaveFollows`). That a block fits is not read off the search
  for it but off the heap that has it: blocks in use never overlap (`FitsFacts`). For realloc that heap is the one
  in the middle of the call, in which the old block is still in use.
* `MallocProofs!BlocksSound`: `Spec => [](HeapSpec!TypeOK /\ HeapSpec!Sound)`, which is what a caller of malloc
  relies on. The conjunction is inductive for the abstract heap (`HeapSound`): removing blocks, placing one
  where it fits, keeping one and a function's return preserve it, each action is a combination of these, and
  `FollowsHeap` carries it over.
* `MallocProofs!NullIsLast` (under `GrowthAssumption` too): `Spec => []NullOnlyWhenFull`. It is about
  one call from a heap with `IInv`. The search goes past every chunk (`SearchComplete`: if it comes round
  without a fit, what it has passed is closed under links). Where no block in use and none freed is above an address, one
  chunk is, up to the top (`TopRun`: chunks that touch are joined), so that whatever malloc gets from sbrk is one
  piece (`OpenAbove`), large enough if it got as many bytes as it asked for (`GotMore`). If it got
  fewer, the last refusal was of a piece of twice the smallest at most (`RefusedRoom`). The loop through the freed
  list shortens it and the loop that scavenges uses up the piece or the room (`Rounded`), within the rounds the
  model gives them. `GrowthAssumption` says that the size rounded up to `MCHUNK` does
  not wrap: it cannot with the source's 2048 cells, a part of 65536 bytes, whatever is asked for.
* `StdioProofs!StdioTypes` and `StdioProofs!StdioMacros` (assume
  `StdioAssumption`): `Spec => []TypeOK`, `Spec => []MacrosSafe`, for any buffer
  size, file, mode, counts, seeks and failures of the system. Neither is
  inductive. `Inv` adds `Kept`: a stream that is reading has read at least one
  character (so that fflush can seek back after ungetc without going below 0),
  and an idle stream, neither reading nor writing, has at most one character in
  its buffer, the one ungetc can put there (so that when a macro or fputc starts
  storing, it does not leave input behind `bufpos`). It also adds `InFile`, that
  the descriptor is inside the file. There is one lemma per function of the
  source (`FlushFacts`, `FputcFacts`, ...), which says that it takes a good FILE
  to a good FILE; `NextInv` puts them together action by action.
* `StdioProofs!StdioLines`: `Spec => []LinesVisible` if `UngetAnywhere` is FALSE. `Tidy`
  adds that only a stream that reads has input in its buffer, so that output is stored
  from the buffer's start and every cell below `bufpos` is a character of output that
  was looked at when it was stored. With a character pushed back on an idle stream it is false:
  read again, it stays below the output, and may be a newline.
* `StdioProofs!StdioFollowsStream`: `Spec => Unbuffered!Init /\ ReportsLoss`, if `UngetAnywhere` and
  `SeekAnywhere` are FALSE (`CountsAssumption` bounds the counts by `MaxLen`, which is also
  what Stream's calls are bounded by). This is the refinement, step by step, with `Content`, `Position` and `Pushed`
  as the mapping, for any buffer, file, access and failures. The invariant is `Fine`: `Good`, `InFile`
  and `Matched`, which says that what was pushed back is in the buffer before what was read
  and that what follows it is what the file holds before the descriptor. What an operation does
  to the user's view is said by relations between two FILEs (`Written`, `HasRead`, `Dropped`, `Sought`,
  `Pushes`), which compose, so that fputc is read as a flush and a store; `OverOver` says
  that writing the buffer and then what follows is writing them at once.
* `StreamsProofs!StreamsListSound`, `StreamsReturned` and `StreamsFlushed` (under
  `StreamsAssumption`: finite sets of streams, NULL not one of them): `Spec => []ListSound`,
  `Spec => []FlushedInOrder`, and `Spec => []NothingLeaks` if `Reopened` is FALSE, for any
  number of streams, descriptors and buffers. The inductive invariant `IInv` has, beside the
  types: the list is made of FILEs that exist and never leads back (`Linked`); FREEFIL is set
  in the FILEs that exist and only there (`Given`); malloc has given as many buffers as there
  are streams with FREEBUF (`Counted`); each descriptor has one owner (`OwnFds`), without which a second close would
  take another stream's; held streams exist; and as long as streams are closed newest first
  all of them are still on the list (`HeldListed`), which `FlushedInOrder` needs since
  fclose takes away with a stream all those opened after it. `From`, the streams that
  the links lead to, is defined as a least closed set, so that no induction is needed: that a step
  leaves the list sound is shown by a set closed under the new links. A lemma for each
  function of the source says what state it leaves (`Facts`), another that the
  invariant's parts hold there (`Good`).
* `CppProofs!CppInUse` (under `CppAssumption` and `TokenAssumption`): `Spec => []InUseRight`
  for any text, any macros and any limits: a macro marked as in use is one whose value is
  being read, and each such macro is still defined. The inductive invariant is `IInv`: `Types`,
  `LevelsClean`, `BodiesClean`, `CallClean` and `InUseRight`. It is needed because `#define` and
  `#undef` free a macro without looking at its mark; what saves the program is that what is
  read above a macro's value holds no directive, since the values of macros have none and
  neither have arguments gathered while a value is read, so that definitions are only
  changed where no macro is in use. There is one lemma per group of actions; `NextInv` puts
  them together.
* `CppProofs!CppConditions`: `Spec => []ConditionsRight`, for any text, any depth and any number of bits.
  `CInv` adds what the flags say of the frames (`Agrees`): which frames are hidden and that all
  around the innermost one that counts take text (`Nesting`), whether that one had an `#else`
  (`Elses`), and that the bits left of `if_stack` are those of the frames just outside (`Bits`).
  An `#else` whose bit was shifted out makes cpp accept a second one; that it takes wrong text
  only where the program is wrong is the reason why `Nesting` says nothing of branches to come once
  a frame had its `#else`. One lemma per directive says that frames and flags still agree.
* `AssemblerProofs!AssembledLines`: `Spec => []IfflagRight`, for any program, macros, files, limits
  and number of passes. `FlagsInv` says of the flags saved at each depth that they are right for
  the frames around (`Right`), `elseflag` with them: ENDIF brings them back, and `elseflag` alone,
  without a stack, says nothing after a pass that ended with an IF open.
* `AssemblerProofs!AssemblerTypes` and `WrittenIsRead` (under `ObjectAssumption` and
  `AssemblerAssumption`): `Spec => []TypeOK` and `Spec => []ReadBack`, for any program, length of
  a command, segments and limits. What the linker reads back is known only at the end,
  when nothing is held back any more; before it the file lacks the bytes and the gap that wait
  for what follows, and the size of relocations is left out if it is the last one written.
  `AssemblerInv` is therefore about the linker's `View` of a writer: what linkmod (writex86.c) will
  have made of what is written and what is held back. `Writing` says that in the last
  pass its segment, position and cells are the assembler's, `IsWriter` that bytes and a gap are
  never held back at once, so that it does not matter which of them is flushed first, and that
  the size left out is the one the reader has (`Agreed`); `CodeInv` that nothing is written in
  the passes before, and what the flags of symbols and the values of counters may be;
  `SourceInv` that lines come from files and macros of the program, and that a macro or a file that has
  been left is not read again. The argument goes up through the source: one command (`LinkmodSteps`), a
  run of bytes cut into commands of `ABSMAX` (`PutAbs`), gaps and addresses (`AccumulateRmb`, `PutObj`,
  `PutItemRight`), then labels, jumps, data and segments (`EmitInv`, `SkipInv`, `SetlocInv`,
  `GenobjInv`), where whatever only looks up or marks a name leaves the code as it is
  (`Kept`), and one lemma for each action.

* `LinkProofs!Values`, `Bindings`, `NodesKept` and `LinkedRight` (under `LinkAssumption`):
  `Spec => []ValueOfModule`, `[]BoundByClass`, `[]NoneLost` and `[]Linked`, for any modules, names,
  classes and segments. The inductive invariant `IInv` says that names and nodes of the list of
  redefinitions have the values of modules that mention them (`AllPlaced`), and that there are
  errors exactly if two of the modules read clash, in whatever order they came (`ErrorsRight`);
  while modules are read, what a name's binding, segment and nodes are, in terms of the modules
  and not of their order (`AllRead`). In the walk `NoneForgotten` says that an
  export above the class its name is bound to has a node, and `Listed` that such a node is
  still on the list. `Forward` and `Behind` are what makes that safe although the walk unlinks through
  a pointer to a node that may be off the list itself: links lead forward only, and
  the node at `prlptr` leads to the one at hand. `Marked` says that, as long as nothing
  has been taken over, the flags are what linkrefs makes of the bindings there are and no
  node that was passed wins, which at the walk's end is `Linked`. One name of one module is
  read case by case (`ReadAbsent` to `ReadHigher`), all its names by induction
  (`ReadsRight`), and that linkrefs marks a closed set by induction over its rounds.
* `LayoutProofs!RelocationsAgree`, `EveryByteOnce` and `SegmentsReachable` (under `LayoutAssumption`,
  `BasesAssumption` and `DataAssumption`): `Spec => []SymbolsLand`,
  `[]WrittenOnce` and `[]Reachable`, for any number of modules and segments and all sizes that ld86
  does not refuse. In the first pass `Chain` says that each module begins where the one before it
  ends, rounded up to 4, and `AreasIn` that common areas follow each other within
  what has been summed. `PlacingRight` is about `Place` alone: from such sums it gives segments that do
  not overlap, in memory (`InMemory`), in the file (`InFile`) and at the ends (`Ends`),
  with bases that are multiples of 4. In the second pass `WRight` says that all
  that has been written of a segment lies between its base and where the segment is now,
  and `Opening`, `Writing` and `Written` that this is where the first pass put the
  module's next byte. The passes agree because rounding up to 4 commutes with a shift by a
  multiple of 4 (`Roundup4`): the first pass rounds sums from 0, padmod addresses from a base.
  Far text is a whole number of paragraphs, so that what text is over one is all that is lost in an
  impure program (`Sixteenths`, `AddSixteenths`), and all of it is off by the text's base (`FarPieces`, `Over`).
  The sums of far text (`FarFacts`) and padmod's loop (`PadAll`) are inductions over the segments.

* `BccProofs!ShortBranchesReach` (under the assumptions of `BccLabel` and `ProgramsAssumption`):
  `CompilerSpec => []BranchesReach`, for any set of function bodies, any number of places in the table of
  labels, any size of the output buffer and any reach. Most of the work is `Made`: an entry of the table that
  is in use says where the end of its label or branch is in the code (`Stands`), entries are as old as their
  instructions are early (`Ordered`), a label is defined once and a branch is short only if its label is
  there. It is not inductive one patch at a time, since a patch moves what lies behind it: deflabel goes from the newest entry
  to the oldest, and the entries newer than the one it has reached are already right
  (`Patching`), because making a branch shorter moves them by as much as their instructions (`ShortenCode`).
  A branch that was short stays so: two ends only come nearer. That a label is defined once takes the
  whole of state.c: `LeftToDo` says which labels the stack of calls will still define, all different, used by
  now and not yet in the code, and that the stack closes as many loops and switches as are open; `NamesRight` that names' labels
  are others, counted downwards. Each action has a lemma (`CompoundInv` to `OutInv`), most of them by `Going`: the first item on the
  stack is replaced by some that define labels just reserved or its own.

Induction over the naturals is done with a set in place of a predicate (`SetInduction` in these
modules, from the well-foundedness of `<`), so that what a recursive *function* computes can be proved.

Only model-checked: the refinement of `Rewriting` by `Copt`, the other action properties, `SameAsSource` and `StackRight`
of BccRun, the invariants of Archive and Copt, and `ReplacedByValue` of Cpp; of Assembler `PassesAgree`, `HeaderRight` and `JumpsLand`, which
compare a pass with the one before it, of which the state keeps no more than the labels' values. `Terminates` and `Ends`, liveness, are out of the prover's reach, and so is what
RECURSIVE operators compute, such as `Expand`.

## 5. What is not modelled

* In malloc: sizes near the wrap of unsigned int (malloc.c:237; calloc multiplies without a
  check, 515), the
  `LAZY_FREE`, `MINALLOC` and `VERBOSE` builds, alignment of the first break.
* In stdio: gets, fgets, puts, fputs, printf and scanf, which are loops over the
  operations modelled; the binding of stdin to stdout (line 191); MSDOS newline
  translation; devices that cannot seek; `setbuffer` with size 0.
* In cpp: `#` and `##` and varargs, strings and character constants, values of `#if`.
* In bcc: expressions, types, declarations, registers (one expression tree at a time, large in
  cases and not in behaviours), the copy of the preprocessor inside cc1, the driver.
* In as86: the table of instructions (only jumps and immediate operands, whose length
  depends on a value, are modelled), the listing, the scanner.
* In ld86: archives, checksums, memory of the hash table, the writers in writebin.c and
  writeemu.c; in writex86.c the symbol table's contents, V7 and CP/M headers,
  the bytes a relocation stores.
* In ar86: printing and extracting, which change no archive; commands on `__.SYMDEF` itself;
  q with s.
* In copt: reading of files, interning, the limit on a line's length, malformed rules, division
  by 0, and that rules keep the meaning of the code.
* unproto, the dumpers, elksemu and the boot loaders (the
  semantics are the host's or the hardware's), and the stateless rest of libc.

## 6. Plan

Done: the library's memory and streams, and the tool chain along the way a program
takes: cpp, cc1's statements, copt, as86, ar86 and ld86. What would come next, in order:

1. bcc's loads and registers (codefrag.c, genloads.c): which register holds what
   across a call, against an abstract machine, in the form BccRun has for statements.
2. The composition of Assembler and LinkLayout through `AsmObject`, with relocations
   applied, so that `JumpsLand` speaks of addresses in memory.
3. Proofs: `PassesAgree` and `JumpsLand` of Assembler, with a history of the pass before;
   `StackRight` of BccRun, from the invariant of `BccProofs` with the stack of each label added.
4. regexp's matcher as an operator against a reference definition.
