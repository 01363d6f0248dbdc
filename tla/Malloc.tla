------------------------------- MODULE Malloc -------------------------------
(***************************************************************************)
(* libc/malloc/malloc.c: the first-fit allocator of the C library, its     *)
(* small stand-in __mini_malloc and the alloca built on both.              *)
(*                                                                         *)
(* Memory is a function from cell addresses to numbers, as the code sees   *)
(* it: cell p of a block holds m_size, cell p+1 holds m_next while the     *)
(* block is free and belongs to the caller while it is not.  Addresses are *)
(* counted in cells (sizeof(mem) bytes), sizes asked for in bytes.  One    *)
(* call of the allocator is one step: nothing in this library preempts it. *)
(***************************************************************************)
EXTENDS Integers, Sequences, FiniteSets

CONSTANTS Base,        \* &end, where the heap starts, as a cell address
          Limit,       \* cells from here on belong to the stack: sbrk fails
          Requests,    \* sizes callers ask malloc and realloc for, in bytes
          ClearRequests,  \* sizes callers ask calloc for
          AllocaRequests, \* sizes callers ask alloca for
          MemSize,     \* sizeof(mem), 2 on the 8086
          MCHUNK,      \* malloc's unit of growth, in cells
          MinScavenge, \* 256 in the source: the smallest piece worth taking
          MaxInt,      \* the largest int, 2^15 - 1 on the 8086
          MaxHeld,     \* bound: blocks the callers hold at a time
          MaxDepth     \* bound: depth of the call stack

ASSUME MallocAssumption ==
    /\ Base \in Nat \ {0} /\ Limit \in Nat /\ Base <= Limit
    /\ Requests \cup ClearRequests \cup AllocaRequests \subseteq Nat
    /\ MemSize \in Nat \ {0} /\ MCHUNK \in Nat \ {0}
    /\ MinScavenge \in Nat \ {0} /\ MaxInt \in Nat
    /\ MaxHeld \in Nat /\ MaxDepth \in Nat

(* All the sizes a block is made for; alloca's has a header of two cells.  *)
BlockRequests == Requests \cup ClearRequests \cup {2 * MemSize + r : r \in AllocaRequests}

(* malloc rounds the size up in an unsigned int and does not look whether  *)
(* it wrapped; nobody asks for the last few bytes of what an int can say.  *)
ASSUME SizesAssumption ==
    \A n \in BlockRequests : n + 2 * MemSize - 1 <= 2 * MaxInt + 1

VARIABLES
    heap,         \* the allocator's memory: see HeapInit
    alloca_stack, \* newest block of alloca, 0 when there is none
    held,         \* blocks the callers hold: user pointer -> [req, depth]
    depth         \* depth of the running function: &probe, counted downwards

vars == <<heap, alloca_stack, held, depth>>

NULL == 0
UserData == Limit + 1          \* what callers write in the cells of a block

HeapInit == [brk   |-> Base,   \* sbrk(0)
             cell  |-> [a \in Base .. Limit - 1 |-> 0],
             freed |-> NULL,   \* __freed_list
             chunk |-> NULL,   \* chunk_list
             mini  |-> TRUE]   \* __alloca_alloc == __mini_malloc

m_size(h, p) == h.cell[p]
m_next(h, p) == h.cell[p + 1]
set_size(h, p, n) == [h EXCEPT !.cell[p] = n]
set_next(h, p, q) == [h EXCEPT !.cell[p + 1] = q]

(* An unsigned int wraps.                                                  *)
Word(n) == n % (2 * MaxInt + 2)
CellsFor(size) == Word(size + 2 * MemSize - 1) \div MemSize
UserCells(h, p) == p .. (p + m_size(h, p - 1) - 2)

(* Loops are functions of the number of rounds.  A loop through a list ends*)
(* before round Limit, there being fewer blocks than cells.                *)
Nth(h, p) == LET at[n \in 0 .. Limit] ==       \* n links on from p
                     IF n = 0 THEN p
                     ELSE LET q == at[n - 1] IN IF q = NULL THEN NULL ELSE m_next(h, q)
             IN  at

First(S) == CHOOSE n \in S : \A m \in S : n <= m

-----------------------------------------------------------------------------
Lower(h, chk) == [h EXCEPT !.brk = chk]
AtTop(h, chk) == chk + m_size(h, chk) = h.brk
Unfreed(h) == [h EXCEPT !.freed = m_next(h, @)]

(* Going on with the freed list: its head is taken off, and if it is not at*)
(* the top it goes back on, which leaves everything as it was.             *)
LowerOne(g) ==
    IF g.freed # NULL /\ AtTop(g, g.freed) THEN Lower(Unfreed(g), g.freed) ELSE g
LowerMore(h) ==
    LET after[n \in 0 .. Limit] == IF n = 0 THEN h ELSE LowerOne(after[n - 1])
    IN  after[Limit]

(* free: the block at the top of the heap goes back to the system, and in  *)
(* the mini allocator takes the head of the freed list with it if that is  *)
(* now at the top; any other block waits on the freed list.                *)
FreeChunk(h, chk) ==
    CASE ~AtTop(h, chk) -> [set_next(h, chk, h.freed) EXCEPT !.freed = chk]
      [] AtTop(h, chk) /\ h.mini -> LowerMore(Lower(h, chk))
      [] AtTop(h, chk) /\ ~h.mini -> Lower(h, chk)

free(h, ptr) == IF ptr = NULL THEN h ELSE FreeChunk(h, ptr - 1)

(* The allocators return the heap they leave and the pointer they return.  *)
Result(h, p) == [h |-> h, p |-> p]

(* sbrk refuses to let the heap and the stack meet.                        *)
MeetsStackPast(h, n) == h.brk + n > Limit + 1
MeetsStack(h, n) == h.brk + n > Limit

mini_malloc(h, size) ==
    LET n == (size + 2 * MemSize - 1) \div MemSize
    IN  IF size = 0 \/ size > MaxInt - MemSize * 3 \/ MeetsStack(h, n)
        THEN Result(h, NULL)
        ELSE Result(set_size([h EXCEPT !.brk = @ + n], h.brk, n), h.brk + 1)

-----------------------------------------------------------------------------
(* __insert_chunk: walk the circular list from chunk_list to the place of  *)
(* p1, link it there and join it with the neighbours it touches.  The walk *)
(* moves chunk_list along; it gives up, dropping the chunk, only in a list *)
(* of one chunk.                                                           *)
NoJoin(h, p) == h
JoinNoUnlink(h, p) ==
    IF p + m_size(h, p) # m_next(h, p) THEN h
    ELSE set_size(h, p, m_size(h, p) + m_size(h, m_next(h, p)))
JoinAbove(h, p) ==
    LET q == m_next(h, p) IN
    IF p + m_size(h, p) # q THEN h
    ELSE set_next(set_size(h, p, m_size(h, p) + m_size(h, q)), p, m_next(h, q))

LinkAfter(h, p2, p1) == set_next(set_next(h, p1, m_next(h, p2)), p2, p1)

AboveTop(h, p1, p2) == p1 > p2 /\ m_next(h, p2) <= p2
InChain(h, p1, p2) == p1 > p2 /\ m_next(h, p2) > p1
BelowBottom(h, p1, p2) == p1 < p2 /\ m_next(h, p2) <= p2 /\ p1 < m_next(h, p2)
Place(h, p1, p2) == AboveTop(h, p1, p2) \/ InChain(h, p1, p2) \/ BelowBottom(h, p1, p2)

InsertAt(h, p1, p2) ==
    LET next == m_next(h, p2)
        linked == [LinkAfter(h, p2, p1) EXCEPT !.chunk = p2]
    IN  CASE AboveTop(h, p1, p2) ->
               IF p2 + m_size(h, p2) = p1
               THEN set_size(h, p2, m_size(h, p2) + m_size(h, p1))
               ELSE LinkAfter(h, p2, p1)
          [] InChain(h, p1, p2) -> JoinAbove(JoinAbove(linked, p1), p2)
          [] BelowBottom(h, p1, p2) ->
               IF p1 + m_size(h, p1) = next /\ next = p2
               THEN JoinAbove([linked EXCEPT !.chunk = p1], p1)
               ELSE JoinAbove(linked, p1)
          [] OTHER -> h

InsertFrom(h, p1, at) ==
    LET n == First({i \in 0 .. Limit : Place(h, p1, at[i]) \/ m_next(h, at[i]) = at[i]})
    IN  InsertAt(IF n = 0 THEN h ELSE [h EXCEPT !.chunk = at[n - 1]], p1, at[n])

insert_chunk(h, p1) ==
    IF h.chunk = NULL THEN [set_next(h, p1, p1) EXCEPT !.chunk = p1]
    ELSE InsertFrom(h, p1, Nth(h, h.chunk))

(* __search_chunk: first fit, from the chunk after chunk_list.  The chunk  *)
(* found is unlinked, or cut when two cells or more would be left over.    *)
Fit(h, p2, size) == m_size(h, m_next(h, p2)) >= size
FitFrom(h, at, size) ==
    LET p2 == at[First({i \in 0 .. Limit : Fit(h, at[i], size) \/ m_next(h, at[i]) = h.chunk})]
    IN  IF Fit(h, p2, size) THEN p2 ELSE NULL

Cut(h, p2, p1, size) ==
    LET rest == p1 + size
        tail == set_next(set_size(h, rest, m_size(h, p1) - size),
                         rest, m_next(h, p1))
        \* in a list of one chunk p2 is p1: the rest follows itself
        ring == IF p2 = p1 THEN set_next(tail, rest, rest)
                ELSE set_next(tail, p2, rest)
    IN  [set_size(ring, p1, size) EXCEPT !.chunk = IF p2 = p1 THEN rest ELSE p2]

TakeAfter(h, p2, p1, size) ==
    IF m_size(h, p1) >= size + 2 THEN Result(Cut(h, p2, p1, size), p1)
    ELSE Result([set_next(h, p2, m_next(h, p1)) EXCEPT
                   !.chunk = IF m_next(h, p1) = p1 THEN NULL ELSE m_next(h, p1)], p1)

FoundAfter(h, p2, size) ==
    IF p2 = NULL THEN Result(h, NULL) ELSE TakeAfter(h, p2, m_next(h, p2), size)

search_chunk(h, size) ==
    FoundAfter(h, IF h.chunk = NULL THEN NULL ELSE FitFrom(h, Nth(h, h.chunk), size), size)

-----------------------------------------------------------------------------
(* malloc.  The freed list is first sorted into the chunks, unless one of  *)
(* its blocks has the very size asked for; a top chunk goes back to the    *)
(* system.                                                                 *)
ReleaseTop(h) ==
    LET ptr == m_next(h, h.chunk)
        unlinked == [set_next(h, h.chunk, m_next(h, ptr)) EXCEPT
                       !.chunk = IF ptr = m_next(h, ptr) THEN NULL ELSE @]
    IN  IF AtTop(h, ptr) THEN free(unlinked, ptr + 1) ELSE h

Lucky(h, size) == h.freed # NULL /\ m_size(h, h.freed) = size
SortOne(g, size) == IF g.freed = NULL \/ Lucky(g, size) THEN g
                    ELSE insert_chunk(Unfreed(g), g.freed)
SortedIn(h, size) ==
    LET after[n \in 0 .. Limit] == IF n = 0 THEN h ELSE SortOne(after[n - 1], size)
    IN  after[Limit]

Drained(h, size) == IF Lucky(h, size) THEN Result(Unfreed(h), h.freed)
                    ELSE Result(ReleaseTop(h), NULL)
Drain(h, size) == Drained(SortedIn(h, size), size)

(* malloc asks for memory in units: so many bytes that with their own size *)
(* cell they are a multiple of MCHUNK cells.                               *)
Growth(size) == MemSize * (MCHUNK * ((size + MCHUNK - 1) \div MCHUNK) - 1)

(* With the source's sizes this never wraps, MCHUNK being a part of what an*)
(* unsigned int counts, and the pieces below are of a size mini_malloc has.*)
ASSUME GrowthAssumption ==
    /\ \A n \in Requests : Growth(CellsFor(n)) <= 2 * MaxInt + 1
    /\ 2 * MinScavenge + 1 <= MaxInt - MemSize * 3

(* Near the end of memory malloc takes what it can get in halving pieces.  *)
(* Each round makes the piece smaller or the heap larger.                  *)
ScavengeOne(s) ==
    LET got == mini_malloc(s.h, s.alloc)
    IN  CASE s.alloc <= MinScavenge \/ s.needed = 0 -> s
          [] s.alloc > MinScavenge /\ s.needed # 0 /\ got.p # NULL ->
               [s EXCEPT !.h = insert_chunk(got.h, got.p - 1),
                         !.needed = IF s.alloc > @ THEN 0 ELSE @ - s.alloc]
          [] s.alloc > MinScavenge /\ s.needed # 0 /\ got.p = NULL ->
               [s EXCEPT !.alloc = @ \div 2]

Scavenge(h, alloc, needed) ==
    LET after[n \in 0 .. alloc + Limit] ==
            IF n = 0 THEN [h |-> h, alloc |-> alloc, needed |-> needed]
            ELSE ScavengeOne(after[n - 1])
    IN  after[alloc + Limit].h

GrowOnce(h, size) ==
    LET got == mini_malloc(h, Growth(size))
    IN  IF got.p # NULL THEN insert_chunk(got.h, got.p - 1) ELSE h

Grow(h, size) ==
    LET alloc == Word(Growth(size))
        got == mini_malloc(h, alloc)
    IN  IF got.p # NULL THEN insert_chunk(got.h, got.p - 1)
        ELSE Scavenge(h, alloc \div 2, alloc)

User(r) == IF r.p = NULL THEN r ELSE Result(r.h, r.p + 1)

AfterSearch(found, sz) ==
    IF found.p # NULL THEN User(found) ELSE User(search_chunk(Grow(found.h, sz), sz))

AfterDrain(drained, sz) ==
    IF drained.p # NULL THEN User(drained)
    ELSE AfterSearch(search_chunk(drained.h, sz), sz)

malloc(h0, size) ==
    LET h == [h0 EXCEPT !.mini = FALSE]
        sz == CellsFor(size)
    IN  IF size = 0 THEN Result(h0, NULL)
        ELSE AfterDrain(IF h.freed = NULL THEN Result(h, NULL) ELSE Drain(h, sz), sz)

alloca_alloc(h, size) == IF h.mini THEN mini_malloc(h, size) ELSE malloc(h, size)

-----------------------------------------------------------------------------
(* The callers.  Each fills the block it gets with its own data.           *)
NoFrame == -1                  \* the owner of a block that is not alloca's
DeadFrame == -2                \* the owner of one whose function has returned

Fill(h, cells, data) == [h EXCEPT !.cell = [a \in DOMAIN @ |->
                                              IF a \in cells THEN data ELSE @[a]]]

Hold(f, p, b) == [q \in DOMAIN f \cup {p} |-> IF q = p THEN b ELSE f[q]]
Drop(f, S) == [q \in DOMAIN f \ S |-> f[q]]
Owned(req, owner, data) == [req |-> req, owner |-> owner, data |-> data]

(* The caller gets got.p, which may be NULL.                               *)
Take(got, h, req, data) ==
    /\ Cardinality(DOMAIN held) < MaxHeld
    /\ heap' = h
    /\ held' = IF got.p = NULL THEN held
               ELSE Hold(held, got.p, Owned(req, NoFrame, data))
    /\ UNCHANGED <<alloca_stack, depth>>

TakeAndWrite(got, req) ==
    Take(got, IF got.p = NULL THEN got.h ELSE Fill(got.h, UserCells(got.h, got.p), UserData),
         req, UserData)

CallMalloc(req) == TakeAndWrite(malloc(heap, req), req)

(* A call from inside the library, which goes through the pointer.         *)
CallLibMalloc(req) == TakeAndWrite(alloca_alloc(heap, req), req)

(* calloc clears elm * sz bytes; its caller keeps the zeros.               *)
Cleared(got, v) ==
    IF got.p = NULL THEN got
    ELSE Result(Fill(got.h, got.p .. got.p + CellsFor(v) - 2, 0), got.p)

calloc(h, elm, sz) == Cleared(malloc(h, Word(elm * sz)), Word(elm * sz))

TakeCleared(got, req) == Take(got, got.h, req, 0)
CallCalloc(elm, sz) == TakeCleared(calloc(heap, elm, sz), elm * sz)

CallFree(p) ==
    /\ held[p].owner = NoFrame
    /\ heap' = free(heap, p)
    /\ held' = Drop(held, {p})
    /\ UNCHANGED <<alloca_stack, depth>>

(* realloc keeps a block that has the room, and otherwise copies it; the   *)
(* caller fills what was added.                                            *)
CopiedNothing(got, p, old) == got.h
Copied(got, p, old) ==
    [got.h EXCEPT !.cell = [a \in DOMAIN @ |-> IF a \in got.p .. got.p + old - 1
                                               THEN @[p + (a - got.p)] ELSE @[a]]]

Moved(got, p, old) ==
    IF got.p = NULL THEN got ELSE Result(free(Copied(got, p, old), p), got.p)

reallocNoSlack(h, p, req) ==
    LET old == m_size(h, p - 1) - 1
    IN  IF req < old * MemSize THEN Result(h, p) ELSE Moved(malloc(h, req), p, old)
realloc(h, p, req) ==
    LET old == m_size(h, p - 1) - 1
    IN  IF req <= old * MemSize THEN Result(h, p) ELSE Moved(malloc(h, req), p, old)

TakeMoved(got, p, req) ==
    LET data == held[p].data
        kept == (held[p].req + MemSize - 1) \div MemSize
        added == UserCells(got.h, got.p) \ (got.p .. got.p + kept - 1)
    IN  /\ heap' = IF got.p = NULL THEN got.h ELSE Fill(got.h, added, data)
        /\ held' = IF got.p = NULL THEN held
                   ELSE Hold(Drop(held, {p}), got.p, Owned(req, NoFrame, data))
        /\ UNCHANGED <<alloca_stack, depth>>

CallRealloc(p, req) ==
    /\ held[p].owner = NoFrame
    /\ TakeMoved(realloc(heap, p, req), p, req)

-----------------------------------------------------------------------------
(* alloca.  Its blocks begin with m_deep, the depth they were allocated    *)
(* at, and m_next, the block allocated before.                             *)
m_deep(h, hp) == h.cell[hp]
DeeperOrSame(h, hp) == m_deep(h, hp) >= depth
Deeper(h, hp) == m_deep(h, hp) > depth

HeaderAlone(h, hp, prev) == [h EXCEPT !.cell[hp] = depth, !.cell[hp + 1] = NULL]
Header(h, hp, prev) == [h EXCEPT !.cell[hp] = depth, !.cell[hp + 1] = prev]

CollectOne(g) ==
    IF g.hp = NULL \/ ~Deeper(g.h, g.hp) THEN g
    ELSE [h |-> free(g.h, g.hp), hp |-> m_next(g.h, g.hp), dead |-> g.dead \cup {g.hp}]
Collect(h, hp) ==
    LET after[n \in 0 .. Limit] ==
            IF n = 0 THEN [h |-> h, hp |-> hp, dead |-> {}] ELSE CollectOne(after[n - 1])
    IN  after[Limit]

Collected(gc) ==
    /\ heap' = gc.h
    /\ held' = Drop(held, gc.dead)
    /\ alloca_stack' = gc.hp

Allocated(gc, got, req) ==
    LET user == UserCells(got.h, got.p) \ {got.p, got.p + 1}
    IN  IF got.p = NULL THEN Collected([gc EXCEPT !.h = got.h])
        ELSE /\ heap' = Fill(Header(got.h, got.p, gc.hp), user, UserData)
             /\ held' = Hold(Drop(held, gc.dead), got.p,
                             Owned(2 * MemSize + req, depth, UserData))
             /\ alloca_stack' = got.p

AfterCollect(gc, req) ==
    /\ Cardinality(DOMAIN held \ gc.dead) < MaxHeld
    /\ IF req = 0 THEN Collected(gc)
       ELSE Allocated(gc, alloca_alloc(gc.h, MemSize * 2 + req), req)

CallAlloca(req) ==
    /\ AfterCollect(Collect(heap, alloca_stack), req)
    /\ UNCHANGED depth

EnterFunction ==
    /\ depth < MaxDepth
    /\ depth' = depth + 1
    /\ UNCHANGED <<heap, alloca_stack, held>>

(* A return, or a longjmp over several functions: alloca is not told.      *)
LeaveTo(d) ==
    /\ d < depth
    /\ depth' = d
    /\ held' = [p \in DOMAIN held |-> IF held[p].owner > d
                                      THEN [held[p] EXCEPT !.owner = DeadFrame]
                                      ELSE held[p]]
    /\ UNCHANGED <<heap, alloca_stack>>

Init ==
    /\ heap = HeapInit
    /\ alloca_stack = NULL
    /\ held = <<>>
    /\ depth = 0

Next ==
    \/ \E req \in Requests :
          \/ CallMalloc(req)
          \/ CallLibMalloc(req)
          \/ \E p \in DOMAIN held : CallRealloc(p, req)
    \/ \E req \in ClearRequests : CallCalloc(1, req)
    \/ \E req \in AllocaRequests : CallAlloca(req)
    \/ \E p \in DOMAIN held : CallFree(p)
    \/ EnterFunction
    \/ \E d \in 0 .. MaxDepth - 1 : LeaveTo(d)

Spec == Init /\ [][Next]_vars

-----------------------------------------------------------------------------
(* What the lists hold.                                                    *)
Linked(p) == LET at == Nth(heap, p) IN {at[n] : n \in 0 .. Limit} \ {NULL}

NextFree(p) == m_next(heap, p)
NextAlloca(p) == heap.cell[p + 1]
Freed == Linked(heap.freed)
Chunks == Linked(heap.chunk)
AllocaList == Linked(alloca_stack)
HeldBlocks == {p - 1 : p \in DOMAIN held}
AllocaBlocks == {p \in DOMAIN held : held[p].owner # NoFrame}
End(b) == b + m_size(heap, b)

TypeOK ==
    /\ heap.brk \in Base .. Limit
    /\ heap.cell \in [Base .. Limit - 1 -> Nat]
    /\ {heap.freed, heap.chunk, alloca_stack} \subseteq {NULL} \cup (Base .. Limit - 1)
    /\ heap.mini \in BOOLEAN
    /\ DOMAIN held \subseteq Base .. Limit - 1
    /\ depth \in 0 .. MaxDepth

(* What is in free memory no list runs through, and in a block beyond what *)
(* was asked for, decides nothing: the runs do not tell states apart by it. *)
Asked(p) == p - 1 .. p - 1 + (held[p].req + MemSize - 1) \div MemSize
Stale == (Base .. Limit - 1) \
           (UNION {Asked(p) : p \in DOMAIN held}
             \cup UNION {{b, b + 1} : b \in Freed \cup Chunks})
Relevant == LET stale == Stale IN
            <<[heap EXCEPT !.cell = [a \in DOMAIN @ |-> IF a \in stale THEN 0 ELSE @[a]]],
              alloca_stack, held, depth>>

(* The blocks held, the freed list and the chunk list tile the heap: every *)
(* cell below sbrk(0) is in exactly one block of exactly one of them, so   *)
(* that no order of calls makes two blocks overlap or loses a block.       *)
Tiled ==
    /\ TypeOK /\ Freed \cap Chunks = {}
    /\ HeldBlocks \cap (Freed \cup Chunks) = {}
    /\ LET blocks == HeldBlocks \cup Freed \cup Chunks
           Over(a) == {b \in blocks : a \in b .. End(b) - 1}
       IN  \A a \in Base .. Limit - 1 :
               Cardinality(Over(a)) = IF a < heap.brk THEN 1 ELSE 0

(* chunk_list is a circular list in address order with one descent, the    *)
(* order __insert_chunk's search for a place relies on, and chunks that    *)
(* touch have been joined, so that first fit sees the largest pieces.      *)
ChunksSorted ==
    /\ Cardinality({c \in Chunks : NextFree(c) <= c}) = IF Chunks = {} THEN 0 ELSE 1
    /\ \A c \in Chunks : NextFree(c) \in Chunks /\ End(c) # NextFree(c)

(* The allocator never writes into a block a caller holds, realloc carries *)
(* its contents along and calloc clears it.                                *)
DataIntact ==
    \A p \in DOMAIN held :
        \A i \in 0 .. (held[p].req - 1) \div MemSize :
            \/ heap.cell[p + i] = held[p].data
            \/ p \in AllocaBlocks /\ i < 2

(* The alloca list holds every block of alloca, of running functions and   *)
(* of ones that have returned, deepest first: the loop that collects       *)
(* garbage may stop at the first block that is not deeper.                 *)
AllocaSorted ==
    /\ AllocaList = AllocaBlocks
    /\ \A p \in AllocaList :
          NextAlloca(p) # NULL => heap.cell[NextAlloca(p)] <= heap.cell[p]

ListsSorted == ChunksSorted /\ AllocaSorted

(* A block of alloca stays as long as its function has not returned.       *)
AllocaLives ==
    [][\A p \in DOMAIN held :
          held[p].owner \in 0 .. depth' =>
              p \in DOMAIN held' /\ held'[p] = held[p]]_vars

Full(got, req) ==
    /\ got.h.freed = NULL
    /\ search_chunk(got.h, CellsFor(req)).p = NULL
    /\ Limit - got.h.brk < CellsFor(2 * MinScavenge + 1)
NullIsFull(got, req) == got.p = NULL => Full(got, req)

(* malloc returns NULL only when it has to: the freed list has been sorted *)
(* in, no chunk has the size asked for, and what is left above the heap is *)
(* less than the smallest pieces it takes, although it asks for memory in  *)
(* units that need not fit.                                                *)
NullOnlyWhenFull == \A req \in Requests \ {0} : NullIsFull(malloc(heap, req), req)

(* A block as Heap has it: whose it is, and where it is.                   *)
Whose(owner) == CASE owner = NoFrame -> "caller"
                  [] owner = DeadFrame -> "gone"
                  [] OTHER -> "frame"
Seen(h, f) == [b \in {p - 1 : p \in DOMAIN f} |->
                  [len |-> m_size(h, b), req |-> f[b + 1].req, of |-> Whose(f[b + 1].owner)]]
Blocks == Seen(heap, held)

HeapSpec == INSTANCE Heap WITH Requests <- BlockRequests, held <- Blocks

(* Seen through the blocks its callers hold, the allocator is the abstract *)
(* heap: malloc and calloc place a block where nothing is held, realloc    *)
(* moves one only if it has no room, and the old one is held until the new *)
(* one is found, free takes that block only, and alloca only garbage.      *)
Implements == HeapSpec!Spec
=============================================================================
