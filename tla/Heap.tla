-------------------------------- MODULE Heap --------------------------------
(***************************************************************************)
(* What malloc, free, realloc and alloca promise their callers: the blocks *)
(* handed out are disjoint intervals of memory cells, long enough for what *)
(* was asked, and a block stays where it is until it is given back.        *)
(* Nothing is said of free lists or of where a new block comes from;       *)
(* module Malloc implements this specification.                            *)
(***************************************************************************)
EXTENDS Integers

CONSTANTS Base,       \* address of the first cell of the heap
          Limit,      \* first address the heap may never reach
          Requests,   \* the sizes callers ask for, in bytes
          MemSize     \* sizeof(mem): bytes in a cell

\* What the constants are; Malloc's instance of this module meets it.
HeapAssumption ==
    /\ Base \in Nat
    /\ Limit \in Nat
    /\ Requests \subseteq Nat
    /\ MemSize \in Nat \ {0}

VARIABLE held         \* the blocks held: header address -> [len, req, of]

Cells == Base .. (Limit - 1)
Lengths == 1 .. (Limit - Base)

(* A block is of the caller that has to give it back, or of the function   *)
(* that called alloca, which may since be gone.                            *)
Owners == {"caller", "frame", "gone"}
Block == [len : Lengths, req : Requests, of : Owners]
Of(owner) == {b \in DOMAIN held : held[b].of = owner}

Without(f, S) == [x \in DOMAIN f \ S |-> f[x]]
With(f, x, v) == [y \in DOMAIN f \cup {x} |-> IF y = x THEN v ELSE f[y]]

(* len cells can be placed at "at" without meeting a block of f.           *)
Fits(f, at, len) ==
    /\ at + len <= Limit
    /\ \A b \in DOMAIN f : at + len <= b \/ b + f[b].len <= at

(* The size cell and the bytes asked for fit in len cells.                 *)
Roomy(len, req) == len * MemSize >= MemSize + req

(* What is held after a block was placed outside the blocks of f.          *)
Placed(f, at, block) == With(f, at, block)

Init == held = <<>>

Release(b) == held' = Without(held, {b})

Acquire(at, len, req) ==
    /\ Fits(held, at, len)
    /\ held' = Placed(held, at, [len |-> len, req |-> req, of |-> "caller"])

(* realloc to a size the block has no room for finds the new block while   *)
(* the old one is still held, because its contents are copied.             *)
Move(b, at, len, req) ==
    /\ ~Roomy(held[b].len, req)
    /\ Fits(held, at, len)
    /\ held' = Without(Placed(held, at, [len |-> len, req |-> req, of |-> "caller"]), {b})

(* realloc to a size the block has room for leaves it where it is.         *)
Keep(b, req) ==
    /\ Roomy(held[b].len, req)
    /\ held' = [held EXCEPT ![b].req = req]

(* Functions return, and their blocks of alloca are garbage.               *)
Return(S) ==
    held' = [b \in DOMAIN held |-> IF b \in S THEN [held[b] EXCEPT !.of = "gone"]
                                   ELSE held[b]]

(* alloca first gives back garbage, and only garbage, and then may place a *)
(* block of its own.                                                       *)
Reclaim(dead) == held' = Without(held, dead)

ReclaimAcquire(dead, at, len, req) ==
    /\ Fits(Without(held, dead), at, len)
    /\ held' = Placed(Without(held, dead), at, [len |-> len, req |-> req, of |-> "frame"])

Next ==
    \/ \E b \in Of("caller") :
          \/ Release(b)
          \/ \E req \in Requests : Keep(b, req)
    \/ \E S \in SUBSET Of("frame") : Return(S)
    \/ \E dead \in SUBSET Of("gone") : Reclaim(dead)
    \/ \E at \in Cells, len \in Lengths, req \in Requests :
          /\ Roomy(len, req)
          /\ \/ Acquire(at, len, req)
             \/ \E b \in Of("caller") : Move(b, at, len, req)
             \/ \E dead \in SUBSET Of("gone") : ReclaimAcquire(dead, at, len, req)

Spec == Init /\ [][Next]_held

-----------------------------------------------------------------------------
TypeOK ==
    /\ DOMAIN held \subseteq Cells
    /\ \A b \in DOMAIN held : held[b] \in Block

(* No two blocks held overlap, none leaves the heap, and each has room for *)
(* what its holder asked for: a caller that stays in its block can never   *)
(* write over another caller's data, whatever malloc, free, realloc and    *)
(* alloca did in between.                                                  *)
Sound ==
    /\ \A b, c \in DOMAIN held : b < c => b + held[b].len <= c
    /\ \A b \in DOMAIN held :
          /\ b + held[b].len <= Limit
          /\ Roomy(held[b].len, held[b].req)
=============================================================================
