---------------------------- MODULE MallocProofs ----------------------------
(***************************************************************************)
(* Proofs about Malloc, for every size of the heap and of the requests.    *)
(*                                                                         *)
(* In order: numbers and induction; blocks that fill the heap (Laid), the  *)
(* circle of chunks (Cycle), loops (Iterates) and lists that end (Stack);  *)
(* __insert_chunk and __search_chunk on the chunks (Arranged); malloc, free*)
(* and the mini allocator on a heap with both lists (Good); the callers and*)
(* alloca (Sound); the actions (Goes); the properties of Malloc, with those*)
(* of the abstract heap (HeapInv); what is left when malloc gives up       *)
(* (GivenUp).                                                              *)
(***************************************************************************)
EXTENDS Malloc, FiniteSetTheorems, TLAPS

(* A set of naturals that is not empty has a least element.                *)
LEMMA LeastOf ==
    ASSUME NEW S \in SUBSET Nat, S # {}
    PROVE  \E x \in S : \A y \in S : x <= y
<1> DEFINE R == OpToRel(<, Nat)
<1>1. IsWellFoundedOn(R, Nat)
  BY NatLessThanWellFounded
<1>2. PICK x \in S : \A y \in S : <<y, x>> \notin R
  <2>1. S \subseteq Nat
    OBVIOUS
  <2> HIDE DEF R
  <2> QED
    BY <1>1, <2>1, WFMin
<1>3. x \in Nat /\ \A y \in S : ~(y < x)
  BY <1>2 DEF OpToRel
<1>4. \A y \in S : x <= y
  <2> TAKE y \in S
  <2>1. x \in Nat /\ y \in Nat /\ ~(y < x)
    BY <1>3
  <2> QED
    BY <2>1
<1> QED
  BY <1>4

(* Induction: a set of naturals with 0 and the successors of its elements. *)
LEMMA SetInduction ==
    ASSUME NEW S \in SUBSET Nat, 0 \in S, \A n \in S : n + 1 \in S
    PROVE  S = Nat
<1> SUFFICES ASSUME Nat \ S # {} PROVE FALSE
  OBVIOUS
<1>1. PICK x \in Nat \ S : \A y \in Nat \ S : x <= y
  BY LeastOf
<1>2. x \in Nat /\ x # 0
  BY <1>1
<1>3. x - 1 \in S /\ (x - 1) + 1 = x
  BY <1>1, <1>2
<1> QED
  BY <1>1, <1>3

(* A set of naturals with an upper bound has a greatest element.           *)
LEMMA GreatestOf ==
    ASSUME NEW S \in SUBSET Nat, S # {}, NEW m \in Nat, \A y \in S : y <= m
    PROVE  \E x \in S : \A y \in S : y <= x
<1> DEFINE T == {n \in Nat : \A y \in S : y <= n}
<1>1. T \in SUBSET Nat /\ m \in T
  OBVIOUS
<1>2. PICK x \in T : \A n \in T : x <= n
  BY <1>1, LeastOf
<1>3. x \in S
  <2> SUFFICES ASSUME x \notin S PROVE FALSE
    OBVIOUS
  <2>1. \A y \in S : y \in Nat /\ y <= x /\ y # x
    BY <1>2
  <2>2. x \in Nat /\ x # 0
    <3>1. x \in Nat
      BY <1>2
    <3>2. PICK y \in S : TRUE
      OBVIOUS
    <3> QED
      BY <2>1, <3>1, <3>2
  <2>3. \A y \in S : y <= x - 1
    <3> TAKE y \in S
    <3>1. y \in Nat /\ y <= x /\ y # x /\ x \in Nat
      BY <2>1, <2>2
    <3> QED
      BY <3>1
  <2>4. x - 1 \in T
    BY <2>2, <2>3
  <2> QED
    BY <1>2, <2>2, <2>4
<1> QED
  BY <1>2, <1>3

-----------------------------------------------------------------------------
-----------------------------------------------------------------------------
(* Where the blocks are.                                                   *)
Cell == Base .. Limit - 1
Heaps == [brk : Base .. Limit, cell : [Cell -> Nat], freed : Nat, chunk : Nat,
          mini : BOOLEAN]

(* The blocks at X lie one after the other, and fill the heap.             *)
Laid(h, X) ==
    /\ X \subseteq Cell
    /\ \A b \in X : 2 <= m_size(h, b) /\ b + m_size(h, b) <= h.brk
    /\ \A b, c \in X : b < c => b + m_size(h, b) <= c
    /\ \A a \in Cell : a < h.brk => \E b \in X : b <= a /\ a < b + m_size(h, b)

(* The cells of the blocks at X are in g what they are in h.               *)
Untouched(h, g, X) ==
    \A b \in X : \A a \in b .. b + m_size(h, b) - 1 : g.cell[a] = h.cell[a]

Sizes(h, g, X) == \A b \in X : m_size(g, b) = m_size(h, b)

(* What that says of each block and of two of them, number by number.      *)
LEMMA LaidFacts ==
    ASSUME MallocAssumption, NEW h \in Heaps, NEW X, Laid(h, X)
    PROVE  /\ \A b \in X : /\ b \in Nat /\ b # 0 /\ b \in Cell /\ b + 1 \in Cell
                           /\ m_size(h, b) \in Nat /\ m_size(h, b) >= 2
                           /\ m_next(h, b) \in Nat
                           /\ m_size(h, b) = h.cell[b] /\ m_next(h, b) = h.cell[b + 1]
           /\ \A b, c \in X : b # c => b + m_size(h, b) <= c \/ c + m_size(h, c) <= b
           /\ h.brk \in Nat /\ Base \in Nat /\ Limit \in Nat
<1>1. h.brk \in Base .. Limit /\ h.cell \in [Cell -> Nat]
  BY DEF Heaps
<1>2. \A b \in X : b \in Cell /\ h.cell[b] \in Nat /\ m_size(h, b) = h.cell[b]
  BY <1>1 DEF Laid, m_size
<1>3. \A b \in X : b \in Int /\ m_size(h, b) \in Int /\ 2 <= m_size(h, b) /\ b + m_size(h, b) <= h.brk
  BY <1>2 DEF Laid, Cell, MallocAssumption
<1>4. \A b \in X : b \in Nat /\ b # 0 /\ b + 1 \in Cell
  BY <1>1, <1>2, <1>3 DEF Cell, MallocAssumption
<1>5. \A b, c \in X : b # c => b + m_size(h, b) <= c \/ c + m_size(h, c) <= b
  <2> TAKE b, c \in X
  <2>1. b < c \/ c < b \/ b = c
    BY <1>3
  <2> QED
    BY <2>1 DEF Laid
<1>6. \A b \in X : m_next(h, b) = h.cell[b + 1] /\ m_next(h, b) \in Nat
  BY <1>1, <1>4 DEF m_next
<1> QED
  BY <1>1, <1>2, <1>3, <1>4, <1>5, <1>6 DEF MallocAssumption

(* Blocks that keep their sizes stay where they are.                       *)
LEMMA LaidSame ==
    ASSUME NEW h, NEW g, NEW X, Laid(h, X), g.brk = h.brk, Sizes(h, g, X)
    PROVE  Laid(g, X)
BY DEF Laid, Sizes

(* Two blocks that touch can be made one.                                  *)
LEMMA LaidMerge ==
    ASSUME MallocAssumption, NEW h \in Heaps, NEW g, NEW X, Laid(h, X), g.brk = h.brk,
           NEW a \in X, NEW b \in X, b = a + m_size(h, a),
           m_size(g, a) = m_size(h, a) + m_size(h, b), Sizes(h, g, X \ {a, b})
    PROVE  Laid(g, X \ {b}) /\ a # b
<1>1. /\ \A c \in X : c \in Nat /\ m_size(h, c) \in Nat /\ m_size(h, c) >= 2
      /\ \A c, d \in X : c # d => c + m_size(h, c) <= d \/ d + m_size(h, d) <= c
      /\ h.brk \in Nat /\ a # b /\ Cell \subseteq Int
  BY LaidFacts DEF Cell
<1>2. \A c \in X \ {b} : m_size(g, c) = IF c = a THEN m_size(h, a) + m_size(h, b) ELSE m_size(h, c)
  BY DEF Sizes
<1>3. \A c \in X \ {b} : 2 <= m_size(g, c) /\ c + m_size(g, c) <= g.brk
  BY <1>1, <1>2 DEF Laid
<1>4. \A c, d \in X \ {b} : c < d => c + m_size(g, c) <= d
  <2> TAKE c, d \in X \ {b}
  <2>1. c # a /\ c < d => c + m_size(g, c) <= d
    BY <1>2 DEF Laid
  <2>2. a < d => b < d
    BY <1>1, <2>1
  <2>3. a < d => a + m_size(g, a) <= d
    BY <1>1, <2>2 DEF Laid
  <2> QED
    BY <2>1, <2>3
<1>5. \A x \in Cell : x < g.brk => \E c \in X \ {b} : c <= x /\ x < c + m_size(g, c)
  <2> SUFFICES ASSUME NEW x \in Cell, x < g.brk
               PROVE  \E c \in X \ {b} : c <= x /\ x < c + m_size(g, c)
    OBVIOUS
  <2>1. PICK c \in X : c <= x /\ x < c + m_size(h, c)
    BY DEF Laid
  <2>2. CASE c = b \/ c = a
    <3>1. x \in Int /\ a <= x /\ x < a + m_size(g, a)
      BY <1>1, <2>1, <2>2
    <3> QED
      BY <3>1, <1>1
  <2>3. CASE c # b /\ c # a
    BY <2>1, <2>3, <1>2
  <2> QED
    BY <2>2, <2>3
<1>6. X \ {b} \subseteq Cell
  BY DEF Laid
<1> QED
  BY <1>1, <1>3, <1>4, <1>5, <1>6 DEF Laid

(* A block can be cut in two.                                              *)
LEMMA LaidSplit ==
    ASSUME MallocAssumption, NEW h \in Heaps, NEW g, NEW X, Laid(h, X), g.brk = h.brk,
           NEW a \in X, NEW n \in Nat, n >= 2, m_size(h, a) >= n + 2,
           m_size(g, a) = n, m_size(g, a + n) = m_size(h, a) - n, Sizes(h, g, X \ {a})
    PROVE  Laid(g, X \cup {a + n}) /\ a + n \notin X
<1> DEFINE r == a + n
<1>1. /\ \A c \in X : c \in Nat /\ m_size(h, c) \in Nat /\ m_size(h, c) >= 2
      /\ \A c, d \in X : c # d => c + m_size(h, c) <= d \/ d + m_size(h, d) <= c
      /\ h.brk \in Nat /\ Cell \subseteq Int /\ r \in Nat
  BY LaidFacts DEF Cell
<1>2. a + m_size(h, a) <= h.brk /\ h.brk <= Limit /\ Limit \in Nat /\ a \in Cell /\ Base \in Nat
  BY DEF Laid, Heaps, MallocAssumption
<1>3. r \in Cell
  BY <1>1, <1>2 DEF Cell
<1>4. r \notin X
  BY <1>1
<1>5. /\ \A c \in X \ {a} : m_size(g, c) = m_size(h, c)
      /\ m_size(g, a) = n /\ m_size(g, r) = m_size(h, a) - n
  BY DEF Sizes
<1> HIDE DEF r
<1>r. r = a + n
  BY DEF r
<1>6. \A c \in X \cup {r} : 2 <= m_size(g, c) /\ c + m_size(g, c) <= g.brk
  <2> TAKE c \in X \cup {r}
  <2>1. CASE c = r
    BY <1>1, <1>2, <1>5, <1>r, <2>1
  <2>2. CASE c = a
    BY <1>1, <1>2, <1>5, <1>r, <2>2
  <2>3. CASE c \in X \ {a}
    BY <1>5, <2>3 DEF Laid
  <2> QED
    BY <2>1, <2>2, <2>3
<1>7. \A c, d \in X \cup {r} : c < d => c + m_size(g, c) <= d
  <2> SUFFICES ASSUME NEW c \in X \cup {r}, NEW d \in X \cup {r}, c < d
               PROVE  c + m_size(g, c) <= d
    OBVIOUS
  <2>1. CASE c = r
    BY <1>1, <1>5, <1>r, <2>1
  <2>2. CASE c = a
    BY <1>1, <1>5, <1>r, <2>2
  <2>3. CASE c \in X \ {a} /\ d \in X
    BY <1>5, <2>3 DEF Laid
  <2>4. CASE c \in X \ {a} /\ d = r
    BY <1>1, <1>5, <1>r, <2>4
  <2> QED
    BY <2>1, <2>2, <2>3, <2>4
<1>8. \A x \in Cell : x < g.brk => \E c \in X \cup {r} : c <= x /\ x < c + m_size(g, c)
  <2> SUFFICES ASSUME NEW x \in Cell, x < g.brk
               PROVE  \E c \in X \cup {r} : c <= x /\ x < c + m_size(g, c)
    OBVIOUS
  <2>1. PICK c \in X : c <= x /\ x < c + m_size(h, c)
    BY DEF Laid
  <2>2. CASE c = a
    <3>1. (a <= x /\ x < a + m_size(g, a)) \/ (r <= x /\ x < r + m_size(g, r))
      BY <1>1, <1>5, <1>r, <2>1, <2>2
    <3> QED
      BY <3>1
  <2>3. CASE c # a
    BY <2>1, <2>3, <1>5
  <2> QED
    BY <2>2, <2>3
<1> QED
  BY <1>3, <1>4, <1>6, <1>7, <1>8, <1>r DEF Laid

(* The block at the top can be given back.                                 *)
LEMMA LaidLower ==
    ASSUME MallocAssumption, NEW h \in Heaps, NEW g, NEW X, Laid(h, X), NEW a \in X,
           a + m_size(h, a) = h.brk, g.brk = a, Sizes(h, g, X \ {a})
    PROVE  Laid(g, X \ {a})
<1>1. /\ \A c \in X : c \in Nat /\ m_size(h, c) \in Nat /\ m_size(h, c) >= 2
      /\ h.brk \in Nat /\ Cell \subseteq Int
  BY LaidFacts DEF Cell
<1>2. \A c \in X \ {a} : m_size(g, c) = m_size(h, c)
  BY DEF Sizes
<1>3. \A c \in X \ {a} : c + m_size(h, c) <= a
  <2> TAKE c \in X \ {a}
  <2>1. c < a \/ a < c
    BY <1>1
  <2>2. a < c => h.brk <= c
    BY DEF Laid
  <2>3. c + m_size(h, c) <= h.brk
    BY DEF Laid
  <2>4. c < a
    BY <1>1, <2>1, <2>2, <2>3
  <2> QED
    BY <2>4 DEF Laid
<1>4. \A x \in Cell : x < a => \E c \in X \ {a} : c <= x /\ x < c + m_size(g, c)
  <2> SUFFICES ASSUME NEW x \in Cell, x < a
               PROVE  \E c \in X \ {a} : c <= x /\ x < c + m_size(g, c)
    OBVIOUS
  <2>1. x < h.brk
    BY <1>1
  <2>2. PICK c \in X : c <= x /\ x < c + m_size(h, c)
    BY <2>1 DEF Laid
  <2>3. c # a
    BY <1>1, <2>2
  <2> QED
    BY <1>2, <2>2, <2>3
<1> QED
  BY <1>2, <1>3, <1>4 DEF Laid

(* A block can be added at the top.                                        *)
LEMMA LaidGrow ==
    ASSUME MallocAssumption, NEW h \in Heaps, NEW g, NEW X, Laid(h, X), NEW n \in Nat, n >= 2,
           h.brk + n <= Limit, g.brk = h.brk + n, m_size(g, h.brk) = n, Sizes(h, g, X)
    PROVE  Laid(g, X \cup {h.brk}) /\ h.brk \notin X
<1>1. /\ \A c \in X : c \in Nat /\ m_size(h, c) \in Nat /\ m_size(h, c) >= 2
      /\ h.brk \in Base .. Limit /\ Base \in Nat /\ Limit \in Nat /\ Cell \subseteq Int
  BY LaidFacts DEF Cell, Heaps
<1>2. \A c \in X : m_size(g, c) = m_size(h, c) /\ c + m_size(h, c) <= h.brk
  BY DEF Sizes, Laid
<1>3. h.brk \in Cell /\ h.brk \notin X
  BY <1>1, <1>2 DEF Cell
<1>4. \A c \in X \cup {h.brk} : 2 <= m_size(g, c) /\ c + m_size(g, c) <= g.brk
  BY <1>1, <1>2
<1>5. \A c, d \in X \cup {h.brk} : c < d => c + m_size(g, c) <= d
  BY <1>1, <1>2 DEF Laid
<1>6. \A x \in Cell : x < g.brk => \E c \in X \cup {h.brk} : c <= x /\ x < c + m_size(g, c)
  <2> TAKE x \in Cell
  <2>1. x < h.brk => \E c \in X : c <= x /\ x < c + m_size(h, c)
    BY DEF Laid
  <2>2. x < h.brk \/ (h.brk <= x /\ (x < g.brk => x < h.brk + m_size(g, h.brk)))
    BY <1>1
  <2> QED
    BY <1>2, <2>1, <2>2
<1> QED
  BY <1>3, <1>4, <1>5, <1>6 DEF Laid

-----------------------------------------------------------------------------
-----------------------------------------------------------------------------
(* The circular list of chunks, in address order with one descent.         *)
Cycle(h, C) ==
    /\ \A c \in C : m_next(h, c) \in C
    /\ \A c, d \in C : c < m_next(h, c) => d <= c \/ m_next(h, c) <= d
    /\ \A c, d \in C : m_next(h, c) <= c => m_next(h, c) <= d /\ d <= c

(* A circle depends on the links of its chunks only.                       *)
LEMMA CycleSame ==
    ASSUME NEW h, NEW g, NEW C, Cycle(h, C), \A c \in C : m_next(g, c) = m_next(h, c)
    PROVE  Cycle(g, C)
BY DEF Cycle

(* No two chunks of a circle have the same successor.                      *)
LEMMA CycleInjective ==
    ASSUME NEW h, NEW C \in SUBSET Nat, Cycle(h, C), NEW c \in C, NEW d \in C,
           m_next(h, c) = m_next(h, d)
    PROVE  c = d
<1>t. \A x \in C : x \in Nat /\ m_next(h, x) \in Nat /\ m_next(h, x) \in C
  BY DEF Cycle
<1>1. /\ c \in Nat /\ d \in Nat /\ m_next(h, c) \in Nat
      /\ c < m_next(h, c) => d <= c \/ m_next(h, c) <= d
      /\ d < m_next(h, c) => c <= d \/ m_next(h, c) <= c
      /\ m_next(h, c) <= c => m_next(h, c) <= d /\ d <= c
      /\ m_next(h, c) <= d => m_next(h, c) <= c /\ c <= d
  BY <1>t DEF Cycle
<1> QED
  BY <1>1

(* A chunk goes in after p2 when its place is there.                       *)
LEMMA CycleAdd ==
    ASSUME NEW h, NEW g, NEW C \in SUBSET Nat, Cycle(h, C), NEW p \in C, NEW q \in Nat \ C,
           Place(h, q, p), m_next(g, p) = q, m_next(g, q) = m_next(h, p),
           \A c \in C \ {p} : m_next(g, c) = m_next(h, c)
    PROVE  Cycle(g, C \cup {q})
<1> DEFINE D == C \cup {q}
<1> USE DEF Place, AboveTop, InChain, BelowBottom
<1>t. \A c \in C : c \in Nat /\ m_next(h, c) \in Nat /\ m_next(h, c) \in C
  BY DEF Cycle
<1>0. m_next(h, p) \in C
  BY DEF Cycle
<1>1. \A c \in D : m_next(g, c) \in D
  BY DEF Cycle
<1>2. ASSUME NEW c \in D, NEW d \in D, c < m_next(g, c)
      PROVE  d <= c \/ m_next(g, c) <= d
  <2>1. CASE c = p
    BY <1>t, <1>0, <1>2, <2>1 DEF Cycle
  <2>2. CASE c = q
    BY <1>t, <1>0, <1>2, <2>2 DEF Cycle
  <2>3. CASE c \in C \ {p}
    BY <1>t, <1>0, <1>2, <2>3 DEF Cycle
  <2> QED
    BY <2>1, <2>2, <2>3
<1>3. ASSUME NEW c \in D, NEW d \in D, m_next(g, c) <= c
      PROVE  m_next(g, c) <= d /\ d <= c
  <2>1. CASE c = p
    BY <1>t, <1>0, <1>3, <2>1 DEF Cycle
  <2>2. CASE c = q
    BY <1>t, <1>0, <1>3, <2>2 DEF Cycle
  <2>3. CASE c \in C \ {p}
    BY <1>t, <1>0, <1>3, <2>3 DEF Cycle
  <2> QED
    BY <2>1, <2>2, <2>3
<1> QED
  BY <1>1, <1>2, <1>3 DEF Cycle

(* The chunk after p is taken out.                                         *)
LEMMA CycleRemove ==
    ASSUME NEW h, NEW g, NEW C \in SUBSET Nat, Cycle(h, C), NEW p \in C, NEW q,
           q = m_next(h, p), q # p, m_next(g, p) = m_next(h, q),
           \A c \in C \ {p, q} : m_next(g, c) = m_next(h, c)
    PROVE  Cycle(g, C \ {q})
<1> DEFINE D == C \ {q}
<1>t. \A c \in C : c \in Nat /\ m_next(h, c) \in Nat /\ m_next(h, c) \in C
  BY DEF Cycle
<1>0. q \in C /\ m_next(h, q) \in C /\ p \in D
  BY DEF Cycle
<1>i. \A c \in C : m_next(h, c) = q => c = p
  BY CycleInjective
<1>1. \A c \in D : m_next(g, c) \in D
  BY <1>t, <1>0, <1>i DEF Cycle
<1>2. ASSUME NEW c \in D, NEW d \in D, c < m_next(g, c)
      PROVE  d <= c \/ m_next(g, c) <= d
  <2>1. CASE c = p
    BY <1>t, <1>0, <1>2, <2>1 DEF Cycle
  <2>2. CASE c # p
    BY <1>t, <1>0, <1>2, <2>2 DEF Cycle
  <2> QED
    BY <2>1, <2>2
<1>3. ASSUME NEW c \in D, NEW d \in D, m_next(g, c) <= c
      PROVE  m_next(g, c) <= d /\ d <= c
  <2>1. CASE c = p
    BY <1>t, <1>0, <1>3, <2>1 DEF Cycle
  <2>2. CASE c # p
    BY <1>t, <1>0, <1>3, <2>2 DEF Cycle
  <2> QED
    BY <2>1, <2>2
<1> QED
  BY <1>1, <1>2, <1>3 DEF Cycle

(* The chunk q after p gives way to one further up, in front of the next.  *)
LEMMA CycleReplace ==
    ASSUME NEW h, NEW g, NEW C \in SUBSET Nat, Cycle(h, C), NEW p \in C, NEW q,
           q = m_next(h, p), NEW r \in Nat \ C, q < r,
           \A d \in C : d <= q \/ r < d,
           m_next(g, r) = IF p = q THEN r ELSE m_next(h, q),
           p # q => m_next(g, p) = r,
           \A c \in C \ {p, q} : m_next(g, c) = m_next(h, c)
    PROVE  Cycle(g, (C \ {q}) \cup {r})
<1> DEFINE D == (C \ {q}) \cup {r}
<1>t. \A c \in C : c \in Nat /\ m_next(h, c) \in Nat /\ m_next(h, c) \in C
  BY DEF Cycle
<1>0. q \in C /\ m_next(h, q) \in C
  BY DEF Cycle
<1>i. \A c \in C : m_next(h, c) = q => c = p
  BY CycleInjective
<1>a. CASE p = q
  <2>1. \A c \in C : q <= c /\ c <= q
    <3>1. q \in Nat /\ m_next(h, q) = q
      BY <1>t, <1>0, <1>a
    <3> QED
      BY <3>1, <1>0 DEF Cycle
  <2>2. C = {q}
    <3>1. \A c \in C : c = q
      BY <1>t, <1>0, <2>1
    <3> QED
      BY <1>0, <3>1
  <2> QED
    BY <2>2, <1>a DEF Cycle
<1>b. CASE p # q
  <2>0. m_next(h, q) # q
    BY <1>t, <1>0, <1>i, <1>b
  <2>1. \A c \in D : m_next(g, c) \in D
    BY <1>t, <1>0, <1>i, <1>b, <2>0 DEF Cycle
  <2>2. ASSUME NEW c \in D, NEW d \in D, c < m_next(g, c)
        PROVE  d <= c \/ m_next(g, c) <= d
    <3>1. CASE c = p
      BY <1>t, <1>0, <1>b, <2>0, <2>2, <3>1 DEF Cycle
    <3>2. CASE c = r
      BY <1>t, <1>0, <1>b, <2>0, <2>2, <3>2 DEF Cycle
    <3>3. CASE c # p /\ c # r
      BY <1>t, <1>0, <1>b, <1>i, <2>0, <2>2, <3>3 DEF Cycle
    <3> QED
      BY <3>1, <3>2, <3>3
  <2>3. ASSUME NEW c \in D, NEW d \in D, m_next(g, c) <= c
        PROVE  m_next(g, c) <= d /\ d <= c
    <3>1. CASE c = p
      BY <1>t, <1>0, <1>b, <2>0, <2>3, <3>1 DEF Cycle
    <3>2. CASE c = r
      BY <1>t, <1>0, <1>b, <2>0, <2>3, <3>2 DEF Cycle
    <3>3. CASE c # p /\ c # r
      BY <1>t, <1>0, <1>b, <1>i, <2>0, <2>3, <3>3 DEF Cycle
    <3> QED
      BY <3>1, <3>2, <3>3
  <2> QED
    BY <2>1, <2>2, <2>3 DEF Cycle
<1> QED
  BY <1>a, <1>b

-----------------------------------------------------------------------------
-----------------------------------------------------------------------------
(* Functions that apply a step again and again.                            *)
Iterates(f, G, a, N) == f = [n \in 0 .. N |-> IF n = 0 THEN a ELSE G[f[n - 1]]]

(* Such a function exists, and stays where the step stays.                 *)
LEMMA Iterated ==
    ASSUME NEW S, NEW a \in S, NEW N \in Nat, NEW G \in [S -> S]
    PROVE  \E f : Iterates(f, G, a, N) /\ \A n \in 0 .. N : f[n] \in S
<1> DEFINE Upto(f, k) == /\ f = [n \in 0 .. k |-> IF n = 0 THEN a ELSE G[f[n - 1]]]
                         /\ \A n \in 0 .. k : f[n] \in S
           T == {k \in Nat : \E f : Upto(f, k)}
<1>1. 0 \in T
  <2>1. Upto([n \in 0 .. 0 |-> a], 0)
    OBVIOUS
  <2> QED
    BY <2>1
<1>2. ASSUME NEW k \in T PROVE k + 1 \in T
  <2>1. PICK f : Upto(f, k)
    OBVIOUS
  <2>0. k \in Nat
    OBVIOUS
  <2> DEFINE v == G[f[k]]
             g == [n \in 0 .. k + 1 |-> IF n <= k THEN f[n] ELSE v]
  <2>2. \A n \in 0 .. k : n \in 0 .. k + 1 /\ g[n] = f[n]
    BY <2>0
  <2>3. g[k + 1] = v /\ v \in S
    BY <2>0, <2>1
  <2>4. \A n \in 0 .. k + 1 : g[n] \in S
    <3> TAKE n \in 0 .. k + 1
    <3>1. n \in 0 .. k \/ n = k + 1
      BY <2>0
    <3> HIDE DEF g, v
    <3> QED
      BY <2>1, <2>2, <2>3, <3>1
  <2>5. \A n \in 0 .. k + 1 : g[n] = IF n = 0 THEN a ELSE G[g[n - 1]]
    <3> TAKE n \in 0 .. k + 1
    <3>1. CASE n = k + 1
      <4>1. n # 0 /\ n - 1 = k /\ k \in 0 .. k
        BY <2>0, <3>1
      <4>2. g[n - 1] = f[k]
        BY <2>2, <4>1
      <4> HIDE DEF g
      <4> QED
        BY <2>3, <3>1, <4>1, <4>2
    <3>2. CASE n # k + 1
      <4>1. n \in 0 .. k /\ (n # 0 => n - 1 \in 0 .. k)
        BY <2>0, <3>2
      <4>2. f[n] = IF n = 0 THEN a ELSE G[f[n - 1]]
        BY <2>1, <4>1
      <4> HIDE DEF g, Upto
      <4> QED
        BY <2>2, <4>1, <4>2
    <3> QED
      BY <3>1, <3>2
  <2>6. g = [n \in 0 .. k + 1 |-> IF n = 0 THEN a ELSE G[g[n - 1]]]
    <3>1. g = [n \in 0 .. k + 1 |-> g[n]]
      OBVIOUS
    <3> HIDE DEF g
    <3> QED
      BY <2>5, <3>1
  <2>7. Upto(g, k + 1)
    <3> HIDE DEF g
    <3> QED
      BY <2>4, <2>6
  <2> HIDE DEF g, Upto
  <2> QED
    BY <2>0, <2>7
<1>3. T = Nat
  <2>1. T \subseteq Nat
    OBVIOUS
  <2> HIDE DEF T
  <2> QED
    BY <1>1, <1>2, <2>1, SetInduction
<1> HIDE DEF Upto
<1>4. \E f : Upto(f, N)
  BY <1>3
<1> QED
  BY <1>4 DEF Upto, Iterates

(* Induction over the rounds of a loop.                                    *)
LEMMA Stays ==
    ASSUME NEW S, NEW N \in Nat, NEW f, f[0] \in S,
           \A n \in 1 .. N : f[n - 1] \in S => f[n] \in S
    PROVE  \A n \in 0 .. N : f[n] \in S
<1> DEFINE T == {n \in Nat : n <= N => f[n] \in S}
<1>1. 0 \in T
  OBVIOUS
<1>2. ASSUME NEW n \in T PROVE n + 1 \in T
  <2>1. n \in Nat /\ n + 1 \in Nat /\ (n + 1) - 1 = n
    OBVIOUS
  <2>2. n + 1 <= N => n + 1 \in 1 .. N /\ n <= N
    BY <2>1
  <2> QED
    BY <2>1, <2>2
<1>3. T = Nat
  <2>1. T \subseteq Nat
    OBVIOUS
  <2> HIDE DEF T
  <2> QED
    BY <1>1, <1>2, <2>1, SetInduction
<1> QED
  BY <1>3

(* The links of a list that stays among known cells.                       *)
LEMMA NthFacts ==
    ASSUME MallocAssumption, NEW h, NEW S, NEW p \in S,
           \A q \in S : q # NULL => m_next(h, q) \in S
    PROVE  LET at == Nth(h, p) IN
           /\ at[0] = p
           /\ \A n \in 1 .. Limit : at[n] = IF at[n - 1] = NULL THEN NULL
                                           ELSE m_next(h, at[n - 1])
           /\ \A n \in 0 .. Limit : at[n] \in S
           /\ at = [n \in 0 .. Limit |-> at[n]]
<1> DEFINE Step(q) == IF q = NULL THEN NULL ELSE m_next(h, q)
           G == [q \in S |-> Step(q)]
           Upto(f) == f = [n \in 0 .. Limit |-> IF n = 0 THEN p ELSE Step(f[n - 1])]
<1>0. Limit \in Nat
  BY DEF MallocAssumption
<1>1. G \in [S -> S]
  <2>1. \A q \in S : Step(q) \in S
    OBVIOUS
  <2> QED
    BY <2>1
<1>2. PICK f : Iterates(f, G, p, Limit) /\ \A n \in 0 .. Limit : f[n] \in S
  <2> HIDE DEF G
  <2> QED
    BY <1>0, <1>1, Iterated
<1>3. Upto(f)
  <2>1. \A n \in 0 .. Limit : n # 0 => G[f[n - 1]] = Step(f[n - 1])
    <3> TAKE n \in 0 .. Limit
    <3>1. n # 0 => n - 1 \in 0 .. Limit
      BY <1>0
    <3> HIDE DEF Step
    <3> QED
      BY <1>2, <3>1
  <2> HIDE DEF G, Step
  <2> QED
    BY <1>2, <2>1 DEF Iterates
<1> DEFINE at == CHOOSE g : Upto(g)
<1>4. Upto(at)
  <2> HIDE DEF Upto
  <2> QED
    BY <1>3
<1> HIDE DEF at
<1>5. at[0] = p /\ \A n \in 1 .. Limit : at[n] = Step(at[n - 1])
  <2> HIDE DEF Step
  <2>1. \A n \in 0 .. Limit : at[n] = IF n = 0 THEN p ELSE Step(at[n - 1])
    BY <1>4
  <2>2. 0 \in 0 .. Limit /\ \A n \in 1 .. Limit : n \in 0 .. Limit /\ n # 0
    BY <1>0
  <2> QED
    BY <2>1, <2>2
<1>6. \A n \in 0 .. Limit : at[n] \in S
  <2>1. \A n \in 1 .. Limit : at[n - 1] \in S => at[n] \in S
    <3> TAKE n \in 1 .. Limit
    <3> QED
      BY <1>5
  <2> QED
    BY <1>0, <1>5, <2>1, Stays
<1>7. at = [n \in 0 .. Limit |-> at[n]]
  BY <1>4
<1>8. Nth(h, p) = at
  BY DEF Nth, at, Step
<1> QED
  BY <1>5, <1>6, <1>7, <1>8

(* Going round a circle of chunks reaches each of them: two of Limit + 1   *)
(* links are equal and go on alike, so that what is reached is closed, and *)
(* a part of the circle that is closed is all of it.                       *)
Reaches(at, C) ==
    /\ \A n \in 0 .. Limit : at[n] \in C
    /\ \A c \in C : \E n \in 0 .. Limit : at[n] = c

(* So what chunk_list reaches is the whole circle.                         *)
LEMMA CycleReached ==
    ASSUME MallocAssumption, NEW h, NEW C \in SUBSET Cell, Cycle(h, C), NEW p \in C
    PROVE  Reaches(Nth(h, p), C)
<1> DEFINE at == Nth(h, p)
           L == 0 .. Limit
           R == {at[n] : n \in L}
<1>0. Limit \in Nat /\ Base \in Nat /\ NULL \notin C /\ C \subseteq Nat
  BY DEF MallocAssumption, Cell, NULL
<1>1. /\ at[0] = p /\ at = [n \in L |-> at[n]]
      /\ \A n \in L : at[n] \in C
      /\ \A n \in 1 .. Limit : at[n] = m_next(h, at[n - 1])
  <2>1. \A q \in C : q # NULL => m_next(h, q) \in C
    BY DEF Cycle
  <2>2. /\ at[0] = p /\ at = [n \in L |-> at[n]]
        /\ \A n \in L : at[n] \in C
        /\ \A n \in 1 .. Limit : at[n] = IF at[n - 1] = NULL THEN NULL ELSE m_next(h, at[n - 1])
    BY <2>1, NthFacts
  <2>3. \A n \in 1 .. Limit : n - 1 \in L
    BY <1>0
  <2> HIDE DEF at, L
  <2> QED
    BY <1>0, <2>2, <2>3
<1> HIDE DEF at
<1>2. PICK i \in L, j \in L : i < j /\ at[i] = at[j]
  <2>1. at \in [L -> Cell]
    BY <1>1
  <2>2. /\ IsFiniteSet(L) /\ Cardinality(L) = Limit + 1
        /\ IsFiniteSet(Cell) /\ Cardinality(Cell) <= Limit
    <3>1. IsFiniteSet(L) /\ Cardinality(L) = Limit + 1
      <4>1. Cardinality(L) = IF 0 > Limit THEN 0 ELSE Limit - 0 + 1
        BY <1>0, FS_Interval
      <4> QED
        BY <1>0, <4>1, FS_Interval
    <3>2. IsFiniteSet(Cell) /\ Cardinality(Cell) <= Limit
      <4>1. Cardinality(Cell) = IF Base > Limit - 1 THEN 0 ELSE (Limit - 1) - Base + 1
        BY <1>0, FS_Interval DEF Cell
      <4>2. IsFiniteSet(Cell)
        BY <1>0, FS_Interval DEF Cell
      <4> QED
        BY <1>0, <4>1, <4>2
    <3> QED
      BY <3>1, <3>2
  <2>3. Cardinality(Cell) < Cardinality(L)
    BY <1>0, <2>2, FS_CardinalityType
  <2> HIDE DEF L
  <2>4. PICK x, y \in L : x # y /\ at[x] = at[y]
    BY <2>1, <2>2, <2>3, FS_PigeonHole
  <2>5. x \in Int /\ y \in Int
    BY DEF L
  <2>6. x < y \/ y < x
    BY <2>4, <2>5
  <2> QED
    BY <2>4, <2>6
<1>3. m_next(h, at[Limit]) \in R
  <2> DEFINE T == {k \in Nat : j + k <= Limit => at[i + k] = at[j + k]}
  <2>0. i \in Nat /\ j \in Nat /\ i < j /\ j <= Limit
    BY <1>0, <1>2
  <2>1. 0 \in T
    BY <1>2, <2>0
  <2>2. ASSUME NEW k \in T PROVE k + 1 \in T
    <3> SUFFICES ASSUME j + (k + 1) <= Limit PROVE at[i + (k + 1)] = at[j + (k + 1)]
      OBVIOUS
    <3>1. k \in Nat /\ j + k <= Limit /\ i + (k + 1) \in 1 .. Limit /\ j + (k + 1) \in 1 .. Limit
          /\ (i + (k + 1)) - 1 = i + k /\ (j + (k + 1)) - 1 = j + k
      BY <1>0, <2>0
    <3>2. at[i + k] = at[j + k]
      BY <3>1
    <3>3. at[i + (k + 1)] = m_next(h, at[i + k]) /\ at[j + (k + 1)] = m_next(h, at[j + k])
      <4>1. \A n \in 1 .. Limit : at[n] = m_next(h, at[n - 1])
        BY <1>1
      <4> HIDE DEF T
      <4>2. at[i + (k + 1)] = m_next(h, at[(i + (k + 1)) - 1])
        BY <3>1, <4>1
      <4>3. at[j + (k + 1)] = m_next(h, at[(j + (k + 1)) - 1])
        BY <3>1, <4>1
      <4> QED
        BY <3>1, <4>2, <4>3
    <3> QED
      BY <3>2, <3>3
  <2>3. T = Nat
    <3>1. T \subseteq Nat
      OBVIOUS
    <3> HIDE DEF T
    <3> QED
      BY <2>1, <2>2, <3>1, SetInduction
  <2> DEFINE k == Limit - j
             m == i + k + 1
  <2>4. k \in Nat /\ j + k = Limit /\ m \in 1 .. Limit /\ m - 1 = i + k /\ m \in L
    BY <1>0, <2>0
  <2> HIDE DEF k
  <2>5. at[i + k] = at[Limit]
    <3>1. k \in T
      <4> HIDE DEF T
      <4> QED
        BY <2>3, <2>4
    <3>2. at[i + k] = at[j + k]
      BY <2>4, <3>1
    <3> QED
      BY <2>4, <3>2
  <2> HIDE DEF T
  <2>6. at[m] = m_next(h, at[m - 1])
    BY <1>1, <2>4
  <2>7. at[m] = m_next(h, at[Limit])
    BY <2>4, <2>5, <2>6
  <2> QED
    BY <2>4, <2>7
<1>4. \A r \in R : r \in C /\ m_next(h, r) \in R
  <2> TAKE r \in R
  <2>1. PICK n \in L : at[n] = r
    OBVIOUS
  <2>2. CASE n = Limit
    BY <1>1, <1>3, <2>1, <2>2
  <2>3. CASE n # Limit
    <3>1. n + 1 \in 1 .. Limit /\ n + 1 \in L /\ (n + 1) - 1 = n
      BY <1>0, <2>3
    <3>2. at[n + 1] = m_next(h, at[(n + 1) - 1])
      BY <1>1, <3>1
    <3> QED
      BY <1>1, <2>1, <3>1, <3>2
  <2> QED
    BY <2>2, <2>3
<1>5. R = C
  <2>0. p \in R /\ R \subseteq C
    BY <1>0, <1>1, <1>4
  <2> HIDE DEF R
  <2>1. \A x \in C : x \in Nat /\ x <= Limit /\ m_next(h, x) \in Nat
    <3>1. \A x \in Cell : x \in Nat /\ x <= Limit
      BY <1>0 DEF Cell
    <3> QED
      BY <3>1 DEF Cycle
  <2>2. PICK top \in R : \A y \in R : y <= top
    <3>1. R \in SUBSET Nat /\ R # {} /\ \A y \in R : y <= Limit
      BY <2>0, <2>1
    <3> QED
      BY <1>0, <3>1, GreatestOf
  <2>3. m_next(h, top) \in R /\ \A d \in C : m_next(h, top) <= d /\ d <= top
    <3>1. m_next(h, top) \in R /\ m_next(h, top) <= top
      BY <1>4, <2>2
    <3> QED
      BY <2>0, <3>1 DEF Cycle
  <2> SUFFICES ASSUME NEW d \in C, d \notin R PROVE FALSE
    BY <2>0
  <2> DEFINE B == {x \in R : x < d}
  <2>4. m_next(h, top) \in B
    <3>1. m_next(h, top) <= d /\ m_next(h, top) # d /\ m_next(h, top) \in Nat /\ d \in Nat
      BY <2>0, <2>1, <2>3
    <3> QED
      BY <2>3, <3>1
  <2>5. PICK e \in B : \A y \in B : y <= e
    <3>1. B \in SUBSET Nat /\ B # {} /\ \A y \in B : y <= Limit
      BY <2>0, <2>1, <2>4
    <3> HIDE DEF B
    <3> QED
      BY <1>0, <3>1, GreatestOf
  <2>6. /\ e \in R /\ e \in C /\ e < d /\ m_next(h, e) \in R /\ e \in Nat /\ d \in Nat
        /\ m_next(h, e) \in Nat /\ m_next(h, e) # d
    BY <1>4, <2>0, <2>1, <2>5
  <2>7. e < m_next(h, e) => d <= e \/ m_next(h, e) <= d
    BY <2>6 DEF Cycle
  <2>8. m_next(h, e) <= e => d <= e
    BY <2>6 DEF Cycle
  <2>9. e < m_next(h, e) /\ m_next(h, e) < d
    BY <2>6, <2>7, <2>8
  <2>10. m_next(h, e) \in B
    BY <2>6, <2>9
  <2> QED
    BY <2>5, <2>6, <2>9, <2>10
<1>6. \A c \in C : \E n \in L : at[n] = c
  BY <1>5
<1> QED
  BY <1>1, <1>6 DEF at, Reaches

-----------------------------------------------------------------------------
-----------------------------------------------------------------------------
(* The lists that end: s[n] is the head at p, and s[1] has no successor.   *)
Stack(h, p, s, n) ==
    /\ n \in Nat
    /\ \A i \in 1 .. n : s[i] \in Cell
    /\ \A i, j \in 1 .. n : s[i] = s[j] => i = j
    /\ p = IF n = 0 THEN NULL ELSE s[n]
    /\ \A i \in 1 .. n : m_next(h, s[i]) = IF i = 1 THEN NULL ELSE s[i - 1]
Elems(s, n) == {s[i] : i \in 1 .. n}

(* A list depends on the links of its elements only.                       *)
LEMMA StackSame ==
    ASSUME NEW h, NEW g, NEW p, NEW s, NEW n, Stack(h, p, s, n),
           \A x \in Elems(s, n) : m_next(g, x) = m_next(h, x)
    PROVE  Stack(g, p, s, n)
BY DEF Stack, Elems

(* A list with one element more, or one less.                              *)
Pushed(g, x, s, n, t) ==
    /\ Stack(g, x, t, n + 1) /\ Elems(t, n + 1) = Elems(s, n) \cup {x}
    /\ t[n + 1] = x /\ \A i \in 1 .. n : t[i] = s[i]

(* A block linked in front of the head is the new head.                    *)
LEMMA StackPush ==
    ASSUME NEW h, NEW g, NEW p, NEW s, NEW n, Stack(h, p, s, n), NEW x \in Cell,
           x \notin Elems(s, n), m_next(g, x) = p,
           \A y \in Elems(s, n) : m_next(g, y) = m_next(h, y)
    PROVE  \E t : Pushed(g, x, s, n, t)
<1> DEFINE t == [i \in 1 .. n + 1 |-> IF i = n + 1 THEN x ELSE s[i]]
<1>0. n \in Nat
  BY DEF Stack
<1>1. t[n + 1] = x /\ \A i \in 1 .. n : t[i] = s[i]
  BY <1>0
<1>2. \A i \in 1 .. n + 1 : i = n + 1 \/ i \in 1 .. n
  BY <1>0
<1> HIDE DEF t
<1>3. Elems(t, n + 1) = Elems(s, n) \cup {x}
  <2>1. 1 .. n \subseteq 1 .. n + 1 /\ n + 1 \in 1 .. n + 1
    BY <1>0
  <2> QED
    BY <1>1, <1>2, <2>1 DEF Elems
<1>4. \A i \in 1 .. n + 1 : t[i] \in Cell
  BY <1>1, <1>2 DEF Stack
<1>5. \A i, j \in 1 .. n + 1 : t[i] = t[j] => i = j
  <2>1. \A i \in 1 .. n : s[i] # x
    BY DEF Elems
  <2> QED
    BY <1>1, <1>2, <2>1 DEF Stack
<1>6. \A i \in 1 .. n + 1 : m_next(g, t[i]) = IF i = 1 THEN NULL ELSE t[i - 1]
  <2> TAKE i \in 1 .. n + 1
  <2>1. CASE i = n + 1 /\ n = 0
    BY <1>1, <2>1 DEF Stack
  <2>2. CASE i = n + 1 /\ n # 0
    <3>1. i - 1 = n /\ n \in 1 .. n /\ i # 1
      BY <1>0, <2>2
    <3> QED
      BY <1>1, <2>2, <3>1 DEF Stack
  <2>3. CASE i \in 1 .. n
    <3>1. i # 1 => i - 1 \in 1 .. n
      BY <1>0, <2>3
    <3>2. s[i] \in Elems(s, n) /\ t[i] = s[i]
      BY <1>1, <2>3 DEF Elems
    <3>3. m_next(h, s[i]) = IF i = 1 THEN NULL ELSE s[i - 1]
      BY <2>3 DEF Stack
    <3> QED
      BY <1>1, <3>1, <3>2, <3>3
  <2> QED
    BY <1>2, <2>1, <2>2, <2>3
<1>7. Stack(g, x, t, n + 1)
  <2>1. n + 1 \in Nat /\ n + 1 # 0
    BY <1>0
  <2> QED
    BY <1>1, <1>4, <1>5, <1>6, <2>1 DEF Stack
<1> QED
  BY <1>1, <1>3, <1>7 DEF Pushed

Popped(h, p, s, n) ==
    /\ n - 1 \in Nat /\ p = s[n] /\ p \in Elems(s, n) /\ p \in Cell
    /\ Stack(h, m_next(h, p), s, n - 1) /\ Elems(s, n - 1) = Elems(s, n) \ {p}

(* The successor of the head is the head of the rest.                      *)
LEMMA StackPop ==
    ASSUME MallocAssumption, NEW h, NEW p, NEW s, NEW n, Stack(h, p, s, n), p # NULL
    PROVE  Popped(h, p, s, n)
<1>0. n \in Nat /\ n # 0 /\ n \in 1 .. n /\ n - 1 \in Nat /\ p = s[n]
  BY DEF Stack
<1>1. \A i \in 1 .. n : i \in 1 .. n - 1 \/ i = n
  BY <1>0
<1>2. \A i \in 1 .. n - 1 : i \in 1 .. n /\ i # n
  BY <1>0
<1>3. Elems(s, n - 1) = Elems(s, n) \ {p}
  <2>1. \A i \in 1 .. n : s[i] = p => i = n
    BY <1>0 DEF Stack
  <2> QED
    BY <1>0, <1>1, <1>2, <2>1 DEF Elems
<1>4. m_next(h, p) = IF n - 1 = 0 THEN NULL ELSE s[n - 1]
  <2>1. m_next(h, s[n]) = IF n = 1 THEN NULL ELSE s[n - 1]
    BY <1>0 DEF Stack
  <2>2. n = 1 <=> n - 1 = 0
    BY <1>0
  <2> QED
    BY <1>0, <2>1, <2>2
<1>5. Stack(h, m_next(h, p), s, n - 1)
  BY <1>0, <1>2, <1>4 DEF Stack
<1> QED
  BY <1>0, <1>3, <1>5 DEF Popped, Stack, Elems

(* The links reach what is on the stack and nothing else.                  *)
LEMMA StackReached ==
    ASSUME MallocAssumption, NEW h, NEW p, NEW s, NEW n, Stack(h, p, s, n)
    PROVE  LET at == Nth(h, p) IN
           /\ {at[k] : k \in 0 .. Limit} \ {NULL} = Elems(s, n)
           /\ n < Limit /\ NULL \notin Elems(s, n)
<1> DEFINE at == Nth(h, p)
           S == Elems(s, n) \cup {NULL}
<1>0. Limit \in Nat /\ Base \in Nat /\ NULL \notin Cell /\ n \in Nat /\ Base # 0 /\ Base <= Limit
  BY DEF MallocAssumption, Cell, NULL, Stack
<1>1. Elems(s, n) \subseteq Cell /\ NULL \notin Elems(s, n)
  BY <1>0 DEF Elems, Stack
<1>2. /\ at[0] = p
      /\ \A k \in 1 .. Limit : at[k] = IF at[k - 1] = NULL THEN NULL ELSE m_next(h, at[k - 1])
  <2>1. p \in S
    BY <1>0 DEF Stack, Elems
  <2>2. \A q \in S : q # NULL => m_next(h, q) \in S
    <3> SUFFICES ASSUME NEW i \in 1 .. n PROVE m_next(h, s[i]) \in S
      BY DEF Elems
    <3>1. i # 1 => i - 1 \in 1 .. n
      BY <1>0
    <3> QED
      BY <3>1 DEF Stack, Elems
  <2> HIDE DEF S
  <2> QED
    BY <2>1, <2>2, NthFacts
<1> HIDE DEF at
<1>3. n < Limit
  <2> DEFINE f == [i \in 1 .. n |-> s[i]]
  <2>1. f \in Injection(1 .. n, Cell)
    <3>1. \A i \in 1 .. n : s[i] \in Cell
      BY DEF Stack
    <3>2. \A i, j \in 1 .. n : s[i] = s[j] => i = j
      BY DEF Stack
    <3> QED
      BY <3>1, <3>2 DEF Injection, IsInjective
  <2>2. IsFiniteSet(Cell) /\ Cardinality(Cell) = IF Base > Limit - 1 THEN 0 ELSE (Limit - 1) - Base + 1
    BY <1>0, FS_Interval DEF Cell
  <2>3. Cardinality(1 .. n) = IF 1 > n THEN 0 ELSE n - 1 + 1
    BY <1>0, FS_Interval
  <2> HIDE DEF f
  <2>4. Cardinality(1 .. n) <= Cardinality(Cell)
    BY <2>1, <2>2, FS_Injection
  <2>5. Limit >= 1
    BY <1>0
  <2>6. Cardinality(1 .. n) = n /\ Cardinality(Cell) = Limit - Base
    BY <1>0, <2>2, <2>3
  <2> QED
    BY <1>0, <2>4, <2>5, <2>6
<1> DEFINE Link(k) == IF k < n THEN s[n - k] ELSE NULL
<1>4. \A k \in 0 .. Limit : at[k] = Link(k)
  <2> DEFINE T == {k \in Nat : k <= Limit => at[k] = Link(k)}
  <2>1. 0 \in T
    <3>1. n # 0 <=> 0 < n
      BY <1>0
    <3>2. n - 0 = n
      BY <1>0
    <3> QED
      BY <1>0, <1>2, <3>1, <3>2 DEF Stack
  <2>2. ASSUME NEW k \in T PROVE k + 1 \in T
    <3> SUFFICES ASSUME k + 1 <= Limit PROVE at[k + 1] = Link(k + 1)
      <4> HIDE DEF Link
      <4> QED
        OBVIOUS
    <3>1. k \in Nat /\ k + 1 \in 1 .. Limit /\ (k + 1) - 1 = k /\ k <= Limit
      BY <1>0
    <3>2. at[k] = Link(k)
      BY <3>1
    <3> HIDE DEF T
    <3>3. at[k + 1] = IF at[k] = NULL THEN NULL ELSE m_next(h, at[k])
      <4>1. at[k + 1] = IF at[(k + 1) - 1] = NULL THEN NULL ELSE m_next(h, at[(k + 1) - 1])
        BY <1>2, <3>1
      <4> QED
        BY <3>1, <4>1
    <3>4. CASE k < n
      <4> DEFINE i == n - k
      <4>1. i \in 1 .. n /\ (i = 1 <=> ~(k + 1 < n)) /\ n - (k + 1) = i - 1
        BY <1>0, <3>1, <3>4
      <4>2. at[k] = s[i] /\ s[i] # NULL
        BY <1>0, <3>2, <3>4, <4>1 DEF Stack
      <4>3. m_next(h, s[i]) = IF i = 1 THEN NULL ELSE s[i - 1]
        BY <4>1 DEF Stack
      <4> HIDE DEF i
      <4> QED
        BY <3>3, <4>1, <4>2, <4>3
    <3>5. CASE ~(k < n)
      <4>1. ~(k + 1 < n)
        BY <1>0, <3>1, <3>5
      <4> QED
        BY <3>2, <3>3, <3>5, <4>1
    <3> QED
      BY <3>4, <3>5
  <2>3. T = Nat
    <3>1. T \subseteq Nat
      OBVIOUS
    <3> HIDE DEF T
    <3> QED
      BY <2>1, <2>2, <3>1, SetInduction
  <2> QED
    <3> HIDE DEF Link
    <3> QED
      BY <1>0, <2>3
<1>5. {at[k] : k \in 0 .. Limit} \ {NULL} = Elems(s, n)
  <2>1. ASSUME NEW k \in 0 .. Limit, at[k] # NULL PROVE at[k] \in Elems(s, n)
    <3>1. k < n /\ n - k \in 1 .. n
      BY <1>0, <1>4, <2>1
    <3> QED
      BY <1>4, <3>1 DEF Elems
  <2>2. ASSUME NEW i \in 1 .. n PROVE \E k \in 0 .. Limit : at[k] = s[i]
    <3> DEFINE k == n - i
    <3>1. k \in 0 .. Limit /\ k < n /\ n - k = i
      BY <1>0, <1>3
    <3> HIDE DEF k
    <3> QED
      BY <1>4, <3>1
  <2> QED
    BY <1>1, <2>1, <2>2 DEF Elems
<1> QED
  BY <1>1, <1>3, <1>5 DEF at

-----------------------------------------------------------------------------
-----------------------------------------------------------------------------
(* What the allocator writes.  Nothing but the two cells at each of S, and *)
(* chunk_list.                                                             *)
Alters(h, g, S) ==
    /\ g \in Heaps /\ g.brk = h.brk /\ g.freed = h.freed /\ g.mini = h.mini
    /\ \A a \in Cell : a \notin S /\ a - 1 \notin S => g.cell[a] = h.cell[a]

(* The two ways to write a cell, and the one variable that moves.          *)
LEMMA SetSize ==
    ASSUME NEW h \in Heaps, NEW b \in Cell, NEW n \in Nat
    PROVE  LET g == set_size(h, b, n) IN
           /\ g \in Heaps /\ g.brk = h.brk /\ g.freed = h.freed /\ g.chunk = h.chunk /\ g.mini = h.mini
           /\ g.cell[b] = n /\ \A a \in Cell : a # b => g.cell[a] = h.cell[a]
BY DEF set_size, Heaps

(* m_next is the second cell.                                              *)
LEMMA SetNext ==
    ASSUME NEW h \in Heaps, NEW b, b + 1 \in Cell, NEW n \in Nat
    PROVE  LET g == set_next(h, b, n) IN
           /\ g \in Heaps /\ g.brk = h.brk /\ g.freed = h.freed /\ g.chunk = h.chunk /\ g.mini = h.mini
           /\ g.cell[b + 1] = n /\ \A a \in Cell : a # b + 1 => g.cell[a] = h.cell[a]
BY DEF set_next, Heaps

(* chunk_list is assigned without a write to any cell.                     *)
LEMMA SetChunk ==
    ASSUME NEW h \in Heaps, NEW c \in Nat
    PROVE  LET g == [h EXCEPT !.chunk = c] IN
           /\ g \in Heaps /\ g.brk = h.brk /\ g.freed = h.freed /\ g.chunk = c /\ g.mini = h.mini
           /\ g.cell = h.cell
BY DEF Heaps

(* One after the other writes where one of them does.                      *)
LEMMA AltersMore ==
    ASSUME NEW h, NEW g, NEW k, NEW S, NEW T, Alters(h, g, S), Alters(g, k, T)
    PROVE  Alters(h, k, S \cup T)
BY DEF Alters

(* What is written at S is outside the blocks at X.                        *)
Clear(h, S, X) == \A c \in S : \A b \in X : c + 2 <= b \/ b + m_size(h, b) <= c

(* The headers of blocks are outside the other blocks.                     *)
LEMMA ClearBlocks ==
    ASSUME MallocAssumption, NEW h \in Heaps, NEW X, NEW Y, Laid(h, Y), NEW S, S \subseteq Y,
           X \subseteq Y \ S
    PROVE  Clear(h, S, X)
<1> SUFFICES ASSUME NEW c \in S, NEW b \in X PROVE c + 2 <= b \/ b + m_size(h, b) <= c
  BY DEF Clear
<1>1. c \in Y /\ b \in Y /\ b # c
  OBVIOUS
<1>2. c + m_size(h, c) <= b \/ b + m_size(h, b) <= c
  BY <1>1, LaidFacts
<1>3. c \in Nat /\ b \in Nat /\ m_size(h, c) \in Nat /\ m_size(h, c) >= 2
  BY <1>1, LaidFacts
<1> QED
  BY <1>2, <1>3

(* The blocks of X are then as they were.                                  *)
Unaltered(h, g, Y) ==
    /\ Untouched(h, g, Y) /\ Sizes(h, g, Y)
    /\ \A b \in Y : m_next(g, b) = m_next(h, b)

(* And so other blocks keep size, link and contents.                       *)
LEMMA AltersOthers ==
    ASSUME MallocAssumption, NEW h \in Heaps, NEW g, NEW X, Laid(h, X), NEW Y, Y \subseteq X,
           NEW S, S \subseteq Nat, Alters(h, g, S), Clear(h, S, Y)
    PROVE  Unaltered(h, g, Y)
<1>1. \A b \in Y : /\ b \in Nat /\ m_size(h, b) \in Nat /\ m_size(h, b) >= 2
                   /\ b + m_size(h, b) <= h.brk /\ b \in Cell
  BY LaidFacts DEF Laid
<1>2. h.brk <= Limit /\ h.brk \in Nat /\ Limit \in Nat /\ Base \in Nat
  BY LaidFacts DEF Heaps
<1>3. ASSUME NEW b \in Y, NEW a \in b .. b + m_size(h, b) - 1
      PROVE  g.cell[a] = h.cell[a]
  <2>1. a \in Cell /\ a \in Int /\ b <= a /\ a < b + m_size(h, b)
    BY <1>1, <1>2, <1>3 DEF Cell
  <2>2. ASSUME NEW c \in S PROVE c # a /\ c # a - 1
    <3>1. c \in Nat /\ (c + 2 <= b \/ b + m_size(h, b) <= c)
      BY DEF Clear
    <3> QED
      BY <1>1, <2>1, <3>1
  <2> QED
    BY <2>1, <2>2 DEF Alters
<1>4. Untouched(h, g, Y)
  BY <1>3 DEF Untouched
<1>5. \A b \in Y : g.cell[b] = h.cell[b] /\ g.cell[b + 1] = h.cell[b + 1]
  <2> TAKE b \in Y
  <2>1. b \in b .. b + m_size(h, b) - 1 /\ b + 1 \in b .. b + m_size(h, b) - 1
    BY <1>1
  <2> QED
    BY <1>3, <2>1
<1> QED
  BY <1>4, <1>5 DEF Unaltered, Sizes, m_size, m_next

-----------------------------------------------------------------------------
(* The chunks at C among other blocks at O.  Those at E may touch the next *)
(* one.                                                                    *)
Arranged(h, O, C, E) ==
    /\ h \in Heaps
    /\ Laid(h, O \cup C)
    /\ O \cap C = {}
    /\ Cycle(h, C)
    /\ IF C = {} THEN h.chunk = NULL ELSE h.chunk \in C
    /\ \A c \in C : c \notin E => c + m_size(h, c) # m_next(h, c)

(* LaidFacts for the blocks and the chunks, and their links.               *)
LEMMA ArrangedFacts ==
    ASSUME MallocAssumption, NEW h, NEW O, NEW C, NEW E, Arranged(h, O, C, E)
    PROVE  /\ \A b \in O \cup C :
                 /\ b \in Nat /\ b # 0 /\ b \in Cell /\ b + 1 \in Cell
                 /\ m_size(h, b) \in Nat /\ m_size(h, b) >= 2 /\ m_next(h, b) \in Nat
                 /\ m_size(h, b) = h.cell[b] /\ m_next(h, b) = h.cell[b + 1]
           /\ \A b, c \in O \cup C : b # c => b + m_size(h, b) <= c \/ c + m_size(h, c) <= b
           /\ \A c \in C : m_next(h, c) \in C
           /\ C \in SUBSET Nat /\ C \in SUBSET Cell
<1> DEFINE X == O \cup C
<1>1. h \in Heaps /\ Laid(h, X)
  BY DEF Arranged
<1>2. \A c \in C : m_next(h, c) \in C
  BY DEF Arranged, Cycle
<1>3. C \subseteq X
  OBVIOUS
<1> HIDE DEF X
<1>4. /\ \A b \in X : /\ b \in Nat /\ b # 0 /\ b \in Cell /\ b + 1 \in Cell
                       /\ m_size(h, b) \in Nat /\ m_size(h, b) >= 2 /\ m_next(h, b) \in Nat
                       /\ m_size(h, b) = h.cell[b] /\ m_next(h, b) = h.cell[b + 1]
      /\ \A b, c \in X : b # c => b + m_size(h, b) <= c \/ c + m_size(h, c) <= b
  BY <1>1, LaidFacts
<1>5. C \in SUBSET Nat /\ C \in SUBSET Cell
  BY <1>3, <1>4
<1> QED
  BY <1>2, <1>4, <1>5 DEF X

(* A block becomes a chunk after p, at its place.                          *)
LEMMA LinkFacts ==
    ASSUME MallocAssumption, NEW h, NEW O, NEW C, Arranged(h, O, C, {}),
           NEW q \in O, NEW p \in C, Place(h, q, p)
    PROVE  LET g == LinkAfter(h, p, q) IN
           /\ Arranged(g, O \ {q}, C \cup {q}, {p, q}) /\ g.chunk = h.chunk
           /\ Alters(h, g, {p, q})
           /\ m_next(g, p) = q /\ m_next(g, q) = m_next(h, p)
           /\ Sizes(h, g, O \cup C)
<1> DEFINE f == set_next(h, q, m_next(h, p))
           g == LinkAfter(h, p, q)
           X == O \cup C
<1>0. /\ h \in Heaps /\ Laid(h, X) /\ q \in X /\ p \in X /\ q # p /\ q \notin C
      /\ Cycle(h, C)
  BY DEF Arranged
<1>1. /\ \A b \in X : /\ b \in Nat /\ b \in Cell /\ b + 1 \in Cell /\ m_next(h, b) \in Nat
                       /\ m_size(h, b) \in Nat /\ m_size(h, b) >= 2
                       /\ m_size(h, b) = h.cell[b] /\ m_next(h, b) = h.cell[b + 1]
      /\ \A b, c \in X : b # c => b + m_size(h, b) <= c \/ c + m_size(h, c) <= b
      /\ C \in SUBSET Nat
  BY ArrangedFacts
<1>2. /\ f \in Heaps /\ f.brk = h.brk /\ f.freed = h.freed /\ f.chunk = h.chunk /\ f.mini = h.mini
      /\ f.cell[q + 1] = m_next(h, p) /\ \A a \in Cell : a # q + 1 => f.cell[a] = h.cell[a]
  <2>1. q + 1 \in Cell /\ m_next(h, p) \in Nat
    BY <1>0, <1>1
  <2> QED
    BY <1>0, <2>1, SetNext
<1> HIDE DEF f
<1>3. /\ g \in Heaps /\ g.brk = f.brk /\ g.freed = f.freed /\ g.chunk = f.chunk /\ g.mini = f.mini
      /\ g.cell[p + 1] = q /\ \A a \in Cell : a # p + 1 => g.cell[a] = f.cell[a]
  <2>1. p + 1 \in Cell /\ q \in Nat
    BY <1>0, <1>1
  <2>2. g = set_next(f, p, q)
    BY DEF LinkAfter, f
  <2> HIDE DEF g
  <2> QED
    BY <1>2, <2>1, <2>2, SetNext
<1> HIDE DEF g
<1>4. p + 1 # q + 1 /\ q + 1 \in Cell
  BY <1>0, <1>1
<1>5. m_next(g, p) = q /\ m_next(g, q) = m_next(h, p)
  BY <1>2, <1>3, <1>4 DEF m_next
<1>6. Alters(h, g, {p, q})
  <2> SUFFICES ASSUME NEW a \in Cell, a \notin {p, q}, a - 1 \notin {p, q}
               PROVE  g.cell[a] = h.cell[a]
    BY <1>2, <1>3 DEF Alters
  <2>1. a \in Int
    BY DEF Cell, MallocAssumption
  <2>2. a # p + 1 /\ a # q + 1
    BY <1>0, <1>1, <2>1
  <2> QED
    BY <1>2, <1>3, <2>2
<1>7. \A b \in X : m_size(g, b) = m_size(h, b) /\ (b \notin {p, q} => m_next(g, b) = m_next(h, b))
  <2> TAKE b \in X
  <2>1. b # p + 1 /\ b # q + 1
    <3>1. p + m_size(h, p) <= b \/ b + m_size(h, b) <= p \/ b = p
      BY <1>0, <1>1
    <3>2. q + m_size(h, q) <= b \/ b + m_size(h, b) <= q \/ b = q
      BY <1>0, <1>1
    <3> QED
      BY <1>0, <1>1, <3>1, <3>2
  <2>2. b \notin {p, q} => b + 1 # p + 1 /\ b + 1 # q + 1
    BY <1>0, <1>1
  <2> QED
    BY <1>0, <1>1, <1>2, <1>3, <2>1, <2>2 DEF m_size, m_next
<1>8. Cycle(g, C \cup {q})
  <2>1. q \in Nat \ C /\ \A c \in C \ {p} : m_next(g, c) = m_next(h, c)
    BY <1>0, <1>1, <1>7
  <2> QED
    BY <1>0, <1>1, <1>5, <2>1, CycleAdd
<1>9. Sizes(h, g, X)
  BY <1>7 DEF Sizes
<1>10. Laid(g, X)
  BY <1>0, <1>2, <1>3, <1>9, LaidSame
<1>11. \A c \in C \cup {q} : c \notin {p, q} => c + m_size(g, c) # m_next(g, c)
  BY <1>7 DEF Arranged
<1>12. X = (O \ {q}) \cup (C \cup {q}) /\ (O \ {q}) \cap (C \cup {q}) = {}
  BY DEF Arranged
<1>13. h.chunk \in C
  BY DEF Arranged
<1>14. Arranged(g, O \ {q}, C \cup {q}, {p, q})
  BY <1>2, <1>3, <1>8, <1>10, <1>11, <1>12, <1>13 DEF Arranged
<1> QED
  BY <1>2, <1>3, <1>5, <1>6, <1>9, <1>14 DEF g

(* Two chunks that touch are joined.                                       *)
MayJoin(h, E, p) ==
    p + m_size(h, p) = m_next(h, p) => m_next(h, p) \notin E /\ h.chunk # m_next(h, p)
Joined(h, g, O, C, E, p) ==
    /\ g.chunk = h.chunk
    /\ Alters(h, g, {p})
    /\ \E D : /\ Arranged(g, O, D, E \ {p}) /\ p \in D
              /\ D \subseteq C /\ C \ {m_next(h, p)} \subseteq D

(* JoinAbove joins, or finds that there is nothing to join.                *)
LEMMA JoinFacts ==
    ASSUME MallocAssumption, NEW h, NEW O, NEW C, NEW E, Arranged(h, O, C, E), NEW p, p \in C,
           MayJoin(h, E, p)
    PROVE  Joined(h, JoinAbove(h, p), O, C, E, p)
<1> DEFINE q == m_next(h, p)
           g == JoinAbove(h, p)
           X == O \cup C
<1>0. /\ h \in Heaps /\ Laid(h, X) /\ q \in X /\ p \in X /\ q \in C /\ Cycle(h, C)
      /\ O \cap C = {} /\ h.chunk \in C
  BY DEF Arranged, Cycle
<1>1. /\ \A b \in X : /\ b \in Nat /\ b \in Cell /\ b + 1 \in Cell /\ m_next(h, b) \in Nat
                       /\ m_size(h, b) \in Nat /\ m_size(h, b) >= 2
                       /\ m_size(h, b) = h.cell[b] /\ m_next(h, b) = h.cell[b + 1]
      /\ \A b, c \in X : b # c => b + m_size(h, b) <= c \/ c + m_size(h, c) <= b
      /\ C \in SUBSET Nat
  BY ArrangedFacts
<1>a. CASE p + m_size(h, p) # q
  <2>1. g = h
    BY <1>a DEF JoinAbove
  <2> HIDE DEF g, q
  <2>2. Arranged(h, O, C, E \ {p})
    <3>1. \A c \in C : c \notin E \ {p} => c + m_size(h, c) # m_next(h, c)
      BY <1>a DEF Arranged, q
    <3> QED
      BY <3>1 DEF Arranged
  <2>3. Alters(h, h, {p})
    BY <1>0 DEF Alters
  <2> QED
    BY <1>0, <2>1, <2>2, <2>3 DEF g, Joined
<1>b. CASE p + m_size(h, p) = q
  <2> DEFINE f == set_size(h, p, m_size(h, p) + m_size(h, q))
  <2>1. q # p /\ q > p /\ m_size(h, p) + m_size(h, q) \in Nat /\ q \notin E /\ h.chunk # q
    BY <1>0, <1>1, <1>b DEF MayJoin
  <2>2. /\ f \in Heaps /\ f.brk = h.brk /\ f.freed = h.freed /\ f.chunk = h.chunk /\ f.mini = h.mini
        /\ f.cell[p] = m_size(h, p) + m_size(h, q)
        /\ \A a \in Cell : a # p => f.cell[a] = h.cell[a]
    <3>1. p \in Cell /\ h \in Heaps
      BY <1>0, <1>1
    <3> QED
      BY <2>1, <3>1, SetSize
  <2> HIDE DEF f
  <2>3. g = set_next(f, p, m_next(h, q))
    BY <1>b DEF JoinAbove, f
  <2> HIDE DEF g, q
  <2>4. /\ g \in Heaps /\ g.brk = f.brk /\ g.freed = f.freed /\ g.chunk = f.chunk /\ g.mini = f.mini
        /\ g.cell[p + 1] = m_next(h, q) /\ \A a \in Cell : a # p + 1 => g.cell[a] = f.cell[a]
    <3>1. p + 1 \in Cell /\ m_next(h, q) \in Nat
      BY <1>0, <1>1
    <3> QED
      BY <2>2, <2>3, <3>1, SetNext
  <2>5. p + 1 # p
    BY <1>0, <1>1
  <2>6. m_next(g, p) = m_next(h, q) /\ m_size(g, p) = m_size(h, p) + m_size(h, q)
    BY <1>0, <1>1, <2>2, <2>4, <2>5 DEF m_next, m_size
  <2>7. Alters(h, g, {p})
    <3> SUFFICES ASSUME NEW a \in Cell, a # p, a - 1 # p
                 PROVE  g.cell[a] = h.cell[a]
      BY <2>2, <2>4 DEF Alters
    <3>1. a \in Int
      BY DEF Cell, MallocAssumption
    <3>2. a # p + 1
      BY <1>0, <1>1, <3>1
    <3> QED
      BY <2>2, <2>4, <3>2
  <2>8. \A b \in X \ {p} : m_size(g, b) = m_size(h, b) /\ m_next(g, b) = m_next(h, b)
    <3> TAKE b \in X \ {p}
    <3>1. p + m_size(h, p) <= b \/ b + m_size(h, b) <= p
      BY <1>0, <1>1
    <3>2. b # p + 1 /\ b # p /\ b + 1 # p + 1 /\ b + 1 # p /\ b \in Cell /\ b + 1 \in Cell
      BY <1>0, <1>1, <3>1
    <3> QED
      BY <1>1, <2>2, <2>4, <3>2 DEF m_size, m_next
  <2>9. Laid(g, X \ {q})
    <3>1. Sizes(h, g, X \ {p, q})
      BY <2>8 DEF Sizes
    <3> QED
      BY <1>0, <1>b, <2>2, <2>4, <2>6, <3>1, LaidMerge
  <2>10. Cycle(g, C \ {q})
    <3>1. \A c \in C \ {p, q} : m_next(g, c) = m_next(h, c)
      BY <2>8
    <3> QED
      BY <1>0, <1>1, <2>1, <2>6, <3>1, CycleRemove DEF q
  <2>11. \A c \in C \ {q} : c \notin E \ {p} => c + m_size(g, c) # m_next(g, c)
    <3> TAKE c \in C \ {q}
    <3>1. CASE c = p
      <4>1. q + m_size(h, q) # m_next(h, q)
        BY <1>0, <2>1 DEF Arranged
      <4>2. p + m_size(g, p) = q + m_size(h, q)
        BY <1>0, <1>1, <1>b, <2>6
      <4> QED
        BY <2>6, <3>1, <4>1, <4>2
    <3>2. CASE c # p
      BY <2>8, <3>2 DEF Arranged
    <3> QED
      BY <3>1, <3>2
  <2>12. Arranged(g, O, C \ {q}, E \ {p}) /\ p \in C \ {q}
    <3>1. X \ {q} = O \cup (C \ {q}) /\ O \cap (C \ {q}) = {} /\ h.chunk \in C \ {q}
      BY <1>0, <2>1
    <3> QED
      BY <2>1, <2>2, <2>4, <2>9, <2>10, <2>11, <3>1 DEF Arranged
  <2> QED
    BY <2>2, <2>4, <2>7, <2>12 DEF g, q, Joined
<1> QED
  BY <1>a, <1>b

(* chunk_list may point at any chunk.                                      *)
LEMMA ChunkMoved ==
    ASSUME MallocAssumption, NEW h, NEW O, NEW C, NEW E, Arranged(h, O, C, E), NEW c \in C
    PROVE  LET g == [h EXCEPT !.chunk = c] IN
           /\ Arranged(g, O, C, E) /\ Alters(h, g, {}) /\ g.chunk = c /\ g.cell = h.cell
           /\ \A b : m_size(g, b) = m_size(h, b) /\ m_next(g, b) = m_next(h, b)
<1> DEFINE g == [h EXCEPT !.chunk = c]
<1>0. h \in Heaps /\ c \in Nat
  <2>1. C \in SUBSET Nat
    BY ArrangedFacts
  <2> QED
    BY <2>1 DEF Arranged
<1>1. /\ g \in Heaps /\ g.brk = h.brk /\ g.freed = h.freed /\ g.chunk = c /\ g.mini = h.mini
      /\ g.cell = h.cell
  BY <1>0, SetChunk
<1> HIDE DEF g
<1>2. \A b : m_size(g, b) = m_size(h, b) /\ m_next(g, b) = m_next(h, b)
  BY <1>1 DEF m_size, m_next
<1>3. Alters(h, g, {})
  BY <1>1 DEF Alters
<1>4. Laid(g, O \cup C) /\ Cycle(g, C)
  <2>1. Laid(h, O \cup C) /\ Cycle(h, C)
    BY DEF Arranged
  <2> QED
    BY <1>1, <1>2, <2>1, LaidSame, CycleSame DEF Sizes
<1>5. Arranged(g, O, C, E)
  BY <1>1, <1>2, <1>4 DEF Arranged
<1> QED
  BY <1>1, <1>2, <1>3, <1>5 DEF g

(* __insert_chunk at the place it found.                                   *)
LEMMA InsertAtFacts ==
    ASSUME MallocAssumption, NEW h, NEW O, NEW C, Arranged(h, O, C, {}),
           NEW q \in O, NEW p \in C, Place(h, q, p)
    PROVE  LET g == InsertAt(h, q, p) IN
           /\ Alters(h, g, {p, q})
           /\ \E D : Arranged(g, O \ {q}, D, {}) /\ D # {}
<1> DEFINE g == InsertAt(h, q, p)
           l == LinkAfter(h, p, q)
           k == [l EXCEPT !.chunk = p]
           next == m_next(h, p)
           P == O \ {q}
           C1 == C \cup {q}
<1>0. /\ h \in Heaps /\ Laid(h, O \cup C) /\ Cycle(h, C)
      /\ q # p /\ q \notin C /\ h.chunk \in C /\ O \cap C = {}
  BY DEF Arranged
<1>1. /\ p \in Nat /\ q \in Nat /\ next \in Nat /\ next \in C
      /\ m_size(h, p) \in Nat /\ m_size(h, p) >= 2 /\ m_size(h, q) \in Nat /\ m_size(h, q) >= 2
      /\ m_size(h, next) \in Nat /\ m_size(h, next) >= 2 /\ p \in Cell
  BY ArrangedFacts
<1>2. /\ Arranged(l, P, C1, {p, q}) /\ l.chunk = h.chunk /\ Alters(h, l, {p, q})
      /\ m_next(l, p) = q /\ m_next(l, q) = next
      /\ m_size(l, p) = m_size(h, p) /\ m_size(l, q) = m_size(h, q)
      /\ \A b \in C : m_size(l, b) = m_size(h, b)
  <2> HIDE DEF l
  <2>1. /\ Arranged(l, P, C1, {p, q}) /\ l.chunk = h.chunk /\ Alters(h, l, {p, q})
        /\ m_next(l, p) = q /\ m_next(l, q) = next
        /\ Sizes(h, l, O \cup C)
    <3> HIDE DEF P, C1, next
    <3>1. LET f == LinkAfter(h, p, q) IN
           /\ Arranged(f, O \ {q}, C \cup {q}, {p, q}) /\ f.chunk = h.chunk
           /\ Alters(h, f, {p, q})
           /\ m_next(f, p) = q /\ m_next(f, q) = m_next(h, p)
           /\ Sizes(h, f, O \cup C)
      BY LinkFacts
    <3> QED
      BY <3>1 DEF l, P, C1, next
  <2> QED
    BY <2>1 DEF Sizes
<1>a. CASE AboveTop(h, q, p)
  <2>1. q > p /\ next <= p
    BY <1>a DEF AboveTop
  <2>2. ~InChain(h, q, p) /\ ~BelowBottom(h, q, p)
    BY <1>1, <2>1 DEF InChain, BelowBottom
  <2>3. CASE p + m_size(h, p) = q
    <3> DEFINE n == m_size(h, p) + m_size(h, q)
    <3>1. g = set_size(h, p, n)
      BY <1>a, <2>2, <2>3
         DEF InsertAt
    <3>2. n \in Nat
      BY <1>1
    <3> HIDE DEF g, n, next
    <3>3. /\ g \in Heaps /\ g.brk = h.brk /\ g.freed = h.freed /\ g.chunk = h.chunk /\ g.mini = h.mini
          /\ g.cell[p] = n /\ \A a \in Cell : a # p => g.cell[a] = h.cell[a]
      <4>1. h \in Heaps /\ p \in Cell
        BY <1>0, <1>1
      <4> QED
        BY <4>1, <3>1, <3>2, SetSize
    <3>4. Alters(h, g, {p, q})
      BY <3>3 DEF Alters
    <3>5. \A b \in (O \cup C) \ {p} : m_size(g, b) = m_size(h, b)
      <4> TAKE b \in (O \cup C) \ {p}
      <4>1. b \in Cell
        BY ArrangedFacts
      <4> QED
        BY <3>3, <4>1 DEF m_size
    <3>6. \A b \in O \cup C : m_next(g, b) = m_next(h, b)
      <4> TAKE b \in O \cup C
      <4>1. b + 1 \in Cell /\ b + 1 # p
        <5>1. b # p => b + m_size(h, b) <= p \/ p + m_size(h, p) <= b
          BY ArrangedFacts
        <5>2. b \in Nat /\ b + 1 \in Cell /\ m_size(h, b) \in Nat /\ m_size(h, b) >= 2
          BY ArrangedFacts
        <5> QED
          BY <1>1, <5>1, <5>2
      <4> QED
        BY <3>3, <4>1 DEF m_next
    <3>7. Laid(g, P \cup C)
      <4>1. m_size(g, p) = m_size(h, p) + m_size(h, q) /\ Sizes(h, g, (O \cup C) \ {p, q})
        BY <3>3, <3>5 DEF Sizes, m_size, n
      <4>2. Laid(g, (O \cup C) \ {q})
        <5> DEFINE X == O \cup C
        <5>1. Laid(h, X) /\ p \in X /\ q \in X /\ q = p + m_size(h, p) /\ Sizes(h, g, X \ {p, q})
          BY <1>0, <2>3, <4>1
        <5> HIDE DEF X
        <5>2. Laid(g, X \ {q})
          BY <1>0, <3>3, <4>1, <5>1, LaidMerge
        <5> QED
          BY <5>2 DEF X
      <4>3. (O \cup C) \ {q} = P \cup C
        BY <1>0
      <4> QED
        BY <4>2, <4>3
    <3>8. Cycle(g, C)
      BY <1>0, <3>6, CycleSame
    <3>9. \A c \in C : c + m_size(g, c) # m_next(g, c)
      <4> TAKE c \in C
      <4>1. CASE c = p
        <5>1. m_next(g, c) = next
          BY <3>6, <4>1 DEF next
        <5>2. p + m_size(g, p) > next
          BY <1>1, <2>1, <3>2, <3>3 DEF m_size, n
        <5> QED
          BY <1>1, <3>2, <3>3, <4>1, <5>1, <5>2
      <4>2. CASE c # p
        BY <3>5, <3>6, <4>2 DEF Arranged
      <4> QED
        BY <4>1, <4>2
    <3>10. Arranged(g, P, C, {})
      BY <1>0, <3>3, <3>7, <3>8, <3>9 DEF Arranged
    <3> QED
      BY <3>4, <3>10 DEF g
  <2>4. CASE p + m_size(h, p) # q
    <3>1. g = l
      BY <1>a, <2>2, <2>4 DEF InsertAt
    <3> HIDE DEF g, l
    <3>2. p + m_size(l, p) # m_next(l, p)
      BY <1>2, <2>4
    <3>3. q + m_size(l, q) # m_next(l, q)
      <4>1. q + m_size(h, q) > next
        BY <1>1, <2>1
      <4> QED
        BY <1>1, <1>2, <4>1
    <3>4. Arranged(l, P, C1, {})
      <4>1. \A c \in C1 : c + m_size(l, c) # m_next(l, c)
        BY <1>2, <3>2, <3>3 DEF Arranged
      <4> QED
        BY <1>2, <4>1 DEF Arranged
    <3>5. C1 # {}
      OBVIOUS
    <3> QED
      BY <1>2, <3>1, <3>4, <3>5 DEF g
  <2> QED
    BY <2>3, <2>4
<1>k. /\ Arranged(k, P, C1, {p, q}) /\ k.chunk = p /\ Alters(h, k, {p, q})
      /\ m_next(k, p) = q /\ m_next(k, q) = next
      /\ m_size(k, p) = m_size(h, p) /\ m_size(k, q) = m_size(h, q)
  <2> HIDE DEF l
  <2>1. /\ Arranged(k, P, C1, {p, q}) /\ Alters(l, k, {}) /\ k.chunk = p
        /\ \A b : m_size(k, b) = m_size(l, b) /\ m_next(k, b) = m_next(l, b)
    <3> HIDE DEF P
    <3>1. p \in C1
      OBVIOUS
    <3> HIDE DEF C1
    <3> QED
      BY <1>2, <3>1, ChunkMoved
  <2>2. Alters(h, k, {p, q} \cup {})
    BY <1>2, <2>1, AltersMore
  <2>3. {p, q} \cup {} = {p, q}
    OBVIOUS
  <2> QED
    BY <1>2, <2>1, <2>2, <2>3
<1>b. CASE InChain(h, q, p)
  <2>1. q > p /\ next > q
    BY <1>b DEF InChain
  <2>2. ~AboveTop(h, q, p) /\ ~BelowBottom(h, q, p)
    BY <1>1, <2>1 DEF AboveTop, BelowBottom
  <2> DEFINE j == JoinAbove(k, q)
  <2>3. g = JoinAbove(j, p)
    BY <1>b, <2>2 DEF InsertAt
  <2> HIDE DEF g, k, l
  <2>4. /\ j.chunk = p /\ Alters(k, j, {q})
        /\ \E D : /\ Arranged(j, P, D, {p, q} \ {q}) /\ q \in D
                  /\ D \subseteq C1 /\ C1 \ {next} \subseteq D
    <3>1. q \in C1 /\ next \notin {p, q} /\ p # next
      BY <1>1, <2>1
    <3>2. q + m_size(k, q) = m_next(k, q) => m_next(k, q) \notin {p, q} /\ k.chunk # m_next(k, q)
      BY <1>k, <3>1
    <3>3. Arranged(k, P, C1, {p, q}) /\ m_next(k, q) = next /\ k.chunk = p
      BY <1>k
    <3> HIDE DEF j, C1, P, next
    <3>4. Joined(k, j, P, C1, {p, q}, q)
      BY <3>1, <3>2, <3>3, JoinFacts DEF j, MayJoin
    <3> QED
      BY <3>3, <3>4 DEF Joined
  <2>5. PICK D : /\ Arranged(j, P, D, {p, q} \ {q}) /\ q \in D
                 /\ D \subseteq C1 /\ C1 \ {next} \subseteq D
    BY <2>4
  <2> HIDE DEF j
  <2>6. p \in D /\ {p, q} \ {q} = {p}
    BY <1>0, <1>1, <2>1, <2>5
  <2>7. m_next(j, p) = q
    <3>1. p + m_size(h, p) <= q
      <4>1. p + m_size(h, p) <= q \/ q + m_size(h, q) <= p
        BY <1>0, ArrangedFacts
      <4> QED
        BY <1>1, <2>1, <4>1
    <3>2. p + 1 \in Cell /\ p + 1 # q /\ (p + 1) - 1 # q
      <4>1. p + 1 \in Cell
        BY ArrangedFacts
      <4> QED
        BY <1>1, <2>1, <3>1, <4>1
    <3>3. j.cell[p + 1] = k.cell[p + 1]
      BY <2>4, <3>2 DEF Alters
    <3> QED
      BY <1>k, <3>3 DEF m_next
  <2>8. /\ Alters(j, g, {p})
        /\ \E F : /\ Arranged(g, P, F, {p} \ {p}) /\ p \in F
                  /\ F \subseteq D /\ D \ {m_next(j, p)} \subseteq F
    <3>1. p + m_size(j, p) = m_next(j, p) => m_next(j, p) \notin {p} /\ j.chunk # m_next(j, p)
      BY <1>0, <2>4, <2>7
    <3>2. Arranged(j, P, D, {p}) /\ p \in D
      BY <2>5, <2>6
    <3> HIDE DEF P
    <3>3. Joined(j, g, P, D, {p}, p)
      BY <2>3, <3>1, <3>2, JoinFacts DEF MayJoin
    <3> QED
      BY <3>3 DEF Joined
  <2>9. Alters(h, g, {p, q})
    <3>1. Alters(h, j, {p, q} \cup {q})
      BY <1>k, <2>4, AltersMore
    <3>2. Alters(h, g, ({p, q} \cup {q}) \cup {p})
      BY <2>8, <3>1, AltersMore
    <3>3. ({p, q} \cup {q}) \cup {p} = {p, q}
      OBVIOUS
    <3> QED
      BY <3>2, <3>3
  <2>10. \E F : Arranged(g, P, F, {}) /\ F # {}
    <3>1. {p} \ {p} = {}
      OBVIOUS
    <3> HIDE DEF P
    <3>2. PICK F : Arranged(g, P, F, {p} \ {p}) /\ p \in F
      BY <2>8
    <3> QED
      BY <3>1, <3>2
  <2> QED
    BY <2>9, <2>10 DEF g
<1>c. CASE BelowBottom(h, q, p)
  <2>1. q < p /\ next <= p /\ q < next
    BY <1>c DEF BelowBottom
  <2>2. ~AboveTop(h, q, p) /\ ~InChain(h, q, p)
    BY <1>1, <2>1 DEF AboveTop, InChain
  <2> DEFINE both == q + m_size(h, q) = next /\ next = p
             k2 == [k EXCEPT !.chunk = q]
             m == IF both THEN k2 ELSE k
  <2>3. g = JoinAbove(m, q)
    BY <1>c, <2>2 DEF InsertAt
  <2> HIDE DEF g, k, l, both
  <2>4. /\ Arranged(m, P, C1, {q}) /\ m.chunk = IF both THEN q ELSE p
        /\ Alters(h, m, {p, q}) /\ m_next(m, q) = next /\ m_size(m, q) = m_size(h, q)
    <3>1. Arranged(k, P, C1, {q})
      <4>1. p + m_size(k, p) # m_next(k, p)
        <5>1. p + m_size(h, p) # q
          BY <1>1, <2>1
        <5> QED
          BY <1>k, <5>1
      <4>2. \A c \in C1 : c \notin {q} => c + m_size(k, c) # m_next(k, c)
        BY <1>k, <4>1 DEF Arranged
      <4> QED
        BY <1>k, <4>2 DEF Arranged
    <3>2. CASE ~both
      BY <1>k, <3>1, <3>2
    <3>3. CASE both
      <4>1. q \in C1
        OBVIOUS
      <4> HIDE DEF P, C1, next
      <4>2. /\ Arranged(k2, P, C1, {q}) /\ Alters(k, k2, {}) /\ k2.chunk = q
            /\ \A b : m_size(k2, b) = m_size(k, b) /\ m_next(k2, b) = m_next(k, b)
        BY <3>1, <4>1, ChunkMoved
      <4>3. Alters(h, k2, {p, q} \cup {})
        BY <1>k, <4>2, AltersMore
      <4>4. {p, q} \cup {} = {p, q}
        OBVIOUS
      <4> HIDE DEF k2
      <4> QED
        BY <1>k, <3>3, <4>2, <4>3, <4>4
    <3> QED
      BY <3>2, <3>3
  <2> HIDE DEF m
  <2>5. /\ Alters(m, g, {q})
        /\ \E F : Arranged(g, P, F, {q} \ {q}) /\ q \in F
    <3>1. q + m_size(m, q) = m_next(m, q) => m_next(m, q) \notin {q} /\ m.chunk # m_next(m, q)
      <4>1. next # q
        BY <1>1, <2>1
      <4>2. CASE both
        BY <2>4, <4>1, <4>2
      <4>3. CASE ~both
        BY <2>4, <4>1, <4>3 DEF both
      <4> QED
        BY <4>2, <4>3
    <3>2. q \in C1 /\ Arranged(m, P, C1, {q})
      BY <2>4
    <3> HIDE DEF P, C1
    <3>3. Joined(m, g, P, C1, {q}, q)
      BY <2>3, <3>1, <3>2, JoinFacts DEF MayJoin
    <3> QED
      BY <3>3 DEF Joined
  <2>6. Alters(h, g, {p, q})
    <3>1. Alters(h, g, {p, q} \cup {q})
      BY <2>4, <2>5, AltersMore
    <3>2. {p, q} \cup {q} = {p, q}
      OBVIOUS
    <3> QED
      BY <3>1, <3>2
  <2>7. \E F : Arranged(g, P, F, {}) /\ F # {}
    <3>1. {q} \ {q} = {}
      OBVIOUS
    <3> HIDE DEF P
    <3>2. PICK F : Arranged(g, P, F, {q} \ {q}) /\ q \in F
      BY <2>5
    <3> QED
      BY <3>1, <3>2
  <2> QED
    BY <2>6, <2>7 DEF g
<1> QED
  BY <1>a, <1>b, <1>c DEF Place

(* What an operation on the chunks leaves as it was: the blocks at X.      *)
Keeps(h, g, X) ==
    /\ g \in Heaps /\ g.brk = h.brk /\ g.freed = h.freed /\ g.mini = h.mini
    /\ Untouched(h, g, X) /\ Sizes(h, g, X)
    /\ \A b \in X : m_next(g, b) = m_next(h, b)

(* What keeps the blocks of a set keeps those of a part of it.             *)
LEMMA KeepsFewer ==
    ASSUME NEW h, NEW g, NEW X, NEW Y \in SUBSET X, Keeps(h, g, X)
    PROVE  Keeps(h, g, Y)
BY DEF Keeps, Untouched, Sizes

(* Writes outside a set of blocks keep it.                                 *)
LEMMA KeepsAltered ==
    ASSUME MallocAssumption, NEW h, NEW g, NEW O, NEW C, NEW E, Arranged(h, O, C, E),
           NEW S, S \subseteq Nat, Alters(h, g, S), NEW Y, Y \subseteq O \cup C, Clear(h, S, Y)
    PROVE  Keeps(h, g, Y)
<1> DEFINE X == O \cup C
<1>1. h \in Heaps /\ Laid(h, X) /\ Y \subseteq X
  BY DEF Arranged
<1> HIDE DEF X
<1>2. Unaltered(h, g, Y)
  BY <1>1, AltersOthers
<1> QED
  BY <1>2 DEF Keeps, Alters, Unaltered

(* Among chunks in a circle there is a place for any other block, and each *)
(* chunk follows another.                                                  *)
LEMMA PlaceExists ==
    ASSUME MallocAssumption, NEW h, NEW C \in SUBSET Cell, C # {}, Cycle(h, C),
           NEW q \in Nat, q \notin C
    PROVE  \E p \in C : Place(h, q, p)
<1>0. /\ Limit \in Nat /\ \A c \in C : c \in Nat /\ c <= Limit /\ m_next(h, c) \in C
      /\ C \in SUBSET Nat
  BY DEF MallocAssumption, Cell, Cycle
<1> DEFINE B == {c \in C : c < q}
<1>1. CASE B # {}
  <2>1. PICK p \in B : \A y \in B : y <= p
    <3>1. B \in SUBSET Nat /\ \A y \in B : y <= Limit
      BY <1>0
    <3> HIDE DEF B
    <3> QED
      BY <1>0, <1>1, <3>1, GreatestOf
  <2>2. p \in C /\ p < q /\ m_next(h, p) \in C /\ m_next(h, p) \in Nat /\ p \in Nat
    BY <1>0
  <2>3. m_next(h, p) <= p \/ m_next(h, p) > q
    <3>1. m_next(h, p) < q => m_next(h, p) <= p
      BY <2>1, <2>2
    <3>2. m_next(h, p) # q
      BY <2>2
    <3> QED
      BY <2>2, <3>1, <3>2
  <2>4. Place(h, q, p)
    BY <2>2, <2>3 DEF Place, AboveTop, InChain
  <2> QED
    BY <2>2, <2>4
<1>2. CASE B = {}
  <2>1. \A c \in C : q < c
    BY <1>0, <1>2
  <2>2. PICK p \in C : \A y \in C : y <= p
    BY <1>0, GreatestOf
  <2>3. m_next(h, p) <= p /\ q < m_next(h, p) /\ q < p
    BY <1>0, <2>1, <2>2
  <2>4. Place(h, q, p)
    BY <2>3 DEF Place, BelowBottom
  <2> QED
    BY <2>4
<1> QED
  BY <1>1, <1>2

(* The links of a circle are onto: every chunk is a successor.             *)
LEMMA FollowsExists ==
    ASSUME MallocAssumption, NEW h, NEW C \in SUBSET Cell, Cycle(h, C), NEW q \in C
    PROVE  \E p \in C : m_next(h, p) = q
<1>0. /\ Limit \in Nat /\ \A c \in C : c \in Nat /\ c <= Limit /\ m_next(h, c) \in C /\ m_next(h, c) \in Nat
      /\ C \in SUBSET Nat
  <2>1. Limit \in Nat /\ \A c \in Cell : c \in Nat /\ c <= Limit
    BY DEF MallocAssumption, Cell
  <2>2. \A c \in C : m_next(h, c) \in C
    BY DEF Cycle
  <2> QED
    BY <2>1, <2>2
<1> DEFINE B == {c \in C : c < q}
<1>1. CASE B # {}
  <2>1. PICK p \in B : \A y \in B : y <= p
    <3>1. B \in SUBSET Nat /\ \A y \in B : y <= Limit
      BY <1>0
    <3> HIDE DEF B
    <3> QED
      BY <1>0, <1>1, <3>1, GreatestOf
  <2>2. p \in C /\ p < q /\ m_next(h, p) \in C /\ m_next(h, p) \in Nat /\ p \in Nat /\ q \in Nat
    BY <1>0
  <2>3. p < m_next(h, p)
    <3>1. m_next(h, p) <= p => q <= p
      BY <2>2 DEF Cycle
    <3> QED
      BY <2>2, <3>1
  <2>4. m_next(h, p) <= q
    <3>1. q <= p \/ m_next(h, p) <= q
      BY <2>2, <2>3 DEF Cycle
    <3> QED
      BY <2>2, <3>1
  <2>5. ~(m_next(h, p) < q)
    BY <2>1, <2>2, <2>3
  <2>6. m_next(h, p) = q
    BY <2>2, <2>4, <2>5
  <2> QED
    BY <2>2, <2>6
<1>2. CASE B = {}
  <2>1. \A c \in C : q <= c
    BY <1>0, <1>2
  <2>2. PICK p \in C : \A y \in C : y <= p
    BY <1>0, GreatestOf
  <2>3. m_next(h, p) <= p
    BY <1>0, <2>2
  <2>4. m_next(h, p) <= q
    BY <2>3 DEF Cycle
  <2>5. m_next(h, p) = q
    BY <1>0, <2>1, <2>4
  <2> QED
    BY <2>5
<1> QED
  BY <1>1, <1>2

(* A loop that has a round at which to stop stops at the first one.        *)
LEMMA FirstFacts ==
    ASSUME NEW S \in SUBSET Nat, S # {}
    PROVE  First(S) \in S /\ \A m \in S : First(S) <= m
<1>1. \E n \in S : \A m \in S : n <= m
  BY LeastOf
<1> QED
  BY <1>1 DEF First

(* __insert_chunk takes a block in among the chunks.                       *)
Inserted(h, g, O) == Keeps(h, g, O) /\ \E D : Arranged(g, O, D, {}) /\ D # {}

(* __insert_chunk, whether or not there are chunks already.                *)
LEMMA InsertFacts ==
    ASSUME MallocAssumption, NEW h, NEW O, NEW C, NEW q, q \notin O,
           Arranged(h, O \cup {q}, C, {})
    PROVE  Inserted(h, insert_chunk(h, q), O)
<1> DEFINE P == O \cup {q}
           g == insert_chunk(h, q)
<1>0. /\ h \in Heaps /\ Laid(h, P \cup C) /\ Cycle(h, C) /\ q \notin C /\ q \in P
      /\ IF C = {} THEN h.chunk = NULL ELSE h.chunk \in C
      /\ Arranged(h, P, C, {}) /\ P \cap C = {} /\ P \ {q} = O
  BY DEF Arranged
<1> HIDE DEF P
<1>1. /\ q \in Nat /\ q + 1 \in Cell /\ q \in Cell /\ m_size(h, q) \in Nat /\ m_size(h, q) >= 2
      /\ C \in SUBSET Nat /\ C \in SUBSET Cell /\ NULL \notin C
      /\ \A b \in P \cup C : b \in Nat /\ b \in Cell
  <2>1. /\ \A b \in P \cup C : /\ b \in Nat /\ b # 0 /\ b + 1 \in Cell /\ b \in Cell
                              /\ m_size(h, b) \in Nat /\ m_size(h, b) >= 2
        /\ C \in SUBSET Nat /\ C \in SUBSET Cell
    BY <1>0, ArrangedFacts
  <2> QED
    BY <1>0, <2>1 DEF NULL
<1>c. ASSUME NEW p \in C PROVE Clear(h, {p, q}, O)
  <2> DEFINE Y == P \cup C
  <2>1. {p, q} \subseteq Y /\ O \subseteq Y \ {p, q} /\ Laid(h, Y)
    BY <1>0
  <2> HIDE DEF Y
  <2> QED
    BY <1>0, <2>1, ClearBlocks
<1>o. O \subseteq P \cup C
  BY <1>0
<1>a. CASE C = {}
  <2> DEFINE f == set_next(h, q, q)
  <2>1. h.chunk = NULL /\ g = [f EXCEPT !.chunk = q]
    BY <1>0, <1>a DEF insert_chunk
  <2>2. /\ f \in Heaps /\ f.brk = h.brk /\ f.freed = h.freed /\ f.chunk = h.chunk /\ f.mini = h.mini
        /\ f.cell[q + 1] = q /\ \A a \in Cell : a # q + 1 => f.cell[a] = h.cell[a]
    <3>1. h \in Heaps /\ q + 1 \in Cell /\ q \in Nat
      BY <1>0, <1>1
    <3> HIDE DEF f
    <3>2. LET x == set_next(h, q, q) IN
          /\ x \in Heaps /\ x.brk = h.brk /\ x.freed = h.freed /\ x.chunk = h.chunk /\ x.mini = h.mini
          /\ x.cell[q + 1] = q /\ \A a \in Cell : a # q + 1 => x.cell[a] = h.cell[a]
      BY <3>1 DEF set_next, Heaps
    <3> QED
      BY <3>2 DEF f
  <2> HIDE DEF g, f
  <2>3. /\ g \in Heaps /\ g.brk = f.brk /\ g.freed = f.freed /\ g.chunk = q /\ g.mini = f.mini
        /\ g.cell = f.cell
    BY <1>1, <2>1, <2>2, SetChunk
  <2>4. Alters(h, g, {q})
    <3> SUFFICES ASSUME NEW a \in Cell, a # q, a - 1 # q PROVE g.cell[a] = h.cell[a]
      BY <2>2, <2>3 DEF Alters
    <3>1. a # q + 1
      BY <1>1 DEF Cell, MallocAssumption
    <3> QED
      BY <2>2, <2>3, <3>1
  <2>5. Keeps(h, g, O)
    <3>1. Clear(h, {q}, O) /\ {q} \subseteq Nat
      <4>1. {q} \subseteq P \cup C /\ O \subseteq (P \cup C) \ {q}
        BY <1>0
      <4> QED
        BY <1>0, <1>1, <4>1, ClearBlocks
    <3> QED
      BY <1>0, <1>o, <2>4, <3>1, KeepsAltered
  <2>6. m_next(g, q) = q /\ m_size(g, q) = m_size(h, q)
    <3>1. q # q + 1
      BY <1>1
    <3> QED
      BY <1>1, <2>2, <2>3, <3>1 DEF m_next, m_size
  <2>7. Cycle(g, {q})
    BY <1>1, <2>6 DEF Cycle
  <2>8. Laid(g, P)
    <3>1. Laid(h, P) /\ g.brk = h.brk
      BY <1>0, <1>a, <2>2, <2>3
    <3>2. Sizes(h, g, P)
      <4>1. \A b \in P : b = q \/ b \in O
        BY DEF P
      <4> QED
        BY <2>5, <2>6, <4>1 DEF Keeps, Sizes
    <3> QED
      BY <3>1, <3>2, LaidSame
  <2>9. q + m_size(g, q) # m_next(g, q)
    BY <1>1, <2>6
  <2>10. Arranged(g, O, {q}, {})
    BY <2>3, <2>7, <2>8, <2>9 DEF Arranged, P
  <2> QED
    BY <2>5, <2>10 DEF Inserted, g
<1>b. CASE C # {}
  <2> DEFINE at == Nth(h, h.chunk)
             Stop(i) == Place(h, q, at[i]) \/ m_next(h, at[i]) = at[i]
             S == {i \in 0 .. Limit : Stop(i)}
             n == First(S)
             k == IF n = 0 THEN h ELSE [h EXCEPT !.chunk = at[n - 1]]
  <2>0. Limit \in Nat /\ h.chunk \in C /\ h.chunk # NULL
    BY <1>0, <1>1, <1>b DEF MallocAssumption
  <2>1. g = InsertAt(k, q, at[n])
    BY <2>0 DEF insert_chunk, InsertFrom
  <2>2. /\ \A i \in 0 .. Limit : at[i] \in C
        /\ \A c \in C : \E i \in 0 .. Limit : at[i] = c
    <3> HIDE DEF at
    <3>1. Reaches(at, C)
      BY <1>0, <1>1, <2>0, CycleReached DEF at
    <3> QED
      BY <3>1 DEF Reaches
  <2> HIDE DEF at
  <2>3. S # {}
    <3>1. PICK p \in C : Place(h, q, p)
      BY <1>0, <1>1, <1>b, PlaceExists
    <3> QED
      BY <2>2, <3>1
  <2>4. n \in 0 .. Limit /\ Stop(n)
    <3>1. S \in SUBSET Nat
      BY <2>0
    <3>2. n \in S
      <4> HIDE DEF S
      <4> QED
        BY <2>3, <3>1, FirstFacts
    <3> HIDE DEF n
    <3> QED
      BY <3>2
  <2> HIDE DEF n, S
  <2> DEFINE p == at[n]
  <2>5. p \in C
    BY <2>2, <2>4
  <2>6. Place(h, q, p)
    <3>1. CASE m_next(h, p) = p
      <4>1. p \in Nat /\ q \in Nat /\ q # p
        BY <1>0, <1>1, <2>5
      <4> QED
        BY <3>1, <4>1 DEF Place, AboveTop, BelowBottom
    <3> QED
      BY <2>4, <3>1
  <2>7. /\ Arranged(k, P, C, {}) /\ Alters(h, k, {}) /\ k.cell = h.cell
    <3>1. CASE n = 0
      BY <1>0, <3>1 DEF Alters
    <3>2. CASE n # 0
      <4> DEFINE c == at[n - 1]
      <4>1. n - 1 \in 0 .. Limit
        BY <2>0, <2>4, <3>2
      <4>2. c \in C
        BY <2>2, <4>1
      <4> HIDE DEF c
      <4>3. LET x == [h EXCEPT !.chunk = c] IN
              Arranged(x, P, C, {}) /\ Alters(h, x, {}) /\ x.cell = h.cell
        BY <1>0, <4>2, ChunkMoved
      <4> QED
        BY <3>2, <4>3 DEF c
    <3> QED
      BY <3>1, <3>2
  <2> HIDE DEF k, p
  <2>8. Place(k, q, p)
    BY <2>6, <2>7 DEF Place, AboveTop, InChain, BelowBottom, m_next
  <2>9. /\ Alters(k, g, {p, q})
        /\ \E D : Arranged(g, O, D, {}) /\ D # {}
    <3>1. g = InsertAt(k, q, p)
      BY <2>1 DEF p
    <3> HIDE DEF g
    <3>2. LET y == InsertAt(k, q, p) IN
            /\ Alters(k, y, {p, q})
            /\ \E D : Arranged(y, P \ {q}, D, {}) /\ D # {}
      BY <1>0, <2>5, <2>7, <2>8, InsertAtFacts
    <3> QED
      BY <1>0, <3>1, <3>2
  <2>10. Alters(h, g, {p, q})
    <3>1. Alters(h, g, {} \cup {p, q})
      BY <2>7, <2>9, AltersMore
    <3>2. {} \cup {p, q} = {p, q}
      OBVIOUS
    <3> QED
      BY <3>1, <3>2
  <2>11. Keeps(h, g, O)
    <3>1. Clear(h, {p, q}, O) /\ {p, q} \subseteq Nat
      BY <1>1, <1>c, <2>5
    <3> HIDE DEF g
    <3> QED
      BY <1>0, <1>o, <2>10, <3>1, KeepsAltered
  <2> QED
    BY <2>9, <2>11 DEF Inserted
<1> QED
  BY <1>a, <1>b

(* __search_chunk takes a block out of the chunks, or finds none.          *)
Found(h, r, O, size) ==
    \/ r = Result(h, NULL)
    \/ /\ r.p # NULL /\ r.p \notin O /\ Keeps(h, r.h, O)
       /\ m_size(r.h, r.p) >= size
       /\ \E D : Arranged(r.h, O \cup {r.p}, D, {})

(* A chunk that is too large is cut in two: the lower part is taken, the   *)
(* upper one takes its place in the circle.                                *)
LEMMA CutFacts ==
    ASSUME MallocAssumption, NEW h, NEW O, NEW C, Arranged(h, O, C, {}), NEW size \in Nat,
           size >= 2, NEW p \in C, NEW q, q = m_next(h, p), m_size(h, q) >= size + 2
    PROVE  LET g == Cut(h, p, q, size) IN
           /\ Keeps(h, g, O) /\ m_size(g, q) = size
           /\ \E D : Arranged(g, O \cup {q}, D, {})
<1> DEFINE X == O \cup C
           r == q + size
           n == m_size(h, q) - size
           t1 == set_size(h, r, n)
           t2 == set_next(t1, r, m_next(h, q))
           w == IF p = q THEN r ELSE p
           t3 == set_next(t2, w, r)
           t4 == set_size(t3, q, size)
           g == Cut(h, p, q, size)
<1>0. /\ h \in Heaps /\ Laid(h, X) /\ Cycle(h, C) /\ O \cap C = {} /\ p \in X /\ q \in X /\ q \in C
      /\ m_next(h, q) \in C
  BY DEF Arranged, Cycle
<1>1. /\ \A b \in X : /\ b \in Nat /\ b \in Cell /\ b + 1 \in Cell /\ m_next(h, b) \in Nat
                       /\ m_size(h, b) \in Nat /\ m_size(h, b) >= 2
                       /\ m_size(h, b) = h.cell[b] /\ m_next(h, b) = h.cell[b + 1]
      /\ \A b, c \in X : b # c => b + m_size(h, b) <= c \/ c + m_size(h, c) <= b
      /\ C \in SUBSET Nat /\ C \in SUBSET Cell
  BY ArrangedFacts
<1>2. g = [t4 EXCEPT !.chunk = w]
  BY DEF Cut
<1> HIDE DEF g, X
<1>3. /\ r \in Nat /\ n \in Nat /\ n >= 2 /\ r \in Cell /\ r + 1 \in Cell /\ q \in Nat /\ p \in Nat
      /\ q + 1 < r /\ r + n = q + m_size(h, q)
  <2>1. q \in Nat /\ p \in Nat /\ m_size(h, q) \in Nat /\ q \in Cell
    BY <1>0, <1>1
  <2>2. q + m_size(h, q) <= h.brk /\ h.brk \in Base .. Limit /\ Base \in Nat /\ Limit \in Nat
    BY <1>0 DEF Laid, Heaps, MallocAssumption
  <2> QED
    BY <2>1, <2>2 DEF Cell
<1>4. \A b \in X : b # q => b + m_size(h, b) <= q \/ r + n <= b
  <2> TAKE b \in X
  <2>1. b # q => b + m_size(h, b) <= q \/ q + m_size(h, q) <= b
    BY <1>0, <1>1
  <2> QED
    BY <1>3, <2>1
<1>r. r \notin X
  <2> SUFFICES ASSUME r \in X PROVE FALSE
    OBVIOUS
  <2>1. r # q /\ m_size(h, r) \in Nat /\ m_size(h, r) >= 2
    BY <1>1, <1>3
  <2> QED
    BY <1>3, <1>4, <2>1
<1> HIDE DEF r, n
<1>5. /\ t1 \in Heaps /\ t1.brk = h.brk /\ t1.freed = h.freed /\ t1.mini = h.mini
      /\ t1.cell[r] = n /\ \A a \in Cell : a # r => t1.cell[a] = h.cell[a]
  <2>1. h \in Heaps /\ r \in Cell /\ n \in Nat
    BY <1>0, <1>3
  <2> QED
    BY <2>1, SetSize
<1> HIDE DEF t1
<1>6. /\ t2 \in Heaps /\ t2.brk = t1.brk /\ t2.freed = t1.freed /\ t2.mini = t1.mini
      /\ t2.cell[r + 1] = m_next(h, q) /\ \A a \in Cell : a # r + 1 => t2.cell[a] = t1.cell[a]
  <2>1. t1 \in Heaps /\ r + 1 \in Cell /\ m_next(h, q) \in Nat
    BY <1>0, <1>1, <1>3, <1>5
  <2> QED
    BY <2>1, SetNext
<1> HIDE DEF t2
<1>7. w + 1 \in Cell /\ w \in Nat
  BY <1>0, <1>1, <1>3
<1>8. /\ t3 \in Heaps /\ t3.brk = t2.brk /\ t3.freed = t2.freed /\ t3.mini = t2.mini
      /\ t3.cell[w + 1] = r /\ \A a \in Cell : a # w + 1 => t3.cell[a] = t2.cell[a]
  <2>1. t2 \in Heaps /\ w + 1 \in Cell /\ r \in Nat
    BY <1>3, <1>6, <1>7
  <2> HIDE DEF w
  <2> QED
    BY <2>1, SetNext
<1> HIDE DEF t3
<1>9. /\ t4 \in Heaps /\ t4.brk = t3.brk /\ t4.freed = t3.freed /\ t4.mini = t3.mini
      /\ t4.cell[q] = size /\ \A a \in Cell : a # q => t4.cell[a] = t3.cell[a]
  <2>1. q \in Cell
    BY <1>0, <1>1
  <2> QED
    BY <1>8, <2>1, SetSize
<1> HIDE DEF t4
<1>10. /\ g \in Heaps /\ g.brk = t4.brk /\ g.freed = t4.freed /\ g.mini = t4.mini /\ g.chunk = w
       /\ g.cell = t4.cell
  <2> HIDE DEF w
  <2> QED
    BY <1>2, <1>7, <1>9, SetChunk
<1>d. /\ p # q => /\ p + 1 # r /\ p + 1 # r + 1 /\ p + 1 # q
      /\ r # r + 1 /\ r # q /\ r + 1 # q /\ w + 1 # r /\ w + 1 # q
  <2>1. p # q => p + m_size(h, p) <= q \/ r + n <= p
    BY <1>0, <1>4
  <2>2. m_size(h, p) \in Nat /\ m_size(h, p) >= 2
    BY <1>0, <1>1
  <2> QED
    BY <1>3, <2>1, <2>2
<1>11. /\ m_size(g, q) = size /\ m_size(g, r) = n
       /\ m_next(g, r) = IF p = q THEN r ELSE m_next(h, q)
       /\ p # q => m_next(g, p) = r
  <2>1. g.cell[q] = size
    BY <1>9, <1>10
  <2>2. g.cell[r] = n
    BY <1>3, <1>5, <1>6, <1>8, <1>9, <1>10, <1>d
  <2>3. g.cell[w + 1] = r
    BY <1>7, <1>8, <1>9, <1>10, <1>d
  <2>4. p # q => g.cell[r + 1] = m_next(h, q)
    BY <1>3, <1>6, <1>8, <1>9, <1>10, <1>d
  <2> QED
    BY <2>1, <2>2, <2>3, <2>4 DEF m_size, m_next
<1>12. Alters(h, g, {p, q, r})
  <2> SUFFICES ASSUME NEW a \in Cell, a \notin {p, q, r}, a - 1 \notin {p, q, r}
               PROVE  g.cell[a] = h.cell[a]
    BY <1>5, <1>6, <1>8, <1>9, <1>10 DEF Alters
  <2>1. a \in Int
    BY DEF Cell, MallocAssumption
  <2>2. a # p + 1 /\ a # q + 1 /\ a # r + 1
    BY <1>3, <2>1
  <2>3. a # w + 1
    BY <2>2
  <2> QED
    BY <1>5, <1>6, <1>8, <1>9, <1>10, <2>2, <2>3
<1> HIDE DEF w
<1>13. \A b \in X \ {q} : m_size(g, b) = m_size(h, b) /\ (b # p => m_next(g, b) = m_next(h, b))
  <2> TAKE b \in X \ {q}
  <2>0. /\ b \in Nat /\ b \in Cell /\ b + 1 \in Cell /\ m_size(h, b) \in Nat /\ m_size(h, b) >= 2
        /\ m_size(h, p) \in Nat /\ m_size(h, p) >= 2
    BY <1>0, <1>1
  <2>1. b + m_size(h, b) <= q \/ r + n <= b
    BY <1>4
  <2>2. b # p => b + m_size(h, b) <= p \/ p + m_size(h, p) <= b
    BY <1>0, <1>1
  <2>3. b # q /\ b # r /\ b # q + 1 /\ b # r + 1 /\ b + 1 # q /\ b + 1 # q + 1 /\ b + 1 # r /\ b + 1 # r + 1
    BY <1>3, <2>0, <2>1
  <2>4. b # p + 1 /\ (b # p => b + 1 # p + 1 /\ b + 1 # p)
    BY <1>3, <2>0, <2>2
  <2>5. w + 1 # b /\ (b # p => w + 1 # b + 1)
    BY <2>3, <2>4 DEF w
  <2>6. g.cell[b] = h.cell[b]
    BY <1>5, <1>6, <1>8, <1>9, <1>10, <2>0, <2>3, <2>5
  <2>7. b # p => g.cell[b + 1] = h.cell[b + 1]
    BY <1>5, <1>6, <1>8, <1>9, <1>10, <2>0, <2>3, <2>5
  <2> QED
    BY <2>6, <2>7 DEF m_size, m_next
<1>14. Keeps(h, g, O)
  <2>1. O \subseteq X
    BY DEF X
  <2>2. Clear(h, {p, q, r}, O)
    <3> SUFFICES ASSUME NEW c \in {p, q, r}, NEW b \in O
                 PROVE  c + 2 <= b \/ b + m_size(h, b) <= c
      BY DEF Clear
    <3>0. /\ b \in X /\ b # q /\ b # p /\ b \in Nat /\ m_size(h, b) \in Nat /\ m_size(h, b) >= 2
          /\ m_size(h, p) \in Nat /\ m_size(h, p) >= 2
      BY <1>0, <1>1, <2>1
    <3>1. b + m_size(h, b) <= q \/ r + n <= b
      BY <1>4, <3>0
    <3>2. b + m_size(h, b) <= p \/ p + m_size(h, p) <= b
      BY <1>0, <1>1, <3>0
    <3>3. c = p \/ c = q \/ c = r
      OBVIOUS
    <3> QED
      BY <1>3, <3>0, <3>1, <3>2, <3>3
  <2>3. {p, q, r} \subseteq Nat /\ O \subseteq O \cup C
    BY <1>3
  <2> QED
    BY <1>12, <2>2, <2>3, KeepsAltered
<1> DEFINE D == (C \ {q}) \cup {r}
<1>15. Laid(g, X \cup {r})
  <2>1. Sizes(h, g, X \ {q}) /\ g.brk = h.brk
    BY <1>5, <1>6, <1>8, <1>9, <1>10, <1>13 DEF Sizes
  <2>2. m_size(g, q + size) = m_size(h, q) - size
    BY <1>11 DEF r, n
  <2>3. Laid(g, X \cup {q + size})
    BY <1>0, <1>11, <2>1, <2>2, LaidSplit
  <2> QED
    BY <2>3 DEF r
<1>16. Cycle(g, D)
  <2>1. \A d \in C : d <= q \/ r < d
    <3> TAKE d \in C
    <3>1. d \in X /\ d \in Nat /\ m_size(h, d) \in Nat /\ (d # q => d + m_size(h, d) <= q \/ r + n <= d)
      BY <1>1, <1>4 DEF X
    <3> QED
      BY <1>3, <3>1
  <2>2. \A c \in C \ {p, q} : m_next(g, c) = m_next(h, c)
    BY <1>13 DEF X
  <2>3. r \in Nat \ C /\ q < r /\ C \in SUBSET Nat
    BY <1>1, <1>3, <1>r DEF X
  <2> QED
    BY <1>0, <1>11, <2>1, <2>2, <2>3, CycleReplace
<1>17. \A c \in D : c + m_size(g, c) # m_next(g, c)
  <2> TAKE c \in D
  <2>1. CASE c = r
    <3>1. q + m_size(h, q) # m_next(h, q)
      BY <1>0 DEF Arranged
    <3>2. r + n # r
      BY <1>3
    <3> QED
      BY <1>3, <1>11, <2>1, <3>1, <3>2
  <2>2. CASE c = p /\ c # r
    <3>1. p # q
      BY <2>2
    <3>2. m_next(g, p) = r /\ m_size(g, p) = m_size(h, p)
      BY <1>0, <1>11, <1>13, <3>1
    <3>3. p + m_size(h, p) <= q \/ r + n <= p
      BY <1>0, <1>4, <3>1
    <3>4. m_size(h, p) \in Nat /\ m_size(h, p) >= 2
      BY <1>0, <1>1
    <3>5. p + m_size(h, p) # r
      BY <1>3, <3>3, <3>4
    <3> QED
      BY <2>2, <3>2, <3>5
  <2>3. CASE c # p /\ c # r
    <3>1. c \in C /\ c \in X \ {q} /\ c # p
      BY <2>3 DEF X
    <3> QED
      BY <1>13, <3>1 DEF Arranged
  <2> QED
    BY <2>1, <2>2, <2>3
<1>18. Arranged(g, O \cup {q}, D, {})
  <2>1. (O \cup {q}) \cup D = X \cup {r} /\ (O \cup {q}) \cap D = {}
    BY <1>0, <1>3, <1>r DEF X
  <2>2. w \in D
    BY <1>0, <1>3 DEF w
  <2> HIDE DEF D
  <2>3. D # {}
    BY <2>2
  <2> QED
    BY <1>10, <1>15, <1>16, <1>17, <2>1, <2>2, <2>3 DEF Arranged
<1> HIDE DEF D
<1> QED
  BY <1>11, <1>14, <1>18 DEF g

(* A chunk of about the right size is taken whole.                         *)
LEMMA WholeFacts ==
    ASSUME MallocAssumption, NEW h, NEW O, NEW C, Arranged(h, O, C, {}),
           NEW p \in C, NEW q, q = m_next(h, p), NEW c \in Nat,
           IF m_next(h, q) = q THEN c = NULL ELSE c \in C \ {q}
    PROVE  LET g == [set_next(h, p, m_next(h, q)) EXCEPT !.chunk = c] IN
           /\ Keeps(h, g, O) /\ m_size(g, q) = m_size(h, q)
           /\ Arranged(g, O \cup {q}, C \ {q}, {})
<1> DEFINE X == O \cup C
           f == set_next(h, p, m_next(h, q))
           g == [f EXCEPT !.chunk = c]
<1>0. /\ h \in Heaps /\ Laid(h, X) /\ Cycle(h, C) /\ O \cap C = {} /\ p \in X /\ q \in X /\ q \in C
      /\ m_next(h, q) \in C
  BY DEF Arranged, Cycle
<1>1. /\ \A b \in X : /\ b \in Nat /\ b \in Cell /\ b + 1 \in Cell /\ m_next(h, b) \in Nat
                       /\ m_size(h, b) \in Nat /\ m_size(h, b) >= 2
                       /\ m_size(h, b) = h.cell[b] /\ m_next(h, b) = h.cell[b + 1]
      /\ \A b, e \in X : b # e => b + m_size(h, b) <= e \/ e + m_size(h, e) <= b
      /\ C \in SUBSET Nat /\ C \in SUBSET Cell
  BY ArrangedFacts
<1> HIDE DEF X
<1>2. /\ f \in Heaps /\ f.brk = h.brk /\ f.freed = h.freed /\ f.mini = h.mini
      /\ f.cell[p + 1] = m_next(h, q) /\ \A a \in Cell : a # p + 1 => f.cell[a] = h.cell[a]
  <2>1. p + 1 \in Cell /\ m_next(h, q) \in Nat
    BY <1>0, <1>1
  <2> QED
    BY <1>0, <2>1, SetNext
<1> HIDE DEF f
<1>3. /\ g \in Heaps /\ g.brk = f.brk /\ g.freed = f.freed /\ g.mini = f.mini /\ g.chunk = c
      /\ g.cell = f.cell
  BY <1>2, SetChunk
<1> HIDE DEF g
<1>4. m_next(g, p) = m_next(h, q)
  BY <1>2, <1>3 DEF m_next
<1>5. \A b \in X : m_size(g, b) = m_size(h, b) /\ (b # p => m_next(g, b) = m_next(h, b))
  <2> TAKE b \in X
  <2>0. /\ b \in Nat /\ b \in Cell /\ b + 1 \in Cell /\ m_size(h, b) \in Nat /\ m_size(h, b) >= 2
        /\ p \in Nat /\ m_size(h, p) \in Nat /\ m_size(h, p) >= 2
        /\ b # p => b + m_size(h, b) <= p \/ p + m_size(h, p) <= b
    BY <1>0, <1>1
  <2>1. b # p + 1 /\ (b # p => b + 1 # p + 1)
    BY <2>0
  <2> QED
    BY <1>2, <1>3, <2>0, <2>1 DEF m_size, m_next
<1>6. Alters(h, g, {p})
  <2> SUFFICES ASSUME NEW a \in Cell, a # p, a - 1 # p PROVE g.cell[a] = h.cell[a]
    BY <1>2, <1>3 DEF Alters
  <2>1. a \in Int /\ p \in Nat
    BY <1>0, <1>1 DEF Cell, MallocAssumption
  <2>2. a # p + 1
    BY <2>1
  <2> QED
    BY <1>2, <1>3, <2>2
<1>7. Keeps(h, g, O)
  <2>1. {p} \subseteq X /\ O \subseteq X \ {p} /\ {p} \subseteq Nat
    BY <1>0, <1>1 DEF X
  <2>2. Clear(h, {p}, O)
    BY <1>0, <2>1, ClearBlocks
  <2> QED
    BY <1>6, <2>1, <2>2, KeepsAltered
<1>8. Laid(g, X)
  <2>1. Sizes(h, g, X) /\ g.brk = h.brk
    BY <1>2, <1>3, <1>5 DEF Sizes
  <2> QED
    BY <1>0, <2>1, LaidSame
<1>9. (O \cup {q}) \cup (C \ {q}) = X /\ (O \cup {q}) \cap (C \ {q}) = {}
  BY <1>0 DEF X
<1>a. CASE m_next(h, q) = q
  <2>1. C = {q}
    <3>1. \A d \in C : q <= d /\ d <= q
      <4>1. q \in Nat /\ m_next(h, q) <= q
        BY <1>0, <1>1, <1>a
      <4> QED
        BY <1>0, <1>a, <4>1 DEF Cycle
    <3>2. \A d \in C : d = q
      BY <1>0, <1>1, <3>1
    <3> QED
      BY <1>0, <3>2
  <2>2. C \ {q} = {} /\ c = NULL
    BY <1>a, <2>1
  <2>3. Cycle(g, {})
    BY DEF Cycle
  <2>4. Arranged(g, O \cup {q}, {}, {})
    BY <1>3, <1>8, <1>9, <2>2, <2>3 DEF Arranged
  <2> QED
    BY <1>0, <1>5, <1>7, <2>2, <2>4 DEF g, f
<1>b. CASE m_next(h, q) # q
  <2>1. p # q
    BY <1>b
  <2>2. Cycle(g, C \ {q})
    <3>1. \A d \in C \ {p, q} : m_next(g, d) = m_next(h, d)
      BY <1>5 DEF X
    <3> QED
      BY <1>0, <1>1, <1>4, <2>1, <3>1, CycleRemove
  <2>3. \A d \in C \ {q} : d + m_size(g, d) # m_next(g, d)
    <3> TAKE d \in C \ {q}
    <3>1. CASE d = p
      <4>1. m_next(g, d) = m_next(h, q) /\ m_size(g, d) = m_size(h, p)
        BY <1>0, <1>4, <1>5, <3>1
      <4> DEFINE z == m_next(h, q)
      <4>2. /\ p \in Nat /\ q \in Nat /\ z \in Nat /\ m_size(h, p) \in Nat /\ m_size(h, p) >= 2
            /\ p + m_size(h, p) <= q \/ q + m_size(h, q) <= p
            /\ m_size(h, q) \in Nat /\ m_size(h, q) >= 2
        BY <1>0, <1>1, <2>1
      <4>3. p < q => z > q \/ z <= p
        <5>1. q < z \/ z <= q
          BY <4>2
        <5>2. z <= q => z <= p
          BY <1>0 DEF Cycle
        <5> QED
          BY <5>1, <5>2
      <4>4. q < p => z <= p
        <5>1. q <= p => q <= z /\ z <= p
          BY <1>0 DEF Cycle
        <5> QED
          BY <4>2, <5>1
      <4> HIDE DEF z
      <4>5. p + m_size(h, p) # z
        BY <4>2, <4>3, <4>4
      <4> QED
        BY <3>1, <4>1, <4>5 DEF z
    <3>2. CASE d # p
      BY <1>5, <3>2 DEF Arranged, X
    <3> QED
      BY <3>1, <3>2
  <2>4. c \in C \ {q}
    BY <1>b
  <2>5. Arranged(g, O \cup {q}, C \ {q}, {})
    <3> DEFINE D == C \ {q}
               U == O \cup {q}
    <3>1. U \cup D = X /\ U \cap D = {} /\ D # {} /\ c \in D
      BY <1>9, <2>4
    <3>2. Cycle(g, D) /\ \A d \in D : d + m_size(g, d) # m_next(g, d)
      BY <2>2, <2>3
    <3> HIDE DEF D, U
    <3>3. Arranged(g, U, D, {})
      BY <1>3, <1>8, <3>1, <3>2 DEF Arranged
    <3> QED
      BY <3>3 DEF U, D
  <2> QED
    BY <1>0, <1>5, <1>7, <2>5 DEF g, f
<1> QED
  BY <1>a, <1>b

(* The first fit is one of the chunks, and it fits.                        *)
LEMMA SearchFacts ==
    ASSUME MallocAssumption, NEW h, NEW O, NEW C, Arranged(h, O, C, {}), NEW size \in Nat, size >= 2
    PROVE  Found(h, search_chunk(h, size), O, size)
<1> DEFINE r == search_chunk(h, size)
<1>0. IF C = {} THEN h.chunk = NULL ELSE h.chunk \in C
  BY DEF Arranged
<1>1. Cycle(h, C) /\ C \in SUBSET Nat /\ C \in SUBSET Cell /\ NULL \notin C /\ Limit \in Nat
  <2>1. \A c \in C : c # 0
    BY ArrangedFacts
  <2>2. C \in SUBSET Nat /\ C \in SUBSET Cell
    BY ArrangedFacts
  <2> QED
    BY <2>1, <2>2 DEF Arranged, NULL, MallocAssumption
<1>a. CASE C = {}
  <2>1. r = Result(h, NULL)
    BY <1>0, <1>a DEF search_chunk, FoundAfter
  <2> QED
    BY <2>1 DEF Found
<1>b. CASE C # {}
  <2> DEFINE at == Nth(h, h.chunk)
             Stop(i) == Fit(h, at[i], size) \/ m_next(h, at[i]) = h.chunk
             S == {i \in 0 .. Limit : Stop(i)}
             n == First(S)
             p == at[n]
  <2>0. h.chunk \in C /\ h.chunk # NULL
    BY <1>0, <1>1, <1>b
  <2>1. r = FoundAfter(h, IF Fit(h, p, size) THEN p ELSE NULL, size)
    BY <2>0 DEF search_chunk, FitFrom
  <2>2. /\ \A i \in 0 .. Limit : at[i] \in C
        /\ \A c \in C : \E i \in 0 .. Limit : at[i] = c
    <3> HIDE DEF at
    <3>1. Reaches(at, C)
      BY <1>1, <2>0, CycleReached DEF at
    <3> QED
      BY <3>1 DEF Reaches
  <2> HIDE DEF at
  <2>3. S # {}
    <3>1. PICK c \in C : m_next(h, c) = h.chunk
      BY <1>1, <2>0, FollowsExists
    <3> QED
      BY <2>2, <3>1
  <2>4. n \in 0 .. Limit
    <3>1. S \in SUBSET Nat
      BY <1>1
    <3>2. n \in S
      <4> HIDE DEF S
      <4> QED
        BY <2>3, <3>1, FirstFacts
    <3> HIDE DEF n
    <3> QED
      BY <3>2
  <2> HIDE DEF n, S
  <2>5. p \in C
    BY <2>2, <2>4
  <2> HIDE DEF p
  <2>6. p # NULL
    BY <1>1, <2>5
  <2>c. CASE ~Fit(h, p, size)
    <3>1. r = Result(h, NULL)
      BY <2>1, <2>c DEF FoundAfter
    <3> QED
      BY <3>1 DEF Found
  <2>d. CASE Fit(h, p, size)
    <3> DEFINE q == m_next(h, p)
    <3>1. r = TakeAfter(h, p, q, size) /\ m_size(h, q) >= size
      BY <2>1, <2>6, <2>d DEF FoundAfter, Fit
    <3>2. q \in C /\ q # NULL /\ q \notin O /\ m_size(h, q) \in Nat /\ m_next(h, q) \in C
      <4>1. q \in C /\ q \notin O
        BY <1>1, <2>5 DEF Cycle, Arranged
      <4> HIDE DEF q
      <4> QED
        BY <1>1, <4>1, ArrangedFacts
    <3>e. CASE m_size(h, q) >= size + 2
      <4>1. r = Result(Cut(h, p, q, size), q)
        BY <3>1, <3>e DEF TakeAfter
      <4> DEFINE g == Cut(h, p, q, size)
      <4>2. /\ Keeps(h, g, O) /\ m_size(g, q) = size
            /\ \E D : Arranged(g, O \cup {q}, D, {})
        <5>1. q = m_next(h, p)
          OBVIOUS
        <5> HIDE DEF q
        <5> QED
          BY <2>5, <3>e, <5>1, CutFacts, SMTT(30)
      <4> HIDE DEF g, q
      <4>3. r.h = g /\ r.p = q
        BY <4>1 DEF Result, g
      <4> HIDE DEF r
      <4>4. r.p # NULL /\ r.p \notin O /\ Keeps(h, r.h, O)
        BY <3>2, <4>2, <4>3 DEF q
      <4>5. m_size(r.h, r.p) >= size
        BY <4>2, <4>3
      <4>6. \E D : Arranged(r.h, O \cup {r.p}, D, {})
        BY <4>2, <4>3
      <4> QED
        BY <4>4, <4>5, <4>6 DEF Found, r
    <3>f. CASE ~(m_size(h, q) >= size + 2)
      <4> DEFINE c == IF m_next(h, q) = q THEN NULL ELSE m_next(h, q)
                 g == [set_next(h, p, m_next(h, q)) EXCEPT !.chunk = c]
      <4>1. r = Result(g, q)
        BY <3>1, <3>f DEF TakeAfter
      <4>2. /\ Keeps(h, g, O) /\ m_size(g, q) = m_size(h, q)
            /\ Arranged(g, O \cup {q}, C \ {q}, {})
        <5>1. /\ q = m_next(h, p) /\ c \in Nat
              /\ IF m_next(h, q) = q THEN c = NULL ELSE c \in C \ {q}
          BY <1>1, <3>2 DEF NULL
        <5> HIDE DEF q, c
        <5> QED
          BY <2>5, <5>1, WholeFacts
      <4> HIDE DEF g, q
      <4>3. r.h = g /\ r.p = q
        BY <4>1 DEF Result
      <4> HIDE DEF r
      <4>4. r.p # NULL /\ r.p \notin O /\ Keeps(h, r.h, O)
        BY <3>2, <4>2, <4>3 DEF q
      <4>5. m_size(r.h, r.p) >= size
        BY <3>1, <4>2, <4>3 DEF q
      <4>6. \E D : Arranged(r.h, O \cup {r.p}, D, {})
        BY <4>2, <4>3
      <4> QED
        BY <4>4, <4>5, <4>6 DEF Found, r
    <3> QED
      BY <3>e, <3>f
  <2> QED
    BY <2>c, <2>d
<1> QED
  BY <1>a, <1>b

-----------------------------------------------------------------------------
(* Division rounds down.                                                   *)
LEMMA DivFacts ==
    ASSUME NEW a \in Nat, NEW m \in Nat \ {0}
    PROVE  a \div m \in Nat /\ m * (a \div m) <= a /\ a < m * (a \div m) + m
OBVIOUS

(* The cells of a block are enough for its size cell and what was asked.   *)
LEMMA CellsFacts ==
    ASSUME MallocAssumption, NEW size \in Nat, size # 0
    PROVE  LET n == (size + 2 * MemSize - 1) \div MemSize IN
           n \in Nat /\ n >= 2 /\ MemSize * n >= MemSize + size
<1> DEFINE a == size + 2 * MemSize - 1
           n == a \div MemSize
<1>0. MemSize \in Nat \ {0} /\ a \in Nat
  BY DEF MallocAssumption
<1>1. n \in Nat /\ MemSize * n <= a /\ a < MemSize * n + MemSize
  <2> HIDE DEF a
  <2> QED
    BY <1>0, DivFacts
<1> HIDE DEF n
<1>2. MemSize * n >= MemSize + size
  <2> DEFINE x == MemSize * n
  <2>1. x \in Nat /\ a < x + MemSize
    BY <1>0, <1>1
  <2> HIDE DEF x
  <2>2. x >= MemSize + size
    BY <1>0, <2>1
  <2> QED
    BY <2>2 DEF x
<1>3. n # 0 /\ n # 1
  <2>1. n # 0
    BY <1>0, <1>2
  <2>2. n # 1
    BY <1>0, <1>2
  <2> QED
    BY <2>1, <2>2
<1> QED
  BY <1>1, <1>2, <1>3 DEF n

-----------------------------------------------------------------------------
(* The blocks at B are in use; the rest of the heap is on the freed list,  *)
(* s, or among the chunks, C.                                              *)
Managed(h, B, s, n, C) ==
    /\ Stack(h, h.freed, s, n)
    /\ Elems(s, n) \cap B = {}
    /\ Arranged(h, B \cup Elems(s, n), C, {})
Good(h, B) == \E s, n, C : Managed(h, B, s, n, C)

(* What an operation leaves as it was: the blocks at X.                    *)
Spares(h, g, X) == g \in Heaps /\ Unaltered(h, g, X)

(* The laws of Spares: it does not ask which list has what.                *)
LEMMA SparesSelf ==
    ASSUME NEW h \in Heaps, NEW g \in Heaps, g.cell = h.cell, NEW X
    PROVE  Spares(h, g, X)
BY DEF Spares, Unaltered, Untouched, Sizes, m_size, m_next

(* It is transitive.                                                       *)
LEMMA SparesMore ==
    ASSUME NEW h, NEW g, NEW k, NEW X, Spares(h, g, X), Spares(g, k, X)
    PROVE  Spares(h, k, X)
<1>1. Sizes(h, k, X) /\ \A b \in X : m_next(k, b) = m_next(h, b)
  BY DEF Spares, Unaltered, Sizes
<1>2. Untouched(h, k, X)
  <2> SUFFICES ASSUME NEW b \in X, NEW a \in b .. b + m_size(h, b) - 1
               PROVE  k.cell[a] = h.cell[a]
    BY DEF Untouched
  <2>1. m_size(g, b) = m_size(h, b)
    BY DEF Spares, Unaltered, Sizes
  <2>2. g.cell[a] = h.cell[a]
    BY DEF Spares, Unaltered, Untouched
  <2>3. k.cell[a] = g.cell[a]
    BY <2>1 DEF Spares, Unaltered, Untouched
  <2> QED
    BY <2>2, <2>3
<1> QED
  BY <1>1, <1>2 DEF Spares, Unaltered

(* And goes down to fewer blocks.                                          *)
LEMMA SparesFewer ==
    ASSUME NEW h, NEW g, NEW X, NEW Y \in SUBSET X, Spares(h, g, X)
    PROVE  Spares(h, g, Y)
BY DEF Spares, Unaltered, Untouched, Sizes

(* It asks less than Keeps.                                                *)
LEMMA KeepsSpares ==
    ASSUME NEW h, NEW g, NEW X, Keeps(h, g, X)
    PROVE  Spares(h, g, X)
BY DEF Keeps, Spares, Unaltered

(* The blocks in use are among the heap's, and apart.                      *)
LEMMA GoodFacts ==
    ASSUME MallocAssumption, NEW h, NEW B, Good(h, B)
    PROVE  /\ h \in Heaps
           /\ \A b \in B : /\ b \in Nat /\ b # 0 /\ b \in Cell /\ b + 1 \in Cell
                           /\ m_size(h, b) \in Nat /\ m_size(h, b) >= 2 /\ m_next(h, b) \in Nat
                           /\ b + m_size(h, b) <= h.brk
           /\ \A b, c \in B : b # c => b + m_size(h, b) <= c \/ c + m_size(h, c) <= b
<1>1. PICK s, n, C : Managed(h, B, s, n, C)
  BY DEF Good
<1> DEFINE O == B \cup Elems(s, n)
<1>2. Arranged(h, O, C, {}) /\ B \subseteq O
  BY <1>1 DEF Managed
<1> HIDE DEF O
<1>3. /\ \A b \in O \cup C : /\ b \in Nat /\ b # 0 /\ b \in Cell /\ b + 1 \in Cell
                            /\ m_size(h, b) \in Nat /\ m_size(h, b) >= 2 /\ m_next(h, b) \in Nat
      /\ \A b, c \in O \cup C : b # c => b + m_size(h, b) <= c \/ c + m_size(h, c) <= b
  BY <1>2, ArrangedFacts
<1>4. h \in Heaps /\ \A b \in B : b + m_size(h, b) <= h.brk
  BY <1>2 DEF Arranged, Laid
<1>5. B \subseteq O \cup C
  BY <1>2
<1> HIDE DEF Heaps
<1> QED
  BY <1>3, <1>4, <1>5

(* Sparing a block leaves its size.                                        *)
LEMMA SparesSizes ==
    ASSUME NEW h, NEW g, NEW X, Spares(h, g, X)
    PROVE  Sizes(h, g, X)
BY DEF Spares, Unaltered

(* Another heap of the same blocks.                                        *)
LEMMA GoodSame ==
    ASSUME NEW h, NEW g, NEW B, Good(h, B), g \in Heaps, g.brk = h.brk,
           g.freed = h.freed, g.chunk = h.chunk, g.cell = h.cell
    PROVE  Good(g, B)
<1>1. PICK s, n, C : Managed(h, B, s, n, C)
  BY DEF Good
<1>2. \A b : m_size(g, b) = m_size(h, b) /\ m_next(g, b) = m_next(h, b)
  BY DEF m_size, m_next
<1> DEFINE O == B \cup Elems(s, n)
<1>3. Arranged(h, O, C, {}) /\ Stack(h, h.freed, s, n) /\ Elems(s, n) \cap B = {}
  BY <1>1 DEF Managed
<1>4. Stack(g, g.freed, s, n)
  BY <1>2, <1>3, StackSame
<1>5. Laid(g, O \cup C) /\ Cycle(g, C)
  <2> HIDE DEF O
  <2>1. Laid(h, O \cup C) /\ Cycle(h, C)
    BY <1>3 DEF Arranged
  <2> QED
    BY <1>2, <2>1, LaidSame, CycleSame DEF Sizes
<1>6. Arranged(g, O, C, {})
  <2> HIDE DEF O
  <2> QED
    BY <1>2, <1>3, <1>5 DEF Arranged
<1>7. Managed(g, B, s, n, C)
  BY <1>3, <1>4, <1>6 DEF Managed
<1> QED
  BY <1>7 DEF Good

(* The head of the freed list taken off it: the list is one shorter.       *)
Shorter(h, g, B, s, n, C) ==
    /\ Managed(g, B \cup {h.freed}, s, n - 1, C) /\ n - 1 \in Nat
    /\ g.brk = h.brk /\ g.mini = h.mini /\ g.chunk = h.chunk /\ g.cell = h.cell

(* Unfreed takes one block off, which is in use from then on.              *)
LEMMA UnfreedManaged ==
    ASSUME MallocAssumption, NEW h, NEW B, NEW s, NEW n, NEW C, Managed(h, B, s, n, C),
           h.freed # NULL
    PROVE  Shorter(h, Unfreed(h), B, s, n, C) /\ h.freed \notin B /\ h \in Heaps
<1> DEFINE g == Unfreed(h)
           p == h.freed
<1> DEFINE O == B \cup Elems(s, n)
<1>2. Arranged(h, O, C, {}) /\ Stack(h, p, s, n) /\ Elems(s, n) \cap B = {} /\ h \in Heaps
  BY DEF Managed, Arranged
<1>3. /\ n - 1 \in Nat /\ p \in Elems(s, n)
      /\ Stack(h, m_next(h, p), s, n - 1) /\ Elems(s, n - 1) = Elems(s, n) \ {p}
  <2>1. Stack(h, p, s, n) /\ p # NULL
    BY <1>2
  <2> HIDE DEF p
  <2>2. Popped(h, p, s, n)
    BY <2>1, StackPop
  <2> QED
    BY <2>2 DEF Popped
<1>4. m_next(h, p) \in Nat
  <2>1. p \in O
    BY <1>3
  <2> HIDE DEF O
  <2> QED
    BY <1>2, <2>1, ArrangedFacts
<1>5. /\ g \in Heaps /\ g.brk = h.brk /\ g.mini = h.mini /\ g.chunk = h.chunk
      /\ g.cell = h.cell /\ g.freed = m_next(h, p)
  <2> DEFINE x == m_next(h, p)
  <2>1. x \in Nat /\ g = [h EXCEPT !.freed = x]
    BY <1>4 DEF Unfreed
  <2> HIDE DEF g, x
  <2>2. /\ g \in Heaps /\ g.brk = h.brk /\ g.mini = h.mini /\ g.chunk = h.chunk
        /\ g.cell = h.cell /\ g.freed = x
    BY <1>2, <2>1 DEF Heaps
  <2> QED
    BY <2>2 DEF x
<1> HIDE DEF g
<1>6. \A b : m_size(g, b) = m_size(h, b) /\ m_next(g, b) = m_next(h, b)
  BY <1>5 DEF m_size, m_next
<1>7. Stack(g, g.freed, s, n - 1)
  BY <1>3, <1>5, <1>6, StackSame
<1>8. Arranged(g, O, C, {})
  <2> HIDE DEF O
  <2>1. Laid(h, O \cup C) /\ Cycle(h, C)
    BY <1>2 DEF Arranged
  <2>2. Laid(g, O \cup C) /\ Cycle(g, C)
    BY <1>5, <1>6, <2>1, LaidSame, CycleSame DEF Sizes
  <2> QED
    BY <1>2, <1>5, <1>6, <2>2 DEF Arranged
<1>9. (B \cup {p}) \cup Elems(s, n - 1) = O /\ Elems(s, n - 1) \cap (B \cup {p}) = {} /\ p \notin B
  BY <1>2, <1>3
<1>10. Managed(g, B \cup {p}, s, n - 1, C)
  <2> HIDE DEF O, p
  <2> QED
    BY <1>7, <1>8, <1>9 DEF Managed
<1> QED
  BY <1>2, <1>3, <1>5, <1>9, <1>10 DEF g, Shorter

(* What is in use is as it was.                                            *)
LEMMA UnfreedFacts ==
    ASSUME MallocAssumption, NEW h, NEW B, Good(h, B), h.freed # NULL
    PROVE  LET g == Unfreed(h) IN
           /\ Good(g, B \cup {h.freed}) /\ h.freed \notin B /\ Spares(h, g, B)
           /\ g.brk = h.brk /\ g.mini = h.mini /\ g.chunk = h.chunk
           /\ \A b : m_size(g, b) = m_size(h, b)
<1> DEFINE g == Unfreed(h)
<1>1. PICK s, n, C : Managed(h, B, s, n, C)
  BY DEF Good
<1>2. Shorter(h, g, B, s, n, C) /\ h.freed \notin B /\ h \in Heaps
  BY <1>1, UnfreedManaged
<1> HIDE DEF g
<1>3. /\ g.brk = h.brk /\ g.mini = h.mini /\ g.chunk = h.chunk /\ g.cell = h.cell
      /\ Managed(g, B \cup {h.freed}, s, n - 1, C)
  BY <1>2 DEF Shorter
<1>4. Good(g, B \cup {h.freed}) /\ g \in Heaps
  BY <1>3 DEF Good, Managed, Arranged
<1>5. Spares(h, g, B)
  BY <1>2, <1>3, <1>4, SparesSelf
<1>6. \A b : m_size(g, b) = m_size(h, b)
  BY <1>3 DEF m_size
<1> QED
  BY <1>2, <1>3, <1>4, <1>5, <1>6 DEF g

(* The block at the top given back.                                        *)
LEMMA LowerFacts ==
    ASSUME MallocAssumption, NEW h, NEW B, NEW p, p \notin B, Good(h, B \cup {p}), AtTop(h, p)
    PROVE  LET g == Lower(h, p) IN
           /\ Good(g, B) /\ Spares(h, g, B) /\ g.mini = h.mini
<1> DEFINE g == Lower(h, p)
           P == B \cup {p}
<1>1. PICK s, n, C : Managed(h, P, s, n, C)
  BY DEF Good
<1> DEFINE O == P \cup Elems(s, n)
           Q == B \cup Elems(s, n)
<1>2. /\ Arranged(h, O, C, {}) /\ Stack(h, h.freed, s, n) /\ Elems(s, n) \cap P = {} /\ h \in Heaps
      /\ Laid(h, O \cup C) /\ O \cap C = {} /\ p \in O /\ Cycle(h, C)
  BY <1>1 DEF Managed, Arranged
<1>3. Q \cup C = (O \cup C) \ {p} /\ Q \cap C = {} /\ Elems(s, n) \cap B = {}
  BY <1>2
<1>4. p \in Nat /\ p \in Cell /\ p + m_size(h, p) = h.brk
  <2> HIDE DEF O
  <2> QED
    BY <1>2, ArrangedFacts DEF AtTop
<1>5. /\ g \in Heaps /\ g.brk = p /\ g.mini = h.mini /\ g.chunk = h.chunk
      /\ g.cell = h.cell /\ g.freed = h.freed
  <2>1. p \in Base .. Limit
    BY <1>4 DEF Cell, MallocAssumption
  <2> QED
    BY <1>2, <2>1 DEF Heaps, Lower
<1> HIDE DEF g
<1>6. \A b : m_size(g, b) = m_size(h, b) /\ m_next(g, b) = m_next(h, b)
  BY <1>5 DEF m_size, m_next
<1>7. Stack(g, g.freed, s, n)
  BY <1>2, <1>5, <1>6, StackSame
<1>8. Laid(g, Q \cup C)
  <2> DEFINE X == O \cup C
  <2>1. Laid(h, X) /\ p \in X /\ Q \cup C = X \ {p}
    BY <1>2, <1>3
  <2> HIDE DEF X, Q
  <2>2. Sizes(h, g, X \ {p})
    BY <1>6 DEF Sizes
  <2>3. Laid(g, X \ {p})
    BY <1>2, <1>4, <1>5, <2>1, <2>2, LaidLower
  <2> QED
    BY <2>1, <2>3
<1>9. Arranged(g, Q, C, {})
  <2>1. Cycle(g, C)
    BY <1>2, <1>6, CycleSame
  <2> HIDE DEF Q, O
  <2> QED
    BY <1>2, <1>3, <1>5, <1>6, <1>8, <2>1 DEF Arranged
<1>10. Managed(g, B, s, n, C)
  BY <1>3, <1>7, <1>9 DEF Managed
<1>11. Good(g, B)
  BY <1>10 DEF Good
<1>12. Spares(h, g, B)
  BY <1>2, <1>5, SparesSelf
<1> QED
  BY <1>5, <1>11, <1>12 DEF g

(* Freed blocks at the top follow.                                         *)
LEMMA LowerMoreFacts ==
    ASSUME MallocAssumption, NEW h, NEW B, Good(h, B)
    PROVE  Good(LowerMore(h), B) /\ Spares(h, LowerMore(h), B) /\ LowerMore(h).mini = h.mini
<1> DEFINE OK(g) == Good(g, B) /\ Spares(h, g, B) /\ g.mini = h.mini
           S == {g \in Heaps : OK(g)}
           G == [g \in S |-> LowerOne(g)]
           Upto(f) == f = [n \in 0 .. Limit |-> IF n = 0 THEN h ELSE LowerOne(f[n - 1])]
<1>0. Limit \in Nat
  BY DEF MallocAssumption
<1>1. h \in S
  <2>1. h \in Heaps
    BY GoodFacts
  <2> QED
    BY <2>1, SparesSelf
<1>2. \A g \in S : LowerOne(g) \in S
  <2> SUFFICES ASSUME NEW g \in S, g.freed # NULL, AtTop(g, g.freed)
               PROVE  Lower(Unfreed(g), g.freed) \in S
    BY DEF LowerOne
  <2> DEFINE k == Unfreed(g)
             l == Lower(k, g.freed)
  <2>1. Good(g, B) /\ Spares(h, g, B) /\ g.mini = h.mini
    OBVIOUS
  <2> HIDE DEF S
  <2>2. /\ Good(k, B \cup {g.freed}) /\ g.freed \notin B /\ Spares(g, k, B)
        /\ k.brk = g.brk /\ k.mini = g.mini
        /\ \A b : m_size(k, b) = m_size(g, b)
    BY <2>1, UnfreedFacts
  <2> HIDE DEF k
  <2>3. AtTop(k, g.freed)
    BY <2>2 DEF AtTop
  <2>4. Good(l, B) /\ Spares(k, l, B) /\ l.mini = k.mini
    BY <2>2, <2>3, LowerFacts
  <2> HIDE DEF l
  <2>5. Spares(h, l, B)
    <3>1. Spares(h, k, B)
      BY <2>1, <2>2, SparesMore
    <3> QED
      BY <2>4, <3>1, SparesMore
  <2> QED
    BY <2>1, <2>2, <2>4, <2>5 DEF S, l, k, Spares
<1> HIDE DEF OK, S
<1>3. G \in [S -> S]
  BY <1>2
<1>4. PICK f : Iterates(f, G, h, Limit) /\ \A n \in 0 .. Limit : f[n] \in S
  <2> HIDE DEF G
  <2> QED
    BY <1>0, <1>1, <1>3, Iterated
<1>5. Upto(f)
  <2>1. \A n \in 0 .. Limit : n # 0 => G[f[n - 1]] = LowerOne(f[n - 1])
    <3> TAKE n \in 0 .. Limit
    <3>1. n # 0 => n - 1 \in 0 .. Limit
      BY <1>0
    <3> QED
      BY <1>4, <3>1
  <2> HIDE DEF G
  <2> QED
    BY <1>4, <2>1 DEF Iterates
<1> DEFINE after == CHOOSE g : Upto(g)
<1>6. Upto(after)
  <2> HIDE DEF Upto
  <2> QED
    BY <1>5
<1> HIDE DEF after
<1>7. \A n \in 0 .. Limit : after[n] = IF n = 0 THEN h ELSE LowerOne(after[n - 1])
  BY <1>6
<1>8. after[Limit] \in S
  <2>1. after[0] \in S
    BY <1>0, <1>1, <1>7
  <2>2. \A n \in 1 .. Limit : after[n - 1] \in S => after[n] \in S
    <3> TAKE n \in 1 .. Limit
    <3>1. n \in 0 .. Limit /\ n # 0
      BY <1>0
    <3> QED
      BY <1>2, <1>7, <3>1
  <2>3. \A n \in 0 .. Limit : after[n] \in S
    BY <1>0, <2>1, <2>2, Stays
  <2> QED
    BY <1>0, <2>3
<1>9. LowerMore(h) = after[Limit]
  BY DEF LowerMore, after
<1> QED
  BY <1>8, <1>9 DEF S, OK

(* free: the block is no longer in use.                                    *)
LEMMA FreeFacts ==
    ASSUME MallocAssumption, NEW h, NEW B, NEW p, p \notin B, Good(h, B \cup {p})
    PROVE  LET g == FreeChunk(h, p) IN Good(g, B) /\ Spares(h, g, B) /\ g.mini = h.mini
<1> DEFINE g == FreeChunk(h, p)
           P == B \cup {p}
           k == Lower(h, p)
<1>a. CASE AtTop(h, p)
  <2>1. Good(k, B) /\ Spares(h, k, B) /\ k.mini = h.mini
    BY <1>a, LowerFacts
  <2>2. g = IF h.mini THEN LowerMore(k) ELSE k
    BY <1>a DEF FreeChunk
  <2> HIDE DEF k, g
  <2>3. Good(LowerMore(k), B) /\ Spares(k, LowerMore(k), B) /\ LowerMore(k).mini = k.mini
    BY <2>1, LowerMoreFacts
  <2>4. Spares(h, LowerMore(k), B)
    BY <2>1, <2>3, SparesMore
  <2> QED
    BY <2>1, <2>2, <2>3, <2>4 DEF g
<1>b. CASE ~AtTop(h, p)
  <2> DEFINE f == set_next(h, p, h.freed)
  <2>1. PICK s, n, C : Managed(h, P, s, n, C)
    BY DEF Good
  <2> DEFINE O == P \cup Elems(s, n)
  <2>2. /\ Arranged(h, O, C, {}) /\ Stack(h, h.freed, s, n) /\ Elems(s, n) \cap P = {} /\ h \in Heaps
        /\ Laid(h, O \cup C) /\ O \cap C = {} /\ p \in O /\ Cycle(h, C)
    BY <2>1 DEF Managed, Arranged
  <2>3. /\ p \in Nat /\ p \in Cell /\ p + 1 \in Cell /\ h.freed \in Nat
        /\ m_size(h, p) \in Nat /\ m_size(h, p) >= 2 /\ p # NULL
    <3> HIDE DEF O
    <3> QED
      BY <2>2, ArrangedFacts DEF Heaps, NULL
  <2>4. /\ f \in Heaps /\ f.brk = h.brk /\ f.freed = h.freed /\ f.chunk = h.chunk /\ f.mini = h.mini
        /\ f.cell[p + 1] = h.freed /\ \A a \in Cell : a # p + 1 => f.cell[a] = h.cell[a]
    <3>1. h \in Heaps /\ p + 1 \in Cell /\ h.freed \in Nat
      BY <2>2, <2>3
    <3> QED
      BY <3>1, SetNext
  <2>5. g = [f EXCEPT !.freed = p]
    BY <1>b DEF FreeChunk
  <2> HIDE DEF f, g
  <2>6. /\ g \in Heaps /\ g.brk = h.brk /\ g.freed = p /\ g.chunk = h.chunk /\ g.mini = h.mini
        /\ g.cell = f.cell
    BY <2>3, <2>4, <2>5 DEF Heaps
  <2>7. m_next(g, p) = h.freed
    BY <2>4, <2>6 DEF m_next
  <2>8. \A b \in O \cup C : m_size(g, b) = m_size(h, b) /\ (b # p => m_next(g, b) = m_next(h, b))
    <3> TAKE b \in O \cup C
    <3>1. /\ b \in Nat /\ b \in Cell /\ b + 1 \in Cell /\ m_size(h, b) \in Nat /\ m_size(h, b) >= 2
          /\ b # p => b + m_size(h, b) <= p \/ p + m_size(h, p) <= b
      <4>1. p \in O \cup C
        BY <2>2
      <4> HIDE DEF O
      <4> QED
        BY <2>2, <4>1, ArrangedFacts
    <3>2. b # p + 1 /\ (b # p => b + 1 # p + 1)
      BY <2>3, <3>1
    <3> QED
      BY <2>4, <2>6, <3>1, <3>2 DEF m_size, m_next
  <2>9. Spares(h, g, B)
    <3> SUFFICES ASSUME NEW b \in B, NEW a \in b .. b + m_size(h, b) - 1
                 PROVE  g.cell[a] = h.cell[a]
      <4>1. \A b \in B : b # p /\ b \in O \cup C
        OBVIOUS
      <4>2. Sizes(h, g, B) /\ \A b \in B : m_next(g, b) = m_next(h, b)
        BY <2>8, <4>1 DEF Sizes
      <4> HIDE DEF O
      <4> QED
        BY <2>6, <4>2 DEF Spares, Unaltered, Untouched
    <3>1. b \in O \cup C /\ b # p /\ p \in O \cup C
      BY <2>2
    <3>2. /\ b \in Nat /\ m_size(h, b) \in Nat /\ b \in Cell
          /\ b + m_size(h, b) <= p \/ p + m_size(h, p) <= b
          /\ b + m_size(h, b) <= h.brk /\ h.brk \in Base .. Limit
      <4>1. b \in Nat /\ m_size(h, b) \in Nat /\ b \in Cell
        <5> HIDE DEF O
        <5> QED
          BY <2>2, <3>1, ArrangedFacts
      <4>2. b + m_size(h, b) <= p \/ p + m_size(h, p) <= b
        <5> HIDE DEF O
        <5> QED
          BY <2>2, <3>1, ArrangedFacts
      <4>3. b + m_size(h, b) <= h.brk /\ h.brk \in Base .. Limit
        <5> HIDE DEF O
        <5> QED
          BY <2>2, <3>1 DEF Laid, Heaps
      <4> QED
        BY <4>1, <4>2, <4>3
    <3>3. a \in Cell /\ a # p + 1
      BY <2>3, <3>2 DEF Cell, MallocAssumption
    <3> QED
      BY <2>4, <2>6, <3>3
  <2>10. PICK t : Pushed(g, p, s, n, t)
    <3>1. p \notin Elems(s, n) /\ \A y \in Elems(s, n) : m_next(g, y) = m_next(h, y)
      BY <2>2, <2>8
    <3>2. Stack(h, h.freed, s, n) /\ p \in Cell /\ m_next(g, p) = h.freed
      BY <2>2, <2>3, <2>7
    <3> QED
      BY <3>1, <3>2, StackPush
  <2>11. Arranged(g, O, C, {})
    <3>1. \A c \in C : c # p
      BY <2>2
    <3> HIDE DEF O
    <3>2. Laid(g, O \cup C)
      BY <2>2, <2>6, <2>8, LaidSame DEF Sizes
    <3>3. Cycle(g, C)
      BY <2>2, <2>8, <3>1, CycleSame
    <3>4. \A c \in C : m_size(g, c) = m_size(h, c) /\ m_next(g, c) = m_next(h, c)
      BY <2>8, <3>1
    <3> QED
      BY <2>2, <2>6, <3>2, <3>3, <3>4 DEF Arranged
  <2>12. B \cup Elems(t, n + 1) = O /\ Elems(t, n + 1) \cap B = {}
    BY <2>2, <2>10 DEF Pushed
  <2>13. Managed(g, B, t, n + 1, C)
    <3> HIDE DEF O
    <3> QED
      BY <2>6, <2>10, <2>11, <2>12 DEF Managed, Pushed
  <2> QED
    BY <2>6, <2>9, <2>13 DEF Good, g
<1> QED
  BY <1>a, <1>b

(* After an operation on the chunks the freed list is what it was.         *)
LEMMA ListKept ==
    ASSUME NEW h, NEW g, NEW s, NEW n, Stack(h, h.freed, s, n), NEW Y, Keeps(h, g, Y),
           Elems(s, n) \subseteq Y, NEW X, Elems(s, n) \cap X = {}, NEW D,
           Arranged(g, X \cup Elems(s, n), D, {})
    PROVE  Managed(g, X, s, n, D)
<1>1. g.freed = h.freed /\ \A x \in Elems(s, n) : m_next(g, x) = m_next(h, x)
  BY DEF Keeps
<1>2. Stack(g, g.freed, s, n)
  BY <1>1, StackSame
<1> QED
  BY <1>2 DEF Managed

(* And so the heap is as it should be.                                     *)
LEMMA ManagedKept ==
    ASSUME NEW h, NEW g, NEW s, NEW n, Stack(h, h.freed, s, n), NEW Y, Keeps(h, g, Y),
           Elems(s, n) \subseteq Y, NEW X, Elems(s, n) \cap X = {}, NEW D,
           Arranged(g, X \cup Elems(s, n), D, {})
    PROVE  Good(g, X)
<1>1. Managed(g, X, s, n, D)
  BY ListKept
<1> QED
  BY <1>1 DEF Good

(* __insert_chunk: the block is no longer in use, and there are chunks.    *)
Chunked(h, g, B) ==
    Good(g, B) /\ Spares(h, g, B) /\ g.chunk # NULL

(* The freed list stays as it is.                                          *)
Chained(h, g, B, s, n) ==
    /\ Keeps(h, g, B \cup Elems(s, n)) /\ g.chunk # NULL
    /\ \E D : Managed(g, B, s, n, D)

(* __insert_chunk on a heap with its freed list.                           *)
LEMMA InsertManaged ==
    ASSUME MallocAssumption, NEW h, NEW B, NEW q, q \notin B, NEW s, NEW n, NEW C,
           Managed(h, B \cup {q}, s, n, C)
    PROVE  Chained(h, insert_chunk(h, q), B, s, n)
<1> DEFINE g == insert_chunk(h, q)
           O == B \cup Elems(s, n)
<1>2. /\ Stack(h, h.freed, s, n) /\ Elems(s, n) \cap (B \cup {q}) = {}
      /\ Arranged(h, (B \cup {q}) \cup Elems(s, n), C, {})
  BY DEF Managed
<1>3. q \notin O /\ (B \cup {q}) \cup Elems(s, n) = O \cup {q} /\ B \in SUBSET O
  BY <1>2
<1>4. Arranged(h, O \cup {q}, C, {})
  BY <1>2, <1>3
<1> HIDE DEF g
<1>5. Inserted(h, g, O)
  <2> HIDE DEF O
  <2> QED
    BY <1>3, <1>4, InsertFacts DEF g
<1>6. PICK D : Keeps(h, g, O) /\ Arranged(g, O, D, {}) /\ D # {}
  BY <1>5 DEF Inserted
<1>7. Managed(g, B, s, n, D)
  <2>1. Elems(s, n) \subseteq O /\ Elems(s, n) \cap B = {} /\ Arranged(g, B \cup Elems(s, n), D, {})
    BY <1>2, <1>6
  <2> HIDE DEF O
  <2> QED
    BY <1>2, <1>6, <2>1, ListKept
<1>8. g.chunk # NULL
  <2> HIDE DEF O
  <2>1. D \in SUBSET Cell
    BY <1>6, ArrangedFacts
  <2>2. g.chunk \in D
    BY <1>6 DEF Arranged
  <2> QED
    BY <2>1, <2>2 DEF Cell, NULL, MallocAssumption
<1> QED
  BY <1>6, <1>7, <1>8 DEF Chained, g

(* A block taken off the freed list, or fresh from sbrk, joins the chunks. *)
LEMMA InsertGood ==
    ASSUME MallocAssumption, NEW h, NEW B, NEW q, q \notin B, Good(h, B \cup {q})
    PROVE  Chunked(h, insert_chunk(h, q), B)
<1> DEFINE g == insert_chunk(h, q)
<1>1. PICK s, n, C : Managed(h, B \cup {q}, s, n, C)
  BY DEF Good
<1>2. Chained(h, g, B, s, n)
  BY <1>1, InsertManaged
<1> HIDE DEF g
<1>3. Good(g, B) /\ g.chunk # NULL /\ Keeps(h, g, B)
  <2>1. B \in SUBSET (B \cup Elems(s, n))
    OBVIOUS
  <2> QED
    BY <1>2, <2>1, KeepsFewer DEF Chained, Good
<1>4. Spares(h, g, B)
  BY <1>3, KeepsSpares
<1> QED
  BY <1>3, <1>4 DEF Chunked, g

(* What is got from the heap: no block, or one more in use.                *)
GivesBlock(h, r, B, size) ==
    /\ Spares(h, r.h, B)
    /\ IF r.p = NULL THEN Good(r.h, B)
       ELSE r.p \notin B /\ Good(r.h, B \cup {r.p}) /\ m_size(r.h, r.p) >= size

(* __search_chunk on a heap with its freed list.                           *)
LEMMA SearchGood ==
    ASSUME MallocAssumption, NEW h, NEW B, Good(h, B), NEW size \in Nat, size >= 2
    PROVE  GivesBlock(h, search_chunk(h, size), B, size)
<1> DEFINE r == search_chunk(h, size)
<1>1. PICK s, n, C : Managed(h, B, s, n, C)
  BY DEF Good
<1> DEFINE O == B \cup Elems(s, n)
<1>2. /\ Stack(h, h.freed, s, n) /\ Elems(s, n) \cap B = {}
      /\ Arranged(h, O, C, {}) /\ h \in Heaps
  BY <1>1 DEF Managed, Arranged
<1> HIDE DEF r
<1>3. Found(h, r, O, size)
  <2> HIDE DEF O
  <2> QED
    BY <1>2, SearchFacts DEF r
<1>a. CASE r = Result(h, NULL)
  <2>1. r.p = NULL /\ r.h = h
    BY <1>a DEF Result
  <2>2. Spares(h, h, B)
    BY <1>2, SparesSelf
  <2> QED
    BY <2>1, <2>2 DEF GivesBlock, r
<1>b. CASE ~(r = Result(h, NULL))
  <2>1. PICK D : /\ r.p # NULL /\ r.p \notin O /\ Keeps(h, r.h, O) /\ m_size(r.h, r.p) >= size
                 /\ Arranged(r.h, O \cup {r.p}, D, {})
    BY <1>b, <1>3 DEF Found
  <2> DEFINE X == B \cup {r.p}
  <2>2. /\ Elems(s, n) \subseteq O /\ Elems(s, n) \cap X = {}
        /\ X \cup Elems(s, n) = O \cup {r.p} /\ B \in SUBSET O /\ r.p \notin B
    BY <1>2, <2>1
  <2>3. Good(r.h, X)
    <3> HIDE DEF O, X
    <3>1. Arranged(r.h, X \cup Elems(s, n), D, {})
      BY <2>1, <2>2
    <3> QED
      BY <1>2, <2>1, <2>2, <3>1, ManagedKept
  <2>4. Spares(h, r.h, B)
    <3> HIDE DEF O
    <3>1. Keeps(h, r.h, B)
      BY <2>1, <2>2, KeepsFewer
    <3> QED
      BY <3>1, KeepsSpares
  <2> QED
    BY <2>1, <2>2, <2>3, <2>4 DEF GivesBlock, r
<1> QED
  BY <1>a, <1>b

(* An allocator called with size gives a pointer past the block's size cell*)
Gives(h, r, B, size) ==
    /\ Spares(h, r.h, B)
    /\ IF r.p = NULL THEN Good(r.h, B)
       ELSE /\ r.p - 1 \notin B /\ Good(r.h, B \cup {r.p - 1}) /\ r.p \in Nat
            /\ MemSize * m_size(r.h, r.p - 1) >= MemSize + size

(* __mini_malloc refuses, or gives a block of n cells fresh from sbrk.      *)
Fresh(h, r, B, s, m, C, n) ==
    /\ Managed(r.h, B \cup {h.brk}, s, m, C) /\ h.brk \notin B /\ r.p = h.brk + 1
    /\ r.h.brk = h.brk + n /\ r.h.freed = h.freed /\ r.h.mini = h.mini
    /\ Unaltered(h, r.h, B \cup Elems(s, m)) /\ m_size(r.h, h.brk) = n
    /\ n \in Nat /\ n >= 2 /\ h.brk + n <= Limit /\ h.brk \in Cell

(* A block it gives is where sbrk(0) was, and the lists stay as they were. *)
LEMMA MiniManaged ==
    ASSUME MallocAssumption, NEW h, NEW B, NEW s, NEW m, NEW C, Managed(h, B, s, m, C),
           NEW size \in Nat, mini_malloc(h, size) # Result(h, NULL)
    PROVE  LET n == (size + 2 * MemSize - 1) \div MemSize IN
           Fresh(h, mini_malloc(h, size), B, s, m, C, n) /\ MemSize * n >= MemSize + size
<1> DEFINE n == (size + 2 * MemSize - 1) \div MemSize
           r == mini_malloc(h, size)
           b == h.brk
           g == set_size([h EXCEPT !.brk = @ + n], b, n)
           O == B \cup Elems(s, m)
           X == O \cup C
           P == B \cup {b}
           Q == P \cup Elems(s, m)
<1>0. /\ Stack(h, h.freed, s, m) /\ Elems(s, m) \cap B = {} /\ Cycle(h, C)
      /\ Arranged(h, O, C, {}) /\ h \in Heaps /\ Laid(h, O \cup C) /\ O \cap C = {}
  BY DEF Managed, Arranged
<1>1. size # 0 /\ ~MeetsStack(h, n) /\ r = Result(g, b + 1)
  BY DEF mini_malloc
<1>2. n \in Nat /\ n >= 2 /\ MemSize * n >= MemSize + size
  BY <1>1, CellsFacts
<1> HIDE DEF n
<1>3. b \in Nat /\ b \in Cell /\ b + n <= Limit /\ b + n \in Base .. Limit /\ b # 0
  <2>1. h.brk \in Base .. Limit
    BY <1>0 DEF Heaps
  <2>2. ~(h.brk + n > Limit)
    BY <1>1 DEF MeetsStack
  <2> QED
    BY <1>2, <2>1, <2>2 DEF MallocAssumption, Cell
<1>4. /\ g \in Heaps /\ g.brk = b + n /\ g.freed = h.freed /\ g.chunk = h.chunk /\ g.mini = h.mini
      /\ g.cell[b] = n /\ \A a \in Cell : a # b => g.cell[a] = h.cell[a]
  <2> DEFINE f == [h EXCEPT !.brk = @ + n]
  <2>1. f \in Heaps /\ f.brk = b + n /\ f.freed = h.freed /\ f.chunk = h.chunk /\ f.mini = h.mini
        /\ f.cell = h.cell
    BY <1>0, <1>3 DEF Heaps
  <2> HIDE DEF f
  <2>2. b \in Cell /\ n \in Nat /\ g = set_size(f, b, n)
    BY <1>2, <1>3 DEF f
  <2> HIDE DEF b, g
  <2>3. LET x == set_size(f, b, n) IN
        /\ x \in Heaps /\ x.brk = f.brk /\ x.freed = f.freed /\ x.chunk = f.chunk /\ x.mini = f.mini
        /\ x.cell[b] = n /\ \A a \in Cell : a # b => x.cell[a] = f.cell[a]
    BY <2>1, <2>2, SetSize
  <2> QED
    BY <2>1, <2>2, <2>3
<1> HIDE DEF g
<1>5. Unaltered(h, g, X)
  <2> SUFFICES ASSUME NEW c \in X
               PROVE  /\ \A a \in c .. c + m_size(h, c) - 1 : g.cell[a] = h.cell[a]
                      /\ m_size(g, c) = m_size(h, c) /\ m_next(g, c) = m_next(h, c)
    BY DEF Unaltered, Untouched, Sizes
  <2>1. /\ c \in Nat /\ c \in Cell /\ c + 1 \in Cell /\ m_size(h, c) \in Nat /\ m_size(h, c) >= 2
        /\ c + m_size(h, c) <= h.brk
    <3>1. Laid(h, X) /\ c \in X
      BY <1>0
    <3> HIDE DEF X
    <3> QED
      BY <1>0, <3>1, LaidFacts DEF Laid
  <2>2. \A a \in c .. c + m_size(h, c) - 1 : a \in Cell /\ a # b
    BY <1>3, <2>1 DEF Cell, MallocAssumption
  <2>3. c # b /\ c + 1 # b
    BY <1>3, <2>1
  <2> QED
    BY <1>4, <2>1, <2>2, <2>3 DEF m_size, m_next
<1>6. Laid(g, X \cup {b}) /\ b \notin X
  <2>1. Laid(h, X) /\ Sizes(h, g, X) /\ m_size(g, b) = n
    BY <1>0, <1>4, <1>5 DEF Unaltered, m_size
  <2> HIDE DEF X
  <2> QED
    BY <1>0, <1>2, <1>3, <1>4, <2>1, LaidGrow
<1>7. /\ Q \cup C = X \cup {b} /\ Q \cap C = {} /\ Elems(s, m) \cap P = {} /\ b \notin B
      /\ Elems(s, m) \subseteq X /\ C \subseteq X /\ B \in SUBSET X
  BY <1>0, <1>6
<1>8. \A c \in C : m_size(g, c) = m_size(h, c) /\ m_next(g, c) = m_next(h, c)
  BY <1>5, <1>7 DEF Unaltered, Sizes
<1>9. Arranged(g, Q, C, {})
  <2>1. Cycle(g, C)
    BY <1>0, <1>8, CycleSame
  <2>2. Laid(g, Q \cup C)
    BY <1>6, <1>7
  <2> HIDE DEF Q, O, X
  <2> QED
    BY <1>0, <1>4, <1>7, <1>8, <2>1, <2>2 DEF Arranged
<1>10. Stack(g, g.freed, s, m)
  <2>1. \A x \in Elems(s, m) : m_next(g, x) = m_next(h, x)
    BY <1>5, <1>7 DEF Unaltered
  <2> QED
    BY <1>0, <1>4, <2>1, StackSame
<1>11. r.h = g /\ r.p = b + 1
  <2> HIDE DEF b, r, g
  <2> QED
    BY <1>1 DEF Result
<1>12. Managed(g, P, s, m, C)
  BY <1>7, <1>9, <1>10 DEF Managed
<1>13. Unaltered(h, g, O) /\ g.mini = h.mini /\ m_size(g, b) = n
  <2>1. O \subseteq X
    OBVIOUS
  <2> HIDE DEF O, X
  <2> QED
    BY <1>4, <1>5, <2>1 DEF Unaltered, Untouched, Sizes, m_size
<1> HIDE DEF r, b
<1> QED
  BY <1>2, <1>3, <1>4, <1>7, <1>11, <1>12, <1>13 DEF Fresh, r, b, n

(* What that is to the callers.                                            *)
LEMMA MiniGood ==
    ASSUME MallocAssumption, NEW h, NEW B, Good(h, B), NEW size \in Nat
    PROVE  Gives(h, mini_malloc(h, size), B, size)
<1> DEFINE n == (size + 2 * MemSize - 1) \div MemSize
           r == mini_malloc(h, size)
<1>1. PICK s, m, C : Managed(h, B, s, m, C)
  BY DEF Good
<1>2. h \in Heaps
  BY <1>1 DEF Managed, Arranged
<1>a. CASE r = Result(h, NULL)
  <2>1. r.p = NULL /\ r.h = h
    BY <1>a DEF Result
  <2>2. Spares(h, h, B)
    BY <1>2, SparesSelf
  <2> QED
    BY <2>1, <2>2 DEF Gives
<1>b. CASE ~(r = Result(h, NULL))
  <2>1. Fresh(h, r, B, s, m, C, n) /\ MemSize * n >= MemSize + size
    BY <1>1, <1>b, MiniManaged
  <2> HIDE DEF n, r
  <2> DEFINE b == h.brk
             g == r.h
  <2>2. /\ Managed(g, B \cup {b}, s, m, C) /\ b \notin B /\ r.p = b + 1 /\ b \in Nat /\ b # 0
        /\ Unaltered(h, g, B \cup Elems(s, m)) /\ m_size(g, b) = n
    BY <2>1 DEF Fresh, Cell, MallocAssumption
  <2> HIDE DEF b, g
  <2>3. Good(g, B \cup {b}) /\ g \in Heaps
    BY <2>2 DEF Good, Managed, Arranged
  <2>4. Spares(h, g, B)
    <3>1. B \in SUBSET (B \cup Elems(s, m)) /\ Spares(h, g, B \cup Elems(s, m))
      BY <2>2, <2>3 DEF Spares
    <3> QED
      BY <3>1, SparesFewer
  <2>5. r.p - 1 = b /\ r.p # NULL /\ r.p \in Nat
    BY <2>2 DEF NULL
  <2> QED
    BY <2>1, <2>2, <2>3, <2>4, <2>5 DEF Gives, r, g
<1> QED
  BY <1>a, <1>b

(* Sorting the freed list in leaves some chunk, unless it has the size.    *)
LEMMA SortOneGood ==
    ASSUME MallocAssumption, NEW h, NEW B, NEW size, NEW g, Good(g, B), Spares(h, g, B),
           g.freed # NULL, ~Lucky(g, size)
    PROVE  Chunked(h, SortOne(g, size), B)
<1> DEFINE u == Unfreed(g)
           k == insert_chunk(u, g.freed)
<1>1. SortOne(g, size) = k
  BY DEF SortOne
<1>2. Good(u, B \cup {g.freed}) /\ g.freed \notin B /\ Spares(g, u, B)
  BY UnfreedFacts
<1> HIDE DEF u
<1>3. Chunked(u, k, B)
  BY <1>2, InsertGood
<1> HIDE DEF k
<1>4. Spares(h, u, B) /\ Spares(u, k, B)
  BY <1>2, <1>3, SparesMore DEF Chunked
<1>5. Spares(h, k, B)
  BY <1>4, SparesMore
<1> QED
  BY <1>1, <1>3, <1>5 DEF Chunked

(* The rounds of the loop that sorts: those after the first leave chunks,  *)
(* unless the first block has the size.                                    *)
SortRounds(f, h, size) ==
    /\ f[0] = h /\ \A n \in 1 .. Limit : f[n] = SortOne(f[n - 1], size)
    /\ SortedIn(h, size) = f[Limit]
Sorts(h, g, B) == Good(g, B) /\ Spares(h, g, B) /\ (g = h \/ g.chunk # NULL)

(* There is a function of the rounds, which leave a heap as it should be.  *)
LEMMA SortedRounds ==
    ASSUME MallocAssumption, NEW h, NEW B, Good(h, B), h.freed # NULL, NEW size
    PROVE  \E f : SortRounds(f, h, size) /\ \A n \in 0 .. Limit : Sorts(h, f[n], B)
<1> DEFINE OK(g) == Sorts(h, g, B)
           S == {g \in Heaps : OK(g)}
           G == [g \in S |-> SortOne(g, size)]
           Upto(f) == f = [n \in 0 .. Limit |-> IF n = 0 THEN h ELSE SortOne(f[n - 1], size)]
<1>0. Limit \in Nat /\ Limit >= 1
  BY DEF MallocAssumption
<1>1. h \in S
  <2>1. h \in Heaps
    BY GoodFacts
  <2> QED
    BY <2>1, SparesSelf DEF Sorts
<1>2. \A g \in S : SortOne(g, size) \in S
  <2> TAKE g \in S
  <2> DEFINE k == SortOne(g, size)
  <2>1. Good(g, B) /\ Spares(h, g, B) /\ (g = h \/ g.chunk # NULL)
    BY DEF Sorts
  <2>a. CASE g.freed # NULL /\ ~Lucky(g, size)
    <3> HIDE DEF S, k
    <3>1. Chunked(h, k, B)
      BY <2>1, <2>a, SortOneGood DEF k
    <3>2. Good(k, B) /\ Spares(h, k, B) /\ k.chunk # NULL /\ k \in Heaps
      BY <3>1 DEF Chunked, Spares
    <3> QED
      BY <3>2 DEF S, k, Sorts
  <2>b. CASE ~(g.freed # NULL /\ ~Lucky(g, size))
    <3>1. k = g
      BY <2>b DEF SortOne
    <3> HIDE DEF S, k
    <3> QED
      BY <3>1 DEF k
  <2> QED
    BY <2>a, <2>b
<1> HIDE DEF OK, S
<1>3. G \in [S -> S]
  BY <1>2
<1>4. PICK f : Iterates(f, G, h, Limit) /\ \A n \in 0 .. Limit : f[n] \in S
  <2> HIDE DEF G
  <2> QED
    BY <1>0, <1>1, <1>3, Iterated
<1>5. Upto(f)
  <2>1. \A n \in 0 .. Limit : n # 0 => G[f[n - 1]] = SortOne(f[n - 1], size)
    <3> TAKE n \in 0 .. Limit
    <3>1. n # 0 => n - 1 \in 0 .. Limit
      BY <1>0
    <3> QED
      BY <1>4, <3>1
  <2> HIDE DEF G
  <2> QED
    BY <1>4, <2>1 DEF Iterates
<1> DEFINE after == CHOOSE g : Upto(g)
<1>6. Upto(after)
  <2> HIDE DEF Upto
  <2> QED
    BY <1>5
<1> HIDE DEF after
<1>7. \A n \in 0 .. Limit : after[n] = IF n = 0 THEN h ELSE SortOne(after[n - 1], size)
  BY <1>6
<1>8. \A n \in 0 .. Limit : after[n] \in S
  <2>1. after[0] \in S
    BY <1>0, <1>1, <1>7
  <2>2. \A n \in 1 .. Limit : after[n - 1] \in S => after[n] \in S
    <3> TAKE n \in 1 .. Limit
    <3>1. n \in 0 .. Limit /\ n # 0
      BY <1>0
    <3> QED
      BY <1>2, <1>7, <3>1
  <2> QED
    BY <1>0, <2>1, <2>2, Stays
<1>9. SortedIn(h, size) = after[Limit]
  BY DEF SortedIn, after
<1>10. after[0] = h /\ \A n \in 1 .. Limit : after[n] = SortOne(after[n - 1], size)
  <2>1. 0 \in 0 .. Limit /\ \A n \in 1 .. Limit : n \in 0 .. Limit /\ n # 0
    BY <1>0
  <2> QED
    BY <1>7, <2>1
<1>11. \A n \in 0 .. Limit : Sorts(h, after[n], B)
  BY <1>8 DEF S, OK
<1> QED
  BY <1>9, <1>10, <1>11 DEF SortRounds

(* The loop that sorts ends with chunks, or at a block of the very size.   *)
LEMMA SortedGood ==
    ASSUME MallocAssumption, NEW h, NEW B, Good(h, B), h.freed # NULL, NEW size
    PROVE  LET g == SortedIn(h, size) IN
           /\ Good(g, B) /\ Spares(h, g, B)
           /\ g.chunk # NULL \/ Lucky(g, size)
<1> DEFINE g == SortedIn(h, size)
<1>1. PICK f : SortRounds(f, h, size) /\ \A n \in 0 .. Limit : Sorts(h, f[n], B)
  BY SortedRounds
<1>2. Limit \in 1 .. Limit /\ Limit \in 0 .. Limit /\ Limit - 1 \in 0 .. Limit
  BY DEF MallocAssumption
<1>3. Sorts(h, g, B) /\ g = SortOne(f[Limit - 1], size) /\ Sorts(h, f[Limit - 1], B)
  BY <1>1, <1>2 DEF SortRounds
<1> DEFINE k == f[Limit - 1]
<1> HIDE DEF g, k
<1>4. g.chunk # NULL \/ Lucky(g, size)
  <2>1. g = SortOne(k, size) /\ Sorts(h, k, B)
    BY <1>3 DEF k
  <2>a. CASE g = h
    <3>1. CASE k.freed # NULL /\ ~Lucky(k, size)
      <4>1. Chunked(h, SortOne(k, size), B)
        BY <2>1, <3>1, SortOneGood DEF Sorts
      <4> QED
        BY <2>1, <4>1 DEF Chunked
    <3>2. CASE ~(k.freed # NULL /\ ~Lucky(k, size))
      <4>1. g = k
        BY <2>1, <3>2 DEF SortOne
      <4> QED
        BY <2>a, <3>2, <4>1
    <3> QED
      BY <3>1, <3>2
  <2>b. CASE g # h
    BY <1>3, <2>b DEF Sorts
  <2> QED
    BY <2>a, <2>b
<1> QED
  BY <1>3, <1>4 DEF Sorts, g

(* A chunk at the top goes back to the system.                             *)
LEMMA ReleaseTopGood ==
    ASSUME MallocAssumption, NEW h, NEW B, Good(h, B), h.chunk # NULL
    PROVE  Good(ReleaseTop(h), B) /\ Spares(h, ReleaseTop(h), B)
<1> DEFINE p == h.chunk
           q == m_next(h, p)
           c == IF q = m_next(h, q) THEN NULL ELSE p
           u == [set_next(h, p, m_next(h, q)) EXCEPT !.chunk = c]
<1>1. PICK s, n, C : Managed(h, B, s, n, C)
  BY DEF Good
<1> DEFINE O == B \cup Elems(s, n)
           X == B \cup {q}
<1>2. /\ Stack(h, h.freed, s, n) /\ Elems(s, n) \cap B = {}
      /\ Arranged(h, O, C, {}) /\ h \in Heaps /\ O \cap C = {}
  BY <1>1 DEF Managed, Arranged
<1>3. p \in C
  <2> HIDE DEF O
  <2> QED
    BY <1>2 DEF Arranged
<1>4. q \in C /\ q \in Nat /\ p \in Nat
  <2> HIDE DEF O, p
  <2> QED
    BY <1>2, <1>3, ArrangedFacts
<1>a. CASE AtTop(h, q)
  <2>1. ReleaseTop(h) = FreeChunk(u, q)
    <3>1. q + 1 # NULL /\ (q + 1) - 1 = q
      BY <1>4 DEF NULL
    <3>2. set_next(h, p, m_next(h, q)).chunk = p
      BY <1>2 DEF set_next, Heaps
    <3>3. ReleaseTop(h) = free(u, q + 1)
      BY <1>a, <3>2 DEF ReleaseTop
    <3> HIDE DEF u, q
    <3> QED
      BY <3>1, <3>3 DEF free
  <2>2. c \in Nat /\ IF m_next(h, q) = q THEN c = NULL ELSE c \in C \ {q}
    <3>1. m_next(h, q) # q => p # q
      OBVIOUS
    <3> HIDE DEF p, q
    <3> QED
      BY <1>3, <1>4, <3>1 DEF NULL
  <2>3. Keeps(h, u, O) /\ Arranged(u, O \cup {q}, C \ {q}, {})
    <3>1. q = m_next(h, p)
      OBVIOUS
    <3> HIDE DEF O, c, q, p
    <3> QED
      BY <1>2, <1>3, <2>2, <3>1, WholeFacts
  <2>4. /\ Elems(s, n) \subseteq O /\ Elems(s, n) \cap X = {}
        /\ X \cup Elems(s, n) = O \cup {q} /\ B \in SUBSET O /\ q \notin B
    BY <1>2, <1>4
  <2> HIDE DEF u, q
  <2>5. Good(u, X)
    <3> HIDE DEF O, X
    <3>1. Arranged(u, X \cup Elems(s, n), C \ {q}, {})
      BY <2>3, <2>4
    <3> QED
      BY <1>2, <2>3, <2>4, <3>1, ManagedKept
  <2>6. Spares(h, u, B)
    <3> HIDE DEF O
    <3>1. Keeps(h, u, B)
      BY <2>3, <2>4, KeepsFewer
    <3> QED
      BY <3>1, KeepsSpares
  <2>7. Good(FreeChunk(u, q), B) /\ Spares(u, FreeChunk(u, q), B)
    BY <2>4, <2>5, FreeFacts
  <2>8. Spares(h, FreeChunk(u, q), B)
    BY <2>6, <2>7, SparesMore
  <2> QED
    BY <2>1, <2>7, <2>8
<1>b. CASE ~AtTop(h, q)
  <2>1. ReleaseTop(h) = h
    BY <1>b DEF ReleaseTop
  <2> QED
    BY <1>2, <2>1, SparesSelf
<1> QED
  BY <1>a, <1>b

(* The freed list: sorted in, or its head, of the very size, taken.        *)
LEMMA DrainGood ==
    ASSUME MallocAssumption, NEW h, NEW B, Good(h, B), h.freed # NULL, NEW size \in Nat
    PROVE  GivesBlock(h, Drain(h, size), B, size)
<1> DEFINE g == SortedIn(h, size)
           r == Drained(g, size)
<1>1. Good(g, B) /\ Spares(h, g, B) /\ (g.chunk # NULL \/ Lucky(g, size))
  BY SortedGood
<1>2. Drain(h, size) = r
  BY DEF Drain
<1> HIDE DEF g
<1>a. CASE Lucky(g, size)
  <2>1. r.h = Unfreed(g) /\ r.p = g.freed
    BY <1>a DEF Drained, Result
  <2>2. g.freed # NULL /\ m_size(g, g.freed) = size
    BY <1>a DEF Lucky
  <2> DEFINE u == Unfreed(g)
  <2>3. /\ Good(u, B \cup {g.freed}) /\ g.freed \notin B /\ Spares(g, u, B)
        /\ \A b : m_size(u, b) = m_size(g, b)
    BY <1>1, <2>2, UnfreedFacts
  <2> HIDE DEF u
  <2>4. Spares(h, u, B)
    BY <1>1, <2>3, SparesMore
  <2>5. m_size(u, g.freed) >= size
    BY <2>2, <2>3
  <2> HIDE DEF r
  <2> QED
    BY <1>2, <2>1, <2>2, <2>3, <2>4, <2>5 DEF GivesBlock, u
<1>b. CASE ~Lucky(g, size)
  <2> DEFINE u == ReleaseTop(g)
  <2>1. r.h = u /\ r.p = NULL
    BY <1>b DEF Drained, Result
  <2>2. Good(u, B) /\ Spares(g, u, B)
    BY <1>1, <1>b, ReleaseTopGood
  <2> HIDE DEF u, r
  <2>3. Spares(h, u, B)
    BY <1>1, <2>2, SparesMore
  <2> QED
    BY <1>2, <2>1, <2>2, <2>3 DEF GivesBlock
<1> QED
  BY <1>a, <1>b

(* The rounds of the search for a last piece of memory.                    *)
Scavenger(h, alloc, needed) == [h |-> h, alloc |-> alloc, needed |-> needed]
ScavengeRounds(f, h, alloc, needed) ==
    /\ f[0] = Scavenger(h, alloc, needed)
    /\ \A n \in 1 .. alloc + Limit : f[n] = ScavengeOne(f[n - 1])
    /\ Scavenge(h, alloc, needed) = f[alloc + Limit].h
Scavenges(h, t, B) ==
    /\ t \in [h : Heaps, alloc : Nat, needed : Nat]
    /\ Good(t.h, B) /\ Spares(h, t.h, B)

(* There is a function of them, and each leaves a heap as it should be.    *)
LEMMA ScavengedRounds ==
    ASSUME MallocAssumption, NEW h, NEW B, Good(h, B), NEW alloc \in Nat, NEW needed \in Nat
    PROVE  \E f : /\ ScavengeRounds(f, h, alloc, needed)
                  /\ \A n \in 0 .. alloc + Limit : Scavenges(h, f[n], B)
<1> DEFINE N == alloc + Limit
           a == [h |-> h, alloc |-> alloc, needed |-> needed]
           OK(s) == Good(s.h, B) /\ Spares(h, s.h, B)
           S == {s \in [h : Heaps, alloc : Nat, needed : Nat] : OK(s)}
           G == [s \in S |-> ScavengeOne(s)]
           Upto(f) == f = [n \in 0 .. N |-> IF n = 0 THEN a ELSE ScavengeOne(f[n - 1])]
<1>0. N \in Nat
  BY DEF MallocAssumption
<1>1. a \in S
  <2>1. h \in Heaps
    BY GoodFacts
  <2> QED
    BY <2>1, SparesSelf
<1>2. \A s \in S : ScavengeOne(s) \in S
  <2> TAKE s \in S
  <2>1. /\ Good(s.h, B) /\ Spares(h, s.h, B) /\ s.alloc \in Nat /\ s.needed \in Nat
        /\ s \in [h : Heaps, alloc : Nat, needed : Nat]
    OBVIOUS
  <2> DEFINE got == mini_malloc(s.h, s.alloc)
             k == insert_chunk(got.h, got.p - 1)
             m == IF s.alloc > s.needed THEN 0 ELSE s.needed - s.alloc
  <2>a. CASE s.alloc <= MinScavenge \/ s.needed = 0
    <3>1. ScavengeOne(s) = s
      BY <2>a DEF ScavengeOne
    <3> QED
      BY <3>1
  <2>b. CASE s.alloc > MinScavenge /\ s.needed # 0 /\ got.p # NULL
    <3>1. ~(s.alloc <= MinScavenge \/ s.needed = 0)
      BY <2>1, <2>b DEF MallocAssumption
    <3>2. ScavengeOne(s) = [s EXCEPT !.h = k, !.needed = m]
      BY <2>b, <3>1 DEF ScavengeOne
    <3>3. Gives(s.h, got, B, s.alloc)
      BY <2>1, MiniGood
    <3> HIDE DEF got
    <3>4. got.p - 1 \notin B /\ Good(got.h, B \cup {got.p - 1}) /\ Spares(s.h, got.h, B)
      BY <2>b, <3>3 DEF Gives
    <3>5. Chunked(got.h, k, B)
      BY <3>4, InsertGood
    <3> HIDE DEF k
    <3>6. Good(k, B) /\ k \in Heaps /\ Spares(got.h, k, B)
      BY <3>5 DEF Chunked, Spares
    <3>7. Spares(h, got.h, B)
      BY <2>1, <3>4, SparesMore
    <3>8. Spares(h, k, B)
      BY <3>6, <3>7, SparesMore
    <3>9. m \in Nat
      BY <2>1
    <3> HIDE DEF m
    <3> QED
      BY <2>1, <3>2, <3>6, <3>8, <3>9
  <2>c. CASE s.alloc > MinScavenge /\ s.needed # 0 /\ got.p = NULL
    <3>1. ~(s.alloc <= MinScavenge \/ s.needed = 0)
      BY <2>1, <2>c DEF MallocAssumption
    <3>2. ScavengeOne(s) = [s EXCEPT !.alloc = s.alloc \div 2]
      BY <2>c, <3>1 DEF ScavengeOne
    <3>3. s.alloc \div 2 \in Nat
      BY <2>1
    <3> QED
      BY <2>1, <3>2, <3>3
  <2> HIDE DEF S
  <2> QED
    BY <2>1, <2>a, <2>b, <2>c DEF MallocAssumption
<1> HIDE DEF OK, S
<1>3. G \in [S -> S]
  BY <1>2
<1> HIDE DEF N, a
<1>4. PICK f : Iterates(f, G, a, N) /\ \A n \in 0 .. N : f[n] \in S
  <2> HIDE DEF G
  <2> QED
    BY <1>0, <1>1, <1>3, Iterated
<1>5. Upto(f)
  <2>1. \A n \in 0 .. N : n # 0 => G[f[n - 1]] = ScavengeOne(f[n - 1])
    <3> TAKE n \in 0 .. N
    <3>1. n # 0 => n - 1 \in 0 .. N
      BY <1>0
    <3> QED
      BY <1>4, <3>1
  <2> HIDE DEF G
  <2> QED
    BY <1>4, <2>1 DEF Iterates
<1> DEFINE after == CHOOSE g : Upto(g)
<1>6. Upto(after)
  <2> HIDE DEF Upto
  <2> QED
    BY <1>5
<1>8. /\ \A n \in 0 .. N : after[n] \in S
      /\ after[0] = a /\ \A n \in 1 .. N : after[n] = ScavengeOne(after[n - 1])
  <2> HIDE DEF after
  <2>0. \A n \in 0 .. N : after[n] = IF n = 0 THEN a ELSE ScavengeOne(after[n - 1])
    BY <1>6
  <2>1. after[0] \in S /\ after[0] = a
    BY <1>0, <1>1, <2>0
  <2>2. \A n \in 1 .. N : after[n] = ScavengeOne(after[n - 1])
    <3> TAKE n \in 1 .. N
    <3>1. n \in 0 .. N /\ n # 0
      BY <1>0
    <3> QED
      BY <2>0, <3>1
  <2>3. \A n \in 0 .. N : after[n] \in S
    <3>1. \A n \in 1 .. N : after[n - 1] \in S => after[n] \in S
      BY <1>2, <2>2
    <3> QED
      BY <1>0, <2>1, <3>1, Stays
  <2> QED
    BY <2>1, <2>2, <2>3
<1>9. Scavenge(h, alloc, needed) = after[N].h
  BY DEF Scavenge, after, N, a
<1>10. \A n \in 0 .. N : Scavenges(h, after[n], B)
  BY <1>8 DEF S, OK, Scavenges
<1> HIDE DEF after
<1>11. ScavengeRounds(after, h, alloc, needed)
  BY <1>8, <1>9 DEF ScavengeRounds, Scavenger, N, a
<1> QED
  BY <1>10, <1>11 DEF N

(* And so do all of them.                                                  *)
LEMMA ScavengeGood ==
    ASSUME MallocAssumption, NEW h, NEW B, Good(h, B), NEW alloc \in Nat, NEW needed \in Nat
    PROVE  LET g == Scavenge(h, alloc, needed) IN Good(g, B) /\ Spares(h, g, B)
<1>1. PICK f : /\ ScavengeRounds(f, h, alloc, needed)
               /\ \A n \in 0 .. alloc + Limit : Scavenges(h, f[n], B)
  BY ScavengedRounds
<1>2. alloc + Limit \in 0 .. alloc + Limit
  BY DEF MallocAssumption
<1> QED
  BY <1>1, <1>2 DEF ScavengeRounds, Scavenges

(* The heap grows: more chunks, or as it was.                              *)
LEMMA GrowGood ==
    ASSUME MallocAssumption, NEW h, NEW B, Good(h, B), NEW size \in Nat, size # 0
    PROVE  Good(Grow(h, size), B) /\ Spares(h, Grow(h, size), B)
<1> DEFINE d == (size + MCHUNK - 1) \div MCHUNK
           m == MCHUNK * d - 1
           alloc == Word(MemSize * m)
           got == mini_malloc(h, alloc)
           k == insert_chunk(got.h, got.p - 1)
<1>1. m \in Nat
  <2>1. size + MCHUNK - 1 \in Nat /\ MCHUNK \in Nat \ {0}
    BY DEF MallocAssumption
  <2>2. d \in Nat /\ size + MCHUNK - 1 < MCHUNK * d + MCHUNK
    <3> DEFINE x == size + MCHUNK - 1
    <3>1. x \in Nat
      BY <2>1
    <3> HIDE DEF x
    <3> QED
      BY <2>1, <3>1, DivFacts DEF x
  <2> HIDE DEF d
  <2>3. MCHUNK * d \in Nat
    BY <2>1, <2>2
  <2> DEFINE y == MCHUNK * d
  <2> HIDE DEF y
  <2>4. y \in Nat /\ size + MCHUNK - 1 < y + MCHUNK /\ m = y - 1
    BY <2>2, <2>3 DEF y
  <2> QED
    BY <2>1, <2>4
<1>2. alloc \in Nat /\ alloc \div 2 \in Nat
  <2> HIDE DEF m
  <2>1. MemSize * m \in Nat /\ 2 * MaxInt + 2 \in Nat \ {0}
    BY <1>1 DEF MallocAssumption
  <2> DEFINE x == MemSize * m
             w == 2 * MaxInt + 2
  <2> HIDE DEF x, w
  <2>2. x \in Nat /\ w \in Nat \ {0} /\ alloc = x % w
    BY <2>1 DEF x, w, Word
  <2>3. alloc \in Nat
    BY <2>2
  <2> HIDE DEF alloc
  <2> QED
    BY <2>3
<1>3. Grow(h, size) = IF got.p # NULL THEN k ELSE Scavenge(h, alloc \div 2, alloc)
  BY DEF Grow, Growth
<1> HIDE DEF alloc
<1>4. Gives(h, got, B, alloc)
  BY <1>2, MiniGood
<1> HIDE DEF got
<1>a. CASE got.p # NULL
  <2>1. got.p - 1 \notin B /\ Good(got.h, B \cup {got.p - 1}) /\ Spares(h, got.h, B)
    BY <1>a, <1>4 DEF Gives
  <2>2. Chunked(got.h, k, B)
    BY <2>1, InsertGood
  <2> HIDE DEF k
  <2>3. Good(k, B) /\ Spares(got.h, k, B)
    BY <2>2 DEF Chunked
  <2>4. Spares(h, k, B)
    BY <2>1, <2>3, SparesMore
  <2> QED
    BY <1>a, <1>3, <2>3, <2>4
<1>b. CASE got.p = NULL
  <2>1. Grow(h, size) = Scavenge(h, alloc \div 2, alloc)
    BY <1>b, <1>3
  <2> DEFINE z == alloc \div 2
  <2>2. z \in Nat
    BY <1>2
  <2> HIDE DEF z
  <2>3. Good(Scavenge(h, z, alloc), B) /\ Spares(h, Scavenge(h, z, alloc), B)
    BY <1>2, <2>2, ScavengeGood
  <2> QED
    BY <2>1, <2>3 DEF z
<1> QED
  BY <1>a, <1>b

(* From a block with enough cells to a pointer.                            *)
LEMMA UserGives ==
    ASSUME MallocAssumption, NEW h, NEW r, NEW B, NEW n \in Nat, GivesBlock(h, r, B, n),
           NEW size \in Nat, MemSize * n >= MemSize + size
    PROVE  Gives(h, User(r), B, size)
<1>a. CASE r.p = NULL
  <2>1. User(r) = r
    BY <1>a DEF User
  <2> QED
    BY <1>a, <2>1 DEF GivesBlock, Gives
<1>b. CASE r.p # NULL
  <2>1. User(r).h = r.h /\ User(r).p = r.p + 1
    BY <1>b DEF User, Result
  <2> DEFINE g == r.h
             p == r.p
             X == B \cup {p}
  <2>2. Spares(h, g, B) /\ p \notin B /\ Good(g, X) /\ m_size(g, p) >= n
    BY <1>b DEF GivesBlock
  <2> HIDE DEF g
  <2>3. p \in Nat /\ m_size(g, p) \in Nat
    <3> HIDE DEF p
    <3>1. p \in X
      OBVIOUS
    <3> HIDE DEF X
    <3> QED
      BY <2>2, <3>1, GoodFacts
  <2>4. (p + 1) - 1 = p /\ p + 1 \in Nat /\ p + 1 # NULL
    BY <2>3 DEF NULL
  <2>5. MemSize * m_size(g, p) >= MemSize + size
    <3> DEFINE m == m_size(g, p)
    <3>1. m \in Nat /\ m >= n /\ MemSize \in Nat
      BY <2>2, <2>3 DEF MallocAssumption
    <3> HIDE DEF m
    <3>2. \E x \in Nat : m = n + x
      <4>1. m - n \in Nat /\ m = n + (m - n)
        BY <3>1
      <4> QED
        BY <4>1
    <3>3. PICK x \in Nat : m = n + x
      BY <3>2
    <3>4. MemSize * m = MemSize * n + MemSize * x /\ MemSize * x \in Nat /\ MemSize * n \in Nat
      BY <3>1, <3>3
    <3>5. MemSize * m >= MemSize + size
      BY <3>1, <3>4
    <3> QED
      BY <3>5 DEF m
  <2> DEFINE u == User(r)
  <2>6. u.h = g /\ u.p = p + 1
    BY <2>1 DEF g
  <2> HIDE DEF u, p
  <2>7. u.p - 1 = p /\ u.p # NULL /\ u.p \in Nat
    BY <2>4, <2>6
  <2>8. Gives(h, u, B, size)
    BY <2>2, <2>5, <2>6, <2>7 DEF Gives
  <2> QED
    BY <2>8 DEF u
<1> QED
  BY <1>a, <1>b

(* What was spared before the call is spared by it.                        *)
LEMMA GivesMore ==
    ASSUME NEW h, NEW g, NEW r, NEW B, NEW size, Spares(h, g, B), Gives(g, r, B, size)
    PROVE  Gives(h, r, B, size)
<1>1. Spares(g, r.h, B)
  BY DEF Gives
<1>2. Spares(h, r.h, B)
  BY <1>1, SparesMore
<1> QED
  BY <1>2 DEF Gives

(* malloc from its last search on.                                         *)
LEMMA AfterSearchGood ==
    ASSUME MallocAssumption, NEW h, NEW B, NEW found, NEW n \in Nat, n >= 2,
           GivesBlock(h, found, B, n), NEW size \in Nat, MemSize * n >= MemSize + size
    PROVE  Gives(h, AfterSearch(found, n), B, size)
<1>a. CASE found.p # NULL
  <2>1. AfterSearch(found, n) = User(found)
    BY <1>a DEF AfterSearch
  <2>2. Gives(h, User(found), B, size)
    BY UserGives
  <2> QED
    BY <2>1, <2>2
<1>b. CASE found.p = NULL
  <2> DEFINE f == found.h
             g == Grow(f, n)
             r == search_chunk(g, n)
  <2>1. AfterSearch(found, n) = User(r)
    BY <1>b DEF AfterSearch
  <2>2. Good(f, B) /\ Spares(h, f, B)
    BY <1>b DEF GivesBlock
  <2> HIDE DEF f
  <2>3. Good(g, B) /\ Spares(f, g, B)
    <3>1. n # 0
      OBVIOUS
    <3> QED
      BY <2>2, <3>1, GrowGood
  <2> HIDE DEF g
  <2>4. GivesBlock(g, r, B, n)
    BY <2>3, SearchGood
  <2> HIDE DEF r
  <2>5. Gives(g, User(r), B, size)
    BY <2>4, UserGives
  <2>6. Spares(h, g, B)
    BY <2>2, <2>3, SparesMore
  <2>7. Gives(h, User(r), B, size)
    BY <2>5, <2>6, GivesMore
  <2> QED
    BY <2>1, <2>7
<1> QED
  BY <1>a, <1>b

(* malloc once the freed list has been dealt with.                         *)
LEMMA AfterDrainGood ==
    ASSUME MallocAssumption, NEW h, NEW B, NEW drained, NEW n \in Nat, n >= 2,
           GivesBlock(h, drained, B, n), NEW size \in Nat, MemSize * n >= MemSize + size
    PROVE  Gives(h, AfterDrain(drained, n), B, size)
<1>a. CASE drained.p # NULL
  <2>1. AfterDrain(drained, n) = User(drained)
    BY <1>a DEF AfterDrain
  <2>2. Gives(h, User(drained), B, size)
    BY UserGives
  <2> QED
    BY <2>1, <2>2
<1>b. CASE drained.p = NULL
  <2> DEFINE f == drained.h
             r == search_chunk(f, n)
  <2>1. AfterDrain(drained, n) = AfterSearch(r, n)
    BY <1>b DEF AfterDrain
  <2>2. Good(f, B) /\ Spares(h, f, B)
    BY <1>b DEF GivesBlock
  <2> HIDE DEF f
  <2>3. GivesBlock(f, r, B, n)
    BY <2>2, SearchGood
  <2> HIDE DEF r
  <2>4. Gives(f, AfterSearch(r, n), B, size)
    BY <2>3, AfterSearchGood
  <2>5. Gives(h, AfterSearch(r, n), B, size)
    BY <2>2, <2>4, GivesMore
  <2> QED
    BY <2>1, <2>5
<1> QED
  BY <1>a, <1>b

(* malloc, for a size that rounding up does not make wrap.                 *)
Rounds(size) == size \in Nat /\ size + 2 * MemSize - 1 <= 2 * MaxInt + 1

(* And the whole of it.                                                    *)
LEMMA MallocGood ==
    ASSUME MallocAssumption, NEW h, NEW B, Good(h, B), NEW size, Rounds(size)
    PROVE  Gives(h, malloc(h, size), B, size)
<1>0. h \in Heaps /\ Spares(h, h, B) /\ size \in Nat
  <2>1. h \in Heaps /\ size \in Nat
    BY GoodFacts DEF Rounds
  <2> QED
    BY <2>1, SparesSelf
<1>a. CASE size = 0
  <2>1. malloc(h, size).h = h /\ malloc(h, size).p = NULL
    BY <1>a DEF malloc, Result
  <2> QED
    BY <1>0, <2>1 DEF Gives
<1>b. CASE size # 0
  <2> DEFINE g == [h EXCEPT !.mini = FALSE]
             n == (size + 2 * MemSize - 1) \div MemSize
             d == IF g.freed = NULL THEN Result(g, NULL) ELSE Drain(g, n)
  <2>1. /\ g \in Heaps /\ g.brk = h.brk /\ g.freed = h.freed /\ g.chunk = h.chunk
        /\ g.cell = h.cell
    BY <1>0 DEF Heaps
  <2>2. n \in Nat /\ n >= 2 /\ MemSize * n >= MemSize + size
    BY <1>0, <1>b, CellsFacts
  <2>3. CellsFor(size) = n
    <3> DEFINE x == size + 2 * MemSize - 1
               w == 2 * MaxInt + 2
    <3>1. x \in Nat /\ w \in Nat \ {0} /\ x < w
      BY <1>0 DEF Rounds, MallocAssumption
    <3> HIDE DEF x, w
    <3>2. x % w = x
      BY <3>1
    <3> QED
      BY <3>2 DEF CellsFor, Word, x, w
  <2>4. malloc(h, size) = AfterDrain(d, n)
    <3> HIDE DEF n
    <3> QED
      BY <1>b, <2>3 DEF malloc
  <2> HIDE DEF g, n
  <2>5. Good(g, B)
    BY <2>1, GoodSame
  <2>6. GivesBlock(g, d, B, n)
    <3>a. CASE g.freed = NULL
      <4>1. d.h = g /\ d.p = NULL
        BY <3>a DEF Result
      <4>2. Spares(g, g, B)
        BY <2>1, SparesSelf
      <4> QED
        BY <2>5, <4>1, <4>2 DEF GivesBlock
    <3>b. CASE g.freed # NULL
      <4>1. d = Drain(g, n)
        BY <3>b
      <4>2. GivesBlock(g, Drain(g, n), B, n)
        BY <2>2, <2>5, <3>b, DrainGood
      <4> QED
        BY <4>1, <4>2
    <3> QED
      BY <3>a, <3>b
  <2> HIDE DEF d
  <2>7. Gives(g, AfterDrain(d, n), B, size)
    BY <1>0, <2>2, <2>6, AfterDrainGood
  <2>8. Spares(h, g, B)
    BY <1>0, <2>1, SparesSelf
  <2>9. Gives(h, AfterDrain(d, n), B, size)
    BY <2>7, <2>8, GivesMore
  <2> QED
    BY <2>4, <2>9
<1> QED
  BY <1>a, <1>b

(* The pointer __alloca_alloc, at either allocator.                        *)
LEMMA AllocaAllocGood ==
    ASSUME MallocAssumption, NEW h, NEW B, Good(h, B), NEW size, Rounds(size)
    PROVE  Gives(h, alloca_alloc(h, size), B, size)
<1>1. size \in Nat
  BY DEF Rounds
<1>2. Gives(h, mini_malloc(h, size), B, size)
  BY <1>1, MiniGood
<1>3. Gives(h, malloc(h, size), B, size)
  BY MallocGood
<1> QED
  BY <1>2, <1>3 DEF alloca_alloc
-----------------------------------------------------------------------------
(* Numbers of cells and of bytes.                                          *)
LEMMA Times ==
    ASSUME NEW m \in Nat, NEW a \in Int, NEW b \in Int, a <= b
    PROVE  m * a <= m * b
<1>1. b - a \in Nat /\ b = a + (b - a)
  OBVIOUS
<1> DEFINE x == b - a
<1> HIDE DEF x
<1>2. x \in Nat /\ b = a + x
  BY <1>1 DEF x
<1>3. m * b = m * a + m * x /\ m * x \in Nat /\ m * a \in Int
  BY <1>2
<1> QED
  BY <1>3

(* The same for what may be -1, an empty request less one byte.            *)
LEMMA DivInt ==
    ASSUME NEW a \in Int, NEW m \in Nat \ {0}
    PROVE  a \div m \in Int /\ m * (a \div m) <= a /\ a < m * (a \div m) + m
OBVIOUS

(* What was asked for ends inside the block.                               *)
LEMMA AskedFacts ==
    ASSUME MallocAssumption, NEW size \in Nat, NEW req \in Nat,
           MemSize * size >= MemSize + req
    PROVE  /\ \A i \in 0 .. (req - 1) \div MemSize : i + 2 <= size
           /\ req >= 2 * MemSize => size >= 3
<1>1. MemSize \in Nat \ {0} /\ MemSize * size \in Nat
  BY DEF MallocAssumption
<1>2. \A i \in 0 .. (req - 1) \div MemSize : i + 2 <= size
  <2> TAKE i \in 0 .. (req - 1) \div MemSize
  <2> DEFINE k == (req - 1) \div MemSize
  <2>1. req - 1 \in Int
    OBVIOUS
  <2>2. k \in Int /\ MemSize * k <= req - 1
    BY <1>1, <2>1, DivInt
  <2>3. i \in Nat /\ i <= k
    BY <2>2
  <2> HIDE DEF k
  <2>4. MemSize * i <= MemSize * k
    BY <1>1, <2>2, <2>3, Times
  <2>5. i <= size - 2
    <3> SUFFICES ASSUME size - 1 <= i PROVE FALSE
      BY <2>3
    <3>1. MemSize * (size - 1) <= MemSize * i
      <4>1. size - 1 \in Int /\ i \in Int
        BY <2>3
      <4> QED
        BY <1>1, <4>1, Times
    <3>2. MemSize * (size - 1) = MemSize * size - MemSize
      BY <1>1
    <3> DEFINE x == MemSize * size
               y == MemSize * i
               z == MemSize * k
    <3>3. x \in Nat /\ y \in Int /\ z \in Int
      BY <1>1, <2>2, <2>3
    <3>4. x - MemSize <= y /\ y <= z /\ z <= req - 1 /\ x >= MemSize + req
      BY <2>2, <2>4, <3>1, <3>2
    <3> HIDE DEF x, y, z
    <3> QED
      BY <1>1, <3>3, <3>4
  <2> QED
    BY <2>3, <2>5
<1>3. ASSUME req >= 2 * MemSize PROVE size >= 3
  <2> SUFFICES ASSUME size <= 2 PROVE FALSE
    OBVIOUS
  <2>1. MemSize * size <= MemSize * 2
    BY <1>1, Times
  <2> QED
    BY <1>1, <1>3, <2>1
<1> QED
  BY <1>2, <1>3

-----------------------------------------------------------------------------
(* The heap seen from the block of p, of which r is known.                 *)
Record(d) == [req : Nat, owner : {NoFrame, DeadFrame} \cup (0 .. d), data : {0, UserData}]
Room(h, p, r) == MemSize * m_size(h, p - 1) >= MemSize + r.req
Contents(h, p, r) ==
    \A i \in 0 .. (r.req - 1) \div MemSize :
        h.cell[p + i] = r.data \/ (r.owner # NoFrame /\ i < 2)
Frame(h, p, r) ==
    r.owner # NoFrame => /\ r.req >= 2 * MemSize
                         /\ r.owner # DeadFrame => h.cell[p] = r.owner
InUse(h, p, r, d) ==
    p \in Nat /\ r \in Record(d) /\ Room(h, p, r) /\ Contents(h, p, r) /\ Frame(h, p, r)

(* The blocks' own addresses, and what holds of all that are held.         *)
Headers(D) == {p - 1 : p \in D}
Holds(h, f, d) ==
    /\ Good(h, Headers(DOMAIN f))
    /\ \A p \in DOMAIN f : InUse(h, p, f[p], d)

(* The list of alloca, newest block last.                                  *)
Framed(f) == {p \in DOMAIN f : f[p].owner # NoFrame}
Nested(h, s, n) == \A i \in 2 .. n : h.cell[s[i - 1]] <= h.cell[s[i]]
Frames(h, f, hp, s, n) == Stack(h, hp, s, n) /\ Elems(s, n) = Framed(f) /\ Nested(h, s, n)
Listed(h, f, hp) == \E s, n : Frames(h, f, hp, s, n)

(* What is asked for of a block is among the cells it keeps.               *)
SameBlock(h, g, p, r) ==
    /\ m_size(g, p - 1) = m_size(h, p - 1)
    /\ \A i \in 0 .. (r.req - 1) \div MemSize : g.cell[p + i] = h.cell[p + i]
    /\ r.owner # NoFrame => g.cell[p] = h.cell[p] /\ m_next(g, p) = m_next(h, p)

(* A block that is spared is the same block.                               *)
LEMMA BlockSpared ==
    ASSUME MallocAssumption, NEW h, NEW B, Good(h, B), NEW p, p - 1 \in B, NEW r, NEW d,
           InUse(h, p, r, d), NEW g, NEW X, Spares(h, g, X), p - 1 \in X
    PROVE  SameBlock(h, g, p, r) /\ p \in Cell
<1> DEFINE b == p - 1
           m == m_size(h, b)
<1>1. /\ p \in Nat /\ r \in Record(d) /\ MemSize * m >= MemSize + r.req
      /\ r.owner # NoFrame => r.req >= 2 * MemSize
  BY DEF InUse, Room, Frame
<1>2. r.req \in Nat
  BY <1>1 DEF Record
<1>3. b \in Nat /\ m \in Nat /\ p = b + 1 /\ b + 1 \in Cell
  <2>1. b \in B
    OBVIOUS
  <2>2. b \in Nat /\ m_size(h, b) \in Nat /\ b + 1 \in Cell
    <3> HIDE DEF b
    <3> QED
      BY <2>1, GoodFacts
  <2> QED
    BY <1>1, <2>2
<1>4. \A a \in b .. b + m - 1 : g.cell[a] = h.cell[a]
  BY DEF Spares, Unaltered, Untouched
<1>5. m_size(g, b) = m
  BY DEF Spares, Unaltered, Sizes
<1>6. /\ \A i \in 0 .. (r.req - 1) \div MemSize : i + 2 <= m
      /\ r.req >= 2 * MemSize => m >= 3
  <2> HIDE DEF m
  <2> QED
    BY <1>1, <1>2, <1>3, AskedFacts
<1>7. \A i \in 0 .. (r.req - 1) \div MemSize : g.cell[p + i] = h.cell[p + i]
  <2> TAKE i \in 0 .. (r.req - 1) \div MemSize
  <2>1. i + 2 <= m /\ i \in Int /\ i >= 0
    BY <1>6
  <2> HIDE DEF m, b
  <2>2. p + i \in b .. b + m - 1
    BY <1>3, <2>1
  <2> QED
    BY <1>4, <2>2
<1>8. ASSUME r.owner # NoFrame
      PROVE  g.cell[p] = h.cell[p] /\ g.cell[p + 1] = h.cell[p + 1]
  <2>1. m >= 3
    BY <1>1, <1>6, <1>8
  <2> HIDE DEF m, b
  <2>2. p \in b .. b + m - 1 /\ p + 1 \in b .. b + m - 1
    BY <1>3, <2>1
  <2> QED
    BY <1>4, <2>2
<1> HIDE DEF m
<1>9. m_size(g, p - 1) = m_size(h, p - 1)
  BY <1>5 DEF m
<1> QED
  BY <1>3, <1>7, <1>8, <1>9 DEF SameBlock, m_next

(* What holds of a block holds of the same block.                          *)
LEMMA InUseSame ==
    ASSUME NEW h, NEW g, NEW p, NEW r, NEW d, InUse(h, p, r, d), SameBlock(h, g, p, r)
    PROVE  InUse(g, p, r, d)
<1>1. Room(g, p, r)
  BY DEF InUse, SameBlock, Room
<1>2. Contents(g, p, r)
  BY DEF InUse, SameBlock, Contents
<1>3. Frame(g, p, r)
  BY DEF InUse, SameBlock, Frame
<1> QED
  BY <1>1, <1>2, <1>3 DEF InUse

(* One pointer more or less is one header more or less.                    *)
LEMMA HeaderFacts ==
    ASSUME NEW D \in SUBSET Nat, NEW p \in Nat
    PROVE  /\ Headers(D \cup {p}) = Headers(D) \cup {p - 1}
           /\ Headers(D \ {p}) = Headers(D) \ {p - 1}
           /\ p - 1 \in Headers(D) <=> p \in D
<1>1. \A q \in D : q \in Nat /\ (q - 1 = p - 1 => q = p)
  OBVIOUS
<1>2. Headers(D \cup {p}) = Headers(D) \cup {p - 1}
  BY DEF Headers
<1>3. Headers(D \ {p}) = Headers(D) \ {p - 1}
  BY <1>1 DEF Headers
<1>4. p - 1 \in Headers(D) <=> p \in D
  BY <1>1 DEF Headers
<1> QED
  BY <1>2, <1>3, <1>4

(* What is known of the blocks held after a step.                          *)
SameUse(f, k, X, p) == p \in DOMAIN f /\ k[p] = f[p] /\ p - 1 \in X

(* The step from one heap and its blocks to the next: each block is one    *)
(* from before that was spared, or is looked at afresh.                    *)
LEMMA HoldsMore ==
    ASSUME MallocAssumption, NEW h, NEW f, NEW d, Holds(h, f, d), NEW g, NEW k, NEW X,
           Good(g, Headers(DOMAIN k)), Spares(h, g, X),
           \A p \in DOMAIN k : SameUse(f, k, X, p) \/ InUse(g, p, k[p], d)
    PROVE  Holds(g, k, d)
<1> SUFFICES ASSUME NEW p \in DOMAIN k, SameUse(f, k, X, p) PROVE InUse(g, p, k[p], d)
  BY DEF Holds
<1>1. /\ Good(h, Headers(DOMAIN f)) /\ p - 1 \in Headers(DOMAIN f)
      /\ InUse(h, p, k[p], d) /\ p - 1 \in X
  BY DEF Holds, Headers, SameUse
<1>2. SameBlock(h, g, p, k[p])
  BY <1>1, BlockSpared
<1> QED
  BY <1>1, <1>2, InUseSame

(* The list of alloca runs through blocks that are spared.                 *)
SameList(h, g, hp, s, n) ==
    /\ Stack(g, hp, s, n) /\ Nested(g, s, n)
    /\ \A p \in Elems(s, n) : g.cell[p] = h.cell[p] /\ m_next(g, p) = m_next(h, p) /\ p \in Cell

(* Then it is the same list, still deepest first.                          *)
LEMMA ListSpared ==
    ASSUME MallocAssumption, NEW h, NEW f, NEW d, Holds(h, f, d), NEW hp, NEW s, NEW n,
           Stack(h, hp, s, n), Nested(h, s, n), Elems(s, n) \subseteq Framed(f),
           NEW g, NEW X, Spares(h, g, X), \A p \in Elems(s, n) : p - 1 \in X
    PROVE  SameList(h, g, hp, s, n)
<1>1. n \in Nat
  BY DEF Stack
<1>2. \A p \in Elems(s, n) : g.cell[p] = h.cell[p] /\ m_next(g, p) = m_next(h, p) /\ p \in Cell
  <2> TAKE p \in Elems(s, n)
  <2>1. /\ Good(h, Headers(DOMAIN f)) /\ p - 1 \in Headers(DOMAIN f)
        /\ InUse(h, p, f[p], d) /\ p - 1 \in X /\ f[p].owner # NoFrame
    BY DEF Holds, Headers, Framed
  <2>2. SameBlock(h, g, p, f[p]) /\ p \in Cell
    BY <2>1, BlockSpared
  <2> QED
    BY <2>1, <2>2 DEF SameBlock
<1>3. Stack(g, hp, s, n)
  BY <1>2, StackSame
<1>4. Nested(g, s, n)
  <2> SUFFICES ASSUME NEW i \in 2 .. n PROVE g.cell[s[i - 1]] <= g.cell[s[i]]
    BY DEF Nested
  <2>1. i \in 1 .. n /\ i - 1 \in 1 .. n
    BY <1>1
  <2>2. s[i] \in Elems(s, n) /\ s[i - 1] \in Elems(s, n)
    BY <2>1 DEF Elems
  <2>3. h.cell[s[i - 1]] <= h.cell[s[i]]
    BY DEF Nested
  <2> QED
    BY <1>2, <2>2, <2>3
<1> QED
  BY <1>2, <1>3, <1>4 DEF SameList

(* And alloca's blocks are still listed.                                   *)
LEMMA ListedSpared ==
    ASSUME MallocAssumption, NEW h, NEW f, NEW d, Holds(h, f, d), NEW hp, Listed(h, f, hp),
           NEW g, NEW X, Spares(h, g, X), \A p \in Framed(f) : p - 1 \in X,
           NEW k, Framed(k) = Framed(f)
    PROVE  Listed(g, k, hp)
<1>1. PICK s, n : Frames(h, f, hp, s, n)
  BY DEF Listed
<1>2. Stack(h, hp, s, n) /\ Elems(s, n) = Framed(f) /\ Nested(h, s, n)
  BY <1>1 DEF Frames
<1>3. SameList(h, g, hp, s, n)
  BY <1>2, ListSpared
<1>4. Frames(g, k, hp, s, n)
  BY <1>2, <1>3 DEF Frames, SameList
<1> QED
  BY <1>4 DEF Listed

(* A caller writes in the cells of a block that are its own.               *)
Writes(h, g, b) ==
    /\ g \in Heaps /\ g.brk = h.brk /\ g.freed = h.freed /\ g.chunk = h.chunk
    /\ \A a \in Cell : a \notin b + 1 .. b + m_size(h, b) - 1 => g.cell[a] = h.cell[a]

(* Which the allocator's own state does not notice.                        *)
LEMMA WriteGood ==
    ASSUME MallocAssumption, NEW h, NEW B, Good(h, B), NEW b \in B, NEW g, Writes(h, g, b)
    PROVE  Good(g, B) /\ Spares(h, g, B \ {b}) /\ m_size(g, b) = m_size(h, b)
<1>1. PICK s, n, C : Managed(h, B, s, n, C)
  BY DEF Good
<1> DEFINE O == B \cup Elems(s, n)
           X == O \cup C
<1>2. /\ Stack(h, h.freed, s, n) /\ Elems(s, n) \cap B = {} /\ Cycle(h, C)
      /\ Arranged(h, O, C, {}) /\ h \in Heaps /\ Laid(h, X) /\ O \cap C = {}
  BY <1>1 DEF Managed, Arranged
<1>3. /\ b \in X /\ B \in SUBSET X /\ Elems(s, n) \subseteq X /\ C \subseteq X
      /\ b \notin Elems(s, n) /\ b \notin C
  BY <1>2
<1>4. /\ b \in Nat /\ m_size(h, b) \in Nat /\ b \in Cell /\ m_size(h, b) >= 2
  <2> HIDE DEF X
  <2> QED
    BY <1>2, <1>3, LaidFacts
<1>5. m_size(g, b) = m_size(h, b)
  <2>1. b \notin b + 1 .. b + m_size(h, b) - 1
    BY <1>4
  <2> QED
    BY <1>4, <2>1 DEF Writes, m_size
<1>6. Unaltered(h, g, X \ {b})
  <2> SUFFICES ASSUME NEW c \in X, c # b
               PROVE  /\ \A a \in c .. c + m_size(h, c) - 1 : g.cell[a] = h.cell[a]
                      /\ m_size(g, c) = m_size(h, c) /\ m_next(g, c) = m_next(h, c)
    BY DEF Unaltered, Untouched, Sizes
  <2>1. /\ c \in Nat /\ c \in Cell /\ c + 1 \in Cell /\ m_size(h, c) \in Nat /\ m_size(h, c) >= 2
        /\ c + m_size(h, c) <= b \/ b + m_size(h, b) <= c
        /\ c + m_size(h, c) <= h.brk
    <3> HIDE DEF X
    <3>1. c + m_size(h, c) <= h.brk
      BY <1>2 DEF Laid
    <3>2. c + m_size(h, c) <= b \/ b + m_size(h, b) <= c
      BY <1>2, <1>3, LaidFacts
    <3> QED
      BY <1>2, <3>1, <3>2, LaidFacts
  <2>2. \A a \in c .. c + m_size(h, c) - 1 : a \in Cell /\ a \notin b + 1 .. b + m_size(h, b) - 1
    <3>1. h.brk \in Base .. Limit
      BY <1>2 DEF Heaps
    <3> QED
      BY <1>4, <2>1, <3>1 DEF Cell, MallocAssumption
  <2>3. c \in c .. c + m_size(h, c) - 1 /\ c + 1 \in c .. c + m_size(h, c) - 1
    BY <2>1
  <2> QED
    BY <2>2, <2>3 DEF m_size, m_next, Writes
<1>7. Sizes(h, g, X)
  BY <1>5, <1>6 DEF Unaltered, Sizes
<1>8. /\ \A c \in C : m_size(g, c) = m_size(h, c) /\ m_next(g, c) = m_next(h, c)
      /\ \A x \in Elems(s, n) : m_next(g, x) = m_next(h, x)
  BY <1>3, <1>6 DEF Unaltered, Sizes
<1>9. Arranged(g, O, C, {})
  <2>1. Cycle(g, C)
    BY <1>2, <1>8, CycleSame
  <2>2. Laid(g, X)
    <3> HIDE DEF X
    <3> QED
      BY <1>2, <1>7, LaidSame DEF Writes
  <2> HIDE DEF O
  <2> QED
    BY <1>2, <1>8, <2>1, <2>2 DEF Arranged, Writes
<1>10. Stack(g, g.freed, s, n)
  <2>1. g.freed = h.freed
    BY DEF Writes
  <2> QED
    BY <1>2, <1>8, <2>1, StackSame
<1>11. Managed(g, B, s, n, C)
  BY <1>2, <1>9, <1>10 DEF Managed
<1>12. Spares(h, g, B \ {b})
  <2>1. Spares(h, g, X \ {b})
    BY <1>6 DEF Spares, Writes
  <2>2. B \ {b} \in SUBSET (X \ {b})
    BY <1>3
  <2> HIDE DEF X
  <2> QED
    BY <2>1, <2>2, SparesFewer
<1> QED
  BY <1>5, <1>11, <1>12 DEF Good

(* Filling a set of cells, cell by cell.                                   *)
LEMMA FillFacts ==
    ASSUME MallocAssumption, NEW h \in Heaps, NEW cells, NEW data \in {0, UserData}
    PROVE  LET g == Fill(h, cells, data) IN
           /\ g \in Heaps /\ g.brk = h.brk /\ g.freed = h.freed /\ g.chunk = h.chunk
           /\ \A a \in Cell : g.cell[a] = IF a \in cells THEN data ELSE h.cell[a]
<1>1. h.cell \in [Cell -> Nat] /\ data \in Nat
  BY DEF Heaps, UserData, MallocAssumption
<1> DEFINE c == [a \in DOMAIN h.cell |-> IF a \in cells THEN data ELSE h.cell[a]]
<1>2. c \in [Cell -> Nat] /\ \A a \in Cell : c[a] = IF a \in cells THEN data ELSE h.cell[a]
  BY <1>1
<1>3. Fill(h, cells, data) = [h EXCEPT !.cell = c]
  BY DEF Fill
<1> HIDE DEF c
<1> QED
  BY <1>2, <1>3 DEF Heaps

(* The block just given is filled.                                         *)
Filled(h, g, B, b, cells, data) ==
    /\ Good(g, B) /\ Spares(h, g, B \ {b}) /\ m_size(g, b) = m_size(h, b)
    /\ \A a \in Cell : g.cell[a] = IF a \in cells THEN data ELSE h.cell[a]

(* Filling cells of a block of one's own.                                  *)
LEMMA FillGood ==
    ASSUME MallocAssumption, NEW h, NEW B, Good(h, B), NEW b \in B, NEW data \in {0, UserData},
           NEW cells, cells \subseteq b + 1 .. b + m_size(h, b) - 1
    PROVE  Filled(h, Fill(h, cells, data), B, b, cells, data)
<1> DEFINE g == Fill(h, cells, data)
<1>1. h \in Heaps
  BY GoodFacts
<1>2. /\ g \in Heaps /\ g.brk = h.brk /\ g.freed = h.freed /\ g.chunk = h.chunk
      /\ \A a \in Cell : g.cell[a] = IF a \in cells THEN data ELSE h.cell[a]
  BY <1>1, FillFacts
<1> HIDE DEF g
<1>3. Writes(h, g, b)
  BY <1>2 DEF Writes
<1>4. Good(g, B) /\ Spares(h, g, B \ {b}) /\ m_size(g, b) = m_size(h, b)
  BY <1>3, WriteGood
<1> QED
  BY <1>2, <1>4 DEF g, Filled
-----------------------------------------------------------------------------
-----------------------------------------------------------------------------
(* What holds between the calls.                                           *)
Sound(h, f, hp, d) == Holds(h, f, d) /\ Listed(h, f, hp)

(* What the proofs below take from it.                                     *)
LEMMA SoundFacts ==
    ASSUME NEW h, NEW f, NEW hp, NEW d, Sound(h, f, hp, d)
    PROVE  /\ Good(h, Headers(DOMAIN f)) /\ DOMAIN f \in SUBSET Nat
           /\ \A p \in Framed(f) : p - 1 \in Headers(DOMAIN f)
           /\ \A p \in DOMAIN f : InUse(h, p, f[p], d)
  BY DEF Sound, Holds, InUse, Framed, Headers

(* The blocks that are left when some are given up.                        *)
LEMMA DropFacts ==
    ASSUME NEW f, NEW S
    PROVE  /\ DOMAIN Drop(f, S) = DOMAIN f \ S
           /\ \A q \in DOMAIN f \ S : Drop(f, S)[q] = f[q]
BY DEF Drop

(* The allocator did something; the callers hold what they held.           *)
LEMMA SoundSpared ==
    ASSUME MallocAssumption, NEW h, NEW f, NEW hp, NEW d, Sound(h, f, hp, d), NEW g,
           Good(g, Headers(DOMAIN f)), Spares(h, g, Headers(DOMAIN f))
    PROVE  Sound(g, f, hp, d)
<1> DEFINE X == Headers(DOMAIN f)
<1>1. Holds(h, f, d) /\ Listed(h, f, hp) /\ \A p \in Framed(f) : p - 1 \in X
  BY SoundFacts DEF Sound
<1>2. \A p \in DOMAIN f : SameUse(f, f, X, p)
  BY DEF SameUse, Headers
<1>3. Good(g, X) /\ Spares(h, g, X)
  OBVIOUS
<1>4. Listed(g, f, hp)
  <2> HIDE DEF X
  <2> QED
    BY <1>1, <1>3, ListedSpared
<1>5. Holds(g, f, d)
  BY <1>1, <1>2, HoldsMore
<1> QED
  BY <1>4, <1>5 DEF Sound

(* One more block of a caller.                                             *)
LEMMA SoundHold ==
    ASSUME MallocAssumption, NEW h, NEW f, NEW hp, NEW d, Sound(h, f, hp, d), NEW g,
           NEW p \in Nat, p \notin DOMAIN f, Good(g, Headers(DOMAIN f \cup {p})),
           Spares(h, g, Headers(DOMAIN f)), NEW r, InUse(g, p, r, d), r.owner = NoFrame
    PROVE  Sound(g, Hold(f, p, r), hp, d)
<1> DEFINE X == Headers(DOMAIN f)
           k == Hold(f, p, r)
<1>1. Holds(h, f, d) /\ Listed(h, f, hp) /\ \A q \in Framed(f) : q - 1 \in X
  BY SoundFacts DEF Sound
<1>2. DOMAIN k = DOMAIN f \cup {p} /\ k[p] = r /\ \A q \in DOMAIN f : k[q] = f[q]
  <2>1. /\ DOMAIN k = DOMAIN f \cup {p} /\ k[p] = r
        /\ \A q \in DOMAIN f \ {p} : k[q] = f[q]
    BY DEF Hold
  <2> HIDE DEF k
  <2> QED
    BY <2>1
<1>3. Framed(k) = Framed(f)
  <2> HIDE DEF k
  <2> QED
    BY <1>2 DEF Framed
<1>4. Spares(h, g, X)
  OBVIOUS
<1> HIDE DEF k
<1>5. Listed(g, k, hp)
  <2> HIDE DEF X
  <2> QED
    BY <1>1, <1>3, <1>4, ListedSpared
<1>6. \A q \in DOMAIN k : SameUse(f, k, X, q) \/ InUse(g, q, k[q], d)
  BY <1>2 DEF SameUse, Headers
<1>7. Good(g, Headers(DOMAIN k))
  BY <1>2
<1>8. Holds(g, k, d)
  <2> HIDE DEF X
  <2> QED
    BY <1>1, <1>4, <1>6, <1>7, HoldsMore
<1> QED
  BY <1>5, <1>8 DEF Sound, k

(* A block of a caller given up.                                           *)
LEMMA SoundDrop ==
    ASSUME MallocAssumption, NEW h, NEW f, NEW hp, NEW d, Sound(h, f, hp, d), NEW g,
           NEW p \in DOMAIN f, f[p].owner = NoFrame, Good(g, Headers(DOMAIN f) \ {p - 1}),
           Spares(h, g, Headers(DOMAIN f) \ {p - 1})
    PROVE  Sound(g, Drop(f, {p}), hp, d)
<1> DEFINE X == Headers(DOMAIN f) \ {p - 1}
           k == Drop(f, {p})
<1>1. Holds(h, f, d) /\ Listed(h, f, hp) /\ DOMAIN f \in SUBSET Nat
  BY SoundFacts DEF Sound
<1>2. DOMAIN k = DOMAIN f \ {p} /\ \A q \in DOMAIN f \ {p} : k[q] = f[q]
  BY DropFacts
<1>3. Framed(k) = Framed(f)
  <2> HIDE DEF k
  <2> QED
    BY <1>2 DEF Framed
<1>4. Spares(h, g, X) /\ Good(g, X)
  OBVIOUS
<1>5. X = Headers(DOMAIN f \ {p}) /\ \A q \in DOMAIN f \ {p} : q - 1 \in X
  BY <1>1, HeaderFacts DEF Headers
<1> HIDE DEF k
<1>6. \A q \in Framed(f) : q - 1 \in X
  BY <1>5 DEF Framed
<1>7. Listed(g, k, hp)
  <2> HIDE DEF X
  <2> QED
    BY <1>1, <1>3, <1>4, <1>6, ListedSpared
<1>8. \A q \in DOMAIN k : SameUse(f, k, X, q)
  <2> HIDE DEF X
  <2> QED
    BY <1>2, <1>5 DEF SameUse
<1>9. Good(g, Headers(DOMAIN k))
  <2> HIDE DEF X
  <2> QED
    BY <1>2, <1>4, <1>5
<1>10. Holds(g, k, d)
  <2> HIDE DEF X
  <2> QED
    BY <1>1, <1>4, <1>8, <1>9, HoldsMore
<1> QED
  BY <1>7, <1>10 DEF Sound, k

(* A block given is outside the ones held.                                 *)
Given(h, f, g, p, req) ==
    LET b == p - 1
        m == m_size(g, b)
        X == Headers(DOMAIN f) IN
    /\ p \in Nat /\ p \notin DOMAIN f /\ b \notin X
    /\ Headers(DOMAIN f \cup {p}) = X \cup {b}
    /\ Good(g, X \cup {b}) /\ Spares(h, g, X)
    /\ m \in Nat /\ b \in Nat /\ MemSize * m >= MemSize + req
    /\ b + m <= Limit /\ p \in Cell

(* It has room, and is one block more.                                     *)
LEMMA GivenFacts ==
    ASSUME MallocAssumption, NEW h, NEW f, NEW hp, NEW d, Sound(h, f, hp, d), NEW req \in Nat,
           NEW got, Gives(h, got, Headers(DOMAIN f), req), got.p # NULL
    PROVE  Given(h, f, got.h, got.p, req)
<1> DEFINE X == Headers(DOMAIN f)
           b == got.p - 1
           g == got.h
<1>1. /\ got.p \in Nat /\ b \notin X /\ Good(g, X \cup {b}) /\ Spares(h, g, X)
      /\ MemSize * m_size(g, b) >= MemSize + req
  BY DEF Gives
<1>2. DOMAIN f \in SUBSET Nat
  BY SoundFacts
<1>3. Headers(DOMAIN f \cup {got.p}) = X \cup {b} /\ got.p \notin DOMAIN f
  BY <1>1, <1>2, HeaderFacts
<1>4. /\ m_size(g, b) \in Nat /\ b \in Nat /\ g \in Heaps /\ b + 1 \in Cell
      /\ b + m_size(g, b) <= g.brk
  <2>1. b \in X \cup {b}
    OBVIOUS
  <2> HIDE DEF X, b, g
  <2> QED
    BY <1>1, <2>1, GoodFacts
<1>5. b + m_size(g, b) <= Limit
  <2>1. g.brk \in Base .. Limit
    BY <1>4 DEF Heaps
  <2> QED
    BY <1>4, <2>1 DEF MallocAssumption
<1>6. got.p \in Cell
  BY <1>1, <1>4
<1> HIDE DEF b, g, X
<1>7. Given(h, f, g, got.p, req)
  BY <1>1, <1>3, <1>4, <1>5, <1>6 DEF Given, b, X
<1> QED
  BY <1>7 DEF g

(* The caller fills its new block.                                         *)
LEMMA SoundWritten ==
    ASSUME MallocAssumption, NEW h, NEW f, NEW hp, NEW d \in Nat, Sound(h, f, hp, d),
           NEW req \in Nat,
           NEW got, Gives(h, got, Headers(DOMAIN f), req), got.p # NULL
    PROVE  /\ Sound(Fill(got.h, UserCells(got.h, got.p), UserData),
                    Hold(f, got.p, Owned(req, NoFrame, UserData)), hp, d)
           /\ Sizes(h, Fill(got.h, UserCells(got.h, got.p), UserData), Headers(DOMAIN f))
<1> DEFINE X == Headers(DOMAIN f)
           b == got.p - 1
           p == got.p
           u == got.h
           m == m_size(u, b)
           cells == UserCells(u, p)
           g == Fill(u, cells, UserData)
           r == Owned(req, NoFrame, UserData)
<1>1. /\ p \in Nat /\ p \notin DOMAIN f /\ b \notin X
      /\ Headers(DOMAIN f \cup {p}) = X \cup {b}
      /\ Good(u, X \cup {b}) /\ Spares(h, u, X)
      /\ m \in Nat /\ b \in Nat /\ MemSize * m >= MemSize + req
      /\ b + m <= Limit /\ p \in Cell
  <2>1. Given(h, f, u, p, req)
    BY GivenFacts
  <2> HIDE DEF u, p
  <2> QED
    BY <2>1 DEF Given, p, u
<1>2. cells = b + 1 .. b + m - 1 /\ p = b + 1
  <2>1. cells = p .. p + m - 2
    BY DEF UserCells
  <2>2. p = b + 1
    BY <1>1
  <2> HIDE DEF cells, b, m, p
  <2>3. p + m - 2 = b + m - 1
    BY <1>1, <2>2
  <2> QED
    BY <2>1, <2>2, <2>3
<1> HIDE DEF b, u, p, X, m, cells
<1>3. /\ Good(g, X \cup {b}) /\ Spares(u, g, X) /\ m_size(g, b) = m
      /\ \A a \in Cell : g.cell[a] = IF a \in cells THEN UserData ELSE u.cell[a]
  <2>1. b \in X \cup {b} /\ (X \cup {b}) \ {b} = X
    BY <1>1
  <2>2. /\ Good(g, X \cup {b}) /\ Spares(u, g, (X \cup {b}) \ {b}) /\ m_size(g, b) = m_size(u, b)
        /\ \A a \in Cell : g.cell[a] = IF a \in cells THEN UserData ELSE u.cell[a]
    <3> DEFINE Y == X \cup {b}
    <3>1. Good(u, Y) /\ b \in Y /\ cells \subseteq b + 1 .. b + m_size(u, b) - 1
      BY <1>1, <1>2 DEF m
    <3> HIDE DEF Y
    <3>2. Filled(u, g, Y, b, cells, UserData)
      BY <3>1, FillGood
    <3> HIDE DEF g
    <3> QED
      BY <3>2 DEF Filled, Y
  <2> QED
    BY <2>1, <2>2 DEF m
<1> HIDE DEF g
<1>4. Spares(h, g, X)
  BY <1>1, <1>3, SparesMore
<1>5. InUse(g, p, r, d)
  <2>1. r.req = req /\ r.owner = NoFrame /\ r.data = UserData /\ r \in Record(d)
    BY DEF Owned, Record
  <2> HIDE DEF r
  <2>2. Room(g, p, r)
    BY <1>1, <1>2, <1>3, <2>1 DEF Room
  <2>3. Contents(g, p, r)
    <3> SUFFICES ASSUME NEW i \in 0 .. (req - 1) \div MemSize
                 PROVE  g.cell[p + i] = UserData
      BY <2>1 DEF Contents
    <3>1. i + 2 <= m /\ i \in Nat
      <4>1. \A j \in 0 .. (req - 1) \div MemSize : j + 2 <= m
        BY <1>1, AskedFacts
      <4> QED
        BY <4>1
    <3>2. p + i \in cells /\ p + i \in Cell
      BY <1>1, <1>2, <3>1 DEF Cell, MallocAssumption
    <3> QED
      BY <1>3, <3>2
  <2>4. Frame(g, p, r)
    BY <2>1 DEF Frame
  <2> QED
    BY <1>1, <2>1, <2>2, <2>3, <2>4 DEF InUse
<1>6. r.owner = NoFrame
  BY DEF Owned
<1> HIDE DEF r
<1>7. /\ Sound(h, f, hp, d) /\ p \in Nat /\ p \notin DOMAIN f
      /\ Good(g, Headers(DOMAIN f \cup {p})) /\ Spares(h, g, Headers(DOMAIN f))
  BY <1>1, <1>3, <1>4 DEF X
<1>8. Sound(g, Hold(f, p, r), hp, d)
  BY <1>5, <1>6, <1>7, SoundHold
<1>9. Sizes(h, g, Headers(DOMAIN f))
  BY <1>7, SparesSizes
<1> QED
  BY <1>8, <1>9 DEF g, r, p, u, cells

(* calloc clears the whole of what was asked for.                          *)
LEMMA CellsForFacts ==
    ASSUME MallocAssumption, NEW size, Rounds(size), size # 0, NEW m \in Nat,
           MemSize * m >= MemSize + size
    PROVE  /\ CellsFor(size) \in Nat /\ CellsFor(size) <= m
           /\ \A i \in 0 .. (size - 1) \div MemSize : i + 2 <= CellsFor(size)
<1> DEFINE x == size + 2 * MemSize - 1
           w == 2 * MaxInt + 2
           n == x \div MemSize
<1>1. size \in Nat /\ MemSize \in Nat \ {0} /\ x \in Nat /\ w \in Nat \ {0} /\ x < w
  BY DEF Rounds, MallocAssumption
<1>2. CellsFor(size) = n
  <2> HIDE DEF x, w
  <2>1. x % w = x
    BY <1>1
  <2> QED
    BY <2>1 DEF CellsFor, Word, x, w
<1>3. n \in Nat /\ MemSize * n <= x /\ x < MemSize * n + MemSize
  <2> HIDE DEF x
  <2> QED
    BY <1>1, DivFacts
<1>4. n >= 2 /\ MemSize * n >= MemSize + size
  BY <1>1, CellsFacts
<1> HIDE DEF n
<1>5. n <= m
  <2> SUFFICES ASSUME m + 1 <= n PROVE FALSE
    BY <1>3
  <2>1. MemSize * (m + 1) <= MemSize * n
    BY <1>1, <1>3, Times
  <2>2. MemSize * (m + 1) = MemSize * m + MemSize
    BY <1>1
  <2> DEFINE y == MemSize * n
             z == MemSize * m
  <2>3. y \in Nat /\ z \in Nat
    BY <1>1, <1>3
  <2> HIDE DEF y, z
  <2>4. z + MemSize <= y /\ y <= x /\ z >= MemSize + size
    BY <1>3, <2>1, <2>2 DEF y, z
  <2> QED
    BY <1>1, <2>3, <2>4
<1>6. \A i \in 0 .. (size - 1) \div MemSize : i + 2 <= n
  BY <1>1, <1>3, <1>4, AskedFacts
<1> QED
  BY <1>2, <1>3, <1>5, <1>6

(* calloc's caller finds zeros, and leaves them.                           *)
LEMMA SoundCleared ==
    ASSUME MallocAssumption, NEW h, NEW f, NEW hp, NEW d \in Nat, Sound(h, f, hp, d),
           NEW req, Rounds(req), req # 0,
           NEW got, Gives(h, got, Headers(DOMAIN f), req), got.p # NULL
    PROVE  /\ Sound(Fill(got.h, got.p .. got.p + CellsFor(req) - 2, 0),
                    Hold(f, got.p, Owned(req, NoFrame, 0)), hp, d)
           /\ Sizes(h, Fill(got.h, got.p .. got.p + CellsFor(req) - 2, 0), Headers(DOMAIN f))
<1> DEFINE X == Headers(DOMAIN f)
           b == got.p - 1
           p == got.p
           u == got.h
           m == m_size(u, b)
           c == CellsFor(req)
           cells == p .. p + c - 2
           g == Fill(u, cells, 0)
           r == Owned(req, NoFrame, 0)
<1>0. req \in Nat
  BY DEF Rounds
<1>1. /\ p \in Nat /\ p \notin DOMAIN f /\ b \notin X
      /\ Headers(DOMAIN f \cup {p}) = X \cup {b}
      /\ Good(u, X \cup {b}) /\ Spares(h, u, X)
      /\ m \in Nat /\ b \in Nat /\ MemSize * m >= MemSize + req
      /\ b + m <= Limit /\ p \in Cell
  <2>1. Given(h, f, u, p, req)
    BY <1>0, GivenFacts
  <2> HIDE DEF u, p
  <2> QED
    BY <2>1 DEF Given, p, u
<1>2. c \in Nat /\ c <= m /\ \A i \in 0 .. (req - 1) \div MemSize : i + 2 <= c
  <2> HIDE DEF m
  <2> QED
    BY <1>1, CellsForFacts
<1> HIDE DEF c
<1>3. cells \subseteq b + 1 .. b + m - 1 /\ p = b + 1
  <2> HIDE DEF m
  <2> QED
    BY <1>1, <1>2
<1>4. \A i \in 0 .. (req - 1) \div MemSize : p + i \in cells
  BY <1>1, <1>2
<1> HIDE DEF b, u, p, X, m, cells
<1>5. /\ Good(g, X \cup {b}) /\ Spares(u, g, X) /\ m_size(g, b) = m
      /\ \A a \in Cell : g.cell[a] = IF a \in cells THEN 0 ELSE u.cell[a]
  <2>1. b \in X \cup {b} /\ (X \cup {b}) \ {b} = X
    BY <1>1
  <2>2. /\ Good(g, X \cup {b}) /\ Spares(u, g, (X \cup {b}) \ {b}) /\ m_size(g, b) = m_size(u, b)
        /\ \A a \in Cell : g.cell[a] = IF a \in cells THEN 0 ELSE u.cell[a]
    <3> DEFINE Y == X \cup {b}
    <3>1. Good(u, Y) /\ b \in Y /\ cells \subseteq b + 1 .. b + m_size(u, b) - 1
      BY <1>1, <1>3 DEF m
    <3> HIDE DEF Y
    <3>2. Filled(u, g, Y, b, cells, 0)
      BY <3>1, FillGood
    <3> HIDE DEF g
    <3> QED
      BY <3>2 DEF Filled, Y
  <2> QED
    BY <2>1, <2>2 DEF m
<1> HIDE DEF g
<1>6. Spares(h, g, X)
  BY <1>1, <1>5, SparesMore
<1>7. InUse(g, p, r, d)
  <2>1. r.req = req /\ r.owner = NoFrame /\ r.data = 0 /\ r \in Record(d)
    BY <1>0 DEF Owned, Record
  <2> HIDE DEF r
  <2>2. Room(g, p, r)
    BY <1>1, <1>3, <1>5, <2>1 DEF Room
  <2>3. Contents(g, p, r)
    <3> SUFFICES ASSUME NEW i \in 0 .. (req - 1) \div MemSize
                 PROVE  g.cell[p + i] = 0
      BY <2>1 DEF Contents
    <3>1. p + i \in cells
      BY <1>4
    <3>2. p + i \in Cell
      BY <1>1, <1>3, <3>1 DEF Cell, MallocAssumption
    <3> QED
      BY <1>5, <3>1, <3>2
  <2>4. Frame(g, p, r)
    BY <2>1 DEF Frame
  <2> QED
    BY <1>1, <2>1, <2>2, <2>3, <2>4 DEF InUse
<1>8. r.owner = NoFrame
  BY DEF Owned
<1> HIDE DEF r
<1>9. /\ Sound(h, f, hp, d) /\ p \in Nat /\ p \notin DOMAIN f
      /\ Good(g, Headers(DOMAIN f \cup {p})) /\ Spares(h, g, Headers(DOMAIN f))
  BY <1>1, <1>5, <1>6 DEF X
<1>10. Sound(g, Hold(f, p, r), hp, d)
  BY <1>7, <1>8, <1>9, SoundHold
<1>11. Sizes(h, g, Headers(DOMAIN f))
  BY <1>9, SparesSizes
<1> QED
  BY <1>10, <1>11 DEF g, r, p, u, cells, c

(* A caller's block for another, which may be the same.                    *)
LEMMA SoundExchanged ==
    ASSUME MallocAssumption, NEW h, NEW f, NEW hp, NEW d, Sound(h, f, hp, d), NEW g,
           NEW p \in DOMAIN f, f[p].owner = NoFrame, NEW q \in Nat, q \notin DOMAIN f \ {p},
           Good(g, Headers((DOMAIN f \ {p}) \cup {q})),
           Spares(h, g, Headers(DOMAIN f) \ {p - 1}), NEW r, InUse(g, q, r, d), r.owner = NoFrame
    PROVE  Sound(g, Hold(Drop(f, {p}), q, r), hp, d)
<1> DEFINE X == Headers(DOMAIN f) \ {p - 1}
           k == Hold(Drop(f, {p}), q, r)
<1>1. Holds(h, f, d) /\ Listed(h, f, hp) /\ DOMAIN f \in SUBSET Nat
  BY SoundFacts DEF Sound
<1>2. DOMAIN k = (DOMAIN f \ {p}) \cup {q} /\ k[q] = r /\ \A a \in DOMAIN f \ {p} : k[a] = f[a]
  <2> DEFINE e == Drop(f, {p})
  <2>1. DOMAIN e = DOMAIN f \ {p} /\ \A a \in DOMAIN f \ {p} : e[a] = f[a]
    BY DEF Drop
  <2> HIDE DEF e
  <2>2. k = Hold(e, q, r)
    BY DEF e
  <2> HIDE DEF k
  <2>3. DOMAIN k = DOMAIN e \cup {q} /\ k[q] = r /\ \A a \in DOMAIN e \ {q} : k[a] = e[a]
    BY <2>2 DEF Hold
  <2> QED
    BY <2>1, <2>3
<1> HIDE DEF k
<1>3. Framed(k) = Framed(f)
  BY <1>2 DEF Framed
<1>4. Spares(h, g, X) /\ Good(g, Headers(DOMAIN k))
  BY <1>2
<1>5. \A a \in DOMAIN f \ {p} : a - 1 \in X
  BY <1>1 DEF Headers
<1> HIDE DEF X
<1>6. \A a \in Framed(f) : a - 1 \in X
  BY <1>5 DEF Framed
<1>7. Listed(g, k, hp)
  BY <1>1, <1>3, <1>4, <1>6, ListedSpared
<1>8. \A a \in DOMAIN k : SameUse(f, k, X, a) \/ InUse(g, a, k[a], d)
  BY <1>2, <1>5 DEF SameUse
<1>9. Holds(g, k, d)
  BY <1>1, <1>4, <1>8, HoldsMore
<1> QED
  BY <1>7, <1>9 DEF Sound, k

(* What a block of p holds of the old block's contents.                    *)
KeptCells(req) == (req + MemSize - 1) \div MemSize

(* They are the cells of the old request, and the new block has them.      *)
LEMMA KeptFacts ==
    ASSUME MallocAssumption, NEW req \in Nat
    PROVE  /\ KeptCells(req) \in Nat
           /\ \A i \in Nat : i + 1 <= KeptCells(req) => i \in 0 .. (req - 1) \div MemSize
           /\ \A m \in Nat : MemSize * m >= MemSize + req => KeptCells(req) + 1 <= m
<1> DEFINE x == req + MemSize - 1
           k == x \div MemSize
           l == (req - 1) \div MemSize
<1>1. MemSize \in Nat \ {0} /\ x \in Nat /\ req - 1 \in Int /\ x = (req - 1) + MemSize
  BY DEF MallocAssumption
<1>2. k \in Nat /\ MemSize * k <= x /\ x < MemSize * k + MemSize
  <2> HIDE DEF x
  <2> QED
    BY <1>1, DivFacts
<1>3. l \in Int /\ MemSize * l <= req - 1 /\ req - 1 < MemSize * l + MemSize
  BY <1>1, DivInt
<1>4. k <= l + 1
  <2> HIDE DEF k, l
  <2> SUFFICES ASSUME l + 2 <= k PROVE FALSE
    BY <1>2, <1>3
  <2>1. MemSize * (l + 2) <= MemSize * k
    <3>1. l + 2 \in Int /\ k \in Int
      BY <1>2, <1>3
    <3> QED
      BY <1>1, <3>1, Times
  <2>2. MemSize * (l + 2) = MemSize * l + MemSize + MemSize
    BY <1>1, <1>3
  <2> DEFINE y == MemSize * l
             z == MemSize * k
  <2>3. y \in Int /\ z \in Int
    BY <1>1, <1>2, <1>3
  <2> HIDE DEF y, z
  <2>4. y + MemSize + MemSize <= z /\ z <= (req - 1) + MemSize /\ req - 1 < y + MemSize
    BY <1>1, <1>2, <1>3, <2>1, <2>2 DEF y, z
  <2> QED
    BY <1>1, <2>3, <2>4
<1>5. KeptCells(req) = k
  BY DEF KeptCells
<1>6. \A i \in Nat : i + 1 <= k => i \in 0 .. l
  <2> HIDE DEF k, l
  <2> QED
    BY <1>2, <1>3, <1>4
<1>7. ASSUME NEW m \in Nat, MemSize * m >= MemSize + req
      PROVE  k + 1 <= m
  <2> HIDE DEF k
  <2> SUFFICES ASSUME m <= k PROVE FALSE
    BY <1>2
  <2>1. MemSize * m <= MemSize * k
    BY <1>1, <1>2, Times
  <2> DEFINE y == MemSize * m
             z == MemSize * k
  <2>2. y \in Int /\ z \in Int
    BY <1>1, <1>2
  <2> HIDE DEF y, z
  <2>3. y <= z /\ z <= (req - 1) + MemSize /\ y >= MemSize + req
    BY <1>1, <1>2, <1>7, <2>1 DEF y, z
  <2> QED
    BY <1>1, <2>2, <2>3
<1> HIDE DEF k, l
<1>8. /\ k \in Nat /\ \A i \in Nat : i + 1 <= k => i \in 0 .. l
      /\ \A m \in Nat : MemSize * m >= MemSize + req => k + 1 <= m
  BY <1>2, <1>6, <1>7
<1> QED
  BY <1>5, <1>8 DEF l

(* The part of a block that was copied stands, the rest is filled.         *)
Added(h, q, kept) == UserCells(h, q) \ (q .. q + kept - 1)
Refilled(h, g, B, q, r, d) ==
    /\ Good(g, B) /\ Spares(h, g, B \ {q - 1}) /\ InUse(g, q, r, d)
    /\ m_size(g, q - 1) = m_size(h, q - 1)

(* Then the whole of the block holds the caller's data.                    *)
LEMMA RefillGood ==
    ASSUME MallocAssumption, NEW h, NEW B, Good(h, B), NEW q \in Nat, q - 1 \in B,
           NEW data \in {0, UserData}, NEW req \in Nat, NEW kept \in Nat, NEW d,
           MemSize * m_size(h, q - 1) >= MemSize + req,
           \A i \in Nat : i + 1 <= kept => h.cell[q + i] = data
    PROVE  Refilled(h, Fill(h, Added(h, q, kept), data), B, q, Owned(req, NoFrame, data), d)
<1> DEFINE b == q - 1
           m == m_size(h, b)
           cells == Added(h, q, kept)
           g == Fill(h, cells, data)
           r == Owned(req, NoFrame, data)
<1>1. /\ b \in Nat /\ m \in Nat /\ b + m <= Limit /\ q = b + 1 /\ q \in Cell
      /\ MemSize * m >= MemSize + req /\ b \in B
  <2>1. b \in B
    OBVIOUS
  <2> HIDE DEF b
  <2>2. /\ b \in Nat /\ m \in Nat /\ b + 1 \in Cell
        /\ b + m <= h.brk /\ h \in Heaps
    BY <2>1, GoodFacts
  <2>3. h.brk \in Base .. Limit
    BY <2>2 DEF Heaps
  <2>4. q = b + 1
    BY DEF b
  <2>5. MemSize * m >= MemSize + req
    BY DEF b
  <2> HIDE DEF m
  <2> QED
    BY <2>1, <2>2, <2>3, <2>4, <2>5 DEF MallocAssumption
<1>2. cells = (b + 1 .. b + m - 1) \ (q .. q + kept - 1)
  <2>1. cells = (q .. q + m - 2) \ (q .. q + kept - 1)
    BY DEF Added, UserCells
  <2> HIDE DEF cells, b, m
  <2> QED
    BY <1>1, <2>1
<1> HIDE DEF cells
<1>3. Filled(h, g, B, b, cells, data)
  <2>1. cells \subseteq b + 1 .. b + m_size(h, b) - 1
    BY <1>2
  <2> HIDE DEF b
  <2> QED
    BY <1>1, <2>1, FillGood
<1> HIDE DEF g, b
<1>4. /\ Good(g, B) /\ Spares(h, g, B \ {b}) /\ m_size(g, b) = m
      /\ \A a \in Cell : g.cell[a] = IF a \in cells THEN data ELSE h.cell[a]
  BY <1>3 DEF Filled
<1> HIDE DEF m
<1>5. InUse(g, q, r, d)
  <2>1. r.req = req /\ r.owner = NoFrame /\ r.data = data /\ r \in Record(d)
    BY DEF Owned, Record
  <2> HIDE DEF r
  <2>2. Room(g, q, r)
    BY <1>1, <1>4, <2>1 DEF Room, b
  <2>3. Contents(g, q, r)
    <3> SUFFICES ASSUME NEW i \in 0 .. (req - 1) \div MemSize
                 PROVE  g.cell[q + i] = data
      BY <2>1 DEF Contents
    <3>1. i + 2 <= m /\ i \in Nat
      <4>1. \A j \in 0 .. (req - 1) \div MemSize : j + 2 <= m
        BY <1>1, AskedFacts
      <4> QED
        BY <4>1
    <3>2. q + i \in Cell
      BY <1>1, <3>1 DEF Cell, MallocAssumption
    <3>3. q + i \notin cells => i + 1 <= kept
      BY <1>1, <1>2, <3>1
    <3> QED
      BY <1>4, <3>1, <3>2, <3>3
  <2>4. Frame(g, q, r)
    BY <2>1 DEF Frame
  <2> QED
    BY <2>1, <2>2, <2>3, <2>4 DEF InUse
<1>6. Refilled(h, g, B, q, r, d)
  BY <1>4, <1>5 DEF Refilled, b, m
<1> QED
  BY <1>6 DEF g, cells

(* realloc to a size the block has room for.                               *)
LEMMA SoundStays ==
    ASSUME MallocAssumption, NEW h, NEW f, NEW hp, NEW d, Sound(h, f, hp, d),
           NEW p \in DOMAIN f, f[p].owner = NoFrame, NEW req \in Nat,
           req <= (m_size(h, p - 1) - 1) * MemSize
    PROVE  /\ Sound(Fill(h, Added(h, p, KeptCells(f[p].req)), f[p].data),
                    Hold(Drop(f, {p}), p, Owned(req, NoFrame, f[p].data)), hp, d)
           /\ Sizes(h, Fill(h, Added(h, p, KeptCells(f[p].req)), f[p].data), Headers(DOMAIN f))
<1> DEFINE kept == KeptCells(f[p].req)
           data == f[p].data
           X == Headers(DOMAIN f)
           g == Fill(h, Added(h, p, kept), data)
           r == Owned(req, NoFrame, data)
           m == m_size(h, p - 1)
           b == p - 1
<1>1. /\ Good(h, X) /\ DOMAIN f \in SUBSET Nat /\ InUse(h, p, f[p], d) /\ p - 1 \in X
  BY SoundFacts DEF Headers
<1>2. p \in Nat /\ f[p] \in Record(d) /\ Contents(h, p, f[p])
  BY <1>1 DEF InUse
<1>3. f[p].req \in Nat /\ data \in {0, UserData}
  BY <1>2 DEF Record
<1>4. kept \in Nat /\ \A i \in Nat : i + 1 <= kept => h.cell[p + i] = data
  <2>1. kept \in Nat /\ \A i \in Nat : i + 1 <= kept => i \in 0 .. (f[p].req - 1) \div MemSize
    BY <1>3, KeptFacts
  <2> QED
    BY <1>2, <2>1 DEF Contents
<1>5. MemSize * m >= MemSize + req
  <2>1. m \in Nat
    <3>1. b \in X
      BY <1>1
    <3> HIDE DEF b, X
    <3>2. m_size(h, b) \in Nat
      BY <1>1, <3>1, GoodFacts
    <3> QED
      BY <3>2 DEF b
  <2>2. req <= (m - 1) * MemSize
    OBVIOUS
  <2> HIDE DEF m
  <2>3. (m - 1) * MemSize = MemSize * m - MemSize /\ MemSize \in Nat /\ MemSize * m \in Nat
    BY <2>1 DEF MallocAssumption
  <2> QED
    BY <2>2, <2>3
<1> HIDE DEF kept, data
<1>6. Refilled(h, g, X, p, r, d)
  <2>1. Good(h, X) /\ p \in Nat /\ p - 1 \in X /\ MemSize * m_size(h, p - 1) >= MemSize + req
    BY <1>1, <1>2, <1>5
  <2> HIDE DEF X
  <2> QED
    BY <1>3, <1>4, <2>1, RefillGood
<1> HIDE DEF g
<1>7. /\ Good(g, X) /\ Spares(h, g, X \ {p - 1}) /\ InUse(g, p, r, d)
      /\ m_size(g, p - 1) = m_size(h, p - 1)
  BY <1>6 DEF Refilled
<1>8. r.owner = NoFrame
  BY DEF Owned
<1> HIDE DEF r
<1>9. (DOMAIN f \ {p}) \cup {p} = DOMAIN f /\ p \notin DOMAIN f \ {p}
  OBVIOUS
<1>10. Good(g, Headers((DOMAIN f \ {p}) \cup {p})) /\ Spares(h, g, Headers(DOMAIN f) \ {p - 1})
  BY <1>7, <1>9
<1>11. Sound(g, Hold(Drop(f, {p}), p, r), hp, d)
  BY <1>2, <1>7, <1>8, <1>9, <1>10, SoundExchanged
<1>12. Sizes(h, g, X)
  <2>1. Sizes(h, g, X \ {p - 1})
    BY <1>7, SparesSizes
  <2> QED
    BY <1>7, <2>1 DEF Sizes
<1> QED
  BY <1>11, <1>12 DEF g, r, kept, data

(* realloc to a new block: the old contents are copied, the old block is   *)
(* given back.                                                             *)
Copy(u, g, p, q, old) ==
    /\ g \in Heaps /\ g.brk = u.brk /\ g.freed = u.freed /\ g.chunk = u.chunk
    /\ \A a \in Cell : g.cell[a] = IF a \in q .. q + old - 1
                                   THEN u.cell[p + (a - q)] ELSE u.cell[a]

(* The copy loop writes the new block only.                                *)
LEMMA CopiedFacts ==
    ASSUME MallocAssumption, NEW got, got.h \in Heaps, NEW p \in Nat, got.p \in Nat, NEW old \in Nat,
           \A i \in 0 .. old - 1 : p + i \in Cell
    PROVE  Copy(got.h, Copied(got, p, old), p, got.p, old)
<1> DEFINE u == got.h
           q == got.p
           c == [a \in DOMAIN u.cell |-> IF a \in q .. q + old - 1
                                         THEN u.cell[p + (a - q)] ELSE u.cell[a]]
<1>1. Copied(got, p, old) = [u EXCEPT !.cell = c]
  BY DEF Copied
<1>2. u.cell \in [Cell -> Nat]
  BY DEF Heaps
<1>3. \A a \in Cell : a \in q .. q + old - 1 => p + (a - q) \in Cell
  <2> HIDE DEF q
  <2> TAKE a \in Cell
  <2> HAVE a \in q .. q + old - 1
  <2>1. q \in Nat
    BY DEF q
  <2>2. a - q \in 0 .. old - 1
    BY <2>1
  <2> QED
    BY <2>2
<1> HIDE DEF u, q
<1>4. /\ c \in [Cell -> Nat]
      /\ \A a \in Cell : c[a] = IF a \in q .. q + old - 1 THEN u.cell[p + (a - q)] ELSE u.cell[a]
  <2>1. DOMAIN u.cell = Cell
    BY <1>2
  <2>2. \A a \in Cell : (IF a \in q .. q + old - 1 THEN u.cell[p + (a - q)] ELSE u.cell[a]) \in Nat
    BY <1>2, <1>3
  <2> QED
    BY <2>1, <2>2
<1> HIDE DEF c
<1>5. u \in Heaps
  BY DEF u
<1> DEFINE g == [u EXCEPT !.cell = c]
<1>6. g \in Heaps /\ g.brk = u.brk /\ g.freed = u.freed /\ g.chunk = u.chunk /\ g.cell = c
  BY <1>4, <1>5 DEF Heaps
<1>7. Copy(u, g, p, q, old)
  BY <1>4, <1>6 DEF Copy
<1> QED
  BY <1>1, <1>7 DEF u, q

(* Caller p's block is got.p's in w.                                       *)
Moves(h, f, hp, d, p, req, got, w) ==
    /\ Sound(w, Hold(Drop(f, {p}), got.p, Owned(req, NoFrame, f[p].data)), hp, d)
    /\ Sizes(h, w, Headers(DOMAIN f \ {p}))
    /\ m_size(w, got.p - 1) = m_size(got.h, got.p - 1)

(* The new block holds what the old one held, and the old one is free.     *)
LEMMA SoundMoved ==
    ASSUME MallocAssumption, NEW h, NEW f, NEW hp, NEW d, Sound(h, f, hp, d),
           NEW p \in DOMAIN f, f[p].owner = NoFrame, NEW req \in Nat, NEW old,
           old = m_size(h, p - 1) - 1, ~(req <= old * MemSize),
           NEW got, Gives(h, got, Headers(DOMAIN f), req), got.p # NULL,
           NEW v, v = free(Copied(got, p, old), p)
    PROVE  Moves(h, f, hp, d, p, req, got, Fill(v, Added(v, got.p, KeptCells(f[p].req)), f[p].data))
<1> DEFINE kept == KeptCells(f[p].req)
           data == f[p].data
           X == Headers(DOMAIN f)
           q == got.p
           u == got.h
           b == q - 1
           m == m_size(u, b)
           k == Copied(got, p, old)
           o == p - 1
           B == (X \cup {b}) \ {o}
           g == Fill(v, Added(v, q, kept), data)
           r == Owned(req, NoFrame, data)
<1>1. /\ Good(h, X) /\ DOMAIN f \in SUBSET Nat /\ InUse(h, p, f[p], d) /\ o \in X
  BY SoundFacts DEF Headers
<1>2. p \in Nat /\ f[p] \in Record(d) /\ Contents(h, p, f[p]) /\ Room(h, p, f[p])
  BY <1>1 DEF InUse
<1>3. f[p].req \in Nat /\ data \in {0, UserData}
  BY <1>2 DEF Record
<1>4. /\ o \in Nat /\ p = o + 1 /\ old + 1 = m_size(h, o) /\ old \in Nat /\ o + old + 1 <= Limit
      /\ o \in Cell
  <2>1. p = o + 1 /\ old = m_size(h, o) - 1
    BY <1>2
  <2> HIDE DEF o, X
  <2>2. o \in Nat /\ o \in Cell /\ m_size(h, o) \in Nat /\ m_size(h, o) >= 2 /\ o + m_size(h, o) <= h.brk /\ h \in Heaps
    BY <1>1, GoodFacts
  <2>3. h.brk \in Base .. Limit
    BY <2>2 DEF Heaps
  <2> QED
    BY <2>1, <2>2, <2>3 DEF MallocAssumption
<1>5. /\ kept \in Nat /\ kept <= old
      /\ \A i \in Nat : i + 1 <= kept => h.cell[p + i] = data
  <2>1. /\ kept \in Nat /\ \A i \in Nat : i + 1 <= kept => i \in 0 .. (f[p].req - 1) \div MemSize
        /\ \A n \in Nat : MemSize * n >= MemSize + f[p].req => kept + 1 <= n
    BY <1>3, KeptFacts
  <2>2. MemSize * m_size(h, o) >= MemSize + f[p].req
    BY <1>2 DEF Room
  <2> HIDE DEF kept, o
  <2>3. kept + 1 <= m_size(h, o)
    <3>1. m_size(h, o) \in Nat
      BY <1>4
    <3> QED
      BY <2>1, <2>2, <3>1
  <2>4. kept <= old
    BY <1>4, <2>1, <2>3
  <2>5. \A i \in Nat : i + 1 <= kept => h.cell[p + i] = data
    BY <1>2, <2>1, <1>4 DEF Contents
  <2> QED
    BY <2>1, <2>4, <2>5
<1> HIDE DEF o, kept, data
<1>6. /\ q \in Nat /\ q \notin DOMAIN f /\ b \notin X /\ q = b + 1
      /\ Headers(DOMAIN f \cup {q}) = X \cup {b}
      /\ Good(u, X \cup {b}) /\ Spares(h, u, X)
      /\ m \in Nat /\ b \in Nat /\ MemSize * m >= MemSize + req
      /\ b + m <= Limit /\ q \in Cell
  <2>1. Given(h, f, u, q, req)
    BY GivenFacts
  <2>2. q \in Nat
    BY <2>1 DEF Given
  <2>3. q = b + 1
    BY <2>2
  <2> HIDE DEF u, q, b
  <2>4. b = q - 1
    BY DEF b
  <2> HIDE DEF m
  <2>5. m = m_size(u, b)
    BY DEF m
  <2> HIDE DEF X
  <2>6. X = Headers(DOMAIN f)
    BY DEF X
  <2> QED
    BY <2>1, <2>3, <2>4, <2>5, <2>6 DEF Given
<1>7. old + 2 <= m
  <2>1. MemSize \in Nat \ {0} /\ old * MemSize = MemSize * old /\ MemSize * old \in Nat
    BY <1>4 DEF MallocAssumption
  <2> HIDE DEF m
  <2> SUFFICES ASSUME m <= old + 1 PROVE FALSE
    BY <1>4, <1>6
  <2>2. MemSize * m <= MemSize * (old + 1)
    <3>1. m \in Int /\ old + 1 \in Int
      BY <1>4, <1>6
    <3> QED
      BY <2>1, <3>1, Times
  <2>3. MemSize * (old + 1) = MemSize * old + MemSize
    BY <1>4, <2>1
  <2> DEFINE y == MemSize * m
             z == MemSize * old
  <2>4. y \in Nat /\ z \in Nat
    BY <1>4, <1>6, <2>1
  <2> HIDE DEF y, z
  <2>5. y <= z + MemSize /\ y >= MemSize + req /\ ~(req <= z)
    BY <1>6, <2>1, <2>2, <2>3 DEF y, z
  <2> QED
    BY <2>1, <2>4, <2>5
<1>8. /\ k \in Heaps /\ k.brk = u.brk /\ k.freed = u.freed /\ k.chunk = u.chunk
      /\ \A a \in Cell : k.cell[a] = IF a \in q .. q + old - 1
                                     THEN u.cell[p + (a - q)] ELSE u.cell[a]
  <2>1. got.h \in Heaps
    BY <1>6 DEF Spares
  <2>2. \A i \in 0 .. old - 1 : p + i \in Cell
    BY <1>4 DEF Cell, MallocAssumption
  <2>3. got.p \in Nat
    BY <1>6
  <2>4. Copy(u, k, p, q, old)
    BY <1>2, <1>4, <2>1, <2>2, <2>3, CopiedFacts
  <2> HIDE DEF k, u, q
  <2> QED
    BY <2>4 DEF Copy
<1> HIDE DEF k, b, u, q, m, X
<1>9. Good(k, X \cup {b}) /\ Spares(u, k, X) /\ m_size(k, b) = m
  <2>1. \A a \in Cell : a \notin b + 1 .. b + m_size(u, b) - 1 => a \notin q .. q + old - 1
    BY <1>4, <1>6, <1>7 DEF m
  <2>2. Writes(u, k, b)
    BY <1>8, <2>1 DEF Writes
  <2> DEFINE Y == X \cup {b}
  <2>3. Good(u, Y) /\ b \in Y
    BY <1>6
  <2>4. X = Y \ {b}
    BY <1>6
  <2> HIDE DEF Y
  <2>5. Good(k, Y) /\ Spares(u, k, Y \ {b}) /\ m_size(k, b) = m_size(u, b)
    BY <2>2, <2>3, WriteGood
  <2> QED
    BY <2>4, <2>5 DEF Y, m
<1>10. Spares(h, k, X)
  BY <1>6, <1>9, SparesMore
<1>11. v = FreeChunk(k, o)
  <2>1. p # NULL /\ p - 1 = o
    BY <1>4 DEF NULL
  <2> QED
    BY <2>1 DEF free, k
<1>12. /\ o \notin B /\ B \cup {o} = X \cup {b} /\ b \in B /\ b # o /\ B \ {b} = X \ {o}
       /\ X \ {o} \in SUBSET B /\ X \ {o} \in SUBSET X
  BY <1>1, <1>6
<1>13. Good(v, B) /\ Spares(k, v, B)
  <2>1. Good(k, B \cup {o}) /\ o \notin B
    BY <1>9, <1>12
  <2> HIDE DEF B
  <2> QED
    BY <1>11, <2>1, FreeFacts
<1> HIDE DEF B
<1>14. Spares(h, v, X \ {o})
  <2> DEFINE Y == X \ {o}
  <2>1. Y \in SUBSET X /\ Y \in SUBSET B
    BY <1>12
  <2> HIDE DEF Y
  <2>2. Spares(h, k, Y)
    BY <1>10, <2>1, SparesFewer
  <2>3. Spares(k, v, Y)
    BY <1>13, <2>1, SparesFewer
  <2>4. Spares(h, v, Y)
    BY <2>2, <2>3, SparesMore
  <2> QED
    BY <2>4 DEF Y
<1>15. m_size(v, b) = m
  BY <1>9, <1>12, <1>13 DEF Spares, Unaltered, Sizes
<1>16. \A i \in Nat : i + 1 <= kept => v.cell[q + i] = data
  <2> TAKE i \in Nat
  <2> HAVE i + 1 <= kept
  <2>1. h.cell[p + i] = data /\ i + 1 <= old
    BY <1>4, <1>5
  <2>2. u.cell[p + i] = h.cell[p + i]
    <3>1. p + i \in o .. o + m_size(h, o) - 1
      BY <1>4, <2>1
    <3> QED
      BY <1>1, <1>6, <3>1 DEF Spares, Unaltered, Untouched
  <2>3. k.cell[q + i] = u.cell[p + i]
    <3>1. q + i \in q .. q + old - 1 /\ p + ((q + i) - q) = p + i
      BY <1>4, <1>6, <2>1
    <3>2. q + i \in Cell
      BY <1>4, <1>6, <1>7, <2>1 DEF Cell, MallocAssumption
    <3> QED
      BY <1>8, <3>1, <3>2
  <2>4. v.cell[q + i] = k.cell[q + i]
    <3>1. q + i \in b .. b + m_size(k, b) - 1
      BY <1>4, <1>6, <1>7, <1>9, <2>1
    <3> QED
      BY <1>12, <1>13, <3>1 DEF Spares, Unaltered, Untouched
  <2> QED
    BY <2>1, <2>2, <2>3, <2>4
<1>17. Refilled(v, g, B, q, r, d)
  <2>1. Good(v, B) /\ q \in Nat /\ q - 1 \in B /\ MemSize * m_size(v, q - 1) >= MemSize + req
    <3>1. q - 1 = b
      BY <1>6
    <3> QED
      BY <1>6, <1>12, <1>13, <1>15, <3>1
  <2> QED
    BY <1>3, <1>5, <1>16, <2>1, RefillGood
<1> HIDE DEF g
<1>18. /\ Good(g, B) /\ Spares(v, g, X \ {o}) /\ InUse(g, q, r, d)
       /\ m_size(g, q - 1) = m
  <2>1. q - 1 = b
    BY <1>6
  <2> QED
    BY <1>12, <1>15, <1>17, <2>1 DEF Refilled
<1>19. r.owner = NoFrame
  BY DEF Owned
<1> HIDE DEF r
<1>20. Spares(h, g, X \ {o})
  <2> DEFINE Y == X \ {o}
  <2>1. Spares(h, v, Y) /\ Spares(v, g, Y)
    BY <1>14, <1>18
  <2> HIDE DEF Y
  <2>2. Spares(h, g, Y)
    BY <2>1, SparesMore
  <2> QED
    BY <2>2 DEF Y
<1>21. Headers((DOMAIN f \ {p}) \cup {q}) = B /\ q \notin DOMAIN f \ {p}
  <2>1. DOMAIN f \ {p} \in SUBSET Nat /\ q - 1 = b
    BY <1>1, <1>6
  <2>2. Headers(DOMAIN f \ {p}) = X \ {o}
    BY <1>1, <1>2, HeaderFacts DEF X, o
  <2>3. Headers((DOMAIN f \ {p}) \cup {q}) = Headers(DOMAIN f \ {p}) \cup {q - 1}
    BY <1>6, <2>1, HeaderFacts
  <2> QED
    BY <1>6, <1>12, <2>1, <2>2, <2>3 DEF B
<1>22. /\ Good(g, Headers((DOMAIN f \ {p}) \cup {q})) /\ Spares(h, g, Headers(DOMAIN f) \ {p - 1})
       /\ q \in Nat
  BY <1>6, <1>18, <1>20, <1>21 DEF X, o
<1>23. Sound(g, Hold(Drop(f, {p}), q, r), hp, d)
  BY <1>18, <1>19, <1>21, <1>22, SoundExchanged
<1>24. Sizes(h, g, Headers(DOMAIN f \ {p}))
  <2>1. Headers(DOMAIN f \ {p}) = X \ {o}
    BY <1>1, <1>2, HeaderFacts DEF X, o
  <2>2. Sizes(h, g, X \ {o})
    BY <1>20, SparesSizes
  <2> QED
    BY <2>1, <2>2
<1>25. m_size(g, q - 1) = m_size(u, q - 1)
  <2>1. q - 1 = b
    BY <1>6
  <2> QED
    BY <1>18, <2>1 DEF m
<1>26. Moves(h, f, hp, d, p, req, got, g)
  BY <1>23, <1>24, <1>25 DEF Moves, r, data, q, u
<1> QED
  BY <1>26 DEF g, kept, data, q
-----------------------------------------------------------------------------
(* alloca's garbage: what is deeper than the running function belongs to   *)
(* functions that have returned.                                           *)
Collecting(h, g, f, s, m) ==
    /\ g \in [h : Heaps, hp : Nat, dead : SUBSET DOMAIN f]
    /\ Holds(g.h, Drop(f, g.dead), depth)
    /\ Frames(g.h, Drop(f, g.dead), g.hp, s, m)
    /\ \A p \in g.dead : f[p].owner = DeadFrame
    /\ Sizes(h, g.h, Headers(DOMAIN f \ g.dead))
Settled(g) == g.hp = NULL \/ ~Deeper(g.h, g.hp)

(* A list that is not empty starts at one of its elements.                 *)
LEMMA StackHead ==
    ASSUME NEW h, NEW p, NEW s, NEW n, Stack(h, p, s, n)
    PROVE  p = NULL \/ (p \in Cell /\ p \in Elems(s, n))
<1>1. n # 0 => n \in 1 .. n
  BY DEF Stack
<1> QED
  BY <1>1 DEF Stack, Elems

(* One round: the head of the list goes if it is deeper. Its function has  *)
(* returned, since none that runs is deeper than the depth.                *)
LEMMA CollectOneGood ==
    ASSUME MallocAssumption, depth \in Nat, NEW h0, NEW g, NEW f, NEW s, NEW m,
           Collecting(h0, g, f, s, m),
           ~Settled(g)
    PROVE  m - 1 \in Nat /\ Collecting(h0, CollectOne(g), f, s, m - 1)
<1> DEFINE h == g.h
           hp == g.hp
           k == Drop(f, g.dead)
           X == Headers(DOMAIN k)
           b == hp - 1
           u == FreeChunk(h, b)
           next == m_next(h, hp)
           l == Drop(f, g.dead \cup {hp})
           c == CollectOne(g)
           Y == X \ {b}
<1>1. /\ g \in [h : Heaps, hp : Nat, dead : SUBSET DOMAIN f]
      /\ Holds(h, k, depth) /\ Stack(h, hp, s, m) /\ Elems(s, m) = Framed(k) /\ Nested(h, s, m)
      /\ \A p \in g.dead : f[p].owner = DeadFrame
      /\ Sizes(h0, h, Headers(DOMAIN f \ g.dead))
  BY DEF Collecting, Frames
<1>2. hp # NULL /\ Deeper(h, hp)
  BY DEF Settled
<1>3. c = [h |-> free(h, hp), hp |-> next, dead |-> g.dead \cup {hp}]
  BY <1>2 DEF CollectOne
<1>4. DOMAIN k = DOMAIN f \ g.dead /\ \A p \in DOMAIN k : k[p] = f[p]
  BY DEF Drop
<1>5. DOMAIN l = DOMAIN k \ {hp} /\ \A p \in DOMAIN l : l[p] = f[p]
  <2>1. DOMAIN l = DOMAIN f \ (g.dead \cup {hp}) /\ \A p \in DOMAIN l : l[p] = f[p]
    BY DEF Drop
  <2> HIDE DEF l, k
  <2> QED
    BY <1>4, <2>1
<1> HIDE DEF k, l, h, hp, c, next
<1>6. /\ m - 1 \in Nat /\ hp \in Elems(s, m) /\ hp \in Cell
      /\ Stack(h, next, s, m - 1) /\ Elems(s, m - 1) = Elems(s, m) \ {hp}
  <2>1. Popped(h, hp, s, m)
    BY <1>1, <1>2, StackPop
  <2> QED
    BY <2>1 DEF Popped, next
<1>7. /\ hp \in DOMAIN k /\ k[hp].owner # NoFrame /\ DOMAIN k \in SUBSET Nat
      /\ InUse(h, hp, k[hp], depth) /\ Good(h, X)
  <2>1. hp \in DOMAIN k /\ k[hp].owner # NoFrame
    BY <1>1, <1>6 DEF Framed
  <2>2. DOMAIN k \in SUBSET Nat
    BY <1>1 DEF Holds, InUse
  <2> QED
    BY <1>1, <2>1, <2>2 DEF Holds
<1>8. f[hp].owner = DeadFrame
  <2> SUFFICES ASSUME f[hp].owner # DeadFrame PROVE FALSE
    OBVIOUS
  <2>1. k[hp] = f[hp]
    BY <1>4, <1>7
  <2>2. h.cell[hp] = k[hp].owner /\ k[hp] \in Record(depth)
    BY <1>7, <2>1 DEF InUse, Frame
  <2>3. k[hp].owner \in 0 .. depth
    BY <1>7, <2>1, <2>2 DEF Record
  <2>4. h.cell[hp] > depth
    BY <1>2 DEF Deeper, m_deep
  <2> QED
    BY <2>2, <2>3, <2>4
<1>9. free(h, hp) = u
  BY <1>2 DEF free
<1>10. Headers(DOMAIN l) = Y /\ b \in X
  <2>1. DOMAIN k \in SUBSET Nat /\ hp \in Nat
    BY <1>7
  <2>2. Headers(DOMAIN k \ {hp}) = Headers(DOMAIN k) \ {hp - 1}
    BY <2>1, HeaderFacts
  <2>3. b \in X
    BY <1>7 DEF Headers
  <2> QED
    BY <1>5, <2>2, <2>3
<1>11. Good(u, Y) /\ Spares(h, u, Y)
  <2>1. b \notin Y /\ Y \cup {b} = X
    BY <1>10
  <2> HIDE DEF Y
  <2>2. Good(h, Y \cup {b})
    BY <1>7, <2>1
  <2> HIDE DEF X, b
  <2> QED
    BY <2>1, <2>2, FreeFacts
<1>12. \A p \in DOMAIN l : SameUse(k, l, Y, p)
  <2>1. \A p \in DOMAIN l : p - 1 \in Y
    BY <1>10 DEF Headers
  <2> HIDE DEF Y
  <2> QED
    BY <1>4, <1>5, <2>1 DEF SameUse
<1>13. Good(u, Headers(DOMAIN l))
  BY <1>10, <1>11
<1> HIDE DEF u, Y
<1>14. Holds(u, l, depth)
  BY <1>1, <1>11, <1>12, <1>13, HoldsMore
<1>15. Elems(s, m - 1) = Framed(l)
  <2>1. Framed(l) = Framed(k) \ {hp}
    BY <1>4, <1>5 DEF Framed
  <2> QED
    BY <1>1, <1>6, <2>1
<1>16. SameList(h, u, next, s, m - 1)
  <2>1. Nested(h, s, m - 1)
    <3>1. m \in Nat
      BY <1>1 DEF Stack
    <3> QED
      BY <1>1, <3>1 DEF Nested
  <2>2. Elems(s, m - 1) \subseteq Framed(k)
    BY <1>1, <1>6
  <2>3. \A p \in Elems(s, m - 1) : p - 1 \in Y
    BY <1>10, <1>15 DEF Framed, Headers
  <2> DEFINE n == m - 1
  <2>4. /\ Stack(h, next, s, n) /\ Nested(h, s, n) /\ Elems(s, n) \subseteq Framed(k)
        /\ \A p \in Elems(s, n) : p - 1 \in Y
    BY <1>6, <2>1, <2>2, <2>3
  <2> HIDE DEF n
  <2>5. SameList(h, u, next, s, n)
    BY <1>1, <1>11, <2>4, ListSpared
  <2> QED
    BY <2>5 DEF n
<1>17. Frames(u, l, next, s, m - 1)
  BY <1>15, <1>16 DEF SameList, Frames
<1>18. c.h = u /\ c.hp = next /\ c.dead = g.dead \cup {hp}
  BY <1>3, <1>9
<1>19. c \in [h : Heaps, hp : Nat, dead : SUBSET DOMAIN f]
  <2>1. u \in Heaps
    BY <1>11 DEF Spares
  <2>2. next \in Nat
    <3>1. next = NULL \/ next \in Cell
      BY <1>6, StackHead
    <3> QED
      BY <3>1 DEF NULL, Cell, MallocAssumption
  <2>3. g.dead \cup {hp} \in SUBSET DOMAIN f
    BY <1>1, <1>4, <1>7
  <2> QED
    BY <1>3, <1>9, <2>1, <2>2, <2>3
<1>20. Collecting(h0, c, f, s, m - 1)
  <2>1. Drop(f, c.dead) = l
    BY <1>18 DEF l
  <2>2. \A p \in c.dead : f[p].owner = DeadFrame
    BY <1>1, <1>8, <1>18
  <2> DEFINE n == m - 1
  <2>3. Frames(u, l, next, s, n)
    BY <1>17
  <2> HIDE DEF n
  <2>5. Sizes(h0, u, Headers(DOMAIN f \ c.dead))
    <3>1. DOMAIN f \ c.dead = DOMAIN l
      BY <1>4, <1>5, <1>18
    <3>2. Y \subseteq Headers(DOMAIN f \ g.dead)
      BY <1>4 DEF Y
    <3>3. Sizes(h, u, Y)
      BY <1>11, SparesSizes
    <3> QED
      BY <1>1, <1>10, <3>1, <3>2, <3>3 DEF Sizes
  <2>4. Collecting(h0, c, f, s, n)
    BY <1>14, <1>18, <1>19, <2>1, <2>2, <2>3, <2>5 DEF Collecting
  <2> QED
    BY <2>4 DEF n
<1> QED
  BY <1>6, <1>20 DEF c

(* The whole of the garbage goes: the loop ends, as the list does, at a    *)
(* block that is not deeper.                                               *)
LEMMA CollectGood ==
    ASSUME MallocAssumption, depth \in Nat, NEW h, NEW f, NEW hp, Sound(h, f, hp, depth),
           f = [p \in DOMAIN f |-> f[p]]
    PROVE  LET c == Collect(h, hp) IN
           /\ Sound(c.h, Drop(f, c.dead), c.hp, depth) /\ Settled(c)
           /\ c.dead \subseteq DOMAIN f /\ \A p \in c.dead : f[p].owner = DeadFrame
           /\ c \in [h : Heaps, hp : Nat, dead : SUBSET DOMAIN f]
           /\ Sizes(h, c.h, Headers(DOMAIN f \ c.dead))
<1> DEFINE a == [h |-> h, hp |-> hp, dead |-> {}]
           T == [h : Heaps, hp : Nat, dead : SUBSET DOMAIN f]
<1>1. PICK s, n : Frames(h, f, hp, s, n)
  BY DEF Sound, Listed
<1> DEFINE S == {g \in T : \E m : Collecting(h, g, f, s, m)}
           G == [g \in S |-> CollectOne(g)]
           Upto(e) == e = [i \in 0 .. Limit |-> IF i = 0 THEN a ELSE CollectOne(e[i - 1])]
<1>2. Limit \in Nat /\ n \in Nat /\ n < Limit
  <2>1. Stack(h, hp, s, n)
    BY <1>1 DEF Frames
  <2>2. n < Limit
    BY <2>1, StackReached
  <2> QED
    BY <2>1, <2>2 DEF MallocAssumption, Stack
<1>3. Collecting(h, a, f, s, n)
  <2>1. Drop(f, {}) = f
    <3>1. DOMAIN f \ {} = DOMAIN f
      OBVIOUS
    <3> QED
      BY <3>1 DEF Drop
  <2>2. h \in Heaps
    BY GoodFacts DEF Sound, Holds
  <2>3. hp \in Nat
    <3>1. hp = NULL \/ hp \in Cell
      BY <1>1, StackHead DEF Frames
    <3> QED
      BY <3>1 DEF NULL, Cell, MallocAssumption
  <2>4. a \in T /\ a.h = h /\ a.hp = hp /\ a.dead = {}
    BY <2>2, <2>3
  <2> HIDE DEF a
  <2>5. Sizes(h, h, Headers(DOMAIN f \ {}))
    BY DEF Sizes
  <2> QED
    BY <1>1, <2>1, <2>4, <2>5 DEF Collecting, Sound
<1> DEFINE Round(g, m) ==
             IF Settled(g) THEN CollectOne(g) = g
             ELSE m - 1 \in Nat /\ Collecting(h, CollectOne(g), f, s, m - 1)
<1>4. \A g, m : Collecting(h, g, f, s, m) => Round(g, m)
  <2> TAKE g, m
  <2> HAVE Collecting(h, g, f, s, m)
  <2>1. ASSUME Settled(g) PROVE CollectOne(g) = g
    BY <2>1 DEF Settled, CollectOne
  <2>2. ASSUME ~Settled(g) PROVE m - 1 \in Nat /\ Collecting(h, CollectOne(g), f, s, m - 1)
    BY <2>2, CollectOneGood
  <2> QED
    BY <2>1, <2>2
<1>5. \A g \in S : CollectOne(g) \in S
  <2> TAKE g \in S
  <2>1. PICK m : Collecting(h, g, f, s, m)
    OBVIOUS
  <2>2. \E j : Collecting(h, CollectOne(g), f, s, j)
    BY <1>4, <2>1
  <2>3. CollectOne(g) \in T
    BY <2>2 DEF Collecting
  <2> QED
    BY <2>2, <2>3
<1>6. a \in S
  <2>1. a \in T
    BY <1>3 DEF Collecting
  <2> HIDE DEF a, T
  <2> QED
    BY <1>3, <2>1
<1> HIDE DEF S, T
<1>7. G \in [S -> S]
  BY <1>5
<1> HIDE DEF a
<1>8. PICK e : Iterates(e, G, a, Limit) /\ \A i \in 0 .. Limit : e[i] \in S
  <2> HIDE DEF G
  <2> QED
    BY <1>2, <1>6, <1>7, Iterated
<1>9. Upto(e)
  <2>1. \A i \in 0 .. Limit : i # 0 => G[e[i - 1]] = CollectOne(e[i - 1])
    <3> TAKE i \in 0 .. Limit
    <3>1. i # 0 => i - 1 \in 0 .. Limit
      BY <1>2
    <3> QED
      BY <1>8, <3>1
  <2> HIDE DEF G
  <2> QED
    BY <1>8, <2>1 DEF Iterates
<1> DEFINE after == CHOOSE x : Upto(x)
<1>10. Upto(after)
  <2> HIDE DEF Upto
  <2> QED
    BY <1>9
<1> HIDE DEF after
<1>11. \A i \in 0 .. Limit : after[i] = IF i = 0 THEN a ELSE CollectOne(after[i - 1])
  BY <1>10
<1> DEFINE Left(i) == \E m \in Nat : /\ Collecting(h, after[i], f, s, m)
                                     /\ (Settled(after[i]) \/ m + i = n)
           R == {i \in Nat : i <= Limit => Left(i)}
<1>12. 0 \in R
  <2>1. after[0] = a
    BY <1>2, <1>11
  <2>2. Collecting(h, after[0], f, s, n) /\ n + 0 = n /\ n \in Nat
    BY <1>2, <1>3, <2>1
  <2>3. Left(0)
    BY <2>2
  <2> HIDE DEF Left
  <2> QED
    BY <2>3
<1>13. \A i \in R : i + 1 \in R
  <2> SUFFICES ASSUME NEW i \in Nat, Left(i), i + 1 <= Limit PROVE Left(i + 1)
    <3> HIDE DEF Left
    <3> QED
      BY <1>2
  <2> DEFINE g == after[i]
             z == after[i + 1]
  <2>1. z = CollectOne(g)
    <3>1. i + 1 \in 0 .. Limit /\ i + 1 # 0 /\ (i + 1) - 1 = i
      BY <1>2
    <3> QED
      BY <1>11, <3>1
  <2>2. PICK m \in Nat : Collecting(h, g, f, s, m) /\ (Settled(g) \/ m + i = n)
    OBVIOUS
  <2> HIDE DEF g, z
  <2>a. CASE Settled(g)
    <3>1. Collecting(h, z, f, s, m) /\ Settled(z)
      BY <1>4, <2>1, <2>2, <2>a
    <3> QED
      BY <3>1 DEF z
  <2>b. CASE ~Settled(g)
    <3>1. m - 1 \in Nat /\ Collecting(h, z, f, s, m - 1)
      BY <1>4, <2>1, <2>2, <2>b
    <3>2. (m - 1) + (i + 1) = n
      BY <2>2, <2>b
    <3> QED
      BY <3>1, <3>2 DEF z
  <2> QED
    BY <2>a, <2>b
<1>14. Left(Limit)
  <2> HIDE DEF Left
  <2>1. R \in SUBSET Nat
    OBVIOUS
  <2>2. R = Nat
    <3> HIDE DEF R
    <3> QED
      BY <1>12, <1>13, <2>1, SetInduction
  <2> QED
    BY <1>2, <2>2
<1> DEFINE c == after[Limit]
<1>15. PICK m \in Nat : Collecting(h, c, f, s, m) /\ Settled(c)
  BY <1>2, <1>14
<1>16. Collect(h, hp) = c
  BY DEF Collect, after, a
<1> HIDE DEF c
<1>17. Sound(c.h, Drop(f, c.dead), c.hp, depth)
  BY <1>15 DEF Sound, Collecting, Listed
<1>18. /\ c.dead \subseteq DOMAIN f /\ \A p \in c.dead : f[p].owner = DeadFrame
       /\ c \in [h : Heaps, hp : Nat, dead : SUBSET DOMAIN f]
       /\ Sizes(h, c.h, Headers(DOMAIN f \ c.dead))
  BY <1>15 DEF Collecting
<1> QED
  BY <1>15, <1>16, <1>17, <1>18

(* A block of alloca: it heads the list.                                   *)
Headed(u, w, q, prev) ==
    /\ w \in Heaps /\ w.brk = u.brk /\ w.freed = u.freed /\ w.chunk = u.chunk
    /\ w.cell[q] = depth /\ w.cell[q + 1] = prev
    /\ \A a \in Cell : a # q /\ a # q + 1 => w.cell[a] = u.cell[a]

(* Writing m_deep and m_next, cell by cell.                                *)
LEMMA HeaderCells ==
    ASSUME MallocAssumption, NEW u \in Heaps, depth \in Nat, NEW q \in Nat, NEW prev \in Nat,
           q \in Cell, q + 1 \in Cell
    PROVE  Headed(u, Header(u, q, prev), q, prev)
<1> DEFINE v == [u EXCEPT !.cell[q] = depth]
           w == [v EXCEPT !.cell[q + 1] = prev]
<1>1. Header(u, q, prev) = w
  BY DEF Header
<1>2. /\ v \in Heaps /\ v.brk = u.brk /\ v.freed = u.freed /\ v.chunk = u.chunk
      /\ v.cell[q] = depth /\ \A a \in Cell : a # q => v.cell[a] = u.cell[a]
  BY DEF Heaps
<1> HIDE DEF v
<1>3. /\ w \in Heaps /\ w.brk = v.brk /\ w.freed = v.freed /\ w.chunk = v.chunk
      /\ w.cell[q + 1] = prev /\ \A a \in Cell : a # q + 1 => w.cell[a] = v.cell[a]
  BY <1>2 DEF Heaps
<1> HIDE DEF w
<1>4. q # q + 1
  OBVIOUS
<1> QED
  BY <1>1, <1>2, <1>3, <1>4 DEF Headed

(* It is not shallower than the block it goes in front of.                 *)
LEMMA SoundFramed ==
    ASSUME MallocAssumption, depth \in Nat, NEW h, NEW f, NEW hp, Sound(h, f, hp, depth),
           hp = NULL \/ ~Deeper(h, hp),
           NEW req \in Nat, NEW got, Gives(h, got, Headers(DOMAIN f), 2 * MemSize + req),
           got.p # NULL
    PROVE  LET v == Fill(Header(got.h, got.p, hp),
                         UserCells(got.h, got.p) \ {got.p, got.p + 1}, UserData) IN
           /\ Sound(v, Hold(f, got.p, Owned(2 * MemSize + req, depth, UserData)), got.p, depth)
           /\ Sizes(h, v, Headers(DOMAIN f))
<1> DEFINE size == 2 * MemSize + req
           X == Headers(DOMAIN f)
           q == got.p
           u == got.h
           b == q - 1
           m == m_size(u, b)
           w == Header(u, q, hp)
           cells == UserCells(u, q) \ {q, q + 1}
           g == Fill(w, cells, UserData)
           r == Owned(size, depth, UserData)
           k == Hold(f, q, r)
<1>0. size \in Nat /\ size >= 2 * MemSize
  BY DEF MallocAssumption
<1>1. /\ q \in Nat /\ q \notin DOMAIN f /\ b \notin X /\ q = b + 1
      /\ Headers(DOMAIN f \cup {q}) = X \cup {b}
      /\ Good(u, X \cup {b}) /\ Spares(h, u, X)
      /\ m \in Nat /\ b \in Nat /\ MemSize * m >= MemSize + size
      /\ b + m <= Limit /\ q \in Cell
  <2> HIDE DEF size
  <2>1. Given(h, f, u, q, size)
    BY <1>0, GivenFacts DEF size
  <2>2. q \in Nat
    BY <2>1 DEF Given
  <2>3. q = b + 1
    BY <2>2
  <2> HIDE DEF u, q, b
  <2>4. b = q - 1
    BY DEF b
  <2> HIDE DEF m
  <2>5. m = m_size(u, b)
    BY DEF m
  <2> HIDE DEF X
  <2>6. X = Headers(DOMAIN f)
    BY DEF X
  <2> QED
    BY <2>1, <2>3, <2>4, <2>5, <2>6 DEF Given
<1> HIDE DEF size
<1>2. m >= 3 /\ \A i \in 0 .. (size - 1) \div MemSize : i + 2 <= m
  <2> HIDE DEF m, b, q
  <2> QED
    BY <1>0, <1>1, AskedFacts
<1>3. hp \in Nat
  <2>1. PICK s, n : Stack(h, hp, s, n)
    BY DEF Sound, Listed, Frames
  <2>2. hp = NULL \/ hp \in Cell
    BY <2>1, StackHead
  <2> QED
    BY <2>2 DEF NULL, Cell, MallocAssumption
<1>4. cells = (b + 1 .. b + m - 1) \ {q, q + 1}
  <2>1. cells = (q .. q + m - 2) \ {q, q + 1}
    BY DEF UserCells
  <2> HIDE DEF cells, b, m, q
  <2> QED
    BY <1>1, <2>1
<1> HIDE DEF b, u, q, m, X, cells
<1>5. u \in Heaps /\ q + 1 \in Cell /\ q + 1 \in b + 1 .. b + m - 1 /\ q \in b + 1 .. b + m - 1
  BY <1>1, <1>2 DEF Cell, Spares, MallocAssumption
<1>6. /\ w \in Heaps /\ w.brk = u.brk /\ w.freed = u.freed /\ w.chunk = u.chunk
      /\ w.cell[q] = depth /\ w.cell[q + 1] = hp
      /\ \A a \in Cell : a # q /\ a # q + 1 => w.cell[a] = u.cell[a]
  <2>1. Headed(u, w, q, hp)
    BY <1>1, <1>3, <1>5, HeaderCells
  <2> HIDE DEF w
  <2> QED
    BY <2>1 DEF Headed
<1> HIDE DEF w
<1> DEFINE Y == X \cup {b}
<1>7. b \in Y /\ Y \ {b} = X /\ Good(u, Y)
  BY <1>1
<1> HIDE DEF Y
<1>8. Good(w, Y) /\ Spares(u, w, X) /\ m_size(w, b) = m
  <2>1. Writes(u, w, b)
    BY <1>5, <1>6 DEF Writes, m
  <2>2. Good(w, Y) /\ Spares(u, w, Y \ {b}) /\ m_size(w, b) = m_size(u, b)
    BY <1>7, <2>1, WriteGood
  <2> QED
    BY <1>7, <2>2 DEF m
<1>9. /\ Good(g, Y) /\ Spares(w, g, X) /\ m_size(g, b) = m
      /\ \A a \in Cell : g.cell[a] = IF a \in cells THEN UserData ELSE w.cell[a]
  <2>1. cells \subseteq b + 1 .. b + m_size(w, b) - 1
    BY <1>4, <1>8
  <2>2. Filled(w, g, Y, b, cells, UserData)
    BY <1>7, <1>8, <2>1, FillGood
  <2> HIDE DEF g
  <2> QED
    BY <1>7, <1>8, <2>2 DEF Filled
<1> HIDE DEF g
<1>10. Spares(h, g, X)
  <2>1. Spares(h, w, X)
    BY <1>1, <1>8, SparesMore
  <2> QED
    BY <1>9, <2>1, SparesMore
<1>11. g.cell[q] = depth /\ m_next(g, q) = hp
  BY <1>1, <1>4, <1>5, <1>6, <1>9 DEF m_next
<1>12. r.req = size /\ r.owner = depth /\ r.data = UserData /\ r \in Record(depth) /\ depth # NoFrame
  BY <1>0 DEF Owned, Record, NoFrame
<1> HIDE DEF r
<1>13. InUse(g, q, r, depth)
  <2>1. Room(g, q, r)
    BY <1>1, <1>9, <1>12 DEF Room, b
  <2>2. Contents(g, q, r)
    <3> SUFFICES ASSUME NEW i \in 0 .. (size - 1) \div MemSize, ~(i < 2)
                 PROVE  g.cell[q + i] = UserData
      BY <1>12 DEF Contents
    <3>1. i + 2 <= m /\ i \in Nat /\ i >= 2
      <4>1. i \in Int /\ i >= 0
        OBVIOUS
      <4> QED
        BY <1>2, <4>1
    <3>2. q + i \in cells /\ q + i \in Cell
      BY <1>1, <1>4, <3>1 DEF Cell, MallocAssumption
    <3> QED
      BY <1>9, <3>2
  <2>3. Frame(g, q, r)
    BY <1>0, <1>11, <1>12 DEF Frame
  <2> QED
    BY <1>1, <1>12, <2>1, <2>2, <2>3 DEF InUse
<1>14. DOMAIN k = DOMAIN f \cup {q} /\ k[q] = r /\ \A p \in DOMAIN f : k[p] = f[p]
  <2>1. /\ DOMAIN k = DOMAIN f \cup {q} /\ k[q] = r
        /\ \A p \in DOMAIN f \ {q} : k[p] = f[p]
    BY DEF Hold
  <2> HIDE DEF k
  <2> QED
    BY <1>1, <2>1
<1> HIDE DEF k
<1>15. Framed(k) = Framed(f) \cup {q}
  BY <1>12, <1>14 DEF Framed
<1>16. Holds(h, f, depth) /\ \A p \in Framed(f) : p - 1 \in X
  BY SoundFacts DEF Sound, X
<1>17. Holds(g, k, depth)
  <2>1. \A p \in DOMAIN k : SameUse(f, k, X, p) \/ InUse(g, p, k[p], depth)
    BY <1>13, <1>14 DEF SameUse, Headers, X
  <2>2. Good(g, Headers(DOMAIN k))
    BY <1>1, <1>9, <1>14 DEF Y
  <2> QED
    BY <1>10, <1>16, <2>1, <2>2, HoldsMore
<1>18. PICK s, n : Stack(h, hp, s, n) /\ Elems(s, n) = Framed(f) /\ Nested(h, s, n) /\ n \in Nat
  BY DEF Sound, Listed, Frames, Stack
<1>19. SameList(h, g, hp, s, n)
  BY <1>10, <1>16, <1>18, ListSpared
<1>20. PICK t : Pushed(g, q, s, n, t)
  <2>1. q \notin Elems(s, n)
    BY <1>1, <1>18 DEF Framed
  <2>2. \A y \in Elems(s, n) : m_next(g, y) = m_next(h, y)
    BY <1>19 DEF SameList
  <2> QED
    BY <1>1, <1>11, <1>18, <2>1, <2>2, StackPush
<1>21. Nested(g, t, n + 1)
  <2> SUFFICES ASSUME NEW i \in 2 .. n + 1 PROVE g.cell[t[i - 1]] <= g.cell[t[i]]
    BY DEF Nested
  <2>1. t[n + 1] = q /\ \A j \in 1 .. n : t[j] = s[j]
    BY <1>20 DEF Pushed
  <2>a. CASE i # n + 1
    <3>1. i \in 1 .. n /\ i - 1 \in 1 .. n /\ i \in 2 .. n
      BY <1>18, <2>a
    <3>2. g.cell[s[i - 1]] <= g.cell[s[i]]
      BY <1>19, <3>1 DEF SameList, Nested
    <3> QED
      BY <2>1, <3>1, <3>2
  <2>b. CASE i = n + 1
    <3>1. n \in 1 .. n /\ i - 1 = n /\ n # 0
      BY <1>18, <2>b
    <3>2. s[n] = hp /\ hp \in Cell /\ hp \in Elems(s, n)
      BY <1>18, <3>1 DEF Stack, Elems
    <3>3. g.cell[hp] = h.cell[hp]
      BY <1>19, <3>2 DEF SameList
    <3>4. hp # NULL
      BY <3>2 DEF NULL, Cell, MallocAssumption
    <3>5. ~(h.cell[hp] > depth)
      BY <3>4 DEF Deeper, m_deep
    <3>6. h.cell[hp] \in Nat
      <4>1. h \in Heaps
        BY <1>16, GoodFacts DEF Holds
      <4> QED
        BY <3>2, <4>1 DEF Heaps
    <3> QED
      BY <1>11, <2>1, <2>b, <3>1, <3>2, <3>3, <3>5, <3>6
  <2> QED
    BY <2>a, <2>b
<1>22. Frames(g, k, q, t, n + 1)
  <2> DEFINE j == n + 1
  <2>1. Stack(g, q, t, j) /\ Elems(t, j) = Framed(k) /\ Nested(g, t, j)
    BY <1>15, <1>18, <1>20, <1>21 DEF Pushed
  <2> HIDE DEF j
  <2>2. Frames(g, k, q, t, j)
    BY <2>1 DEF Frames
  <2> QED
    BY <2>2 DEF j
<1>23. Sound(g, k, q, depth)
  BY <1>17, <1>22 DEF Sound, Listed
<1>24. Sizes(h, g, Headers(DOMAIN f))
  BY <1>10, SparesSizes DEF X
<1> QED
  BY <1>23, <1>24 DEF g, k, r, w, u, q, cells, size
-----------------------------------------------------------------------------
(* What Heap sees: a block's length, what was asked for it and whose it is.*)
Entry(h, r, b) == [len |-> m_size(h, b), req |-> r.req, of |-> Whose(r.owner)]

(* Seen is a function of the headers.                                      *)
LEMMA SeenFacts ==
    ASSUME NEW h, NEW f, DOMAIN f \in SUBSET Nat
    PROVE  /\ Seen(h, f) = [b \in Headers(DOMAIN f) |-> Entry(h, f[b + 1], b)]
           /\ DOMAIN Seen(h, f) = Headers(DOMAIN f)
           /\ \A b \in Headers(DOMAIN f) : Seen(h, f)[b] = Entry(h, f[b + 1], b)
           /\ \A b \in Headers(DOMAIN f) : b + 1 \in DOMAIN f /\ b \in Int
BY DEF Seen, Headers, Entry

(* The block of a pointer.                                                 *)
LEMMA SeenAt ==
    ASSUME NEW h, NEW f, DOMAIN f \in SUBSET Nat, NEW p \in DOMAIN f
    PROVE  p - 1 \in DOMAIN Seen(h, f) /\ Seen(h, f)[p - 1] = Entry(h, f[p], p - 1)
<1> DEFINE b == p - 1
<1>1. b \in Headers(DOMAIN f) /\ b + 1 = p
  BY DEF Headers
<1> HIDE DEF b
<1>2. DOMAIN Seen(h, f) = Headers(DOMAIN f) /\ Seen(h, f)[b] = Entry(h, f[b + 1], b)
  BY <1>1, SeenFacts
<1> QED
  BY <1>1, <1>2 DEF b

(* Whose a block is says what its owner is.                                *)
LEMMA WhoseFacts ==
    /\ Whose(NoFrame) = "caller" /\ Whose(DeadFrame) = "gone"
    /\ \A owner \in Nat : Whose(owner) = "frame"
BY DEF Whose, NoFrame, DeadFrame

(* The allocator rearranged its free memory: nothing to see.               *)
LEMMA SeenSame ==
    ASSUME NEW h, NEW g, NEW f, DOMAIN f \in SUBSET Nat, Sizes(h, g, Headers(DOMAIN f))
    PROVE  Seen(g, f) = Seen(h, f)
<1>1. \A b \in Headers(DOMAIN f) : Entry(g, f[b + 1], b) = Entry(h, f[b + 1], b)
  BY DEF Sizes, Entry
<1> QED
  BY <1>1, SeenFacts

(* A block more.                                                           *)
LEMMA SeenHold ==
    ASSUME NEW h, NEW g, NEW f, DOMAIN f \in SUBSET Nat, Sizes(h, g, Headers(DOMAIN f)),
           NEW p \in Nat, p \notin DOMAIN f, NEW r
    PROVE  Seen(g, Hold(f, p, r)) = HeapSpec!Placed(Seen(h, f), p - 1, Entry(g, r, p - 1))
<1> DEFINE X == Headers(DOMAIN f)
           b == p - 1
           k == Hold(f, p, r)
<1>1. DOMAIN k = DOMAIN f \cup {p} /\ k[p] = r /\ \A q \in DOMAIN f : k[q] = f[q]
  BY DEF Hold
<1> HIDE DEF k
<1>2. Headers(DOMAIN k) = X \cup {b} /\ b \notin X /\ b + 1 = p /\ DOMAIN k \in SUBSET Nat
  BY <1>1, HeaderFacts
<1> HIDE DEF X, b
<1>3. \A c \in X : Entry(g, k[c + 1], c) = Entry(h, f[c + 1], c)
  BY <1>1, SeenFacts DEF Sizes, Entry, X
<1>4. Seen(g, k) = [c \in X \cup {b} |-> IF c = b THEN Entry(g, r, b) ELSE Seen(h, f)[c]]
  <2>1. Seen(g, k) = [c \in X \cup {b} |-> Entry(g, k[c + 1], c)]
    <3>1. Seen(g, k) = [c \in Headers(DOMAIN k) |-> Entry(g, k[c + 1], c)]
      BY <1>2, SeenFacts
    <3> QED
      BY <1>2, <3>1
  <2>2. \A c \in X \cup {b} :
           Entry(g, k[c + 1], c) = IF c = b THEN Entry(g, r, b) ELSE Seen(h, f)[c]
    <3>1. \A c \in X : Seen(h, f)[c] = Entry(h, f[c + 1], c)
      BY SeenFacts DEF X
    <3> QED
      BY <1>1, <1>2, <1>3, <3>1
  <2> QED
    BY <2>1, <2>2
<1>5. DOMAIN Seen(h, f) = X
  BY SeenFacts DEF X
<1> QED
  BY <1>4, <1>5 DEF HeapSpec!Placed, HeapSpec!With, k, b

(* Blocks less.                                                            *)
LEMMA SeenDrop ==
    ASSUME NEW h, NEW g, NEW f, DOMAIN f \in SUBSET Nat, NEW D \in SUBSET DOMAIN f,
           Sizes(h, g, Headers(DOMAIN f \ D))
    PROVE  Seen(g, Drop(f, D)) = HeapSpec!Without(Seen(h, f), Headers(D))
<1> DEFINE X == Headers(DOMAIN f)
           Y == Headers(DOMAIN f \ D)
           k == Drop(f, D)
<1>1. DOMAIN k = DOMAIN f \ D /\ \A q \in DOMAIN f \ D : k[q] = f[q]
  BY DropFacts
<1> HIDE DEF k
<1>2. Y = X \ Headers(D)
  <2>1. \A p, q \in DOMAIN f : p - 1 = q - 1 => p = q
    OBVIOUS
  <2> QED
    BY <2>1 DEF Headers
<1>3. \A c \in Y : c + 1 \in DOMAIN f \ D /\ c \in X
  BY DEF Headers
<1>4. Seen(g, k) = [c \in Y |-> Entry(g, k[c + 1], c)]
  BY <1>1, SeenFacts
<1>5. DOMAIN Seen(h, f) = X /\ \A c \in X : Seen(h, f)[c] = Entry(h, f[c + 1], c)
  BY SeenFacts
<1>6. \A c \in Y : m_size(g, c) = m_size(h, c)
  BY DEF Sizes
<1> HIDE DEF X, Y
<1>7. \A c \in Y : Entry(g, k[c + 1], c) = Seen(h, f)[c]
  BY <1>1, <1>3, <1>5, <1>6 DEF Entry
<1> QED
  BY <1>2, <1>4, <1>5, <1>7 DEF HeapSpec!Without, k

(* A block asked more or less of.                                          *)
LEMMA SeenKeep ==
    ASSUME NEW h, NEW g, NEW f, DOMAIN f \in SUBSET Nat, Sizes(h, g, Headers(DOMAIN f)),
           NEW p \in DOMAIN f, NEW r, r.owner = f[p].owner
    PROVE  Seen(g, Hold(Drop(f, {p}), p, r)) = [Seen(h, f) EXCEPT ![p - 1].req = r.req]
<1> DEFINE X == Headers(DOMAIN f)
           b == p - 1
           e == Drop(f, {p})
           k == Hold(e, p, r)
<1>1. DOMAIN k = DOMAIN f /\ k[p] = r /\ \A q \in DOMAIN f : q # p => k[q] = f[q]
  <2>1. DOMAIN e = DOMAIN f \ {p} /\ \A q \in DOMAIN f \ {p} : e[q] = f[q]
    BY DropFacts
  <2> HIDE DEF e
  <2> QED
    BY <2>1 DEF Hold
<1> HIDE DEF k
<1>2. b \in X /\ b + 1 = p /\ \A c \in X : c + 1 \in DOMAIN f /\ (c + 1 = p => c = b)
  BY SeenFacts DEF Headers
<1>3. Seen(g, k) = [c \in X |-> Entry(g, k[c + 1], c)]
  BY <1>1, SeenFacts
<1>4. /\ Seen(h, f) = [c \in X |-> Entry(h, f[c + 1], c)]
      /\ \A c \in X : m_size(g, c) = m_size(h, c)
  BY SeenFacts DEF Sizes
<1> HIDE DEF X, b
<1> DEFINE A == Seen(h, f)
<1>5. \A c \in X : Entry(g, k[c + 1], c) = IF c = b THEN [A[b] EXCEPT !.req = r.req] ELSE A[c]
  <2> TAKE c \in X
  <2>1. A[c] = Entry(h, f[c + 1], c)
    BY <1>4
  <2>a. CASE c = b
    <3>1. k[c + 1] = r /\ f[c + 1] = f[p] /\ m_size(g, c) = m_size(h, c)
      BY <1>1, <1>2, <1>4, <2>a
    <3> QED
      BY <2>1, <2>a, <3>1 DEF Entry
  <2>b. CASE c # b
    <3>1. k[c + 1] = f[c + 1] /\ m_size(g, c) = m_size(h, c)
      BY <1>1, <1>2, <1>4, <2>b
    <3> QED
      BY <2>1, <2>b, <3>1 DEF Entry
  <2> QED
    BY <2>a, <2>b
<1>6. [A EXCEPT ![b].req = r.req] = [c \in X |-> IF c = b THEN [A[b] EXCEPT !.req = r.req] ELSE A[c]]
  BY <1>2, <1>4
<1> QED
  BY <1>3, <1>5, <1>6 DEF k, b

(* A block in another's place.                                             *)
LEMMA SeenMove ==
    ASSUME NEW h, NEW g, NEW f, DOMAIN f \in SUBSET Nat, NEW p \in DOMAIN f,
           Sizes(h, g, Headers(DOMAIN f \ {p})), NEW q \in Nat, q \notin DOMAIN f, NEW r
    PROVE  Seen(g, Hold(Drop(f, {p}), q, r)) =
             HeapSpec!Without(HeapSpec!Placed(Seen(h, f), q - 1, Entry(g, r, q - 1)), {p - 1})
<1> DEFINE e == Drop(f, {p})
           A == Seen(h, f)
           v == Entry(g, r, q - 1)
           b == q - 1
<1>1. DOMAIN e = DOMAIN f \ {p}
  BY DropFacts
<1>2. Headers({p}) = {p - 1}
  BY DEF Headers
<1>3. Seen(g, e) = HeapSpec!Without(A, {p - 1})
  BY <1>2, SeenDrop
<1> HIDE DEF e
<1>4. Sizes(g, g, Headers(DOMAIN e))
  BY DEF Sizes
<1>5. Seen(g, Hold(e, q, r)) = HeapSpec!Placed(Seen(g, e), b, v)
  BY <1>1, <1>4, SeenHold
<1>6. p - 1 # b
  BY DEF b
<1> HIDE DEF A, v, b
<1>7. HeapSpec!Placed(HeapSpec!Without(A, {p - 1}), b, v) =
        HeapSpec!Without(HeapSpec!Placed(A, b, v), {p - 1})
  BY <1>6 DEF HeapSpec!Placed, HeapSpec!With, HeapSpec!Without
<1> QED
  BY <1>3, <1>5, <1>7 DEF e, A, v, b

(* A block in use is one Heap allows.                                      *)
Proper(h, b, req) ==
    /\ b \in HeapSpec!Cells /\ m_size(h, b) \in HeapSpec!Lengths
    /\ HeapSpec!Roomy(m_size(h, b), req)

(* It lies in the heap and has room for what was asked.                    *)
LEMMA ProperFacts ==
    ASSUME MallocAssumption, NEW h, NEW B, Good(h, B), NEW b \in B, NEW req,
           MemSize * m_size(h, b) >= MemSize + req
    PROVE  Proper(h, b, req)
<1>1. /\ b \in Nat /\ b \in Cell /\ m_size(h, b) \in Nat /\ m_size(h, b) >= 2
      /\ b + m_size(h, b) <= h.brk /\ h \in Heaps
  BY GoodFacts
<1> DEFINE m == m_size(h, b)
<1>2. h.brk <= Limit /\ h.brk \in Nat /\ Limit \in Nat /\ Base \in Nat /\ MemSize \in Nat
  BY <1>1 DEF Heaps, MallocAssumption
<1>3. b \in Base .. (Limit - 1)
  BY <1>1 DEF Cell
<1>4. m * MemSize = MemSize * m
  BY <1>1, <1>2
<1> HIDE DEF m
<1>5. m \in 1 .. (Limit - Base) /\ m * MemSize >= MemSize + req
  <2>1. m \in Nat /\ m >= 2 /\ b + m <= h.brk /\ MemSize * m >= MemSize + req
    BY <1>1 DEF m
  <2> QED
    BY <1>2, <1>3, <1>4, <2>1
<1> QED
  BY <1>3, <1>5 DEF Proper, HeapSpec!Cells, HeapSpec!Lengths, HeapSpec!Roomy, m

(* And apart from the others.                                              *)
LEMMA FitsFacts ==
    ASSUME MallocAssumption, NEW h, NEW X, NEW b, b \notin X, Good(h, X \cup {b}),
           NEW A, DOMAIN A = X, \A c \in X : A[c].len = m_size(h, c)
    PROVE  HeapSpec!Fits(A, b, m_size(h, b))
<1> DEFINE B == X \cup {b}
<1>1. Good(h, B) /\ b \in B /\ X \subseteq B
  OBVIOUS
<1> HIDE DEF B
<1>2. /\ h \in Heaps /\ b + m_size(h, b) <= h.brk /\ b \in Nat /\ m_size(h, b) \in Nat
      /\ \A c \in X : b + m_size(h, b) <= c \/ c + m_size(h, c) <= b
  BY <1>1, GoodFacts
<1>3. h.brk <= Limit /\ h.brk \in Nat /\ Limit \in Nat
  BY <1>2 DEF Heaps, MallocAssumption
<1>4. b + m_size(h, b) <= Limit
  BY <1>2, <1>3
<1> QED
  BY <1>2, <1>4 DEF HeapSpec!Fits

(* What a step that puts a block at p leaves in place of what it found.    *)
Puts(h, f, g, p, r, e) ==
    /\ p \in Nat /\ p \notin DOMAIN e /\ DOMAIN f \in SUBSET Nat
    /\ Good(g, Headers(DOMAIN e) \cup {p - 1}) /\ p - 1 \notin Headers(DOMAIN e)
    /\ MemSize * m_size(g, p - 1) >= MemSize + r.req
    /\ Sizes(h, g, Headers(DOMAIN e))

(* A new state with one block more.                                        *)
LEMMA PutsFacts ==
    ASSUME NEW h, NEW f, NEW g, NEW e, NEW p, NEW r, NEW hp, NEW d,
           DOMAIN f \in SUBSET Nat, DOMAIN e \in SUBSET DOMAIN f, p \notin DOMAIN e,
           Sound(g, Hold(e, p, r), hp, d), Sizes(h, g, Headers(DOMAIN e))
    PROVE  Puts(h, f, g, p, r, e)
<1> DEFINE k == Hold(e, p, r)
<1>1. DOMAIN k = DOMAIN e \cup {p} /\ k[p] = r
  BY DEF Hold
<1> HIDE DEF k
<1>2. Sound(g, k, hp, d)
  BY DEF k
<1>3. Good(g, Headers(DOMAIN k)) /\ InUse(g, p, r, d)
  BY <1>1, <1>2, SoundFacts
<1>4. p \in Nat /\ MemSize * m_size(g, p - 1) >= MemSize + r.req
  BY <1>3 DEF InUse, Room
<1>5. Headers(DOMAIN k) = Headers(DOMAIN e) \cup {p - 1} /\ p - 1 \notin Headers(DOMAIN e)
  BY <1>1, <1>4, HeaderFacts
<1> QED
  BY <1>3, <1>4, <1>5 DEF Puts

-----------------------------------------------------------------------------
(* The invariant of the whole, and what no step may take away.             *)
IsFunction(f) == f = [p \in DOMAIN f |-> f[p]]

-----------------------------------------------------------------------------
(* The inductive invariant: the blocks held, the freed list and the chunks *)
(* lie one after the other and fill the heap, each list is well formed,    *)
(* every block in use has its data and its room, and alloca's blocks are   *)
(* on their list, deepest first. The properties of the runs follow from    *)
(* it; none of them is inductive, because none says where in a block the   *)
(* links are.                                                              *)
IInv ==
    /\ Sound(heap, held, alloca_stack, depth)
    /\ IsFunction(held)
    /\ depth \in 0 .. MaxDepth

(* AllocaLives, of one step.                                               *)
Lives ==
    \A p \in DOMAIN held :
        held[p].owner \in 0 .. depth' => p \in DOMAIN held' /\ held'[p] = held[p]

(* Implements, of one step.                                                *)
Follows == [HeapSpec!Next]_Blocks

(* What is shown of each action.                                           *)
Goes == IInv' /\ Lives /\ Follows

-----------------------------------------------------------------------------
(* What Heap allows, step by step. First what it does not notice.          *)
LEMMA StutterFollows ==
    ASSUME DOMAIN held \in SUBSET Nat, held' = held, Sizes(heap, heap', Headers(DOMAIN held))
    PROVE  Follows
<1>1. Seen(heap', held) = Seen(heap, held)
  BY SeenSame
<1>2. Blocks' = Blocks
  BY <1>1 DEF Blocks
<1> QED
  BY <1>2 DEF Follows

(* A block more: malloc or calloc.                                         *)
LEMMA AcquireFollows ==
    ASSUME MallocAssumption, NEW p, NEW r, r.owner = NoFrame, r.req \in BlockRequests,
           Puts(heap, held, heap', p, r, held), held' = Hold(held, p, r)
    PROVE  Follows
<1> DEFINE b == p - 1
           X == Headers(DOMAIN held)
           len == m_size(heap', b)
           A == Blocks
<1>1. /\ p \in Nat /\ p \notin DOMAIN held /\ DOMAIN held \in SUBSET Nat
      /\ Good(heap', X \cup {b}) /\ b \notin X /\ MemSize * len >= MemSize + r.req
      /\ Sizes(heap, heap', X)
  BY DEF Puts
<1>2. Proper(heap', b, r.req)
  <2> DEFINE B == X \cup {b}
  <2>1. Good(heap', B) /\ b \in B
    BY <1>1
  <2> HIDE DEF B, b
  <2> QED
    BY <1>1, <2>1, ProperFacts
<1>3. DOMAIN A = X /\ \A c \in X : A[c].len = m_size(heap', c)
  BY <1>1, SeenFacts DEF Blocks, Sizes, Entry
<1>4. HeapSpec!Fits(A, b, len)
  <2> HIDE DEF A, X, b
  <2> QED
    BY <1>1, <1>3, FitsFacts
<1>5. Blocks' = HeapSpec!Placed(A, b, [len |-> len, req |-> r.req, of |-> "caller"])
  <2>1. Seen(heap', Hold(held, p, r)) = HeapSpec!Placed(Seen(heap, held), b, Entry(heap', r, b))
    BY <1>1, SeenHold
  <2>2. Entry(heap', r, b) = [len |-> len, req |-> r.req, of |-> "caller"]
    BY WhoseFacts DEF Entry
  <2> QED
    BY <2>1, <2>2 DEF Blocks
<1> HIDE DEF b, len
<1>6. HeapSpec!Acquire(b, len, r.req)
  BY <1>4, <1>5 DEF HeapSpec!Acquire
<1>7. b \in HeapSpec!Cells /\ len \in HeapSpec!Lengths /\ HeapSpec!Roomy(len, r.req)
  BY <1>2 DEF Proper, len
<1>8. HeapSpec!Next
  BY <1>6, <1>7 DEF HeapSpec!Next
<1> QED
  BY <1>8 DEF Follows

(* A block of a caller less: free.                                         *)
LEMMA ReleaseFollows ==
    ASSUME NEW p \in DOMAIN held, held[p].owner = NoFrame, DOMAIN held \in SUBSET Nat,
           Sizes(heap, heap', Headers(DOMAIN held \ {p})), held' = Drop(held, {p})
    PROVE  Follows
<1> DEFINE b == p - 1
<1>1. Headers({p}) = {b}
  BY DEF Headers
<1>2. Seen(heap', Drop(held, {p})) = HeapSpec!Without(Seen(heap, held), {b})
  <2>1. {p} \in SUBSET DOMAIN held
    OBVIOUS
  <2>2. Seen(heap', Drop(held, {p})) = HeapSpec!Without(Seen(heap, held), Headers({p}))
    BY <2>1, SeenDrop
  <2> QED
    BY <1>1, <2>2
<1>3. HeapSpec!Release(b)
  BY <1>2 DEF HeapSpec!Release, Blocks
<1>4. b \in HeapSpec!Of("caller")
  <2>1. b \in DOMAIN Blocks /\ Blocks[b] = Entry(heap, held[p], b)
    BY SeenAt DEF Blocks
  <2> QED
    BY <2>1, WhoseFacts DEF HeapSpec!Of, Entry
<1>5. HeapSpec!Next
  BY <1>3, <1>4 DEF HeapSpec!Next
<1> QED
  BY <1>5 DEF Follows

(* A block of a caller with the room for what it is now asked for.         *)
LEMMA KeepFollows ==
    ASSUME MallocAssumption, NEW p \in DOMAIN held, held[p].owner = NoFrame,
           DOMAIN held \in SUBSET Nat,
           Sizes(heap, heap', Headers(DOMAIN held)), NEW r, r.owner = NoFrame,
           r.req \in BlockRequests, HeapSpec!Roomy(m_size(heap, p - 1), r.req),
           held' = Hold(Drop(held, {p}), p, r)
    PROVE  Follows
<1> DEFINE b == p - 1
<1>1. Seen(heap', Hold(Drop(held, {p}), p, r)) = [Seen(heap, held) EXCEPT ![b].req = r.req]
  BY SeenKeep
<1>2. Blocks' = [Blocks EXCEPT ![b].req = r.req]
  BY <1>1 DEF Blocks
<1>3. b \in DOMAIN Blocks /\ Blocks[b] = Entry(heap, held[p], b)
  BY SeenAt DEF Blocks
<1> HIDE DEF b
<1>4. HeapSpec!Keep(b, r.req)
  BY <1>2, <1>3 DEF HeapSpec!Keep, Entry, b
<1>5. b \in HeapSpec!Of("caller")
  BY <1>3, WhoseFacts DEF HeapSpec!Of, Entry
<1>6. HeapSpec!Next
  BY <1>4, <1>5 DEF HeapSpec!Next
<1> QED
  BY <1>6 DEF Follows

(* A block of a caller that has not moves, out of the way of all others.   *)
LEMMA MoveFollows ==
    ASSUME MallocAssumption, NEW p \in DOMAIN held, held[p].owner = NoFrame,
           DOMAIN held \in SUBSET Nat,
           Sizes(heap, heap', Headers(DOMAIN held \ {p})), NEW r, r.owner = NoFrame,
           r.req \in BlockRequests, ~HeapSpec!Roomy(m_size(heap, p - 1), r.req),
           NEW u, NEW q, Puts(heap, held, u, q, r, held), m_size(heap', q - 1) = m_size(u, q - 1),
           held' = Hold(Drop(held, {p}), q, r)
    PROVE  Follows
<1> DEFINE b == q - 1
           o == p - 1
           X == Headers(DOMAIN held)
           len == m_size(u, b)
           A == Blocks
<1>1. /\ q \in Nat /\ q \notin DOMAIN held /\ DOMAIN held \in SUBSET Nat
      /\ Good(u, X \cup {b}) /\ b \notin X /\ MemSize * len >= MemSize + r.req
      /\ Sizes(heap, u, X)
  BY DEF Puts
<1>2. Proper(u, b, r.req)
  <2> DEFINE B == X \cup {b}
  <2>1. Good(u, B) /\ b \in B
    BY <1>1
  <2> HIDE DEF B, b
  <2> QED
    BY <1>1, <2>1, ProperFacts
<1>3. DOMAIN A = X /\ \A c \in X : A[c].len = m_size(u, c)
  BY <1>1, SeenFacts DEF Blocks, Sizes, Entry
<1>4. HeapSpec!Fits(A, b, len)
  <2> HIDE DEF A, X, b
  <2> QED
    BY <1>1, <1>3, FitsFacts
<1>5. Blocks' = HeapSpec!Without(HeapSpec!Placed(A, b, [len |-> len, req |-> r.req, of |-> "caller"]), {o})
  <2>1. Seen(heap', Hold(Drop(held, {p}), q, r)) =
          HeapSpec!Without(HeapSpec!Placed(Seen(heap, held), b, Entry(heap', r, b)), {o})
    BY <1>1, SeenMove
  <2>2. Entry(heap', r, b) = [len |-> len, req |-> r.req, of |-> "caller"]
    BY WhoseFacts DEF Entry
  <2> QED
    BY <2>1, <2>2 DEF Blocks
<1>6. o \in DOMAIN A /\ A[o] = Entry(heap, held[p], o)
  BY SeenAt DEF Blocks
<1>7. ~HeapSpec!Roomy(A[o].len, r.req) /\ o \in HeapSpec!Of("caller")
  BY <1>6, WhoseFacts DEF HeapSpec!Of, Entry
<1> HIDE DEF b, len, o
<1>8. HeapSpec!Move(o, b, len, r.req)
  BY <1>4, <1>5, <1>7 DEF HeapSpec!Move
<1>9. b \in HeapSpec!Cells /\ len \in HeapSpec!Lengths /\ HeapSpec!Roomy(len, r.req)
  BY <1>2 DEF Proper, len
<1>10. HeapSpec!Next
  BY <1>7, <1>8, <1>9 DEF HeapSpec!Next
<1> QED
  BY <1>10 DEF Follows

(* alloca's garbage is garbage in Heap.                                    *)
LEMMA GarbageSeen ==
    ASSUME DOMAIN held \in SUBSET Nat, NEW D \in SUBSET DOMAIN held,
           \A p \in D : held[p].owner = DeadFrame
    PROVE  Headers(D) \in SUBSET HeapSpec!Of("gone")
<1> SUFFICES ASSUME NEW p \in D PROVE p - 1 \in HeapSpec!Of("gone")
  BY DEF Headers
<1>1. p - 1 \in DOMAIN Blocks /\ Blocks[p - 1] = Entry(heap, held[p], p - 1)
  BY SeenAt DEF Blocks
<1> QED
  BY <1>1, WhoseFacts DEF HeapSpec!Of, Entry

(* It goes,                                                                *)
LEMMA ReclaimFollows ==
    ASSUME DOMAIN held \in SUBSET Nat, NEW D \in SUBSET DOMAIN held,
           \A p \in D : held[p].owner = DeadFrame,
           Sizes(heap, heap', Headers(DOMAIN held \ D)), held' = Drop(held, D)
    PROVE  Follows
<1> DEFINE S == Headers(D)
<1>1. Blocks' = HeapSpec!Without(Blocks, S)
  BY SeenDrop DEF Blocks
<1>2. S \in SUBSET HeapSpec!Of("gone")
  BY GarbageSeen
<1> HIDE DEF S
<1>3. HeapSpec!Next
  BY <1>1, <1>2 DEF HeapSpec!Next, HeapSpec!Reclaim
<1> QED
  BY <1>3 DEF Follows

(* and a block of the running function may come.                           *)
LEMMA ReclaimAcquireFollows ==
    ASSUME MallocAssumption, NEW D \in SUBSET DOMAIN held,
           \A p \in D : held[p].owner = DeadFrame,
           NEW p, NEW r, r.owner \in Nat, r.req \in BlockRequests,
           Puts(heap, held, heap', p, r, Drop(held, D)), held' = Hold(Drop(held, D), p, r)
    PROVE  Follows
<1> DEFINE b == p - 1
           S == Headers(D)
           e == Drop(held, D)
           X == Headers(DOMAIN e)
           len == m_size(heap', b)
           A == HeapSpec!Without(Blocks, S)
<1>1. /\ p \in Nat /\ p \notin DOMAIN e /\ DOMAIN held \in SUBSET Nat
      /\ Good(heap', X \cup {b}) /\ b \notin X /\ MemSize * len >= MemSize + r.req
      /\ Sizes(heap, heap', X)
  BY DEF Puts
<1>2. Proper(heap', b, r.req)
  <2> DEFINE B == X \cup {b}
  <2>1. Good(heap', B) /\ b \in B
    BY <1>1
  <2> HIDE DEF B, b
  <2> QED
    BY <1>1, <2>1, ProperFacts
<1>3. DOMAIN e = DOMAIN held \ D /\ DOMAIN e \in SUBSET Nat
  BY <1>1, DropFacts
<1>4. Seen(heap', e) = A
  <2> HIDE DEF e
  <2>1. Sizes(heap, heap', Headers(DOMAIN held \ D))
    BY <1>1, <1>3
  <2> QED
    BY <1>1, <2>1, SeenDrop DEF Blocks, e
<1> HIDE DEF e, A
<1>5. DOMAIN A = X /\ \A c \in X : A[c].len = m_size(heap', c)
  <2>1. /\ DOMAIN Seen(heap', e) = X
        /\ \A c \in X : Seen(heap', e)[c] = Entry(heap', e[c + 1], c)
    BY <1>3, SeenFacts
  <2> QED
    BY <1>4, <2>1 DEF Entry
<1>6. HeapSpec!Fits(A, b, len)
  <2> HIDE DEF X, b
  <2> QED
    BY <1>1, <1>5, FitsFacts
<1>7. Blocks' = HeapSpec!Placed(A, b, [len |-> len, req |-> r.req, of |-> "frame"])
  <2>1. Sizes(heap', heap', X)
    BY DEF Sizes
  <2>2. Seen(heap', Hold(e, p, r)) = HeapSpec!Placed(Seen(heap', e), b, Entry(heap', r, b))
    BY <1>1, <1>3, <2>1, SeenHold
  <2>3. Entry(heap', r, b) = [len |-> len, req |-> r.req, of |-> "frame"]
    BY WhoseFacts DEF Entry
  <2> QED
    BY <1>4, <2>2, <2>3 DEF Blocks, e
<1>8. b \in HeapSpec!Cells /\ len \in HeapSpec!Lengths /\ HeapSpec!Roomy(len, r.req)
  BY <1>2 DEF Proper
<1>9. S \in SUBSET HeapSpec!Of("gone")
  BY <1>1, GarbageSeen
<1> HIDE DEF b, len, S
<1>10. HeapSpec!ReclaimAcquire(S, b, len, r.req)
  BY <1>6, <1>7 DEF HeapSpec!ReclaimAcquire, A
<1>11. HeapSpec!Next
  BY <1>8, <1>9, <1>10 DEF HeapSpec!Next
<1> QED
  BY <1>11 DEF Follows

(* Functions return: their blocks are garbage from now on.                 *)
LEMMA LeaveFollows ==
    ASSUME NEW d \in Nat, DOMAIN held \in SUBSET Nat, heap' = heap,
           \A p \in DOMAIN held : held[p] \in Record(depth),
           held' = [p \in DOMAIN held |-> IF held[p].owner > d
                                          THEN [held[p] EXCEPT !.owner = DeadFrame]
                                          ELSE held[p]]
    PROVE  Follows
<1> DEFINE X == Headers(DOMAIN held)
           A == Blocks
           S == {b \in X : held[b + 1].owner > d}
           k == [p \in DOMAIN held |-> IF held[p].owner > d
                                          THEN [held[p] EXCEPT !.owner = DeadFrame]
                                          ELSE held[p]]
           After(b) == IF b \in S THEN [A[b] EXCEPT !.of = "gone"] ELSE A[b]
<1>1. /\ DOMAIN A = X /\ \A b \in X : /\ A[b] = Entry(heap, held[b + 1], b)
                                     /\ b + 1 \in DOMAIN held
  BY SeenFacts DEF Blocks
<1>2. DOMAIN k = DOMAIN held
  OBVIOUS
<1>3. Blocks' = [b \in X |-> Entry(heap, k[b + 1], b)]
  <2>1. Seen(heap, k) = [b \in X |-> Entry(heap, k[b + 1], b)]
    <3> HIDE DEF k
    <3> QED
      BY <1>2, SeenFacts
  <2> QED
    BY <2>1 DEF Blocks
<1>4. ASSUME NEW b \in X
      PROVE  /\ Entry(heap, k[b + 1], b) = After(b)
             /\ b \in S => A[b].of = "frame"
  <2> DEFINE r == held[b + 1]
             m == m_size(heap, b)
             t == [r EXCEPT !.owner = DeadFrame]
  <2>1. k[b + 1] = (IF r.owner > d THEN t ELSE r) /\ A[b] = Entry(heap, r, b)
    BY <1>1, <1>4
  <2>2. r \in Record(depth) /\ (b \in S <=> r.owner > d)
    BY <1>1, <1>4
  <2> HIDE DEF r, k, A, S
  <2>a. CASE r.owner > d
    <3>1. t.req = r.req /\ t.owner = DeadFrame
      BY <2>2 DEF Record
    <3>2. r.owner # NoFrame /\ r.owner # DeadFrame
      BY <2>a DEF NoFrame, DeadFrame
    <3>3. A[b] = [len |-> m, req |-> r.req, of |-> "frame"]
      BY <2>1, <3>2 DEF Entry, Whose
    <3>4. Entry(heap, t, b) = [len |-> m, req |-> r.req, of |-> "gone"]
      BY <3>1 DEF Entry, Whose, NoFrame, DeadFrame
    <3> HIDE DEF m, t
    <3> QED
      BY <2>1, <2>2, <2>a, <3>3, <3>4
  <2>b. CASE ~(r.owner > d)
    BY <2>1, <2>2, <2>b
  <2> QED
    BY <2>a, <2>b
<1>5. S \in SUBSET HeapSpec!Of("frame")
  BY <1>1, <1>4 DEF HeapSpec!Of
<1>6. Blocks' = [b \in DOMAIN A |-> After(b)]
  <2> HIDE DEF k, S, A
  <2> QED
    BY <1>1, <1>3, <1>4
<1> HIDE DEF S
<1>7. HeapSpec!Return(S)
  BY <1>6 DEF HeapSpec!Return
<1>8. HeapSpec!Next
  BY <1>5, <1>7 DEF HeapSpec!Next
<1> QED
  BY <1>8 DEF Follows

-----------------------------------------------------------------------------
(* An empty heap.                                                          *)
LEMMA InitInv ==
    ASSUME MallocAssumption, Init PROVE IInv
<1>1. heap = HeapInit /\ alloca_stack = NULL /\ held = <<>> /\ depth = 0
  BY DEF Init
<1>2. /\ heap \in Heaps /\ heap.brk = Base /\ heap.freed = NULL /\ heap.chunk = NULL
  BY <1>1 DEF HeapInit, Heaps, Cell, NULL, MallocAssumption
<1>3. DOMAIN held = {} /\ IsFunction(held) /\ Headers(DOMAIN held) = {}
  BY <1>1 DEF IsFunction, Headers
<1> DEFINE s == <<>>
<1>4. Stack(heap, NULL, s, 0) /\ Elems(s, 0) = {}
  BY DEF Stack, Elems
<1>5. Good(heap, {})
  <2>1. Laid(heap, {})
    BY <1>2 DEF Laid, Cell, MallocAssumption
  <2>2. Cycle(heap, {})
    BY DEF Cycle
  <2>3. Arranged(heap, {}, {}, {})
    BY <1>2, <2>1, <2>2 DEF Arranged
  <2>4. {} \cup Elems(s, 0) = {} /\ Elems(s, 0) \cap {} = {}
    BY <1>4
  <2>5. Managed(heap, {}, s, 0, {})
    BY <1>2, <1>4, <2>3, <2>4 DEF Managed
  <2> QED
    BY <2>5 DEF Good
<1>6. Listed(heap, held, NULL)
  <2>1. Framed(held) = {}
    BY <1>3 DEF Framed
  <2>2. Nested(heap, s, 0)
    BY DEF Nested
  <2>3. Frames(heap, held, NULL, s, 0)
    BY <1>4, <2>1, <2>2 DEF Frames
  <2> QED
    BY <2>3 DEF Listed
<1>7. Holds(heap, held, depth)
  BY <1>3, <1>5 DEF Holds
<1>8. alloca_stack = NULL /\ depth \in 0 .. MaxDepth
  BY <1>1 DEF MallocAssumption
<1> QED
  BY <1>3, <1>6, <1>7, <1>8 DEF IInv, Sound

(* None of the sizes asked for wraps.                                      *)
LEMMA RequestFacts ==
    ASSUME MallocAssumption, SizesAssumption
    PROVE  /\ \A req \in Requests : Rounds(req) /\ req \in Nat
           /\ \A req \in ClearRequests : Rounds(req) /\ req \in Nat
           /\ \A req \in AllocaRequests : Rounds(MemSize * 2 + req) /\ req \in Nat
<1>1. \A req \in Requests : Rounds(req) /\ req \in Nat
  BY DEF MallocAssumption, SizesAssumption, BlockRequests, Rounds
<1>2. \A req \in ClearRequests : Rounds(req) /\ req \in Nat
  BY DEF MallocAssumption, SizesAssumption, BlockRequests, Rounds
<1>3. \A req \in AllocaRequests : Rounds(MemSize * 2 + req) /\ req \in Nat
  <2> TAKE req \in AllocaRequests
  <2> DEFINE n == 2 * MemSize + req
  <2>1. n \in {2 * MemSize + r : r \in AllocaRequests}
    OBVIOUS
  <2>2. n + 2 * MemSize - 1 <= 2 * MaxInt + 1
    <3> HIDE DEF n
    <3> QED
      BY <2>1 DEF SizesAssumption, BlockRequests
  <2>3. req \in Nat /\ MemSize \in Nat /\ MemSize * 2 + req = n
    BY DEF MallocAssumption
  <2> QED
    BY <2>2, <2>3 DEF Rounds
<1> QED
  BY <1>1, <1>2, <1>3

(* Nothing a running function has of alloca goes when a block is taken.    *)
LEMMA LivesTaken ==
    ASSUME NEW f, NEW p, p \notin DOMAIN f, NEW r, NEW k, k = Hold(f, p, r)
    PROVE  \A q \in DOMAIN f : q \in DOMAIN k /\ k[q] = f[q]
BY DEF Hold

(* From here on one lemma for each action: it keeps the invariant and      *)
(* takes away no block of a running function. First what malloc and calloc *)
(* share.                                                                  *)
LEMMA TakeGoes ==
    ASSUME MallocAssumption, IInv, NEW req \in BlockRequests, NEW got, NEW h, NEW data,
           Take(got, h, req, data), Sizes(heap, h, Headers(DOMAIN held)),
           IF got.p = NULL THEN Sound(h, held, alloca_stack, depth)
           ELSE /\ Sound(h, Hold(held, got.p, Owned(req, NoFrame, data)), alloca_stack, depth)
                /\ got.p \notin DOMAIN held
    PROVE  Goes
<1> DEFINE r == Owned(req, NoFrame, data)
<1>1. /\ heap' = h /\ alloca_stack' = alloca_stack /\ depth' = depth
      /\ held' = IF got.p = NULL THEN held ELSE Hold(held, got.p, r)
  BY DEF Take
<1>2. Sound(heap', held', alloca_stack', depth')
  BY <1>1
<1>3. IsFunction(held')
  BY <1>1 DEF IInv, IsFunction, Hold
<1>4. Lives
  BY <1>1, LivesTaken DEF Lives
<1>5. Follows
  <2>1. DOMAIN held \in SUBSET Nat
    BY SoundFacts DEF IInv
  <2>a. CASE got.p = NULL
    BY <1>1, <2>1, <2>a, StutterFollows
  <2>b. CASE got.p # NULL
    <3>1. r.owner = NoFrame /\ r.req \in BlockRequests
      BY DEF Owned
    <3>2. Sound(h, Hold(held, got.p, r), alloca_stack, depth) /\ got.p \notin DOMAIN held
      BY <2>b
    <3> HIDE DEF r
    <3>3. Puts(heap, held, h, got.p, r, held)
      BY <2>1, <3>2, PutsFacts
    <3>4. Puts(heap, held, heap', got.p, r, held) /\ held' = Hold(held, got.p, r)
      BY <1>1, <2>b, <3>3
    <3> QED
      BY <3>1, <3>4, AcquireFollows
  <2> QED
    BY <2>a, <2>b
<1> QED
  BY <1>1, <1>2, <1>3, <1>4, <1>5 DEF Goes, IInv

(* A call that returns NULL may have rearranged the heap.                  *)
LEMMA NullSound ==
    ASSUME MallocAssumption, IInv, NEW req, NEW got,
           Gives(heap, got, Headers(DOMAIN held), req), got.p = NULL
    PROVE  Sound(got.h, held, alloca_stack, depth) /\ Sizes(heap, got.h, Headers(DOMAIN held))
<1>1. Good(got.h, Headers(DOMAIN held)) /\ Spares(heap, got.h, Headers(DOMAIN held))
  BY DEF Gives
<1> QED
  BY <1>1, SoundSpared, SparesSizes DEF IInv

(* malloc, by a caller or through the pointer of the library.              *)
LEMMA WriteGoes ==
    ASSUME MallocAssumption, IInv, NEW req \in Nat, req \in BlockRequests, NEW got,
           Gives(heap, got, Headers(DOMAIN held), req), TakeAndWrite(got, req)
    PROVE  Goes
<1> DEFINE h == IF got.p = NULL THEN got.h ELSE Fill(got.h, UserCells(got.h, got.p), UserData)
<1>1. Take(got, h, req, UserData)
  BY DEF TakeAndWrite
<1>a. CASE got.p = NULL
  <2>1. Sound(h, held, alloca_stack, depth) /\ Sizes(heap, h, Headers(DOMAIN held))
    BY <1>a, NullSound
  <2> HIDE DEF h
  <2> QED
    BY <1>1, <1>a, <2>1, TakeGoes
<1>b. CASE got.p # NULL
  <2>1. Sound(heap, held, alloca_stack, depth) /\ depth \in Nat
    BY DEF IInv
  <2>2. /\ Sound(h, Hold(held, got.p, Owned(req, NoFrame, UserData)), alloca_stack, depth)
        /\ Sizes(heap, h, Headers(DOMAIN held))
    BY <1>b, <2>1, SoundWritten
  <2>3. got.p \notin DOMAIN held
    <3>1. Given(heap, held, got.h, got.p, req)
      BY <1>b, <2>1, GivenFacts
    <3> QED
      BY <3>1 DEF Given
  <2> HIDE DEF h
  <2> QED
    BY <1>1, <1>b, <2>2, <2>3, TakeGoes
<1> QED
  BY <1>a, <1>b

(* calloc.                                                                 *)
LEMMA CallocGoes ==
    ASSUME MallocAssumption, IInv, NEW req, Rounds(req), req \in BlockRequests,
           CallCalloc(1, req)
    PROVE  Goes
<1> DEFINE w == Word(1 * req)
           got == malloc(heap, req)
           c == calloc(heap, 1, req)
<1>1. req \in Nat /\ w = req
  <2>1. req \in Nat /\ 2 * MaxInt + 2 \in Nat /\ req < 2 * MaxInt + 2 /\ 1 * req = req
    BY DEF Rounds, MallocAssumption
  <2> DEFINE x == 2 * MaxInt + 2
  <2> HIDE DEF x
  <2>2. req \in Nat /\ x \in Nat \ {0} /\ req < x /\ w = req % x
    BY <2>1 DEF x, Word
  <2> HIDE DEF w
  <2>3. req % x = req
    BY <2>2
  <2> QED
    BY <2>2, <2>3
<1>2. c = Cleared(got, req) /\ Take(c, c.h, req, 0)
  <2>1. c = Cleared(malloc(heap, w), w)
    BY DEF calloc
  <2>2. Take(c, c.h, 1 * req, 0)
    BY DEF CallCalloc, TakeCleared
  <2> HIDE DEF w, c
  <2> QED
    BY <1>1, <2>1, <2>2
<1>3. Sound(heap, held, alloca_stack, depth) /\ depth \in Nat
  BY DEF IInv
<1>4. Gives(heap, got, Headers(DOMAIN held), req)
  <2>1. Good(heap, Headers(DOMAIN held))
    BY <1>3, SoundFacts
  <2> QED
    BY <2>1, MallocGood
<1> HIDE DEF got, c
<1>a. CASE got.p = NULL
  <2>1. c = got
    BY <1>2, <1>a DEF Cleared
  <2>2. Sound(c.h, held, alloca_stack, depth) /\ Sizes(heap, c.h, Headers(DOMAIN held))
    BY <1>4, <1>a, <2>1, NullSound
  <2> QED
    BY <1>2, <1>a, <2>1, <2>2, TakeGoes
<1>b. CASE got.p # NULL
  <2> DEFINE h == Fill(got.h, got.p .. got.p + CellsFor(req) - 2, 0)
  <2>1. c.h = h /\ c.p = got.p
    BY <1>2, <1>b DEF Cleared, Result
  <2>2. Given(heap, held, got.h, got.p, req)
    BY <1>1, <1>3, <1>4, <1>b, GivenFacts
  <2>3. got.p \notin DOMAIN held
    BY <2>2 DEF Given
  <2>4. req # 0
    <3>1. malloc(heap, 0).p = NULL
      BY DEF malloc, Result
    <3> QED
      BY <1>b, <3>1 DEF got
  <2>5. /\ Sound(h, Hold(held, got.p, Owned(req, NoFrame, 0)), alloca_stack, depth)
        /\ Sizes(heap, h, Headers(DOMAIN held))
    BY <1>3, <1>4, <1>b, <2>4, SoundCleared
  <2> HIDE DEF h
  <2> QED
    BY <1>2, <1>b, <2>1, <2>3, <2>5, TakeGoes
<1> QED
  BY <1>a, <1>b

(* free.                                                                   *)
LEMMA FreeGoes ==
    ASSUME MallocAssumption, IInv, NEW p \in DOMAIN held, CallFree(p)
    PROVE  Goes
<1> DEFINE X == Headers(DOMAIN held)
           b == p - 1
           h == FreeChunk(heap, b)
           k == Drop(held, {p})
<1>1. /\ held[p].owner = NoFrame /\ heap' = free(heap, p) /\ held' = k
      /\ alloca_stack' = alloca_stack /\ depth' = depth
  BY DEF CallFree
<1>2. Sound(heap, held, alloca_stack, depth) /\ depth \in 0 .. MaxDepth
  BY DEF IInv
<1>3. Good(heap, X) /\ b \in X /\ p \in Nat
  BY <1>2, SoundFacts DEF Headers
<1>4. p # NULL
  <2>1. b \in Nat
    <3> HIDE DEF X, b
    <3> QED
      BY <1>3, GoodFacts
  <2> QED
    BY <1>3, <2>1 DEF NULL
<1>5. heap' = h
  BY <1>1, <1>4 DEF free
<1>6. Good(h, X \ {b}) /\ Spares(heap, h, X \ {b})
  <2> DEFINE Y == X \ {b}
  <2>1. Y \cup {b} = X /\ b \notin Y
    BY <1>3
  <2>2. Good(heap, Y \cup {b})
    BY <1>3, <2>1
  <2> HIDE DEF Y, X, b
  <2>3. Good(h, Y) /\ Spares(heap, h, Y)
    BY <2>1, <2>2, FreeFacts
  <2> QED
    BY <2>3 DEF Y
<1> HIDE DEF h
<1>7. Sound(h, k, alloca_stack, depth)
  BY <1>1, <1>2, <1>6, SoundDrop
<1>8. IsFunction(k) /\ \A q \in DOMAIN held : q # p => q \in DOMAIN k /\ k[q] = held[q]
  BY DEF IsFunction, Drop
<1> HIDE DEF k
<1>9. Lives
  <2>1. held[p].owner \notin 0 .. depth'
    BY <1>1 DEF NoFrame
  <2> QED
    BY <1>1, <1>8, <2>1 DEF Lives
<1>10. Follows
  <2>1. DOMAIN held \in SUBSET Nat
    BY <1>2, SoundFacts
  <2>2. Headers(DOMAIN held \ {p}) = X \ {b}
    BY <1>3, <2>1, HeaderFacts
  <2>3. Sizes(heap, heap', Headers(DOMAIN held \ {p}))
    BY <1>5, <1>6, <2>2, SparesSizes
  <2> QED
    BY <1>1, <2>1, <2>3, ReleaseFollows DEF k
<1> QED
  BY <1>1, <1>2, <1>5, <1>7, <1>8, <1>9, <1>10 DEF Goes, IInv

(* What both ways out of realloc share.                                    *)
LEMMA ExchangeGoes ==
    ASSUME MallocAssumption, IInv, NEW p \in DOMAIN held, held[p].owner = NoFrame,
           NEW q, q \notin DOMAIN held \ {p}, NEW r, NEW h,
           heap' = h, held' = Hold(Drop(held, {p}), q, r),
           UNCHANGED <<alloca_stack, depth>>, Follows,
           Sound(h, Hold(Drop(held, {p}), q, r), alloca_stack, depth)
    PROVE  Goes
<1> DEFINE e == Drop(held, {p})
           k == Hold(e, q, r)
<1>1. DOMAIN e = DOMAIN held \ {p} /\ \A a \in DOMAIN e : e[a] = held[a]
  BY DEF Drop
<1> HIDE DEF e
<1>2. IsFunction(k) /\ DOMAIN k = DOMAIN e \cup {q} /\ \A a \in DOMAIN e : a # q => k[a] = e[a]
  BY DEF IsFunction, Hold
<1>3. held' = k
  BY DEF e
<1> HIDE DEF k
<1>4. Lives
  <2>1. held[p].owner \notin 0 .. depth'
    BY DEF NoFrame
  <2>2. \A a \in DOMAIN held : a # p => a \in DOMAIN k /\ k[a] = held[a]
    BY <1>1, <1>2
  <2> QED
    BY <1>3, <2>1, <2>2 DEF Lives
<1>5. Sound(heap', held', alloca_stack', depth')
  OBVIOUS
<1>6. IsFunction(held') /\ depth' \in 0 .. MaxDepth
  BY <1>2, <1>3 DEF IInv
<1> QED
  BY <1>4, <1>5, <1>6 DEF Goes, IInv

(* realloc: the block stays, moves, or cannot be moved.                    *)
LEMMA ReallocGoes ==
    ASSUME MallocAssumption, IInv, NEW p \in DOMAIN held, NEW req, Rounds(req), req \in BlockRequests,
           CallRealloc(p, req)
    PROVE  Goes
<1> DEFINE old == m_size(heap, p - 1) - 1
           t == realloc(heap, p, req)
           got == malloc(heap, req)
           data == held[p].data
           kept == KeptCells(held[p].req)
           r == Owned(req, NoFrame, data)
           k == Hold(Drop(held, {p}), t.p, r)
           g == Fill(t.h, Added(t.h, t.p, kept), data)
<1>1. /\ Sound(heap, held, alloca_stack, depth) /\ depth \in 0 .. MaxDepth /\ req \in Nat
      /\ IsFunction(held)
  BY DEF IInv, Rounds
<1>2. /\ held[p].owner = NoFrame
      /\ heap' = (IF t.p = NULL THEN t.h ELSE g)
      /\ held' = (IF t.p = NULL THEN held ELSE k)
      /\ UNCHANGED <<alloca_stack, depth>>
  BY DEF CallRealloc, TakeMoved, Added, KeptCells
<1>3. t = IF req <= old * MemSize THEN Result(heap, p) ELSE Moved(got, p, old)
  BY DEF realloc
<1>4. Good(heap, Headers(DOMAIN held)) /\ p \in Nat /\ p # NULL
  <2> DEFINE b == p - 1
             X == Headers(DOMAIN held)
  <2>1. Good(heap, X) /\ p \in Nat /\ b \in X
    BY <1>1, SoundFacts DEF Headers
  <2> HIDE DEF b, X
  <2>2. b \in Nat
    BY <2>1, GoodFacts
  <2> QED
    BY <2>1, <2>2 DEF NULL, b, X
<1>5. Gives(heap, got, Headers(DOMAIN held), req)
  BY <1>4, MallocGood
<1>6. DOMAIN held \in SUBSET Nat
  BY <1>1, SoundFacts
<1>7. /\ r.owner = NoFrame /\ r.req = req
      /\ HeapSpec!Roomy(old + 1, r.req) <=> req <= old * MemSize
  <2>1. r.owner = NoFrame /\ r.req = req
    BY DEF Owned
  <2> HIDE DEF r
  <2>2. old \in Int
    <3> DEFINE b == p - 1
               X == Headers(DOMAIN held)
    <3>1. b \in X /\ Good(heap, X)
      BY <1>4 DEF Headers
    <3> HIDE DEF b, X
    <3>2. m_size(heap, b) \in Nat
      BY <3>1, GoodFacts
    <3> QED
      BY <3>2 DEF b
  <2> HIDE DEF old
  <2>3. (old + 1) * MemSize = old * MemSize + MemSize /\ MemSize \in Nat
    BY <2>2 DEF MallocAssumption
  <2> DEFINE x == old * MemSize
  <2>4. x \in Int
    BY <2>2, <2>3
  <2> HIDE DEF x
  <2>5. (old + 1) * MemSize = x + MemSize
    BY <2>3 DEF x
  <2>6. HeapSpec!Roomy(old + 1, req) <=> req <= x
    <3>1. HeapSpec!Roomy(old + 1, req) <=> (old + 1) * MemSize >= MemSize + req
      BY DEF HeapSpec!Roomy
    <3>2. x + MemSize >= MemSize + req <=> req <= x
      BY <1>1, <2>3, <2>4
    <3> QED
      BY <2>5, <3>1, <3>2
  <2> QED
    BY <2>1, <2>6 DEF x
<1>8. old + 1 = m_size(heap, p - 1)
  <2> DEFINE b == p - 1
             X == Headers(DOMAIN held)
  <2>1. b \in X /\ Good(heap, X)
    BY <1>4 DEF Headers
  <2> HIDE DEF b, X
  <2>2. m_size(heap, b) \in Nat
    BY <2>1, GoodFacts
  <2> QED
    BY <2>2 DEF b
<1> HIDE DEF t, got
<1>a. CASE req <= old * MemSize
  <2>1. t.h = heap /\ t.p = p
    BY <1>3, <1>a DEF Result
  <2>2. /\ Sound(Fill(heap, Added(heap, p, kept), data), Hold(Drop(held, {p}), p, r),
                 alloca_stack, depth)
        /\ Sizes(heap, Fill(heap, Added(heap, p, kept), data), Headers(DOMAIN held))
    BY <1>1, <1>2, <1>a, SoundStays
  <2>3. Sound(g, k, alloca_stack, depth) /\ Sizes(heap, g, Headers(DOMAIN held))
    BY <2>1, <2>2
  <2>4. heap' = g /\ held' = k /\ t.p \notin DOMAIN held \ {p}
    BY <1>2, <1>4, <2>1
  <2> HIDE DEF g, r
  <2>5. Follows
    <3>1. held' = Hold(Drop(held, {p}), p, r) /\ Sizes(heap, heap', Headers(DOMAIN held))
      BY <2>1, <2>3, <2>4
    <3>2. HeapSpec!Roomy(m_size(heap, p - 1), r.req) /\ r.req \in BlockRequests
      BY <1>7, <1>8, <1>a
    <3> QED
      BY <1>2, <1>6, <1>7, <3>1, <3>2, KeepFollows
  <2> QED
    BY <1>2, <2>3, <2>4, <2>5, ExchangeGoes
<1>b. CASE ~(req <= old * MemSize) /\ got.p = NULL
  <2>1. t = got
    BY <1>3, <1>b DEF Moved
  <2>2. Sound(got.h, held, alloca_stack, depth) /\ Sizes(heap, got.h, Headers(DOMAIN held))
    BY <1>5, <1>b, NullSound
  <2>3. heap' = got.h /\ held' = held /\ UNCHANGED <<alloca_stack, depth>>
    BY <1>2, <1>b, <2>1
  <2>4. Lives
    BY <2>3 DEF Lives
  <2>5. Follows
    BY <1>6, <2>2, <2>3, StutterFollows
  <2> QED
    BY <1>1, <2>2, <2>3, <2>4, <2>5 DEF Goes, IInv
<1>c. CASE ~(req <= old * MemSize) /\ got.p # NULL
  <2> DEFINE v == free(Copied(got, p, old), p)
  <2>1. t = Result(v, got.p)
    BY <1>3, <1>c DEF Moved
  <2>2. t.h = v /\ t.p = got.p
    BY <2>1 DEF Result
  <2> HIDE DEF v
  <2> DEFINE w == Fill(v, Added(v, got.p, kept), data)
  <2>3. /\ Sound(w, Hold(Drop(held, {p}), got.p, r), alloca_stack, depth)
        /\ Sizes(heap, w, Headers(DOMAIN held \ {p}))
        /\ m_size(w, got.p - 1) = m_size(got.h, got.p - 1)
    <3>1. v = free(Copied(got, p, old), p) /\ old = m_size(heap, p - 1) - 1
      BY DEF v
    <3> HIDE DEF old
    <3>2. Moves(heap, held, alloca_stack, depth, p, req, got, w)
      BY <1>1, <1>2, <1>5, <1>c, <3>1, SoundMoved
    <3> HIDE DEF w
    <3> QED
      BY <3>2 DEF Moves
  <2>4. g = w /\ k = Hold(Drop(held, {p}), got.p, r)
    BY <2>2
  <2>5. Given(heap, held, got.h, got.p, req)
    BY <1>1, <1>5, <1>c, GivenFacts
  <2>6. heap' = g /\ held' = k /\ t.p \notin DOMAIN held \ {p}
    BY <1>2, <1>c, <2>2, <2>5 DEF Given
  <2> HIDE DEF w, g, k, r
  <2>7. Follows
    <3>1. Puts(heap, held, got.h, got.p, r, held)
      BY <1>6, <1>7, <2>5, SparesSizes DEF Given, Puts
    <3>2. /\ held' = Hold(Drop(held, {p}), got.p, r)
          /\ Sizes(heap, heap', Headers(DOMAIN held \ {p}))
          /\ m_size(heap', got.p - 1) = m_size(got.h, got.p - 1)
      BY <2>3, <2>4, <2>6
    <3>3. ~HeapSpec!Roomy(m_size(heap, p - 1), r.req) /\ r.req \in BlockRequests
      BY <1>7, <1>8, <1>c
    <3> QED
      BY <1>2, <1>6, <1>7, <3>1, <3>2, <3>3, MoveFollows
  <2>8. Sound(w, Hold(Drop(held, {p}), t.p, r), alloca_stack, depth) /\ heap' = w
    BY <2>2, <2>3, <2>4, <2>6
  <2>9. held' = Hold(Drop(held, {p}), t.p, r)
    BY <2>6 DEF k
  <2> QED
    BY <1>2, <2>6, <2>7, <2>8, <2>9, ExchangeGoes
<1> QED
  BY <1>a, <1>b, <1>c

(* What alloca's garbage collection leaves.                                *)
LEMMA DropGoes ==
    ASSUME MallocAssumption, IInv, NEW gc, NEW D, D \subseteq DOMAIN held,
           \A p \in D : held[p].owner = DeadFrame, NEW k, IsFunction(k),
           \A p \in DOMAIN held \ D : p \in DOMAIN k /\ k[p] = held[p],
           NEW h, NEW hp, Sound(h, k, hp, depth),
           heap' = h, held' = k, alloca_stack' = hp, depth' = depth,
           Follows
    PROVE  Goes
<1>1. Sound(heap', held', alloca_stack', depth') /\ IsFunction(held') /\ depth' \in 0 .. MaxDepth
  BY DEF IInv
<1>2. Lives
  <2>1. \A p \in D : held[p].owner \notin 0 .. depth'
    BY DEF DeadFrame
  <2> QED
    BY <2>1 DEF Lives
<1> QED
  BY <1>1, <1>2 DEF Goes, IInv

(* alloca, after it has collected garbage: no block, the garbage only, or  *)
(* one block more.                                                         *)
LEMMA AllocaGoes ==
    ASSUME MallocAssumption, IInv, NEW req \in AllocaRequests, req \in Nat,
           Rounds(MemSize * 2 + req), CallAlloca(req)
    PROVE  Goes
<1> DEFINE gc == Collect(heap, alloca_stack)
           e == Drop(held, gc.dead)
           got == alloca_alloc(gc.h, MemSize * 2 + req)
<1>1. /\ Sound(heap, held, alloca_stack, depth) /\ depth \in Nat /\ depth' = depth
      /\ IsFunction(held)
  BY DEF IInv, CallAlloca
<1>2. IF req = 0 THEN Collected(gc) ELSE Allocated(gc, got, req)
  BY DEF CallAlloca, AfterCollect
<1>3. /\ Sound(gc.h, e, gc.hp, depth) /\ Settled(gc)
      /\ gc.dead \subseteq DOMAIN held /\ \A p \in gc.dead : held[p].owner = DeadFrame
      /\ gc \in [h : Heaps, hp : Nat, dead : SUBSET DOMAIN held]
      /\ Sizes(heap, gc.h, Headers(DOMAIN held \ gc.dead))
  BY <1>1, CollectGood DEF IsFunction
<1>4. Good(gc.h, Headers(DOMAIN e))
  BY <1>3, SoundFacts
<1>5. Gives(gc.h, got, Headers(DOMAIN e), MemSize * 2 + req)
  BY <1>4, AllocaAllocGood
<1>6. IsFunction(e) /\ \A p \in DOMAIN held \ gc.dead : p \in DOMAIN e /\ e[p] = held[p]
  BY DEF Drop, IsFunction
<1>7. DOMAIN held \in SUBSET Nat /\ DOMAIN e = DOMAIN held \ gc.dead
  BY <1>1, SoundFacts, DropFacts
<1> HIDE DEF gc, got
<1>a. CASE req = 0
  <2>1. heap' = gc.h /\ held' = e /\ alloca_stack' = gc.hp
    BY <1>2, <1>a DEF Collected
  <2>2. Follows
    <3>1. Sizes(heap, heap', Headers(DOMAIN held \ gc.dead))
      BY <1>3, <2>1
    <3> QED
      BY <1>3, <1>7, <2>1, <3>1, ReclaimFollows
  <2> HIDE DEF e
  <2> QED
    BY <1>1, <1>3, <1>6, <2>1, <2>2, DropGoes
<1>b. CASE req # 0 /\ got.p = NULL
  <2>1. heap' = got.h /\ held' = e /\ alloca_stack' = gc.hp
    <3>1. Collected([gc EXCEPT !.h = got.h])
      BY <1>2, <1>b DEF Allocated
    <3>2. gc \in [h : Heaps, hp : Nat, dead : SUBSET DOMAIN held]
      BY <1>3
    <3> DEFINE c == [gc EXCEPT !.h = got.h]
    <3>3. c.h = got.h /\ c.hp = gc.hp /\ c.dead = gc.dead
      BY <3>2
    <3> HIDE DEF c
    <3> QED
      BY <3>1, <3>3 DEF Collected, c
  <2> HIDE DEF e
  <2>2. Good(got.h, Headers(DOMAIN e)) /\ Spares(gc.h, got.h, Headers(DOMAIN e))
    BY <1>5, <1>b DEF Gives
  <2>3. Sound(got.h, e, gc.hp, depth)
    BY <1>3, <2>2, SoundSpared
  <2>4. Follows
    <3>1. Sizes(gc.h, got.h, Headers(DOMAIN e))
      BY <2>2, SparesSizes
    <3>2. Sizes(heap, heap', Headers(DOMAIN held \ gc.dead))
      BY <1>3, <1>7, <2>1, <3>1 DEF Sizes
    <3> QED
      BY <1>3, <1>7, <2>1, <3>2, ReclaimFollows DEF e
  <2> QED
    BY <1>1, <1>3, <1>6, <2>1, <2>3, <2>4, DropGoes
<1>c. CASE req # 0 /\ got.p # NULL
  <2> DEFINE r == Owned(2 * MemSize + req, depth, UserData)
             g == Fill(Header(got.h, got.p, gc.hp), UserCells(got.h, got.p) \ {got.p, got.p + 1}, UserData)
             k == Hold(e, got.p, r)
  <2>1. heap' = g /\ held' = k /\ alloca_stack' = got.p
    BY <1>2, <1>c DEF Allocated
  <2> HIDE DEF e
  <2>2. MemSize * 2 + req = 2 * MemSize + req /\ 2 * MemSize + req \in Nat
    BY DEF MallocAssumption
  <2>3. Gives(gc.h, got, Headers(DOMAIN e), 2 * MemSize + req)
    BY <1>5, <2>2
  <2>4. Sound(g, k, got.p, depth) /\ Sizes(gc.h, g, Headers(DOMAIN e))
    BY <1>1, <1>3, <1>c, <2>3, SoundFramed DEF Settled
  <2>5. got.p \notin DOMAIN e
    <3>1. Given(gc.h, e, got.h, got.p, 2 * MemSize + req)
      BY <1>3, <1>c, <2>2, <2>3, GivenFacts
    <3> QED
      BY <3>1 DEF Given
  <2>6. IsFunction(k) /\ \A p \in DOMAIN held \ gc.dead : p \in DOMAIN k /\ k[p] = held[p]
    <3>1. \A p \in DOMAIN e : p \in DOMAIN k /\ k[p] = e[p]
      BY <2>5, LivesTaken
    <3>2. IsFunction(k)
      BY DEF IsFunction, Hold
    <3> HIDE DEF k
    <3> QED
      BY <1>6, <3>1, <3>2
  <2>7. r.owner \in Nat /\ r.req \in BlockRequests
    BY <1>1 DEF Owned, BlockRequests
  <2> HIDE DEF r
  <2>8. Sound(g, Hold(e, got.p, r), got.p, depth)
    BY <2>4
  <2> HIDE DEF g, k
  <2>9. Follows
    <3>1. Sizes(heap, g, Headers(DOMAIN e))
      BY <1>3, <1>7, <2>4 DEF Sizes
    <3>2. Puts(heap, held, g, got.p, r, e)
      BY <1>7, <2>5, <2>8, <3>1, PutsFacts
    <3>3. Puts(heap, held, heap', got.p, r, Drop(held, gc.dead))
      BY <2>1, <3>2 DEF e
    <3>4. held' = Hold(Drop(held, gc.dead), got.p, r)
      BY <2>1 DEF e, k
    <3> QED
      BY <1>3, <2>7, <3>3, <3>4, ReclaimAcquireFollows
  <2> QED
    BY <1>1, <1>3, <2>1, <2>4, <2>6, <2>9, DropGoes
<1> QED
  BY <1>a, <1>b, <1>c

(* A call of a function: its depth is greater than that of any other.      *)
LEMMA EnterGoes ==
    ASSUME MallocAssumption, IInv, EnterFunction
    PROVE  Goes
<1>1. /\ depth < MaxDepth /\ depth' = depth + 1 /\ heap' = heap /\ alloca_stack' = alloca_stack
      /\ held' = held
  BY DEF EnterFunction
<1>2. /\ Holds(heap, held, depth) /\ Listed(heap, held, alloca_stack) /\ IsFunction(held)
      /\ depth \in 0 .. MaxDepth
  BY DEF IInv, Sound
<1>3. Record(depth) \subseteq Record(depth + 1)
  BY <1>2 DEF Record
<1>4. Holds(heap, held, depth + 1)
  BY <1>2, <1>3 DEF Holds, InUse
<1>5. depth + 1 \in 0 .. MaxDepth
  BY <1>1, <1>2 DEF MallocAssumption
<1>6. Lives
  BY <1>1 DEF Lives
<1>7. Follows
  BY <1>1 DEF Follows, Blocks
<1> QED
  BY <1>1, <1>2, <1>4, <1>5, <1>6, <1>7 DEF Goes, IInv, Sound

(* A return or a longjmp: blocks of the functions left become garbage.     *)
LEMMA LeaveGoes ==
    ASSUME MallocAssumption, IInv, NEW d \in Nat, LeaveTo(d)
    PROVE  Goes
<1> DEFINE k == [p \in DOMAIN held |-> IF held[p].owner > d
                                       THEN [held[p] EXCEPT !.owner = DeadFrame]
                                       ELSE held[p]]
<1>1. /\ d < depth /\ depth' = d /\ heap' = heap /\ alloca_stack' = alloca_stack
      /\ held' = k
  BY DEF LeaveTo
<1>2. /\ Holds(heap, held, depth) /\ Listed(heap, held, alloca_stack)
      /\ depth \in 0 .. MaxDepth
  BY DEF IInv, Sound
<1>3. DOMAIN k = DOMAIN held /\ IsFunction(k)
  BY DEF IsFunction
<1>4. \A p \in DOMAIN held : /\ InUse(heap, p, k[p], d)
                             /\ k[p].owner = NoFrame <=> held[p].owner = NoFrame
                             /\ held[p].owner <= d => k[p] = held[p]
  <2> TAKE p \in DOMAIN held
  <2> DEFINE r == held[p]
             t == [r EXCEPT !.owner = DeadFrame]
  <2>1. InUse(heap, p, r, depth)
    BY <1>2 DEF Holds
  <2>2. k[p] = IF r.owner > d THEN t ELSE r
    OBVIOUS
  <2> HIDE DEF r, k
  <2>3. /\ r \in Record(depth) /\ p \in Nat /\ Room(heap, p, r) /\ Contents(heap, p, r)
        /\ Frame(heap, p, r)
    BY <2>1 DEF InUse
  <2>4. /\ r.owner \in Int /\ r.owner \in {NoFrame, DeadFrame} \cup (0 .. depth) /\ depth \in Nat
        /\ r.req \in Nat /\ r.data \in {0, UserData}
    BY <1>2, <2>3 DEF Record, NoFrame, DeadFrame
  <2>a. CASE r.owner > d
    <3>1. t \in Record(d) /\ t.req = r.req /\ t.data = r.data /\ t.owner = DeadFrame
      BY <2>3, <2>4 DEF Record
    <3>2. r.owner # NoFrame /\ DeadFrame # NoFrame
      BY <2>4, <2>a DEF NoFrame, DeadFrame
    <3>3. k[p] = t
      BY <2>2, <2>a
    <3> HIDE DEF t
    <3>4. Room(heap, p, t)
      BY <2>3, <3>1 DEF Room
    <3>5. Contents(heap, p, t)
      BY <2>3, <3>1, <3>2 DEF Contents
    <3>6. Frame(heap, p, t)
      BY <2>3, <3>1, <3>2 DEF Frame
    <3>7. InUse(heap, p, t, d)
      BY <2>3, <3>1, <3>4, <3>5, <3>6 DEF InUse
    <3>8. ~(r.owner <= d)
      BY <2>4, <2>a
    <3> QED
      BY <3>1, <3>2, <3>3, <3>7, <3>8 DEF r
  <2>b. CASE ~(r.owner > d)
    <3>1. r.owner \in {NoFrame, DeadFrame} \cup (0 .. d)
      BY <2>4, <2>b
    <3>2. r \in Record(d)
      BY <2>3, <3>1 DEF Record
    <3>3. InUse(heap, p, r, d)
      BY <2>3, <3>2 DEF InUse
    <3>4. k[p] = r
      BY <2>2, <2>b
    <3> QED
      BY <3>3, <3>4 DEF r
  <2> QED
    BY <2>a, <2>b
<1>10. Follows
  <2>1. DOMAIN held \in SUBSET Nat /\ \A p \in DOMAIN held : held[p] \in Record(depth)
    BY <1>2 DEF Holds, InUse
  <2> QED
    BY <1>1, <2>1, LeaveFollows
<1> HIDE DEF k
<1>5. Holds(heap, k, d)
  BY <1>2, <1>3, <1>4 DEF Holds
<1>6. Framed(k) = Framed(held)
  BY <1>3, <1>4 DEF Framed
<1>7. Listed(heap, k, alloca_stack)
  BY <1>2, <1>6 DEF Listed, Frames
<1>8. d \in 0 .. MaxDepth
  BY <1>1, <1>2 DEF MallocAssumption
<1>9. Lives
  BY <1>1, <1>3, <1>4 DEF Lives
<1> QED
  BY <1>1, <1>3, <1>5, <1>7, <1>8, <1>9, <1>10 DEF Goes, IInv, Sound

(* Every step.                                                             *)
LEMMA NextGoes ==
    ASSUME MallocAssumption, SizesAssumption, IInv, [Next]_vars
    PROVE  Goes
<1>0. Good(heap, Headers(DOMAIN held))
  BY SoundFacts DEF IInv
<1>1. ASSUME NEW req \in Requests, CallMalloc(req) PROVE Goes
  <2>1. Rounds(req) /\ req \in Nat /\ req \in BlockRequests
    BY RequestFacts DEF BlockRequests
  <2>2. Gives(heap, malloc(heap, req), Headers(DOMAIN held), req)
    BY <1>0, <2>1, MallocGood
  <2> QED
    BY <1>1, <2>1, <2>2, WriteGoes DEF CallMalloc
<1>2. ASSUME NEW req \in Requests, CallLibMalloc(req) PROVE Goes
  <2>1. Rounds(req) /\ req \in Nat /\ req \in BlockRequests
    BY RequestFacts DEF BlockRequests
  <2>2. Gives(heap, alloca_alloc(heap, req), Headers(DOMAIN held), req)
    BY <1>0, <2>1, AllocaAllocGood
  <2> QED
    BY <1>2, <2>1, <2>2, WriteGoes DEF CallLibMalloc
<1>3. ASSUME NEW req \in Requests, NEW p \in DOMAIN held, CallRealloc(p, req) PROVE Goes
  <2>1. Rounds(req) /\ req \in BlockRequests
    BY RequestFacts DEF BlockRequests
  <2> QED
    BY <1>3, <2>1, ReallocGoes
<1>4. ASSUME NEW req \in ClearRequests, CallCalloc(1, req) PROVE Goes
  <2>1. Rounds(req) /\ req \in BlockRequests
    BY RequestFacts DEF BlockRequests
  <2> QED
    BY <1>4, <2>1, CallocGoes
<1>5. ASSUME NEW req \in AllocaRequests, CallAlloca(req) PROVE Goes
  BY <1>5, RequestFacts, AllocaGoes
<1>6. ASSUME NEW p \in DOMAIN held, CallFree(p) PROVE Goes
  BY <1>6, FreeGoes
<1>7. CASE EnterFunction
  BY <1>7, EnterGoes
<1>8. ASSUME NEW d \in 0 .. MaxDepth - 1, LeaveTo(d) PROVE Goes
  BY <1>8, LeaveGoes
<1>9. CASE UNCHANGED vars
  <2>1. IInv'
    BY <1>9 DEF IInv, vars
  <2>2. Lives
    BY <1>9 DEF Lives, vars
  <2>3. Follows
    BY <1>9 DEF Follows, Blocks, vars
  <2> QED
    BY <2>1, <2>2, <2>3 DEF Goes
<1> QED
  BY <1>1, <1>2, <1>3, <1>4, <1>5, <1>6, <1>7, <1>8, <1>9 DEF Next

(* Whatever the heap's size, the sizes asked for and the order of the      *)
(* calls of malloc, calloc, realloc, free and alloca, between two calls    *)
(* the allocator's memory is what IInv says. Each caller keeps to the      *)
(* cells of its block; no request is within two cells of what an unsigned  *)
(* int can say.                                                            *)
THEOREM Invariant == Spec => []IInv
<1>1. Init => IInv
  BY InitInv, MallocAssumption
<1>2. IInv /\ [Next]_vars => IInv'
  BY NextGoes, MallocAssumption, SizesAssumption DEF Goes
<1> QED
  BY <1>1, <1>2, PTL DEF Spec

(* A block of alloca stays, as it is, until its function has returned: the *)
(* garbage collection in alloca, which tells the functions apart by the    *)
(* depth of their stack only, never takes a block of one that runs.        *)
THEOREM BlocksOfFrames == Spec => AllocaLives
<1>1. IInv /\ [Next]_vars =>
         [\A p \in DOMAIN held :
             held[p].owner \in 0 .. depth' => p \in DOMAIN held' /\ held'[p] = held[p]]_vars
  BY NextGoes, MallocAssumption, SizesAssumption DEF Goes, Lives
<1> QED
  BY <1>1, Invariant, PTL DEF Spec, AllocaLives

(* malloc, calloc, realloc, free and alloca are what Heap promises: seen   *)
(* through the blocks held, each call is a step of Heap or none at all. A  *)
(* new block lies clear of every block held, the one realloc is about to   *)
(* give back included; a block that stays keeps its place, its length and  *)
(* its owner; free and realloc take the block they were given and no other,*)
(* and alloca takes garbage only. Together with Heap's own theorem this    *)
(* says that no two callers ever share a cell.                             *)
THEOREM FollowsHeap == Spec => Implements
<1>1. Init => HeapSpec!Init
  <2> SUFFICES ASSUME Init PROVE HeapSpec!Init
    OBVIOUS
  <2>1. DOMAIN held = {} /\ held = <<>>
    BY DEF Init
  <2>2. Blocks = <<>>
    BY <2>1 DEF Blocks, Seen
  <2> QED
    BY <2>2 DEF HeapSpec!Init
<1>2. IInv /\ [Next]_vars => [HeapSpec!Next]_Blocks
  BY NextGoes, MallocAssumption, SizesAssumption DEF Goes, Follows
<1> QED
  BY <1>1, <1>2, Invariant, PTL DEF Spec, Implements, HeapSpec!Spec

-----------------------------------------------------------------------------
(* The abstract heap's own invariant, of the blocks the callers hold.      *)
HeapInv == HeapSpec!TypeOK /\ HeapSpec!Sound

LEMMA HeapAssumed == HeapSpec!HeapAssumption
<1>1. BlockRequests \subseteq Nat
  BY MallocAssumption DEF BlockRequests
<1> QED
  BY <1>1, MallocAssumption DEF HeapSpec!HeapAssumption

(* Giving blocks back leaves the others sound.                             *)
LEMMA HeapWithoutSound ==
  ASSUME HeapInv, NEW S, Blocks' = HeapSpec!Without(Blocks, S)
  PROVE  HeapInv'
<1>1. DOMAIN Blocks' = DOMAIN Blocks \ S
  BY DEF HeapSpec!Without
<1>2. \A b \in DOMAIN Blocks' : Blocks'[b] = Blocks[b]
  BY DEF HeapSpec!Without
<1>3. HeapSpec!TypeOK'
  BY <1>1, <1>2 DEF HeapInv, HeapSpec!TypeOK, HeapSpec!Cells, HeapSpec!Lengths
<1>4. HeapSpec!Sound'
  BY <1>1, <1>2 DEF HeapInv, HeapSpec!Sound, HeapSpec!Roomy
<1> QED BY <1>3, <1>4 DEF HeapInv

(* A block placed where it fits among sound blocks leaves sound blocks;    *)
(* f stands for the blocks held when the place was chosen, a subset S of   *)
(* which is given back in the same step.                                   *)
LEMMA HeapPlacedSound ==
  ASSUME HeapSpec!HeapAssumption,
         NEW f,
         DOMAIN f \subseteq HeapSpec!Cells,
         \A b \in DOMAIN f : f[b] \in HeapSpec!Block,
         \A b, c \in DOMAIN f : b < c => b + f[b].len <= c,
         \A b \in DOMAIN f : b + f[b].len <= Limit /\ HeapSpec!Roomy(f[b].len, f[b].req),
         NEW at \in HeapSpec!Cells, NEW len \in HeapSpec!Lengths,
             NEW req \in BlockRequests,
         NEW of \in HeapSpec!Owners, HeapSpec!Roomy(len, req), HeapSpec!Fits(f, at, len),
         NEW S, Blocks' = HeapSpec!Without(HeapSpec!Placed(f, at, [len |-> len,
             req |-> req, of |-> of]), S)
  PROVE  HeapInv'
<1> DEFINE new == [len |-> len, req |-> req, of |-> of]
<1> DEFINE g == HeapSpec!Placed(f, at, new)
<1> USE DEF HeapSpec!HeapAssumption
<1>1. DOMAIN g = DOMAIN f \cup {at} /\ DOMAIN Blocks' = DOMAIN g \ S
  BY DEF HeapSpec!Placed, HeapSpec!With, HeapSpec!Without
<1>2. g[at] = new /\ new \in HeapSpec!Block /\ new.len = len /\ new.req = req
  BY DEF HeapSpec!Placed, HeapSpec!With, HeapSpec!Block
<1>3. \A b \in DOMAIN f : b # at => g[b] = f[b]
  BY DEF HeapSpec!Placed, HeapSpec!With
<1>4. \A b \in DOMAIN Blocks' : Blocks'[b] = g[b]
  BY DEF HeapSpec!Without
<1>5. \A b \in DOMAIN g : g[b] \in HeapSpec!Block
  BY <1>1, <1>2, <1>3
<1>6. HeapSpec!TypeOK'
  BY <1>1, <1>4, <1>5 DEF HeapSpec!TypeOK, HeapSpec!Cells
<1>7. ASSUME NEW b \in DOMAIN g, NEW c \in DOMAIN g, b < c
      PROVE  b + g[b].len <= c
  <2>1. CASE b = at
    <3>1. c \in DOMAIN f /\ c \in Int /\ at \in Int /\ len \in Int /\ g[b].len = len
      BY <2>1, <1>1, <1>2, <1>7 DEF HeapSpec!Cells, HeapSpec!Lengths
    <3>2. f[c].len \in Int /\ f[c].len > 0
      BY <3>1 DEF HeapSpec!Block, HeapSpec!Lengths
    <3>3. at + len <= c \/ c + f[c].len <= at
      BY <3>1 DEF HeapSpec!Fits
    <3> QED BY <3>1, <3>2, <3>3, <2>1, <1>7
  <2>2. CASE c = at
    BY <2>2, <1>1, <1>2, <1>3, <1>7 DEF HeapSpec!Fits, HeapSpec!Cells, HeapSpec!Lengths
  <2>3. CASE b # at /\ c # at
    BY <2>3, <1>1, <1>3, <1>7
  <2> QED BY <2>1, <2>2, <2>3
<1>8. ASSUME NEW b \in DOMAIN g
      PROVE  b + g[b].len <= Limit /\ HeapSpec!Roomy(g[b].len, g[b].req)
  BY <1>1, <1>2, <1>3 DEF HeapSpec!Fits
<1>9. HeapSpec!Sound'
  BY <1>1, <1>4, <1>7, <1>8 DEF HeapSpec!Sound, HeapSpec!Roomy
<1> QED BY <1>6, <1>9 DEF HeapInv

(* A block that stays where it is may be asked to hold another size.       *)
LEMMA HeapKeepSound ==
  ASSUME HeapInv, NEW b \in DOMAIN Blocks, NEW req \in BlockRequests,
      HeapSpec!Keep(b, req)
  PROVE  HeapInv'
<1>1. DOMAIN Blocks' = DOMAIN Blocks
  BY DEF HeapSpec!Keep
<1>2. Blocks'[b] = [Blocks[b] EXCEPT !.req = req] /\ Blocks[b] \in HeapSpec!Block
  BY DEF HeapSpec!Keep, HeapInv, HeapSpec!TypeOK
<1>3. Blocks'[b].len = Blocks[b].len /\ Blocks'[b].req = req /\ Blocks'[b] \in HeapSpec!Block
  BY <1>2 DEF HeapSpec!Block
<1>4. \A c \in DOMAIN Blocks : c # b => Blocks'[c] = Blocks[c]
  BY DEF HeapSpec!Keep
<1>5. HeapSpec!TypeOK'
  BY <1>1, <1>3, <1>4 DEF HeapInv, HeapSpec!TypeOK, HeapSpec!Cells, HeapSpec!Lengths
<1>6. \A c \in DOMAIN Blocks : Blocks'[c].len = Blocks[c].len
  BY <1>3, <1>4
<1>7. \A c \in DOMAIN Blocks : HeapSpec!Roomy(Blocks'[c].len, Blocks'[c].req)
  BY <1>3, <1>4 DEF HeapSpec!Keep, HeapInv, HeapSpec!Sound
<1>8. HeapSpec!Sound'
  BY <1>1, <1>6, <1>7 DEF HeapInv, HeapSpec!Sound, HeapSpec!Roomy
<1> QED BY <1>5, <1>8 DEF HeapInv

(* A function that returns changes whose its blocks are, and nothing else. *)
LEMMA HeapReturnSound ==
  ASSUME HeapInv, NEW S, HeapSpec!Return(S)
  PROVE  HeapInv'
<1>1. DOMAIN Blocks' = DOMAIN Blocks
  BY DEF HeapSpec!Return
<1>2. ASSUME NEW b \in DOMAIN Blocks
      PROVE  /\ Blocks'[b] \in HeapSpec!Block
             /\ Blocks'[b].len = Blocks[b].len
             /\ Blocks'[b].req = Blocks[b].req
  <2>1. Blocks[b] \in HeapSpec!Block
    BY DEF HeapInv, HeapSpec!TypeOK
  <2>2. Blocks'[b] = Blocks[b] \/ Blocks'[b] = [Blocks[b] EXCEPT !.of = "gone"]
    BY DEF HeapSpec!Return
  <2> QED BY <2>1, <2>2 DEF HeapSpec!Block, HeapSpec!Owners
<1>3. HeapSpec!TypeOK'
  BY <1>1, <1>2 DEF HeapInv, HeapSpec!TypeOK, HeapSpec!Cells, HeapSpec!Block,
      HeapSpec!Lengths
<1>4. HeapSpec!Sound'
  BY <1>1, <1>2 DEF HeapInv, HeapSpec!Sound, HeapSpec!Roomy
<1> QED BY <1>3, <1>4 DEF HeapInv

(* The abstract heap, on any memory: whatever is placed and given back, its*)
(* blocks never overlap, stay in the heap and have the room asked for.     *)
LEMMA HeapSound == HeapSpec!Spec => []HeapInv
<1>1. HeapSpec!Init => HeapInv
  BY DEF HeapSpec!Init, HeapInv, HeapSpec!TypeOK, HeapSpec!Sound
<1>A. HeapSpec!HeapAssumption
  BY HeapAssumed
<1>2. HeapInv /\ [HeapSpec!Next]_Blocks => HeapInv'
  <2> SUFFICES ASSUME HeapInv, [HeapSpec!Next]_Blocks PROVE HeapInv'
    OBVIOUS
  <2>1. CASE UNCHANGED Blocks
    BY <2>1 DEF HeapInv, HeapSpec!TypeOK, HeapSpec!Sound, HeapSpec!Cells,
        HeapSpec!Lengths, HeapSpec!Roomy
  <2>2. CASE \E b \in HeapSpec!Of("caller") : HeapSpec!Release(b)
    BY <2>2, HeapWithoutSound DEF HeapSpec!Release
  <2>3. CASE \E b \in HeapSpec!Of("caller"), req \in BlockRequests : HeapSpec!Keep(b, req)
    BY <2>3, HeapKeepSound DEF HeapSpec!Of
  <2>4. CASE \E S \in SUBSET HeapSpec!Of("frame") : HeapSpec!Return(S)
    BY <2>4, HeapReturnSound
  <2>6. CASE \E dead \in SUBSET HeapSpec!Of("gone") : HeapSpec!Reclaim(dead)
    BY <2>6, HeapWithoutSound DEF HeapSpec!Reclaim
  <2>5. ASSUME NEW at \in HeapSpec!Cells, NEW len \in HeapSpec!Lengths,
      NEW req \in BlockRequests,
               HeapSpec!Roomy(len, req),
               \/ HeapSpec!Acquire(at, len, req)
               \/ \E b \in HeapSpec!Of("caller") : HeapSpec!Move(b, at, len, req)
               \/ \E dead \in SUBSET HeapSpec!Of("gone") :
                   HeapSpec!ReclaimAcquire(dead, at, len, req)
        PROVE  HeapInv'
    <3>1. CASE HeapSpec!Acquire(at, len, req)
      <4>1. Blocks' = HeapSpec!Without(HeapSpec!Placed(Blocks, at, [len |-> len,
          req |-> req, of |-> "caller"]), {})
        BY <3>1 DEF HeapSpec!Acquire, HeapSpec!Without, HeapSpec!Placed, HeapSpec!With
      <4> QED BY <4>1, <3>1, <2>5, HeapPlacedSound, <1>A DEF HeapSpec!Acquire,
          HeapSpec!Owners, HeapInv, HeapSpec!TypeOK, HeapSpec!Sound
    <3>2. CASE \E b \in HeapSpec!Of("caller") : HeapSpec!Move(b, at, len, req)
      BY <3>2, <2>5, HeapPlacedSound, <1>A DEF HeapSpec!Move, HeapSpec!Owners,
          HeapInv, HeapSpec!TypeOK, HeapSpec!Sound
    <3>3. ASSUME NEW dead \in SUBSET HeapSpec!Of("gone"),
        HeapSpec!ReclaimAcquire(dead, at, len, req)
          PROVE  HeapInv'
      <4> DEFINE f == HeapSpec!Without(Blocks, dead)
      <4>1. DOMAIN f \subseteq DOMAIN Blocks /\ \A b \in DOMAIN f : f[b] = Blocks[b]
        BY DEF HeapSpec!Without
      <4>2. Blocks' = HeapSpec!Without(HeapSpec!Placed(f, at, [len |-> len,
          req |-> req, of |-> "frame"]), {})
        BY <3>3 DEF HeapSpec!ReclaimAcquire, HeapSpec!Without, HeapSpec!Placed,
            HeapSpec!With
      <4>3. /\ DOMAIN f \subseteq HeapSpec!Cells
            /\ \A b \in DOMAIN f : f[b] \in HeapSpec!Block
            /\ \A b, c \in DOMAIN f : b < c => b + f[b].len <= c
            /\ \A b \in DOMAIN f : b + f[b].len <= Limit /\ HeapSpec!Roomy(f[b].len,
                f[b].req)
        BY <4>1 DEF HeapInv, HeapSpec!TypeOK, HeapSpec!Sound
      <4>4. HeapSpec!Fits(f, at, len)
        BY <3>3 DEF HeapSpec!ReclaimAcquire
      <4> HIDE DEF f
      <4> QED BY <4>2, <4>3, <4>4, <2>5, HeapPlacedSound, <1>A DEF HeapSpec!Owners
    <3> QED BY <2>5, <3>1, <3>2, <3>3
  <2> QED BY <2>1, <2>2, <2>3, <2>4, <2>5, <2>6 DEF HeapSpec!Next
<1> QED BY <1>1, <1>2, PTL DEF HeapSpec!Spec

(* Whatever malloc, calloc, realloc, free and alloca do in between, no two *)
(* blocks their callers hold overlap, none leaves the memory below Limit,  *)
(* and each has a size cell and the bytes asked for.                       *)
THEOREM BlocksSound == Spec => [](HeapSpec!TypeOK /\ HeapSpec!Sound)
<1>1. Spec => HeapSpec!Spec
  BY FollowsHeap DEF Implements
<1>2. HeapInv => HeapSpec!TypeOK /\ HeapSpec!Sound
  BY DEF HeapInv
<1> QED
  BY <1>1, <1>2, HeapSound, PTL

-----------------------------------------------------------------------------
(* What the lists reach.                                                   *)
LEMMA StackLinked ==
    ASSUME MallocAssumption, NEW p, NEW s, NEW n, Stack(heap, p, s, n)
    PROVE  Linked(p) = Elems(s, n)
  BY StackReached DEF Linked

(* The circle, seen from chunk_list.                                       *)
LEMMA ChunksReached ==
    ASSUME MallocAssumption, NEW O, NEW C, Arranged(heap, O, C, {})
    PROVE  Chunks = C
<1>1. C \in SUBSET Cell /\ Cycle(heap, C)
  BY ArrangedFacts DEF Arranged
<1>a. CASE C = {}
  <2> DEFINE s == <<>>
  <2>1. Stack(heap, heap.chunk, s, 0) /\ Elems(s, 0) = {}
    BY <1>a DEF Arranged, Stack, Elems
  <2> QED
    BY <1>a, <2>1, StackLinked DEF Chunks
<1>b. CASE C # {}
  <2>1. heap.chunk \in C
    BY <1>b DEF Arranged
  <2> DEFINE at == Nth(heap, heap.chunk)
  <2>2. Reaches(at, C)
    BY <1>1, <2>1, CycleReached
  <2>3. Chunks = {at[n] : n \in 0 .. Limit} \ {NULL}
    BY DEF Chunks, Linked
  <2> HIDE DEF at
  <2>4. NULL \notin C
    BY <1>1 DEF NULL, Cell, MallocAssumption
  <2>5. {at[n] : n \in 0 .. Limit} = C
    BY <2>2 DEF Reaches
  <2> QED
    BY <2>3, <2>4, <2>5
<1> QED
  BY <1>a, <1>b

(* What the invariant says of the heap, with the names of module Malloc.   *)
HeapParts(s, n, C) ==
    /\ Managed(heap, HeldBlocks, s, n, C)
    /\ Freed = Elems(s, n) /\ Chunks = C /\ heap \in Heaps

(* There are such lists.                                                   *)
LEMMA InvParts ==
    ASSUME MallocAssumption, IInv
    PROVE  \E s, n, C : HeapParts(s, n, C)
<1>1. HeldBlocks = Headers(DOMAIN held)
  BY DEF HeldBlocks, Headers
<1>2. PICK s, n, C : Managed(heap, HeldBlocks, s, n, C)
  BY <1>1, SoundFacts DEF IInv, Good
<1>3. Stack(heap, heap.freed, s, n) /\ Arranged(heap, HeldBlocks \cup Elems(s, n), C, {})
  BY <1>2 DEF Managed
<1>4. Freed = Elems(s, n)
  BY <1>3, StackLinked DEF Freed
<1>5. Chunks = C
  BY <1>3, ChunksReached
<1>6. heap \in Heaps
  BY <1>3 DEF Arranged
<1>7. HeapParts(s, n, C)
  BY <1>2, <1>4, <1>5, <1>6 DEF HeapParts
<1> QED
  BY <1>7

(* Callers' data is theirs.                                                *)
LEMMA InvData ==
    ASSUME MallocAssumption, IInv PROVE DataIntact
<1>1. \A p \in DOMAIN held : InUse(heap, p, held[p], depth)
  BY DEF IInv, Sound, Holds
<1>2. \A p \in DOMAIN held : held[p].owner # NoFrame <=> p \in AllocaBlocks
  BY DEF AllocaBlocks
<1> QED
  BY <1>1, <1>2 DEF DataIntact, InUse, Contents

(* The types, and each cell in one block.                                  *)
LEMMA InvTypes ==
    ASSUME MallocAssumption, IInv PROVE TypeOK
<1>1. PICK s, n, C : HeapParts(s, n, C)
  BY InvParts
<1>2. /\ Stack(heap, heap.freed, s, n) /\ heap \in Heaps
      /\ Arranged(heap, HeldBlocks \cup Elems(s, n), C, {})
  BY <1>1 DEF HeapParts, Managed
<1>3. heap.freed \in {NULL} \cup Cell
  BY <1>2, StackHead
<1>4. heap.chunk \in {NULL} \cup Cell
  <2>1. C \in SUBSET Cell
    BY <1>2, ArrangedFacts
  <2> QED
    BY <1>2, <2>1 DEF Arranged
<1>5. alloca_stack \in {NULL} \cup Cell
  <2>1. PICK t, m : Stack(heap, alloca_stack, t, m)
    BY DEF IInv, Sound, Listed, Frames
  <2> QED
    BY <2>1, StackHead
<1>6. DOMAIN held \subseteq Cell
  <2> SUFFICES ASSUME NEW p \in DOMAIN held PROVE p \in Cell
    OBVIOUS
  <2>1. /\ Good(heap, Headers(DOMAIN held)) /\ p \in Nat /\ p - 1 \in Headers(DOMAIN held)
    BY SoundFacts DEF IInv, Headers
  <2> DEFINE b == p - 1
  <2>2. p = b + 1
    BY <2>1
  <2> HIDE DEF b
  <2>3. b + 1 \in Cell
    BY <2>1, GoodFacts DEF b
  <2> QED
    BY <2>2, <2>3
<1>7. heap.brk \in Base .. Limit /\ heap.cell \in [Cell -> Nat] /\ heap.mini \in BOOLEAN
  BY <1>2 DEF Heaps
<1>8. depth \in 0 .. MaxDepth
  BY DEF IInv
<1> QED
  BY <1>3, <1>4, <1>5, <1>6, <1>7, <1>8 DEF TypeOK, Cell

(* No cell is in two blocks, and none below brk is in no block.            *)
LEMMA InvTiled ==
    ASSUME MallocAssumption, IInv PROVE Tiled
<1>1. PICK s, n, C : HeapParts(s, n, C)
  BY InvParts
<1> DEFINE X == HeldBlocks \cup Freed \cup Chunks
           Over(a) == {b \in X : a \in b .. End(b) - 1}
<1>2. /\ Elems(s, n) \cap HeldBlocks = {} /\ heap \in Heaps /\ Freed = Elems(s, n) /\ Chunks = C
      /\ Arranged(heap, HeldBlocks \cup Elems(s, n), C, {})
  BY <1>1 DEF HeapParts, Managed
<1>3. Laid(heap, X) /\ Freed \cap Chunks = {} /\ HeldBlocks \cap (Freed \cup Chunks) = {}
  BY <1>2 DEF Arranged
<1> HIDE DEF X
<1>4. \A b \in X : b \in Nat /\ m_size(heap, b) \in Nat /\ End(b) = b + m_size(heap, b)
  BY <1>2, <1>3, LaidFacts DEF End
<1>5. heap.brk \in Nat
  BY <1>2, <1>3, LaidFacts
<1>6. ASSUME NEW a \in Base .. Limit - 1
      PROVE  Cardinality(Over(a)) = IF a < heap.brk THEN 1 ELSE 0
  <2>1. a \in Cell /\ a \in Nat
    BY <1>6 DEF Cell, MallocAssumption
  <2>a. CASE a < heap.brk
    <3>1. PICK b \in X : b <= a /\ a < b + m_size(heap, b)
      BY <1>3, <2>1, <2>a DEF Laid
    <3>2. \A c \in X : a \in c .. End(c) - 1 => c = b
      <4> TAKE c \in X
      <4> HAVE a \in c .. End(c) - 1
      <4>1. c <= a /\ a < c + m_size(heap, c) /\ b \in Nat /\ c \in Nat
        BY <1>4, <2>1
      <4>2. b # c => b + m_size(heap, b) <= c \/ c + m_size(heap, c) <= b
        BY <1>2, <1>3, LaidFacts
      <4>3. m_size(heap, b) \in Nat /\ m_size(heap, c) \in Nat
        BY <1>4
      <4> QED
        BY <2>1, <3>1, <4>1, <4>2, <4>3
    <3>3. a \in b .. End(b) - 1
      BY <1>4, <2>1, <3>1
    <3>4. Over(a) = {b}
      BY <3>2, <3>3
    <3> HIDE DEF Over
    <3>5. Cardinality({b}) = 1
      BY FS_Singleton
    <3> QED
      BY <2>a, <3>4, <3>5
  <2>b. CASE ~(a < heap.brk)
    <3>1. \A c \in X : a \notin c .. End(c) - 1
      <4> TAKE c \in X
      <4>1. c + m_size(heap, c) <= heap.brk
        BY <1>3 DEF Laid
      <4> QED
        BY <1>4, <1>5, <2>1, <2>b, <4>1
    <3>2. Over(a) = {}
      BY <3>1
    <3> HIDE DEF Over
    <3>3. Cardinality({}) = 0
      BY FS_EmptySet
    <3> QED
      BY <2>b, <3>2, <3>3
  <2> QED
    BY <2>a, <2>b
<1>7. TypeOK
  BY InvTypes
<1> QED
  BY <1>3, <1>6, <1>7 DEF Tiled, X

(* The lists are in order.                                                 *)
LEMMA InvChunks ==
    ASSUME MallocAssumption, IInv PROVE ChunksSorted
<1>1. PICK s, n, C : HeapParts(s, n, C)
  BY InvParts
<1> DEFINE O == HeldBlocks \cup Elems(s, n)
           D == {c \in Chunks : NextFree(c) <= c}
<1>2. Arranged(heap, O, C, {}) /\ Chunks = C
  BY <1>1 DEF HeapParts, Managed
<1> HIDE DEF O
<1>3. C \in SUBSET Nat /\ C \in SUBSET Cell /\ Cycle(heap, C)
  <2>1. C \in SUBSET Nat /\ C \in SUBSET Cell
    BY <1>2, ArrangedFacts
  <2> QED
    BY <1>2, <2>1 DEF Arranged
<1>4. \A c \in Chunks : NextFree(c) \in Chunks /\ End(c) # NextFree(c)
  BY <1>2, <1>3 DEF Arranged, Cycle, NextFree, End
<1>5. Cardinality(D) = IF Chunks = {} THEN 0 ELSE 1
  <2>a. CASE C = {}
    <3>1. D = {}
      BY <1>2, <2>a
    <3> HIDE DEF D
    <3> QED
      BY <1>2, <2>a, <3>1, FS_EmptySet
  <2>b. CASE C # {}
    <3>1. PICK c \in C : \A d \in C : d <= c
      <4>1. Limit \in Nat /\ \A d \in C : d <= Limit
        BY <1>3 DEF Cell, MallocAssumption
      <4> QED
        BY <1>3, <2>b, <4>1, GreatestOf
    <3>2. c \in D
      BY <1>2, <1>3, <3>1 DEF Cycle, NextFree
    <3>3. \A d \in D : d = c
      <4> TAKE d \in D
      <4>1. d \in C /\ m_next(heap, d) <= d
        BY <1>2 DEF NextFree
      <4>2. c <= d /\ d <= c
        BY <1>3, <3>1, <4>1 DEF Cycle
      <4> QED
        BY <1>3, <4>1, <4>2
    <3>4. D = {c}
      BY <3>2, <3>3
    <3> HIDE DEF D
    <3>5. Cardinality({c}) = 1
      BY FS_Singleton
    <3> QED
      BY <1>2, <2>b, <3>4, <3>5
  <2> QED
    BY <2>a, <2>b
<1> QED
  BY <1>4, <1>5 DEF ChunksSorted

(* alloca's list.                                                          *)
LEMMA InvAlloca ==
    ASSUME MallocAssumption, IInv PROVE AllocaSorted
<1>1. PICK s, n : /\ Stack(heap, alloca_stack, s, n) /\ Elems(s, n) = Framed(held)
                  /\ Nested(heap, s, n)
  BY DEF IInv, Sound, Listed, Frames
<1>2. AllocaList = Elems(s, n)
  BY <1>1, StackLinked DEF AllocaList
<1>3. AllocaBlocks = Framed(held)
  BY DEF AllocaBlocks, Framed
<1>4. ASSUME NEW p \in Elems(s, n), NextAlloca(p) # NULL
      PROVE  heap.cell[NextAlloca(p)] <= heap.cell[p]
  <2>1. PICK i \in 1 .. n : p = s[i]
    BY DEF Elems
  <2>2. NextAlloca(p) = IF i = 1 THEN NULL ELSE s[i - 1]
    BY <1>1, <2>1 DEF Stack, NextAlloca, m_next
  <2>3. i \in 2 .. n /\ NextAlloca(p) = s[i - 1]
    BY <1>1, <1>4, <2>2 DEF Stack
  <2> QED
    BY <1>1, <2>1, <2>3 DEF Nested
<1> QED
  BY <1>1, <1>2, <1>3, <1>4 DEF AllocaSorted

(* The blocks held, the freed list and the chunk list tile the heap: no    *)
(* order of calls makes two blocks overlap or loses a cell below sbrk(0),  *)
(* whatever the sizes asked for and the memory there is.                   *)
THEOREM HeapTiled == Spec => []Tiled
<1>1. IInv => Tiled
  BY InvTiled, MallocAssumption
<1> QED
  BY <1>1, Invariant, PTL

(* chunk_list is a circle in address order whose neighbours do not touch,  *)
(* which __insert_chunk relies on, and alloca's list has all of its        *)
(* blocks, deepest first, which lets the collection stop early.            *)
THEOREM ListsInOrder == Spec => []ListsSorted
<1>1. IInv => ListsSorted
  BY InvChunks, InvAlloca, MallocAssumption DEF ListsSorted
<1> QED
  BY <1>1, Invariant, PTL

(* The allocator writes into no block that is held, realloc carries the    *)
(* contents along, and calloc clears all of what it was asked for.         *)
THEOREM DataKept == Spec => []DataIntact
<1>1. IInv => DataIntact
  BY InvData, MallocAssumption
<1> QED
  BY <1>1, Invariant, PTL

-----------------------------------------------------------------------------
(* What malloc finds before it gives up.                                   *)

(* The search goes past every chunk: it finds one, if one is large enough. *)
LEMMA SearchComplete ==
    ASSUME MallocAssumption, NEW h, NEW O, NEW C, Arranged(h, O, C, {}), NEW size \in Nat,
           size >= 2, NEW c \in C, m_size(h, c) >= size
    PROVE  search_chunk(h, size).p # NULL
<1> DEFINE at == Nth(h, h.chunk)
           Stop(i) == Fit(h, at[i], size) \/ m_next(h, at[i]) = h.chunk
           S == {i \in 0 .. Limit : Stop(i)}
           n == First(S)
           p == at[n]
           q == m_next(h, p)
           r == search_chunk(h, size)
<1>1. Cycle(h, C) /\ C \in SUBSET Nat /\ C \in SUBSET Cell /\ NULL \notin C /\ Limit \in Nat
  <2>1. \A x \in C : x # 0
    BY ArrangedFacts
  <2>2. C \in SUBSET Nat /\ C \in SUBSET Cell
    BY ArrangedFacts
  <2> QED
    BY <2>1, <2>2 DEF Arranged, NULL, MallocAssumption
<1>2. h.chunk \in C /\ h.chunk # NULL
  BY <1>1 DEF Arranged
<1>3. r = FoundAfter(h, IF Fit(h, p, size) THEN p ELSE NULL, size)
  BY <1>2 DEF search_chunk, FitFrom
<1>4. /\ \A i \in 0 .. Limit : at[i] \in C
      /\ \A x \in C : \E i \in 0 .. Limit : at[i] = x
  <2> HIDE DEF at
  <2>1. Reaches(at, C)
    BY <1>1, <1>2, CycleReached DEF at
  <2> QED
    BY <2>1 DEF Reaches
<1>5. at[0] = h.chunk /\ \A i \in 1 .. Limit : at[i] = m_next(h, at[i - 1])
  <2>1. \A x \in C : x # NULL => m_next(h, x) \in C
    BY <1>1 DEF Cycle
  <2>2. /\ at[0] = h.chunk
        /\ \A i \in 1 .. Limit : at[i] = IF at[i - 1] = NULL THEN NULL
                                         ELSE m_next(h, at[i - 1])
    BY <1>2, <2>1, NthFacts
  <2> HIDE DEF at
  <2>3. \A i \in 1 .. Limit : i - 1 \in 0 .. Limit
    BY <1>1
  <2>4. \A i \in 1 .. Limit : at[i - 1] # NULL
    BY <1>1, <1>4, <2>3
  <2> QED
    BY <2>2, <2>4
<1> HIDE DEF at
<1>6. S \in SUBSET Nat /\ S # {}
  <2>1. PICK x \in C : m_next(h, x) = h.chunk
    BY <1>1, <1>2, FollowsExists
  <2> QED
    BY <1>1, <1>4, <2>1
<1>7. n \in 0 .. Limit /\ Stop(n) /\ \A i \in 0 .. Limit : Stop(i) => n <= i
  <2>1. n \in S /\ \A i \in S : n <= i
    <3> HIDE DEF S
    <3> QED
      BY <1>6, FirstFacts
  <2> HIDE DEF n
  <2> QED
    BY <2>1
<1> HIDE DEF n, S
<1>8. p \in C
  BY <1>4, <1>7
<1>9. Fit(h, p, size)
  <2> SUFFICES ASSUME ~Fit(h, p, size) PROVE FALSE
    OBVIOUS
  <2> DEFINE T == {at[i] : i \in 0 .. n}
  <2>1. m_next(h, at[n]) = h.chunk
    BY <1>7
  <2>2. at[0] \in T
    BY <1>7
  <2>3. \A i \in 1 .. Limit : at[i - 1] \in T => at[i] \in T
    <3> SUFFICES ASSUME NEW i \in 1 .. Limit, at[i - 1] \in T PROVE at[i] \in T
      OBVIOUS
    <3>1. PICK j \in 0 .. n : at[i - 1] = at[j]
      OBVIOUS
    <3>2. at[i] = m_next(h, at[j])
      BY <1>5, <3>1
    <3>3. CASE j = n
      BY <1>5, <2>1, <2>2, <3>2, <3>3
    <3>4. CASE j # n
      <4>1. j + 1 \in 0 .. n /\ j + 1 \in 1 .. Limit /\ (j + 1) - 1 = j
        BY <1>1, <1>7, <3>4
      <4>2. at[j + 1] = m_next(h, at[j])
        BY <1>5, <4>1
      <4> QED
        BY <3>2, <4>1, <4>2
    <3> QED
      BY <3>3, <3>4
  <2>4. \A i \in 0 .. Limit : at[i] \in T
    <3> HIDE DEF T
    <3> QED
      BY <1>1, <2>2, <2>3, Stays
  <2>5. PICK d \in C : m_next(h, d) = c
    BY <1>1, FollowsExists
  <2>6. PICK i \in 0 .. n : at[i] = d
    <3>1. d \in T
      BY <1>4, <2>4, <2>5
    <3> QED
      BY <3>1
  <2>7. Fit(h, at[i], size)
    BY <2>5, <2>6 DEF Fit
  <2>8. i \in 0 .. Limit /\ Stop(i)
    BY <1>1, <1>7, <2>7
  <2>9. i = n
    BY <1>1, <1>7, <2>6, <2>8
  <2> QED
    BY <2>7, <2>9
<1>10. q \in C /\ q # NULL
  <2> HIDE DEF p
  <2> QED
    BY <1>1, <1>8 DEF Cycle
<1>11. r = TakeAfter(h, p, q, size)
  <2>1. p # NULL
    BY <1>1, <1>8
  <2> HIDE DEF p, r
  <2> QED
    BY <1>3, <1>9, <2>1 DEF FoundAfter
<1>12. TakeAfter(h, p, q, size).p = q
  <2> HIDE DEF p, q
  <2> QED
    BY DEF TakeAfter, Result
<1> HIDE DEF p, q, r
<1> QED
  BY <1>10, <1>11, <1>12 DEF r

(* Where no other block is from a to the top of the heap, one chunk is: it *)
(* ends at the top, and nothing it could be joined with is left below it.  *)
LEMMA TopRun ==
    ASSUME MallocAssumption, NEW h, NEW O, NEW C, Arranged(h, O, C, {}), NEW a \in Cell,
           a < h.brk, \A b \in O : b + m_size(h, b) <= a
    PROVE  \E c \in C : c <= a /\ c + m_size(h, c) = h.brk
<1> DEFINE X == O \cup C
<1>1. h \in Heaps /\ Laid(h, X) /\ Cycle(h, C)
  BY DEF Arranged
<1>2. /\ \A b \in X : b \in Nat /\ m_size(h, b) \in Nat /\ m_size(h, b) >= 2
      /\ \A c \in C : m_next(h, c) \in C
  BY ArrangedFacts
<1>3. h.brk \in Nat /\ h.brk <= Limit /\ Limit \in Nat /\ Base \in Nat /\ a \in Nat /\ Base <= a
  BY <1>1, LaidFacts DEF Heaps, Cell, MallocAssumption
<1>4. \A x \in Cell : a <= x /\ x < h.brk => \E c \in C : c <= x /\ x < c + m_size(h, c)
  <2> SUFFICES ASSUME NEW x \in Cell, a <= x, x < h.brk
               PROVE  \E c \in C : c <= x /\ x < c + m_size(h, c)
    OBVIOUS
  <2>1. PICK b \in X : b <= x /\ x < b + m_size(h, b)
    <3> HIDE DEF X
    <3> QED
      BY <1>1 DEF Laid
  <2>2. b \notin O
    <3>1. b \in Nat /\ m_size(h, b) \in Nat /\ x \in Int /\ a \in Int
      BY <1>2, <1>3 DEF Cell
    <3> QED
      BY <2>1, <3>1
  <2> QED
    BY <2>1, <2>2
<1>5. \A b \in X : b + m_size(h, b) <= h.brk
  <2> HIDE DEF X
  <2> QED
    BY <1>1 DEF Laid
<1>6. PICK c \in C : c <= h.brk - 1 /\ h.brk - 1 < c + m_size(h, c)
  <2>1. h.brk - 1 \in Cell /\ a <= h.brk - 1 /\ h.brk - 1 < h.brk
    BY <1>3 DEF Cell
  <2> QED
    BY <1>4, <2>1
<1>7. c \in Nat /\ m_size(h, c) \in Nat /\ c + m_size(h, c) = h.brk
  <2>1. c \in Nat /\ m_size(h, c) \in Nat /\ c + m_size(h, c) <= h.brk
    BY <1>2, <1>5
  <2> QED
    BY <1>3, <1>6, <2>1
<1>8. c <= a
  <2> SUFFICES ASSUME a < c PROVE FALSE
    BY <1>3, <1>7
  <2>1. c - 1 \in Cell /\ a <= c - 1 /\ c - 1 < h.brk
    BY <1>3, <1>6, <1>7 DEF Cell
  <2>2. PICK d \in C : d <= c - 1 /\ c - 1 < d + m_size(h, d)
    BY <1>4, <2>1
  <2>3. d \in X /\ c \in X
    OBVIOUS
  <2>4. d \in Nat /\ m_size(h, d) \in Nat /\ m_next(h, d) \in C /\ m_next(h, d) \in Nat
    BY <1>2
  <2>5. d < c /\ d + m_size(h, d) = c
    <3>1. d < c
      BY <1>7, <2>2, <2>4
    <3>2. d + m_size(h, d) <= c
      BY <1>1, <2>3, <3>1 DEF Laid
    <3> QED
      BY <1>7, <2>2, <2>4, <3>1, <3>2
  <2> DEFINE e == m_next(h, d)
  <2>6. e # c
    BY <2>5 DEF Arranged
  <2>7. d < e
    <3>1. e <= d => c <= d
      BY <1>1 DEF Cycle
    <3> QED
      BY <1>7, <2>4, <2>5, <3>1
  <2>8. e <= c
    <3>1. c <= d \/ e <= c
      BY <1>1, <2>7 DEF Cycle
    <3> QED
      BY <1>7, <2>4, <2>5, <3>1
  <2>9. d + m_size(h, d) <= e
    <3>1. e \in X
      BY <2>4
    <3> HIDE DEF X, e
    <3> QED
      BY <1>1, <2>3, <2>7, <3>1 DEF Laid
  <2> HIDE DEF e
  <2> QED
    BY <1>7, <2>4, <2>5, <2>6, <2>8, <2>9 DEF e
<1> QED
  BY <1>7, <1>8

-----------------------------------------------------------------------------
(* The blocks in use and on the freed list are all below a.                *)
Below(h, B, s, n, a) == \A b \in B \cup Elems(s, n) : b + m_size(h, b) <= a

(* The heap above a is chunks, and those at C are all there are.           *)
OpenAbove(h, B, s, n, C, a) ==
    Managed(h, B, s, n, C) /\ Below(h, B, s, n, a) /\ a \in Base .. h.brk

(* At first that is so of the top.                                         *)
LEMMA OpenAtTop ==
    ASSUME MallocAssumption, NEW h, NEW B, NEW s, NEW n, NEW C, Managed(h, B, s, n, C)
    PROVE  OpenAbove(h, B, s, n, C, h.brk)
<1> DEFINE O == B \cup Elems(s, n)
<1>1. Laid(h, O \cup C) /\ h \in Heaps
  BY DEF Managed, Arranged
<1>2. \A b \in O : b + m_size(h, b) <= h.brk
  BY <1>1 DEF Laid
<1>3. h.brk \in Base .. h.brk
  BY <1>1 DEF Heaps, MallocAssumption
<1> QED
  BY <1>2, <1>3 DEF OpenAbove, Below

(* Then what malloc needs is found if it is not more than that.            *)
LEMMA FoundAbove ==
    ASSUME MallocAssumption, NEW h, NEW B, NEW s, NEW n, NEW C, NEW a,
           OpenAbove(h, B, s, n, C, a), NEW size \in Nat, size >= 2, h.brk - a >= size
    PROVE  search_chunk(h, size).p # NULL
<1> DEFINE O == B \cup Elems(s, n)
<1>1. Arranged(h, O, C, {}) /\ h \in Heaps /\ \A b \in O : b + m_size(h, b) <= a
  BY DEF OpenAbove, Managed, Arranged, Below
<1>2. a \in Cell /\ a < h.brk /\ a \in Nat /\ h.brk \in Nat
  <2>1. h.brk \in Base .. Limit /\ a \in Base .. h.brk
    BY <1>1 DEF Heaps, OpenAbove
  <2> QED
    BY <2>1 DEF Cell, MallocAssumption
<1> HIDE DEF O
<1>3. PICK c \in C : c <= a /\ c + m_size(h, c) = h.brk
  BY <1>1, <1>2, TopRun
<1>4. m_size(h, c) >= size
  <2>1. c \in Nat /\ m_size(h, c) \in Nat
    BY <1>1, ArrangedFacts
  <2> QED
    BY <1>2, <1>3, <2>1
<1> QED
  BY <1>1, <1>4, SearchComplete

(* The cells mini_malloc takes for so many bytes.                          *)
Cells(size) == (size + 2 * MemSize - 1) \div MemSize

(* A piece of memory that is got and joined to the chunks.                 *)
Extended(h, g, B, s, n, a, size) ==
    /\ \E D : OpenAbove(g, B, s, n, D, a)
    /\ g.brk = h.brk + Cells(size) /\ g.freed = h.freed /\ g.mini = h.mini
    /\ Cells(size) \in Nat /\ Cells(size) >= 2 /\ MemSize * Cells(size) >= MemSize + size
    /\ h.brk \in Nat /\ g.brk <= Limit

(* The piece is at the top, so that it and the chunks below it are one.    *)
LEMMA PieceJoined ==
    ASSUME MallocAssumption, NEW h, NEW B, NEW s, NEW n, NEW C, NEW a,
           OpenAbove(h, B, s, n, C, a), NEW size \in Nat,
           mini_malloc(h, size) # Result(h, NULL)
    PROVE  LET got == mini_malloc(h, size) IN
           Extended(h, insert_chunk(got.h, got.p - 1), B, s, n, a, size)
<1> DEFINE got == mini_malloc(h, size)
           k == got.h
           b == h.brk
           g == insert_chunk(k, b)
           O == B \cup Elems(s, n)
           m == Cells(size)
<1>1. Managed(h, B, s, n, C) /\ Below(h, B, s, n, a) /\ a \in Base .. b /\ b \in Nat
  BY DEF OpenAbove, Managed, Arranged, Heaps, MallocAssumption
<1>2. Fresh(h, got, B, s, n, C, m) /\ MemSize * m >= MemSize + size
  BY <1>1, MiniManaged DEF Cells
<1> HIDE DEF got, m
<1>3. got.p - 1 = b
  BY <1>1, <1>2 DEF Fresh
<1>4. Chained(k, g, B, s, n)
  BY <1>2, InsertManaged DEF Fresh
<1> HIDE DEF k, g, b
<1>5. PICK D : Managed(g, B, s, n, D)
  BY <1>4 DEF Chained
<1>6. /\ g.brk = b + m /\ g.freed = h.freed /\ g.mini = h.mini /\ m \in Nat /\ m >= 2
      /\ b + m <= Limit
  BY <1>2, <1>4 DEF Chained, Keeps, Fresh, k, b
<1>7. \A x \in O : m_size(g, x) = m_size(h, x)
  BY <1>2, <1>4 DEF Chained, Keeps, Fresh, Unaltered, Sizes, k
<1>8. Below(g, B, s, n, a)
  BY <1>1, <1>7 DEF Below
<1>9. a \in Base .. g.brk
  BY <1>1, <1>6 DEF MallocAssumption
<1>10. OpenAbove(g, B, s, n, D, a)
  BY <1>5, <1>8, <1>9 DEF OpenAbove
<1>11. Extended(h, g, B, s, n, a, size)
  BY <1>1, <1>2, <1>6, <1>10 DEF Extended, m, b
<1> QED
  BY <1>3, <1>11 DEF got, k, g

(* A larger number of cells for a larger number of bytes.                  *)
LEMMA DivMonotone ==
    ASSUME NEW x \in Nat, NEW y \in Nat, x <= y, NEW m \in Nat \ {0}
    PROVE  x \div m <= y \div m
<1> DEFINE p == x \div m
           q == y \div m
<1>1. p \in Nat /\ m * p <= x /\ q \in Nat /\ y < m * q + m
  BY DivFacts
<1> HIDE DEF p, q
<1> SUFFICES ASSUME q < p PROVE FALSE
  BY <1>1 DEF p, q
<1>2. PICK r \in Nat : p = q + 1 + r
  <2>1. p - q - 1 \in Nat /\ p = q + 1 + (p - q - 1)
    BY <1>1
  <2> QED
    BY <2>1
<1>3. m * p = m * q + m + m * r /\ m * r \in Nat /\ m * q \in Nat
  BY <1>1, <1>2
<1> QED
  BY <1>1, <1>3

(* Cells, where nothing wraps.                                             *)
LEMMA CellsForIs ==
    ASSUME MallocAssumption, NEW size \in Nat, size + 2 * MemSize - 1 <= 2 * MaxInt + 1
    PROVE  CellsFor(size) = Cells(size)
<1> DEFINE x == size + 2 * MemSize - 1
           w == 2 * MaxInt + 2
<1>1. x \in Nat /\ w \in Nat \ {0} /\ x < w
  BY DEF MallocAssumption
<1> HIDE DEF x, w
<1>2. x % w = x
  BY <1>1
<1> QED
  BY <1>2 DEF CellsFor, Cells, Word, x, w

(* When the smallest pieces are refused there is less room than they take. *)
Cramped(h) == Limit - h.brk < CellsFor(2 * MinScavenge + 1)

(* mini_malloc refuses them for no other reason.                           *)
LEMMA RefusedRoom ==
    ASSUME MallocAssumption, GrowthAssumption, NEW h \in Heaps, NEW size \in Nat, size # 0,
           size <= 2 * MinScavenge + 1, mini_malloc(h, size).p = NULL
    PROVE  Cramped(h)
<1> DEFINE w == 2 * MinScavenge + 1
           n == Cells(size)
           top == Cells(w)
<1>1. /\ MemSize \in Nat \ {0} /\ MinScavenge \in Nat \ {0} /\ MaxInt \in Nat /\ Limit \in Nat
      /\ w \in Nat /\ w <= MaxInt - MemSize * 3 /\ h.brk \in Nat
  BY DEF MallocAssumption, GrowthAssumption, Heaps
<1>2. CellsFor(w) = top
  <2>1. w + 2 * MemSize - 1 <= 2 * MaxInt + 1
    BY <1>1
  <2> HIDE DEF w
  <2> QED
    BY <1>1, <2>1, CellsForIs
<1>3. n \in Nat /\ top \in Nat /\ n <= top
  <2> DEFINE x == size + 2 * MemSize - 1
             y == w + 2 * MemSize - 1
  <2>1. x \in Nat /\ y \in Nat /\ x <= y
    BY <1>1
  <2>2. n = x \div MemSize /\ top = y \div MemSize
    BY DEF Cells
  <2> HIDE DEF x, y, n, top
  <2> QED
    BY <1>1, <2>1, <2>2, DivMonotone, DivFacts
<1>4. MeetsStack(h, n)
  <2> SUFFICES ASSUME ~MeetsStack(h, n) PROVE FALSE
    OBVIOUS
  <2>1. ~(size > MaxInt - MemSize * 3)
    BY <1>1
  <2>2. mini_malloc(h, size).p = h.brk + 1
    BY <2>1 DEF mini_malloc, Cells, Result
  <2> QED
    BY <1>1, <2>2 DEF NULL
<1> HIDE DEF w, n, top
<1>5. h.brk + n > Limit
  BY <1>4 DEF MeetsStack
<1>6. Limit - h.brk < top
  BY <1>1, <1>3, <1>5
<1> QED
  BY <1>2, <1>6 DEF Cramped, w

(* Where mini_malloc gives nothing it leaves the heap.                     *)
LEMMA Refused ==
    ASSUME MallocAssumption, NEW h \in Heaps, NEW size
    PROVE  mini_malloc(h, size).p = NULL <=> mini_malloc(h, size) = Result(h, NULL)
<1>1. h.brk + 1 # NULL
  BY DEF Heaps, NULL, MallocAssumption
<1> QED
  BY <1>1 DEF mini_malloc, Result

(* A round of scavenging, of i: what has been got lies above a, and is of  *)
(* as many cells as the bytes no longer needed and one more; and the rounds*)
(* that are left suffice for what is left of the piece and of the room.    *)
Got(h, a, need, left) == left < need => MemSize * (h.brk - a) >= (need - left) + MemSize
Rounded(t, h, B, s, n, a, need, last, i) ==
    /\ \E C : OpenAbove(t.h, B, s, n, C, a)
    /\ t.h.freed = h.freed /\ t.h.mini = h.mini
    /\ t.alloc \in Nat /\ t.needed \in Nat /\ t.needed <= need /\ Got(t.h, a, need, t.needed)
    /\ t.alloc <= MinScavenge => Cramped(t.h)
    /\ t.alloc > MinScavenge /\ t.needed # 0 => i + t.alloc + (Limit - t.h.brk) <= last

(* A piece got makes what is needed less by as much.                       *)
LEMMA GotMore ==
    ASSUME MallocAssumption, NEW a \in Nat, NEW x \in Nat, NEW m \in Nat, a <= x,
           NEW need \in Nat, NEW left \in Nat, left <= need, NEW size \in Nat,
           MemSize * m >= MemSize + size,
           left < need => MemSize * (x - a) >= (need - left) + MemSize
    PROVE  LET rest == IF size > left THEN 0 ELSE left - size IN
           rest < need => MemSize * ((x + m) - a) >= (need - rest) + MemSize
<1> DEFINE rest == IF size > left THEN 0 ELSE left - size
           u == MemSize * (x - a)
           v == MemSize * m
<1>1. MemSize \in Nat /\ x - a \in Nat
  BY DEF MallocAssumption
<1>2. u \in Nat /\ v \in Nat /\ MemSize * ((x + m) - a) = u + v
  BY <1>1
<1>3. need - rest <= (need - left) + size /\ rest \in Nat
  OBVIOUS
<1>4. u >= need - left
  <2>1. left < need \/ left = need
    OBVIOUS
  <2> HIDE DEF u
  <2> QED
    BY <1>1, <1>2, <2>1 DEF u
<1> HIDE DEF u, v, rest
<1>5. u + v >= (need - rest) + MemSize
  BY <1>1, <1>2, <1>3, <1>4 DEF v
<1> QED
  BY <1>2, <1>5 DEF rest

(* Each round keeps that.                                                  *)
LEMMA RoundStep ==
    ASSUME MallocAssumption, GrowthAssumption, NEW h, NEW B, NEW s, NEW n, NEW a, NEW need \in Nat,
           NEW last \in Nat, NEW i \in Nat, NEW t, t \in [h : Heaps, alloc : Nat, needed : Nat],
           Rounded(t, h, B, s, n, a, need, last, i)
    PROVE  Rounded(ScavengeOne(t), h, B, s, n, a, need, last, i + 1)
<1> DEFINE got == mini_malloc(t.h, t.alloc)
           k == insert_chunk(got.h, got.p - 1)
           rest == IF t.alloc > t.needed THEN 0 ELSE t.needed - t.alloc
           r == ScavengeOne(t)
<1>0. MinScavenge \in Nat \ {0} /\ Limit \in Nat /\ MemSize \in Nat /\ Base \in Nat
  BY DEF MallocAssumption
<1>1. PICK C : OpenAbove(t.h, B, s, n, C, a)
  BY DEF Rounded
<1>2. /\ t.h \in Heaps /\ t.alloc \in Nat /\ t.needed \in Nat /\ t.needed <= need
      /\ t.h.freed = h.freed /\ t.h.mini = h.mini /\ Got(t.h, a, need, t.needed)
      /\ t.h.brk \in Nat /\ t.h.brk <= Limit /\ a \in Nat /\ a <= t.h.brk
  BY <1>0, <1>1 DEF Rounded, Heaps, OpenAbove
<1>a. CASE t.alloc <= MinScavenge \/ t.needed = 0
  <2>1. r = t
    BY <1>a DEF ScavengeOne
  <2>2. ~(t.alloc > MinScavenge /\ t.needed # 0)
    BY <1>0, <1>2, <1>a
  <2> HIDE DEF r
  <2>3. Rounded(r, h, B, s, n, a, need, last, i + 1)
    BY <1>1, <1>2, <2>1, <2>2 DEF Rounded
  <2> QED
    BY <2>3 DEF r
<1>b. CASE t.alloc > MinScavenge /\ t.needed # 0 /\ got.p # NULL
  <2>0. ~(t.alloc <= MinScavenge \/ t.needed = 0)
    BY <1>0, <1>2, <1>b
  <2>1. r = [t EXCEPT !.h = k, !.needed = rest]
    BY <1>b, <2>0 DEF ScavengeOne
  <2>2. got # Result(t.h, NULL)
    BY <1>2, <1>b, Refused
  <2>3. Extended(t.h, k, B, s, n, a, t.alloc)
    BY <1>1, <1>2, <2>2, PieceJoined
  <2> HIDE DEF got, k
  <2>4. r.h = k /\ r.alloc = t.alloc /\ r.needed = rest
    <3> HIDE DEF rest, r
    <3> QED
      BY <2>1
  <2> DEFINE m == Cells(t.alloc)
  <2>5. /\ k.brk = t.h.brk + m /\ k.freed = h.freed /\ k.mini = h.mini /\ m \in Nat /\ m >= 2
        /\ MemSize * m >= MemSize + t.alloc /\ k.brk <= Limit
    BY <1>2, <2>3 DEF Extended
  <2>6. PICK D : OpenAbove(k, B, s, n, D, a)
    BY <2>3 DEF Extended
  <2>7. Got(k, a, need, rest)
    <3> HIDE DEF m
    <3>1. t.needed < need => MemSize * (t.h.brk - a) >= (need - t.needed) + MemSize
      BY <1>2 DEF Got
    <3>2. rest < need => MemSize * ((t.h.brk + m) - a) >= (need - rest) + MemSize
      BY <1>2, <2>5, <3>1, GotMore
    <3> QED
      BY <2>5, <3>2 DEF Got
  <2>8. rest \in Nat /\ rest <= need
    BY <1>2
  <2>9. t.alloc > MinScavenge /\ ~(t.alloc <= MinScavenge)
    BY <1>b, <2>0
  <2>10. (i + 1) + t.alloc + (Limit - k.brk) <= last
    <3>1. i + t.alloc + (Limit - t.h.brk) <= last
      BY <1>b DEF Rounded
    <3> HIDE DEF m
    <3> QED
      BY <1>0, <1>2, <2>5, <3>1
  <2> HIDE DEF r, rest
  <2>11. Rounded(r, h, B, s, n, a, need, last, i + 1)
    BY <1>2, <2>4, <2>5, <2>6, <2>7, <2>8, <2>9, <2>10 DEF Rounded
  <2> QED
    BY <2>11 DEF r
<1>c. CASE t.alloc > MinScavenge /\ t.needed # 0 /\ got.p = NULL
  <2>0. ~(t.alloc <= MinScavenge \/ t.needed = 0)
    BY <1>0, <1>2, <1>c
  <2> DEFINE half == t.alloc \div 2
  <2>1. r = [t EXCEPT !.alloc = half]
    BY <1>c, <2>0 DEF ScavengeOne
  <2>2. half \in Nat /\ half < t.alloc /\ (half <= MinScavenge => t.alloc <= 2 * MinScavenge + 1)
    BY <1>0, <1>2, <1>c
  <2> HIDE DEF half
  <2>3. r.h = t.h /\ r.alloc = half /\ r.needed = t.needed
    <3> HIDE DEF r
    <3> QED
      BY <1>2, <2>1
  <2>4. half <= MinScavenge => Cramped(t.h)
    <3>1. t.alloc # 0
      BY <1>0, <1>c
    <3> QED
      BY <1>2, <1>c, <2>2, <3>1, RefusedRoom
  <2>5. (i + 1) + half + (Limit - t.h.brk) <= last
    <3>1. i + t.alloc + (Limit - t.h.brk) <= last
      BY <1>c DEF Rounded
    <3> QED
      BY <1>0, <1>2, <2>2, <3>1
  <2> HIDE DEF r
  <2>6. Rounded(r, h, B, s, n, a, need, last, i + 1)
    BY <1>1, <1>2, <2>2, <2>3, <2>4, <2>5 DEF Rounded
  <2> QED
    BY <2>6 DEF r
<1> QED
  BY <1>0, <1>2, <1>a, <1>b, <1>c

(* What malloc has when it has looked for memory: enough above a, or hardly*)
(* any room left.                                                          *)
Ended(h, g, B, s, n, a, need) ==
    /\ \E C : OpenAbove(g, B, s, n, C, a)
    /\ g.freed = h.freed
    /\ MemSize * (g.brk - a) >= need + MemSize \/ Cramped(g)

(* The loop ends, with one or with the other.                              *)
LEMMA ScavengeEnds ==
    ASSUME MallocAssumption, GrowthAssumption, NEW h, NEW B, NEW s, NEW n, NEW C, NEW a,
           OpenAbove(h, B, s, n, C, a), NEW alloc \in Nat, NEW need \in Nat, need # 0,
           alloc <= MinScavenge => Cramped(h)
    PROVE  Ended(h, Scavenge(h, alloc, need), B, s, n, a, need)
<1> DEFINE last == alloc + Limit
<1>0. last \in Nat /\ Limit \in Nat /\ h \in Heaps /\ h.brk \in Nat /\ Good(h, B)
  BY DEF MallocAssumption, OpenAbove, Managed, Arranged, Heaps, Good
<1>1. PICK f : /\ ScavengeRounds(f, h, alloc, need)
               /\ \A i \in 0 .. last : Scavenges(h, f[i], B)
  BY <1>0, ScavengedRounds
<1> DEFINE S == {i \in Nat : i <= last => Rounded(f[i], h, B, s, n, a, need, last, i)}
<1>2. 0 \in S
  <2>1. f[0].h = h /\ f[0].alloc = alloc /\ f[0].needed = need
    BY <1>1 DEF ScavengeRounds, Scavenger
  <2>2. Got(h, a, need, need)
    BY DEF Got
  <2>3. 0 + alloc + (Limit - h.brk) <= last
    BY <1>0
  <2> HIDE DEF last
  <2>4. Rounded(f[0], h, B, s, n, a, need, last, 0)
    BY <2>1, <2>2, <2>3 DEF Rounded
  <2> QED
    BY <2>4
<1>3. ASSUME NEW i \in S PROVE i + 1 \in S
  <2> SUFFICES ASSUME i + 1 <= last PROVE Rounded(f[i + 1], h, B, s, n, a, need, last, i + 1)
    OBVIOUS
  <2>1. i \in Nat /\ i <= last /\ i \in 0 .. last /\ i + 1 \in 1 .. last /\ (i + 1) - 1 = i
    BY <1>0
  <2>2. Rounded(f[i], h, B, s, n, a, need, last, i)
    BY <2>1
  <2>3. f[i] \in [h : Heaps, alloc : Nat, needed : Nat]
    BY <1>1, <2>1 DEF Scavenges
  <2>4. f[i + 1] = ScavengeOne(f[i])
    BY <1>1, <2>1 DEF ScavengeRounds
  <2> HIDE DEF last
  <2> QED
    BY <1>0, <2>1, <2>2, <2>3, <2>4, RoundStep
<1>4. S = Nat
  <2>1. S \subseteq Nat
    OBVIOUS
  <2> HIDE DEF S
  <2> QED
    BY <1>2, <1>3, <2>1, SetInduction
<1> DEFINE t == f[last]
<1>5. Rounded(t, h, B, s, n, a, need, last, last)
  BY <1>0, <1>4
<1>6. Scavenge(h, alloc, need) = t.h /\ t \in [h : Heaps, alloc : Nat, needed : Nat]
  BY <1>0, <1>1 DEF ScavengeRounds, Scavenges
<1> HIDE DEF last, t, S
<1>7. t.needed = 0 \/ t.alloc <= MinScavenge
  <2> SUFFICES ASSUME t.needed # 0, ~(t.alloc <= MinScavenge) PROVE FALSE
    OBVIOUS
  <2>1. t.alloc \in Nat /\ MinScavenge \in Nat \ {0} /\ t.h.brk \in Nat /\ t.h.brk <= Limit
    BY <1>6 DEF MallocAssumption, Heaps
  <2>2. last + t.alloc + (Limit - t.h.brk) <= last
    BY <1>5, <2>1 DEF Rounded
  <2> QED
    BY <1>0, <2>1, <2>2
<1>8. MemSize * (t.h.brk - a) >= need + MemSize \/ Cramped(t.h)
  <2>1. CASE t.needed = 0
    <3>1. 0 < need /\ need - 0 = need
      OBVIOUS
    <3> QED
      BY <1>5, <2>1, <3>1 DEF Rounded, Got
  <2>2. CASE t.alloc <= MinScavenge
    BY <1>5, <2>2 DEF Rounded
  <2> QED
    BY <1>7, <2>1, <2>2
<1> QED
  BY <1>5, <1>6, <1>8 DEF Ended, Rounded

(* More bytes are in more cells.                                           *)
LEMMA Cancel ==
    ASSUME MallocAssumption, NEW p \in Nat, NEW q \in Nat, MemSize * p >= MemSize * q
    PROVE  p >= q
<1> SUFFICES ASSUME p < q PROVE FALSE
  OBVIOUS
<1>0. MemSize \in Nat \ {0}
  BY DEF MallocAssumption
<1>1. PICK r \in Nat : q = p + 1 + r
  <2>1. q - p - 1 \in Nat /\ q = p + 1 + (q - p - 1)
    OBVIOUS
  <2> QED
    BY <2>1
<1>2. MemSize * q = MemSize * p + MemSize + MemSize * r
  BY <1>0, <1>1
<1>3. MemSize * r \in Nat /\ MemSize * p \in Nat
  BY <1>0
<1> QED
  BY <1>0, <1>2, <1>3

(* The units malloc asks for hold what it needs.                           *)
LEMMA GrowthFacts ==
    ASSUME MallocAssumption, NEW size \in Nat, size >= 2
    PROVE  \E x \in Nat : /\ x >= size /\ Growth(size) \in Nat /\ Growth(size) # 0
                          /\ Growth(size) + MemSize = MemSize * x
<1> DEFINE y == size + MCHUNK - 1
           d == y \div MCHUNK
           x == MCHUNK * d
<1>0. MCHUNK \in Nat \ {0} /\ MemSize \in Nat \ {0} /\ y \in Nat
  BY DEF MallocAssumption
<1>1. d \in Nat /\ y < x + MCHUNK
  <2> HIDE DEF y
  <2> QED
    BY <1>0, DivFacts
<1>2. Growth(size) = MemSize * (x - 1)
  BY DEF Growth
<1> HIDE DEF d
<1>3. x \in Nat
  BY <1>0, <1>1
<1> HIDE DEF x
<1>4. x >= size
  BY <1>0, <1>1, <1>3
<1>5. PICK z \in Nat : x = z + 1 /\ z # 0
  <2>1. x - 1 \in Nat /\ x = (x - 1) + 1 /\ x - 1 # 0
    BY <1>3, <1>4
  <2> QED
    BY <2>1
<1>6. Growth(size) = MemSize * z /\ MemSize * z \in Nat /\ MemSize * x = MemSize * z + MemSize
  <2>1. x - 1 = z
    BY <1>3, <1>5
  <2>2. MemSize * x = MemSize * z + MemSize
    BY <1>0, <1>5
  <2> QED
    BY <1>0, <1>2, <2>1, <2>2
<1>7. MemSize * z # 0
  <2>1. PICK v \in Nat : z = v + 1
    <3>1. z - 1 \in Nat /\ z = (z - 1) + 1
      BY <1>5
    <3> QED
      BY <3>1
  <2>2. MemSize * z = MemSize * v + MemSize /\ MemSize * v \in Nat
    BY <1>0, <2>1
  <2> QED
    BY <1>0, <2>2
<1> QED
  BY <1>3, <1>4, <1>6, <1>7

(* After the heap has grown malloc finds what it needs, or has no room.    *)
Suffices(h, g, B, size) ==
    /\ Good(g, B) /\ g.freed = h.freed
    /\ search_chunk(g, size).p # NULL \/ Cramped(g)

(* It asks for a whole unit first, and then for what it can get.           *)
LEMMA GrowEnds ==
    ASSUME MallocAssumption, GrowthAssumption, NEW h, NEW B, Good(h, B), NEW size \in Nat,
           size >= 2, Growth(size) <= 2 * MaxInt + 1
    PROVE  Suffices(h, Grow(h, size), B, size)
<1> DEFINE alloc == Growth(size)
           got == mini_malloc(h, alloc)
           k == insert_chunk(got.h, got.p - 1)
           z == alloc \div 2
           g == Grow(h, size)
           a == h.brk
<1>1. PICK x \in Nat : x >= size /\ alloc \in Nat /\ alloc # 0 /\ alloc + MemSize = MemSize * x
  BY GrowthFacts
<1>2. Word(alloc) = alloc
  <2> DEFINE w == 2 * MaxInt + 2
  <2>1. w \in Nat \ {0} /\ alloc < w
    BY <1>1 DEF MallocAssumption
  <2> HIDE DEF w, alloc
  <2>2. alloc % w = alloc
    BY <1>1, <2>1
  <2> QED
    BY <2>2 DEF Word, w
<1>3. g = IF got.p # NULL THEN k ELSE Scavenge(h, z, alloc)
  BY <1>2 DEF Grow
<1>4. PICK s, n, C : Managed(h, B, s, n, C)
  BY DEF Good
<1>5. OpenAbove(h, B, s, n, C, a) /\ h \in Heaps /\ a \in Nat /\ MemSize \in Nat
  <2>1. OpenAbove(h, B, s, n, C, a)
    BY <1>4, OpenAtTop
  <2>2. h \in Heaps /\ a \in Nat
    BY <1>4 DEF Managed, Arranged, Heaps, MallocAssumption
  <2> QED
    BY <2>1, <2>2 DEF MallocAssumption
<1> HIDE DEF alloc, got, k, g
<1>e. ASSUME NEW D, OpenAbove(g, B, s, n, D, a), g.freed = h.freed,
             MemSize * (g.brk - a) >= alloc + MemSize \/ Cramped(g)
      PROVE  Suffices(h, g, B, size)
  <2>1. Good(g, B) /\ g.brk - a \in Nat
    <3> HIDE DEF a
    <3>1. Good(g, B) /\ g \in Heaps /\ a \in Base .. g.brk
      BY <1>e DEF OpenAbove, Managed, Arranged, Good
    <3>2. g.brk \in Nat
      BY <3>1 DEF Heaps, MallocAssumption
    <3> QED
      BY <3>1, <3>2 DEF MallocAssumption
  <2>2. CASE MemSize * (g.brk - a) >= alloc + MemSize
    <3>1. g.brk - a >= x
      BY <1>1, <2>1, <2>2, Cancel
    <3>2. g.brk - a >= size
      BY <1>1, <2>1, <3>1
    <3>3. search_chunk(g, size).p # NULL
      BY <1>e, <3>2, FoundAbove
    <3> QED
      BY <1>e, <2>1, <3>3 DEF Suffices
  <2> QED
    BY <1>e, <2>1, <2>2 DEF Suffices
<1>a. CASE got.p # NULL
  <2>1. Extended(h, k, B, s, n, a, alloc)
    <3>1. got # Result(h, NULL)
      BY <1>5, <1>a, Refused DEF got
    <3> QED
      BY <1>1, <1>5, <3>1, PieceJoined DEF got, k
  <2>2. PICK D : OpenAbove(k, B, s, n, D, a)
    BY <2>1 DEF Extended
  <2> DEFINE m == Cells(alloc)
  <2>3. k.freed = h.freed /\ k.brk = a + m /\ m \in Nat /\ MemSize * m >= MemSize + alloc
    BY <2>1 DEF Extended
  <2> HIDE DEF m, a
  <2>4. k.brk - a = m /\ MemSize * m >= alloc + MemSize
    <3>1. MemSize * m \in Nat
      BY <1>5, <2>3
    <3> QED
      BY <1>1, <1>5, <2>3, <3>1
  <2> QED
    BY <1>3, <1>a, <1>e, <2>2, <2>3, <2>4 DEF g
<1>b. CASE got.p = NULL
  <2>1. g = Scavenge(h, z, alloc)
    BY <1>3, <1>b
  <2>2. z \in Nat /\ (z <= MinScavenge => alloc <= 2 * MinScavenge + 1)
    BY <1>1 DEF MallocAssumption
  <2>3. z <= MinScavenge => Cramped(h)
    BY <1>1, <1>5, <1>b, <2>2, RefusedRoom DEF got
  <2> HIDE DEF z
  <2>4. Ended(h, Scavenge(h, z, alloc), B, s, n, a, alloc)
    BY <1>1, <1>5, <2>2, <2>3, ScavengeEnds
  <2>5. Ended(h, g, B, s, n, a, alloc)
    BY <2>1, <2>4
  <2> QED
    BY <1>e, <2>5 DEF Ended, g
<1> QED
  BY <1>a, <1>b DEF g

(* The loop through the freed list makes it shorter with every round.      *)
SortedOut(g, size) == g.freed = NULL \/ Lucky(g, size)
Sorting(g, h, B, size, i) ==
    /\ g.mini = h.mini
    /\ SortedOut(g, size) \/ \E s, n, C : Managed(g, B, s, n, C) /\ n + i <= Limit

(* One of its rounds.                                                      *)
LEMMA SortStep ==
    ASSUME MallocAssumption, NEW h, NEW B, NEW size, NEW i \in Nat, NEW g,
           Sorting(g, h, B, size, i)
    PROVE  Sorting(SortOne(g, size), h, B, size, i + 1)
<1> DEFINE u == Unfreed(g)
           k == insert_chunk(u, g.freed)
<1>a. CASE SortedOut(g, size)
  <2>1. SortOne(g, size) = g
    BY <1>a DEF SortOne, SortedOut
  <2> QED
    BY <1>a, <2>1 DEF Sorting
<1>b. CASE ~SortedOut(g, size)
  <2>1. PICK s, n, C : Managed(g, B, s, n, C) /\ n + i <= Limit
    BY <1>b DEF Sorting
  <2>2. SortOne(g, size) = k /\ g.freed # NULL
    BY <1>b DEF SortOne, SortedOut
  <2>3. Shorter(g, u, B, s, n, C) /\ g.freed \notin B
    BY <2>1, <2>2, UnfreedManaged
  <2> HIDE DEF u
  <2>4. Managed(u, B \cup {g.freed}, s, n - 1, C) /\ n - 1 \in Nat /\ u.mini = g.mini
    BY <2>3 DEF Shorter
  <2>5. Chained(u, k, B, s, n - 1)
    BY <2>3, <2>4, InsertManaged
  <2> HIDE DEF k
  <2>6. PICK D : Managed(k, B, s, n - 1, D) /\ k.mini = u.mini
    BY <2>5 DEF Chained, Keeps
  <2>7. (n - 1) + (i + 1) <= Limit
    <3>1. n \in Nat /\ Limit \in Nat
      BY <2>1 DEF Managed, Stack, MallocAssumption
    <3> QED
      BY <2>1, <3>1
  <2>8. k.mini = h.mini
    BY <2>4, <2>6 DEF Sorting
  <2> QED
    BY <2>2, <2>6, <2>7, <2>8 DEF Sorting
<1> QED
  BY <1>a, <1>b

(* It ends because the list does, or at a block of the very size.          *)
LEMMA SortEnds ==
    ASSUME MallocAssumption, NEW h, NEW B, Good(h, B), h.freed # NULL, NEW size
    PROVE  SortedOut(SortedIn(h, size), size) /\ SortedIn(h, size).mini = h.mini
<1>0. Limit \in Nat
  BY DEF MallocAssumption
<1>1. PICK f : SortRounds(f, h, size)
  BY SortedRounds
<1> DEFINE S == {i \in Nat : i <= Limit => Sorting(f[i], h, B, size, i)}
<1>2. 0 \in S
  <2>1. PICK s, n, C : Managed(h, B, s, n, C)
    BY DEF Good
  <2>2. Stack(h, h.freed, s, n) /\ n \in Nat
    BY <2>1 DEF Managed, Stack
  <2>3. n < Limit
    BY <2>2, StackReached
  <2>4. n + 0 <= Limit
    BY <1>0, <2>2, <2>3
  <2>5. Sorting(h, h, B, size, 0)
    BY <2>1, <2>4 DEF Sorting
  <2> QED
    BY <1>1, <2>5 DEF SortRounds
<1>3. ASSUME NEW i \in S PROVE i + 1 \in S
  <2> SUFFICES ASSUME i + 1 <= Limit PROVE Sorting(f[i + 1], h, B, size, i + 1)
    OBVIOUS
  <2>1. i \in Nat /\ i <= Limit /\ i + 1 \in 1 .. Limit /\ (i + 1) - 1 = i
    BY <1>0
  <2>2. Sorting(f[i], h, B, size, i)
    BY <2>1
  <2>3. f[i + 1] = SortOne(f[i], size)
    BY <1>1, <2>1 DEF SortRounds
  <2> QED
    BY <2>1, <2>2, <2>3, SortStep
<1>4. S = Nat
  <2>1. S \subseteq Nat
    OBVIOUS
  <2> HIDE DEF S
  <2> QED
    BY <1>2, <1>3, <2>1, SetInduction
<1> DEFINE g == SortedIn(h, size)
<1>5. Sorting(g, h, B, size, Limit)
  <2>1. Sorting(f[Limit], h, B, size, Limit) /\ g = f[Limit]
    BY <1>0, <1>1, <1>4 DEF SortRounds
  <2> QED
    BY <2>1
<1> HIDE DEF g
<1>6. SortedOut(g, size)
  <2> SUFFICES ASSUME NEW s, NEW n, NEW C, Managed(g, B, s, n, C), n + Limit <= Limit
               PROVE  g.freed = NULL
    BY <1>5 DEF Sorting, SortedOut
  <2>1. Stack(g, g.freed, s, n) /\ n \in Nat
    BY DEF Managed, Stack
  <2>2. n = 0
    BY <1>0, <2>1
  <2> QED
    BY <2>1, <2>2 DEF Stack
<1> QED
  BY <1>5, <1>6 DEF Sorting, g

(* Giving the chunk at the top back leaves the freed list.                 *)
LEMMA ReleaseTopFreed ==
    ASSUME MallocAssumption, NEW h, NEW B, Good(h, B), h.chunk # NULL, ~h.mini
    PROVE  ReleaseTop(h).freed = h.freed
<1> DEFINE p == h.chunk
           q == m_next(h, p)
           c == IF q = m_next(h, q) THEN NULL ELSE p
           u == [set_next(h, p, m_next(h, q)) EXCEPT !.chunk = c]
<1>1. PICK s, n, C : Managed(h, B, s, n, C)
  BY DEF Good
<1> DEFINE O == B \cup Elems(s, n)
<1>2. Arranged(h, O, C, {}) /\ h \in Heaps
  BY <1>1 DEF Managed, Arranged
<1>3. p \in C
  <2> HIDE DEF O
  <2> QED
    BY <1>2 DEF Arranged
<1>4. q \in C /\ q \in Nat /\ p \in Nat /\ q \in Cell /\ m_size(h, p) \in Nat /\ m_size(h, p) >= 2
  <2> HIDE DEF O, p
  <2> QED
    BY <1>2, <1>3, ArrangedFacts
<1>5. q # p + 1
  <2>1. p # q => p + m_size(h, p) <= q \/ q + m_size(h, q) <= p
    <3> HIDE DEF O, p, q
    <3> QED
      BY <1>2, <1>3, <1>4, ArrangedFacts
  <2>2. m_size(h, q) \in Nat
    <3> HIDE DEF O, p, q
    <3> QED
      BY <1>2, <1>4, ArrangedFacts
  <2> HIDE DEF p, q
  <2> QED
    BY <1>4, <2>1, <2>2
<1>6. u.brk = h.brk /\ u.freed = h.freed /\ u.mini = h.mini /\ m_size(u, q) = m_size(h, q)
  <2> DEFINE f == set_next(h, p, m_next(h, q))
  <2>1. f.brk = h.brk /\ f.freed = h.freed /\ f.mini = h.mini /\ f.cell[q] = h.cell[q] /\ f \in Heaps
    <3>1. p + 1 \in Cell /\ m_next(h, q) \in Nat
      <4> HIDE DEF O, p, q
      <4> QED
        BY <1>2, <1>3, <1>4, ArrangedFacts
    <3> DEFINE v == m_next(h, q)
    <3> HIDE DEF p, q, v
    <3>2. LET x == set_next(h, p, v) IN
           /\ x \in Heaps /\ x.brk = h.brk /\ x.freed = h.freed /\ x.chunk = h.chunk /\ x.mini = h.mini
           /\ x.cell[p + 1] = v /\ \A b \in Cell : b # p + 1 => x.cell[b] = h.cell[b]
      BY <1>2, <3>1, SetNext DEF v
    <3> QED
      BY <1>4, <1>5, <3>2 DEF v
  <2> HIDE DEF f, c
  <2>2. u = [f EXCEPT !.chunk = c]
    BY DEF f
  <2> HIDE DEF u, q
  <2>3. u.brk = f.brk /\ u.freed = f.freed /\ u.mini = f.mini /\ u.cell = f.cell
    BY <2>1, <2>2 DEF Heaps
  <2> QED
    BY <2>1, <2>3 DEF m_size
<1>a. CASE AtTop(h, q)
  <2>1. ReleaseTop(h) = FreeChunk(u, q)
    <3>1. q + 1 # NULL /\ (q + 1) - 1 = q
      BY <1>4 DEF NULL
    <3>2. set_next(h, p, m_next(h, q)).chunk = p
      BY <1>2 DEF set_next, Heaps
    <3>3. ReleaseTop(h) = free(u, q + 1)
      BY <1>a, <3>2 DEF ReleaseTop
    <3> HIDE DEF u, q
    <3> QED
      BY <3>1, <3>3 DEF free
  <2> HIDE DEF u, q
  <2>2. AtTop(u, q) /\ ~u.mini
    BY <1>6, <1>a DEF AtTop
  <2>3. FreeChunk(u, q) = Lower(u, q)
    BY <2>2 DEF FreeChunk
  <2> QED
    BY <1>6, <2>1, <2>3 DEF Lower
<1>b. CASE ~AtTop(h, q)
  BY <1>b DEF ReleaseTop
<1> QED
  BY <1>a, <1>b

(* When the freed list has been dealt with nothing is on it, unless malloc *)
(* is done.                                                                *)
LEMMA DrainEnds ==
    ASSUME MallocAssumption, NEW h, NEW B, Good(h, B), h.freed # NULL, ~h.mini, NEW size,
           Drain(h, size).p = NULL
    PROVE  Good(Drain(h, size).h, B) /\ Drain(h, size).h.freed = NULL
<1> DEFINE g == SortedIn(h, size)
           r == Drained(g, size)
<1>1. Good(g, B) /\ (g.chunk # NULL \/ Lucky(g, size))
  BY SortedGood
<1>2. SortedOut(g, size) /\ g.mini = h.mini
  BY SortEnds
<1>3. Drain(h, size) = r
  BY DEF Drain
<1> HIDE DEF g
<1>4. ~Lucky(g, size)
  <2> SUFFICES ASSUME Lucky(g, size) PROVE FALSE
    OBVIOUS
  <2>1. r.p = g.freed
    BY DEF Drained, Result
  <2> QED
    BY <1>3, <2>1 DEF Lucky
<1>5. r.h = ReleaseTop(g)
  BY <1>4 DEF Drained, Result
<1>6. Good(ReleaseTop(g), B) /\ ReleaseTop(g).freed = g.freed
  BY <1>1, <1>2, <1>4, ReleaseTopGood, ReleaseTopFreed
<1> HIDE DEF r
<1> QED
  BY <1>2, <1>3, <1>4, <1>5, <1>6 DEF SortedOut

(* A search that finds nothing changes nothing.                            *)
LEMMA SearchedInVain ==
    ASSUME MallocAssumption, NEW h, NEW B, Good(h, B), NEW size \in Nat, size >= 2,
           search_chunk(h, size).p = NULL
    PROVE  search_chunk(h, size) = Result(h, NULL)
<1>1. PICK s, n, C : Managed(h, B, s, n, C)
  BY DEF Good
<1> DEFINE O == B \cup Elems(s, n)
<1>2. Arranged(h, O, C, {})
  BY <1>1 DEF Managed
<1> HIDE DEF O
<1>3. Found(h, search_chunk(h, size), O, size)
  BY <1>2, SearchFacts
<1> QED
  BY <1>3 DEF Found

(* User makes a pointer of a block, and only of one.                       *)
LEMMA UserNull ==
    ASSUME MallocAssumption, NEW h, NEW r, NEW B, NEW n, GivesBlock(h, r, B, n),
           User(r).p = NULL
    PROVE  r.p = NULL /\ User(r) = r
<1>1. r.p # NULL => r.p \in Nat
  BY GoodFacts DEF GivesBlock
<1>2. r.p # NULL => User(r).p = r.p + 1
  BY DEF User, Result
<1>3. r.p = NULL
  BY <1>1, <1>2 DEF NULL
<1> QED
  BY <1>3 DEF User

(* malloc gives up when there is hardly any room, and no other block has   *)
(* the size.                                                               *)
GivenUp(g, size) ==
    g.freed = NULL /\ search_chunk(g, size).p = NULL /\ Cramped(g)

(* From its first search on.                                               *)
LEMMA SearchEnds ==
    ASSUME MallocAssumption, GrowthAssumption, NEW h, NEW B, Good(h, B), NEW size \in Nat,
           size >= 2, Growth(size) <= 2 * MaxInt + 1, h.freed = NULL,
           AfterSearch(search_chunk(h, size), size).p = NULL
    PROVE  GivenUp(AfterSearch(search_chunk(h, size), size).h, size)
<1> DEFINE found == search_chunk(h, size)
           g == Grow(h, size)
           r == search_chunk(g, size)
<1>1. GivesBlock(h, found, B, size)
  BY SearchGood
<1>2. found.p = NULL
  <2> SUFFICES ASSUME found.p # NULL PROVE FALSE
    OBVIOUS
  <2>1. User(found).p = NULL
    BY DEF AfterSearch
  <2> HIDE DEF found
  <2> QED
    BY <1>1, <2>1, UserNull
<1>3. found.h = h
  <2>1. found = Result(h, NULL)
    BY <1>2, SearchedInVain
  <2> QED
    BY <2>1 DEF Result
<1>4. AfterSearch(found, size) = User(r)
  BY <1>2, <1>3 DEF AfterSearch
<1>5. Suffices(h, g, B, size)
  BY GrowEnds
<1> HIDE DEF g
<1>6. Good(g, B) /\ g.freed = NULL /\ (r.p # NULL \/ Cramped(g))
  BY <1>5 DEF Suffices
<1>7. GivesBlock(g, r, B, size)
  BY <1>6, SearchGood
<1>8. r.p = NULL /\ User(r) = r
  <2>1. User(r).p = NULL
    BY <1>4
  <2> HIDE DEF r
  <2> QED
    BY <1>7, <2>1, UserNull
<1>9. r = Result(g, NULL)
  BY <1>6, <1>8, SearchedInVain
<1>10. AfterSearch(found, size).h = g
  BY <1>4, <1>8, <1>9 DEF Result
<1> QED
  BY <1>6, <1>8, <1>10 DEF GivenUp

(* And from the start.                                                     *)
LEMMA MallocEnds ==
    ASSUME MallocAssumption, GrowthAssumption, NEW h, NEW B, Good(h, B), NEW size, Rounds(size),
           size # 0, Growth(CellsFor(size)) <= 2 * MaxInt + 1, malloc(h, size).p = NULL
    PROVE  GivenUp(malloc(h, size).h, CellsFor(size))
<1> DEFINE g == [h EXCEPT !.mini = FALSE]
           n == CellsFor(size)
           d == IF g.freed = NULL THEN Result(g, NULL) ELSE Drain(g, n)
           r == search_chunk(d.h, n)
<1>1. /\ g \in Heaps /\ g.brk = h.brk /\ g.freed = h.freed /\ g.chunk = h.chunk
      /\ g.cell = h.cell /\ g.mini = FALSE
  <2>1. h \in Heaps
    BY GoodFacts
  <2> QED
    BY <2>1 DEF Heaps
<1>2. n \in Nat /\ n >= 2
  <2>1. size \in Nat /\ CellsFor(size) = Cells(size)
    BY CellsForIs DEF Rounds
  <2> QED
    BY <2>1, CellsFacts DEF Cells
<1>3. malloc(h, size) = AfterDrain(d, n)
  BY DEF malloc
<1> HIDE DEF g, n
<1>4. Good(g, B)
  BY <1>1, GoodSame
<1>5. GivesBlock(g, d, B, n)
  <2>a. CASE g.freed = NULL
    <3>1. d.h = g /\ d.p = NULL
      BY <2>a DEF Result
    <3>2. Spares(g, g, B)
      BY <1>1, SparesSelf
    <3> QED
      BY <1>4, <3>1, <3>2 DEF GivesBlock
  <2>b. CASE g.freed # NULL
    <3>1. GivesBlock(g, Drain(g, n), B, n)
      BY <1>2, <1>4, <2>b, DrainGood
    <3> QED
      BY <2>b, <3>1
  <2> QED
    BY <2>a, <2>b
<1>6. d.p = NULL
  <2> SUFFICES ASSUME d.p # NULL PROVE FALSE
    OBVIOUS
  <2> HIDE DEF d
  <2>1. User(d).p = NULL
    BY <1>3 DEF AfterDrain
  <2> QED
    BY <1>5, <2>1, UserNull
<1>7. Good(d.h, B) /\ d.h.freed = NULL
  <2>a. CASE g.freed = NULL
    BY <1>4, <2>a DEF Result
  <2>b. CASE g.freed # NULL
    <3>1. d = Drain(g, n) /\ ~g.mini
      BY <1>1, <2>b
    <3> HIDE DEF d
    <3> QED
      BY <1>4, <1>6, <2>b, <3>1, DrainEnds
  <2> QED
    BY <2>a, <2>b
<1> HIDE DEF d
<1>8. malloc(h, size) = AfterSearch(r, n)
  BY <1>3, <1>6 DEF AfterDrain
<1>9. GivenUp(AfterSearch(r, n).h, n)
  BY <1>2, <1>7, <1>8, SearchEnds DEF n
<1> QED
  BY <1>8, <1>9 DEF n

(* What callers may rely on when they get NULL.                            *)
LEMMA InvFull ==
    ASSUME MallocAssumption, SizesAssumption, GrowthAssumption, IInv PROVE NullOnlyWhenFull
<1> SUFFICES ASSUME NEW req \in Requests \ {0}, malloc(heap, req).p = NULL
             PROVE  Full(malloc(heap, req), req)
  BY DEF NullOnlyWhenFull, NullIsFull
<1>1. PICK s, n, C : HeapParts(s, n, C)
  BY InvParts
<1>2. Good(heap, HeldBlocks)
  BY <1>1 DEF HeapParts, Good
<1>3. Rounds(req)
  BY RequestFacts
<1>4. Growth(CellsFor(req)) <= 2 * MaxInt + 1
  BY DEF GrowthAssumption
<1>5. GivenUp(malloc(heap, req).h, CellsFor(req))
  BY <1>2, <1>3, <1>4, MallocEnds
<1> QED
  BY <1>5 DEF GivenUp, Full, Cramped

(* malloc returns NULL only when the freed list is sorted in, no chunk has *)
(* the size, and less than its smallest piece is left above the heap.      *)
THEOREM NullIsLast == Spec => []NullOnlyWhenFull
<1>1. IInv => NullOnlyWhenFull
  BY InvFull, MallocAssumption, SizesAssumption, GrowthAssumption
<1> QED
  BY <1>1, Invariant, PTL
=============================================================================
