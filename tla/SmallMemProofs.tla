---------------------------- MODULE SmallMemProofs ----------------------------
(***************************************************************************)
(* The heap of mem.c stays a chain of disjoint blocks, for every heap size *)
(* and alignment, any number of clients and any sizes they ask for.        *)
(***************************************************************************)
EXTENDS SmallMem, WellFoundedInduction, TLAPS

-----------------------------------------------------------------------------
(* Offsets and sizes *)

\* The first block of a search exists when there is one to find.
LEMMA MinLemma ==
  ASSUME NEW S \in SUBSET Nat, S # {}
  PROVE  Min(S) \in S /\ \A y \in S : Min(S) <= y
<1> DEFINE R == OpToRel(<, Nat)
<1>1. IsWellFoundedOn(R, Nat)
  BY NatLessThanWellFounded
<1>2. \A x, y \in Nat : x < y => <<x, y>> \in R
  BY DEF OpToRel
<1> HIDE DEF R
<1>3. \E x \in S : \A y \in S : ~(<<y, x>> \in R)
  BY <1>1, WFMin
<1>4. \E x \in S : \A y \in S : x <= y
  <2>1. PICK x \in S : \A y \in S : ~(<<y, x>> \in R)
    BY <1>3
  <2>2. ASSUME NEW y \in S PROVE x <= y
    <3>1. x \in Nat /\ y \in Nat /\ ~(y < x)
      BY <1>2, <2>1
    <3>. QED BY <3>1
  <2>. QED BY <2>2
<1>. QED BY <1>4 DEF Min

\* Offsets stay aligned when aligned sizes are added.
LEMMA AlignSum ==
  ASSUME NEW x \in Nat, NEW y \in Nat, x % Align = 0, y % Align = 0
  PROVE  (x + y) % Align = 0
<1>1. Align \in Nat \ {0}
  BY HeapAssumption
<1>2. x = Align * (x \div Align) /\ y = Align * (y \div Align)
  BY <1>1
<1>3. x + y = Align * ((x \div Align) + (y \div Align))
  BY <1>1, <1>2
<1> DEFINE q == (x \div Align) + (y \div Align)
<1>4. q \in Nat
  BY <1>1
<1> HIDE DEF q
<1>5. (Align * q) % Align = 0
  BY <1>1, <1>4
<1>. QED BY <1>3, <1>5 DEF q

\* RT_ALIGN rounds up to a multiple of the alignment.
LEMMA AlignLemma ==
  ASSUME NEW n \in Request
  PROVE  /\ RT_ALIGN(n) \in Nat /\ n \in Nat \ {0} /\ n <= RT_ALIGN(n) /\ RT_ALIGN(n) % Align = 0
<1>1. Align \in Nat \ {0} /\ n \in Nat \ {0}
  BY HeapAssumption
<1> DEFINE q == (n + Align - 1) \div Align
<1>2. q \in Nat /\ n + Align - 1 < Align * q + Align
  BY <1>1
<1> HIDE DEF q
<1>3. RT_ALIGN(n) = q * Align
  BY DEF RT_ALIGN, q
<1>4. q * Align \in Nat /\ n <= q * Align /\ (q * Align) % Align = 0
  BY <1>1, <1>2
<1>. QED BY <1>1, <1>3, <1>4

\* The size rt_malloc looks for is aligned, positive and no less than asked for.
LEMMA WantLemma ==
  ASSUME NEW n \in Request
  PROVE  Want(n) \in Nat \ {0} /\ n \in Nat /\ n <= Want(n) /\ Want(n) % Align = 0
<1>1. MinSize \in Nat \ {0} /\ MinSize % Align = 0
  BY HeapAssumption
<1>. QED BY <1>1, AlignLemma DEF Want
-----------------------------------------------------------------------------
(* The chain of headers *)

Headers == [used : BOOLEAN, next : 0 .. End, prev : 0 .. End]

\* The header at b leads to the next one up, which leaves room for b's data.
Forth(blk, b) ==
  /\ blk[b].next \in DOMAIN blk /\ b + Header < blk[b].next /\ b % Align = 0
  /\ \A x \in DOMAIN blk : ~(b < x /\ x < blk[b].next)

\* ... and back to the one that leads to it.
Back(blk, b) ==
  /\ blk[b].prev \in DOMAIN blk /\ blk[b].prev # End
  /\ blk[blk[b].prev].next = b

Chain(blk) ==
  /\ blk \in [DOMAIN blk -> Headers]
  /\ DOMAIN blk \subseteq 0 .. End /\ 0 \in DOMAIN blk /\ End \in DOMAIN blk
  /\ blk[End].used /\ blk[0].prev = 0
  /\ \A b \in DOMAIN blk : b # End => Forth(blk, b)
  /\ \A b \in DOMAIN blk : b # End /\ b # 0 => Back(blk, b)

\* A header and the one it leads to lead to each other.
LEMMA NextPrev ==
  ASSUME NEW blk, Chain(blk), NEW b \in DOMAIN blk, b # End, blk[b].next # End
  PROVE  blk[blk[b].next].prev = b
<1> DEFINE n == blk[b].next
           p == blk[n].prev
<1>1. n \in DOMAIN blk /\ n # 0 /\ b < n /\ b \in Nat /\ n \in Nat
  BY HeapAssumption DEF Chain, Forth
<1>2. Back(blk, n)
  BY <1>1 DEF Chain
<1>3. p \in DOMAIN blk /\ p # End /\ blk[p].next = n
  BY <1>2 DEF Back
<1>4. p \in Nat /\ p < n /\ ~(p < b /\ b < n) /\ ~(b < p /\ p < n)
  BY <1>1, <1>3, HeapAssumption DEF Chain, Forth
<1>. QED BY <1>1, <1>4

\* No other header leads to the same one.
LEMMA OnePrevious ==
  ASSUME NEW blk, Chain(blk), NEW b \in DOMAIN blk, NEW x \in DOMAIN blk, b # End, x # End,
         blk[x].next = blk[b].next
  PROVE  x = b
<1>1. b \in Nat /\ x \in Nat /\ b < blk[b].next /\ x < blk[b].next /\ blk[b].next \in Nat
  BY HeapAssumption DEF Chain, Forth
<1>2. ~(b < x /\ x < blk[b].next) /\ ~(x < b /\ b < blk[b].next)
  BY DEF Chain, Forth
<1>. QED BY <1>1, <1>2

-----------------------------------------------------------------------------
(* Splitting a block *)

\* r is blk with a free block at b2 cut off the end of block b.
Divided(blk, b, b2, r) ==
  /\ DOMAIN r = DOMAIN blk \cup {b2} /\ b2 \notin DOMAIN blk
  /\ ~r[b2].used /\ r[b2].next = blk[b].next /\ r[b2].prev = b
  /\ r[b].used = blk[b].used /\ r[b].next = b2 /\ r[b].prev = blk[b].prev
  /\ \A x \in DOMAIN blk : x # b => r[x].used = blk[x].used /\ r[x].next = blk[x].next
  /\ \A x \in DOMAIN blk : x # b /\ x # blk[b].next => r[x].prev = blk[x].prev
  /\ blk[b].next # End => r[blk[b].next].prev = b2

\* The split of rt_malloc and of rt_realloc leaves a chain.
LEMMA SplitLemma ==
  ASSUME NEW blk, Chain(blk), NEW b \in DOMAIN blk, b # End,
         NEW size \in Nat, size > 0, size % Align = 0, size + Header < DataSize(blk, b),
         NEW r, r = Split(blk, b, size)
  PROVE  Chain(r) /\ Divided(blk, b, b + Header + size, r)
<1> DEFINE b2 == b + Header + size
           n == blk[b].next
<1>0. /\ Header \in Nat \ {0} /\ MemSize \in Nat \ {0} /\ End \in Nat /\ Header % Align = 0
      /\ b \in Nat /\ n \in Nat /\ n \in DOMAIN blk /\ n <= End
  BY HeapAssumption DEF Chain, Forth, End
<1>1. b2 \in Nat /\ b < b2 /\ b + Header < b2 /\ b2 + Header < n /\ b2 # End /\ b2 <= End
  BY <1>0 DEF DataSize
<1>2. b2 \notin DOMAIN blk
  <2>1. \A x \in DOMAIN blk : ~(b < x /\ x < n)
    BY DEF Chain, Forth
  <2>. QED BY <1>0, <1>1, <2>1
<1>3. b2 % Align = 0
  <2>1. b % Align = 0
    BY DEF Chain, Forth
  <2>2. (b + Header) % Align = 0
    BY <1>0, <2>1, AlignSum
  <2>. QED BY <1>0, <2>2, AlignSum
<1>4. \A x \in DOMAIN blk : blk[x] \in Headers
  BY DEF Chain
<1>5. r = [x \in DOMAIN blk \cup {b2} |->
             CASE x = b2 -> [used |-> FALSE, next |-> n, prev |-> b]
               [] x = b  -> [blk[b] EXCEPT !.next = b2]
               [] x = n /\ n # End -> [blk[n] EXCEPT !.prev = b2]
               [] OTHER -> blk[x]]
  BY DEF Split
<1>6. n # b /\ n # b2 /\ b # b2
  BY <1>0, <1>1
<1> HIDE DEF b2, n
<1>7. /\ DOMAIN r = DOMAIN blk \cup {b2}
      /\ r[b2] = [used |-> FALSE, next |-> n, prev |-> b]
      /\ r[b] = [blk[b] EXCEPT !.next = b2]
      /\ n # End => r[n] = [blk[n] EXCEPT !.prev = b2]
      /\ \A x \in DOMAIN blk : x # b /\ (x # n \/ n = End) => r[x] = blk[x]
  BY <1>0, <1>2, <1>5, <1>6
<1>8. r[b2] \in Headers /\ r[b] \in Headers /\ (n # End => r[n] \in Headers)
  BY <1>0, <1>1, <1>4, <1>7 DEF Headers, Chain
<1>9. \A x \in DOMAIN r : r[x] \in Headers
  BY <1>4, <1>7, <1>8
<1>10. Divided(blk, b, b2, r)
  <2>1. \A x \in DOMAIN blk : x # b => r[x].used = blk[x].used /\ r[x].next = blk[x].next
    BY <1>4, <1>7 DEF Headers
  <2>2. r[b].used = blk[b].used /\ r[b].next = b2 /\ r[b].prev = blk[b].prev
    BY <1>4, <1>7 DEF Headers
  <2>3. n # End => r[n].prev = b2
    BY <1>0, <1>4, <1>7 DEF Headers
  <2>. QED BY <1>2, <1>7, <2>1, <2>2, <2>3 DEF Divided, n
<1>11. ASSUME NEW x \in DOMAIN r, x # End PROVE Forth(r, x)
  <2>1. CASE x = b2
    <3>1. \A y \in DOMAIN blk : ~(b < y /\ y < n)
      BY DEF Chain, Forth, n
    <3>2. \A y \in DOMAIN r : ~(b2 < y /\ y < n)
      BY <1>0, <1>1, <1>7, <3>1 DEF Chain
    <3>. QED BY <1>0, <1>1, <1>3, <1>7, <2>1, <3>2 DEF Forth
  <2>2. CASE x = b
    <3>1. \A y \in DOMAIN blk : ~(b < y /\ y < n)
      BY DEF Chain, Forth, n
    <3>2. \A y \in DOMAIN r : ~(b < y /\ y < b2)
      BY <1>0, <1>1, <1>7, <3>1 DEF Chain
    <3>3. r[b].next = b2 /\ b % Align = 0
      BY <1>10 DEF Divided, Chain, Forth
    <3>. QED BY <1>1, <1>7, <2>2, <3>2, <3>3 DEF Forth
  <2>3. CASE x # b2 /\ x # b
    <3>1. x \in DOMAIN blk /\ Forth(blk, x) /\ r[x].next = blk[x].next
      BY <1>7, <1>10, <1>11, <2>3 DEF Divided, Chain
    <3>2. ~(x < b /\ b < blk[x].next) /\ x \in Nat /\ blk[x].next \in Nat
      BY <3>1 DEF Forth, Chain
    <3>3. ~(b < x /\ x < n)
      BY <3>1 DEF Chain, Forth, n
    <3>4. ~(x < b2 /\ b2 < blk[x].next)
      BY <1>0, <1>1, <2>3, <3>2, <3>3
    <3>. QED BY <1>7, <3>1, <3>4 DEF Forth
  <2>. QED BY <2>1, <2>2, <2>3
<1>12. ASSUME NEW x \in DOMAIN r, x # End, x # 0 PROVE Back(r, x)
  <2>1. CASE x = b2
    BY <1>7, <1>10, <2>1 DEF Divided, Back
  <2>2. CASE x = n
    <3>1. r[n].prev = b2 /\ r[b2].next = n
      BY <1>7, <1>10, <1>12, <2>2 DEF Divided, n
    <3>. QED BY <1>1, <1>7, <2>2, <3>1 DEF Back
  <2>3. CASE x # b2 /\ x # n
    <3>1. x \in DOMAIN blk /\ Back(blk, x)
      BY <1>7, <1>12, <2>3 DEF Chain
    <3>2. r[x].prev = blk[x].prev
      BY <1>10, <2>3, <3>1 DEF Divided, n
    <3>3. blk[x].prev # b
      BY <2>3, <3>1 DEF Back, n
    <3>. QED BY <1>7, <1>10, <3>1, <3>2, <3>3 DEF Back, Divided
  <2>. QED BY <2>1, <2>2, <2>3
<1>13. /\ r \in [DOMAIN r -> Headers]
  BY <1>5, <1>9
<1>14. r[End].used /\ r[0].prev = 0 /\ 0 \in DOMAIN r /\ End \in DOMAIN r /\ DOMAIN r \subseteq 0 .. End
  <2>1. r[End].used
    BY <1>10 DEF Chain, Divided
  <2>2. r[0].prev = 0
    <3>1. n # 0
      BY <1>0, <1>1
    <3>. QED BY <1>10, <3>1 DEF Chain, Divided, n
  <2>. QED BY <1>1, <1>7, <2>1, <2>2 DEF Chain
<1>. QED BY <1>10, <1>11, <1>12, <1>13, <1>14 DEF Chain, b2

-----------------------------------------------------------------------------
(* Merging two blocks *)

\* r is blk with the block after b made part of b.
Joined(blk, b, r) ==
  LET n == blk[b].next
  IN  /\ DOMAIN r = DOMAIN blk \ {n}
      /\ r[b].next = blk[n].next /\ r[blk[n].next].prev = b
      /\ \A x \in DOMAIN r : r[x].used = blk[x].used
      /\ \A x \in DOMAIN r : x # b => r[x].next = blk[x].next
      /\ \A x \in DOMAIN r : x # blk[n].next => r[x].prev = blk[x].prev

\* The merges of plug_holes leave a chain.
LEMMA MergeLemma ==
  ASSUME NEW blk, Chain(blk), NEW b \in DOMAIN blk, b # End, blk[b].next # End,
         NEW r, r = Merge(blk, b)
  PROVE  Chain(r) /\ Joined(blk, b, r)
<1> DEFINE n == blk[b].next
           m == blk[n].next
           e == [blk EXCEPT ![b].next = m, ![m].prev = b]
<1>0. /\ Header \in Nat \ {0} /\ End \in Nat /\ b \in Nat
      /\ n \in Nat /\ n \in DOMAIN blk /\ n # End /\ b + Header < n /\ b % Align = 0
      /\ \A x \in DOMAIN blk : ~(b < x /\ x < n)
  BY HeapAssumption DEF Chain, Forth, End
<1>1. /\ m \in Nat /\ m \in DOMAIN blk /\ n + Header < m
      /\ \A x \in DOMAIN blk : ~(n < x /\ x < m)
  BY <1>0 DEF Chain, Forth
<1>2. b # n /\ b # m /\ n # m /\ n # 0 /\ m # 0 /\ b + Header < m
  BY <1>0, <1>1
<1>3. \A x \in DOMAIN blk : blk[x] \in Headers
  BY DEF Chain
<1>4. r = Restrict(e, DOMAIN e \ {n}) /\ DOMAIN e = DOMAIN blk
  BY DEF Merge, Drop
<1> HIDE DEF n, m
<1>5. /\ e[b] = [blk[b] EXCEPT !.next = m] /\ e[m] = [blk[m] EXCEPT !.prev = b]
      /\ \A x \in DOMAIN blk : x # b /\ x # m => e[x] = blk[x]
  BY <1>1, <1>2
<1> HIDE DEF e
<1>6. r = [x \in DOMAIN blk \ {n} |-> e[x]]
  BY <1>4 DEF Restrict
<1>7. /\ DOMAIN r = DOMAIN blk \ {n}
      /\ r[b] = [blk[b] EXCEPT !.next = m] /\ r[m] = [blk[m] EXCEPT !.prev = b]
      /\ \A x \in DOMAIN r : x # b /\ x # m => r[x] = blk[x]
  BY <1>1, <1>2, <1>5, <1>6
<1>8. r[b] \in Headers /\ r[m] \in Headers
  BY <1>0, <1>1, <1>3, <1>7 DEF Headers, Chain
<1>9. \A x \in DOMAIN r : r[x] \in Headers
  BY <1>3, <1>7, <1>8
<1>10. Joined(blk, b, r)
  <2>1. \A x \in DOMAIN r : r[x].used = blk[x].used
    BY <1>1, <1>3, <1>7 DEF Headers
  <2>2. \A x \in DOMAIN r : x # b => r[x].next = blk[x].next
    BY <1>1, <1>3, <1>7 DEF Headers
  <2>3. \A x \in DOMAIN r : x # m => r[x].prev = blk[x].prev
    BY <1>3, <1>7 DEF Headers
  <2>4. r[b].next = m /\ r[m].prev = b
    BY <1>1, <1>3, <1>7 DEF Headers
  <2>. QED BY <1>7, <2>1, <2>2, <2>3, <2>4 DEF Joined, n, m
<1>11. ASSUME NEW x \in DOMAIN r, x # End PROVE Forth(r, x)
  <2>1. CASE x = b
    <3>1. \A y \in DOMAIN r : ~(b < y /\ y < m)
      BY <1>0, <1>1, <1>7 DEF Chain
    <3>2. r[b].next = m
      BY <1>10 DEF Joined, n, m
    <3>. QED BY <1>0, <1>1, <1>2, <1>7, <2>1, <3>1, <3>2 DEF Forth
  <2>2. CASE x # b
    <3>1. x \in DOMAIN blk /\ Forth(blk, x) /\ r[x].next = blk[x].next
      BY <1>7, <1>10, <1>11, <2>2 DEF Joined, Chain
    <3>2. blk[x].next # n
      BY <1>11, <2>2, <3>1, OnePrevious DEF n
    <3>. QED BY <1>7, <3>1, <3>2 DEF Forth
  <2>. QED BY <2>1, <2>2
<1>12. ASSUME NEW x \in DOMAIN r, x # End, x # 0 PROVE Back(r, x)
  <2>1. CASE x = m
    BY <1>0, <1>2, <1>7, <1>10, <2>1 DEF Joined, Back, n, m
  <2>2. CASE x # m
    <3>1. x \in DOMAIN blk /\ Back(blk, x) /\ r[x].prev = blk[x].prev
      BY <1>7, <1>10, <1>12, <2>2 DEF Chain, Joined, n, m
    <3>2. blk[x].prev # n /\ blk[x].prev # b
      BY <1>7, <1>12, <2>2, <3>1 DEF Back, n, m
    <3>. QED BY <1>7, <1>10, <3>1, <3>2 DEF Back, Joined
  <2>. QED BY <2>1, <2>2
<1>13. r \in [DOMAIN r -> Headers]
  BY <1>6, <1>9
<1>14. /\ r[End].used /\ r[0].prev = 0 /\ 0 \in DOMAIN r /\ End \in DOMAIN r
       /\ DOMAIN r \subseteq 0 .. End
  <2>1. 0 \in DOMAIN r /\ End \in DOMAIN r
    BY <1>0, <1>2, <1>7 DEF Chain
  <2>2. r[End].used /\ r[0].prev = 0
    BY <1>2, <1>10, <2>1 DEF Chain, Joined, n, m
  <2>. QED BY <1>7, <2>1, <2>2 DEF Chain
<1>. QED BY <1>10, <1>11, <1>12, <1>13, <1>14 DEF Chain

\* r is blk with block b marked used or free.
Marked(blk, b, v, r) ==
  /\ DOMAIN r = DOMAIN blk /\ r[b].used = v
  /\ \A x \in DOMAIN blk : r[x].next = blk[x].next
  /\ \A x \in DOMAIN blk : x # b => r[x].used = blk[x].used

\* The mark leaves a chain.
LEMMA MarkLemma ==
  ASSUME NEW blk, Chain(blk), NEW b \in DOMAIN blk, b # End, NEW v \in BOOLEAN,
         NEW r, r = [blk EXCEPT ![b].used = v]
  PROVE  Chain(r) /\ Marked(blk, b, v, r)
<1>1. \A x \in DOMAIN blk : blk[x] \in Headers
  BY DEF Chain
<1>2. /\ DOMAIN r = DOMAIN blk /\ r[b] = [blk[b] EXCEPT !.used = v]
      /\ \A x \in DOMAIN blk : x # b => r[x] = blk[x]
  OBVIOUS
<1>3. /\ r[b].used = v
      /\ \A x \in DOMAIN blk : r[x].next = blk[x].next /\ r[x].prev = blk[x].prev
      /\ \A x \in DOMAIN blk : x # b => r[x].used = blk[x].used
      /\ \A x \in DOMAIN blk : r[x] \in Headers
  BY <1>1, <1>2 DEF Headers
<1>4. r \in [DOMAIN r -> Headers]
  BY <1>2, <1>3
<1>5. /\ \A x \in DOMAIN r : x # End => Forth(r, x)
      /\ \A x \in DOMAIN r : x # End /\ x # 0 => Back(r, x)
  BY <1>2, <1>3 DEF Chain, Forth, Back
<1>6. r[End].used /\ r[0].prev = 0
  BY <1>3 DEF Chain
<1>7. Chain(r)
  BY <1>2, <1>4, <1>5, <1>6 DEF Chain
<1>. QED BY <1>2, <1>3, <1>7 DEF Marked

-----------------------------------------------------------------------------
(* plug_holes *)

\* No two free blocks are adjacent, but perhaps b and its neighbours.
CoalescedBut(blk, b) ==
  \A x \in DOMAIN blk : x # End /\ x # b /\ blk[x].next # b /\ ~blk[x].used
                        => blk[blk[x].next].used

\* The blocks whose data a client may use.
UsedBlocks(blk) == {b \in DOMAIN blk : b # End /\ blk[b].used}

\* Neither the used blocks nor their data have moved.
Survive(blk, r) ==
  /\ UsedBlocks(r) = UsedBlocks(blk)
  /\ \A x \in UsedBlocks(blk) : r[x].next = blk[x].next

IsHeap(r) ==
  /\ DOMAIN r = {"blk", "lfree", "used_mem"}
  /\ Chain(r.blk) /\ r.lfree \in DOMAIN r.blk

\* A merge of two free blocks leaves the used ones alone.
LEMMA MergeSurvive ==
  ASSUME NEW blk, Chain(blk), NEW b \in DOMAIN blk, b # End, ~blk[b].used,
         ~blk[blk[b].next].used, NEW r, Joined(blk, b, r)
  PROVE  Survive(blk, r)
<1>1. UsedBlocks(r) = UsedBlocks(blk)
  BY DEF Joined, UsedBlocks
<1>2. \A x \in UsedBlocks(blk) : r[x].next = blk[x].next
  BY DEF Joined, UsedBlocks
<1>. QED BY <1>1, <1>2 DEF Survive

\* plug_holes forward: the block after b is part of b when it is free.
LEMMA ForwardLemma ==
  ASSUME NEW r, IsHeap(r), NEW b \in DOMAIN r.blk, b # End, ~r.blk[b].used,
         CoalescedBut(r.blk, b), NEW f, f = PlugForward(r, b)
  PROVE  /\ IsHeap(f) /\ b \in DOMAIN f.blk /\ ~f.blk[b].used
         /\ f.blk[f.blk[b].next].used
         /\ CoalescedBut(f.blk, b) /\ Survive(r.blk, f.blk)
<1> DEFINE blk == r.blk
           n == blk[b].next
           j == Merge(blk, b)
<1>0. /\ Chain(blk) /\ n \in DOMAIN blk /\ n \in Nat /\ b \in Nat /\ b < n /\ blk[End].used
      /\ r.lfree \in DOMAIN blk
  BY HeapAssumption DEF IsHeap, Chain, Forth
<1>1. CASE n # End /\ ~blk[n].used
  <2>1. f = [r EXCEPT !.blk = j, !.lfree = IF r.lfree = n THEN b ELSE r.lfree]
    BY <1>1 DEF PlugForward
  <2>2. /\ DOMAIN f = {"blk", "lfree", "used_mem"} /\ f.blk = j
        /\ f.lfree = IF r.lfree = n THEN b ELSE r.lfree
    BY <2>1 DEF IsHeap
  <2>3. Chain(j) /\ Joined(blk, b, j)
    BY <1>0, <1>1, MergeLemma
  <2> HIDE DEF j
  <2>4. b \in DOMAIN j /\ ~j[b].used /\ DOMAIN j = DOMAIN blk \ {n} /\ j[b].next = blk[n].next
    <3>1. /\ DOMAIN j = DOMAIN blk \ {n} /\ j[b].next = blk[n].next
          /\ \A x \in DOMAIN j : j[x].used = blk[x].used
      BY ONLY <2>3 DEF Joined
    <3>2. b \in DOMAIN blk /\ b # n /\ ~blk[b].used
      BY <1>0
    <3> HIDE DEF blk, n
    <3>3. b \in DOMAIN j
      BY ONLY <3>1, <3>2
    <3>. QED BY ONLY <3>1, <3>2, <3>3
  <2>5. f.lfree \in DOMAIN j
    BY <1>0, <2>2, <2>4
  <2>6. blk[n].next \in DOMAIN blk /\ n < blk[n].next /\ blk[n].next \in Nat
    BY <1>0, <1>1, HeapAssumption DEF Chain, Forth
  <2>7. blk[blk[n].next].used
    <3>1. n \in DOMAIN blk /\ n # End /\ n # b /\ blk[n].next # b /\ ~blk[n].used
      BY <1>0, <1>1, <2>6
    <3>2. CoalescedBut(blk, b)
      OBVIOUS
    <3> HIDE DEF blk, n
    <3>. QED BY ONLY <3>1, <3>2 DEF CoalescedBut
  <2>8. j[j[b].next].used
    <3> DEFINE m == blk[n].next
    <3>1. m \in DOMAIN j /\ blk[m].used
      <4>1. m \in DOMAIN blk /\ m # n
        BY <1>0, <2>6
      <4>2. blk[m].used /\ DOMAIN j = DOMAIN blk \ {n}
        BY <2>4, <2>7
      <4> HIDE DEF blk, n, m
      <4>. QED BY ONLY <4>1, <4>2
    <3>2. j[m].used = blk[m].used
      BY ONLY <2>3, <3>1 DEF Joined
    <3>3. j[b].next = m
      BY <2>4
    <3>. QED BY ONLY <3>1, <3>2, <3>3
  <2>9. CoalescedBut(j, b)
    <3>. SUFFICES ASSUME NEW x \in DOMAIN j, x # End, x # b, j[x].next # b, ~j[x].used
                  PROVE  j[j[x].next].used
      BY DEF CoalescedBut
    <3>1. x \in DOMAIN blk /\ ~blk[x].used /\ j[x].next = blk[x].next
      BY <2>3, <2>4 DEF Joined
    <3>2. blk[x].next # n
      BY <1>0, <3>1, OnePrevious
    <3>3. blk[x].next \in DOMAIN blk /\ blk[blk[x].next].used
      BY <1>0, <3>1 DEF CoalescedBut, Chain, Forth
    <3>4. blk[x].next \in DOMAIN j /\ \A y \in DOMAIN j : j[y].used = blk[y].used
      BY <2>3, <2>4, <3>2, <3>3 DEF Joined
    <3>. QED BY ONLY <3>1, <3>3, <3>4
  <2>10. Survive(blk, j)
    BY <1>0, <1>1, <2>3, MergeSurvive
  <2>. QED BY <2>2, <2>3, <2>4, <2>5, <2>8, <2>9, <2>10 DEF IsHeap
<1>2. CASE ~(n # End /\ ~blk[n].used)
  <2>1. f = r
    BY <1>2 DEF PlugForward
  <2>2. blk[n].used
    BY <1>0, <1>2
  <2>. QED BY <1>0, <2>1, <2>2 DEF Survive
<1>. QED BY <1>1, <1>2

\* plug_holes backward: b is part of the block before when that is free.
LEMMA BackwardLemma ==
  ASSUME NEW r, IsHeap(r), NEW b \in DOMAIN r.blk, b # End, ~r.blk[b].used,
         r.blk[r.blk[b].next].used, CoalescedBut(r.blk, b), NEW g, g = PlugBackward(r, b)
  PROVE  IsHeap(g) /\ CoalescedBut(g.blk, -1) /\ Survive(r.blk, g.blk)
<1> DEFINE blk == r.blk
           p == blk[b].prev
           j == Merge(blk, p)
<1>0. /\ Chain(blk) /\ b \in Nat /\ End \in Nat /\ r.lfree \in DOMAIN blk
      /\ blk[b].next \in DOMAIN blk /\ b < blk[b].next /\ blk[b].next \in Nat
      /\ b = 0 => p = 0
      /\ \A x \in DOMAIN blk : x \in Nat
  BY HeapAssumption DEF IsHeap, Chain, Forth, End
<1>1. CASE p # b /\ ~blk[p].used
  <2>1. g = [r EXCEPT !.blk = j, !.lfree = IF r.lfree = b THEN p ELSE r.lfree]
    BY <1>1 DEF PlugBackward
  <2>2. /\ DOMAIN g = {"blk", "lfree", "used_mem"} /\ g.blk = j
        /\ g.lfree = IF r.lfree = b THEN p ELSE r.lfree
    BY <2>1 DEF IsHeap
  <2>3. p \in DOMAIN blk /\ p # End /\ blk[p].next = b
    BY <1>0, <1>1 DEF Chain, Back
  <2>4. Chain(j) /\ Joined(blk, p, j)
    BY <1>0, <2>3, MergeLemma
  <2> HIDE DEF j
  <2>5. DOMAIN j = DOMAIN blk \ {b} /\ j[p].next = blk[b].next /\ p \in DOMAIN j
    BY <1>1, <2>3, <2>4 DEF Joined
  <2>6. g.lfree \in DOMAIN j
    BY <1>0, <2>2, <2>5
  <2>7. CoalescedBut(j, -1)
    <3>. SUFFICES ASSUME NEW x \in DOMAIN j, x # End, ~j[x].used PROVE j[j[x].next].used
      BY DEF CoalescedBut
    <3>1. CASE x = p
      BY <1>0, <2>4, <2>5, <3>1 DEF Joined
    <3>2. CASE x # p
      <4>1. x \in DOMAIN blk /\ ~blk[x].used /\ j[x].next = blk[x].next /\ x # b
        BY <2>4, <2>5, <3>2 DEF Joined
      <4>2. blk[x].next # b
        BY <1>0, <2>3, <3>2, <4>1, OnePrevious
      <4>3. blk[x].next \in DOMAIN blk /\ blk[blk[x].next].used
        BY <1>0, <4>1, <4>2 DEF CoalescedBut, Chain, Forth
      <4>. QED BY <2>4, <2>5, <4>1, <4>2, <4>3 DEF Joined
    <3>. QED BY <3>1, <3>2
  <2>8. Survive(blk, j)
    BY <1>0, <1>1, <2>3, <2>4, MergeSurvive
  <2>. QED BY <2>2, <2>4, <2>6, <2>7, <2>8 DEF IsHeap
<1>2. CASE ~(p # b /\ ~blk[p].used)
  <2>1. g = r
    BY <1>2 DEF PlugBackward
  <2>2. CoalescedBut(blk, -1)
    <3>. SUFFICES ASSUME NEW x \in DOMAIN blk, x # End, ~blk[x].used
                  PROVE  blk[blk[x].next].used
      BY DEF CoalescedBut
    <3>1. CASE x = b
      BY <3>1
    <3>2. CASE x # b /\ blk[x].next = b
      <4>1. p = x
        BY <1>0, <3>2, NextPrev
      <4>. QED BY <1>2, <3>2, <4>1
    <3>3. CASE x # b /\ blk[x].next # b
      BY <3>3 DEF CoalescedBut
    <3>. QED BY <3>1, <3>2, <3>3
  <2>. QED BY <2>1, <2>2 DEF Survive
<1>. QED BY <1>1, <1>2

\* The heap between two calls.
HeapInv(r) == IsHeap(r) /\ CoalescedBut(r.blk, -1)

\* plug_holes around a free block makes the heap whole again.
LEMMA PlugLemma ==
  ASSUME NEW r, IsHeap(r), NEW b \in DOMAIN r.blk, b # End, ~r.blk[b].used,
         CoalescedBut(r.blk, b), NEW g, g = plug_holes(r, b)
  PROVE  HeapInv(g) /\ Survive(r.blk, g.blk)
<1> DEFINE f == PlugForward(r, b)
<1>1. /\ IsHeap(f) /\ b \in DOMAIN f.blk /\ ~f.blk[b].used
      /\ f.blk[f.blk[b].next].used
      /\ CoalescedBut(f.blk, b) /\ Survive(r.blk, f.blk)
  BY ForwardLemma
<1>2. g = PlugBackward(f, b)
  BY DEF plug_holes
<1> HIDE DEF f
<1>3. IsHeap(g) /\ CoalescedBut(g.blk, -1) /\ Survive(f.blk, g.blk)
  BY <1>1, <1>2, BackwardLemma
<1>4. Survive(r.blk, g.blk)
  BY <1>1, <1>3 DEF Survive
<1>. QED BY <1>3, <1>4 DEF HeapInv

-----------------------------------------------------------------------------
(* rt_malloc, rt_free and the shrinking rt_realloc *)

\* rt_malloc's block: free before and used after, large enough, and nobody
\* else's data has moved.
LEMMA TakeLemma ==
  ASSUME NEW r, HeapInv(r), NEW n \in Request, NEW b \in Fits(r, n),
         NEW t, t = Take(r, b, Want(n))
  PROVE  /\ HeapInv(t) /\ b \in DOMAIN r.blk /\ b # End /\ ~r.blk[b].used
         /\ UsedBlocks(t.blk) = UsedBlocks(r.blk) \cup {b}
         /\ \A x \in UsedBlocks(r.blk) : t.blk[x].next = r.blk[x].next
         /\ n <= DataSize(t.blk, b)
<1> DEFINE blk == r.blk
           size == Want(n)
           s == IF DataSize(blk, b) >= size + Header + MinSize THEN Split(blk, b, size) ELSE blk
           e == [s EXCEPT ![b].used = TRUE]
           free == {x \in DOMAIN e : x >= b /\ ~e[x].used}
<1>0. /\ Chain(blk) /\ CoalescedBut(blk, -1) /\ r.lfree \in DOMAIN blk
      /\ b \in DOMAIN blk /\ ~blk[b].used /\ b # End /\ DataSize(blk, b) >= size
  BY DEF HeapInv, IsHeap, Fits, Chain
<1>1. /\ size \in Nat \ {0} /\ size % Align = 0 /\ n \in Nat /\ n <= size
      /\ Header \in Nat \ {0} /\ MinSize \in Nat \ {0} /\ End \in Nat /\ End # -1
  BY WantLemma, HeapAssumption DEF End
<1>2. /\ \A x \in DOMAIN blk : x \in Nat /\ blk[x].next \in Nat
      /\ blk[b].next \in DOMAIN blk /\ DataSize(blk, b) \in Int
      /\ \A x \in DOMAIN blk : x # End => blk[x].next \in DOMAIN blk /\ x < blk[x].next
  BY <1>0, <1>1 DEF Chain, Headers, Forth, DataSize
<1>3. blk[blk[b].next].used
  BY <1>0, <1>2 DEF CoalescedBut
<1>4. /\ t.blk = e /\ DOMAIN t = {"blk", "lfree", "used_mem"}
      /\ t.lfree = IF b = r.lfree THEN Min(free \cup {End}) ELSE r.lfree
  BY DEF Take
<1> HIDE DEF size
<1>5. /\ Chain(s) /\ b \in DOMAIN s /\ DOMAIN blk \subseteq DOMAIN s /\ ~s[b].used
      /\ UsedBlocks(s) = UsedBlocks(blk)
      /\ \A x \in UsedBlocks(blk) : s[x].next = blk[x].next
      /\ CoalescedBut(s, b) /\ size <= DataSize(s, b)
  <2>1. CASE DataSize(blk, b) >= size + Header + MinSize
    <3> DEFINE b2 == b + Header + size
    <3>1. s = Split(blk, b, size) /\ size + Header < DataSize(blk, b)
      BY <1>1, <1>2, <2>1
    <3> HIDE DEF s
    <3>2. Chain(s) /\ Divided(blk, b, b2, s)
      BY <1>0, <1>1, <3>1, SplitLemma
    <3>3. size <= DataSize(s, b)
      BY <1>0, <1>1, <1>2, <3>2, SMTT(30) DEF DataSize, Divided
    <3> HIDE DEF b2
    <3>4. UsedBlocks(s) = UsedBlocks(blk)
      BY <1>0, <3>2 DEF UsedBlocks, Divided
    <3>5. \A x \in UsedBlocks(blk) : s[x].next = blk[x].next
      BY <1>0, <3>2 DEF UsedBlocks, Divided
    <3>6. CoalescedBut(s, b)
      <4>. SUFFICES ASSUME NEW x \in DOMAIN s, x # End, x # b, s[x].next # b, ~s[x].used
                    PROVE  s[s[x].next].used
        BY DEF CoalescedBut
      <4>1. CASE x = b2
        BY <1>0, <1>2, <1>3, <3>2, <4>1 DEF Divided
      <4>2. CASE x # b2
        <5>1. x \in DOMAIN blk /\ ~blk[x].used /\ s[x].next = blk[x].next
          BY <3>2, <4>2 DEF Divided
        <5>2. blk[x].next \in DOMAIN blk /\ blk[x].next # -1
          BY <1>2, <5>1
        <5>3. x # -1
          BY <1>2, <5>1
        <5>4. blk[blk[x].next].used
          BY <1>0, <5>1, <5>2, <5>3 DEF CoalescedBut
        <5>. QED BY <3>2, <5>1, <5>2, <5>4 DEF Divided
      <4>. QED BY <4>1, <4>2
    <3>. QED BY <1>0, <3>2, <3>3, <3>4, <3>5, <3>6 DEF Divided
  <2>2. CASE ~(DataSize(blk, b) >= size + Header + MinSize)
    <3>1. s = blk
      BY <2>2
    <3>2. CoalescedBut(blk, b)
      BY <1>0, <1>2 DEF CoalescedBut
    <3>3. size <= DataSize(blk, b)
      BY <1>0, <1>1, <1>2
    <3>. QED BY <1>0, <3>1, <3>2, <3>3
  <2>. QED BY <2>1, <2>2
<1> HIDE DEF s
<1>6. /\ Chain(e) /\ DOMAIN e = DOMAIN s /\ e[b].used = TRUE
      /\ \A x \in DOMAIN s : e[x].next = s[x].next
      /\ \A x \in DOMAIN s : x # b => e[x].used = s[x].used
  <2>1. e = [s EXCEPT ![b].used = TRUE]
    OBVIOUS
  <2> HIDE DEF e
  <2>2. Chain(e) /\ Marked(s, b, TRUE, e)
    BY <1>0, <1>5, <2>1, MarkLemma
  <2>. QED BY <2>2 DEF Marked
<1> HIDE DEF e
<1>7. CoalescedBut(e, -1)
  <2>. SUFFICES ASSUME NEW x \in DOMAIN e, x # End, ~e[x].used PROVE e[e[x].next].used
    BY DEF CoalescedBut
  <2>1. x # b /\ x \in DOMAIN s /\ ~s[x].used /\ e[x].next = s[x].next
    BY <1>6
  <2>2. s[x].next \in DOMAIN s
    BY <1>5, <2>1 DEF Chain, Forth
  <2>3. CASE s[x].next = b
    BY <1>6, <2>1, <2>3
  <2>4. CASE s[x].next # b
    <3>1. s[s[x].next].used
      BY <1>5, <2>1, <2>4 DEF CoalescedBut
    <3>. QED BY <1>6, <2>1, <2>2, <2>4, <3>1
  <2>. QED BY <2>3, <2>4
<1>8. t.lfree \in DOMAIN e
  <2>1. free \cup {End} \in SUBSET Nat /\ free \cup {End} \subseteq DOMAIN e
    BY <1>6 DEF Chain
  <2> HIDE DEF free
  <2>2. Min(free \cup {End}) \in free \cup {End}
    BY <2>1, MinLemma
  <2>. QED BY <1>0, <1>4, <1>5, <1>6, <2>1, <2>2
<1>9. HeapInv(t)
  BY <1>4, <1>6, <1>7, <1>8 DEF HeapInv, IsHeap
<1>10. UsedBlocks(e) = UsedBlocks(blk) \cup {b}
  <2>1. UsedBlocks(e) = UsedBlocks(s) \cup {b}
    BY <1>0, <1>5, <1>6 DEF UsedBlocks
  <2>. QED BY <1>5, <2>1
<1>11. \A x \in UsedBlocks(blk) : e[x].next = blk[x].next
  BY <1>5, <1>6 DEF UsedBlocks
<1>12. n <= DataSize(e, b)
  <2>1. DataSize(e, b) = DataSize(s, b)
    BY <1>5, <1>6 DEF DataSize
  <2>2. DataSize(s, b) \in Int
    BY <1>0, <1>1, <1>2, <1>5 DEF DataSize, Chain, Headers
  <2>. QED BY <1>1, <1>5, <2>1, <2>2
<1>. QED BY <1>0, <1>4, <1>9, <1>10, <1>11, <1>12

\* rt_free's block: free afterwards; nobody else's data has moved.
LEMMA ReleaseLemma ==
  ASSUME NEW r, HeapInv(r), NEW b \in UsedBlocks(r.blk), NEW t, t = Release(r, b)
  PROVE  /\ HeapInv(t) /\ UsedBlocks(t.blk) = UsedBlocks(r.blk) \ {b}
         /\ \A x \in UsedBlocks(t.blk) : t.blk[x].next = r.blk[x].next
<1> DEFINE m == [r EXCEPT !.blk[b].used = FALSE, !.lfree = IF b < @ THEN b ELSE @,
                          !.used_mem = @ - (r.blk[b].next - b)]
           e == [r.blk EXCEPT ![b].used = FALSE]
<1>0. /\ Chain(r.blk) /\ CoalescedBut(r.blk, -1) /\ r.lfree \in DOMAIN r.blk
      /\ b \in DOMAIN r.blk /\ b # End /\ r.blk[b].used
      /\ \A x \in DOMAIN r.blk : x \in Nat /\ r.blk[x].next \in Nat
      /\ \A x \in DOMAIN r.blk : x # End => r.blk[x].next \in DOMAIN r.blk
  BY HeapAssumption DEF HeapInv, IsHeap, UsedBlocks, Chain, Forth, Headers, End
<1>1. /\ DOMAIN m = {"blk", "lfree", "used_mem"} /\ m.blk = e
      /\ m.lfree = IF b < r.lfree THEN b ELSE r.lfree
  BY DEF HeapInv, IsHeap
<1>2. t = plug_holes(m, b)
  BY DEF Release
<1> HIDE DEF m
<1>3. /\ Chain(e) /\ DOMAIN e = DOMAIN r.blk /\ e[b].used = FALSE
      /\ \A x \in DOMAIN r.blk : e[x].next = r.blk[x].next
      /\ \A x \in DOMAIN r.blk : x # b => e[x].used = r.blk[x].used
  <2>1. e = [r.blk EXCEPT ![b].used = FALSE]
    OBVIOUS
  <2> HIDE DEF e
  <2>2. Chain(e) /\ Marked(r.blk, b, FALSE, e)
    BY <1>0, <2>1, MarkLemma
  <2>. QED BY <2>2 DEF Marked
<1> HIDE DEF e
<1>4. CoalescedBut(e, b)
  <2>. SUFFICES ASSUME NEW x \in DOMAIN e, x # End, x # b, e[x].next # b, ~e[x].used
                PROVE  e[e[x].next].used
    BY DEF CoalescedBut
  <2>1. x \in DOMAIN r.blk /\ ~r.blk[x].used /\ e[x].next = r.blk[x].next /\ x # -1
    BY <1>0, <1>3
  <2>2. r.blk[x].next \in DOMAIN r.blk /\ r.blk[x].next # -1
    BY <1>0, <2>1, SMTT(30)
  <2>3. r.blk[r.blk[x].next].used
    BY <1>0, <2>1, <2>2 DEF CoalescedBut
  <2>. QED BY <1>3, <2>1, <2>2, <2>3
<1>5. IsHeap(m)
  BY <1>0, <1>1, <1>3 DEF IsHeap
<1>6. HeapInv(t) /\ Survive(e, t.blk)
  BY <1>0, <1>1, <1>2, <1>3, <1>4, <1>5, PlugLemma
<1>7. UsedBlocks(e) = UsedBlocks(r.blk) \ {b}
  BY <1>0, <1>3 DEF UsedBlocks
<1>8. \A x \in UsedBlocks(e) : e[x].next = r.blk[x].next
  BY <1>3 DEF UsedBlocks
<1>. QED BY <1>6, <1>7, <1>8 DEF Survive

\* Block b of r holds n bytes in t, and the other used blocks what they held.
Shrunk(r, b, n, t) ==
  /\ UsedBlocks(t.blk) = UsedBlocks(r.blk)
  /\ \A x \in UsedBlocks(r.blk) : x # b => t.blk[x].next = r.blk[x].next
  /\ n <= DataSize(t.blk, b)

\* rt_realloc in place: the block keeps what is asked for and the rest is free.
LEMMA ShrinkLemma ==
  ASSUME NEW r, HeapInv(r), NEW b \in UsedBlocks(r.blk), NEW n \in Request,
         RT_ALIGN(n) + Header + MinSize < DataSize(r.blk, b), NEW v,
         NEW m, m = [r EXCEPT !.blk = Split(r.blk, b, RT_ALIGN(n)), !.used_mem = v],
         NEW t, t = plug_holes(m, b + Header + RT_ALIGN(n))
  PROVE  HeapInv(t) /\ Shrunk(r, b, n, t)
<1> DEFINE size == RT_ALIGN(n)
           s == Split(r.blk, b, size)
           b2 == b + Header + size
<1>0. /\ Chain(r.blk) /\ CoalescedBut(r.blk, -1) /\ r.lfree \in DOMAIN r.blk
      /\ b \in DOMAIN r.blk /\ b # End /\ r.blk[b].used
      /\ \A x \in DOMAIN r.blk : x \in Nat /\ r.blk[x].next \in Nat
      /\ \A x \in DOMAIN r.blk : x # End => r.blk[x].next \in DOMAIN r.blk
  BY HeapAssumption DEF HeapInv, IsHeap, UsedBlocks, Chain, Forth, Headers, End
<1>1. /\ size \in Nat /\ size > 0 /\ size % Align = 0 /\ n \in Nat /\ n <= size
      /\ Header \in Nat \ {0} /\ MinSize \in Nat \ {0}
  BY AlignLemma, HeapAssumption
<1>2. size + Header < DataSize(r.blk, b)
  BY <1>0, <1>1 DEF DataSize
<1>3. DOMAIN m = {"blk", "lfree", "used_mem"} /\ m.blk = s /\ m.lfree = r.lfree
  BY DEF HeapInv, IsHeap
<1>4. t = plug_holes(m, b2)
  OBVIOUS
<1> HIDE DEF size
<1>5. Chain(s) /\ Divided(r.blk, b, b2, s)
  BY <1>0, <1>1, <1>2, SplitLemma
<1> HIDE DEF s
<1>6. n <= DataSize(s, b)
  BY <1>0, <1>1, <1>5 DEF DataSize, Divided
<1> HIDE DEF b2
<1>7. b2 \in DOMAIN s /\ b2 # End /\ ~s[b2].used /\ IsHeap(m)
  BY <1>0, <1>3, <1>5 DEF Divided, IsHeap, Chain
<1>8. CoalescedBut(s, b2)
  <2>. SUFFICES ASSUME NEW x \in DOMAIN s, x # End, x # b2, s[x].next # b2, ~s[x].used
                PROVE  s[s[x].next].used
    BY DEF CoalescedBut
  <2>1. x \in DOMAIN r.blk /\ x # b /\ ~r.blk[x].used /\ s[x].next = r.blk[x].next /\ x # -1
    BY <1>0, <1>5 DEF Divided
  <2>2. r.blk[x].next \in DOMAIN r.blk /\ r.blk[x].next # -1
    BY <1>0, <2>1
  <2>3. r.blk[r.blk[x].next].used
    BY <1>0, <2>1, <2>2 DEF CoalescedBut
  <2>. QED BY <1>5, <2>1, <2>2, <2>3 DEF Divided
<1>9. HeapInv(t) /\ Survive(s, t.blk)
  BY <1>3, <1>4, <1>7, <1>8, PlugLemma
<1>10. UsedBlocks(s) = UsedBlocks(r.blk)
  BY <1>0, <1>5 DEF UsedBlocks, Divided
<1>11. \A x \in UsedBlocks(r.blk) : x # b => s[x].next = r.blk[x].next
  BY <1>5 DEF UsedBlocks, Divided
<1>12. DataSize(t.blk, b) = DataSize(s, b)
  BY <1>9, <1>10 DEF Survive, DataSize
<1>. QED BY <1>6, <1>9, <1>10, <1>11, <1>12 DEF Survive, Shrunk

-----------------------------------------------------------------------------
(* The clients *)

\* The used blocks are the pointers that are out, each in one hand and with at
\* least the size asked for: PointersIntact, pointer by pointer, and that no two
\* moving reallocs are about to free the same block.
Owned(blk, hd, mv) ==
  /\ \A b \in UsedBlocks(blk) :
       \/ \E c \in Client : \E x \in hd[c] : x.ptr = b
       \/ \E c \in Client : mv[c] = b
  /\ \A c \in Client : \A x \in hd[c] :
       x.ptr \in UsedBlocks(blk) /\ x.size <= DataSize(blk, x.ptr)
  /\ \A c \in Client : mv[c] # Null => mv[c] \in UsedBlocks(blk)
  /\ \A c, d \in Client : \A x \in hd[c] :
       x.ptr # mv[d] /\ \A y \in hd[d] : y.ptr = x.ptr => c = d /\ x = y
  /\ \A c, d \in Client : c # d /\ mv[c] # Null => mv[c] # mv[d]

Pointer == [ptr : 0 .. End, size : Request]

\* The inductive invariant.
MemInv ==
  /\ HeapInv(h)
  /\ held \in [Client -> SUBSET Pointer]
  /\ moving \in [Client -> {Null} \cup 0 .. End]
  /\ Owned(h.blk, held, moving)

\* The block that rt_malloc finds.
LEMMA FitsLemma ==
  ASSUME MemInv, NEW n \in Request, Fits(h, n) # {}
  PROVE  Min(Fits(h, n)) \in Fits(h, n)
<1>1. Fits(h, n) \in SUBSET Nat
  BY DEF MemInv, HeapInv, IsHeap, Chain, Fits
<1>. QED BY ONLY <1>1, Fits(h, n) # {}, MinLemma

\* Used blocks are offsets below heap_end, so none is Null.
LEMMA UsedOffset ==
  ASSUME MemInv PROVE \A b \in UsedBlocks(h.blk) : b \in 0 .. End /\ b # Null /\ b # End
<1>1. DOMAIN h.blk \subseteq 0 .. End /\ End \in Nat
  BY HeapAssumption DEF MemInv, HeapInv, IsHeap, Chain, End
<1>. QED BY <1>1 DEF UsedBlocks, Null

\* The heap of rt_system_heap_init: one free block up to the end marker.
LEMMA InitInv == Init => MemInv
<1>. SUFFICES ASSUME Init PROVE MemInv
  OBVIOUS
<1>0. Header \in Nat \ {0} /\ MemSize \in Nat \ {0} /\ End \in Nat /\ Header < End /\ End # 0
      /\ Align \in Nat \ {0} /\ 0 % Align = 0
  BY HeapAssumption DEF End
<1> DEFINE blk == h.blk
<1>1. /\ DOMAIN h = {"blk", "lfree", "used_mem"} /\ h.lfree = 0
      /\ DOMAIN blk = {0, End}
      /\ blk[0] = [used |-> FALSE, next |-> End, prev |-> 0]
      /\ blk[End] = [used |-> TRUE, next |-> End, prev |-> End]
  BY <1>0 DEF Init
<1>2. blk \in [{0, End} -> Headers]
  <2>1. blk = [b \in {0, End} |->
                 IF b = 0 THEN [used |-> FALSE, next |-> End, prev |-> 0]
                          ELSE [used |-> TRUE, next |-> End, prev |-> End]]
    BY DEF Init
  <2>2. /\ [used |-> FALSE, next |-> End, prev |-> 0] \in Headers
        /\ [used |-> TRUE, next |-> End, prev |-> End] \in Headers
    BY <1>0 DEF Headers
  <2>. QED BY <2>1, <2>2
<1> HIDE DEF blk
<1>3. Forth(blk, 0)
  BY <1>0, <1>1 DEF Forth
<1>4. Chain(blk)
  BY <1>0, <1>1, <1>2, <1>3 DEF Chain
<1>5. CoalescedBut(blk, -1) /\ UsedBlocks(blk) = {}
  BY <1>0, <1>1 DEF CoalescedBut, UsedBlocks
<1>6. HeapInv(h)
  BY <1>1, <1>4, <1>5 DEF HeapInv, IsHeap, blk
<1>7. held = [c \in Client |-> {}] /\ moving = [c \in Client |-> Null]
  BY DEF Init
<1>8. Owned(blk, held, moving)
  BY <1>5, <1>7 DEF Owned
<1>. QED BY <1>6, <1>7, <1>8 DEF MemInv, blk

\* A client takes a block: it gets the pointer and may give up another one,
\* which its moving rt_realloc still has to free.
LEMMA GiveStep ==
  ASSUME MemInv, NEW c \in Client, NEW n \in Request, moving[c] = Null, Fits(h, n) # {},
         NEW gone \in SUBSET held[c],
         h' = Take(h, Min(Fits(h, n)), Want(n)),
         held' = [held EXCEPT ![c] = (@ \ gone) \cup {[ptr |-> Min(Fits(h, n)), size |-> n]}],
         \/ gone = {} /\ moving' = moving
         \/ \E x \in held[c] : gone = {x} /\ moving' = [moving EXCEPT ![c] = x.ptr]
  PROVE  MemInv'
<1> DEFINE b == Min(Fits(h, n))
           new == [ptr |-> b, size |-> n]
<1>0. /\ HeapInv(h) /\ held \in [Client -> SUBSET Pointer]
      /\ moving \in [Client -> {Null} \cup 0 .. End] /\ Owned(h.blk, held, moving)
  BY DEF MemInv
<1>1. b \in Fits(h, n)
  BY FitsLemma
<1>2. /\ h' = Take(h, b, Want(n)) /\ held' = [held EXCEPT ![c] = (held[c] \ gone) \cup {new}]
  BY <1>0
<1> HIDE DEF b
<1>3. /\ HeapInv(h') /\ b \in DOMAIN h.blk /\ b # End /\ ~h.blk[b].used
      /\ UsedBlocks(h'.blk) = UsedBlocks(h.blk) \cup {b}
      /\ \A x \in UsedBlocks(h.blk) : h'.blk[x].next = h.blk[x].next
      /\ n <= DataSize(h'.blk, b)
  BY <1>0, <1>1, <1>2, TakeLemma
<1>4. b \notin UsedBlocks(h.blk) /\ b \in 0 .. End /\ b # Null
  <2>1. Chain(h.blk)
    BY <1>0 DEF HeapInv, IsHeap
  <2>2. DOMAIN h.blk \subseteq 0 .. End
    BY ONLY <2>1 DEF Chain
  <2>3. End \in Nat
    BY HeapAssumption DEF End
  <2>. QED BY ONLY <1>3, <2>2, <2>3 DEF UsedBlocks, Null
<1>5. \A x \in UsedBlocks(h.blk) : DataSize(h'.blk, x) = DataSize(h.blk, x) /\ x # b
  BY <1>3, <1>4 DEF DataSize
<1>6. new \in Pointer /\ new.ptr = b /\ new.size = n
  BY <1>4 DEF Pointer
<1> HIDE DEF new
<1>7. held' \in [Client -> SUBSET Pointer]
  BY <1>0, <1>2, <1>6
<1>8. /\ held'[c] = (held[c] \ gone) \cup {new}
      /\ \A d \in Client : d # c => held'[d] = held[d]
  BY <1>0, <1>2
<1>9. /\ moving' \in [Client -> {Null} \cup 0 .. End]
      /\ \A d \in Client : d # c => moving'[d] = moving[d]
      /\ \/ gone = {} /\ moving'[c] = Null
         \/ \E x \in held[c] : gone = {x} /\ moving'[c] = x.ptr
  <2>1. \A x \in held[c] : x.ptr \in 0 .. End
    BY <1>0 DEF Pointer
  <2>. QED BY <1>0, <2>1
<1>10. \A p \in UsedBlocks(h'.blk) :
         \/ \E d \in Client : \E x \in held'[d] : x.ptr = p
         \/ \E d \in Client : moving'[d] = p
  <2>. SUFFICES ASSUME NEW p \in UsedBlocks(h'.blk)
                PROVE  \/ \E d \in Client : \E x \in held'[d] : x.ptr = p
                       \/ \E d \in Client : moving'[d] = p
    OBVIOUS
  <2>1. CASE p = b
    BY <1>6, <1>8, <2>1
  <2>2. CASE p \in UsedBlocks(h.blk)
    <3>1. CASE \E d \in Client : moving[d] = p
      <4>1. PICK d \in Client : moving[d] = p
        BY <3>1
      <4>2. d # c
        BY <2>2, <4>1, UsedOffset
      <4>. QED BY <1>9, <4>1, <4>2
    <3>2. CASE \E d \in Client : \E x \in held[d] : x.ptr = p
      <4>1. PICK d \in Client : \E x \in held[d] : x.ptr = p
        BY <3>2
      <4>2. PICK x \in held[d] : x.ptr = p
        BY <4>1
      <4>3. CASE d = c /\ x \in gone
        BY <1>9, <4>2, <4>3
      <4>4. CASE ~(d = c /\ x \in gone)
        BY <1>8, <4>2, <4>4
      <4>. QED BY <4>3, <4>4
    <3>. QED BY <1>0, <2>2, <3>1, <3>2 DEF Owned
  <2>. QED BY <1>3, <2>1, <2>2
<1>11. \A d \in Client : \A x \in held'[d] : x = new \/ (x \in held[d] /\ ~(d = c /\ x \in gone))
  BY <1>8
<1>12. \A d \in Client : \A x \in held[d] :
         x.ptr \in UsedBlocks(h.blk) /\ x.size <= DataSize(h.blk, x.ptr)
  BY <1>0 DEF Owned
<1>13. \A d \in Client : \A x \in held'[d] :
         x.ptr \in UsedBlocks(h'.blk) /\ x.size <= DataSize(h'.blk, x.ptr)
  BY <1>3, <1>5, <1>6, <1>11, <1>12
<1>14. \A d \in Client : moving'[d] # Null => moving'[d] \in UsedBlocks(h.blk)
  BY <1>0, <1>9, <1>12 DEF Owned
<1>15. ASSUME NEW d \in Client, NEW e \in Client, NEW x \in held'[d]
       PROVE  x.ptr # moving'[e]
  <2>1. CASE x = new
    BY <1>4, <1>6, <1>14, <2>1
  <2>2. CASE x \in held[d] /\ ~(d = c /\ x \in gone)
    <3>1. CASE e # c
      BY <1>0, <1>9, <2>2, <3>1 DEF Owned
    <3>2. CASE e = c /\ moving'[c] = Null
      BY <1>12, <2>2, <3>2, UsedOffset
    <3>3. CASE e = c /\ \E y \in held[c] : gone = {y} /\ moving'[c] = y.ptr
      <4>1. PICK y \in held[c] : gone = {y} /\ moving'[c] = y.ptr
        BY <3>3
      <4>2. x.ptr = y.ptr => d = c /\ x = y
        BY <1>0, <2>2, <4>1 DEF Owned
      <4>. QED BY <2>2, <3>3, <4>1, <4>2
    <3>. QED BY <1>9, <3>1, <3>2, <3>3
  <2>. QED BY <1>11, <2>1, <2>2
<1>16. ASSUME NEW d \in Client, NEW e \in Client, NEW x \in held'[d], NEW y \in held'[e],
              y.ptr = x.ptr
       PROVE  d = e /\ x = y
  <2>1. CASE x = new \/ y = new
    <3>1. x = new /\ y = new
      BY <1>5, <1>6, <1>11, <1>12, <1>16, <2>1
    <3>2. d = c /\ e = c
      BY <1>5, <1>6, <1>8, <1>12, <3>1
    <3>. QED BY <3>1, <3>2
  <2>2. CASE x # new /\ y # new
    BY <1>0, <1>11, <1>16, <2>2 DEF Owned
  <2>. QED BY <2>1, <2>2
<1>17. ASSUME NEW d \in Client, NEW e \in Client, d # e, moving'[d] # Null
       PROVE  moving'[d] # moving'[e]
  <2>1. CASE d # c /\ e # c
    BY <1>0, <1>9, <1>17, <2>1 DEF Owned
  <2>2. \A a \in Client \ {c} : moving'[c] # Null => moving'[c] # moving'[a]
    BY <1>0, <1>9 DEF Owned
  <2>3. CASE d = c \/ e = c
    BY <1>17, <2>2, <2>3
  <2>. QED BY <2>1, <2>3
<1>18. \A d \in Client : moving'[d] # Null => moving'[d] \in UsedBlocks(h'.blk)
  BY <1>3, <1>14
<1>19. Owned(h'.blk, held', moving')
  BY ONLY <1>10, <1>13, <1>15, <1>16, <1>17, <1>18 DEF Owned
<1>. QED BY <1>3, <1>7, <1>9, <1>19 DEF MemInv

\* A client frees the block at p, which is its own, and forgets it.
LEMMA TakeBackStep ==
  ASSUME MemInv, NEW c \in Client, NEW p \in UsedBlocks(h.blk), h' = Release(h, p),
         \/ \E x \in held[c] : /\ p = x.ptr /\ held' = [held EXCEPT ![c] = @ \ {x}]
                               /\ moving' = moving
         \/ moving[c] = p /\ held' = held /\ moving' = [moving EXCEPT ![c] = Null]
  PROVE  MemInv'
<1>0. /\ HeapInv(h) /\ held \in [Client -> SUBSET Pointer]
      /\ moving \in [Client -> {Null} \cup 0 .. End] /\ Owned(h.blk, held, moving)
  BY DEF MemInv
<1>1. /\ HeapInv(h') /\ UsedBlocks(h'.blk) = UsedBlocks(h.blk) \ {p}
      /\ \A x \in UsedBlocks(h'.blk) : h'.blk[x].next = h.blk[x].next
  BY ONLY <1>0, p \in UsedBlocks(h.blk), h' = Release(h, p), ReleaseLemma
<1>2. \A x \in UsedBlocks(h'.blk) : DataSize(h'.blk, x) = DataSize(h.blk, x)
  BY <1>1 DEF DataSize
<1>3. /\ held' \in [Client -> SUBSET Pointer] /\ moving' \in [Client -> {Null} \cup 0 .. End]
      /\ \A d \in Client : held'[d] \subseteq held[d]
      /\ \A d \in Client : moving'[d] = moving[d] \/ moving'[d] = Null
  BY <1>0
<1>4. p # Null
  BY UsedOffset
<1>5. /\ \A d \in Client : \A x \in held'[d] : x.ptr # p
      /\ \A d \in Client : moving'[d] # p
      /\ \A d \in Client : \A x \in held[d] : x.ptr # p => x \in held'[d]
      /\ \A d \in Client : moving[d] # p => moving'[d] = moving[d]
  <2>1. CASE \E x \in held[c] : /\ p = x.ptr /\ held' = [held EXCEPT ![c] = @ \ {x}]
                                /\ moving' = moving
    <3>1. PICK x \in held[c] : /\ p = x.ptr /\ held' = [held EXCEPT ![c] = @ \ {x}]
                               /\ moving' = moving
      BY <2>1
    <3>2. held'[c] = held[c] \ {x} /\ \A d \in Client : d # c => held'[d] = held[d]
      BY <1>0, <3>1
    <3>3. \A d \in Client : \A y \in held[d] : y.ptr = p => d = c /\ y = x
      BY <1>0, <3>1 DEF Owned
    <3>4. \A d \in Client : moving[d] # p
      BY <1>0, <3>1 DEF Owned
    <3>. QED BY <3>1, <3>2, <3>3, <3>4
  <2>2. CASE moving[c] = p /\ held' = held /\ moving' = [moving EXCEPT ![c] = Null]
    <3>1. moving'[c] = Null /\ \A d \in Client : d # c => moving'[d] = moving[d]
      BY <1>0, <2>2
    <3>2. \A d \in Client : d # c => moving[d] # p
      BY <1>0, <1>4, <2>2 DEF Owned
    <3>3. \A d \in Client : \A x \in held[d] : x.ptr # p
      BY <1>0, <2>2 DEF Owned
    <3>. QED BY <1>4, <2>2, <3>1, <3>2, <3>3
  <2>. QED BY <2>1, <2>2
<1>6. \A q \in UsedBlocks(h'.blk) :
        \/ \E d \in Client : \E x \in held'[d] : x.ptr = q
        \/ \E d \in Client : moving'[d] = q
  <2>. SUFFICES ASSUME NEW q \in UsedBlocks(h'.blk)
                PROVE  \/ \E d \in Client : \E x \in held'[d] : x.ptr = q
                       \/ \E d \in Client : moving'[d] = q
    OBVIOUS
  <2>1. q # p /\ q \in UsedBlocks(h.blk)
    BY <1>1
  <2>2. \/ \E d \in Client : \E x \in held[d] : x.ptr = q
        \/ \E d \in Client : moving[d] = q
    BY ONLY <1>0, <2>1 DEF Owned
  <2>. QED BY ONLY <1>5, <2>1, <2>2
<1>7. \A d \in Client : \A x \in held'[d] :
        x.ptr \in UsedBlocks(h'.blk) /\ x.size <= DataSize(h'.blk, x.ptr)
  <2>1. \A d \in Client : \A x \in held[d] :
          x.ptr \in UsedBlocks(h.blk) /\ x.size <= DataSize(h.blk, x.ptr)
    BY ONLY <1>0 DEF Owned
  <2>. QED BY ONLY <1>1, <1>2, <1>3, <1>5, <2>1
<1>8. \A d \in Client : moving'[d] # Null => moving'[d] \in UsedBlocks(h'.blk)
  BY <1>0, <1>1, <1>3, <1>5 DEF Owned
<1>9. \A d, e \in Client : \A x \in held'[d] :
        x.ptr # moving'[e] /\ \A y \in held'[e] : y.ptr = x.ptr => d = e /\ x = y
  <2>1. ASSUME NEW d \in Client, NEW e \in Client, NEW x \in held'[d] PROVE x.ptr # moving'[e]
    <3>1. x.ptr # Null
      BY <1>0, <1>3, <2>1, UsedOffset DEF Owned
    <3>. QED BY <1>0, <1>3, <2>1, <3>1 DEF Owned
  <2>. QED BY <1>0, <1>3, <2>1 DEF Owned
<1>10. \A d, e \in Client : d # e /\ moving'[d] # Null => moving'[d] # moving'[e]
  BY <1>0, <1>3 DEF Owned
<1>11. Owned(h'.blk, held', moving')
  BY ONLY <1>6, <1>7, <1>8, <1>9, <1>10 DEF Owned
<1>. QED BY <1>1, <1>3, <1>11 DEF MemInv

\* rt_realloc in place: the client's pointer stays, with its new size.
LEMMA ShrinkStep ==
  ASSUME MemInv, NEW c \in Client, NEW x \in held[c], NEW n \in Request, ReallocShrink(c, x, n)
  PROVE  MemInv'
<1> DEFINE new == [ptr |-> x.ptr, size |-> n]
           v == h.used_mem - (DataSize(h.blk, x.ptr) - RT_ALIGN(n))
<1>0. /\ HeapInv(h) /\ held \in [Client -> SUBSET Pointer]
      /\ moving \in [Client -> {Null} \cup 0 .. End] /\ Owned(h.blk, held, moving)
  BY DEF MemInv
<1>1. x.ptr \in UsedBlocks(h.blk) /\ x \in Pointer
  BY <1>0 DEF Owned
<1>2. /\ RT_ALIGN(n) + Header + MinSize < DataSize(h.blk, x.ptr)
      /\ h' = plug_holes([h EXCEPT !.blk = Split(h.blk, x.ptr, RT_ALIGN(n)), !.used_mem = v],
                         x.ptr + Header + RT_ALIGN(n))
      /\ held' = [held EXCEPT ![c] = (held[c] \ {x}) \cup {new}] /\ moving' = moving
  BY <1>0 DEF ReallocShrink, CanShrink
<1>3. new \in Pointer /\ new.ptr = x.ptr /\ new.size = n
  BY <1>1 DEF Pointer
<1> HIDE DEF new, v
<1>4. /\ HeapInv(h') /\ UsedBlocks(h'.blk) = UsedBlocks(h.blk)
      /\ \A y \in UsedBlocks(h.blk) : y # x.ptr => h'.blk[y].next = h.blk[y].next
      /\ n <= DataSize(h'.blk, x.ptr)
  <2> DEFINE b == x.ptr
             m == [h EXCEPT !.blk = Split(h.blk, b, RT_ALIGN(n)), !.used_mem = v]
  <2>1. /\ HeapInv(h) /\ b \in UsedBlocks(h.blk) /\ n \in Request
        /\ RT_ALIGN(n) + Header + MinSize < DataSize(h.blk, b)
        /\ h' = plug_holes(m, b + Header + RT_ALIGN(n))
    BY <1>0, <1>1, <1>2
  <2>2. m = [h EXCEPT !.blk = Split(h.blk, b, RT_ALIGN(n)), !.used_mem = v]
    OBVIOUS
  <2> HIDE DEF b, m
  <2>3. HeapInv(h') /\ Shrunk(h, b, n, h')
    BY ONLY <2>1, <2>2, ShrinkLemma
  <2>. QED BY <2>3 DEF b, Shrunk
<1>5. \A y \in UsedBlocks(h.blk) : y # x.ptr => DataSize(h'.blk, y) = DataSize(h.blk, y)
  BY <1>4 DEF DataSize
<1>6. /\ held' \in [Client -> SUBSET Pointer]
      /\ held'[c] = (held[c] \ {x}) \cup {new}
      /\ \A d \in Client : d # c => held'[d] = held[d]
  BY <1>0, <1>2, <1>3
<1>7. \A d \in Client : \A y \in held'[d] :
        \/ y = new /\ d = c
        \/ y \in held[d] /\ y.ptr # x.ptr
  BY <1>0, <1>6 DEF Owned
<1>8. \A p \in UsedBlocks(h'.blk) :
        \/ \E d \in Client : \E y \in held'[d] : y.ptr = p
        \/ \E d \in Client : moving'[d] = p
  <2>. SUFFICES ASSUME NEW p \in UsedBlocks(h.blk)
                PROVE  \/ \E d \in Client : \E y \in held'[d] : y.ptr = p
                       \/ \E d \in Client : moving'[d] = p
    BY <1>4
  <2>1. CASE p = x.ptr
    BY <1>3, <1>6, <2>1
  <2>2. CASE p # x.ptr
    BY <1>0, <1>2, <1>6, <2>2 DEF Owned
  <2>. QED BY <2>1, <2>2
<1>9. \A d \in Client : \A y \in held'[d] :
        y.ptr \in UsedBlocks(h'.blk) /\ y.size <= DataSize(h'.blk, y.ptr)
  <2>1. \A d \in Client : \A y \in held[d] :
          y.ptr \in UsedBlocks(h.blk) /\ y.size <= DataSize(h.blk, y.ptr)
    BY ONLY <1>0 DEF Owned
  <2>. QED BY ONLY <1>1, <1>3, <1>4, <1>5, <1>7, <2>1
<1>10. \A d \in Client : moving'[d] # Null => moving'[d] \in UsedBlocks(h'.blk)
  BY <1>0, <1>2, <1>4 DEF Owned
<1>11. \A d, e \in Client : \A y \in held'[d] :
         y.ptr # moving'[e] /\ \A z \in held'[e] : z.ptr = y.ptr => d = e /\ y = z
  <2>. SUFFICES ASSUME NEW d \in Client, NEW e \in Client, NEW y \in held'[d]
                PROVE  y.ptr # moving'[e] /\ \A z \in held'[e] : z.ptr = y.ptr => d = e /\ y = z
    OBVIOUS
  <2>1. CASE y = new /\ d = c
    BY <1>0, <1>2, <1>3, <1>7, <2>1 DEF Owned
  <2>2. CASE y \in held[d] /\ y.ptr # x.ptr
    BY <1>0, <1>2, <1>3, <1>7, <2>2 DEF Owned
  <2>. QED BY <1>7, <2>1, <2>2
<1>12. \A d, e \in Client : d # e /\ moving'[d] # Null => moving'[d] # moving'[e]
  BY <1>0, <1>2 DEF Owned
<1>13. Owned(h'.blk, held', moving')
  BY ONLY <1>8, <1>9, <1>10, <1>11, <1>12 DEF Owned
<1>. QED BY <1>0, <1>2, <1>4, <1>6, <1>13 DEF MemInv

\* Every step keeps the invariant.
LEMMA NextStep == ASSUME MemInv, [Next]_vars PROVE MemInv'
<1>0. Owned(h.blk, held, moving) /\ held \in [Client -> SUBSET Pointer]
  BY DEF MemInv
<1>1. ASSUME NEW c \in Client, NEW n \in Request, Malloc(c, n) PROVE MemInv'
  <2>1. /\ moving[c] = Null /\ Fits(h, n) # {} /\ moving' = moving /\ {} \in SUBSET held[c]
        /\ h' = Take(h, Min(Fits(h, n)), Want(n))
        /\ held' = [held EXCEPT ![c] = (@ \ {}) \cup {[ptr |-> Min(Fits(h, n)), size |-> n]}]
    BY <1>0, <1>1 DEF Malloc
  <2>. QED BY <2>1, GiveStep
<1>2. ASSUME NEW c \in Client, NEW x \in held[c], NEW n \in Request, ReallocMove(c, x, n)
      PROVE  MemInv'
  <2>1. /\ moving[c] = Null /\ Fits(h, n) # {} /\ moving' = [moving EXCEPT ![c] = x.ptr]
        /\ h' = Take(h, Min(Fits(h, n)), Want(n))
        /\ held' = [held EXCEPT ![c] = (@ \ {x}) \cup {[ptr |-> Min(Fits(h, n)), size |-> n]}]
        /\ {x} \in SUBSET held[c]
    BY <1>2 DEF ReallocMove
  <2>. QED BY <2>1, GiveStep
<1>3. ASSUME NEW c \in Client, NEW x \in held[c], rt_free(c, x) PROVE MemInv'
  <2>1. x.ptr \in UsedBlocks(h.blk)
    BY <1>0 DEF Owned
  <2>. QED BY <1>3, <2>1, TakeBackStep DEF rt_free
<1>4. ASSUME NEW c \in Client, ReallocFree(c) PROVE MemInv'
  <2>1. moving[c] \in UsedBlocks(h.blk)
    BY <1>0, <1>4 DEF Owned, ReallocFree
  <2>. QED BY <1>4, <2>1, TakeBackStep DEF ReallocFree
<1>5. ASSUME NEW c \in Client, NEW x \in held[c], NEW n \in Request, ReallocShrink(c, x, n)
      PROVE  MemInv'
  BY <1>5, ShrinkStep
<1>6. CASE UNCHANGED vars
  BY <1>6 DEF vars, MemInv
<1>. QED BY <1>1, <1>2, <1>3, <1>4, <1>5, <1>6 DEF Next

\* What the invariant says in the words of SmallMem.
LEMMA InvImplies == MemInv => HeapTiled /\ Coalesced /\ PointersIntact
<1>. SUFFICES ASSUME MemInv PROVE HeapTiled /\ Coalesced /\ PointersIntact
  OBVIOUS
<1>0. /\ Chain(h.blk) /\ CoalescedBut(h.blk, -1) /\ Owned(h.blk, held, moving)
      /\ \A x \in DOMAIN h.blk : x \in Nat /\ x # -1 /\ h.blk[x].next \in Nat /\ h.blk[x].next # -1
      /\ Header \in Nat
  <2>1. Chain(h.blk) /\ CoalescedBut(h.blk, -1) /\ Owned(h.blk, held, moving)
    BY DEF MemInv, HeapInv, IsHeap
  <2>2. Header \in Nat /\ End \in Nat
    BY HeapAssumption DEF End
  <2>3. \A x \in DOMAIN h.blk : x \in 0 .. End /\ h.blk[x] \in Headers
    BY ONLY <2>1 DEF Chain
  <2>4. \A x \in DOMAIN h.blk : h.blk[x].next \in Nat
    BY ONLY <2>2, <2>3 DEF Headers
  <2>. QED BY ONLY <2>1, <2>2, <2>3, <2>4
<1>1. HeapTiled
  <2>. SUFFICES ASSUME NEW b \in Blocks
                PROVE  /\ h.blk[b].next = Min({x \in DOMAIN h.blk : x > b})
                       /\ DataSize(h.blk, b) > 0 /\ b % Align = 0
                       /\ h.blk[b].next # End => h.blk[h.blk[b].next].prev = b
    BY DEF HeapTiled
  <2>1. b \in DOMAIN h.blk /\ b # End /\ Forth(h.blk, b)
    BY <1>0 DEF Blocks, Chain
  <2> DEFINE n == h.blk[b].next
             S == {x \in DOMAIN h.blk : x > b}
  <2>2. n \in S /\ \A y \in S : n <= y
    BY <1>0, <2>1 DEF Forth
  <2>3. \A x \in S : x \in Nat
    BY <1>0
  <2> HIDE DEF n, S
  <2>4. n = Min(S)
    <3>1. \A x \in S : (\A y \in S : x <= y) => x = n
      BY <2>2, <2>3
    <3>. QED BY <2>2, <3>1 DEF Min
  <2>5. DataSize(h.blk, b) > 0 /\ b % Align = 0
    BY <1>0, <2>1 DEF Forth, DataSize
  <2>6. h.blk[b].next # End => h.blk[h.blk[b].next].prev = b
    BY <1>0, <2>1, NextPrev
  <2>. QED BY ONLY <2>4, <2>5, <2>6 DEF n, S
<1>2. Coalesced
  BY <1>0 DEF Coalesced, CoalescedBut, Blocks
<1>3. PointersIntact
  <2>1. {b \in Blocks : h.blk[b].used} = UsedBlocks(h.blk)
    BY DEF Blocks, UsedBlocks
  <2>2. \A b \in UsedBlocks(h.blk) : b \in Pointers
    BY <1>0, UsedOffset DEF Owned, Pointers
  <2>3. \A b \in Pointers : b \in UsedBlocks(h.blk)
    <3>1. /\ \A c \in Client : \A x \in held[c] : x.ptr \in UsedBlocks(h.blk)
          /\ \A c \in Client : moving[c] # Null => moving[c] \in UsedBlocks(h.blk)
      BY ONLY <1>0 DEF Owned
    <3>. QED BY ONLY <3>1 DEF Pointers
  <2>4. UsedBlocks(h.blk) = Pointers
    BY <2>2, <2>3
  <2>5. \A c \in Client : \A x \in held[c] :
          /\ x.size <= DataSize(h.blk, x.ptr)
          /\ \A d \in Client : /\ x.ptr # moving[d]
                               /\ \A y \in held[d] : y.ptr = x.ptr => c = d /\ x = y
    BY <1>0 DEF Owned
  <2>. QED BY <2>1, <2>4, <2>5 DEF PointersIntact
<1>. QED BY <1>1, <1>2, <1>3

-----------------------------------------------------------------------------
(* The results *)

\* The inductive invariant holds in every behaviour: the headers form a chain
\* that leads forth and back, lfree is one of them, and the clients' pointers
\* are the used blocks (mem.c).
THEOREM HeapInvariance == Spec => []MemInv
<1>1. MemInv /\ [Next]_vars => MemInv'
  BY NextStep
<1>. QED BY <1>1, InitInv, PTL DEF Spec

\* The blocks tile the heap after any mix of rt_malloc, rt_free and rt_realloc.
THEOREM Tiled == Spec => []HeapTiled
BY HeapInvariance, InvImplies, PTL

\* plug_holes never leaves two free blocks side by side, which is what rt_malloc
\* relies on when it does not merge the remainder it splits off.
THEOREM NoFreeNeighbours == Spec => []Coalesced
BY HeapInvariance, InvImplies, PTL

\* No allocation moves, shrinks or hands out twice the data of a client.
THEOREM DataIntact == Spec => []PointersIntact
BY HeapInvariance, InvImplies, PTL

=============================================================================
