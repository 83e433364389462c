------------------------------- MODULE SmallMem -------------------------------
(***************************************************************************)
(* The heap of src/src/mem.c: a chain of blocks, each a header followed by *)
(* its data, found first-fit from lfree.  Sizes and offsets are bytes.     *)
(* heap_sem makes every call, and each of the sections of a moving         *)
(* rt_realloc, one step.  The heap record h has the fields                 *)
(*   blk   the headers, a function from the offsets at which one is linked *)
(*   lfree, used_mem   the variables of those names                        *)
(* The clients pass only pointers they were given and have not freed.      *)
(***************************************************************************)
EXTENDS Integers, FiniteSets, FiniteSetsExt, Functions

CONSTANTS Client,    \* threads that allocate
          MemSize,   \* mem_size_aligned
          Header,    \* SIZEOF_STRUCT_MEM
          MinSize,   \* MIN_SIZE and MIN_SIZE_ALIGNED: 12 on this CPU
          Align,     \* RT_ALIGN_SIZE
          Request,   \* the sizes the clients ask for
          Ops,       \* the calls the clients of this instance make
          MaxHeld    \* bound on the pointers one client keeps

ASSUME HeapAssumption ==
  /\ {MemSize, Header, MinSize, Align, MaxHeld} \subseteq Nat \ {0}
  /\ MemSize % Align = 0 /\ Header % Align = 0 /\ MinSize % Align = 0
  /\ MinSize <= MemSize /\ Request \subseteq Nat \ {0}

VARIABLES h,      \* the heap
          held,   \* each client's pointers, with the size it may use there
          moving  \* the old pointer of a rt_realloc that has copied the data

vars == <<h, held, moving>>

\* The offset of heap_end, and no offset at all.
End == MemSize + Header
Null == -1

\* rt_system_heap_init: one free block, and heap_end, always used.
Init ==
  /\ h = [blk |-> [b \in {0, End} |->
                     IF b = 0 THEN [used |-> FALSE, next |-> End, prev |-> 0]
                              ELSE [used |-> TRUE, next |-> End, prev |-> End]],
          lfree |-> 0, used_mem |-> 0]
  /\ held = [c \in Client |-> {}]
  /\ moving = [c \in Client |-> Null]

-----------------------------------------------------------------------------

RT_ALIGN(n) == ((n + Align - 1) \div Align) * Align

\* The size of a block's data.
DataSize(blk, b) == blk[b].next - b - Header

Drop(blk, b) == Restrict(blk, DOMAIN blk \ {b})

\* Mutant: the block after the remainder keeps its old prev.
Split_StalePrev(blk, b, size) ==
  [x \in DOMAIN blk \cup {b + Header + size} |->
     CASE x = b + Header + size -> [used |-> FALSE, next |-> blk[b].next, prev |-> b]
       [] x = b -> [blk[b] EXCEPT !.next = b + Header + size]
       [] OTHER -> blk[x]]

\* Split block b after size bytes of data: the remainder is a free block.
\* heap_end's prev is not kept up to date.
Split(blk, b, size) ==
  LET b2 == b + Header + size
      n  == blk[b].next
  IN  [x \in DOMAIN blk \cup {b2} |->
         CASE x = b2 -> [used |-> FALSE, next |-> n, prev |-> b]
           [] x = b  -> [blk[b] EXCEPT !.next = b2]
           [] x = n /\ n # End -> [blk[n] EXCEPT !.prev = b2]
           [] OTHER -> blk[x]]

\* Merge block b with the block after it.
Merge(blk, b) ==
  LET n == blk[b].next
  IN  Drop([blk EXCEPT ![b].next = blk[n].next, ![blk[n].next].prev = b], n)

\* Mutant: lfree keeps pointing to the header that was merged away.
PlugForward_StaleLfree(r, b) ==
  IF r.blk[b].next # End /\ ~r.blk[r.blk[b].next].used
  THEN [r EXCEPT !.blk = Merge(@, b)]
  ELSE r

PlugForward(r, b) ==
  LET n == r.blk[b].next
  IN  IF n # End /\ ~r.blk[n].used
      THEN [r EXCEPT !.blk = Merge(@, b), !.lfree = IF @ = n THEN b ELSE @]
      ELSE r

PlugBackward(r, b) ==
  LET p == r.blk[b].prev
  IN  IF p # b /\ ~r.blk[p].used
      THEN [r EXCEPT !.blk = Merge(@, p), !.lfree = IF @ = b THEN p ELSE @]
      ELSE r

\* Mutant: the block before is not merged.
plug_holes_ForwardOnly(r, b) == PlugForward(r, b)

plug_holes(r, b) == PlugBackward(PlugForward(r, b), b)

-----------------------------------------------------------------------------

\* The size rt_malloc looks for.
Want(n) == IF RT_ALIGN(n) < MinSize THEN MinSize ELSE RT_ALIGN(n)

\* Mutant: the header is taken for data when a block's size is tested.
Fits_CountsHeader(r, n) ==
  {b \in DOMAIN r.blk : /\ r.lfree <= b /\ b < MemSize - Want(n)
                        /\ ~r.blk[b].used /\ r.blk[b].next - b >= Want(n)}

\* The blocks at which the search loop of rt_malloc would stop.
Fits(r, n) ==
  {b \in DOMAIN r.blk : /\ r.lfree <= b /\ b < MemSize - Want(n)
                        /\ ~r.blk[b].used /\ DataSize(r.blk, b) >= Want(n)}

\* Mutant: a near fit is counted by the size asked for, not the size taken.
Take_CountsRequest(r, b, size) ==
  LET blk  == [(IF DataSize(r.blk, b) >= size + Header + MinSize
                THEN Split(r.blk, b, size) ELSE r.blk) EXCEPT ![b].used = TRUE]
      free == {x \in DOMAIN blk : x >= b /\ ~blk[x].used}
  IN  [blk |-> blk,
       lfree |-> IF b = r.lfree THEN Min(free \cup {End}) ELSE r.lfree,
       used_mem |-> r.used_mem + size + Header]

\* Take block b: split it when the remainder can hold a header and data.
Take(r, b, size) ==
  LET split == DataSize(r.blk, b) >= size + Header + MinSize
      blk   == [(IF split THEN Split(r.blk, b, size) ELSE r.blk) EXCEPT ![b].used = TRUE]
      free  == {x \in DOMAIN blk : x >= b /\ ~blk[x].used}
  IN  [blk |-> blk,
       lfree |-> IF b = r.lfree THEN Min(free \cup {End}) ELSE r.lfree,
       used_mem |-> r.used_mem + blk[b].next - b]

\* rt_malloc succeeds; its pointer is the offset of the block.
Malloc(c, n) ==
  /\ "malloc" \in Ops /\ moving[c] = Null /\ Cardinality(held[c]) < MaxHeld
  /\ RT_ALIGN(n) <= MemSize /\ Fits(h, n) # {}
  /\ h' = Take(h, Min(Fits(h, n)), Want(n))
  /\ held' = [held EXCEPT ![c] = @ \cup {[ptr |-> Min(Fits(h, n)), size |-> n]}]
  /\ UNCHANGED moving

\* rt_free of block b.
Release(r, b) ==
  plug_holes([r EXCEPT !.blk[b].used = FALSE,
                       !.lfree = IF b < @ THEN b ELSE @,
                       !.used_mem = @ - (r.blk[b].next - b)], b)

rt_free(c, x) ==
  /\ "free" \in Ops /\ moving[c] = Null
  /\ h' = Release(h, x.ptr)
  /\ held' = [held EXCEPT ![c] = @ \ {x}]
  /\ UNCHANGED moving

\* rt_realloc to a size that leaves room for another block: split in place.
CanShrink(b, n) == RT_ALIGN(n) + Header + MinSize < DataSize(h.blk, b)

ReallocShrink(c, x, n) ==
  /\ "shrink" \in Ops /\ moving[c] = Null /\ CanShrink(x.ptr, n)
  /\ LET size == RT_ALIGN(n)
         s == [h EXCEPT !.blk = Split(@, x.ptr, size),
                        !.used_mem = @ - (DataSize(h.blk, x.ptr) - size)]
     IN  h' = plug_holes(s, x.ptr + Header + size)
  /\ held' = [held EXCEPT ![c] = (@ \ {x}) \cup {[ptr |-> x.ptr, size |-> n]}]
  /\ UNCHANGED moving

\* rt_realloc otherwise, unless the size is the same: allocate and copy, with
\* heap_sem released before and after; on failure nothing changes.
ReallocMove(c, x, n) ==
  /\ "move" \in Ops /\ moving[c] = Null
  /\ ~CanShrink(x.ptr, n) /\ RT_ALIGN(n) # DataSize(h.blk, x.ptr)
  /\ RT_ALIGN(n) <= MemSize /\ Fits(h, n) # {}
  /\ h' = Take(h, Min(Fits(h, n)), Want(n))
  /\ held' = [held EXCEPT ![c] = (@ \ {x}) \cup {[ptr |-> Min(Fits(h, n)), size |-> n]}]
  /\ moving' = [moving EXCEPT ![c] = x.ptr]

ReallocFree(c) ==
  /\ moving[c] # Null
  /\ h' = Release(h, moving[c])
  /\ moving' = [moving EXCEPT ![c] = Null]
  /\ UNCHANGED held

Next ==
  \E c \in Client :
    \/ \E n \in Request : Malloc(c, n)
    \/ \E x \in held[c] : rt_free(c, x)
    \/ \E x \in held[c], n \in Request : ReallocShrink(c, x, n) \/ ReallocMove(c, x, n)
    \/ ReallocFree(c)

Spec == Init /\ [][Next]_vars

-----------------------------------------------------------------------------
(* Properties *)

Blocks == DOMAIN h.blk \ {End}

\* The pointers that are out: with a client, or about to be freed by one.
Pointers ==
  {x.ptr : x \in UNION {held[c] : c \in Client}} \cup ({moving[c] : c \in Client} \ {Null})

\* The type of the state.
TypeOK ==
  /\ DOMAIN h.blk \subseteq 0 .. End /\ {0, End} \subseteq DOMAIN h.blk
  /\ h.lfree \in DOMAIN h.blk /\ h.used_mem \in 0 .. End
  /\ \A b \in Blocks : h.blk[b] \in [used : BOOLEAN, next : 0 .. End, prev : 0 .. End]
  /\ held \in [Client -> SUBSET [ptr : 0 .. End, size : Request]]
  /\ moving \in [Client -> {Null} \cup 0 .. End]

\* The blocks tile the heap: each one's next is the next header up, with room
\* for its own header and data between, and each one's prev leads back; so no
\* two blocks overlap after any mix of splits and merges.
HeapTiled ==
  \A b \in Blocks :
    /\ h.blk[b].next = Min({x \in DOMAIN h.blk : x > b})
    /\ DataSize(h.blk, b) > 0 /\ b % Align = 0
    /\ h.blk[b].next # End => h.blk[h.blk[b].next].prev = b

\* No two free blocks are adjacent: what the comment in rt_malloc relies on
\* ("mem->next will always be used at this point", mem.c:357).
Coalesced == \A b \in Blocks : ~h.blk[b].used => h.blk[h.blk[b].next].used

\* The used blocks are the pointers that are out, no two clients have the same
\* one, and each has at least the size its client asked for.
PointersIntact ==
  /\ {b \in Blocks : h.blk[b].used} = Pointers
  /\ \A c \in Client : \A x \in held[c] :
       /\ x.size <= DataSize(h.blk, x.ptr)
       /\ \A d \in Client : /\ x.ptr # moving[d]
                            /\ \A y \in held[d] : y.ptr = x.ptr => c = d /\ x = y

\* The statistics agree with the chain: used_mem is the space of the used
\* blocks, headers included, after every split, near fit, merge and move.
UsedMemExact ==
  h.used_mem = SumFunction([b \in {x \in Blocks : h.blk[x].used} |-> h.blk[b].next - b])

=============================================================================
