-------------------------------- MODULE RTList --------------------------------
(***************************************************************************)
(* The doubly linked lists of src/include/rtservice.h.  A list head is the *)
(* sequence of the entries linked behind it, an entry what it is embedded  *)
(* in.  The operators of SequencesExt have the same names and values; the  *)
(* few that are needed are stated here so that the proofs about every      *)
(* module above this one carry these and no others.                        *)
(***************************************************************************)
EXTENDS Naturals, Sequences, FiniteSetsExt, Functions

\* n is linked into l.
Contains(l, n) == \E i \in 1 .. Len(l) : l[i] = n

ToSet(l) == {l[i] : i \in DOMAIN l}

\* rt_list_insert_after(l, n)
Cons(n, l) == <<n>> \o l

\* rt_list_insert_before the i-th entry of l
InsertAt(l, i, n) == SubSeq(l, 1, i - 1) \o <<n>> \o SubSeq(l, i, Len(l))

\* rt_list_remove(n): of an entry that is linked nowhere it changes nothing.
RemoveFirst(l, n) ==
  LET at == {i \in 1 .. Len(l) : l[i] = n}
  IN  IF at = {} THEN l
      ELSE SubSeq(l, 1, Min(at) - 1) \o SubSeq(l, Min(at) + 1, Len(l))

=============================================================================
