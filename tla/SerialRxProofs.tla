--------------------------- MODULE SerialRxProofs ---------------------------
(***************************************************************************)
(* The receive side of a serial port, for every buffer size and any number *)
(* of characters: the ring implements the queue of RxQueue, and the reader *)
(* misses no announcement while the semaphore's value does not wrap.       *)
(***************************************************************************)
EXTENDS SerialRx, SequenceTheorems, TLAPS

-----------------------------------------------------------------------------
(* The ring *)

Fifo == [buffer : [0 .. BufSz - 1 -> Byte], put : 0 .. BufSz - 1,
         get : 0 .. BufSz - 1, is_full : BOOLEAN]

\* The number of characters in a ring, and the i-th of them, oldest first.
Length(f) == IF f.put >= f.get THEN f.put - f.get ELSE BufSz - (f.get - f.put)
Item(f, i) == f.buffer[(f.get + i - 1) % BufSz]

\* The remainder of an index that has run at most once past the end.
LEMMA Wrap ==
  ASSUME NEW B \in Nat \ {0}, NEW x \in 0 .. 2 * B - 1
  PROVE  x % B = IF x < B THEN x ELSE x - B
<1>1. CASE x < B
  BY <1>1
<1>2. CASE x >= B
  BY <1>2
<1>. QED BY <1>1, <1>2

\* The remainder of an index within the buffer.
LEMMA NoWrap ==
  ASSUME NEW B \in Nat \ {0}, NEW x \in 0 .. B - 1
  PROVE  x % B = x
OBVIOUS

\* The ring never holds more than bufsz - 1 characters: put_index = get_index is
\* the empty ring.
LEMMA LengthLemma ==
  ASSUME NEW f \in Fifo
  PROVE  /\ Length(f) \in 0 .. BufSz - 1
         /\ Length(f) = 0 <=> f.put = f.get
         /\ \A i \in 1 .. BufSz : Item(f, i) \in Byte
<1>1. f.put \in 0 .. BufSz - 1 /\ f.get \in 0 .. BufSz - 1
      /\ f.buffer \in [0 .. BufSz - 1 -> Byte] /\ BufSz \in Nat \ {0, 1}
  BY RxAssumption DEF Fifo
<1>2. Length(f) \in 0 .. BufSz - 1 /\ (Length(f) = 0 <=> f.put = f.get)
  BY <1>1 DEF Length
<1>3. ASSUME NEW i \in 1 .. BufSz PROVE Item(f, i) \in Byte
  <2>1. f.get + i - 1 \in 0 .. 2 * BufSz - 1
    BY <1>1
  <2> DEFINE x == f.get + i - 1
  <2>2. x % BufSz = IF x < BufSz THEN x ELSE x - BufSz
    BY <1>1, <2>1, Wrap
  <2>3. Item(f, i) = f.buffer[x % BufSz]
    BY DEF Item
  <2> HIDE DEF x
  <2>4. x % BufSz \in 0 .. BufSz - 1
    BY <1>1, <2>1, <2>2 DEF x
  <2>. QED BY <1>1, <2>3, <2>4
<1>. QED BY <1>2, <1>3

\* The store of rt_hw_serial_isr adds a character at the end; in a ring of
\* bufsz - 1 characters it also drops the first one.
LEMMA StoreLemma ==
  ASSUME NEW f \in Fifo, NEW b \in Byte
  PROVE  LET g == Store(f, b)
             n == Length(f)
             drop == IF n = BufSz - 1 THEN 1 ELSE 0
         IN  /\ g \in Fifo
             /\ g.get # g.put
             /\ Length(g) = n + 1 - drop
             /\ \A i \in 1 .. n - drop : Item(g, i) = Item(f, i + drop)
             /\ Item(g, n + 1 - drop) = b
<1> DEFINE g == Store(f, b)
           n == Length(f)
           drop == IF n = BufSz - 1 THEN 1 ELSE 0
           p == Advance(f.put)
<1>1. /\ f.put \in 0 .. BufSz - 1 /\ f.get \in 0 .. BufSz - 1 /\ f.is_full \in BOOLEAN
      /\ f.buffer \in [0 .. BufSz - 1 -> Byte] /\ BufSz \in Nat \ {0, 1}
  BY RxAssumption DEF Fifo
<1>2. p \in 0 .. BufSz - 1 /\ p # f.put /\ Advance(f.get) \in 0 .. BufSz - 1
  BY <1>1 DEF Advance
<1>3. /\ n \in 0 .. BufSz - 1 /\ drop \in {0, 1} /\ (drop = 1 <=> n = BufSz - 1)
      /\ \/ f.put >= f.get /\ n = f.put - f.get
         \/ f.put < f.get /\ n = BufSz - (f.get - f.put)
  BY <1>1, LengthLemma DEF Length
<1>4. p = f.get <=> drop = 1
  BY <1>1, <1>3 DEF Advance, Length
<1> HIDE DEF n, drop
<1>5. /\ g.buffer = [f.buffer EXCEPT ![f.put] = b] /\ g.put = p
      /\ g.get = (IF drop = 1 THEN Advance(f.get) ELSE f.get) /\ g \in Fifo
  <2> DEFINE h == [f EXCEPT !.buffer[f.put] = b, !.put = Advance(@)]
  <2>1. h \in Fifo /\ h.buffer = [f.buffer EXCEPT ![f.put] = b] /\ h.put = p /\ h.get = f.get
    BY <1>1, <1>2 DEF Fifo
  <2>2. g = IF h.put = h.get THEN [h EXCEPT !.get = Advance(@), !.is_full = TRUE] ELSE h
    BY DEF Store
  <2> HIDE DEF h, g, p
  <2>3. CASE drop = 1
    <3>1. g = [h EXCEPT !.get = Advance(@), !.is_full = TRUE]
      BY <1>4, <2>1, <2>2, <2>3
    <3>2. g.get = Advance(f.get) /\ g.put = h.put /\ g.buffer = h.buffer /\ g \in Fifo
      BY <1>2, <2>1, <3>1 DEF Fifo
    <3>. QED BY <2>1, <2>3, <3>2
  <2>4. CASE drop # 1
    <3>1. g = h
      BY <1>4, <2>1, <2>2, <2>4
    <3>. QED BY <2>1, <2>4, <3>1
  <2>. QED BY <2>3, <2>4
<1> HIDE DEF g
<1>6. g.get # g.put
  BY <1>1, <1>2, <1>4, <1>5 DEF Advance
<1>7. /\ g.get = (IF drop = 1 THEN IF f.get + 1 >= BufSz THEN 0 ELSE f.get + 1 ELSE f.get)
      /\ g.put = IF f.put + 1 >= BufSz THEN 0 ELSE f.put + 1
  BY <1>5 DEF Advance
<1>8. Length(g) = n + 1 - drop
  <2>1. CASE drop = 1
    <3>1. g.get = IF f.get + 1 >= BufSz THEN 0 ELSE f.get + 1
      BY <1>7, <2>1
    <3>. QED BY <1>1, <1>3, <1>7, <2>1, <3>1 DEF Length
  <2>2. CASE drop = 0
    <3>1. g.get = f.get /\ n # BufSz - 1
      BY <1>3, <1>7, <2>2
    <3>. QED BY <1>1, <1>3, <1>7, <2>2, <3>1, SMTT(30) DEF Length
  <2>. QED BY <1>3, <2>1, <2>2
<1>9. ASSUME NEW i \in 1 .. n - drop + 1
      PROVE  (g.get + i - 1) % BufSz = (f.get + (i + drop) - 1) % BufSz
  <2>1. CASE drop = 1 /\ f.get = BufSz - 1
    <3>1. g.get = 0 /\ i - 1 \in 0 .. BufSz - 1
      BY <1>1, <1>3, <1>7, <2>1
    <3>2. f.get + (i + drop) - 1 = BufSz + (i - 1) /\ BufSz + (i - 1) \in 0 .. 2 * BufSz - 1
      BY <1>1, <2>1, <3>1
    <3> DEFINE x == f.get + (i + drop) - 1
    <3>3. x % BufSz = IF x < BufSz THEN x ELSE x - BufSz
      BY <1>1, <3>2, Wrap
    <3>4. x % BufSz = i - 1
      BY <1>1, <3>1, <3>2, <3>3, SMTT(30)
    <3>5. (i - 1) % BufSz = i - 1
      BY <1>1, <3>1, NoWrap
    <3>. QED BY <3>1, <3>4, <3>5
  <2>2. CASE ~(drop = 1 /\ f.get = BufSz - 1)
    <3>1. g.get + i - 1 = f.get + (i + drop) - 1
      BY <1>1, <1>3, <1>7, <2>2
    <3>. QED BY <3>1
  <2>. QED BY <2>1, <2>2
<1>10. ASSUME NEW i \in 1 .. n - drop PROVE Item(g, i) = Item(f, i + drop)
  <2> DEFINE x == f.get + (i + drop) - 1
             j == x % BufSz
  <2>1. x \in 0 .. 2 * BufSz - 1 /\ i + drop \in 1 .. n
    BY <1>1, <1>3
  <2>2. j = IF x < BufSz THEN x ELSE x - BufSz
    BY <1>1, <2>1, Wrap
  <2>3. x = f.get + (i + drop) - 1
    OBVIOUS
  <2>4. (g.get + i - 1) % BufSz = j
    BY <1>3, <1>9
  <2>5. Item(f, i + drop) = f.buffer[j]
    BY DEF Item
  <2> HIDE DEF x, j
  <2>6. j \in 0 .. BufSz - 1 /\ j # f.put
    <3>1. PICK m \in 1 .. n : x = f.get + m - 1
      BY <1>3, <2>1, <2>3
    <3>2. CASE x < BufSz
      BY <1>1, <1>3, <2>1, <2>2, <3>1, <3>2
    <3>3. CASE x >= BufSz
      BY <1>1, <1>3, <2>1, <2>2, <3>1, <3>3, SMTT(30)
    <3>. QED BY <1>1, <2>1, <3>2, <3>3
  <2>7. Item(g, i) = f.buffer[j]
    BY <1>1, <1>5, <2>4, <2>6 DEF Item
  <2>. QED BY <2>5, <2>7
<1>11. Item(g, n + 1 - drop) = b
  <2> DEFINE x == f.get + n
  <2>1. x \in 0 .. 2 * BufSz - 1 /\ n + 1 - drop \in 1 .. n - drop + 1
    BY <1>1, <1>3
  <2>2. x % BufSz = IF x < BufSz THEN x ELSE x - BufSz
    BY <1>1, <2>1, Wrap
  <2>3. x = f.put \/ x = f.put + BufSz
    BY <1>1, <1>3
  <2>4. x % BufSz = f.put
    BY <1>1, <2>2, <2>3
  <2>5. (g.get + (n + 1 - drop) - 1) % BufSz = (f.get + ((n + 1 - drop) + drop) - 1) % BufSz
    BY <1>9, <2>1
  <2>6. f.get + ((n + 1 - drop) + drop) - 1 = x
    BY <1>1, <1>3
  <2>. QED BY <1>1, <1>5, <2>4, <2>5, <2>6 DEF Item
<1>. QED BY <1>5, <1>6, <1>8, <1>10, <1>11 DEF g, n, drop

\* The character that _serial_int_rx takes is the first one.
LEMMA ReadLemma ==
  ASSUME NEW f \in Fifo, f.get # f.put
  PROVE  LET g == [f EXCEPT !.get = Advance(@), !.is_full = FALSE]
         IN  /\ g \in Fifo /\ ~g.is_full
             /\ Length(g) = Length(f) - 1
             /\ \A i \in 1 .. Length(f) - 1 : Item(g, i) = Item(f, i + 1)
             /\ f.buffer[f.get] = Item(f, 1)
<1> DEFINE g == [f EXCEPT !.get = Advance(@), !.is_full = FALSE]
           n == Length(f)
<1>1. /\ f.put \in 0 .. BufSz - 1 /\ f.get \in 0 .. BufSz - 1 /\ f.is_full \in BOOLEAN
      /\ f.buffer \in [0 .. BufSz - 1 -> Byte] /\ BufSz \in Nat \ {0, 1}
  BY RxAssumption DEF Fifo
<1>2. Advance(f.get) \in 0 .. BufSz - 1
  BY <1>1 DEF Advance
<1>3. /\ g \in Fifo /\ ~g.is_full /\ g.put = f.put /\ g.buffer = f.buffer
      /\ g.get = Advance(f.get)
  BY <1>1, <1>2 DEF Fifo
<1> HIDE DEF g
<1>4. /\ n \in 1 .. BufSz - 1
      /\ \/ f.put >= f.get /\ n = f.put - f.get
         \/ f.put < f.get /\ n = BufSz - (f.get - f.put)
  BY <1>1, LengthLemma DEF Length
<1> HIDE DEF n
<1>5. g.get = IF f.get + 1 >= BufSz THEN 0 ELSE f.get + 1
  BY <1>3 DEF Advance
<1>6. Length(g) = n - 1
  <2>1. CASE f.get = BufSz - 1
    <3>1. g.get = 0
      BY <1>1, <1>5, <2>1
    <3>. QED BY <1>1, <1>3, <1>4, <2>1, <3>1 DEF Length
  <2>2. CASE f.get # BufSz - 1
    <3>1. g.get = f.get + 1
      BY <1>1, <1>5, <2>2
    <3>. QED BY <1>1, <1>3, <1>4, <2>2, <3>1 DEF Length
  <2>. QED BY <2>1, <2>2
<1>7. ASSUME NEW i \in 1 .. n - 1 PROVE Item(g, i) = Item(f, i + 1)
  <2>1. CASE f.get = BufSz - 1
    <3> DEFINE x == f.get + (i + 1) - 1
    <3>1. g.get = 0 /\ i - 1 \in 0 .. BufSz - 1 /\ x = BufSz + (i - 1) /\ x \in 0 .. 2 * BufSz - 1
      BY <1>1, <1>4, <1>5, <2>1
    <3>2. x % BufSz = IF x < BufSz THEN x ELSE x - BufSz
      BY <1>1, <3>1, Wrap
    <3>3. x % BufSz = i - 1
      BY <1>1, <3>1, <3>2
    <3>4. (i - 1) % BufSz = i - 1
      BY <1>1, <3>1, NoWrap
    <3>5. g.get + i - 1 = i - 1
      BY <3>1
    <3>. QED BY <1>3, <3>3, <3>4, <3>5 DEF Item
  <2>2. CASE f.get # BufSz - 1
    <3>1. g.get + i - 1 = f.get + (i + 1) - 1
      BY <1>1, <1>5, <2>2
    <3>. QED BY <1>3, <3>1 DEF Item
  <2>. QED BY <2>1, <2>2
<1>8. f.buffer[f.get] = Item(f, 1)
  <2>1. f.get + 1 - 1 = f.get /\ f.get % BufSz = f.get
    BY <1>1
  <2>. QED BY <2>1 DEF Item
<1>. QED BY <1>3, <1>6, <1>7, <1>8 DEF g, n

\* A list of n characters, given one by one.
LEMMA ListOf ==
  ASSUME NEW s, NEW n \in Nat, s \in [1 .. n -> Byte]
  PROVE  s \in Seq(Byte) /\ Len(s) = n
<1>1. s \in Seq(Byte)
  BY SeqDef
<1>. QED BY <1>1, LenProperties

\* A list that has the elements of another from the second on is its tail.
LEMMA Shifted ==
  ASSUME NEW s \in Seq(Byte), NEW t \in Seq(Byte), s # << >>, Len(t) = Len(s) - 1,
         \A i \in 1 .. Len(t) : t[i] = s[i + 1]
  PROVE  t = Tail(s)
<1>1. /\ Tail(s) \in Seq(Byte) /\ Len(Tail(s)) = Len(s) - 1
      /\ \A i \in 1 .. Len(Tail(s)) : Tail(s)[i] = s[i + 1]
  BY HeadTailProperties
<1>. QED BY <1>1, SeqEqual

\* A list with one element more is the other with that element appended.
LEMMA Extended ==
  ASSUME NEW s \in Seq(Byte), NEW t \in Seq(Byte), NEW b \in Byte, Len(t) = Len(s) + 1,
         \A i \in 1 .. Len(s) : t[i] = s[i], t[Len(s) + 1] = b
  PROVE  t = Append(s, b)
<1>1. /\ Append(s, b) \in Seq(Byte) /\ Len(Append(s, b)) = Len(s) + 1
      /\ \A i \in 1 .. Len(s) : Append(s, b)[i] = s[i]
      /\ Append(s, b)[Len(s) + 1] = b
  BY AppendProperties
<1>2. Len(s) \in Nat
  BY LenProperties
<1>3. \A i \in 1 .. Len(t) : t[i] = Append(s, b)[i]
  BY <1>1, <1>2
<1>. QED BY <1>1, <1>3, SeqEqual

\* The characters of a ring, as Contents lists them.
Items(f) == [i \in 1 .. Length(f) |-> Item(f, i)]

\* The contents of a ring are a list of Length characters.
LEMMA ItemsLemma ==
  ASSUME NEW f \in Fifo
  PROVE  /\ Items(f) \in Seq(Byte) /\ Len(Items(f)) = Length(f)
         /\ \A i \in 1 .. Length(f) : Items(f)[i] = Item(f, i)
<1>1. Length(f) \in 0 .. BufSz - 1 /\ \A i \in 1 .. BufSz : Item(f, i) \in Byte
  BY LengthLemma
<1>2. BufSz \in Nat /\ Length(f) \in Nat /\ \A i \in 1 .. Length(f) : i \in 1 .. BufSz
  BY <1>1, RxAssumption
<1>3. Items(f) \in [1 .. Length(f) -> Byte]
  BY <1>1, <1>2 DEF Items
<1>. QED BY <1>2, <1>3, ListOf DEF Items

\* The ring's contents after a store.
LEMMA ItemsStore ==
  ASSUME NEW f \in Fifo, NEW b \in Byte
  PROVE  Items(Store(f, b))
           = Append(IF Len(Items(f)) = BufSz - 1 THEN Tail(Items(f)) ELSE Items(f), b)
<1> DEFINE g == Store(f, b)
           n == Length(f)
           drop == IF n = BufSz - 1 THEN 1 ELSE 0
<1>1. /\ g \in Fifo /\ Length(g) = n + 1 - drop
      /\ \A i \in 1 .. n - drop : Item(g, i) = Item(f, i + drop)
      /\ Item(g, n + 1 - drop) = b
  BY StoreLemma
<1>2. n \in 0 .. BufSz - 1 /\ BufSz \in Nat \ {0, 1}
  BY LengthLemma, RxAssumption
<1>3. /\ Items(f) \in Seq(Byte) /\ Len(Items(f)) = n
      /\ \A i \in 1 .. n : Items(f)[i] = Item(f, i)
  BY ItemsLemma
<1>4. /\ Items(g) \in Seq(Byte) /\ Len(Items(g)) = n + 1 - drop
      /\ \A i \in 1 .. n + 1 - drop : Items(g)[i] = Item(g, i)
  BY <1>1, ItemsLemma
<1> HIDE DEF g, n
<1>5. CASE n = BufSz - 1
  <2> DEFINE s == Tail(Items(f))
  <2>1. Items(f) # << >>
    BY <1>2, <1>3, <1>5, EmptySeq
  <2>2. /\ s \in Seq(Byte) /\ Len(s) = n - 1
        /\ \A i \in 1 .. n - 1 : s[i] = Items(f)[i + 1]
    BY <1>3, <2>1, HeadTailProperties
  <2>3. /\ Len(Items(g)) = n /\ Items(g)[n] = b
        /\ \A i \in 1 .. n - 1 : Items(g)[i] = Item(f, i + 1)
    BY <1>1, <1>2, <1>4, <1>5
  <2>4. \A i \in 1 .. n - 1 : Items(g)[i] = s[i]
    BY <1>2, <1>3, <2>2, <2>3
  <2> HIDE DEF s
  <2>5. Items(g) = Append(s, b)
    BY <1>2, <1>4, <2>2, <2>3, <2>4, Extended
  <2>. QED BY <1>3, <1>5, <2>5 DEF s, g
<1>6. CASE n # BufSz - 1
  <2>1. /\ Len(Items(g)) = n + 1 /\ Items(g)[n + 1] = b
        /\ \A i \in 1 .. n : Items(g)[i] = Items(f)[i]
    BY <1>1, <1>2, <1>3, <1>4, <1>6
  <2>2. Items(g) = Append(Items(f), b)
    BY <1>2, <1>3, <1>4, <2>1, Extended
  <2>. QED BY <1>3, <1>6, <2>2 DEF g
<1>. QED BY <1>5, <1>6

\* ... and after a read.
LEMMA ItemsRead ==
  ASSUME NEW f \in Fifo, f.get # f.put
  PROVE  /\ Items(f) # << >> /\ f.buffer[f.get] = Head(Items(f))
         /\ Items([f EXCEPT !.get = Advance(@), !.is_full = FALSE]) = Tail(Items(f))
<1> DEFINE g == [f EXCEPT !.get = Advance(@), !.is_full = FALSE]
           n == Length(f)
<1>1. /\ g \in Fifo /\ Length(g) = n - 1
      /\ \A i \in 1 .. n - 1 : Item(g, i) = Item(f, i + 1)
      /\ f.buffer[f.get] = Item(f, 1)
  BY ReadLemma
<1>2. n \in 1 .. BufSz - 1 /\ BufSz \in Nat \ {0, 1}
  BY LengthLemma, RxAssumption
<1>3. /\ Items(f) \in Seq(Byte) /\ Len(Items(f)) = n
      /\ \A i \in 1 .. n : Items(f)[i] = Item(f, i)
  BY ItemsLemma
<1>4. /\ Items(g) \in Seq(Byte) /\ Len(Items(g)) = n - 1
      /\ \A i \in 1 .. n - 1 : Items(g)[i] = Item(g, i)
  BY <1>1, ItemsLemma
<1> HIDE DEF g, n
<1>5. Items(f) # << >>
  BY <1>2, <1>3, EmptySeq
<1>6. Items(g) = Tail(Items(f))
  BY <1>1, <1>2, <1>3, <1>4, <1>5, Shifted
<1>7. Head(Items(f)) = Items(f)[1]
  BY <1>3, <1>5
<1>. QED BY <1>1, <1>2, <1>3, <1>5, <1>6, <1>7 DEF g

-----------------------------------------------------------------------------
(* The invariant *)

\* The thread is about to wait, or does: what it has not read an ISR announces,
\* or the semaphore says.
Announced ==
  /\ pc = "take" => Empty \/ isr \in {"drain", "indicate"} \/ sem > 0
  /\ NoLostWakeup

\* Every release of the semaphore has a character of its own: one that has come
\* and for which no ISR has yet run, or the one an ISR was entered for.
Claims == (IF isr \in {"drain", "indicate"} \/ (isr = "idle" /\ dr # NoByte) THEN 1 ELSE 0)

\* The part of the invariant that does not depend on the size of the value.
RingInv ==
  /\ TypeOK
  /\ fifo.is_full => fifo.get # fifo.put
  /\ pc \in {"read", "take", "wait"} => indicate

RxInv ==
  /\ RingInv
  /\ Announced
  /\ sem + Claims <= sent

\* The port starts with an empty ring, and nobody has opened it.
LEMMA RingInit == Init => RingInv
<1> SUFFICES ASSUME Init PROVE RingInv
  OBVIOUS
<1>1. (CHOOSE b \in Byte : TRUE) \in Byte
  BY RxAssumption
<1>2. 0 \in 0 .. BufSz - 1 /\ 0 \in 0 .. ValueMod - 1 /\ 0 \in 0 .. MaxBytes
  BY RxAssumption
<1>3. fifo \in Fifo /\ ~fifo.is_full
  BY <1>1, <1>2 DEF Init, Fifo
<1>. QED BY <1>2, <1>3 DEF Init, RingInv, TypeOK, Fifo

\* What the ring is and what the tests of its indices say.
LEMMA RingFacts ==
  ASSUME RingInv
  PROVE  /\ fifo \in Fifo /\ RxLength = Length(fifo) /\ Contents = Items(fifo)
         /\ RxLength \in Nat
         /\ Empty <=> RxLength = 0
         /\ Empty <=> fifo.get = fifo.put
<1>1. fifo \in Fifo
  BY DEF RingInv, TypeOK, Fifo
<1>2. RxLength = Length(fifo) /\ Contents = Items(fifo)
  BY DEF RxLength, Length, Contents, Items, Item
<1>3. Length(fifo) \in 0 .. BufSz - 1 /\ (Length(fifo) = 0 <=> fifo.put = fifo.get)
  BY <1>1, LengthLemma
<1>4. Empty <=> fifo.get = fifo.put
  BY DEF RingInv, Empty
<1>. QED BY <1>1, <1>2, <1>3, <1>4

\* Every step of the ISR and of the reader keeps the ring sound.
LEMMA RingStep ==
  ASSUME RingInv, [Next]_vars PROVE RingInv'
<1> USE DEF RingInv
<1>0. fifo \in Fifo /\ ValueMod \in Nat \ {0, 1} /\ MaxBytes \in Nat
  BY RingFacts, RxAssumption
<1>1. ASSUME NEW b \in Byte, Arrive(b) PROVE RingInv'
  <2>1. sent' \in 0 .. MaxBytes /\ dr' \in Byte \cup {NoByte}
    BY <1>0, <1>1 DEF Arrive, TypeOK
  <2>. QED BY <1>1, <2>1 DEF Arrive, TypeOK
<1>2. CASE Interrupt
  BY <1>2 DEF Interrupt, TypeOK
<1>3. CASE IsrGetc
  <2>1. dr \in Byte /\ fifo' = Store(fifo, dr) /\ dr' = NoByte
    BY <1>3 DEF IsrGetc, TypeOK
  <2>2. fifo' \in Fifo /\ fifo'.get # fifo'.put
    BY <1>0, <2>1, StoreLemma
  <2>. QED BY <1>3, <2>1, <2>2 DEF IsrGetc, TypeOK, Fifo
<1>4. CASE IsrDrained
  BY <1>4 DEF IsrDrained, TypeOK
<1>5. CASE IsrIndicate
  <2>1. sem' \in 0 .. ValueMod - 1
    BY <1>0, <1>5 DEF IsrIndicate, TypeOK
  <2>2. pc' \in {"open", "set_rx_indicate", "read", "take", "wait"}
        /\ (pc' \in {"read", "take", "wait"} => pc \in {"read", "take", "wait"})
    BY <1>5 DEF IsrIndicate, TypeOK
  <2>. QED BY <1>5, <2>1, <2>2 DEF IsrIndicate, TypeOK
<1>6. CASE IsrClear
  BY <1>6 DEF IsrClear, TypeOK
<1>7. CASE Open
  BY <1>7 DEF Open, TypeOK
<1>8. CASE SetRxIndicate
  BY <1>8 DEF SetRxIndicate, TypeOK
<1>9. CASE ReadOne
  <2>1. fifo.get # fifo.put /\ fifo' = [fifo EXCEPT !.get = Advance(@), !.is_full = FALSE]
        /\ ch' = fifo.buffer[fifo.get]
    BY <1>9, RingFacts DEF ReadOne
  <2>2. fifo' \in Fifo /\ ~fifo'.is_full
    BY <1>0, <2>1, ReadLemma
  <2>3. ch' \in Byte
    BY <1>0, <2>1 DEF Fifo
  <2>. QED BY <1>9, <2>2, <2>3 DEF ReadOne, TypeOK, Fifo
<1>10. CASE ReadNone
  BY <1>10 DEF ReadNone, TypeOK
<1>11. CASE Take
  <2>1. sem' \in 0 .. ValueMod - 1 /\ pc' \in {"read", "wait"}
    BY <1>0, <1>11 DEF Take, TypeOK
  <2>. QED BY <1>11, <2>1 DEF Take, TypeOK
<1>12. CASE UNCHANGED vars
  BY <1>12 DEF vars, TypeOK
<1>. QED BY <1>1, <1>2, <1>3, <1>4, <1>5, <1>6, <1>7, <1>8, <1>9, <1>10, <1>11, <1>12
         DEF Next, Isr, Thread

\* With MaxBytes < ValueMod the semaphore's value does not wrap.
LEMMA RxStep ==
  ASSUME MaxBytes < ValueMod, RxInv, [Next]_vars PROVE RxInv'
<1>0. /\ RingInv /\ RingInv' /\ TypeOK /\ TypeOK'
      /\ Announced /\ sem + Claims <= sent /\ ValueMod \in Nat \ {0, 1} /\ MaxBytes \in Nat
  BY RingStep, RxAssumption DEF RxInv, RingInv
<1>a. /\ sem \in Nat /\ sent \in Nat /\ sent <= MaxBytes /\ (Claims = 0 \/ Claims = 1)
      /\ pc \in {"read", "take", "wait"} => indicate
      /\ RxLength \in Nat
      /\ Empty <=> RxLength = 0
      /\ sem + Claims <= sent
  BY <1>0, RingFacts DEF TypeOK, Claims, RingInv
<1>b. fifo' = fifo => (Empty' <=> Empty)
  BY DEF Empty
<1> SUFFICES Announced' /\ (sem + Claims <= sent)'
  BY <1>0 DEF RxInv
<1>1. ASSUME NEW b \in Byte, Arrive(b) PROVE Announced' /\ (sem + Claims <= sent)'
  <2>1. sent' = sent + 1 /\ sem' = sem /\ (Claims' = 0 \/ Claims' = 1)
    BY <1>1 DEF Arrive, Claims
  <2>2. sem <= sent
    BY <1>a
  <2>3. sem' + Claims' <= sent'
    BY <1>a, <2>1, <2>2
  <2>. QED BY <1>0, <1>1, <1>b, <2>3 DEF Arrive, Announced, NoLostWakeup
<1>2. CASE Interrupt
  <2>1. Claims' = 1 /\ Claims = 1
    BY <1>2 DEF Interrupt, Claims
  <2>. QED BY <1>0, <1>2, <1>b, <2>1 DEF Interrupt, Announced, NoLostWakeup
<1>3. CASE IsrGetc
  <2>1. Claims' = 1 /\ Claims = 1
    BY <1>3 DEF IsrGetc, Claims
  <2>. QED BY <1>0, <1>3, <2>1 DEF IsrGetc, Announced, NoLostWakeup
<1>4. CASE IsrDrained
  <2>1. Claims' = 1 /\ Claims = 1
    BY <1>4 DEF IsrDrained, Claims
  <2>. QED BY <1>0, <1>4, <1>b, <2>1 DEF IsrDrained, Announced, NoLostWakeup
<1>5. CASE IsrIndicate
  <2>1. Claims' = 0 /\ Claims = 1
    BY <1>5 DEF IsrIndicate, Claims
  <2>2. sem + 1 <= sent /\ sem + 1 < ValueMod
    BY <1>0, <1>a, <2>1
  <2>3. (sem + 1) % ValueMod = sem + 1
    BY <1>0, <1>a, <2>2, NoWrap
  <2>4. sem' \in {sem, sem + 1}
    BY <1>5, <2>3 DEF IsrIndicate
  <2>5. (sem + Claims <= sent)'
    BY <1>5, <1>a, <2>1, <2>2, <2>4 DEF IsrIndicate
  <2>6. ~Empty /\ indicate /\ pc = "wait" => pc' = "read"
    BY <1>5, <1>a DEF IsrIndicate
  <2>7. ~Empty /\ indicate /\ pc = "take" => sem' = sem + 1 /\ pc' = pc
    BY <1>5, <1>a, <2>3 DEF IsrIndicate
  <2>8. (pc' = "wait" => pc = "wait") /\ (pc' = "take" => pc = "take") /\ fifo' = fifo
    BY <1>5 DEF IsrIndicate
  <2>. QED BY <1>a, <1>b, <2>5, <2>6, <2>7, <2>8 DEF Announced, NoLostWakeup
<1>6. CASE IsrClear
  <2>1. Claims' = 0 /\ Claims = 0
    BY <1>6 DEF IsrClear, Claims
  <2>. QED BY <1>0, <1>6, <1>b, <2>1 DEF IsrClear, Announced, NoLostWakeup
<1>7. CASE Open \/ SetRxIndicate
  <2>1. Claims' = Claims
    BY <1>7 DEF Open, SetRxIndicate, Claims
  <2>. QED BY <1>0, <1>7, <2>1 DEF Open, SetRxIndicate, Announced, NoLostWakeup
<1>8. CASE ReadOne
  <2>1. Claims' = Claims
    BY <1>8 DEF ReadOne, Claims
  <2>. QED BY <1>0, <1>8, <2>1 DEF ReadOne, Announced, NoLostWakeup
<1>9. CASE ReadNone
  <2>1. Claims' = Claims
    BY <1>9 DEF ReadNone, Claims
  <2>. QED BY <1>0, <1>9, <1>b, <2>1 DEF ReadNone, Announced, NoLostWakeup
<1>10. CASE Take
  <2>1. Claims' = Claims
    BY <1>10 DEF Take, Claims
  <2>2. sem' <= sem
    BY <1>10, <1>a DEF Take
  <2>3. sem' \in Nat
    BY <1>0 DEF TypeOK
  <2>4. sem' + Claims' <= sent'
    <3>1. sent' = sent
      BY <1>10 DEF Take
    <3>2. sem' + Claims <= sem + Claims
      BY <1>a, <2>2, <2>3
    <3>. QED BY <1>a, <2>1, <2>3, <3>1, <3>2
  <2>5. pc' = "wait" => Empty \/ isr \in {"drain", "indicate"}
    BY <1>0, <1>a, <1>10 DEF Take, Announced
  <2>. QED BY <1>10, <1>b, <2>4, <2>5 DEF Take, Announced, NoLostWakeup
<1>11. CASE UNCHANGED vars
  BY <1>0, <1>11, <1>b DEF vars, Claims, Announced, NoLostWakeup
<1>. QED BY <1>1, <1>2, <1>3, <1>4, <1>5, <1>6, <1>7, <1>8, <1>9, <1>10, <1>11
         DEF Next, Isr, Thread

-----------------------------------------------------------------------------
(* The results *)

\* put_index = get_index means that the ring is empty, after any mix of
\* rt_hw_serial_isr and _serial_int_rx: is_full never hides a full one.
THEOREM RingInvariance == Spec => []RingInv
<1>1. Spec => Init /\ [][Next]_vars
  BY DEF Spec
<1>. QED BY <1>1, RingInit, RingStep, PTL

\* The type of the state: no index of the ring leaves the buffer.
THEOREM RxTyped == Spec => []TypeOK
<1>1. RingInv => TypeOK
  BY DEF RingInv
<1>. QED BY <1>1, RingInvariance, PTL

\* The reader of my_usart1_thread_entry misses no release of rx_sem_uart1_self
\* between the read that finds nothing and the wait, as long as fewer characters
\* come than the value can count.
THEOREM NoWakeupLost == ASSUME MaxBytes < ValueMod PROVE Spec => []NoLostWakeup
<1>1. Init => RxInv
  <2> SUFFICES ASSUME Init PROVE RxInv
    OBVIOUS
  <2>1. sem = 0 /\ Claims = 0 /\ sent = 0 /\ pc = "open"
    BY DEF Init, Claims
  <2>. QED BY <2>1, RingInit DEF RxInv, Announced, NoLostWakeup
<1>2. RxInv /\ [Next]_vars => RxInv'
  BY RxStep
<1>3. RxInv => NoLostWakeup
  BY DEF RxInv, Announced
<1>. QED BY <1>1, <1>2, <1>3, PTL DEF Spec

\* The ring implements the queue, whatever the buffer size: what
\* _serial_int_rx returns is the oldest character, and rt_hw_serial_isr loses
\* one only when bufsz - 1 wait to be read, and then the oldest.
THEOREM RingRefinement == Spec => ImplementsQueue
<1>1. Init => Queue!Init
  <2> SUFFICES ASSUME Init PROVE Queue!Init
    OBVIOUS
  <2>1. Contents = Items(fifo) /\ Empty /\ RxLength = 0
    BY RingInit, RingFacts DEF Init, Empty
  <2>2. Items(fifo) = << >>
    BY <2>1, RingInit, RingFacts, ItemsLemma, EmptySeq
  <2>. QED BY <2>1, <2>2 DEF Init, Queue!Init
<1>2. RingInv /\ RingInv' /\ [Next]_vars => [Queue!Next]_<<Contents, ch>>
  <2> SUFFICES ASSUME RingInv, RingInv', [Next]_vars
               PROVE  Queue!Next \/ UNCHANGED <<Contents, ch>>
    OBVIOUS
  <2>0. fifo \in Fifo /\ Contents = Items(fifo)
    BY RingFacts
  <2>a. Contents' = Items(fifo)'
    BY DEF Contents, Items, Item, Length, RxLength
  <2>1. CASE IsrGetc
    <3>1. dr \in Byte /\ fifo' = Store(fifo, dr) /\ ch' = ch
      BY <2>1 DEF IsrGetc, RingInv, TypeOK
    <3>2. Items(fifo)' = Items(fifo')
      BY DEF Items, Item, Length
    <3>3. Contents' = Append(IF Len(Contents) = BufSz - 1 THEN Tail(Contents) ELSE Contents, dr)
      BY <2>0, <2>a, <3>1, <3>2, ItemsStore
    <3>4. Queue!Put(dr)
      BY <3>1, <3>3 DEF Queue!Put
    <3>. QED BY <3>1, <3>4 DEF Queue!Next
  <2>2. CASE ReadOne
    <3>1. /\ fifo.get # fifo.put /\ ch' = fifo.buffer[fifo.get]
          /\ fifo' = [fifo EXCEPT !.get = Advance(@), !.is_full = FALSE]
      BY <2>2, RingFacts DEF ReadOne
    <3>2. Items(fifo)' = Items(fifo')
      BY DEF Items, Item, Length
    <3>3. Contents # << >> /\ ch' = Head(Contents) /\ Contents' = Tail(Contents)
      BY <2>0, <2>a, <3>1, <3>2, ItemsRead
    <3>. QED BY <3>3 DEF Queue!Next, Queue!Get
  <2>3. CASE ~IsrGetc /\ ~ReadOne
    <3>1. fifo' = fifo /\ ch' = ch
      BY <2>3 DEF Next, Isr, Thread, Arrive, Interrupt, IsrDrained, IsrIndicate, IsrClear,
                  Open, SetRxIndicate, ReadNone, Take, vars
    <3>. QED BY <3>1 DEF Contents, RxLength
  <2>. QED BY <2>1, <2>2, <2>3
<1>. QED BY <1>1, <1>2, RingInvariance, PTL DEF Spec, ImplementsQueue, Queue!Spec

=============================================================================
