----------------------------- MODULE Xof_proofs -----------------------------
(***************************************************************************)
(* The sponge and the XOF on top of it, proved for every rate, every byte  *)
(* radix and every way to cut input and output into pieces.                *)
(*                                                                         *)
(* The state of the sponge is related to the whole message position by     *)
(* position: while it absorbs, the permutation state, the buffer and what  *)
(* a Write has still to copy are consecutive parts of the message; once it *)
(* squeezes, the state is the padded message followed by whole blocks of   *)
(* zeros, as many blocks as the output has left behind.                    *)
(***************************************************************************)
EXTENDS Xof, FiniteSetTheorems, TLAPS

-----------------------------------------------------------------------------
(* Arithmetic of blocks.                                                    *)

\* A length of whole blocks.
Whole(len) == \E q \in Nat : len = q * Rate

\* One block more is whole blocks again.
LEMMA WholeAdd ==
    ASSUME NEW len, Whole(len)
    PROVE  len \in Nat /\ Whole(len + Rate)
  <1>1. PICK q \in Nat : len = q * Rate
    BY DEF Whole
  <1>2. len + Rate = (q + 1) * Rate /\ len \in Nat
    BY <1>1, SpongeAssumption
  <1> QED
    BY <1>2 DEF Whole

\* No bytes are whole blocks.
LEMMA WholeZero == Whole(0)
  <1>1. 0 = 0 * Rate
    BY SpongeAssumption
  <1> QED
    BY <1>1 DEF Whole

\* A position in a block, and the bytes before the block.
LEMMA WholeMod ==
    ASSUME NEW len, Whole(len), NEW r \in Offsets
    PROVE  /\ (len + r) % Rate = r
           /\ ((len + r) \div Rate) * Rate = len
  <1>1. PICK q \in Nat : len = q * Rate
    BY DEF Whole
  <1>2. (q * Rate + r) % Rate = r
    BY SpongeAssumption DEF Offsets
  <1>3. (q * Rate + r) \div Rate = q
    BY SpongeAssumption DEF Offsets
  <1> QED
    BY <1>1, <1>2, <1>3

-----------------------------------------------------------------------------
(* Sequences, position by position.                                         *)

\* A concatenation.
LEMMA Concat ==
    ASSUME NEW s \in Seq(Int), NEW t \in Seq(Int)
    PROVE  /\ s \o t \in Seq(Int)
           /\ Len(s \o t) = Len(s) + Len(t)
           /\ \A i \in 1..Len(s) : (s \o t)[i] = s[i]
           /\ \A i \in 1..Len(t) : (s \o t)[Len(s) + i] = t[i]
  OBVIOUS

\* Two sequences that agree in length and everywhere are one.
LEMMA SameSeq ==
    ASSUME NEW S, NEW s \in Seq(S), NEW t \in Seq(S), Len(s) = Len(t),
           \A i \in 1..Len(s) : s[i] = t[i]
    PROVE  s = t
  OBVIOUS

\* A sequence changed in one place.
LEMMA SeqExcept ==
    ASSUME NEW s \in Seq(Int), NEW k \in 1..Len(s), NEW y
    PROVE  [s EXCEPT ![k] = y] = [i \in 1..Len(s) |-> IF i = k THEN y ELSE s[i]]
  OBVIOUS

\* Zeros.
LEMMA ZerosAre ==
    ASSUME NEW k \in Nat
    PROVE  /\ Zeros(k) \in Seq(Int) /\ Len(Zeros(k)) = k
           /\ \A i \in 1..k : Zeros(k)[i] = 0
  BY DEF Zeros

\* Zeros after zeros.
LEMMA ZerosAdd ==
    ASSUME NEW k \in Nat, NEW l \in Nat
    PROVE  Zeros(k) \o Zeros(l) = Zeros(k + l)
  <1> DEFINE s == Zeros(k)
             t == Zeros(l)
             u == Zeros(k + l)
  <1>1. /\ s \in Seq(Int) /\ Len(s) = k /\ \A i \in 1..k : s[i] = 0
        /\ t \in Seq(Int) /\ Len(t) = l /\ \A i \in 1..l : t[i] = 0
        /\ u \in Seq(Int) /\ Len(u) = k + l /\ \A i \in 1..k + l : u[i] = 0
    BY ZerosAre
  <1> HIDE DEF s, t, u
  <1>2. s \o t \in Seq(Int) /\ Len(s \o t) = k + l
    BY <1>1
  <1>3. \A i \in 1..k + l : (s \o t)[i] = 0
    BY <1>1
  <1>4. s \o t = u
    BY <1>1, <1>2, <1>3
  <1> QED
    BY <1>4 DEF s, t, u

\* Concatenation is associative.
LEMMA ConcatAssoc ==
    ASSUME NEW s \in Seq(Int), NEW t \in Seq(Int), NEW u \in Seq(Int)
    PROVE  (s \o t) \o u = s \o (t \o u)
  OBVIOUS

-----------------------------------------------------------------------------
(* Padding.                                                                 *)

\* The byte at offset i >= r of the last block, whose first r bytes are message.
PadByte(r, x, i) ==
    IF i = Rate - 1 THEN FlipHigh(IF i = r THEN x ELSE 0)
                    ELSE IF i = r THEN x ELSE 0

\* What Read's first call makes of the buffer.
LEMMA PaddedBlockAt ==
    ASSUME NEW b, NEW r \in Offsets, NEW x, NEW i \in Offsets
    PROVE  PaddedBlock(b, r, x)[i] = IF i < r THEN b[i] ELSE PadByte(r, x, i)
  BY SpongeAssumption DEF PaddedBlock, PadByte, Offsets

\* Sequence p is message m, of len bytes in whole blocks and r more, with its padding.
PaddedFrom(p, m, x, len, r) ==
    /\ p \in Seq(Int) /\ Len(p) = len + Rate
    /\ \A i \in 1..len + r : p[i] = m[i]
    /\ \A i \in r..Rate - 1 : p[len + i + 1] = PadByte(r, x, i)

\* What the padded message is in one piece.
LEMMA PaddedIs ==
    ASSUME NEW m \in Seq(Int), NEW x \in Int, NEW len, Whole(len), NEW r \in Offsets,
           Len(m) = len + r
    PROVE  PaddedFrom(Padded(m, x), m, x, len, r)
  <1> DEFINE k   == Rate - r - 1
             z   == Zeros(k)
             raw == m \o <<x>> \o z
             all == len + Rate
  <1>1. len \in Nat /\ k \in Nat /\ all \in Nat /\ r \in Nat /\ Rate \in Nat
    BY WholeAdd, SpongeAssumption DEF Offsets
  <1>2. Len(m) % Rate = r
    BY WholeMod
  <1>3. Len(m) + (Rate - (Len(m) % Rate)) = all /\ all - Len(m) - 1 = k
    <2>1. Len(m) + (Rate - r) = all /\ all - Len(m) - 1 = k
      BY <1>1
    <2> QED
      BY <1>2, <2>1, Zenon
  <1>4. z \in Seq(Int) /\ Len(z) = k /\ \A i \in 1..k : z[i] = 0
    BY <1>1, ZerosAre
  <1>5. Padded(m, x) = [raw EXCEPT ![all] = FlipHigh(@)]
    BY <1>3 DEF Padded
  <1> HIDE DEF z
  <1>6. /\ raw \in Seq(Int) /\ Len(raw) = all
        /\ \A i \in 1..len + r : raw[i] = m[i]
        /\ raw[len + r + 1] = x
        /\ \A i \in len + r + 2..all : raw[i] = 0
    <2> DEFINE mx == m \o <<x>>
    <2>1. /\ mx \in Seq(Int) /\ Len(mx) = len + r + 1
          /\ \A i \in 1..len + r : mx[i] = m[i]
          /\ mx[len + r + 1] = x
      BY <1>1
    <2> HIDE DEF mx
    <2>2. /\ mx \o z \in Seq(Int) /\ Len(mx \o z) = all
          /\ \A i \in 1..Len(mx) : (mx \o z)[i] = mx[i]
          /\ \A i \in 1..Len(z) : (mx \o z)[Len(mx) + i] = z[i]
      <3>1. Len(mx) + Len(z) = all
        BY <1>1, <1>4, <2>1
      <3> QED
        BY <1>4, <2>1, <3>1, Concat
    <2>3. \A i \in len + r + 2..all : i - Len(mx) \in 1..Len(z) /\ Len(mx) + (i - Len(mx)) = i
      BY <1>1, <1>4, <2>1
    <2>4. \A i \in len + r + 2..all : (mx \o z)[i] = 0
      <3> SUFFICES ASSUME NEW i \in len + r + 2..all
                   PROVE  (mx \o z)[i] = 0
        OBVIOUS
      <3>1. PICK p \in 1..Len(z) : Len(mx) + p = i
        BY <2>3
      <3> QED
        BY <1>4, <2>2, <3>1
    <2>5. \A i \in 1..len + r : (mx \o z)[i] = m[i]
      BY <1>1, <2>1, <2>2
    <2>6. (mx \o z)[len + r + 1] = x
      BY <1>1, <2>1, <2>2
    <2> QED
      BY <2>2, <2>4, <2>5, <2>6 DEF mx
  <1> HIDE DEF raw, k
  <1>7. Padded(m, x) = [i \in 1..all |-> IF i = all THEN FlipHigh(raw[all]) ELSE raw[i]]
    <2>1. all \in 1..Len(raw)
      BY <1>1, <1>6, SpongeAssumption
    <2> DEFINE y == FlipHigh(raw[all])
    <2>2. Padded(m, x) = [raw EXCEPT ![all] = y]
      BY <1>5
    <2> HIDE DEF y, all
    <2>3. [raw EXCEPT ![all] = y] = [i \in 1..Len(raw) |-> IF i = all THEN y ELSE raw[i]]
      BY <1>6, <2>1, SeqExcept
    <2>4. Padded(m, x) = [i \in 1..all |-> IF i = all THEN y ELSE raw[i]]
      BY <1>6, <2>2, <2>3
    <2> QED
      BY <2>4 DEF y
  <1>8. FlipHigh(raw[all]) \in Int /\ \A i \in 1..all : raw[i] \in Int
    <2>1. \A i \in 1..all : raw[i] \in Int
      BY <1>6
    <2>2. all \in 1..all
      BY <1>1, SpongeAssumption
    <2>3. raw[all] \in Int
      BY <2>1, <2>2
    <2> QED
      BY <2>1, <2>3, SpongeAssumption DEF FlipHigh, HighBit
  <1>9. Padded(m, x) \in Seq(Int) /\ Len(Padded(m, x)) = all
    BY <1>1, <1>7, <1>8
  <1>10. \A i \in 1..len + r : Padded(m, x)[i] = m[i]
    BY <1>1, <1>6, <1>7 DEF Offsets
  <1>11. \A i \in r..Rate - 1 : Padded(m, x)[len + i + 1] = PadByte(r, x, i)
    <2> SUFFICES ASSUME NEW i \in r..Rate - 1
                 PROVE  Padded(m, x)[len + i + 1] = PadByte(r, x, i)
      OBVIOUS
    <2> DEFINE p == len + i + 1
    <2>1. p \in 1..all /\ (p = all <=> i = Rate - 1) /\ (p = len + r + 1 <=> i = r)
      BY <1>1
    <2>2. raw[p] = IF i = r THEN x ELSE 0
      <3>1. CASE i = r
        BY <1>6, <3>1
      <3>2. CASE i # r
        <4>1. p \in len + r + 2..all
          BY <1>1, <3>2
        <4> HIDE DEF p
        <4> QED
          BY <1>6, <3>2, <4>1
      <3> QED
        BY <3>1, <3>2
    <2>3. Padded(m, x)[p] = IF p = all THEN FlipHigh(raw[p]) ELSE raw[p]
      <3> HIDE DEF p
      <3> QED
        BY <1>7, <2>1
    <2> QED
      BY <2>1, <2>2, <2>3 DEF PadByte
  <1> QED
    BY <1>9, <1>10, <1>11 DEF PaddedFrom

\* Every length is whole blocks and a rest.
LEMMA Blocks ==
    ASSUME NEW k \in Nat
    PROVE  \E len : \E r \in Offsets : Whole(len) /\ k = len + r
  <1>1. /\ k = (k \div Rate) * Rate + (k % Rate) /\ k % Rate \in Offsets
        /\ k \div Rate \in Nat
    BY SpongeAssumption DEF Offsets
  <1> QED
    BY <1>1 DEF Whole

\* A padded message is a sequence of whole blocks.
LEMMA PaddedType ==
    ASSUME NEW m \in Seq(Int), NEW x \in Int
    PROVE  Padded(m, x) \in Seq(Int)
  <1>1. Len(m) \in Nat
    OBVIOUS
  <1>2. PICK len : \E r \in Offsets : Whole(len) /\ Len(m) = len + r
    BY <1>1, Blocks
  <1> QED
    BY <1>2, PaddedIs DEF PaddedFrom

-----------------------------------------------------------------------------
(* The invariant of the sponge.                                             *)

OutByte == Seq(Int) \X Int

SpongeTypes ==
    /\ a \in Seq(Int) /\ msg \in Seq(Int) /\ todo \in Seq(Int) /\ out \in Seq(OutByte)
    /\ d \in {NoInstance} \union 1..HighBit - 1
    /\ want \in Nat /\ squeezing \in BOOLEAN
    /\ d = NoInstance => ~squeezing

\* The message is what is absorbed, what is buffered and what is still to copy.
Absorbing ==
    /\ n \in Offsets /\ Whole(Len(a)) /\ want = 0 /\ out = <<>>
    /\ Len(msg) = Len(a) + n + Len(todo)
    /\ \A i \in 1..Len(a) : a[i] = msg[i]
    /\ \A i \in 0..n - 1 : buf[i] = msg[Len(a) + i + 1]
    /\ \A i \in 1..Len(todo) : todo[i] = msg[Len(a) + n + i]

\* The state is the padded message and a block of zeros per block read before.
Squeezing ==
    /\ todo = <<>> /\ n \in 0..Rate
    /\ \E len : /\ Whole(len) /\ Len(out) = len + n
                /\ a = Padded(msg, d) \o Zeros(len)
                /\ buf = fillBuf(a)

SpongeInv ==
    /\ SpongeTypes
    /\ ~squeezing => Absorbing
    /\ squeezing => Squeezing
    /\ StreamExact

\* A new instance.
LEMMA NewKeeps ==
    ASSUME SpongeInv, d = NoInstance, d' \in 1..HighBit - 1,
           UNCHANGED <<a, buf, n, squeezing, todo, want, msg, out>>
    PROVE  SpongeInv'
  <1>1. SpongeTypes /\ ~squeezing /\ Absorbing
    BY DEF SpongeInv, SpongeTypes
  <1>2. SpongeTypes'
    BY <1>1 DEF SpongeTypes
  <1>3. Absorbing'
    BY <1>1 DEF Absorbing
  <1>4. StreamExact'
    BY <1>1 DEF Absorbing, StreamExact
  <1> QED
    BY <1>1, <1>2, <1>3, <1>4 DEF SpongeInv

\* Write takes a slice over.
LEMMA WriteKeeps ==
    ASSUME SpongeInv, NEW p \in Seq(Int), Write(p)
    PROVE  SpongeInv'
  <1>1. /\ SpongeTypes /\ ~squeezing /\ Absorbing /\ todo = <<>>
        /\ todo' = p /\ msg' = msg \o p
        /\ UNCHANGED <<a, buf, n, d, squeezing, want, out>>
    BY DEF SpongeInv, Write, Ready
  <1>2. /\ msg' \in Seq(Int) /\ Len(msg') = Len(msg) + Len(p)
        /\ \A i \in 1..Len(msg) : msg'[i] = msg[i]
        /\ \A i \in 1..Len(p) : msg'[Len(msg) + i] = p[i]
    BY <1>1, Concat DEF SpongeTypes
  <1>3. SpongeTypes'
    BY <1>1, <1>2 DEF SpongeTypes
  <1>4. Len(msg) = Len(a) + n /\ Len(a) \in Nat /\ n \in Nat /\ n < Rate /\ Len(p) \in Nat
    <2>1. Len(todo) = 0
      BY <1>1
    <2> QED
      BY <1>1, <2>1, SpongeAssumption DEF Absorbing, SpongeTypes, Offsets
  <1>5. Absorbing'
    <2>1. Len(msg') = Len(a') + n' + Len(todo')
      BY <1>1, <1>2, <1>4
    <2>2. \A i \in 1..Len(a) : a[i] = msg'[i]
      BY <1>1, <1>2, <1>4 DEF Absorbing
    <2>3. \A i \in 0..n - 1 : buf[i] = msg'[Len(a) + i + 1]
      BY <1>1, <1>2, <1>4 DEF Absorbing
    <2>4. \A i \in 1..Len(todo') : todo'[i] = msg'[Len(a) + n + i]
      BY <1>1, <1>2, <1>4
    <2> QED
      BY <1>1, <2>1, <2>2, <2>3, <2>4 DEF Absorbing
  <1>6. StreamExact'
    BY <1>1 DEF Absorbing, StreamExact
  <1> QED
    BY <1>1, <1>3, <1>5, <1>6 DEF SpongeInv

\* A block of a buffer that holds integers.
LEMMA BlockIs ==
    ASSUME NEW b, \A i \in Offsets : b[i] \in Int
    PROVE  /\ Block(b) \in Seq(Int) /\ Len(Block(b)) = Rate
           /\ \A i \in 1..Rate : Block(b)[i] = b[i - 1]
  <1>1. \A i \in 1..Rate : i - 1 \in Offsets
    BY SpongeAssumption DEF Offsets
  <1> QED
    BY <1>1, SpongeAssumption DEF Block

\* One round of Write's loop.
LEMMA CopyInKeeps ==
    ASSUME SpongeInv, CopyIn
    PROVE  SpongeInv'
  <1> DEFINE L    == Len(todo)
             A    == Len(a)
             c    == Lesser(Rate - n, L)
             full == [i \in Offsets |-> IF i \in n..n + c - 1 THEN todo[i - n + 1] ELSE buf[i]]
  <1>1. /\ SpongeTypes /\ ~squeezing /\ Absorbing /\ todo # <<>>
        /\ d' = d /\ squeezing' = squeezing /\ want' = want /\ msg' = msg /\ out' = out
    BY DEF SpongeInv, Squeezing, CopyIn
  <1>0. /\ buf' = full /\ todo' = SubSeq(todo, c + 1, L)
        /\ \/ n + c = Rate /\ a' = a \o Block(full) /\ n' = 0
           \/ n + c # Rate /\ n' = n + c /\ a' = a
    BY DEF CopyIn, absorbBuf
  <1>2. /\ A \in Nat /\ L \in Nat /\ L > 0 /\ n \in Nat /\ n < Rate /\ Rate \in Nat
        /\ Len(msg) = A + n + L
    BY <1>1, SpongeAssumption DEF Absorbing, SpongeTypes, Offsets
  <1>3. c \in Nat /\ c >= 1 /\ c =< L /\ n + c =< Rate
    BY <1>2 DEF Lesser
  <1> HIDE DEF c
  <1>4. todo' \in Seq(Int) /\ Len(todo') = L - c /\ \A i \in 1..L - c : todo'[i] = todo[c + i]
    <2>1. todo \in Seq(Int)
      BY <1>1 DEF SpongeTypes
    <2> QED
      BY <1>0, <1>2, <1>3, <2>1
  <1>5. \A i \in 0..n + c - 1 : full[i] = msg[A + i + 1]
    <2> SUFFICES ASSUME NEW i \in 0..n + c - 1
                 PROVE  full[i] = msg[A + i + 1]
      OBVIOUS
    <2>1. i \in Offsets
      BY <1>2, <1>3 DEF Offsets
    <2>2. CASE i < n
      <3>1. full[i] = buf[i] /\ i \in 0..n - 1
        BY <1>2, <1>3, <2>1, <2>2
      <3> QED
        BY <1>1, <3>1 DEF Absorbing
    <2>3. CASE i >= n
      <3>1. full[i] = todo[i - n + 1] /\ i - n + 1 \in 1..L
        BY <1>2, <1>3, <2>1, <2>3
      <3>2. todo[i - n + 1] = msg[A + n + (i - n + 1)]
        BY <1>1, <3>1 DEF Absorbing
      <3>3. A + n + (i - n + 1) = A + i + 1
        BY <1>2
      <3> QED
        BY <3>1, <3>2, <3>3
    <2> QED
      BY <1>2, <2>2, <2>3
  <1>6. \A i \in 1..L - c : todo'[i] = msg[A + (n + c) + i]
    <2> SUFFICES ASSUME NEW i \in 1..L - c
                 PROVE  todo'[i] = msg[A + (n + c) + i]
      OBVIOUS
    <2>1. todo'[i] = todo[c + i] /\ c + i \in 1..L
      BY <1>2, <1>3, <1>4
    <2>2. todo[c + i] = msg[A + n + (c + i)]
      BY <1>1, <2>1 DEF Absorbing
    <2>3. A + n + (c + i) = A + (n + c) + i
      BY <1>2, <1>3
    <2> QED
      BY <2>1, <2>2, <2>3
  <1>7. \A i \in 1..Len(msg) : msg[i] \in Int
    BY <1>1 DEF SpongeTypes
  <1> HIDE DEF full, L
  <1>8. CASE n + c = Rate
    <2>1. a' = a \o Block(full) /\ n' = 0
      BY <1>0, <1>8
    <2>2. \A i \in Offsets : full[i] \in Int /\ full[i] = msg[A + i + 1]
      <3> SUFFICES ASSUME NEW i \in Offsets
                   PROVE  full[i] \in Int /\ full[i] = msg[A + i + 1]
        OBVIOUS
      <3>1. i \in 0..n + c - 1 /\ A + i + 1 \in 1..Len(msg)
        BY <1>2, <1>3, <1>8 DEF Offsets
      <3> QED
        BY <1>5, <1>7, <3>1
    <2>3. /\ Block(full) \in Seq(Int) /\ Len(Block(full)) = Rate
          /\ \A i \in 1..Rate : Block(full)[i] = full[i - 1]
      BY <2>2, BlockIs
    <2>4. /\ a' \in Seq(Int) /\ Len(a') = A + Rate
          /\ \A i \in 1..A : a'[i] = a[i]
          /\ \A i \in 1..Rate : a'[A + i] = Block(full)[i]
      <3> DEFINE B == Block(full)
      <3>1. a \in Seq(Int) /\ B \in Seq(Int) /\ Len(B) = Rate /\ a' = a \o B
        BY <1>1, <2>1, <2>3 DEF SpongeTypes
      <3> HIDE DEF B
      <3>2. /\ a \o B \in Seq(Int) /\ Len(a \o B) = Len(a) + Len(B)
            /\ \A i \in 1..Len(a) : (a \o B)[i] = a[i]
            /\ \A i \in 1..Len(B) : (a \o B)[Len(a) + i] = B[i]
        BY <3>1, Concat
      <3> QED
        BY <3>1, <3>2 DEF B
    <2>5. \A i \in 1..A + Rate : a'[i] = msg[i]
      <3> SUFFICES ASSUME NEW i \in 1..A + Rate
                   PROVE  a'[i] = msg[i]
        OBVIOUS
      <3>1. CASE i =< A
        <4>1. i \in 1..A
          BY <1>2, <3>1
        <4>2. a[i] = msg[i]
          BY <1>1, <4>1 DEF Absorbing
        <4> QED
          BY <2>4, <4>1, <4>2
      <3>2. CASE i > A
        <4>1. PICK k \in 1..Rate : i = A + k /\ k - 1 \in Offsets
          <5>1. i - A \in 1..Rate /\ i = A + (i - A) /\ (i - A) - 1 \in Offsets
            BY <1>2, <3>2 DEF Offsets
          <5> QED
            BY <5>1
        <4>2. a'[i] = full[k - 1]
          BY <2>3, <2>4, <4>1
        <4>3. full[k - 1] = msg[A + (k - 1) + 1] /\ A + (k - 1) + 1 = i
          BY <1>2, <2>2, <4>1
        <4> QED
          BY <4>2, <4>3
      <3> QED
        BY <1>2, <3>1, <3>2
    <2>6. Whole(Len(a'))
      BY <1>1, <2>4, WholeAdd DEF Absorbing
    <2>7. \A i \in 1..Len(todo') : todo'[i] = msg'[Len(a') + n' + i]
      <3>1. A + (n + c) = Len(a') + n'
        BY <1>2, <1>3, <1>8, <2>1, <2>4
      <3> QED
        BY <1>1, <1>4, <1>6, <3>1
    <2>8. n' \in Offsets /\ Len(msg') = Len(a') + n' + Len(todo')
      <3>1. Len(msg') = A + n + L
        BY <1>1, <1>2
      <3>2. A + n + L = (A + Rate) + 0 + (L - c)
        BY <1>2, <1>3, <1>8
      <3>3. 0 \in Offsets
        BY SpongeAssumption DEF Offsets
      <3> QED
        BY <1>4, <2>1, <2>4, <3>1, <3>2, <3>3
    <2>9. Absorbing'
      BY <1>1, <2>1, <2>4, <2>5, <2>6, <2>7, <2>8 DEF Absorbing
    <2>10. SpongeTypes'
      BY <1>1, <1>4, <2>4 DEF SpongeTypes
    <2> QED
      BY <1>1, <2>9, <2>10 DEF SpongeInv, Absorbing, StreamExact
  <1>9. CASE n + c # Rate
    <2>1. a' = a /\ n' = n + c
      BY <1>0, <1>9
    <2>2. n' \in Offsets /\ Len(msg') = Len(a') + n' + Len(todo')
      <3>1. Len(msg') = A + n + L
        BY <1>1, <1>2
      <3>2. A + n + L = A + (n + c) + (L - c) /\ n + c \in Offsets
        BY <1>2, <1>3, <1>9 DEF Offsets
      <3> QED
        BY <1>4, <2>1, <3>1, <3>2
    <2>3. \A i \in 1..Len(todo') : todo'[i] = msg'[Len(a') + n' + i]
      BY <1>1, <1>4, <1>6, <2>1
    <2>4. \A i \in 0..n' - 1 : buf'[i] = msg'[Len(a') + i + 1]
      <3>1. buf' = full
        BY <1>0
      <3>2. n' - 1 = n + c - 1
        BY <1>2, <1>3, <2>1
      <3> QED
        BY <1>1, <1>5, <2>1, <3>1, <3>2
    <2>5. Absorbing'
      BY <1>1, <2>1, <2>2, <2>3, <2>4 DEF Absorbing
    <2>6. SpongeTypes'
      BY <1>1, <1>4, <2>1 DEF SpongeTypes
    <2> QED
      BY <1>1, <2>5, <2>6 DEF SpongeInv, Absorbing, StreamExact
  <1> QED
    BY <1>8, <1>9

\* The bytes of the state that a block hands out.
LEMMA FillBufIs ==
    ASSUME NEW s \in Seq(Int), NEW i \in Offsets
    PROVE  fillBuf(s)[i] = <<s, i>> /\ fillBuf(s)[i] \in OutByte
  BY SpongeAssumption DEF fillBuf, Offsets, OutByte

\* Output that is continued.
LEMMA ConcatOut ==
    ASSUME NEW s \in Seq(OutByte), NEW t \in Seq(OutByte)
    PROVE  /\ s \o t \in Seq(OutByte)
           /\ Len(s \o t) = Len(s) + Len(t)
           /\ \A i \in 1..Len(s) : (s \o t)[i] = s[i]
           /\ \A i \in 1..Len(t) : (s \o t)[Len(s) + i] = t[i]
  OBVIOUS

\* Output given by its bytes.
LEMMA TabledOut ==
    ASSUME NEW k \in Nat, NEW f, f = [i \in 1..k |-> f[i]], \A i \in 1..k : f[i] \in OutByte
    PROVE  f \in Seq(OutByte) /\ Len(f) = k
  OBVIOUS

\* The first Read pads the message: the last block and what was absorbed before
\* are the padded message.
LEMMA PadsMessage ==
    ASSUME SpongeTypes, Absorbing, todo = <<>>, d # NoInstance
    PROVE  a \o Block(PaddedBlock(buf, n, d)) = Padded(msg, d)
  <1> DEFINE A   == Len(a)
             blk == PaddedBlock(buf, n, d)
             pad == Padded(msg, d)
  <1>1. /\ A \in Nat /\ n \in Offsets /\ n \in Nat /\ n < Rate /\ Rate \in Nat
        /\ Whole(A) /\ Len(msg) = A + n /\ d \in Int /\ msg \in Seq(Int)
    <2>1. Len(todo) = 0
      OBVIOUS
    <2> QED
      BY <2>1, SpongeAssumption DEF SpongeTypes, Absorbing, Offsets, HighBit
  <1>2. /\ pad \in Seq(Int) /\ Len(pad) = A + Rate
        /\ \A i \in 1..A + n : pad[i] = msg[i]
        /\ \A i \in n..Rate - 1 : pad[A + i + 1] = PadByte(n, d, i)
    <2>1. PaddedFrom(pad, msg, d, A, n)
      BY <1>1, PaddedIs
    <2> QED
      BY <2>1 DEF PaddedFrom
  <1>3. \A i \in Offsets : blk[i] = IF i < n THEN buf[i] ELSE PadByte(n, d, i)
    BY <1>1, PaddedBlockAt, Zenon
  <1> HIDE DEF blk, pad
  <1>4. \A i \in Offsets : blk[i] = pad[A + i + 1] /\ blk[i] \in Int
    <2> SUFFICES ASSUME NEW i \in Offsets
                 PROVE  blk[i] = pad[A + i + 1] /\ blk[i] \in Int
      OBVIOUS
    <2>1. A + i + 1 \in 1..Len(pad) /\ i \in 0..Rate - 1 /\ i \in Nat
      BY <1>1, <1>2 DEF Offsets
    <2>2. pad[A + i + 1] \in Int
      BY <1>2, <2>1
    <2>3. CASE i < n
      <3>1. i \in 0..n - 1 /\ A + i + 1 \in 1..A + n
        BY <1>1, <2>1, <2>3
      <3>2. blk[i] = msg[A + i + 1]
        BY <1>3, <2>3, <3>1 DEF Absorbing
      <3> QED
        BY <1>2, <2>2, <3>1, <3>2
    <2>4. CASE i >= n
      <3>1. i \in n..Rate - 1
        BY <1>1, <2>1, <2>4
      <3> QED
        BY <1>1, <1>2, <1>3, <2>1, <2>2, <2>4, <3>1
    <2> QED
      BY <1>1, <2>1, <2>3, <2>4
  <1>5. /\ Block(blk) \in Seq(Int) /\ Len(Block(blk)) = Rate
        /\ \A i \in 1..Rate : Block(blk)[i] = blk[i - 1]
    BY <1>4, BlockIs
  <1> DEFINE new == a \o Block(blk)
  <1>6. /\ new \in Seq(Int) /\ Len(new) = A + Rate
        /\ \A i \in 1..A : new[i] = a[i]
        /\ \A i \in 1..Rate : new[A + i] = Block(blk)[i]
    BY <1>5, Concat DEF SpongeTypes
  <1> HIDE DEF new
  <1>7. \A i \in 1..A + Rate : new[i] = pad[i]
    <2> SUFFICES ASSUME NEW i \in 1..A + Rate
                 PROVE  new[i] = pad[i]
      OBVIOUS
    <2>1. CASE i =< A
      <3>1. i \in 1..A /\ i \in 1..A + n
        BY <1>1, <2>1
      <3> QED
        BY <1>2, <1>6, <3>1 DEF Absorbing
    <2>2. CASE i > A
      <3>1. PICK k \in 1..Rate : i = A + k /\ k - 1 \in Offsets /\ A + (k - 1) + 1 = i
        <4>1. i - A \in 1..Rate /\ i = A + (i - A) /\ (i - A) - 1 \in Offsets
              /\ A + ((i - A) - 1) + 1 = i
          BY <1>1, <2>2 DEF Offsets
        <4> QED
          BY <4>1
      <3>2. new[i] = Block(blk)[k] /\ Block(blk)[k] = blk[k - 1]
        BY <1>5, <1>6, <3>1
      <3>3. blk[k - 1] = pad[A + (k - 1) + 1]
        BY <1>4, <3>1
      <3> QED
        BY <3>1, <3>2, <3>3
    <2> QED
      BY <1>1, <2>1, <2>2
  <1>8. new = pad
    BY <1>2, <1>6, <1>7, SameSeq
  <1> QED
    BY <1>8 DEF new, blk, pad

\* A Read that finds the sponge absorbing ends the message.
LEMMA ReadKeeps ==
    ASSUME SpongeInv, NEW k \in Nat, Read(k)
    PROVE  SpongeInv'
  <1>1. /\ SpongeTypes /\ StreamExact /\ d # NoInstance /\ todo = <<>>
        /\ want' = k /\ squeezing' = TRUE
        /\ d' = d /\ todo' = todo /\ msg' = msg /\ out' = out
    BY DEF SpongeInv, Read, Ready
  <1>2. StreamExact'
    BY <1>1 DEF StreamExact
  <1>3. CASE squeezing
    <2>1. Squeezing /\ a' = a /\ buf' = buf /\ n' = n
      BY <1>3 DEF SpongeInv, Read
    <2>2. Squeezing'
      BY <1>1, <2>1 DEF Squeezing
    <2>3. SpongeTypes'
      BY <1>1, <2>1 DEF SpongeTypes
    <2> QED
      BY <1>1, <1>2, <2>2, <2>3 DEF SpongeInv
  <1>4. CASE ~squeezing
    <2>1. /\ Absorbing /\ a' = a \o Block(PaddedBlock(buf, n, d))
          /\ buf' = fillBuf(a') /\ n' = 0
      BY <1>1, <1>4 DEF SpongeInv, Read, absorbBuf, SpongeTypes
    <2>2. a' = Padded(msg, d)
      BY <1>1, <2>1, PadsMessage
    <2>3. a' \in Seq(Int)
      <3>1. msg \in Seq(Int) /\ d \in Int
        BY <1>1, SpongeAssumption DEF SpongeTypes, HighBit, NoInstance
      <3> QED
        BY <2>2, <3>1, PaddedType
    <2>4. a' = a' \o Zeros(0)
      <3>1. Zeros(0) = <<>>
        BY DEF Zeros
      <3> QED
        BY <2>3, <3>1
    <2>5. a' = Padded(msg', d') \o Zeros(0)
      BY <1>1, <2>2, <2>4
    <2>6. Len(out') = 0 + n' /\ n' \in 0..Rate
      BY <1>1, <2>1, SpongeAssumption DEF Absorbing
    <2>7. Squeezing'
      BY <1>1, <2>1, <2>5, <2>6, WholeZero DEF Squeezing
    <2>8. SpongeTypes'
      BY <1>1, <2>3 DEF SpongeTypes
    <2> QED
      BY <1>1, <1>2, <2>7, <2>8 DEF SpongeInv
  <1> QED
    BY <1>1, <1>3, <1>4 DEF SpongeTypes

\* Bytes m, m + 1, ... of a block are the next bytes of the stream.
LEMMA StreamGrows ==
    ASSUME StreamExact, out \in Seq(OutByte), NEW s \in Seq(Int), NEW len, Whole(len),
           s = Padded(msg, d) \o Zeros(len), NEW m \in Offsets, Len(out) = len + m,
           NEW c \in 0..Rate - m, NEW b, b = fillBuf(s), msg' = msg, d' = d,
           out' = out \o [i \in 1..c |-> b[m + i - 1]]
    PROVE  /\ out' \in Seq(OutByte) /\ Len(out') = len + (m + c) /\ StreamExact'
           /\ \A i \in 1..Len(out) : out'[i] = out[i]
  <1> DEFINE g == [i \in 1..c |-> b[m + i - 1]]
  <1>1. len \in Nat /\ m \in Nat /\ c \in Nat /\ m + c =< Rate /\ Rate \in Nat
    BY WholeAdd, SpongeAssumption DEF Offsets
  <1>2. \A i \in 1..c : m + i - 1 \in Offsets
    BY <1>1 DEF Offsets
  <1>3. \A i \in 1..c : g[i] = <<s, m + i - 1>> /\ g[i] \in OutByte
    BY <1>2, FillBufIs
  <1>4. g = [i \in 1..c |-> g[i]]
    OBVIOUS
  <1> HIDE DEF g
  <1>0. g \in Seq(OutByte) /\ Len(g) = c
    BY <1>1, <1>3, <1>4, TabledOut
  <1>5. /\ out' \in Seq(OutByte) /\ Len(out') = Len(out) + c
        /\ \A i \in 1..Len(out) : out'[i] = out[i]
        /\ \A i \in 1..c : out'[Len(out) + i] = g[i]
    <2>1. out' = out \o g
      BY DEF g
    <2> DEFINE o == out \o g
    <2>2. /\ o \in Seq(OutByte) /\ Len(o) = Len(out) + Len(g)
          /\ \A i \in 1..Len(out) : o[i] = out[i]
          /\ \A i \in 1..Len(g) : o[Len(out) + i] = g[i]
      BY <1>0, ConcatOut
    <2>3. out' = o
      BY <2>1
    <2> HIDE DEF o
    <2> QED
      BY <1>0, <2>2, <2>3
  <1>6. Len(out') = len + (m + c)
    BY <1>1, <1>5
  <1>7. ASSUME NEW k \in 1..Len(out')
        PROVE  out'[k] = StreamByte(msg, d, k)
    <2>1. CASE k =< Len(out)
      BY <1>1, <1>5, <2>1 DEF StreamExact
    <2>2. CASE k > Len(out)
      <3>1. PICK i \in 1..c : k = Len(out) + i /\ k - 1 = len + (m + i - 1)
        <4>1. /\ k - Len(out) \in 1..c /\ k = Len(out) + (k - Len(out))
              /\ k - 1 = len + (m + (k - Len(out)) - 1)
          BY <1>1, <1>6, <2>2
        <4> QED
          BY <4>1
      <3>2. m + i - 1 \in Offsets
        BY <1>2
      <3>3. (k - 1) % Rate = m + i - 1 /\ ((k - 1) \div Rate) * Rate = len
        BY <3>1, <3>2, WholeMod
      <3>4. StreamByte(msg, d, k) = <<s, m + i - 1>>
        BY <3>3 DEF StreamByte
      <3> QED
        BY <1>3, <1>5, <3>1, <3>4
    <2> QED
      BY <1>1, <2>1, <2>2
  <1> QED
    BY <1>5, <1>6, <1>7 DEF StreamExact

\* Output is only appended, and what is appended was wanted.
Longer ==
    /\ out \in Seq(OutByte) /\ out' \in Seq(OutByte) /\ want' \in Nat
    /\ Len(out) =< Len(out') /\ Len(out') + want' = Len(out) + want
    /\ \A i \in 1..Len(out) : out'[i] = out[i]

\* One round of Read's loop.
LEMMA CopyOutKeeps ==
    ASSUME SpongeInv, CopyOut
    PROVE  SpongeInv' /\ Longer
  <1> DEFINE fresh == n = Rate
             s     == IF fresh THEN a \o Zeros(Rate) ELSE a
             b     == IF fresh THEN fillBuf(s) ELSE buf
             m     == IF fresh THEN 0 ELSE n
             c     == Lesser(Rate - m, want)
  <1>1. /\ SpongeTypes /\ StreamExact /\ squeezing /\ Squeezing /\ d # NoInstance /\ want > 0
        /\ d' = d /\ squeezing' = squeezing /\ todo' = todo /\ msg' = msg
    BY DEF SpongeInv, SpongeTypes, Absorbing, CopyOut
  <1>2. /\ a' = s /\ buf' = b /\ n' = m + c /\ want' = want - c
        /\ out' = out \o [i \in 1..c |-> b[m + i - 1]]
    BY DEF CopyOut
  <1>3. PICK len : /\ Whole(len) /\ Len(out) = len + n
                   /\ a = Padded(msg, d) \o Zeros(len)
                   /\ buf = fillBuf(a)
    BY <1>1 DEF Squeezing
  <1>4. /\ msg \in Seq(Int) /\ d \in Int /\ a \in Seq(Int) /\ out \in Seq(OutByte)
        /\ want \in Nat /\ Rate \in Nat /\ Rate > 0 /\ n \in 0..Rate /\ len \in Nat
    BY <1>1, <1>3, WholeAdd, SpongeAssumption DEF SpongeTypes, Squeezing, HighBit, NoInstance
  <1>5. \E l : /\ Whole(l) /\ Len(out) = l + m /\ m \in Offsets
               /\ s = Padded(msg, d) \o Zeros(l) /\ b = fillBuf(s) /\ s \in Seq(Int)
    <2>1. CASE fresh
      <3>1. Zeros(len) \in Seq(Int) /\ Zeros(Rate) \in Seq(Int) /\ Padded(msg, d) \in Seq(Int)
        BY <1>4, ZerosAre, PaddedType
      <3>2. s = Padded(msg, d) \o (Zeros(len) \o Zeros(Rate)) /\ s \in Seq(Int)
        <4>1. s = (Padded(msg, d) \o Zeros(len)) \o Zeros(Rate)
          BY <1>3, <2>1
        <4>2. s = a \o Zeros(Rate)
          BY <2>1
        <4> HIDE DEF s
        <4>3. s \in Seq(Int)
          BY <1>4, <3>1, <4>2, Concat
        <4>4. (Padded(msg, d) \o Zeros(len)) \o Zeros(Rate)
                 = Padded(msg, d) \o (Zeros(len) \o Zeros(Rate))
          BY <3>1, ConcatAssoc, Zenon
        <4> QED
          BY <4>1, <4>3, <4>4, Zenon
      <3>3. s = Padded(msg, d) \o Zeros(len + Rate)
        BY <1>4, <3>2, ZerosAdd
      <3>4. Whole(len + Rate)
        BY <1>3, WholeAdd
      <3>5. m = 0 /\ m \in Offsets /\ Len(out) = (len + Rate) + m /\ b = fillBuf(s)
        BY <1>3, <1>4, <2>1 DEF Offsets
      <3> QED
        BY <3>2, <3>3, <3>4, <3>5
    <2>2. CASE ~fresh
      <3>1. m = n /\ m \in Offsets /\ s = a /\ b = buf
        BY <1>4, <2>2 DEF Offsets
      <3> QED
        BY <1>3, <1>4, <3>1
    <2> QED
      BY <2>1, <2>2
  <1> HIDE DEF fresh, s, b, m
  <1>6. PICK l : /\ Whole(l) /\ Len(out) = l + m /\ m \in Offsets
                 /\ s = Padded(msg, d) \o Zeros(l) /\ b = fillBuf(s) /\ s \in Seq(Int)
    BY <1>5
  <1>7. c \in 0..Rate - m /\ c =< want /\ m + c \in 0..Rate
    BY <1>4, <1>6 DEF Lesser, Offsets
  <1> HIDE DEF c
  <1>8. out' \in Seq(OutByte) /\ Len(out') = l + (m + c) /\ StreamExact'
    BY <1>1, <1>2, <1>4, <1>6, <1>7, StreamGrows
  <1>9. want' \in Nat
    BY <1>2, <1>4, <1>7
  <1>0. Longer
    <2>1. \A i \in 1..Len(out) : out'[i] = out[i]
      BY <1>1, <1>2, <1>4, <1>6, <1>7, StreamGrows
    <2>2. l \in Nat
      BY <1>6, WholeAdd
    <2>3. m \in Nat /\ c \in Nat
      BY <1>4, <1>6, <1>7 DEF Offsets
    <2>4. Len(out) =< Len(out') /\ Len(out') + want' = Len(out) + want
      <3>1. Len(out) = l + m /\ Len(out') = l + (m + c) /\ want' = want - c /\ want \in Nat
        BY <1>2, <1>4, <1>6, <1>8
      <3> QED
        BY <2>2, <2>3, <3>1
    <2> QED
      BY <1>4, <1>8, <1>9, <2>1, <2>4 DEF Longer
  <1>10. SpongeTypes'
    BY <1>1, <1>2, <1>6, <1>8, <1>9 DEF SpongeTypes
  <1>11. Squeezing'
    <2>1. n' \in 0..Rate /\ Len(out') = l + n' /\ a' = Padded(msg', d') \o Zeros(l)
          /\ buf' = fillBuf(a') /\ todo' = <<>>
      <3>1. todo = <<>>
        BY <1>1 DEF Squeezing
      <3> QED
        BY <1>1, <1>2, <1>6, <1>7, <1>8, <3>1
    <2> QED
      BY <1>6, <2>1 DEF Squeezing
  <1> QED
    BY <1>0, <1>1, <1>8, <1>10, <1>11 DEF SpongeInv

-----------------------------------------------------------------------------
(* The XOF on top of the sponge.                                            *)

\* The slices and the records of callers consist of bytes.
LEMMA BytesAreInts == Seq(Byte) \subseteq Seq(Int)
  <1> SUFFICES ASSUME NEW s \in Seq(Byte)
               PROVE  s \in Seq(Int)
    OBVIOUS
  <1>1. Len(s) \in Nat /\ s = [i \in 1..Len(s) |-> s[i]] /\ \A i \in 1..Len(s) : s[i] \in Byte
    OBVIOUS
  <1>2. \A i \in 1..Len(s) : s[i] \in Int
    BY <1>1 DEF Byte
  <1> QED
    BY <1>1, <1>2

\* The part of the tag that every derivation has.
LEMMA ClassType == <<Version, algoClassVDAF>> \o be32(Algorithm) \in Seq(Int)
  <1>1. \A x \in Nat : be16(x) \in Seq(Int)
    BY SpongeAssumption DEF be16
  <1>2. Radix * Radix \in Nat /\ Radix * Radix > 0
    BY SpongeAssumption
  <1>3. Algorithm \div (Radix * Radix) \in Nat /\ Algorithm \in Nat
    BY <1>2, XofAssumption
  <1>4. be32(Algorithm) \in Seq(Int)
    BY <1>1, <1>3, Concat DEF be32
  <1>5. <<Version, algoClassVDAF>> \in Seq(Int)
    BY XofAssumption DEF Byte, algoClassVDAF
  <1> QED
    BY <1>4, <1>5, Concat

\* The domain separation tag is a byte string.
LEMMA TagType ==
    ASSUME NEW usage \in Nat, NEW ctx \in Seq(Int)
    PROVE  DomainSeparationTag(usage, ctx) \in Seq(Int)
  <1>1. \A x \in Nat : be16(x) \in Seq(Int)
    BY SpongeAssumption DEF be16
  <1>2. FormatDST(algoClassVDAF, Algorithm, usage) \in Seq(Int)
    BY <1>1, ClassType, Concat DEF FormatDST
  <1> QED
    BY <1>2, Concat DEF DomainSeparationTag

Tag(o) == DomainSeparationTag(o.usage, o.ctx)

Input(o) == XofInput(o.seed, Tag(o), o.binder)

\* An origin is made of byte strings, and so is the input New writes for it.
LEMMA InputType ==
    ASSUME NEW o \in Origins
    PROVE  /\ o.seed \in Seq(Int) /\ o.ctx \in Seq(Int) /\ o.binder \in Seq(Int)
           /\ o.usage \in Nat /\ o.usage < Radix * Radix /\ Tag(o) \in Seq(Int)
           /\ Input(o) \in Seq(Seq(Int)) /\ Len(Input(o)) = 5
           /\ Input(o)[1] = le16(Len(Tag(o))) /\ Input(o)[2] = Tag(o)
           /\ Input(o)[3] = le8(Len(o.seed)) /\ Input(o)[4] = o.seed
           /\ Input(o)[5] = o.binder
  <1>1. Radix * Radix \in Nat
    BY SpongeAssumption
  <1>2. /\ o.seed \in Seq(Int) /\ o.ctx \in Seq(Int) /\ o.binder \in Seq(Int)
        /\ o.usage \in Nat /\ o.usage < Radix * Radix
    BY <1>1, XofAssumption, BytesAreInts
  <1>3. Tag(o) \in Seq(Int)
    BY <1>2, TagType DEF Tag
  <1>4. \A x \in Nat : le16(x) \in Seq(Int) /\ le8(x) \in Seq(Int)
    BY SpongeAssumption DEF le16, le8
  <1>5. Len(Tag(o)) \in Nat /\ Len(o.seed) \in Nat
    BY <1>2, <1>3
  <1>6. le16(Len(Tag(o))) \in Seq(Int) /\ le8(Len(o.seed)) \in Seq(Int)
    BY <1>4, <1>5
  <1> DEFINE T == Tag(o)
             p == le16(Len(T))
             q == le8(Len(o.seed))
  <1> HIDE DEF T, p, q
  <1>7. Input(o) = <<p, T, q, o.seed, o.binder>>
    BY DEF Input, XofInput, T, p, q
  <1>8. p \in Seq(Int) /\ T \in Seq(Int) /\ q \in Seq(Int)
    BY <1>3, <1>6 DEF T, p, q
  <1>9. /\ Input(o) \in Seq(Seq(Int)) /\ Len(Input(o)) = 5
        /\ Input(o)[1] = p /\ Input(o)[2] = T /\ Input(o)[3] = q
        /\ Input(o)[4] = o.seed /\ Input(o)[5] = o.binder
    BY <1>2, <1>7, <1>8
  <1> QED
    BY <1>2, <1>3, <1>9 DEF T, p, q

\* The first k of five slices in one piece.
Written(ss, k) ==
    IF k = 0 THEN <<>>
    ELSE IF k = 1 THEN ss[1]
    ELSE IF k = 2 THEN ss[1] \o ss[2]
    ELSE IF k = 3 THEN ss[1] \o ss[2] \o ss[3]
    ELSE IF k = 4 THEN ss[1] \o ss[2] \o ss[3] \o ss[4]
    ELSE ss[1] \o ss[2] \o ss[3] \o ss[4] \o ss[5]

\* New has written the first k slices of its input, and holds the others.
Progress(o, k) ==
    /\ Len(pieces) = 5 - k
    /\ \A i \in 1..5 - k : pieces[i] = Input(o)[k + i]
    /\ msg = Written(Input(o), k)

InputInv ==
    /\ pieces \in Seq(Seq(Int))
    /\ d = NoInstance => msg = <<>>
    /\ origin # <<>> => /\ origin \in Origins /\ Accepts(origin.seed, Tag(origin))
                        /\ \E k \in 0..5 : Progress(origin, k)

\* A step of the XOF is a step of the sponge, or none.
LEMMA SpongeNext ==
    ASSUME SpongeInv, InputInv, [Next]_vars
    PROVE  SpongeInv'
  <1>1. CASE UNCHANGED spongeVars
    BY <1>1 DEF spongeVars, SpongeInv, SpongeTypes, Absorbing, Squeezing, StreamExact
  <1>2. CASE UNCHANGED vars
    BY <1>1, <1>2 DEF vars, spongeVars
  <1>3. ASSUME NEW x \in Byte, DirectNew(x)
        PROVE  SpongeInv'
    <2>1. x \in 1..HighBit - 1
      BY <1>3, SpongeAssumption DEF DirectNew, New128, Byte, HighBit
    <2> QED
      BY <1>3, <2>1, NewKeeps DEF DirectNew, New128
  <1>4. ASSUME NEW o \in Origins, New(o)
        PROVE  SpongeInv'
    <2>1. 1 \in 1..HighBit - 1
      BY SpongeAssumption DEF HighBit
    <2> QED
      BY <1>4, <2>1, NewKeeps DEF New
  <1>5. ASSUME NEW p \in Pieces, DirectWrite(p)
        PROVE  SpongeInv'
    <2>1. p \in Seq(Int)
      BY SpongeAssumption, BytesAreInts
    <2> QED
      BY <1>5, <2>1, WriteKeeps DEF DirectWrite
  <1>6. CASE WritePiece
    <2>1. Head(pieces) \in Seq(Int)
      BY <1>6 DEF WritePiece, InputInv
    <2> QED
      BY <1>6, <2>1, WriteKeeps DEF WritePiece
  <1>7. ASSUME NEW k \in Reads, NextBytes(k)
        PROVE  SpongeInv'
    BY <1>7, ReadKeeps, SpongeAssumption DEF NextBytes
  <1>8. CASE ReadWord
    BY <1>8, ReadKeeps, XofAssumption DEF ReadWord
  <1>9. CASE TakeWord \/ \E length \in Lengths : NextVecField64(length)
    BY <1>1, <1>9 DEF TakeWord, NextVecField64
  <1>10. CASE Loop
    BY <1>10, CopyInKeeps, CopyOutKeeps DEF Loop
  <1> QED
    BY <1>2, <1>3, <1>4, <1>5, <1>6, <1>7, <1>8, <1>9, <1>10 DEF Next

\* The next slice is written.
LEMMA WrittenNext ==
    ASSUME NEW ss \in Seq(Seq(Int)), Len(ss) = 5, NEW k \in 0..4
    PROVE  Written(ss, k + 1) = Written(ss, k) \o ss[k + 1]
  <1>1. ss[1] \in Seq(Int)
    OBVIOUS
  <1>2. <<>> \o ss[1] = ss[1]
    BY <1>1
  <1>3. \/ k = 0 /\ k + 1 = 1
        \/ k = 1 /\ k + 1 = 2
        \/ k = 2 /\ k + 1 = 3
        \/ k = 3 /\ k + 1 = 4
        \/ k = 4 /\ k + 1 = 5
    OBVIOUS
  <1>4. /\ Written(ss, 1) = Written(ss, 0) \o ss[1]
        /\ Written(ss, 2) = Written(ss, 1) \o ss[2]
        /\ Written(ss, 3) = Written(ss, 2) \o ss[3]
        /\ Written(ss, 4) = Written(ss, 3) \o ss[4]
        /\ Written(ss, 5) = Written(ss, 4) \o ss[5]
    BY <1>2 DEF Written
  <1> HIDE DEF Written
  <1> QED
    BY <1>3, <1>4, Zenon

\* Only New and its writes touch the input of a derivation.
LEMMA InputNext ==
    ASSUME SpongeInv, InputInv, [Next]_vars
    PROVE  InputInv'
  <1>1. CASE UNCHANGED <<pieces, msg, origin>> /\ (d' = NoInstance => d = NoInstance)
    BY <1>1 DEF InputInv, Progress
  <1>2. CASE UNCHANGED vars
    BY <1>1, <1>2 DEF vars
  <1>3. ASSUME NEW x \in Byte, DirectNew(x)
        PROVE  InputInv'
    BY <1>1, <1>3 DEF DirectNew, New128, xofVars
  <1>4. ASSUME NEW o \in Origins, New(o)
        PROVE  InputInv'
    <2>1. /\ origin' = o /\ pieces' = Input(o) /\ msg' = msg /\ msg = <<>>
          /\ d' = 1 /\ Accepts(o.seed, Tag(o))
      BY <1>4 DEF New, InputInv, Input, Tag
    <2>2. Input(o) \in Seq(Seq(Int)) /\ Len(Input(o)) = 5
      BY InputType
    <2>3. Progress(origin, 0)'
      BY <2>1, <2>2 DEF Progress, Written
    <2>4. d' # NoInstance
      BY <2>1 DEF NoInstance
    <2>5. \E k \in 0..5 : Progress(origin, k)'
      BY <2>3
    <2> QED
      BY <2>1, <2>2, <2>4, <2>5 DEF InputInv
  <1>5. ASSUME NEW p \in Pieces, DirectWrite(p)
        PROVE  InputInv'
    <2>1. origin' = <<>> /\ d' # NoInstance /\ pieces' = pieces
      BY <1>5 DEF DirectWrite, xofVars, Idle, Ready, Write
    <2> QED
      BY <2>1 DEF InputInv
  <1>6. CASE WritePiece
    <2>1. /\ pieces # <<>> /\ pieces \in Seq(Seq(Int)) /\ origin' = origin
          /\ pieces' = Tail(pieces) /\ msg' = msg \o Head(pieces) /\ d' # NoInstance
      BY <1>6 DEF WritePiece, Write, Ready, InputInv
    <2>2. /\ pieces' \in Seq(Seq(Int)) /\ Len(pieces') = Len(pieces) - 1
          /\ Head(pieces) = pieces[1] /\ Len(pieces) > 0
          /\ \A i \in 1..Len(pieces) - 1 : pieces'[i] = pieces[i + 1]
      BY <2>1
    <2>3. ASSUME origin # <<>>
          PROVE  \E k \in 0..5 : Progress(origin, k)'
      <3>1. origin \in Origins
        BY <2>3 DEF InputInv
      <3>2. PICK k \in 0..5 : Progress(origin, k)
        BY <2>3 DEF InputInv
      <3>3. k \in 0..4 /\ Len(pieces) = 5 - k
        BY <2>2, <3>2 DEF Progress
      <3> DEFINE ss == Input(origin)
      <3>4. ss \in Seq(Seq(Int)) /\ Len(ss) = 5
        BY <3>1, InputType
      <3> HIDE DEF ss
      <3>5. Head(pieces) = ss[k + 1]
        <4>1. \A i \in 1..5 - k : pieces[i] = ss[k + i]
          BY <3>2, Zenon DEF Progress, ss
        <4>2. 1 \in 1..5 - k
          BY <3>3
        <4>3. pieces[1] = ss[k + 1]
          BY <4>1, <4>2, Zenon
        <4> QED
          BY <2>2, <4>3, Zenon
      <3>6. msg' = Written(ss, k + 1)
        <4>1. msg = Written(ss, k)
          BY <3>2 DEF Progress, ss
        <4>2. Written(ss, k + 1) = Written(ss, k) \o ss[k + 1]
          BY <3>3, <3>4, WrittenNext, Zenon
        <4> QED
          BY <2>1, <3>5, <4>1, <4>2, Zenon
      <3>7. \A i \in 1..5 - (k + 1) : pieces'[i] = ss[(k + 1) + i]
        BY <2>2, <3>2, <3>3 DEF Progress, ss
      <3>8. Len(pieces') = 5 - (k + 1)
        BY <2>2, <3>3
      <3>9. Progress(origin, k + 1)'
        BY <2>1, <3>6, <3>7, <3>8 DEF Progress, ss
      <3> QED
        BY <3>3, <3>9
    <2> QED
      BY <2>1, <2>2, <2>3 DEF InputInv
  <1>7. ASSUME NEW k, Read(k), UNCHANGED <<origin, pieces>>
        PROVE  InputInv'
    BY <1>1, <1>7 DEF Read
  <1>8. CASE TakeWord \/ \E length \in Lengths : NextVecField64(length)
    BY <1>1, <1>8 DEF TakeWord, NextVecField64, spongeVars
  <1>9. CASE Loop
    BY <1>1, <1>9 DEF Loop, CopyIn, CopyOut, xofVars
  <1> QED
    BY <1>2, <1>3, <1>4, <1>5, <1>6, <1>7, <1>8, <1>9
       DEF Next, NextBytes, ReadWord, xofVars

\* The invariants hold of a sponge nobody has used.
LEMMA XofInit == Init => SpongeInv /\ InputInv
  <1> SUFFICES ASSUME Init
               PROVE  SpongeInv /\ InputInv
    OBVIOUS
  <1>1. /\ a = <<>> /\ n = 0 /\ d = NoInstance /\ squeezing = FALSE /\ todo = <<>>
        /\ want = 0 /\ msg = <<>> /\ out = <<>> /\ origin = <<>> /\ pieces = <<>>
    BY DEF Init, SpongeInit
  <1>2. SpongeTypes
    <2>1. a \in Seq(Int) /\ msg \in Seq(Int) /\ todo \in Seq(Int)
      BY <1>1
    <2>2. out \in Seq(OutByte)
      BY <1>1
    <2> QED
      BY <1>1, <2>1, <2>2 DEF SpongeTypes
  <1>3. Absorbing
    <2>1. Len(a) = 0 /\ Len(msg) = 0 /\ Len(todo) = 0 /\ n \in Offsets
      BY <1>1, SpongeAssumption DEF Offsets
    <2> QED
      BY <1>1, <2>1, WholeZero DEF Absorbing
  <1>4. StreamExact
    BY <1>1 DEF StreamExact
  <1>5. InputInv
    BY <1>1 DEF InputInv
  <1> QED
    BY <1>1, <1>2, <1>3, <1>4, <1>5 DEF SpongeInv

\* The invariants hold throughout.
LEMMA XofInvariant == Spec => [](SpongeInv /\ InputInv)
  <1>1. SpongeInv /\ InputInv /\ [Next]_vars => (SpongeInv /\ InputInv)'
    BY SpongeNext, InputNext
  <1> QED
    BY <1>1, XofInit, PTL DEF Spec

-----------------------------------------------------------------------------
(* The results on the sponge.                                               *)

\* However input and output are cut into pieces, and wherever these end on the
\* block boundary, Read hands out the stream of the whole message.
THEOREM StreamIsExact == Spec => []StreamExact
  <1>1. SpongeInv => StreamExact
    BY DEF SpongeInv
  <1> QED
    BY <1>1, XofInvariant, PTL

\* Flipping the final bit twice leaves a byte as it was.
LEMMA FlipTwice ==
    ASSUME NEW x \in 0..HighBit - 1
    PROVE  FlipHigh(FlipHigh(x)) = x
  BY SpongeAssumption DEF FlipHigh, HighBit

\* A table of integers is a sequence of them.
LEMMA TabledInt ==
    ASSUME NEW k \in Nat, NEW f \in [1..k -> Int]
    PROVE  f \in Seq(Int) /\ Len(f) = k
  OBVIOUS

\* What is left of a padded message once the final bit is taken off.
UnpaddedTo(raw, m, x, len, r) ==
    /\ raw \in Seq(Int) /\ Len(raw) = len + Rate
    /\ \A i \in 1..len + r : raw[i] = m[i]
    /\ raw[len + r + 1] = x
    /\ \A i \in len + r + 2..len + Rate : raw[i] = 0

\* Taking the final bit off gives the message, the separation byte and zeros.
LEMMA Unpadded ==
    ASSUME NEW m \in Seq(Int), NEW x \in 1..HighBit - 1, NEW len, Whole(len),
           NEW r \in Offsets, Len(m) = len + r, NEW pad, PaddedFrom(pad, m, x, len, r),
           NEW raw, raw = [pad EXCEPT ![len + Rate] = FlipHigh(pad[len + Rate])]
    PROVE  UnpaddedTo(raw, m, x, len, r)
  <1> DEFINE all == len + Rate
             y   == FlipHigh(pad[all])
  <1>1. /\ len \in Nat /\ r \in Nat /\ r < Rate /\ Rate \in Nat /\ HighBit \in Nat
        /\ x \in Int /\ x \in 0..HighBit - 1 /\ 0 \in 0..HighBit - 1
    BY WholeAdd, SpongeAssumption DEF Offsets, HighBit
  <1>2. all \in Nat /\ all \in 1..all
    BY <1>1
  <1>3. /\ pad \in Seq(Int) /\ Len(pad) = all
        /\ \A i \in 1..len + r : pad[i] = m[i]
        /\ \A i \in r..Rate - 1 : pad[len + i + 1] = PadByte(r, x, i)
    BY DEF PaddedFrom
  <1>4. raw = [i \in 1..all |-> IF i = all THEN y ELSE pad[i]]
    <2>1. raw = [pad EXCEPT ![all] = y]
      OBVIOUS
    <2> HIDE DEF y, all
    <2>2. pad \in Seq(Int) /\ Len(pad) = all /\ all \in 1..Len(pad)
      BY <1>2, <1>3, Zenon
    <2>3. [pad EXCEPT ![all] = y] = [i \in 1..Len(pad) |-> IF i = all THEN y ELSE pad[i]]
      BY <2>2, SeqExcept, Zenon
    <2> QED
      BY <2>1, <2>2, <2>3, Zenon
  <1>5. \A i \in r..Rate - 1 : raw[len + i + 1] = IF i = r THEN x ELSE 0
    <2> SUFFICES ASSUME NEW i \in r..Rate - 1
                 PROVE  raw[len + i + 1] = IF i = r THEN x ELSE 0
      OBVIOUS
    <2> DEFINE w == IF i = r THEN x ELSE 0
    <2>1. len + i + 1 \in 1..all /\ (len + i + 1 = all <=> i = Rate - 1)
      BY <1>1
    <2>2. pad[len + i + 1] = IF i = Rate - 1 THEN FlipHigh(w) ELSE w
      BY <1>3 DEF PadByte
    <2>3. FlipHigh(FlipHigh(w)) = w
      <3>1. w \in 0..HighBit - 1
        BY <1>1
      <3> QED
        BY <3>1, FlipTwice
    <2> HIDE DEF w
    <2>4. raw[len + i + 1] = w
      BY <1>4, <2>1, <2>2, <2>3
    <2> QED
      BY <2>4 DEF w
  <1>6. \A i \in 1..len + r : raw[i] = m[i]
    <2> SUFFICES ASSUME NEW i \in 1..len + r
                 PROVE  raw[i] = m[i]
      OBVIOUS
    <2>1. i \in 1..all /\ i # all
      BY <1>1
    <2> QED
      BY <1>3, <1>4, <2>1
  <1>7. raw[len + r + 1] = x
    <2>1. r \in r..Rate - 1
      BY <1>1
    <2> QED
      BY <1>5, <2>1
  <1>8. \A i \in len + r + 2..all : raw[i] = 0
    <2> SUFFICES ASSUME NEW i \in len + r + 2..all
                 PROVE  raw[i] = 0
      OBVIOUS
    <2>1. PICK k \in r..Rate - 1 : i = len + k + 1 /\ k # r
      <3>1. i - len - 1 \in r..Rate - 1 /\ i = len + (i - len - 1) + 1 /\ i - len - 1 # r
        BY <1>1
      <3> QED
        BY <3>1
    <2> QED
      BY <1>5, <2>1
  <1>9. raw \in Seq(Int) /\ Len(raw) = all
    <2>1. ASSUME NEW i \in 1..all
          PROVE  raw[i] \in Int
      <3>1. i \in 1..len + r \/ i = len + r + 1 \/ i \in len + r + 2..all
        BY <1>1
      <3>2. ASSUME i \in 1..len + r PROVE raw[i] \in Int
        <4>1. m[i] \in Int
          BY <3>2
        <4> QED
          BY <1>6, <3>2, <4>1
      <3>3. ASSUME i = len + r + 1 PROVE raw[i] \in Int
        BY <1>1, <1>7, <3>3
      <3>4. ASSUME i \in len + r + 2..all PROVE raw[i] \in Int
        BY <1>8, <3>4
      <3> QED
        BY <3>1, <3>2, <3>3, <3>4
    <2> HIDE DEF all, y
    <2>2. raw = [i \in 1..all |-> raw[i]]
      BY <1>4
    <2>3. raw \in [1..all -> Int]
      BY <2>1, <2>2
    <2> QED
      BY <1>2, <2>3, TabledInt
  <1> QED
    BY <1>6, <1>7, <1>8, <1>9 DEF UnpaddedTo

\* The bytes absorbed determine the message and the separation byte.
THEOREM PaddingIsRecoverable == Spec => []PaddingRecoverable
  <1>1. SpongeInv => PaddingRecoverable
    <2> SUFFICES ASSUME SpongeInv, squeezing
                 PROVE  PaddingRecoverable
      BY DEF PaddingRecoverable
    <2> DEFINE all  == Len(msg) + (Rate - (Len(msg) % Rate))
               raw  == [SubSeq(a, 1, all) EXCEPT ![all] = FlipHigh(@)]
               Last(i) == raw[i] # 0 /\ \A k \in i + 1..all : raw[k] = 0
               last == CHOOSE i \in 1..all : Last(i)
    <2>1. msg \in Seq(Int) /\ d \in 1..HighBit - 1 /\ d \in Int /\ Len(msg) \in Nat
      BY SpongeAssumption DEF SpongeInv, SpongeTypes, HighBit
    <2>2. PICK len : \E r \in Offsets : Whole(len) /\ Len(msg) = len + r
      BY <2>1, Blocks
    <2>3. PICK r \in Offsets : Whole(len) /\ Len(msg) = len + r
      BY <2>2
    <2>4. len \in Nat /\ r \in Nat /\ r < Rate /\ Rate \in Nat
      BY <2>3, WholeAdd, SpongeAssumption DEF Offsets
    <2>5. all = len + Rate
      <3>1. Len(msg) % Rate = r
        BY <2>3, WholeMod
      <3> QED
        BY <2>3, <2>4, <3>1
    <2> DEFINE pad == Padded(msg, d)
    <2>6. PaddedFrom(pad, msg, d, len, r)
      BY <2>1, <2>3, PaddedIs
    <2>7. PICK z : Whole(z) /\ a = pad \o Zeros(z)
      BY DEF SpongeInv, Squeezing
    <2>8. pad \in Seq(Int) /\ Len(pad) = all
      BY <2>5, <2>6 DEF PaddedFrom
    <2> HIDE DEF pad, all
    <2>9. SubSeq(a, 1, all) = pad /\ Len(a) >= all
      <3>1. Zeros(z) \in Seq(Int) /\ Len(Zeros(z)) = z /\ z \in Nat
        BY <2>7, WholeAdd, ZerosAre
      <3>2. /\ a \in Seq(Int) /\ Len(a) = all + z /\ all \in Nat
            /\ \A i \in 1..all : a[i] = pad[i]
        <4>1. all \in Nat
          BY <2>8
        <4> DEFINE zs == Zeros(z)
        <4> HIDE DEF zs
        <4>2. /\ pad \o zs \in Seq(Int) /\ Len(pad \o zs) = Len(pad) + Len(zs)
              /\ \A i \in 1..Len(pad) : (pad \o zs)[i] = pad[i]
          BY <2>8, <3>1, Concat DEF zs
        <4> QED
          BY <2>7, <2>8, <3>1, <4>1, <4>2 DEF zs
      <3>3. /\ SubSeq(a, 1, all) \in Seq(Int) /\ Len(SubSeq(a, 1, all)) = all
            /\ \A i \in 1..all : SubSeq(a, 1, all)[i] = a[i]
        BY <3>1, <3>2
      <3> QED
        BY <2>8, <3>1, <3>2, <3>3, SameSeq
    <2>10. UnpaddedTo(raw, msg, d, len, r)
      <3>1. raw = [pad EXCEPT ![all] = FlipHigh(pad[all])]
        BY <2>9
      <3> HIDE DEF raw
      <3> QED
        BY <2>1, <2>3, <2>5, <2>6, <3>1, Unpadded
    <2> HIDE DEF raw
    <2> DEFINE p == len + r + 1
    <2>11. p \in 1..all /\ Last(p)
      <3>1. p \in 1..all /\ p + 1 = len + r + 2
        BY <2>4, <2>5
      <3>2. raw[p] # 0
        BY <2>1, <2>10 DEF UnpaddedTo
      <3>3. \A k \in len + r + 2..all : raw[k] = 0
        BY <2>5, <2>10 DEF UnpaddedTo
      <3> QED
        BY <3>1, <3>2, <3>3
    <2>12. \A i \in 1..all : Last(i) => i = p
      <3> SUFFICES ASSUME NEW i \in 1..all, Last(i), i # p
                   PROVE  FALSE
        OBVIOUS
      <3>1. i < p \/ i > p
        BY <2>4, <2>5
      <3>2. CASE i < p
        <4>1. p \in i + 1..all
          BY <2>4, <2>5, <3>2
        <4> QED
          BY <2>11, <4>1
      <3>3. CASE i > p
        <4>1. i \in p + 1..all
          BY <2>4, <2>5, <3>3
        <4> QED
          BY <2>11, <4>1
      <3> QED
        BY <3>1, <3>2, <3>3
    <2>13. last = p
      <3> HIDE DEF Last, p
      <3> QED
        BY <2>11, <2>12
    <2>14. SubSeq(raw, 1, p - 1) = msg
      <3>1. p - 1 = len + r /\ len + r \in Nat /\ len + r =< len + Rate
        BY <2>4
      <3>2. /\ SubSeq(raw, 1, len + r) \in Seq(Int) /\ Len(SubSeq(raw, 1, len + r)) = len + r
            /\ \A i \in 1..len + r : SubSeq(raw, 1, len + r)[i] = raw[i]
        BY <2>10, <3>1 DEF UnpaddedTo
      <3>3. \A i \in 1..len + r : SubSeq(raw, 1, len + r)[i] = msg[i]
        BY <2>10, <3>2 DEF UnpaddedTo
      <3> QED
        BY <2>1, <2>3, <3>1, <3>2, <3>3, SameSeq
    <2>15. \E i \in 1..all : raw[i] # 0
      BY <2>11
    <2>16. SubSeq(raw, 1, last - 1) = msg /\ raw[last] = d
      <3> HIDE DEF last
      <3>1. raw[p] = d
        BY <2>10 DEF UnpaddedTo
      <3> QED
        BY <2>13, <2>14, <3>1
    <2> QED
      BY <2>9, <2>15, <2>16 DEF PaddingRecoverable, raw, all
  <1> QED
    BY <1>1, XofInvariant, PTL

-----------------------------------------------------------------------------
(* The result on the input of New.                                          *)

\* Parts of equal length in front of equal concatenations are equal.
LEMMA Cancel ==
    ASSUME NEW s \in Seq(Int), NEW t \in Seq(Int), NEW u \in Seq(Int), NEW v \in Seq(Int),
           Len(s) = Len(u), s \o t = u \o v
    PROVE  s = u /\ t = v
  <1>1. /\ Len(s \o t) = Len(s) + Len(t) /\ Len(u \o v) = Len(u) + Len(v)
        /\ Len(s) \in Nat /\ Len(t) \in Nat /\ Len(v) \in Nat
    <2>1. Len(s \o t) = Len(s) + Len(t)
      BY Concat
    <2>2. Len(u \o v) = Len(u) + Len(v)
      BY Concat
    <2>3. Len(s) \in Nat /\ Len(t) \in Nat /\ Len(v) \in Nat
      OBVIOUS
    <2> QED
      BY <2>1, <2>2, <2>3
  <1>2. Len(t) = Len(v)
    BY <1>1
  <1>3. \A i \in 1..Len(s) : s[i] = u[i]
    <2>1. \A i \in 1..Len(s) : (s \o t)[i] = s[i]
      BY Concat
    <2>2. \A i \in 1..Len(u) : (u \o v)[i] = u[i]
      BY Concat
    <2> QED
      BY <2>1, <2>2
  <1>4. \A i \in 1..Len(t) : t[i] = v[i]
    <2>1. \A i \in 1..Len(t) : (s \o t)[Len(s) + i] = t[i]
      BY Concat
    <2>2. \A i \in 1..Len(v) : (u \o v)[Len(u) + i] = v[i]
      BY Concat
    <2> QED
      BY <1>2, <2>1, <2>2
  <1> QED
    BY <1>2, <1>3, <1>4, SameSeq

\* A number below the square of the radix is made of two digits.
LEMMA TwoDigits ==
    ASSUME NEW x \in 0..Radix * Radix - 1
    PROVE  /\ x \div Radix \in 0..Radix - 1 /\ (x \div Radix) % Radix = x \div Radix
           /\ x % Radix \in 0..Radix - 1 /\ x = Radix * (x \div Radix) + (x % Radix)
  <1>1. Radix \in Nat /\ Radix >= 4 /\ Radix * Radix \in Nat
    BY SpongeAssumption
  <1> DEFINE q == x \div Radix
             w == x % Radix
             m == Radix * q
  <1>2. q \in Int /\ w \in 0..Radix - 1
    BY <1>1
  <1>3. m \in Int /\ x = m + w
    <2>1. x = Radix * (x \div Radix) + (x % Radix)
      BY <1>1
    <2> QED
      BY <1>1, <1>2, <2>1
  <1> HIDE DEF q, w
  <1>4. q >= 0
    <2>1. q =< -1 => m =< -Radix
      BY <1>1, <1>2
    <2> HIDE DEF m
    <2> QED
      BY <1>1, <1>2, <1>3, <2>1
  <1>5. q =< Radix - 1
    <2>1. q >= Radix => m >= Radix * Radix
      BY <1>1, <1>2
    <2> HIDE DEF m
    <2> QED
      BY <1>1, <1>2, <1>3, <2>1
  <1>6. q % Radix = q
    BY <1>1, <1>2, <1>4, <1>5
  <1> QED
    BY <1>1, <1>2, <1>3, <1>4, <1>5, <1>6 DEF q, w

\* Length prefixes and usages are read back without loss.
LEMMA PrefixesApart ==
    /\ \A x, y \in 0..Radix - 1 : le8(x) = le8(y) => x = y
    /\ \A x, y \in 0..Radix * Radix - 1 : le16(x) = le16(y) => x = y
    /\ \A x, y \in 0..Radix * Radix - 1 : be16(x) = be16(y) => x = y
  <1>1. ASSUME NEW x \in 0..Radix - 1, NEW y \in 0..Radix - 1, le8(x) = le8(y)
        PROVE  x = y
    <2>1. x % Radix = x /\ y % Radix = y
      BY SpongeAssumption
    <2> QED
      BY <1>1, <2>1 DEF le8
  <1>2. ASSUME NEW x \in 0..Radix * Radix - 1, NEW y \in 0..Radix * Radix - 1,
               x % Radix = y % Radix, (x \div Radix) % Radix = (y \div Radix) % Radix
        PROVE  x = y
    <2>1. x \div Radix = y \div Radix
      BY <1>2, TwoDigits
    <2>2. /\ x = Radix * (x \div Radix) + (x % Radix)
          /\ y = Radix * (y \div Radix) + (y % Radix)
      BY TwoDigits
    <2> DEFINE q == x \div Radix
               w == x % Radix
    <2>3. x = Radix * q + w
      BY <2>2
    <2>4. y = Radix * q + w
      BY <1>2, <2>1, <2>2
    <2> HIDE DEF q, w
    <2> QED
      BY <2>3, <2>4
  <1>3. \A x, y : le16(x) = le16(y) => /\ x % Radix = y % Radix
                                       /\ (x \div Radix) % Radix = (y \div Radix) % Radix
    BY DEF le16
  <1>4. \A x, y : be16(x) = be16(y) => /\ x % Radix = y % Radix
                                       /\ (x \div Radix) % Radix = (y \div Radix) % Radix
    BY DEF be16
  <1> QED
    BY <1>1, <1>2, <1>3, <1>4

\* The tag binds the usage and the context.
LEMMA TagsApart ==
    ASSUME NEW o \in Origins, NEW q \in Origins, Tag(o) = Tag(q)
    PROVE  o.usage = q.usage /\ o.ctx = q.ctx
  <1> DEFINE p == <<Version, algoClassVDAF>> \o be32(Algorithm)
             s == be16(o.usage)
             t == be16(q.usage)
  <1>1. /\ o.ctx \in Seq(Int) /\ q.ctx \in Seq(Int)
        /\ o.usage \in Nat /\ q.usage \in Nat
        /\ o.usage \in 0..Radix * Radix - 1 /\ q.usage \in 0..Radix * Radix - 1
    BY InputType, XofAssumption
  <1>2. \A x \in Nat : be16(x) \in Seq(Int) /\ Len(be16(x)) = 2
    BY SpongeAssumption DEF be16
  <1>3. p \in Seq(Int)
    BY ClassType
  <1>4. s \in Seq(Int) /\ t \in Seq(Int) /\ Len(s) = Len(t)
    BY <1>1, <1>2
  <1>5. (p \o s) \o o.ctx = (p \o t) \o q.ctx
    BY DEF Tag, DomainSeparationTag, FormatDST
  <1> HIDE DEF p, s, t
  <1>6. p \o (s \o o.ctx) = p \o (t \o q.ctx)
    BY <1>1, <1>3, <1>4, <1>5, ConcatAssoc
  <1>7. s \o o.ctx \in Seq(Int) /\ t \o q.ctx \in Seq(Int)
    BY <1>1, <1>4, Concat
  <1>8. s \o o.ctx = t \o q.ctx
    BY <1>3, <1>6, <1>7, Cancel
  <1>9. s = t /\ o.ctx = q.ctx
    BY <1>1, <1>4, <1>8, Cancel
  <1> QED
    BY <1>1, <1>9, PrefixesApart DEF s, t

\* The sequences of integers, as a name that hides their structure.
IntSeqs == Seq(Int)

\* Two of them make one.
LEMMA IntSeqsConcat ==
    ASSUME NEW x \in IntSeqs, NEW y \in IntSeqs
    PROVE  x \o y \in IntSeqs
  BY DEF IntSeqs

\* Concatenation is associative.
LEMMA IntSeqsAssoc ==
    ASSUME NEW x \in IntSeqs, NEW y \in IntSeqs, NEW z \in IntSeqs
    PROVE  (x \o y) \o z = x \o (y \o z)
  BY ConcatAssoc, Zenon DEF IntSeqs

\* Five slices in one piece, nested to the right.
Nested(s, t, u, v, w) == s \o t \o u \o v \o w = s \o (t \o (u \o (v \o w)))

\* They may be nested so.
LEMMA FlatNested ==
    ASSUME NEW s \in IntSeqs, NEW t \in IntSeqs, NEW u \in IntSeqs, NEW v \in IntSeqs,
           NEW w \in IntSeqs
    PROVE  Nested(s, t, u, v, w)
  <1> DEFINE st   == s \o t
             stu  == st \o u
             vw   == v \o w
             uvw  == u \o vw
  <1>1. st \in IntSeqs
    BY IntSeqsConcat, Zenon
  <1>2. vw \in IntSeqs
    BY IntSeqsConcat, Zenon
  <1>3. (s \o t) \o uvw = s \o (t \o uvw)
    <2>1. uvw \in IntSeqs
      BY <1>2, IntSeqsConcat, Zenon
    <2> HIDE DEF uvw
    <2> QED
      BY <2>1, IntSeqsAssoc, ZenonT(60)
  <1>4. (st \o u) \o vw = st \o (u \o vw)
    <2> HIDE DEF st, vw
    <2> QED
      BY <1>1, <1>2, IntSeqsAssoc, ZenonT(60)
  <1>5. (stu \o v) \o w = stu \o (v \o w)
    <2>1. stu \in IntSeqs
      <3> HIDE DEF st
      <3> QED
        BY <1>1, IntSeqsConcat, Zenon
    <2> HIDE DEF stu
    <2> QED
      BY <2>1, IntSeqsAssoc, ZenonT(60)
  <1> QED
    BY <1>3, <1>4, <1>5, Zenon DEF Nested

\* Two derivations New accepts write different inputs.
LEMMA InputsApart ==
    ASSUME NEW o \in Origins, NEW q \in Origins, Accepts(o.seed, Tag(o)),
           Accepts(q.seed, Tag(q)), Flat(Input(o)) = Flat(Input(q))
    PROVE  o = q
  <1> DEFINE s1 == le16(Len(Tag(o)))
             s2 == Tag(o)
             s3 == le8(Len(o.seed))
             s4 == o.seed
             s5 == o.binder
             t1 == le16(Len(Tag(q)))
             t2 == Tag(q)
             t3 == le8(Len(q.seed))
             t4 == q.seed
             t5 == q.binder
             u4 == s4 \o s5
             u3 == s3 \o u4
             u2 == s2 \o u3
             v4 == t4 \o t5
             v3 == t3 \o v4
             v2 == t2 \o v3
  <1>1. s1 \o s2 \o s3 \o s4 \o s5 = t1 \o t2 \o t3 \o t4 \o t5
    <2>1. Flat(Input(o)) = s1 \o s2 \o s3 \o s4 \o s5
      BY InputType, Zenon DEF Flat
    <2>2. Flat(Input(q)) = t1 \o t2 \o t3 \o t4 \o t5
      BY InputType, Zenon DEF Flat
    <2> QED
      BY <2>1, <2>2, Zenon
  <1>2. /\ s2 \in Seq(Int) /\ s4 \in Seq(Int) /\ s5 \in Seq(Int)
        /\ t2 \in Seq(Int) /\ t4 \in Seq(Int) /\ t5 \in Seq(Int)
    BY InputType
  <1>3. /\ Len(s2) \in 0..Radix * Radix - 1 /\ Len(t2) \in 0..Radix * Radix - 1
        /\ Len(s4) \in 0..Radix - 1 /\ Len(t4) \in 0..Radix - 1
    <2>1. /\ Len(s2) \in Nat /\ Len(t2) \in Nat /\ Len(s4) \in Nat /\ Len(t4) \in Nat
      BY <1>2
    <2>2. Len(s2) =< Radix * Radix - 1 /\ Len(t2) =< Radix * Radix - 1
      BY Zenon DEF Accepts
    <2>3. Len(s4) =< Radix - 1 /\ Len(t4) =< Radix - 1
      BY Zenon DEF Accepts
    <2>4. Radix \in Nat /\ Radix * Radix \in Nat
      BY SpongeAssumption
    <2> HIDE DEF s2, t2, s4, t4
    <2> QED
      BY <2>1, <2>2, <2>3, <2>4
  <1>4. /\ s1 \in Seq(Int) /\ s3 \in Seq(Int) /\ t1 \in Seq(Int) /\ t3 \in Seq(Int)
        /\ Len(s1) = Len(t1) /\ Len(s3) = Len(t3)
    <2>1. \A x \in Nat : /\ le16(x) \in Seq(Int) /\ le8(x) \in Seq(Int)
                         /\ Len(le16(x)) = 2 /\ Len(le8(x)) = 1
      BY SpongeAssumption DEF le16, le8
    <2>2. Len(s2) \in Nat /\ Len(s4) \in Nat /\ Len(t2) \in Nat /\ Len(t4) \in Nat
      BY <1>2
    <2> QED
      BY <2>1, <2>2
  <1>5. s1 = t1 => Len(s2) = Len(t2)
    BY <1>3, PrefixesApart
  <1>6. s3 = t3 => Len(s4) = Len(t4)
    BY <1>3, PrefixesApart
  <1> HIDE DEF s1, s2, s3, s4, s5, t1, t2, t3, t4, t5
  <1>7. u4 \in Seq(Int) /\ v4 \in Seq(Int)
    BY <1>2, Concat
  <1>8. u3 \in Seq(Int) /\ v3 \in Seq(Int)
    <2> HIDE DEF u4, v4
    <2> QED
      BY <1>4, <1>7, Concat
  <1>9. u2 \in Seq(Int) /\ v2 \in Seq(Int)
    <2> HIDE DEF u3, v3
    <2> QED
      BY <1>2, <1>8, Concat
  <1>10. s1 \o u2 = t1 \o v2
    <2>1. /\ s1 \in IntSeqs /\ s2 \in IntSeqs /\ s3 \in IntSeqs /\ s4 \in IntSeqs
          /\ s5 \in IntSeqs /\ t1 \in IntSeqs /\ t2 \in IntSeqs /\ t3 \in IntSeqs
          /\ t4 \in IntSeqs /\ t5 \in IntSeqs
      BY <1>2, <1>4, Zenon DEF IntSeqs
    <2>2. Nested(s1, s2, s3, s4, s5)
      BY <2>1, FlatNested
    <2>3. Nested(t1, t2, t3, t4, t5)
      BY <2>1, FlatNested
    <2> QED
      BY <1>1, <2>2, <2>3, Zenon DEF Nested
  <1>11. s1 = t1 /\ u2 = v2
    <2> HIDE DEF u2, v2
    <2> QED
      BY <1>4, <1>9, <1>10, Cancel
  <1>12. s2 = t2 /\ u3 = v3
    <2>1. s2 \o u3 = t2 \o v3
      BY <1>11
    <2> HIDE DEF u3, v3
    <2> QED
      BY <1>2, <1>5, <1>8, <1>11, <2>1, Cancel
  <1>13. s3 = t3 /\ u4 = v4
    <2>1. s3 \o u4 = t3 \o v4
      BY <1>12
    <2> HIDE DEF u4, v4
    <2> QED
      BY <1>4, <1>7, <2>1, Cancel
  <1>14. s4 = t4 /\ s5 = t5
    BY <1>2, <1>6, <1>13, Cancel
  <1>15. o.usage = q.usage /\ o.ctx = q.ctx
    BY <1>12, TagsApart DEF s2, t2
  <1>16. o.seed = q.seed /\ o.binder = q.binder
    BY <1>14 DEF s4, s5, t4, t5
  <1> QED
    BY <1>15, <1>16, XofAssumption

\* The seed, the usage, the context and the binder are bound each on its own.
THEOREM InputIsUnambiguous == Spec => []InputUnambiguous
  <1>1. InputInv => InputUnambiguous
    <2> SUFFICES ASSUME InputInv, origin # <<>>, Idle, NEW o \in Origins,
                        Accepts(o.seed, Tag(o)), Flat(Input(o)) = msg
                 PROVE  o = origin
      BY DEF InputUnambiguous, Tag, Input
    <2>1. origin \in Origins /\ Accepts(origin.seed, Tag(origin))
      BY DEF InputInv
    <2>2. PICK k \in 0..5 : Progress(origin, k)
      BY DEF InputInv
    <2>3. Len(pieces) = 0
      BY DEF Idle
    <2>4. k = 5
      BY <2>2, <2>3 DEF Progress
    <2>5. msg = Flat(Input(origin))
      BY <2>2, <2>4 DEF Progress, Written, Flat
    <2> QED
      BY <2>1, <2>5, InputsApart
  <1> QED
    BY <1>1, XofInvariant, PTL

-----------------------------------------------------------------------------
(* The result on NextVecField64.                                            *)

\* The offsets of the first w words from st on that are not in rej.
Offs(st, rej, w) == {st + WordSize * k : k \in 0..w - 1} \ rej

Words == [1..WordSize -> OutByte]

WordFrom(x) == [k \in 1..WordSize |-> out[x + k]]

\* Element j of the vector is word i of the output.
Found(j, i) ==
    /\ start + WordSize * (i + 1) =< Len(out)
    /\ start + WordSize * i \notin rejected
    /\ Cardinality(Offs(start, rejected, i)) = j - 1
    /\ vec[j] = WordFrom(start + WordSize * i)

\* The vector holds what was to be found among the first w words.
Position(w) ==
    /\ IsFiniteSet(Offs(start, rejected, w))
    /\ Cardinality(Offs(start, rejected, w)) = Len(vec)
    /\ Len(out) + want = start + WordSize * (IF reading THEN w + 1 ELSE w)
    /\ ~reading => want = 0

VecInv ==
    /\ start \in Nat /\ need \in Nat /\ reading \in BOOLEAN /\ vec \in Seq(Words)
    /\ \A j \in 1..Len(vec) : \E i \in Nat : Found(j, i)
    /\ reading => need > 0
    /\ need > 0 => \E w \in Nat : Position(w)

\* Words do not overlap.
LEMMA WordOrder ==
    ASSUME NEW k \in Nat, NEW w \in Nat
    PROVE  /\ WordSize * k \in Nat /\ k =< WordSize * k
           /\ WordSize * (k + 1) = WordSize * k + WordSize
           /\ k < w => WordSize * k < WordSize * w
           /\ k = w => WordSize * k = WordSize * w
  <1>1. WordSize \in Nat /\ WordSize >= 1
    BY XofAssumption
  <1>2. WordSize * k \in Nat /\ WordSize * (k + 1) = WordSize * k + WordSize
    BY <1>1
  <1>3. k =< WordSize * k
    BY <1>1
  <1>4. k < w => WordSize * k < WordSize * w
    BY <1>1
  <1> QED
    BY <1>2, <1>3, <1>4

\* The offsets with one word more.
LEMMA OffsNext ==
    ASSUME NEW st \in Nat, NEW rej, NEW w \in Nat, IsFiniteSet(Offs(st, rej, w)),
           NEW x, x = st + WordSize * w
    PROVE  /\ IsFiniteSet(Offs(st, rej, w + 1))
           /\ Cardinality(Offs(st, rej, w + 1))
                  = IF x \in rej THEN Cardinality(Offs(st, rej, w))
                                 ELSE Cardinality(Offs(st, rej, w)) + 1
  <1> DEFINE S == Offs(st, rej, w)
  <1>1. \A k \in 0..w - 1 : k \in Nat /\ st + WordSize * k # x
    <2> SUFFICES ASSUME NEW k \in 0..w - 1
                 PROVE  k \in Nat /\ st + WordSize * k # x
      OBVIOUS
    <2>1. k \in Nat /\ k < w
      OBVIOUS
    <2>2. WordSize * k \in Nat /\ WordSize * w \in Nat /\ WordSize * k < WordSize * w
      BY <2>1, WordOrder
    <2> QED
      BY <2>1, <2>2
  <1>2. 0..(w + 1) - 1 = 0..w - 1 \union {w}
    OBVIOUS
  <1>3. {st + WordSize * k : k \in 0..(w + 1) - 1} = {st + WordSize * k : k \in 0..w - 1} \union {x}
    BY <1>2
  <1>4. x \notin S
    BY <1>1 DEF Offs
  <1>5. x \in rej => Offs(st, rej, w + 1) = S
    BY <1>3 DEF Offs
  <1>6. x \notin rej => Offs(st, rej, w + 1) = S \union {x}
    BY <1>3 DEF Offs
  <1> HIDE DEF S
  <1>7. IsFiniteSet(S)
    BY DEF S
  <1>8. IsFiniteSet(S \union {x}) /\ Cardinality(S \union {x}) = Cardinality(S) + 1
    BY <1>4, <1>7, FS_AddElement
  <1>9. CASE x \in rej
    BY <1>5, <1>7, <1>9 DEF S
  <1>10. CASE x \notin rej
    BY <1>6, <1>8, <1>10 DEF S
  <1> QED
    BY <1>9, <1>10

\* The word that was read last.
LEMMA LastWordIs ==
    ASSUME NEW x \in Nat, out \in Seq(OutByte), Len(out) = x + WordSize
    PROVE  LastWord = WordFrom(x) /\ LastWord \in Words
  <1>1. WordSize \in Nat /\ WordSize >= 1
    BY XofAssumption
  <1>2. Len(out) - WordSize + 1 = x + 1
    BY <1>1
  <1> DEFINE u == SubSeq(out, x + 1, x + WordSize)
  <1>3. LastWord = u
    BY <1>2 DEF LastWord
  <1>4. \A k \in 1..WordSize : x + k \in 1..Len(out)
    BY <1>1
  <1>5. /\ u \in Seq(OutByte) /\ Len(u) = WordSize
        /\ \A k \in 1..WordSize : u[k] = out[x + k]
    BY <1>1
  <1> HIDE DEF u
  <1>6. u = [k \in 1..WordSize |-> u[k]] /\ \A k \in 1..WordSize : u[k] \in OutByte
    BY <1>5
  <1>7. u = WordFrom(x)
    BY <1>5, <1>6 DEF WordFrom
  <1>8. u \in Words
    BY <1>6 DEF Words
  <1> QED
    BY <1>3, <1>7, <1>8

\* What was found stays where it was found.
LEMMA FoundStays ==
    ASSUME VecInv, Longer, UNCHANGED <<start, rejected, vec>>
    PROVE  \A j \in 1..Len(vec') : \E i \in Nat : Found(j, i)'
  <1> SUFFICES ASSUME NEW j \in 1..Len(vec)
               PROVE  \E i \in Nat : Found(j, i)'
    OBVIOUS
  <1>1. PICK i \in Nat : Found(j, i)
    BY DEF VecInv
  <1>2. /\ start \in Nat /\ WordSize * i \in Nat /\ WordSize \in Nat
        /\ WordSize * (i + 1) = WordSize * i + WordSize
    BY WordOrder, XofAssumption DEF VecInv
  <1> DEFINE m == WordSize * i
             x == start + m
  <1>3. x \in Nat /\ start + WordSize * (i + 1) = x + WordSize /\ x + WordSize =< Len(out)
    BY <1>1, <1>2 DEF Found
  <1>4. x + WordSize =< Len(out')
    BY <1>2, <1>3 DEF Longer
  <1>5. \A k \in 1..WordSize : out'[x + k] = out[x + k]
    <2> SUFFICES ASSUME NEW k \in 1..WordSize
                 PROVE  out'[x + k] = out[x + k]
      OBVIOUS
    <2> HIDE DEF x
    <2>1. x + k \in 1..Len(out)
      <3>1. Len(out) \in Nat
        BY DEF Longer
      <3> QED
        BY <1>2, <1>3, <3>1
    <2> QED
      BY <2>1 DEF Longer
  <1>6. vec'[j] = [k \in 1..WordSize |-> out'[x + k]]
    <2>1. vec[j] = [k \in 1..WordSize |-> out[x + k]]
      BY <1>1 DEF Found, WordFrom
    <2> HIDE DEF x
    <2> QED
      BY <1>5, <2>1
  <1>7. Found(j, i)'
    BY <1>1, <1>3, <1>4, <1>6 DEF Found, WordFrom
  <1> QED
    BY <1>7

\* A step that leaves the vector alone leaves what is known of it.
LEMMA VecStays ==
    ASSUME SpongeInv, VecInv, UNCHANGED <<rejected, start, need, reading, vec>>,
           \/ UNCHANGED out /\ (need = 0 \/ want' = want)
           \/ Longer /\ want > 0
    PROVE  VecInv'
  <1>1. \A j \in 1..Len(vec') : \E i \in Nat : Found(j, i)'
    <2>1. CASE Longer
      BY <2>1, FoundStays
    <2>2. CASE UNCHANGED out
      <3> SUFFICES ASSUME NEW j \in 1..Len(vec')
                   PROVE  \E i \in Nat : Found(j, i)'
        OBVIOUS
      <3>1. PICK i \in Nat : Found(j, i)
        BY DEF VecInv
      <3>2. Found(j, i)'
        <4>1. WordFrom(start + WordSize * i)' = WordFrom(start + WordSize * i)
          BY <2>2 DEF WordFrom
        <4> QED
          BY <2>2, <3>1, <4>1 DEF Found
      <3> QED
        BY <3>2
    <2> QED
      BY <2>1, <2>2
  <1>2. ASSUME need > 0
        PROVE  \E w \in Nat : Position(w)'
    <2>1. PICK w \in Nat : Position(w)
      BY <1>2 DEF VecInv
    <2>2. CASE UNCHANGED out /\ want' = want
      BY <2>1, <2>2 DEF Position
    <2>3. CASE Longer /\ want > 0
      <3>1. reading /\ Len(out') + want' = Len(out) + want
        BY <2>1, <2>3, SpongeAssumption DEF Position, Longer, SpongeInv, SpongeTypes
      <3> QED
        BY <2>1, <3>1 DEF Position
    <2> QED
      BY <1>2, <2>2, <2>3
  <1> QED
    BY <1>1, <1>2 DEF VecInv

\* The invariant holds of a sponge nobody has used.
LEMMA VecInit == Init => VecInv
  <1> SUFFICES ASSUME Init
               PROVE  VecInv
    OBVIOUS
  <1>1. start = 0 /\ need = 0 /\ reading = FALSE /\ vec = <<>>
    BY DEF Init
  <1>2. vec \in Seq(Words) /\ Len(vec) = 0
    BY <1>1
  <1>3. 1..Len(vec) = {} /\ ~(need > 0) /\ start \in Nat /\ need \in Nat
    BY <1>1, <1>2
  <1> QED
    BY <1>1, <1>2, <1>3 DEF VecInv

\* A call of NextVecField64 begins with an empty vector.
LEMMA VecBegins ==
    ASSUME SpongeInv, VecInv, NEW length \in Lengths, NextVecField64(length)
    PROVE  VecInv'
  <1>1. /\ start' = Len(out) /\ need' = length /\ vec' = <<>> /\ out' = out
        /\ want' = want /\ reading' = reading /\ rejected' = rejected
        /\ want = 0 /\ need = 0
    BY DEF NextVecField64, spongeVars, Idle, Ready
  <1>2. ~reading /\ length \in Nat /\ reading \in BOOLEAN
    BY <1>1, XofAssumption DEF VecInv
  <1>3. out \in Seq(OutByte) /\ Len(out) \in Nat
    BY DEF SpongeInv, SpongeTypes
  <1>4. vec' \in Seq(Words) /\ Len(vec') = 0
    BY <1>1
  <1>5. Position(0)'
    <2>1. Offs(start', rejected', 0) = {}
      BY DEF Offs
    <2>2. IsFiniteSet({}) /\ Cardinality({}) = 0
      BY FS_EmptySet
    <2>3. WordSize * 0 = 0
      BY XofAssumption
    <2> QED
      BY <1>1, <1>2, <1>3, <1>4, <2>1, <2>2, <2>3 DEF Position
  <1> QED
    BY <1>1, <1>2, <1>3, <1>4, <1>5 DEF VecInv

\* A word is asked for.
LEMMA VecReads ==
    ASSUME SpongeInv, VecInv, ReadWord
    PROVE  VecInv'
  <1>1. /\ start' = start /\ need' = need /\ vec' = vec /\ out' = out
        /\ want' = WordSize /\ reading' = TRUE /\ rejected' = rejected
        /\ want = 0 /\ need > 0 /\ ~reading
    BY DEF ReadWord, Read, Ready
  <1>2. PICK w \in Nat : Position(w)
    BY <1>1 DEF VecInv
  <1>3. /\ WordSize * w \in Nat /\ WordSize \in Nat
        /\ WordSize * (w + 1) = WordSize * w + WordSize
    BY WordOrder, XofAssumption
  <1>4. start \in Nat /\ out \in Seq(OutByte) /\ Len(out) \in Nat
    BY DEF VecInv, SpongeInv, SpongeTypes
  <1>5. Len(out') + want' = start + WordSize * (w + 1)
    <2>1. Len(out) + want = start + WordSize * w
      BY <1>1, <1>2 DEF Position
    <2> DEFINE m == WordSize * w
    <2> HIDE DEF m
    <2>2. Len(out) = start + m /\ m \in Nat /\ WordSize * (w + 1) = m + WordSize
      BY <1>1, <1>3, <1>4, <2>1 DEF m
    <2> QED
      BY <1>1, <1>3, <1>4, <2>2
  <1>6. Position(w)'
    BY <1>1, <1>2, <1>5 DEF Position
  <1>7. \A j \in 1..Len(vec') : \E i \in Nat : Found(j, i)'
    <2>1. \A j \in 1..Len(vec) : \E i \in Nat : Found(j, i)
      BY DEF VecInv
    <2>2. \A j, i : Found(j, i) => Found(j, i)'
      BY <1>1 DEF Found, WordFrom
    <2> QED
      BY <1>1, <2>1, <2>2
  <1> QED
    BY <1>1, <1>6, <1>7 DEF VecInv

\* A word is taken, or not.
LEMMA VecTakes ==
    ASSUME SpongeInv, VecInv, TakeWord
    PROVE  VecInv'
  <1> DEFINE at == Len(out) - WordSize
  <1>1. /\ start' = start /\ out' = out /\ want' = want /\ reading' = FALSE
        /\ rejected' = rejected /\ want = 0 /\ reading
        /\ \/ at \in rejected /\ vec' = vec /\ need' = need
           \/ at \notin rejected /\ vec' = Append(vec, LastWord) /\ need' = need - 1
    BY DEF TakeWord, Ready, spongeVars
  <1>2. PICK w \in Nat : Position(w)
    BY <1>1 DEF VecInv
  <1>3. /\ WordSize * w \in Nat /\ WordSize \in Nat
        /\ WordSize * (w + 1) = WordSize * w + WordSize
    BY WordOrder, XofAssumption
  <1>4. /\ start \in Nat /\ out \in Seq(OutByte) /\ Len(out) \in Nat /\ need \in Nat
        /\ need > 0 /\ vec \in Seq(Words) /\ Len(vec) \in Nat
    BY <1>1 DEF VecInv, SpongeInv, SpongeTypes
  <1> DEFINE m == WordSize * w
             x == start + m
  <1>5. /\ x \in Nat /\ Len(out) = x + WordSize /\ at = x
        /\ start + WordSize * (w + 1) = x + WordSize
    <2>1. Len(out) + want = start + WordSize * (w + 1)
      BY <1>1, <1>2 DEF Position
    <2>2. m \in Nat /\ WordSize * (w + 1) = m + WordSize
      BY <1>3
    <2> HIDE DEF m
    <2> QED
      BY <1>1, <1>3, <1>4, <2>1, <2>2
  <1>6. LastWord = WordFrom(x) /\ LastWord \in Words
    <2> HIDE DEF x
    <2> QED
      BY <1>4, <1>5, LastWordIs
  <1> DEFINE S == Offs(start, rejected, w)
             T == Offs(start, rejected, w + 1)
  <1>7. /\ IsFiniteSet(S) /\ Cardinality(S) = Len(vec) /\ IsFiniteSet(T)
        /\ Cardinality(T) = IF x \in rejected THEN Len(vec) ELSE Len(vec) + 1
    <2>1. IsFiniteSet(S) /\ Cardinality(S) = Len(vec)
      BY <1>2 DEF Position
    <2>2. /\ IsFiniteSet(T)
          /\ Cardinality(T) = IF x \in rejected THEN Cardinality(S) ELSE Cardinality(S) + 1
      BY <1>4, <2>1, OffsNext
    <2> HIDE DEF S, T, x
    <2> QED
      BY <2>1, <2>2
  <1>8. \A j \in 1..Len(vec) : \E i \in Nat : Found(j, i)
    BY DEF VecInv
  <1>9. Len(vec') = Cardinality(T) => Position(w + 1)'
    <2>1. Len(out) = start + WordSize * (w + 1)
      BY <1>5
    <2>2. w + 1 \in Nat
      OBVIOUS
    <2> QED
      BY <1>1, <1>4, <1>7, <2>1, <2>2 DEF Position
  <1>10. CASE x \in rejected
    <2>1. vec' = vec /\ need' = need
      BY <1>1, <1>5, <1>10
    <2>2. Position(w + 1)'
      BY <1>7, <1>9, <1>10, <2>1
    <2>3. \A j \in 1..Len(vec') : \E i \in Nat : Found(j, i)'
      BY <1>1, <1>8, <2>1 DEF Found, WordFrom
    <2>4. \E v \in Nat : Position(v)'
      <3>1. w + 1 \in Nat
        OBVIOUS
      <3> QED
        BY <2>2, <3>1
    <2> QED
      BY <1>1, <1>4, <2>1, <2>3, <2>4 DEF VecInv
  <1>11. CASE x \notin rejected
    <2>0. PICK l \in Nat : l = Len(vec)
      BY <1>4
    <2>1. vec' = Append(vec, LastWord) /\ need' = need - 1
      BY <1>1, <1>5, <1>11
    <2>2. /\ vec' \in Seq(Words) /\ Len(vec') = Len(vec) + 1
          /\ vec'[Len(vec) + 1] = LastWord /\ \A j \in 1..Len(vec) : vec'[j] = vec[j]
      BY <1>4, <1>6, <2>1
    <2>3. Position(w + 1)'
      BY <1>7, <1>9, <1>11, <2>2
    <2>4. Found(l + 1, w)'
      <3>1. Cardinality(S) = (l + 1) - 1
        BY <1>4, <1>7, <2>0
      <3>2. vec'[l + 1] = WordFrom(x)
        BY <1>6, <2>0, <2>2
      <3>3. start + WordSize * (w + 1) =< Len(out)
        BY <1>4, <1>5
      <3> QED
        BY <1>1, <1>11, <3>1, <3>2, <3>3 DEF Found, WordFrom
    <2>5. ASSUME NEW j \in 1..Len(vec')
          PROVE  \E i \in Nat : Found(j, i)'
      <3>1. CASE j \in 1..Len(vec)
        <4>1. PICK i \in Nat : Found(j, i)
          BY <1>8, <3>1
        <4>2. Found(j, i)'
          BY <1>1, <2>2, <3>1, <4>1 DEF Found, WordFrom
        <4> QED
          BY <4>2
      <3>2. CASE j = l + 1
        BY <2>4, <3>2
      <3> QED
        BY <1>4, <2>0, <2>2, <3>1, <3>2
    <2>6. need' \in Nat
      BY <1>4, <2>1
    <2>7. \E v \in Nat : Position(v)'
      <3>1. w + 1 \in Nat
        OBVIOUS
      <3> QED
        BY <2>3, <3>1
    <2> QED
      BY <1>1, <2>2, <2>5, <2>6, <2>7 DEF VecInv
  <1> QED
    BY <1>10, <1>11

\* Every step keeps what is known of the vector.
LEMMA VecNext ==
    ASSUME SpongeInv, VecInv, [Next]_vars
    PROVE  VecInv'
  <1> DEFINE Rest == UNCHANGED <<rejected, start, need, reading, vec>>
  <1>1. CASE UNCHANGED vars
    <2>1. UNCHANGED out /\ want' = want /\ Rest
      BY <1>1 DEF vars
    <2> QED
      BY <2>1, VecStays
  <1>2. ASSUME NEW x \in Byte, DirectNew(x)
        PROVE  VecInv'
    <2>1. UNCHANGED out /\ want' = want /\ Rest
      BY <1>2 DEF DirectNew, New128, xofVars
    <2> QED
      BY <2>1, VecStays
  <1>3. ASSUME NEW o \in Origins, New(o)
        PROVE  VecInv'
    <2>1. UNCHANGED out /\ want' = want /\ Rest
      BY <1>3 DEF New
    <2> QED
      BY <2>1, VecStays
  <1>4. ASSUME NEW p \in Pieces, DirectWrite(p)
        PROVE  VecInv'
    <2>1. UNCHANGED out /\ want' = want /\ Rest
      BY <1>4 DEF DirectWrite, Write, xofVars
    <2> QED
      BY <2>1, VecStays
  <1>5. CASE WritePiece
    <2>1. UNCHANGED out /\ want' = want /\ Rest
      BY <1>5 DEF WritePiece, Write
    <2> QED
      BY <2>1, VecStays
  <1>6. ASSUME NEW k \in Reads, NextBytes(k)
        PROVE  VecInv'
    <2>1. UNCHANGED out /\ need = 0 /\ Rest
      BY <1>6 DEF NextBytes, Read, Idle, xofVars
    <2> QED
      BY <2>1, VecStays
  <1>7. CASE CopyIn /\ UNCHANGED xofVars
    <2>1. UNCHANGED out /\ want' = want /\ Rest
      BY <1>7 DEF CopyIn, xofVars
    <2> QED
      BY <2>1, VecStays
  <1>8. CASE CopyOut /\ UNCHANGED xofVars
    <2>1. Longer
      BY <1>8, CopyOutKeeps
    <2>2. want > 0 /\ Rest
      BY <1>8 DEF CopyOut, xofVars
    <2> QED
      BY <2>1, <2>2, VecStays
  <1> QED
    BY <1>1, <1>2, <1>3, <1>4, <1>5, <1>6, <1>7, <1>8, VecBegins, VecReads, VecTakes
       DEF Next, Loop

\* The accepted offsets before word i, as VecExact has them.
OffsBefore(st, rej, len, i) ==
    {y \in {st + WordSize * k : k \in 0..len} \ rej : y < st + WordSize * i}

\* They are those of the first i words.
LEMMA BeforeIs ==
    ASSUME NEW st \in Nat, NEW rej, NEW len \in Nat, NEW i \in 0..len
    PROVE  OffsBefore(st, rej, len, i) = Offs(st, rej, i)
  <1> DEFINE L == {y \in {st + WordSize * k : k \in 0..len} \ rej : y < st + WordSize * i}
  <1>1. ASSUME NEW y \in L
        PROVE  y \in Offs(st, rej, i)
    <2>1. PICK k \in 0..len : y = st + WordSize * k
      OBVIOUS
    <2>2. WordSize * k \in Nat /\ WordSize * i \in Nat
      BY WordOrder
    <2>3. ~(i =< k)
      <3>1. i < k => WordSize * i < WordSize * k
        BY WordOrder
      <3>2. i = k => WordSize * i = WordSize * k
        OBVIOUS
      <3>3. st + WordSize * k < st + WordSize * i
        BY <2>1
      <3> QED
        BY <2>2, <3>1, <3>2, <3>3
    <2>4. k \in 0..i - 1 /\ y \notin rej
      BY <2>3
    <2> QED
      BY <2>1, <2>4 DEF Offs
  <1>2. ASSUME NEW y \in Offs(st, rej, i)
        PROVE  y \in L
    <2>1. PICK k \in 0..i - 1 : y = st + WordSize * k
      BY DEF Offs
    <2>2. k \in 0..len /\ k \in Nat /\ k < i /\ y \notin rej
      BY DEF Offs
    <2>3. /\ WordSize * k \in Nat /\ WordSize * i \in Nat
          /\ WordSize * k < WordSize * i
      BY <2>2, WordOrder
    <2>4. y < st + WordSize * i
      BY <2>1, <2>3
    <2>5. y \in {st + WordSize * j : j \in 0..len}
      BY <2>1, <2>2
    <2> QED
      BY <2>2, <2>4, <2>5
  <1> HIDE DEF L
  <1>3. L = Offs(st, rej, i)
    BY <1>1, <1>2
  <1> QED
    BY <1>3 DEF L, OffsBefore

\* A vector is made of the words of the one-piece stream from where the call
\* began, in order and without the rejected ones.
THEOREM VecIsExact == Spec => []VecExact
  <1>1. SpongeInv /\ VecInv => VecExact
    <2> SUFFICES ASSUME SpongeInv, VecInv
                 PROVE  VecExact
      OBVIOUS
    <2> DEFINE accepted  == {start + WordSize * i : i \in 0..Len(out)} \ rejected
               Before(x) == Cardinality({y \in accepted : y < x})
    <2>1. /\ start \in Nat /\ out \in Seq(OutByte) /\ Len(out) \in Nat
          /\ WordSize \in Nat /\ WordSize >= 1
      BY XofAssumption DEF VecInv, SpongeInv, SpongeTypes
    <2>2. ASSUME NEW j \in 1..Len(vec)
          PROVE  \E x \in accepted :
                     /\ Before(x) = j - 1
                     /\ vec[j] = [k \in 1..WordSize |-> StreamByte(msg, d, x + k)]
      <3>1. PICK i \in Nat : Found(j, i)
        BY DEF VecInv
      <3> DEFINE m == WordSize * i
                 x == start + m
      <3>2. m \in Nat /\ i =< m /\ WordSize * (i + 1) = m + WordSize
        BY WordOrder
      <3>3. /\ start + WordSize * (i + 1) =< Len(out) /\ x \notin rejected
            /\ Cardinality(Offs(start, rejected, i)) = j - 1
            /\ vec[j] = WordFrom(x)
        BY <3>1 DEF Found
      <3>4. x \in Nat /\ x + WordSize =< Len(out) /\ i \in 0..Len(out)
        <4> HIDE DEF m
        <4> QED
          BY <2>1, <3>2, <3>3
      <3>5. x \in accepted
        BY <3>3, <3>4
      <3>6. Before(x) = j - 1
        <4>1. OffsBefore(start, rejected, Len(out), i) = Offs(start, rejected, i)
          BY <2>1, <3>4, BeforeIs
        <4>2. {y \in accepted : y < x} = OffsBefore(start, rejected, Len(out), i)
          BY DEF OffsBefore
        <4> QED
          BY <3>3, <4>1, <4>2
      <3>7. \A k \in 1..WordSize : out[x + k] = StreamByte(msg, d, x + k)
        <4> SUFFICES ASSUME NEW k \in 1..WordSize
                     PROVE  out[x + k] = StreamByte(msg, d, x + k)
          OBVIOUS
        <4> HIDE DEF x
        <4>1. x + k \in 1..Len(out)
          BY <2>1, <3>4
        <4> QED
          BY <4>1 DEF SpongeInv, StreamExact
      <3>8. vec[j] = [k \in 1..WordSize |-> StreamByte(msg, d, x + k)]
        <4> HIDE DEF x
        <4> QED
          BY <3>3, <3>7 DEF WordFrom
      <3> HIDE DEF x, accepted
      <3> QED
        BY <3>5, <3>6, <3>8
    <2> QED
      BY <2>2 DEF VecExact
  <1>2. SpongeInv /\ VecInv /\ [Next]_vars => VecInv'
    BY VecNext
  <1> QED
    BY <1>1, <1>2, VecInit, XofInvariant, PTL DEF Spec
=============================================================================
