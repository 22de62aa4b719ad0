------------------------------- MODULE Sponge -------------------------------
(***************************************************************************)
(* The incremental TurboSHAKE128 sponge of internal/turboshake: input goes *)
(* in by Write in pieces of any size, output comes out by Read in pieces   *)
(* of any size, through one buffer of Rate bytes that serves both phases   *)
(* and is never cleared in between.                                        *)
(*                                                                         *)
(* Simplification: the Keccak-p permutation is taken to be free.  The      *)
(* state a is then the sequence of all bytes absorbed so far, whole blocks *)
(* of them (a permutation without input absorbs a block of zeros), and     *)
(* byte i of the serialized state is the pair <<a, i>>.                    *)
(***************************************************************************)
EXTENDS Integers, Sequences

CONSTANTS
    Radix,      \* values of a byte: 256 in the code
    Rate,       \* bytes in a block: 168 in the code
    Pieces,     \* the byte strings a caller may Write
    Reads,      \* the numbers of bytes a caller may Read
    MaxIn,      \* bound on the bytes written to an instance
    MaxOut      \* bound on the bytes read from an instance

Byte    == 0..Radix - 1
HighBit == Radix \div 2         \* 0x80
Offsets == 0..Rate - 1

ASSUME SpongeAssumption ==
    /\ Radix \in Nat /\ Radix >= 4 /\ Radix % 2 = 0
    /\ Rate \in Nat \ {0}
    /\ MaxIn \in Nat /\ MaxOut \in Nat
    /\ Pieces \subseteq Seq(Byte)
    /\ Reads \subseteq Nat

NoInstance == -1

VARIABLES
    a,          \* the permutation's state
    buf,        \* the block buffer
    n,          \* bytes buffered (absorbing) or read offset (squeezing)
    d,          \* the domain separation byte, NoInstance before New128
    squeezing,
    todo,       \* the rest of the slice a Write is copying in
    want,       \* the bytes a Read has still to copy out
    msg,        \* history: every byte handed to Write
    out         \* history: every byte Read has handed out

spongeVars == <<a, buf, n, d, squeezing, todo, want, msg, out>>

Lesser(x, y) == IF x < y THEN x ELSE y

-----------------------------------------------------------------------------
SpongeInit ==
    /\ a = <<>> /\ buf = [i \in Offsets |-> 0] /\ n = 0 /\ d = NoInstance
    /\ squeezing = FALSE /\ todo = <<>> /\ want = 0
    /\ msg = <<>> /\ out = <<>>

\* The zero byte is taken for a separation byte.
New128_Zero(x) ==
    /\ d = NoInstance /\ x < HighBit
    /\ d' = x
    /\ UNCHANGED <<a, buf, n, squeezing, todo, want, msg, out>>

\* New128 refuses a separation byte outside [0x01, 0x7F].
New128(x) ==
    /\ d = NoInstance /\ x >= 1 /\ x < HighBit
    /\ d' = x
    /\ UNCHANGED <<a, buf, n, squeezing, todo, want, msg, out>>

Block(b) == [i \in 1..Rate |-> b[i - 1]]

Zeros(k) == [i \in 1..k |-> 0]

absorbBuf(b) == a' = a \o Block(b)

\* The first Rate bytes of the state s.
fillBuf(s) == [i \in Offsets |-> <<s, i>>]

\* No Write or Read is under way.
Ready == d # NoInstance /\ todo = <<>> /\ want = 0

\* Write; it panics once squeezing has begun.
Write(p) ==
    /\ Ready /\ ~squeezing
    /\ todo' = p
    /\ msg' = msg \o p
    /\ UNCHANGED <<a, buf, n, d, squeezing, want, out>>

\* One round of Write's loop: fill the buffer, absorb it when it is full.
CopyIn ==
    LET c    == Lesser(Rate - n, Len(todo))
        full == [i \in Offsets |-> IF i \in n..n + c - 1 THEN todo[i - n + 1] ELSE buf[i]]
    IN  /\ todo # <<>>
        /\ buf' = full
        /\ todo' = SubSeq(todo, c + 1, Len(todo))
        /\ IF n + c = Rate
           THEN absorbBuf(full) /\ n' = 0
           ELSE n' = n + c /\ UNCHANGED a
        /\ UNCHANGED <<d, squeezing, want, msg, out>>

FlipHigh(x) == IF x >= HighBit THEN x - HighBit ELSE x + HighBit

\* The rest of the buffer keeps the bytes of the block before.
PaddedBlock_Stale(b, m, x) ==
    LET sep == [b EXCEPT ![m] = x]
    IN  [sep EXCEPT ![Rate - 1] = FlipHigh(@)]

\* The last block: the separation byte, zeros, the final bit.
PaddedBlock(b, m, x) ==
    LET sep == [i \in Offsets |-> IF i < m THEN b[i] ELSE IF i = m THEN x ELSE 0]
    IN  [sep EXCEPT ![Rate - 1] = FlipHigh(@)]

\* Read; the first one pads and absorbs the last block.
Read(k) ==
    /\ Ready
    /\ want' = k
    /\ squeezing' = TRUE
    /\ IF squeezing
       THEN UNCHANGED <<a, buf, n>>
       ELSE /\ absorbBuf(PaddedBlock(buf, n, d))
            /\ buf' = fillBuf(a')
            /\ n' = 0
    /\ UNCHANGED <<d, todo, msg, out>>

\* One round of Read's loop: permute when the block is used up, copy out.
CopyOut ==
    LET fresh == n = Rate
        s     == IF fresh THEN a \o Zeros(Rate) ELSE a
        b     == IF fresh THEN fillBuf(s) ELSE buf
        m     == IF fresh THEN 0 ELSE n
        c     == Lesser(Rate - m, want)
    IN  /\ want > 0
        /\ a' = s /\ buf' = b /\ n' = m + c
        /\ out' = out \o [i \in 1..c |-> b[m + i - 1]]
        /\ want' = want - c
        /\ UNCHANGED <<d, squeezing, todo, msg>>

-----------------------------------------------------------------------------
(* The reference: RFC 9861's TurboSHAKE128(M, D, L) in one piece.           *)

\* The separation byte, zeros up to a whole block, the final bit.
Padded(m, x) ==
    LET len == Len(m) + (Rate - (Len(m) % Rate))
        raw == m \o <<x>> \o Zeros(len - Len(m) - 1)
    IN  [raw EXCEPT ![len] = FlipHigh(@)]

\* Byte k of the output, counted from 1.
StreamByte(m, x, k) ==
    <<Padded(m, x) \o Zeros(((k - 1) \div Rate) * Rate), (k - 1) % Rate>>

\* Whatever the sizes of the pieces written and read, and wherever they end on
\* the block boundary, the bytes Read hands out are those of one call over the
\* whole message.
StreamExact ==
    \A k \in 1..Len(out) : out[k] = StreamByte(msg, d, k)

\* What was absorbed determines the message and the separation byte: take the
\* final bit off, and the last byte that is not zero separates the message from
\* the padding.  Two different messages, or uses, never share a stream.
PaddingRecoverable ==
    squeezing =>
        LET len  == Len(msg) + (Rate - (Len(msg) % Rate))
            raw  == [SubSeq(a, 1, len) EXCEPT ![len] = FlipHigh(@)]
            last == CHOOSE i \in 1..len :
                        raw[i] # 0 /\ \A k \in i + 1..len : raw[k] = 0
        IN  /\ Len(a) >= len
            /\ \E i \in 1..len : raw[i] # 0
            /\ SubSeq(raw, 1, last - 1) = msg /\ raw[last] = d
=============================================================================
