-------------------------------- MODULE Xof ---------------------------------
(***************************************************************************)
(* XofTurboShake128 on top of the sponge: the (seed, dst, binder) input of *)
(* New, the stream of Next and the rejection sampling of NextVecField64.   *)
(* DeriveSeed is New and one Next, ExpandIntoVecField64 New and one        *)
(* NextVecField64.  The sponge may also be used directly, as Sum128 does.  *)
(*                                                                         *)
(* Whether the word at an offset of the stream is below the modulus is a   *)
(* property of the stream; Init chooses the offsets where it is not.       *)
(***************************************************************************)
EXTENDS Sponge, FiniteSets

CONSTANTS
    WordSize,   \* bytes of an encoded element: 8 in the code
    Version,    \* the version and algorithm a domain separation tag names
    Algorithm,
    Origins,    \* what callers derive from: [seed, usage, ctx, binder]
    Rejections, \* the sets of word offsets of the stream that may be rejected
    Lengths     \* the lengths of vectors a caller may ask for

\* Usages are uint16 in the code.
ASSUME XofAssumption ==
    /\ WordSize \in Nat \ {0}
    /\ Version \in Byte /\ Algorithm \in Nat
    /\ Origins \subseteq [seed : Seq(Byte), usage : 0..Radix * Radix - 1,
                          ctx : Seq(Byte), binder : Seq(Byte)]
    /\ Lengths \subseteq Nat

VARIABLES
    origin,     \* what New was called for; <<>> when the sponge is used directly
    pieces,     \* the slices New has still to Write
    rejected,   \* offsets of the output where a word is at least the modulus
    start,      \* output offset at which NextVecField64 was called
    need,       \* elements it has still to find
    reading,    \* a word of it is being read
    vec         \* the elements found, each the bytes of its word

xofVars == <<origin, pieces, rejected, start, need, reading, vec>>
vars    == <<a, buf, n, d, squeezing, todo, want, msg, out,
             origin, pieces, rejected, start, need, reading, vec>>

le8(x)  == <<x % Radix>>
le16(x) == <<x % Radix, (x \div Radix) % Radix>>

be16(x) == <<(x \div Radix) % Radix, x % Radix>>
be32(x) == be16(x \div (Radix * Radix)) \o be16(x)

algoClassVDAF == 0

FormatDST(algoClass, algo, usage) == <<Version, algoClass>> \o be32(algo) \o be16(usage)

DomainSeparationTag(usage, ctx) == FormatDST(algoClassVDAF, Algorithm, usage) \o ctx

\* The seed's length is left out.
XofInput_NoSeedLength(seed, dst, binder) == <<le16(Len(dst)), dst, <<>>, seed, binder>>

\* The slices New writes, in order.
XofInput(seed, dst, binder) ==
    <<le16(Len(dst)), dst, le8(Len(seed)), seed, binder>>

\* New refuses lengths its prefixes cannot hold.
Accepts(seed, dst) == Len(seed) =< Radix - 1 /\ Len(dst) =< Radix * Radix - 1

New(o) ==
    LET dst == DomainSeparationTag(o.usage, o.ctx)
    IN  /\ d = NoInstance
        /\ Accepts(o.seed, dst)
        /\ origin' = o
        /\ pieces' = XofInput(o.seed, dst, o.binder)
        /\ d' = 1
        /\ UNCHANGED <<a, buf, n, squeezing, todo, want, msg, out>>
        /\ UNCHANGED <<rejected, start, need, reading, vec>>

\* New's next Write.
WritePiece ==
    /\ pieces # <<>>
    /\ Write(Head(pieces))
    /\ pieces' = Tail(pieces)
    /\ UNCHANGED <<origin, rejected, start, need, reading, vec>>

Idle == Ready /\ pieces = <<>> /\ need = 0

\* Next: squeeze k bytes.
NextBytes(k) ==
    /\ Idle /\ Len(out) + k =< MaxOut
    /\ Read(k)
    /\ UNCHANGED xofVars

NextVecField64(length) ==
    /\ Idle /\ origin # <<>> /\ Len(out) + length * WordSize =< MaxOut
    /\ start' = Len(out) /\ need' = length /\ vec' = <<>>
    /\ UNCHANGED spongeVars
    /\ UNCHANGED <<origin, pieces, rejected, reading>>

\* Each round of its loop reads a word ...
ReadWord ==
    /\ Ready /\ need > 0 /\ ~reading
    /\ Read(WordSize)
    /\ reading' = TRUE
    /\ UNCHANGED <<origin, pieces, rejected, start, need, vec>>

LastWord == SubSeq(out, Len(out) - WordSize + 1, Len(out))

\* The word is taken without a look at the modulus.
TakeWord_Biased ==
    /\ Ready /\ reading
    /\ reading' = FALSE
    /\ vec' = Append(vec, LastWord) /\ need' = need - 1
    /\ UNCHANGED <<origin, pieces, rejected, start>>
    /\ UNCHANGED spongeVars

\* ... and appends it if it is below the modulus.
TakeWord ==
    LET at == Len(out) - WordSize
    IN  /\ Ready /\ reading
        /\ reading' = FALSE
        /\ \/ at \in rejected /\ UNCHANGED <<vec, need>>
           \/ at \notin rejected /\ vec' = Append(vec, LastWord) /\ need' = need - 1
        /\ UNCHANGED <<origin, pieces, rejected, start>>
        /\ UNCHANGED spongeVars

Init ==
    /\ SpongeInit
    /\ origin = <<>> /\ pieces = <<>> /\ start = 0 /\ need = 0
    /\ reading = FALSE /\ vec = <<>>
    /\ rejected \in Rejections

\* A caller that uses the sponge itself.
DirectWrite(p) ==
    /\ Idle /\ origin = <<>> /\ Len(msg) + Len(p) =< MaxIn
    /\ Write(p)
    /\ UNCHANGED xofVars

DirectNew(x) ==
    /\ rejected = {}
    /\ New128(x)
    /\ UNCHANGED xofVars

Loop == (CopyIn \/ CopyOut) /\ UNCHANGED xofVars

Next ==
    \/ \E x \in Byte : DirectNew(x)
    \/ \E p \in Pieces : DirectWrite(p)
    \/ \E o \in Origins : New(o)
    \/ WritePiece
    \/ \E k \in Reads : NextBytes(k)
    \/ \E length \in Lengths : NextVecField64(length)
    \/ ReadWord
    \/ TakeWord
    \/ Loop

Spec == Init /\ [][Next]_vars

-----------------------------------------------------------------------------
\* The five slices in one piece.
Flat(ss) == ss[1] \o ss[2] \o ss[3] \o ss[4] \o ss[5]

\* The seed, the usage, the context and the binder are bound each on its own:
\* what New has absorbed is the input of no other derivation, however the same
\* bytes are divided among them.
InputUnambiguous ==
    origin # <<>> /\ Idle =>
        \A o \in Origins :
            LET dst == DomainSeparationTag(o.usage, o.ctx)
            IN  Accepts(o.seed, dst) /\ Flat(XofInput(o.seed, dst, o.binder)) = msg
                    => o = origin

\* The vector is made of the words of the one-piece stream from where the call
\* began, in order and without the rejected ones: both aggregators that expand
\* the same seed hold the same elements.
VecExact ==
    LET accepted == {start + WordSize * i : i \in 0..Len(out)} \ rejected
        Before(x) == Cardinality({y \in accepted : y < x})
    IN  \A i \in 1..Len(vec) : \E x \in accepted :
            /\ Before(x) = i - 1
            /\ vec[i] = [k \in 1..WordSize |-> StreamByte(msg, d, x + k)]
=============================================================================
