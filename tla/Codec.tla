------------------------------- MODULE Codec --------------------------------
(***************************************************************************)
(* The two directions of the TLS presentation language as pkg/dap/wire     *)
(* uses them: a Builder that appends fields and a String that consumes     *)
(* them.                                                                   *)
(*                                                                         *)
(* A codec is a pair of functions: write gives the encodings of a value of *)
(* its type, none when Marshal fails and else one; read gives, for an      *)
(* input, the value at its front with the rest of the input, nothing when  *)
(* Unmarshal fails.  The codecs of types with parts are put together from  *)
(* those of the parts.                                                     *)
(***************************************************************************)
EXTENDS Variants, Integers, Sequences

CONSTANTS
    Radix,      \* the values of a byte, 256 in the code
    Modulus,    \* of Field64
    EltSize     \* the bytes of an encoded element, 8 in the code

Byte == 0..(Radix - 1)
Bytes == Seq(Byte)

Values(codec) == DOMAIN codec.write

-----------------------------------------------------------------------------
(* Integers.                                                                *)

RadixTo[n \in Nat] == IF n = 0 THEN 1 ELSE Radix * RadixTo[n - 1]

\* Every code point of the registries fits a byte, every element its bytes.
ASSUME RadixAssumption == Radix \in Nat /\ Radix > 11

ASSUME EltAssumption ==
    Modulus \in Nat /\ EltSize \in Nat \ {0} /\ Modulus =< RadixTo[EltSize]

BigEndian(x, w) == [i \in 1..w |-> (x \div RadixTo[w - i]) % Radix]

Number(s) == LET f[i \in 0..Len(s)] == IF i = 0 THEN 0 ELSE f[i - 1] * Radix + s[i]
             IN  f[Len(s)]

Mirror(s) == [i \in 1..Len(s) |-> s[Len(s) + 1 - i]]

-----------------------------------------------------------------------------
(* Builder and String.                                                      *)

\* A child builder whose length does not fit its prefix fails the message.
AddLengthPrefixed(w, contents) ==
    {BigEndian(Len(c), w) \o c : c \in {x \in contents : Len(x) < RadixTo[w]}}

\* The first k bytes and the rest.
ReadBytes(s, k) ==
    IF Len(s) >= k THEN {<<SubSeq(s, 1, k), SubSeq(s, k + 1, Len(s))>>} ELSE {}

\* A length beyond the end of the input takes what there is.
ReadLengthPrefixed_Short(s, w) ==
    UNION {ReadBytes(p[2], IF Number(p[1]) > Len(p[2]) THEN Len(p[2]) ELSE Number(p[1])) :
               p \in ReadBytes(s, w)}

ReadLengthPrefixed(s, w) ==
    UNION {ReadBytes(p[2], Number(p[1])) : p \in ReadBytes(s, w)}

-----------------------------------------------------------------------------
(* Fields.                                                                  *)

Uint(w) ==
    [write |-> [x \in {n \in Nat : n < RadixTo[w]} |-> {BigEndian(x, w)}],
     read  |-> [s \in Bytes |-> {<<Number(p[1]), p[2]>> : p \in ReadBytes(s, w)}]]

OfSize(k) == {s \in Bytes : Len(s) = k}

Fixed(k) ==
    [write |-> [x \in OfSize(k) |-> {x}],
     read  |-> [s \in Bytes |-> ReadBytes(s, k)]]

\* At least min bytes behind their number.
Opaque(w, min) ==
    [write |-> [x \in Bytes |-> AddLengthPrefixed(w, IF Len(x) >= min THEN {x} ELSE {})],
     read  |-> [s \in Bytes |-> {p \in ReadLengthPrefixed(s, w) : Len(p[1]) >= min}]]

\* A report error of dialect v.
ErrorCode(v) ==
    [write |-> [e \in ReportErrors |->
                    IF HasCodePoint(e, v) THEN {<<ReportErrorToWire(e, v)>>} ELSE {}],
     read  |-> [s \in Bytes |->
                    UNION {{<<e, p[2]>> : e \in ReportErrorFromWire(Number(p[1]), v)} :
                               p \in ReadBytes(s, 1)}]]

\* An element of the field, lowest byte first.
Element ==
    [write |-> [x \in 0..(Modulus - 1) |-> {Mirror(BigEndian(x, EltSize))}],
     read  |-> [s \in Bytes |->
                    {p \in {<<Number(Mirror(r[1])), r[2]>> : r \in ReadBytes(s, EltSize)} :
                         p[1] < Modulus}]]

\* The type of c, refused whatever the input.
Refused(c) ==
    [write |-> [x \in Values(c) |-> {}],
     read  |-> [s \in Bytes |-> {}]]

-----------------------------------------------------------------------------
(* Types with parts.                                                        *)

\* b behind a: a value is a pair, of more fields a pair of pairs.
Followed(a, b) ==
    [write |-> [x \in Values(a) \X Values(b) |->
                    {p \o q : p \in a.write[x[1]], q \in b.write[x[2]]}],
     read  |-> [s \in Bytes |->
                    UNION {{<<<<p[1], q[1]>>, q[2]>> : q \in b.read[p[2]]} : p \in a.read[s]}]]

a ** b == Followed(a, b)

\* The encodings of the elements of xs, one after the other.
WritesEach(c, xs) ==
    LET out[n \in 0..Len(xs)] ==
            IF n = 0 THEN {<<>>} ELSE {p \o q : p \in out[n - 1], q \in c.write[xs[n]]}
    IN  out[Len(xs)]

\* One more element off the input, unless it is used up.
ReadsNext(c, p) ==
    IF p[2] = <<>> THEN {p} ELSE {<<Append(p[1], q[1]), q[2]>> : q \in c.read[p[2]]}

\* Elements up to the end of the input; a broken one fails the vector.  An
\* element takes a byte at least.
ReadsEach(c, s) ==
    LET in[n \in 0..Len(s)] ==
            IF n = 0 THEN {<<<<>>, s>>} ELSE UNION {ReadsNext(c, p) : p \in in[n - 1]}
    IN  {p[1] : p \in {q \in in[Len(s)] : q[2] = <<>>}}

\* Elements behind their number of bytes.
Vector(w, c) ==
    [write |-> [xs \in Seq(Values(c)) |-> AddLengthPrefixed(w, WritesEach(c, xs))],
     read  |-> [s \in Bytes |->
                    UNION {{<<xs, p[2]>> : xs \in ReadsEach(c, p[1])} :
                               p \in ReadLengthPrefixed(s, w)}]]

\* Elements up to the end of the message.
Remainder(c) ==
    [write |-> [xs \in Seq(Values(c)) |-> WritesEach(c, xs)],
     read  |-> [s \in Bytes |-> {<<xs, <<>>>> : xs \in ReadsEach(c, s)}]]

\* n elements, which are all of the message.
Exactly(n, c) ==
    [write |-> [xs \in {ys \in Seq(Values(c)) : Len(ys) = n} |-> WritesEach(c, xs)],
     read  |-> [s \in Bytes |->
                    {<<xs, <<>>>> : xs \in {ys \in ReadsEach(c, s) : Len(ys) = n}}]]

\* A type byte with the fields of that type, or alone for an unknown type.
Variant(c0, c1, c2) ==
    ({0} \X Values(c0)) \union ({1} \X Values(c1)) \union ({2} \X Values(c2))
        \union ((Byte \ 0..2) \X {<<>>})

Case(t, c0, c1, c2) == IF t = 0 THEN c0 ELSE IF t = 1 THEN c1 ELSE c2

\* An unknown type is refused; lax writes its byte alone.
Select(c0, c1, c2, lax) ==
    [write |-> [x \in Variant(c0, c1, c2) |->
                    IF x[1] \in 0..2
                    THEN {<<x[1]>> \o b : b \in Case(x[1], c0, c1, c2).write[x[2]]}
                    ELSE IF lax THEN {<<x[1]>>} ELSE {}],
     read  |-> [s \in Bytes |->
                    UNION {{<<<<Number(p[1]), q[1]>>, q[2]>> :
                               q \in Case(Number(p[1]), c0, c1, c2).read[p[2]]} :
                           p \in {r \in ReadBytes(s, 1) : Number(r[1]) \in 0..2}}]]

\* A type without fields.
Empty ==
    [write |-> [x \in {<<>>} |-> {<<>>}],
     read  |-> [s \in Bytes |-> {<<<<>>, s>>}]]

-----------------------------------------------------------------------------
marshal(c, x) == c.write[x]

\* Bytes behind the message are ignored.
unmarshalAll_Trailing(c, s) == {p[1] : p \in c.read[s]}

\* The message must take up all of the input.
unmarshalAll(c, s) == {p[1] : p \in {q \in c.read[s] : q[2] = <<>>}}
=============================================================================
