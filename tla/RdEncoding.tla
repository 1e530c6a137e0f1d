----------------------------- MODULE RdEncoding -----------------------------
(***************************************************************************)
(* Variable-length integers and hexadecimal text of rdencoding.c.          *)
(*                                                                         *)
(* A writer encodes values into a stream, whose bytes reach a reader one   *)
(* at a time; the reader tries to decode whatever it has.  The functions   *)
(* are those of the code with the width of the integers and of the groups  *)
(* of bits in a byte as parameters: 64 and 7 there, and 10 = ceil(64/7)    *)
(* bytes at most.  Hexadecimal text is a sequence of digits 0..15,         *)
(* separators that the decoder ignores and characters that stop it.        *)
(***************************************************************************)
EXTENDS Integers, SequencesExt

CONSTANTS
    VBits,          \* bits of an integer, 64 in the code
    VGroup,         \* bits of it in each byte, 7 in the code
    SignedValues,   \* values written as signed integers
    HexBytes,       \* bytes written as hexadecimal text
    MaxValues,      \* bound on the values written to one stream
    MaxHex          \* bound on the bytes of one text

\* The second line is arithmetic, for provers that know nothing of powers.
ASSUME EncAssumption ==
    /\ VBits \in Nat /\ VGroup \in 1..VBits
    /\ 2 ^ VGroup \in Nat \ {0, 1} /\ 2 ^ (VBits - 1) \in Nat \ {0} /\ 2 ^ VBits = 2 * 2 ^ (VBits - 1)
    /\ SignedValues \subseteq -(2 ^ (VBits - 1))..(2 ^ (VBits - 1) - 1)
    /\ HexBytes \subseteq 0..255 /\ {MaxValues, MaxHex} \subseteq Nat

VARIABLES
    encMode,    \* what the stream carries: "u64", "s64" or "hex"
    sent,       \* the values written so far
    wire,       \* what was written and has not reached the reader
    arrived,    \* what has reached the reader and was not decoded
    received,   \* the values the reader decoded
    dstlens     \* history: the sizes of the buffers for a text and for its bytes

encVars == <<encMode, sent, wire, arrived, received, dstlens>>

Radix == 2 ^ VGroup
MaxVlen == (VBits + VGroup - 1) \div VGroup
Unsigneds == 0..(2 ^ VBits - 1)
Failed == <<>>     \* the value -1: no byte is used

-----------------------------------------------------------------------------
(***************************************************************************)
(* Variable-length integers.                                               *)
(***************************************************************************)

\* The bytes of rd_varint_encode_u64(): low groups first, each but the last
\* with its high bit set.
VarintBytes[u \in Unsigneds] ==
    IF u < Radix THEN <<u>> ELSE <<(u % Radix) + Radix>> \o VarintBytes[u \div Radix]

\* rd_varint_encode_u64() into size bytes.
rd_varint_encode_u64(u, size) ==
    IF Len(VarintBytes[u]) > size THEN Failed ELSE VarintBytes[u]

\* rd_varint_encode_s64(): "uval ^= uval" makes every negative value 0.
rd_varint_encode_s64(val, size) ==
    rd_varint_encode_u64(IF val < 0 THEN 0 ELSE (2 * val) % 2 ^ VBits, size)

\* Variant with a fault: the length of a value is tested against the limit
\* before its last byte is counted out.
TooLongEarly(n) == n >= MaxVlen

\* A value whose last byte is the n-th has too many bytes.
TooLong(n) == n > MaxVlen

\* The place of the byte that ends the first value in buf, or 0.
LastByte(buf) == SelectInSeq(buf, LAMBDA byte : byte < Radix)

\* What the first n bytes of buf add up to, each group shifted further.
Accumulated(buf, n) ==
    LET shifted[i \in 0..n] == IF i = 0 THEN 1 ELSE Radix * shifted[i - 1]
        uval[i \in 0..n] ==
            IF i = 0 THEN 0 ELSE uval[i - 1] + (buf[i] % Radix) * shifted[i - 1]
    IN uval[n]

\* rd_varint_decode_u64(): the value and *vlenp, which is not positive when
\* there are too few bytes or too many.
rd_varint_decode_u64(buf) ==
    LET n == LastByte(buf)
    IN  IF n = 0 THEN [val |-> 0, vlen |-> -(Len(buf) + 1)]
        ELSE IF TooLong(n) THEN [val |-> 0, vlen |-> -(n - 1)]
        ELSE [val |-> Accumulated(buf, n) % 2 ^ VBits, vlen |-> n]

\* rd_varint_decode_s64(): "val ^= val" makes every odd number 0.
rd_varint_decode_s64(buf) ==
    LET u == rd_varint_decode_u64(buf)
    IN  [vlen |-> u.vlen,
         val |-> IF u.vlen <= 0 \/ u.val % 2 = 1 THEN 0 ELSE u.val \div 2]

-----------------------------------------------------------------------------
(***************************************************************************)
(* Hexadecimal text.                                                       *)
(***************************************************************************)

Separator == 16
Stop == 17
IsDigit(ch) == ch \in 0..15

\* The bytes of n that rd_bin2hex() has room for in dstlen characters: it
\* stops when fewer than four are left, with room for a null and one to spare.
RoomFor(n, dstlen) == Cardinality({i \in 1..n : 2 * (i - 1) + 3 < dstlen})

rd_bin2hex(bin, dstlen) ==
    [i \in 1..2 * RoomFor(Len(bin), dstlen) |->
        LET byte == bin[(i + 1) \div 2]
        IN  IF i % 2 = 1 THEN byte \div 16 ELSE byte % 16]

\* The place of the first character that stops rd_hex2bin(), or 0.
StopAt(text) == SelectInSeq(text, LAMBDA ch : ch = Stop)

\* The digits of a text, without its separators.
Digits(text) ==
    LET upto[i \in 0..Len(text)] ==
            IF i = 0 THEN <<>>
            ELSE IF IsDigit(text[i]) THEN Append(upto[i - 1], text[i]) ELSE upto[i - 1]
    IN upto[Len(text)]

\* rd_hex2bin(): pairs of the digits in front of the first other character.
\* A digit left over is stored but not counted.
rd_hex2bin(text, dstlen) ==
    LET stop == StopAt(text)
        read == IF stop = 0 THEN text ELSE SubSeq(text, 1, stop - 1)
        digits == Digits(read)
    IN  [i \in 1..Min({dstlen, Len(digits) \div 2}) |->
            16 * digits[2 * i - 1] + digits[2 * i]]

-----------------------------------------------------------------------------
EncInit ==
    /\ encMode \in {"u64", "s64", "hex"}
    /\ sent = <<>> /\ wire = <<>> /\ arrived = <<>> /\ received = <<>>
    /\ dstlens = [text |-> 0, bin |-> 0]

\* The writer encodes a value into a buffer of size bytes; if the buffer is
\* too small it has written nothing that counts.
Write(u, bytes) ==
    /\ Len(sent) < MaxValues
    /\ bytes # Failed
    /\ sent' = Append(sent, u)
    /\ wire' = wire \o bytes
    /\ UNCHANGED <<encMode, arrived, received, dstlens>>

WriteUnsigned(u, size) == encMode = "u64" /\ Write(u, rd_varint_encode_u64(u, size))
WriteSigned(s, size) == encMode = "s64" /\ Write(s, rd_varint_encode_s64(s, size))

\* One more byte reaches the reader.
Arrive ==
    /\ encMode # "hex" /\ wire # <<>>
    /\ arrived' = Append(arrived, Head(wire))
    /\ wire' = Tail(wire)
    /\ UNCHANGED <<encMode, sent, received, dstlens>>

\* The reader decodes a value; when *vlenp says that this failed it waits.
Decoded ==
    IF encMode = "u64" THEN rd_varint_decode_u64(arrived)
    ELSE rd_varint_decode_s64(arrived)

Read ==
    /\ encMode # "hex" /\ Decoded.vlen > 0
    /\ received' = Append(received, Decoded.val)
    /\ arrived' = SubSeq(arrived, Decoded.vlen + 1, Len(arrived))
    /\ UNCHANGED <<encMode, sent, wire, dstlens>>

\* A text of bin for a buffer of dstlen characters, with a separator in it at
\* some place and, behind it, something that is not a digit.
WriteText(bin, dstlen, at) ==
    /\ encMode = "hex" /\ wire = <<>> /\ arrived = <<>>
    /\ LET text == rd_bin2hex(bin, dstlen)
       IN  /\ at \in 1..Len(text) + 1
           /\ wire' = Append(InsertAt(text, at, Separator), Stop)
    /\ sent' = bin
    /\ dstlens' = [dstlens EXCEPT !.text = dstlen]
    /\ UNCHANGED <<encMode, arrived, received>>

ReadText(dstlen) ==
    /\ encMode = "hex" /\ wire # <<>>
    /\ received' = rd_hex2bin(wire, dstlen)
    /\ arrived' = wire
    /\ wire' = <<>>
    /\ dstlens' = [dstlens EXCEPT !.bin = dstlen]
    /\ UNCHANGED <<encMode, sent>>

EncNext ==
    \/ \E size \in 0..MaxVlen :
        \/ \E u \in Unsigneds : WriteUnsigned(u, size)
        \/ \E s \in SignedValues : WriteSigned(s, size)
    \/ Arrive
    \/ Read
    \/ \E bin \in BoundedSeq(HexBytes, MaxHex), dstlen, at \in 0..2 * MaxHex + 2 :
        WriteText(bin, dstlen, at)
    \/ \E dstlen \in 0..MaxHex : ReadText(dstlen)

EncSpec == EncInit /\ [][EncNext]_encVars
-----------------------------------------------------------------------------
\* What the sizes of the two buffers let through.  rdencoding.h asks for
\* 2n + 1 characters for n bytes; rd_bin2hex() wants one more, and given what
\* the header asks for it leaves the last byte out.
TextArrives ==
    LET n == Len(sent)
    IN  /\ (received = sent) <=> (n = 0 \/ (dstlens.text >= 2 * n + 2 /\ dstlens.bin >= n))
        /\ (n > 0 /\ dstlens.text = 2 * n + 1 /\ dstlens.bin >= n) => Len(received) = n - 1

\* Integers arrive as they were written, in their order and none cut short or
\* made up, however their bytes are split between attempts to decode them, and
\* all of them arrive.  Text decodes to the bytes it was made from or to the
\* first of them, with separators anywhere: to all of them exactly if the
\* buffer for the text has a character more than rdencoding.h asks for, and to
\* all but the last if it is as large as rdencoding.h asks for.
ValuesArriveIntact ==
    /\ IsPrefix(received, sent)
    /\ (encMode # "hex" /\ wire = <<>> /\ Decoded.vlen <= 0) => received = sent
    /\ (encMode = "hex" /\ arrived # <<>>) => TextArrives

\* rdencoding.h calls rd_varint_encode_s64() the same as the unsigned one but
\* for signed integers, and the decoder likewise: what is written as a signed
\* integer arrives.
SignedValuesArrive == encMode = "s64" => IsPrefix(received, sent)
=============================================================================
