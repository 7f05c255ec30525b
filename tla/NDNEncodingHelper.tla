------------------------- MODULE NDNEncodingHelper -------------------------
(***************************************************************************)
(* How the headers of Interests and contents are written: ccnb, the binary *)
(* encoding of CCN, byte by byte.  Serialize writes it and GetSize says    *)
(* how long it is; the two are separate code, and so they are here.        *)
(*                                                                         *)
(* A header is a record with the fields of InterestHeader, or the name of  *)
(* a ContentObjectHeader; a component of a name is a sequence of bytes; a  *)
(* duration is in microseconds.                                            *)
(***************************************************************************)
EXTENDS Integers, FiniteSets, Sequences, SequencesExt

\* The kinds of blocks, and the elements that are written or looked for.
Type == [ext |-> 0, tag |-> 1, dtag |-> 2, attr |-> 3, dattr |-> 4, blob |-> 5, udata |-> 6]
Close == 0
Dtag == [Name |-> 14, Component |-> 15, Content |-> 19, SignedInfo |-> 20, Interest |-> 26,
         Signature |-> 37, Nonce |-> 41, Scope |-> 42, Exclude |-> 43, AnswerOriginKind |-> 47,
         InterestLifetime |-> 48, SignatureBits |-> 54, PublisherPublicKeyDigest |-> 60,
         ContentObject |-> 64, MinSuffixComponents |-> 83, MaxSuffixComponents |-> 84,
         ChildSelector |-> 85, Nack |-> 200]

Octet == 0 .. 255

If(condition, bytes) == IF condition THEN bytes ELSE << >>

\* The division of C, which truncates toward zero, and its remainder.
Quotient(a, b) == IF a < 0 THEN -((-a) \div b) ELSE a \div b
Remains(a, b) == a - b * Quotient(a, b)

-----------------------------------------------------------------------------
(* What a block begins with: seven bits of its value to a byte, but only   *)
(* four in the last one, which also has the type and the high bit.         *)

\* The digits of a number, without leading zeros.
InBase(base, number) ==
    LET digits[n \in 0 .. number] ==
            IF n = 0 THEN << >> ELSE Append(digits[n \div base], n % base)
    IN digits[number]

AppendBlockHeader(value, type) ==
    Append(InBase(128, value \div 16), 128 + (value % 16) * 8 + type)

EstimateLeading(value) ==
    LET bytes[n \in 0 .. value] == IF n = 0 THEN 0 ELSE 1 + bytes[n \div 128]
    IN bytes[value]

EstimateBlockHeader(value) == 1 + EstimateLeading(value \div 16)

Digits(n) ==
    IF n = 0 THEN <<48>>
    ELSE LET digits == InBase(10, n) IN [i \in DOMAIN digits |-> 48 + digits[i]]

AppendNumber(n) == AppendBlockHeader(Len(Digits(n)), Type.udata) \o Digits(n)
EstimateNumber(n) == EstimateBlockHeader(Len(Digits(n))) + Len(Digits(n))

\* Mutant: an empty blob is written as a blob of no bytes.
AppendEmptyBlob(dtag, data) ==
    AppendBlockHeader(dtag, Type.dtag) \o AppendBlockHeader(Len(data), Type.blob) \o data \o <<Close>>

AppendTaggedBlob(dtag, data) ==
    AppendBlockHeader(dtag, Type.dtag)
        \o If(data # << >>, AppendBlockHeader(Len(data), Type.blob) \o data)
        \o <<Close>>

EstimateTaggedBlob(dtag, size) ==
    EstimateBlockHeader(dtag) + (IF size > 0 THEN EstimateBlockHeader(size) + size ELSE 0) + 1

AppendNameComponents(name) ==
    FlattenSeq([i \in DOMAIN name |-> AppendTaggedBlob(Dtag.Component, name[i])])

EstimateNameComponents(name) ==
    LET written[n \in 0 .. Len(name)] ==
            IF n = 0 THEN 0
            ELSE written[n - 1] + EstimateTaggedBlob(Dtag.Component, Len(name[n]))
    IN written[Len(name)]

-----------------------------------------------------------------------------
(* Durations: whole seconds, and a fraction of twelve bits.                *)

Second == 1000000

\* A number without its last bytes; at most four are taken away.
Shifted(n, bytes) ==
    CASE bytes = 0 -> n
      [] bytes = 1 -> n \div 256
      [] bytes = 2 -> n \div 65536
      [] bytes = 3 -> (n \div 65536) \div 256
      [] OTHER -> (n \div 65536) \div 65536

\* Two bytes, and as many more as the sixteenths of the seconds need: five
\* for a negative number.
Required(sixteenths) == 2 + Cardinality({k \in 0 .. 4 : Shifted(sixteenths, k) # 0})

\* The room is reckoned with the seconds of the minute, not with all of them.
RequiredBytes(time) == Required(Remains(Quotient(time, Second), 60) \div 16)

\* Of a number, its two's complement bytes.
Bytes(n, count) == [i \in 1 .. count |-> Shifted(n, count - i) % 256]

\* Mutant: one bit less of the seconds, and no fraction.
AppendCoarseTimestamp(time) ==
    AppendBlockHeader(RequiredBytes(time), Type.blob)
        \o Bytes(Quotient(time, Second) \div 16, RequiredBytes(time) - 2)
        \o Bytes((Quotient(time, Second) % 8) * 4096, 2)

AppendTimestampBlob(time) ==
    LET fraction == Quotient(Remains(time, Second) * 1600 + 195312, 390625)
    IN AppendBlockHeader(RequiredBytes(time), Type.blob)
           \o Bytes(Quotient(time, Second) \div 16, RequiredBytes(time) - 2)
           \o Bytes((Quotient(time, Second) % 16) * 4096 + fraction, 2)

EstimateTimestampBlob(time) ==
    LET required == Required(Quotient(time, Second) \div 16)
    IN EstimateBlockHeader(required) + required

-----------------------------------------------------------------------------
(* Headers *)

Element(dtag, bytes) == AppendBlockHeader(dtag, Type.dtag) \o bytes \o <<Close>>

SerializeInterest(h) ==
    AppendBlockHeader(Dtag.Interest, Type.dtag)
        \o Element(Dtag.Name, AppendNameComponents(h.name))
        \o If(h.minSuffix >= 0, Element(Dtag.MinSuffixComponents, AppendNumber(h.minSuffix)))
        \o If(h.maxSuffix >= 0, Element(Dtag.MaxSuffixComponents, AppendNumber(h.maxSuffix)))
        \o If(h.exclude # << >>, Element(Dtag.Exclude, AppendNameComponents(h.exclude)))
        \o If(h.childSelector, Element(Dtag.ChildSelector, AppendNumber(1)))
        \o If(h.answerOriginKind, Element(Dtag.AnswerOriginKind, AppendNumber(1)))
        \o If(h.scope >= 0, Element(Dtag.Scope, AppendNumber(h.scope)))
        \o If(h.lifetime # 0, Element(Dtag.InterestLifetime, AppendTimestampBlob(h.lifetime)))
        \o If(h.nonce # <<0, 0, 0, 0>>, AppendTaggedBlob(Dtag.Nonce, h.nonce))
        \o If(h.nack > 0, Element(Dtag.Nack, AppendNumber(h.nack)))
        \o <<Close>>

SizeIf(condition, dtag, size) ==
    IF condition THEN EstimateBlockHeader(dtag) + size + 1 ELSE 0

GetInterestSize(h) ==
    EstimateBlockHeader(Dtag.Interest)
        + EstimateBlockHeader(Dtag.Name) + EstimateNameComponents(h.name) + 1
        + SizeIf(h.minSuffix >= 0, Dtag.MinSuffixComponents, EstimateNumber(h.minSuffix))
        + SizeIf(h.maxSuffix >= 0, Dtag.MaxSuffixComponents, EstimateNumber(h.maxSuffix))
        + SizeIf(h.exclude # << >>, Dtag.Exclude, EstimateNameComponents(h.exclude))
        + SizeIf(h.childSelector, Dtag.ChildSelector, EstimateNumber(1))
        + SizeIf(h.answerOriginKind, Dtag.AnswerOriginKind, EstimateNumber(1))
        + SizeIf(h.scope >= 0, Dtag.Scope, EstimateNumber(h.scope))
        + SizeIf(h.lifetime # 0, Dtag.InterestLifetime, EstimateTimestampBlob(h.lifetime))
        + (IF h.nonce # <<0, 0, 0, 0>> THEN EstimateTaggedBlob(Dtag.Nonce, 4) ELSE 0)
        + SizeIf(h.nack > 0, Dtag.Nack, EstimateNumber(h.nack))
        + 1

\* The payload follows, and no closing tags: they are never written.
SerializeContent(h) ==
    AppendBlockHeader(Dtag.ContentObject, Type.dtag)
        \o Element(Dtag.Signature, AppendTaggedBlob(Dtag.SignatureBits, << >>))
        \o Element(Dtag.Name, AppendNameComponents(h.name))
        \o Element(Dtag.SignedInfo, AppendTaggedBlob(Dtag.PublisherPublicKeyDigest, << >>))
        \o AppendBlockHeader(Dtag.Content, Type.dtag)

GetContentSize(h) ==
    EstimateBlockHeader(Dtag.ContentObject)
        + SizeIf(TRUE, Dtag.Signature, EstimateTaggedBlob(Dtag.SignatureBits, 0))
        + SizeIf(TRUE, Dtag.Name, EstimateNameComponents(h.name))
        + SizeIf(TRUE, Dtag.SignedInfo, EstimateTaggedBlob(Dtag.PublisherPublicKeyDigest, 0))
        + EstimateBlockHeader(Dtag.Content)

Serialize(h) == IF h.kind = "interest" THEN SerializeInterest(h) ELSE SerializeContent(h)
GetSize(h) == IF h.kind = "interest" THEN GetInterestSize(h) ELSE GetContentSize(h)
=============================================================================
