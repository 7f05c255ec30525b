----------------------------- MODULE CcnbParser -----------------------------
(***************************************************************************)
(* How headers are read: the parser makes a tree of blocks of the bytes,   *)
(* and visitors take the fields they know from it.  An element that is cut *)
(* short throws; the parser stops where the payload of a content begins.   *)
(*                                                                         *)
(* A parse is the block and the position behind it, or "thrown".           *)
(***************************************************************************)
EXTENDS NDNEncodingHelper, Subsequences

\* Blocks: a leaf has data, a tag or dtag the blocks nested in it.
Leaf(type, data) == [type |-> type, dtag |-> 0, data |-> data, nested |-> << >>]
Tree(type, dtag, nested) == [type |-> type, dtag |-> dtag, data |-> << >>, nested |-> nested]

Parsed(block, next) == [outcome |-> "parsed", block |-> block, next |-> next]
Stop(outcome) == [outcome |-> outcome, block |-> Leaf(Type.ext, << >>), next |-> 0]
Thrown == Stop("thrown")

IsEnd(d, at) == at > Len(d)

-----------------------------------------------------------------------------
(* The syntax tree *)

\* The value of a block and its type.  The end of the bytes may come before the
\* byte with the high bit; the exception for it is made and not thrown.  The
\* value has 32 bits: 28 of the bytes before the last, seven of each, and four
\* of the last.  One longer than any buffer, and no known element, is Beyond;
\* the largest of all, to which one more is nothing, is Full.
Beyond == 4096 * 4096
Full == Beyond + 1
Saturated(value, low) == IF value = 16 * Beyond - 1 /\ low = 15 THEN Full ELSE Beyond
OneMore(length) == IF length = Full THEN 0 ELSE length + 1

Marker(d, at) ==
    LET High(k) == k \in at .. Len(d) /\ d[k] >= 128
        last == IF \E k \in at .. Len(d) : High(k)
                THEN CHOOSE k \in at .. Len(d) : High(k) /\ \A j \in at .. k - 1 : ~High(j)
                ELSE Len(d)
        Byte(k) == IF k < at THEN 0 ELSE d[k]
        value == ((Byte(last - 4) * 128 + Byte(last - 3)) * 128 + Byte(last - 2)) * 128
                     + Byte(last - 1)
        low == (Byte(last) % 128) \div 8
    IN [value |-> IF value < Beyond \div 16 THEN value * 16 + low ELSE Saturated(value, low),
        type |-> Byte(last) % 8, next |-> last + 1]

\* Udata; the name of a Tag or an Attr is one byte longer.
Text(d, at, type, length) ==
    IF at + length - 1 > Len(d) THEN Thrown
    ELSE Parsed(Leaf(type, SubSeq(d, at, at + length - 1)), at + length)

\* Bytes, taken as text is, which must all be there.
Blob(d, at, length) == Text(d, at, Type.blob, length)

Ext(at) == Parsed(Leaf(Type.ext, << >>), at)

\* A parse of blocks one behind the other, up to the closing byte.
Blocks(outcome, blocks, next) == [outcome |-> outcome, blocks |-> blocks, next |-> next]

IsAttribute(block) == block.type \in {Type.attr, Type.dattr}

\* What is nested in an element, of which the contents begin at a position:
\* the attributes at its beginning are kept elsewhere.  Later parses are those
\* of the positions behind the element's header.
Nested(later, at, dtag) ==
    LET n == later[at][dtag = Dtag.ContentObject]
        attributes == {i \in DOMAIN n.blocks : \A j \in 1 .. i : IsAttribute(n.blocks[j])}
    IN [n EXCEPT !.blocks = SubSeq(@, Cardinality(attributes) + 1, Len(@))]

\* Mutant: an element that ends with the bytes is taken as it is.
DtagAtEnd(later, at, dtag) ==
    LET n == IF dtag = Dtag.Content THEN Blocks("open", << >>, at) ELSE Nested(later, at, dtag)
    IN IF n.outcome = "thrown" THEN Thrown
       ELSE Parsed(Tree(Type.dtag, dtag, n.blocks), n.next)

\* A ContentObject with nothing in it: the last of its blocks, of which there
\* are none, is looked at.
DtagBlock(later, at, dtag) ==
    LET n == IF dtag = Dtag.Content THEN Blocks("open", << >>, at) ELSE Nested(later, at, dtag)
    IN IF n.outcome \in {"thrown", "undefined"} THEN Stop(n.outcome)
       ELSE IF dtag = Dtag.ContentObject /\ n.blocks = << >> THEN Stop("undefined")
       ELSE IF n.outcome = "end" THEN Thrown
       ELSE Parsed(Tree(Type.dtag, dtag, n.blocks), n.next)

TagBlock(d, later, at, length) ==
    LET name == Text(d, at, Type.tag, OneMore(length))
        n == Nested(later, name.next, 0)
    IN IF name.outcome # "parsed" \/ n.outcome # "closed" THEN Thrown
       ELSE Parsed(Tree(Type.tag, 0, n.blocks), n.next)

\* The value of an attribute must be text.
Value(d, at, type) ==
    LET m == Marker(d, at)
        value == Text(d, m.next, type, m.value)
    IN IF m.type # Type.udata THEN Thrown ELSE value

Attr(d, at, length) ==
    LET name == Text(d, at, Type.attr, OneMore(length))
    IN IF name.outcome # "parsed" THEN Thrown ELSE Value(d, name.next, Type.attr)

Dattr(d, at) == Value(d, at, Type.dattr)

\* The block that such a marker begins.
BlockBehind(d, later, m) ==
    CASE m.type = Type.blob -> Blob(d, m.next, m.value)
      [] m.type = Type.udata -> Text(d, m.next, Type.udata, m.value)
      [] m.type = Type.tag -> TagBlock(d, later, m.next, m.value)
      [] m.type = Type.attr -> Attr(d, m.next, m.value)
      [] m.type = Type.dtag -> DtagBlock(later, m.next, m.value)
      [] m.type = Type.dattr -> Dattr(d, m.next)
      [] m.type = Type.ext -> Ext(m.next)
      [] OTHER -> Thrown

ParseBlock(d, later, at) == BlockBehind(d, later, Marker(d, at))

\* The visitors go into every tag, so what is nested in one follows it.
WithNested(block) == <<block>> \o If(block.type = Type.tag, block.nested)

\* The blocks from a position on.  In a ContentObject Content is the last.
BlocksFrom(d, later, at) == [inContentObject \in BOOLEAN |->
    LET p == ParseBlock(d, later, at)
        rest == later[p.next][inContentObject]
    IN IF IsEnd(d, at) THEN Blocks("end", << >>, at)
       ELSE IF d[at] = Close THEN Blocks("closed", << >>, at + 1)
       ELSE IF p.outcome # "parsed" THEN Blocks(p.outcome, << >>, at)
       ELSE IF inContentObject /\ p.block.dtag = Dtag.Content THEN Blocks("open", <<p.block>>, p.next)
       ELSE Blocks(rest.outcome, WithNested(p.block) \o rest.blocks, rest.next)]

\* Of every position the blocks that begin there; they depend on later ones.
AllBlocks(d) ==
    LET from[at \in 1 .. Len(d) + 1] ==
            BlocksFrom(d, [k \in at + 1 .. Len(d) + 1 |-> from[k]], at)
    IN from

SyntaxTree(d) == ParseBlock(d, AllBlocks(d), 1)

-----------------------------------------------------------------------------
(* The visitors.  What a field of the wrong form throws ends the visit.    *)

Refused == [kind |-> "thrown"]

OnlyOne(block) == Len(block.nested) = 1 /\ block.nested[1].type \in {Type.blob, Type.udata}

OnlyText(block, type) == Len(block.nested) = 1 /\ block.nested[1].type = type

\* The text is the digits of an int: other texts are not among the messages.
NonNegativeInteger(text) ==
    LET value[n \in 0 .. Len(text)] == IF n = 0 THEN 0 ELSE 10 * value[n - 1] + text[n] - 48
    IN value[Len(text)]

SignedByte(b) == IF b < 128 THEN b ELSE b - 256

\* The last byte is a signed char: from 128 on it hides the bits above it.
Timestamp(blob) ==
    LET size == Len(blob)
        combo == blob[size - 1]
        sixteenths[n \in 0 .. size - 2] == IF n = 0 THEN 0 ELSE 256 * sixteenths[n - 1] + blob[n]
        seconds == sixteenths[size - 2] * 16 + combo \div 16
        low == SignedByte(blob[size])
        fraction == IF low < 0 THEN low ELSE (combo % 16) * 256 + low
    IN seconds * Second + Quotient(fraction * 15625, 64)

\* Text of either kind; other elements in a name are passed over.
StringVisitor(block) == block.nested[1].data

NameComponents(blocks) ==
    LET components == Kept(blocks, {i \in DOMAIN blocks : blocks[i].dtag = Dtag.Component})
    IN [thrown |-> \E i \in DOMAIN components : ~OnlyOne(components[i]),
        name |-> [i \in DOMAIN components |->
                     IF OnlyOne(components[i]) THEN StringVisitor(components[i]) ELSE << >>]]

\* The fields with a number in them.
NumberField(h, dtag, n) ==
    CASE dtag = Dtag.MinSuffixComponents -> [h EXCEPT !.minSuffix = n]
      [] dtag = Dtag.MaxSuffixComponents -> [h EXCEPT !.maxSuffix = n]
      [] dtag = Dtag.ChildSelector -> [h EXCEPT !.childSelector = (n = 1)]
      [] dtag = Dtag.AnswerOriginKind -> [h EXCEPT !.answerOriginKind = (n = 1)]
      [] dtag = Dtag.Scope -> [h EXCEPT !.scope = SignedByte(n % 256)]
      [] dtag = Dtag.Nack -> [h EXCEPT !.nack = n]

NumberFields ==
    {Dtag.MinSuffixComponents, Dtag.MaxSuffixComponents, Dtag.ChildSelector,
     Dtag.AnswerOriginKind, Dtag.Scope, Dtag.Nack}

\* A nonce is the first four bytes of a blob that has as many.
HoldsNonce(block) == OnlyText(block, Type.blob) /\ Len(block.nested[1].data) >= 4

\* A field of an Interest; other elements are passed over.
InterestVisitor(h, block) ==
    CASE block.dtag \in {Dtag.Name, Dtag.Exclude} ->
            LET n == NameComponents(block.nested)
            IN IF n.thrown THEN Refused
               ELSE IF block.dtag = Dtag.Name THEN [h EXCEPT !.name = n.name]
               ELSE [h EXCEPT !.exclude = n.name]
      [] block.dtag \in NumberFields ->
            IF OnlyText(block, Type.udata)
            THEN NumberField(h, block.dtag, NonNegativeInteger(block.nested[1].data))
            ELSE Refused
      [] block.dtag = Dtag.InterestLifetime ->
            IF OnlyText(block, Type.blob) /\ Len(block.nested[1].data) >= 2
            THEN [h EXCEPT !.lifetime = Timestamp(block.nested[1].data)]
            ELSE Refused
      [] block.dtag = Dtag.Nonce ->
            IF HoldsNonce(block)
            THEN [h EXCEPT !.nonce = SubSeq(block.nested[1].data, 1, 4)]
            ELSE Refused
      [] OTHER -> h

ContentObjectVisitor(h, block) ==
    LET n == NameComponents(block.nested)
    IN IF block.dtag # Dtag.Name THEN h
       ELSE IF n.thrown THEN Refused
       ELSE [h EXCEPT !.name = n.name]

\* A visit goes into elements of the kind of the header, and no further once
\* something is thrown.
Opens(h, block) ==
    block.dtag = (IF h.kind = "interest" THEN Dtag.Interest ELSE Dtag.ContentObject)

Visit(visit) ==
    IF visit.todo = << >> \/ visit.header.kind = "thrown" THEN visit
    ELSE LET block == Head(visit.todo)
             h == visit.header
         IN IF Opens(h, block) THEN [visit EXCEPT !.todo = block.nested \o Tail(@)]
            ELSE [todo |-> Tail(visit.todo),
                  header |-> IF h.kind = "interest" THEN InterestVisitor(h, block)
                             ELSE ContentObjectVisitor(h, block)]

\* The header when all is visited: each of the blocks has a byte at least.
Visited(h, block, size) ==
    LET visit[n \in 0 .. size] ==
            IF n = 0 THEN [todo |-> <<block>>, header |-> h] ELSE Visit(visit[n - 1])
    IN visit[size].header

-----------------------------------------------------------------------------
(* Headers *)

\* No name has been read or set; GetName throws then.
NoName == <<<<-1>>>>

NewInterest ==
    [kind |-> "interest", name |-> NoName, minSuffix |-> -1, maxSuffix |-> -1,
     exclude |-> << >>, childSelector |-> FALSE, answerOriginKind |-> FALSE, scope |-> -1,
     lifetime |-> 0, nonce |-> <<0, 0, 0, 0>>, nack |-> 0]

NewContent == [kind |-> "content", name |-> NoName]

\* The first two bytes tell what a packet is; there may not be two.
GetHeaderType(d) ==
    LET Byte(i) == IF i \in DOMAIN d THEN d[i] ELSE 0
    IN CASE Byte(1) = 1 /\ Byte(2) = 210 -> "interest"
         [] Byte(1) = 4 /\ Byte(2) = 130 -> "content"
         [] OTHER -> "unknown"

\* What a visitor makes of a parse, beginning with a new header.
HeaderRead(p, h, size) ==
    IF p.outcome # "parsed" THEN [kind |-> p.outcome] ELSE Visited(h, p.block, size)

Deserialize(d, h) == HeaderRead(SyntaxTree(d), h, Len(d))

DeserializeInterest(d) == Deserialize(d, NewInterest)

DeserializeContent(d) == Deserialize(d, NewContent)
=============================================================================
