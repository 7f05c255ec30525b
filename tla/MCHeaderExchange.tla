-------------------------- MODULE MCHeaderExchange --------------------------
(* Names with short and long components, for TLC. *)
EXTENDS HeaderExchange

\* "/a b//c", with a tab behind it, and a name with a component of sixteen characters.
MCNames == {<<47, 97, 32, 98, 47, 47, 99, 9>>, <<47, 100, 47>> \o [i \in 1 .. 16 |-> 100 + i]}

Plain == [minSuffix |-> 0, maxSuffix |-> 0, exclude |-> << >>, answerOriginKind |-> FALSE, scope |-> -1]
All == [minSuffix |-> 12, maxSuffix |-> -1, exclude |-> <<<<97>>>>, answerOriginKind |-> TRUE, scope |-> 1]
MCSelectors == {Plain, All}

MCNonces == {<<0, 0, 0, 0>>, <<1, 200, 0, 255>>}

MCPayloads == {<< >>, <<0, 8, 9>>, [i \in 1 .. 43 |-> i + 9]}

\* What another program may write: an attribute first, elements and tags this
\* parser does not know, with and without fields in them, Any in an Exclude.
A == Element(Dtag.Component, AppendBlockHeader(1, Type.udata) \o <<97>>)
Attribute == AppendBlockHeader(1, Type.dattr) \o AppendBlockHeader(1, Type.udata) \o <<120>>
Named(marker) == AppendBlockHeader(0, marker) \o <<121>>
Tagged(bytes) ==
    Named(Type.tag) \o Named(Type.attr) \o AppendBlockHeader(0, Type.udata) \o bytes \o <<Close>>
Interest(bytes) ==
    AppendBlockHeader(Dtag.Interest, Type.dtag) \o Attribute \o Element(Dtag.Name, A) \o bytes \o <<Close>>

Freshness == Element(58, AppendNumber(30))
Minimum == Tagged(Element(Dtag.MinSuffixComponents, AppendNumber(3)))
AnyName == AppendBlockHeader(13, Type.dtag) \o <<Close>>

\* A tag with a name of 2^32 bytes, which are none.
Full32 == <<127, 127, 127, 127, 128 + 15 * 8 + Type.tag>>

\* The first bytes of an Interest or a content, as of a write that was cut.
Cut ==
    LET name == <<[i \in 1 .. 8 |-> 100 + i]>>
        h == [NewInterest EXCEPT !.name = name, !.scope = 1, !.nonce = <<1, 2, 3, 4>>]
        c == [NewContent EXCEPT !.name = name]
    IN {[bytes |-> SubSeq(Serialize(x), 1, n), header |-> Nothing] : x \in {h, c}, n \in {1, 8, 12, 20}}

MCForeign ==
    Cut \cup
    {[bytes |-> Interest(Freshness \o AppendBlockHeader(3, Type.ext) \o Minimum),
      header |-> [NewInterest EXCEPT !.name = <<<<97>>>>, !.minSuffix = 3]],
     [bytes |-> Interest(Element(Dtag.Exclude, A \o AnyName \o Tagged(A))),
      header |-> [NewInterest EXCEPT !.name = <<<<97>>>>, !.exclude = <<<<97>>, <<97>>>>]],
     [bytes |-> Element(Dtag.Interest, Element(Dtag.Scope, AppendNumber(1))),
      header |-> [NewInterest EXCEPT !.scope = 1]],
     [bytes |-> Interest(Element(Dtag.Exclude, Full32 \o A \o <<Close>>)),
      header |-> [NewInterest EXCEPT !.name = <<<<97>>>>, !.exclude = <<<<97>>>>]],
     [bytes |-> Interest(Element(Dtag.Scope, AppendBlockHeader(1, Type.blob) \o <<49>>)),
      header |-> Refused],
     [bytes |-> Interest(Element(Dtag.Exclude, AppendTaggedBlob(Dtag.Component, << >>))),
      header |-> Refused],
     [bytes |-> Element(Dtag.ContentObject, Attribute), header |-> [kind |-> "undefined"]]}
=============================================================================
