------------------------------- MODULE WireProofs -------------------------------
(***************************************************************************)
(* What a receiver decodes is what the sender encoded, although zero       *)
(* values do not travel.                                                   *)
(***************************************************************************)
EXTENDS Wire, SequenceTheorems, TLAPS

\* A message type whose fields have numbers of their own, and its messages.
Distinct(T) == \A f, g \in DOMAIN T : T[f].number = T[g].number => f = g

Of(T, m) == m = [f \in DOMAIN T |-> m[f]]

\* The values of a field: a message, when there is one, is of the field's type, and
\* that type is flat; so is each of repeated messages.
Fits(fd, v) ==
    /\ fd.kind = "message" => v = Nil \/ (Distinct(fd.of) /\ Of(fd.of, v))
    /\ fd.kind = "messages" =>
         /\ Distinct(fd.of)
         /\ Len(v) \in Nat /\ v = [j \in 1 .. Len(v) |-> v[j]]
         /\ \A j \in 1 .. Len(v) : Of(fd.of, v[j])

WellFormed(T, m) ==
    Distinct(T) /\ Of(T, m) /\ \A f \in DOMAIN T : Fits(T[f], m[f])

-------------------------------------------------------------------------------

LEMMA NumberedInverse ==
    ASSUME NEW T, Distinct(T), NEW f \in DOMAIN T
    PROVE  Numbered(T, T[f].number) = f
<1>1. \E g \in DOMAIN T : T[g].number = T[f].number
    OBVIOUS
<1>2. /\ Numbered(T, T[f].number) \in DOMAIN T
      /\ T[Numbered(T, T[f].number)].number = T[f].number
    BY <1>1 DEF Numbered
<1> QED BY <1>2 DEF Distinct

LEMMA NumberOfField ==
    ASSUME NEW T, Distinct(T), NEW F \in SUBSET DOMAIN T, NEW f \in DOMAIN T
    PROVE  T[f].number \in Numbers(T, F) <=> f \in F
    BY DEF Numbers, Distinct

\* A flat message arrives as it was sent.
LEMMA FlatRoundTrip ==
    ASSUME NEW T, NEW m, Distinct(T), Of(T, m)
    PROVE  DecodeFlat(T, EncodeFlat(T, m)) = m
<1> DEFINE w == EncodeFlat(T, m)
<1>1. Present(T, m) \in SUBSET DOMAIN T
    BY DEF Present
<1>2. DOMAIN w = Numbers(T, Present(T, m))
    BY DEF EncodeFlat
<1>3. ASSUME NEW f \in DOMAIN T
      PROVE  (IF T[f].number \in DOMAIN w THEN w[T[f].number] ELSE ZeroValue(T[f].kind))
                 = m[f]
    <2>1. T[f].number \in DOMAIN w <=> f \in Present(T, m)
        BY <1>1, <1>2, NumberOfField
    <2>2. CASE f \in Present(T, m)
        <3>1. w[T[f].number] = m[Numbered(T, T[f].number)]
            BY <1>2, <2>1, <2>2 DEF EncodeFlat
        <3> QED BY <3>1, <2>1, <2>2, NumberedInverse
    <2>3. CASE f \notin Present(T, m)
        BY <2>1, <2>3 DEF Present
    <2> QED BY <2>2, <2>3
<1>4. DecodeFlat(T, w) = [f \in DOMAIN T |-> m[f]]
    BY <1>3 DEF DecodeFlat
<1> QED BY <1>4 DEF Of

LEMMA IntervalsEqual ==
    ASSUME NEW a \in Nat, NEW b \in Nat, 1 .. a = 1 .. b PROVE a = b
<1>1. CASE a < b
    BY <1>1, b \in 1 .. b
<1>2. CASE b < a
    BY <1>2, a \in 1 .. a
<1> QED BY <1>1, <1>2

\* So does the value of a field.
LEMMA ValueRoundTrip ==
    ASSUME NEW fd, NEW v, Fits(fd, v), v # ZeroValue(fd.kind)
    PROVE  DecodeValue(fd, EncodeValue(fd, v)) = v
<1>1. CASE fd.kind = "message"
    <2>1. v # Nil /\ Distinct(fd.of) /\ Of(fd.of, v)
        BY <1>1 DEF Fits, ZeroValue
    <2>2. DecodeValue(fd, EncodeValue(fd, v)) = DecodeFlat(fd.of, EncodeFlat(fd.of, v))
        BY <1>1 DEF DecodeValue, EncodeValue
    <2> QED BY <2>1, <2>2, FlatRoundTrip
<1>2. CASE fd.kind = "messages"
    <2> DEFINE e == [j \in 1 .. Len(v) |-> EncodeFlat(fd.of, v[j])]
    <2>1. EncodeValue(fd, v) = e /\ DecodeValue(fd, e) =
              [j \in 1 .. Len(e) |-> DecodeFlat(fd.of, e[j])]
        BY <1>2 DEF DecodeValue, EncodeValue
    <2>2. Len(v) \in Nat /\ v = [j \in 1 .. Len(v) |-> v[j]]
        BY <1>2 DEF Fits
    <2>3. Len(e) = Len(v)
        <3>1. e \in Seq({e[j] : j \in 1 .. Len(v)})
            BY <2>2
        <3>2. DOMAIN e = 1 .. Len(e) /\ Len(e) \in Nat
            BY <3>1, LenProperties
        <3> QED BY <2>2, <3>2, IntervalsEqual
    <2>4. \A j \in 1 .. Len(v) : DecodeFlat(fd.of, e[j]) = v[j]
        <3> SUFFICES ASSUME NEW j \in 1 .. Len(v) PROVE DecodeFlat(fd.of, e[j]) = v[j]
            OBVIOUS
        <3>1. e[j] = EncodeFlat(fd.of, v[j])
            OBVIOUS
        <3>2. Distinct(fd.of) /\ Of(fd.of, v[j])
            BY <1>2 DEF Fits
        <3> QED BY <3>1, <3>2, FlatRoundTrip
    <2>5. [j \in 1 .. Len(e) |-> DecodeFlat(fd.of, e[j])] = [j \in 1 .. Len(v) |-> v[j]]
        BY <2>3, <2>4
    <2> QED BY <2>1, <2>2, <2>5
<1>3. CASE fd.kind \notin {"message", "messages"}
    BY <1>3 DEF DecodeValue, EncodeValue
<1> QED BY <1>1, <1>2, <1>3

\* Every well-formed message arrives as it was sent: zero fields, nil messages and
\* empty lists included.
THEOREM RoundTrip ==
    ASSUME NEW T, NEW m, WellFormed(T, m)
    PROVE  Decode(T, Encode(T, m)) = m
<1> DEFINE w == Encode(T, m)
<1>1. Distinct(T) /\ Of(T, m) /\ Present(T, m) \in SUBSET DOMAIN T
    BY DEF WellFormed, Present
<1>2. DOMAIN w = Numbers(T, Present(T, m))
    BY DEF Encode
<1>3. ASSUME NEW f \in DOMAIN T
      PROVE  (IF T[f].number \in DOMAIN w THEN DecodeValue(T[f], w[T[f].number])
              ELSE ZeroValue(T[f].kind)) = m[f]
    <2>1. T[f].number \in DOMAIN w <=> f \in Present(T, m)
        BY <1>1, <1>2, NumberOfField
    <2>2. CASE f \in Present(T, m)
        <3>1. w[T[f].number] =
                  EncodeValue(T[Numbered(T, T[f].number)], m[Numbered(T, T[f].number)])
            BY <1>2, <2>1, <2>2 DEF Encode
        <3>2. w[T[f].number] = EncodeValue(T[f], m[f])
            BY <1>1, <3>1, NumberedInverse
        <3>3. Fits(T[f], m[f]) /\ m[f] # ZeroValue(T[f].kind)
            BY <2>2 DEF WellFormed, Present
        <3>4. DecodeValue(T[f], w[T[f].number]) = m[f]
            BY <3>2, <3>3, ValueRoundTrip
        <3> QED BY <2>1, <2>2, <3>4
    <2>3. CASE f \notin Present(T, m)
        BY <2>1, <2>3 DEF Present
    <2> QED BY <2>2, <2>3
<1>4. Decode(T, w) = [f \in DOMAIN T |-> m[f]]
    BY <1>3 DEF Decode
<1> QED BY <1>1, <1>4 DEF Of
===============================================================================
