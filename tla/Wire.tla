---------------------------------- MODULE Wire ----------------------------------
(***************************************************************************)
(* proto3 messages as the generated Go code keeps them (one struct field   *)
(* and one nil-safe getter per field) and as they travel.  A message type  *)
(* maps the names of its fields to their number and kind.  What travels is *)
(* keyed by number and leaves zero values out, so an absent field and a    *)
(* zero one cannot be told apart.                                          *)
(***************************************************************************)
EXTENDS Naturals, Sequences

CONSTANT Nil   \* the nil pointer to a message

Field(number, kind, of) == [number |-> number, kind |-> kind, of |-> of]

Int32(n) == Field(n, "int32", <<>>)
String(n) == Field(n, "string", <<>>)
Int32s(n) == Field(n, "int32s", <<>>)            \* repeated int32
Message(n, T) == Field(n, "message", T)
Messages(n, T) == Field(n, "messages", T)        \* repeated T

ZeroValue(kind) ==
    CASE kind = "int32"   -> 0
      [] kind = "string"  -> ""
      [] kind = "message" -> Nil
      [] OTHER            -> <<>>

\* A getter answers for a nil message as for a zero field.
Get(T, m, f) == IF m = Nil THEN ZeroValue(T[f].kind) ELSE m[f]

-------------------------------------------------------------------------------
(* Messages nest one level deep in this repository: the messages of a field    *)
(* have no message fields themselves (they are flat).                          *)

Present(T, m) == {f \in DOMAIN T : m[f] # ZeroValue(T[f].kind)}

Numbered(T, n) == CHOOSE f \in DOMAIN T : T[f].number = n

Numbers(T, F) == {T[f].number : f \in F}

EncodeFlat(T, m) == [n \in Numbers(T, Present(T, m)) |-> m[Numbered(T, n)]]

EncodeValue(fd, v) ==
    CASE fd.kind = "message"  -> EncodeFlat(fd.of, v)
      [] fd.kind = "messages" -> [j \in 1 .. Len(v) |-> EncodeFlat(fd.of, v[j])]
      [] OTHER                -> v

Encode(T, m) ==
    [n \in Numbers(T, Present(T, m)) |->
        EncodeValue(T[Numbered(T, n)], m[Numbered(T, n)])]

\* A number the receiver's type does not have is skipped.
DecodeFlat(T, w) ==
    [f \in DOMAIN T |->
        IF T[f].number \in DOMAIN w THEN w[T[f].number] ELSE ZeroValue(T[f].kind)]

DecodeValue(fd, v) ==
    CASE fd.kind = "message"  -> DecodeFlat(fd.of, v)
      [] fd.kind = "messages" -> [j \in 1 .. Len(v) |-> DecodeFlat(fd.of, v[j])]
      [] OTHER                -> v

Decode(T, w) ==
    [f \in DOMAIN T |->
        IF T[f].number \in DOMAIN w
        THEN DecodeValue(T[f], w[T[f].number]) ELSE ZeroValue(T[f].kind)]

(* A method of a service: its request and its response.                       *)
Unary(in, out) == [in |-> in, out |-> out]
===============================================================================
