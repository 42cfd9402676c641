---------------------------- MODULE SubgraphHost -----------------------------
(***************************************************************************)
(* The functions that the host of a subgraph offers to its handlers: the    *)
(* store and the data sources (EntityFields), the numbers (HostNumbers),    *)
(* the storage of contracts (StorageReader) and the values of the ABI       *)
(* (HostValues).                                                            *)
(***************************************************************************)
EXTENDS EntityFields, HostNumbers, HostValues, StorageReader

CONSTANTS
    Integer,    \* integers that handlers calculate with
    BigDecimal, \* decimals that handlers calculate with
    Shift,      \* bits to shift by, and exponents of powers
    Variable,   \* variable -> its value, of the contract whose storage is read
    Reads,      \* keys with which a variable is read: [variable, keys]
    Token       \* values of the ABI that handlers encode

VARIABLE answer \* the call of a function without state, and its result

hostVars == <<vars, answer>>

NoAnswer == <<"none", 0, 0>>

-------------------------------------------------------------------------------
(* Calls.                                                                    *)

IntOps == {"plus", "minus", "times", "dividedBy", "mod", "bitAnd", "bitOr"}

IntCall(op, x, y) ==
    CASE op = "plus"       -> Plus(x, y)
      [] op = "minus"      -> Minus(x, y)
      [] op = "times"      -> Times(x, y)
      [] op = "dividedBy"  -> DividedBy(x, y)
      [] op = "mod"        -> Mod(x, y)
      [] op = "bitAnd"     -> BitAnd(x, y)
      [] op = "bitOr"      -> BitOr(x, y)
      [] op = "leftShift"  -> LeftShift(x, IntOf(y))
      [] op = "rightShift" -> RightShift(x, IntOf(y))
      [] op = "pow"        -> Pow(x, IntOf(y))

CallBigInt(op, m, n) ==
    answer' = <<"bigInt", <<op, m, n>>, IntCall(op, IntBytes(m), IntBytes(n))>>

DecimalOps == {"plus", "minus", "times", "dividedBy"}

DecimalCall(op, x, y) ==
    CASE op = "plus"      -> DecimalPlus(x, y)
      [] op = "minus"     -> DecimalMinus(x, y)
      [] op = "times"     -> DecimalTimes(x, y)
      [] op = "dividedBy" -> DecimalDividedBy(x, y)

CallBigDecimal(op, d, e) ==
    answer' = <<"bigDecimal", <<op, d, e>>, DecimalCall(op, FromString(d), FromString(e))>>

CallDividedByDecimal(m, e) ==
    answer' = <<"bigDecimal", <<"dividedBy", [n |-> m, x |-> 0], e>>,
                IntDividedByDecimal(IntBytes(m), FromString(e))>>

-------------------------------------------------------------------------------
(* The storage as the compiler lays it out.                                  *)

Join(cells) == FoldSet(LAMBDA c, f : c @@ f, Empty, cells)

\* the bytes of a number, the lowest at the offset
NumberCells(n, slot, offset, size) ==
    [cell \in {<<slot, WordSize - offset - i>> : i \in 0..size - 1} |->
        (n \div ByteSize^(WordSize - offset - cell[2])) % ByteSize]

\* data in whole words
DataCells(data, slot) ==
    [cell \in {<<After(slot, (i - 1) \div WordSize), ((i - 1) % WordSize) + 1>> : i \in DOMAIN data} |->
        data[WordSize * (cell[1][2] - slot[2]) + cell[2]]]

\* where the elements of an array begin, one after the other: an element that
\* does not fit into the rest of a word begins the next one
Places(size, count) ==
    LET next(p) == IF p.offset = 0 \/ p.offset + size <= WordSize THEN p
                   ELSE [word |-> p.word + 1, offset |-> 0]
        after(p) == IF size <= WordSize THEN [p EXCEPT !.offset = @ + size]
                    ELSE [word |-> p.word + size \div WordSize, offset |-> 0]
        add(s, i) == Append(s, next(IF s = <<>> THEN [word |-> 0, offset |-> 0] ELSE after(Last(s))))
    IN  FoldLeft(add, <<>>, [i \in 1..count |-> i])

RECURSIVE Cells(_, _, _, _)

\* bytes of the value v of the type t
Cells(t, v, slot, offset) ==
    LET type == Types[t]
        elements(first, values) ==
            Join({LET p == Places(Types[type.base].numberOfBytes, Len(values))[i]
                  IN  Cells(type.base, values[i], After(first, p.word), p.offset) : i \in DOMAIN values})
    IN  CASE type.label.kind = "struct" ->
                Join({Cells(type.members[m].type, v[m], After(slot, type.members[m].slot),
                            type.members[m].offset) : m \in DOMAIN type.members})
          [] type.label.kind = "array" /\ type.encoding = "inplace" -> elements(slot, v)
          [] type.encoding = "dynamic_array" ->
                NumberCells(Len(v), slot, 0, WordSize) @@ elements(Keccak(slot), v)
          [] type.encoding = "mapping" ->
                Join({Cells(type.value, entry[2], MappingSlot(slot, type.key, entry[1].value), 0) : entry \in v})
          [] type.encoding = "bytes" /\ Len(v) < WordSize ->
                DataCells(v, slot) @@ NumberCells(2 * Len(v), slot, 0, 1)
          [] type.encoding = "bytes" /\ Len(v) >= WordSize ->
                DataCells(v, Keccak(slot)) @@ NumberCells(2 * Len(v) + 1, slot, 0, WordSize)
          [] OTHER -> NumberCells(v, slot, offset, type.numberOfBytes)

Storage ==
    LET cells == Join({Cells(Layout[x].type, Variable[x], <<<<>>, Layout[x].slot>>, Layout[x].offset)
                       : x \in DOMAIN Variable})
        at(slot, i) == IF <<slot, i>> \in DOMAIN cells THEN cells[<<slot, i>>] ELSE 0
    IN  [slot \in {cell[1] : cell \in DOMAIN cells} |-> [i \in 1..WordSize |-> at(slot, i)]]

\* the part of the value v of the type t that keys lead to
RECURSIVE PartOf(_, _, _)
PartOf(t, v, keys) ==
    LET type == Types[t]
        bytes == [i \in 1..type.numberOfBytes |-> (v \div ByteSize^(type.numberOfBytes - i)) % ByteSize]
    IN  CASE type.encoding = "mapping" ->
                LET entries == {entry \in v : entry[1] = Head(keys)}
                IN  PartOf(type.value, (CHOOSE entry \in entries : TRUE)[2], Tail(keys))
          [] type.label.kind = "array" ->
                IF keys # <<>> /\ Head(keys).kind = "number"
                THEN PartOf(type.base, v[Head(keys).value + 1], Tail(keys))
                ELSE <<"array", [i \in DOMAIN v |-> PartOf(type.base, v[i], keys)]>>
          [] type.label.kind = "struct" ->
                IF keys # <<>> /\ Head(keys).kind = "member"
                THEN PartOf(type.members[Head(keys).value].type, v[Head(keys).value], Tail(keys))
                ELSE <<"struct", [m \in DOMAIN type.members |-> PartOf(type.members[m].type, v[m], keys)]>>
          [] type.label.kind = "bool" -> <<"bool", v = 1>>
          [] type.label.kind \in {"int", "uint", "enum"} -> <<"integer", v>>
          [] type.label.kind = "string" -> <<"string", v>>
          [] type.label.kind = "bytes" /\ type.encoding = "bytes" -> <<"raw", v>>
          [] type.label.kind = "address" -> <<"address", bytes>>
          [] OTHER -> <<"raw", bytes>>

\* ethereum.storageValue
CallStorageValue(read) ==
    answer' = <<"storage", read, StorageValue(Storage, read.variable, read.keys)>>

CallEncode(v) == answer' = <<"encode", v, Encoded(v)>>

\* a method with the types of the tokens as outputs returns them
CallMethod(vs) ==
    answer' = <<"call", vs, CallResult([i \in DOMAIN vs |-> EthereumTypes(vs[i])],
                                       [i \in DOMAIN vs |-> FromEthereumValue(vs[i])])>>

HostInit == Init /\ answer = NoAnswer

HostCall ==
    /\ answer = NoAnswer
    /\ \/ \E op \in IntOps, m \in Integer, n \in Integer : CallBigInt(op, m, n)
       \/ \E op \in {"leftShift", "rightShift", "pow"}, m \in Integer, n \in Shift : CallBigInt(op, m, n)
       \/ \E op \in DecimalOps, d \in BigDecimal, e \in BigDecimal : CallBigDecimal(op, d, e)
       \/ \E m \in Integer, e \in BigDecimal : CallDividedByDecimal(m, e)
       \/ \E read \in Reads : CallStorageValue(read)
       \/ \E v \in Token : CallEncode(v)
       \/ \E v \in Token, w \in Token :
            /\ EthereumTypes(v) # NoTypes /\ EthereumTypes(w) # NoTypes
            /\ CallMethod(<<v>>) \/ CallMethod(<<v, w>>)
    /\ UNCHANGED vars

-------------------------------------------------------------------------------
(* Properties.                                                               *)

IntExact(op, m, n) ==
    CASE op = "plus"       -> m + n
      [] op = "minus"      -> m - n
      [] op = "times"      -> m * n
      [] op = "dividedBy"  -> Sign(m) * Sign(n) * (Magnitude(m) \div Magnitude(n))
      [] op = "mod"        -> m % n
      [] op = "bitAnd"     -> m & n
      [] op = "bitOr"      -> m | n
      [] op = "leftShift"  -> m * 2^n
      [] op = "rightShift" -> m \div 2^n
      [] op = "pow"        -> Power(m, n)

IntRefused(op, m, n) ==
    \/ op = "dividedBy" /\ n = 0
    \/ op = "mod" /\ n <= 0
    \/ op \in {"bitAnd", "bitOr"} /\ (m < 0 \/ n < 0)
    \/ op \in {"leftShift", "rightShift"} /\ m < 0

\* Integers pass through the bytes of the instance unchanged whatever their
\* size and sign, and their operations are exact where they do not throw.
IntegersExact ==
    answer[1] = "bigInt" =>
        LET call == answer[2] IN
        IF IntRefused(call[1], call[2], call[3]) THEN answer[3] = <<>>
        ELSE answer[3] # <<>> /\ IntOf(answer[3][1]) = IntExact(call[1], call[2], call[3])

\* the decimal that is stored in the instance
Value(b) == [n |-> IntOf(b.digits), x |-> IntOf(b.exp)]

\* Decimals come out of the words of decimal.js as digits and exponent of the
\* same value, without zeros at the end; sums, differences and products are
\* exact when their digits fit the precision; what is out of range throws.
DecimalsExact ==
    (answer[1] = "bigDecimal" /\ answer[2][1] # "dividedBy") =>
        LET call == answer[2]
            d == Rounded(call[2])  e == Rounded(call[3])
            exact == Normal(CASE call[1] = "plus"  -> Sum(d, e)
                              [] call[1] = "minus" -> Sum(d, Negative(e))
                              [] call[1] = "times" -> Product(d, e))
        IN  IF d.x \notin MinExp..MaxExp \/ e.x \notin MinExp..MaxExp THEN answer[3] = <<>>
            ELSE IF DigitCount(exact.n) > Precision
            THEN answer[3] # <<>> => DigitCount(Value(answer[3][1]).n) <= Precision
            ELSE IF exact.x \notin MinExp..MaxExp THEN answer[3] = <<>>
            ELSE answer[3] # <<>> /\ Value(answer[3][1]) = exact

\* Quotients are within half of the last digit that the precision allows.
QuotientsRounded ==
    (answer[1] = "bigDecimal" /\ answer[2][1] = "dividedBy" /\ answer[3] # <<>>) =>
        LET d == Rounded(answer[2][2])  e == Rounded(answer[2][3])
            v == Value(answer[3][1])
            unit == v.x - (Precision - DigitCount(v.n))
            low == Min({unit + e.x, v.x + e.x, d.x})
        IN  2 * Magnitude(v.n * e.n * 10^(v.x + e.x - low) - d.n * 10^(d.x - low))
                <= 10^(unit + e.x - low) * Magnitude(e.n)

\* Numbers cross the border of the instance, and are calculated with, as exactly as
\* their sizes allow.
NumbersExact == IntegersExact /\ DecimalsExact /\ QuotientsRounded

\* A read of the storage gives the part of the variable that the keys lead to,
\* whatever shares its words, and a handler gets the type of that part.
StorageReadBack ==
    answer[1] = "storage" =>
        LET read == answer[2]
            type == EthereumType(Layout[read.variable].type, read.keys)
        IN  /\ answer[3] = PartOf(Layout[read.variable].type, Variable[read.variable], read.keys)
            /\ (type.kind = "array") = (answer[3][1] = "array")
                    \/ \E i \in DOMAIN read.keys : read.keys[i].kind = "number"

\* the value without the lengths that are fixed
RECURSIVE Loose(_)
Loose(v) ==
    LET loose == [i \in DOMAIN v[2] |-> Loose(v[2][i])] IN
    CASE v[1] \in {"ARRAY", "FIXED_ARRAY"} -> <<"ARRAY", loose>>
      [] v[1] = "TUPLE" -> <<"TUPLE", loose>>
      [] v[1] = "FIXED_BYTES" -> <<"BYTES", v[2]>>
      [] OTHER -> v

\* What a handler encodes and decodes again, and what a method returns to it,
\* are the values with their kinds, up to fixed lengths; only an array with
\* nothing in its first part is not encoded.
ValuesKeepKinds ==
    /\ (answer[1] = "encode" /\ answer[3] # <<>>) =>
            DecodedValue(answer[3][1], answer[3]) = Loose(answer[2])
    /\ answer[1] = "call" => answer[3] = [i \in DOMAIN answer[2] |-> Loose(answer[2][i])]

===============================================================================
