---------------------------- MODULE StorageReader ----------------------------
(***************************************************************************)
(* Reading a variable of a contract from its storage, by the layout that    *)
(* the compiler describes (solidity-mapper): values packed into words,      *)
(* bytes and strings, mappings, arrays and structs.                         *)
(*                                                                          *)
(* A slot is a pair: the hashes on the way to it, and a number.  keccak256  *)
(* of a slot, and of a key with a slot, is the slot 0 of a longer way,      *)
(* which nothing else has.  A word is a sequence of bytes, the highest      *)
(* first.  A value is a pair of its class and its content, a read that      *)
(* throws gives NoValue.                                                    *)
(***************************************************************************)
EXTENDS Integers, SequencesExt, FiniteSetsExt

CONSTANTS
    Types,      \* type -> [encoding, numberOfBytes, label, base, size, value,
                \* key, members]; label is [kind, size, word]: word is "int"
                \* when the name in it has an integer type as a part
    Layout,     \* variable -> [slot, offset, type]
    WordSize,   \* bytes of a word (32)
    ByteSize    \* values of a byte (256)

NoValue == <<"throws", 0>>
ZeroWord == [i \in 1..WordSize |-> 0]

-------------------------------------------------------------------------------
(* Words.                                                                    *)

Unsigned(bytes) == FoldLeft(LAMBDA n, b : n * ByteSize + b, 0, bytes)

Twos(n, size) == IF 2 * n >= ByteSize^size THEN n - ByteSize^size ELSE n

\* getStorageAt
WordAt(storage, slot) == IF slot \in DOMAIN storage THEN storage[slot] ELSE ZeroWord

Keccak(slot) == <<Append(slot[1], <<"slot", 0, slot[2]>>), 0>>

After(slot, n) == <<slot[1], slot[2] + n>>

\* what matches as an integer: the pattern looks for int and digits anywhere
IsIntegerOrEnum(label) == label.kind \in {"enum", "int", "uint"} \/ label.word = "int"
IsSigned(label) == label.kind \notin {"enum", "uint"}

\* getValueByType
ValueByType(bytes, label) ==
    CASE label.kind = "bool"      -> <<"bool", Unsigned(bytes) # 0>>
      [] label.kind # "bool" /\ IsIntegerOrEnum(label) ->
            <<"integer", IF IsSigned(label) THEN Twos(Unsigned(bytes), label.size) ELSE Unsigned(bytes)>>
      [] label.kind = "string"    -> <<"string", bytes>>
      [] label.kind = "address"   -> <<"address", bytes>>
      [] OTHER                    -> <<"raw", bytes>>

\* mutant: the offset counts from the highest byte
FromHighest(storage, slot, offset, size) ==
    SubSeq(WordAt(storage, slot), offset + 1, offset + size)

\* getInplaceValue: the offset counts from the lowest byte
InplaceValue(storage, slot, offset, size) ==
    SubSeq(WordAt(storage, slot), WordSize - offset - size + 1, WordSize - offset)

\* getBytesValue: short data has the word to itself but for the byte of its
\* length, long data the words from the hash of the slot
BytesValue(storage, slot) ==
    LET word == WordAt(storage, slot)
        long == Last(word) % 2 = 1
        length == IF long THEN (Unsigned(word) - 1) \div 2 ELSE Last(word) \div 2
        words == (length + WordSize - 1) \div WordSize
        data == FoldLeft(LAMBDA s, i : s \o WordAt(storage, After(Keccak(slot), i - 1)), <<>>,
                         [i \in 1..words |-> i])
    IN  IF length < WordSize THEN SubSeq(word, 1, length) ELSE SubSeq(data, 1, length)

Rest(keys) == IF keys = <<>> THEN keys ELSE Tail(keys)

\* keys: [kind, value], a string as the number that stands for it (0 is the
\* empty one); where bools are expected any key will do, and none
ValidKey(keyType, keys) ==
    \/ Types[keyType].label.kind = "bool"
    \/ keys # <<>> /\ Head(keys).kind \notin {"bool", "member"} /\ Head(keys).value >= 0

\* the key as it is stored; a big number is an object, and never false
StoredKey(keyType, keys) ==
    IF Types[keyType].label.kind # "bool" THEN Head(keys).value
    ELSE IF keys = <<>> \/ (Head(keys).kind \in {"bool", "number", "string"} /\ Head(keys).value = 0)
    THEN 0 ELSE 1

\* getMappingSlot: the key is padded but for bytes and strings
MappingSlot(slot, keyType, key) ==
    LET padding == IF Types[keyType].encoding = "bytes" THEN "bytes" ELSE "word"
    IN  <<Append(slot[1], <<padding, key, slot[2]>>), 0>>

\* where getArrayElement reads an element: elements that fit share a word
ElementAt(slot, base, index) ==
    LET size == Types[base].numberOfBytes
        perWord == WordSize \div size
        words == (size + WordSize - 1) \div WordSize
    IN  IF size <= WordSize
        THEN [slot |-> After(slot, index \div perWord), offset |-> (index % perWord) * size]
        ELSE [slot |-> After(slot, words * index), offset |-> 0]

-------------------------------------------------------------------------------
(* Reading.                                                                  *)

Throws(values) == \E x \in DOMAIN values : values[x] = NoValue

RECURSIVE Decoded(_, _, _, _, _)

\* getArrayValue: a first key that is a number is an index, other keys go to
\* every element
ArrayValue(storage, keys, slot, base, size) ==
    LET element(ks, index) ==
            LET at == ElementAt(slot, base, index) IN Decoded(storage, base, at.slot, at.offset, ks)
    IN  IF keys # <<>> /\ Head(keys).kind = "number" THEN element(Tail(keys), Head(keys).value)
        ELSE LET values == [i \in 1..size |-> element(keys, i - 1)]
             IN  IF Throws(values) THEN NoValue ELSE <<"array", values>>

\* getStructureValue: the member a key names, or all of them
StructureValue(storage, keys, slot, members) ==
    LET member(ks, m) ==
            Decoded(storage, members[m].type, After(slot, members[m].slot), members[m].offset, ks)
    IN  IF keys # <<>> /\ Head(keys).kind = "member" /\ Head(keys).value \in DOMAIN members
        THEN member(Tail(keys), Head(keys).value)
        ELSE LET values == [m \in DOMAIN members |-> member(keys, m)]
             IN  IF Throws(values) THEN NoValue ELSE <<"struct", values>>

\* getDecodedValue
Decoded(storage, t, slot, offset, keys) ==
    LET type == Types[t] IN
    CASE type.label.kind = "array" /\ type.encoding = "inplace" ->
            ArrayValue(storage, keys, slot, type.base, type.size)
      [] type.label.kind = "struct" -> StructureValue(storage, keys, slot, type.members)
      [] type.encoding = "mapping" ->
            IF ~ValidKey(type.key, keys) THEN NoValue
            ELSE Decoded(storage, type.value, MappingSlot(slot, type.key, StoredKey(type.key, keys)), 0, Rest(keys))
      [] type.encoding = "dynamic_array" ->
            ArrayValue(storage, keys, Keccak(slot), type.base,
                       Unsigned(InplaceValue(storage, slot, offset, type.numberOfBytes)))
      [] type.encoding = "bytes" -> ValueByType(BytesValue(storage, slot), type.label)
      [] OTHER -> ValueByType(InplaceValue(storage, slot, offset, type.numberOfBytes), type.label)

\* getStorageValue
StorageValue(storage, variable, keys) ==
    IF variable \notin DOMAIN Layout THEN NoValue
    ELSE LET info == Layout[variable]
         IN  Decoded(storage, info.type, <<<<>>, info.slot>>, info.offset, keys)

\* getEthereumType: the type a handler gets the value as, NoType when it throws
NoType == [kind |-> "throws", size |-> 0, word |-> ""]

RECURSIVE EthereumType(_, _)
EthereumType(t, keys) ==
    LET type == Types[t] IN
    CASE type.encoding = "mapping" ->
            EthereumType(type.value, Rest(keys))
      [] type.label.kind = "struct" ->
            IF keys = <<>> THEN NoType
            ELSE IF Head(keys).kind # "member" THEN NoType
            ELSE IF Head(keys).value \notin DOMAIN type.members THEN NoType
            ELSE EthereumType(type.members[Head(keys).value].type, Tail(keys))
      [] OTHER -> type.label

===============================================================================
