----------------------------- MODULE HostValues ------------------------------
(***************************************************************************)
(* Values of the Ethereum ABI between the handlers of a subgraph, which     *)
(* have them with their kinds, and the program, which has plain values and  *)
(* their types apart.                                                       *)
(*                                                                          *)
(* A value of a handler is a pair of its kind, in capitals, and its         *)
(* content; a plain value a pair of its JavaScript type and its content; a  *)
(* type a pair of its name and what it is made of.  A fixed value has the   *)
(* length of its bytes as content.                                          *)
(***************************************************************************)
EXTENDS Integers, SequencesExt

NoTypes == <<"throws", 0>>

Nested == {"ARRAY", "FIXED_ARRAY", "TUPLE"}

Plain == [ADDRESS |-> "string", BOOL |-> "boolean", STRING |-> "string", BYTES |-> "string",
          FIXED_BYTES |-> "string", INT |-> "number", UINT |-> "number"]

RECURSIVE EthereumTypes(_)

\* getEthereumTypes: an array has the type of its first element
EthereumTypes(v) ==
    CASE v[1] = "INT"  -> <<"int256", 0>>
      [] v[1] = "UINT" -> <<"uint256", 0>>
      [] v[1] = "ADDRESS" -> <<"address", 0>>
      [] v[1] = "BOOL" -> <<"bool", 0>>
      [] v[1] = "STRING" -> <<"string", 0>>
      [] v[1] = "BYTES" -> <<"bytes", 0>>
      [] v[1] = "FIXED_BYTES" -> <<"bytes", v[2]>>
      [] v[1] = "TUPLE" ->
            LET types == [i \in DOMAIN v[2] |-> EthereumTypes(v[2][i])]
            IN  IF \E i \in DOMAIN types : types[i] = NoTypes THEN NoTypes ELSE <<"tuple", types>>
      [] v[1] \in {"ARRAY", "FIXED_ARRAY"} ->
            IF v[2] = <<>> THEN NoTypes
            ELSE LET first == EthereumTypes(v[2][1])
                     length == IF v[1] = "ARRAY" THEN 0 ELSE Len(v[2])
                 IN  IF first = NoTypes THEN NoTypes ELSE <<"array", <<first, length>>>>

RECURSIVE FromEthereumValue(_)

\* fromEthereumValue
FromEthereumValue(v) ==
    IF v[1] \in Nested THEN <<"list", [i \in DOMAIN v[2] |-> FromEthereumValue(v[2][i])]>>
    ELSE <<Plain[v[1]], v[2]>>

\* mutant: signed integers are passed as unsigned ones
RECURSIVE AllUnsigned(_, _)
AllUnsigned(type, v) ==
    CASE type[1] = "array" -> <<"ARRAY", [i \in DOMAIN v[2] |-> AllUnsigned(type[2][1], v[2][i])]>>
      [] type[1] = "tuple" -> <<"TUPLE", [i \in DOMAIN type[2] |-> AllUnsigned(type[2][i], v[2][i])]>>
      [] type[1] = "bool" -> <<"BOOL", v[2]>>
      [] type[1] \in {"int256", "uint256"} -> <<"UINT", v[2]>>
      [] type[1] = "address" -> <<"ADDRESS", v[2]>>
      [] type[1] = "bytes" -> <<"BYTES", v[2]>>
      [] type[1] = "string" -> <<"STRING", v[2]>>

RECURSIVE ToEthereumValue(_, _)

\* toEthereumValue: nothing is passed as fixed
ToEthereumValue(type, v) ==
    CASE type[1] = "array" -> <<"ARRAY", [i \in DOMAIN v[2] |-> ToEthereumValue(type[2][1], v[2][i])]>>
      [] type[1] = "tuple" -> <<"TUPLE", [i \in DOMAIN type[2] |-> ToEthereumValue(type[2][i], v[2][i])]>>
      [] type[1] = "bool" -> <<"BOOL", v[2]>>
      [] type[1] = "uint256" -> <<"UINT", v[2]>>
      [] type[1] = "int256" -> <<"INT", v[2]>>
      [] type[1] = "address" -> <<"ADDRESS", v[2]>>
      [] type[1] = "bytes" -> <<"BYTES", v[2]>>
      [] type[1] = "string" -> <<"STRING", v[2]>>

\* ethereum.encode: the encoding of a plain value by its type, none when the
\* call throws
Encoded(v) ==
    IF EthereumTypes(v) = NoTypes THEN <<>> ELSE <<EthereumTypes(v), FromEthereumValue(v)>>

\* ethereum.decode
DecodedValue(types, data) == ToEthereumValue(types, data[2])

\* what ethers returns for a call: a single output as it is, more as a list
Returned(values) == IF Len(values) = 1 THEN values[1] ELSE <<"list", values>>

\* ethereum.call: the outputs of the method as values of the handler
CallResult(outputs, values) ==
    LET result == IF Len(outputs) = 1 THEN <<Returned(values)>> ELSE Returned(values)[2]
    IN  [i \in DOMAIN outputs |-> ToEthereumValue(outputs[i], result[i])]

===============================================================================
