--------------------------- MODULE MCSubgraphHost ----------------------------
EXTENDS SubgraphHost

field(wraps, name) == [wraps |-> wraps, name |-> name, derived |-> FALSE]
required == <<"NonNull">>
list == <<"List", "NonNull">>
requiredList == <<"NonNull", "List", "NonNull">>

MCSchema == [
    Token |-> [id |-> field(required, "ID"), count |-> field(required, "BigInt"),
               price |-> field(<<>>, "BigDecimal"), parts |-> field(requiredList, "BigInt"),
               rest |-> field(list, "BigInt"), kind |-> field(required, "TokenKind"),
               owner |-> field(<<>>, "Account"), holders |-> field(list, "Account")],
    Account |-> [id |-> field(required, "Bytes"),
                 tokens |-> [wraps |-> requiredList, name |-> "Token", derived |-> TRUE]],
    Deposit |-> [id |-> field(required, "ID"), blockNumber |-> field(required, "BigInt")]]

MCEnum == {"TokenKind"}
str(n) == <<"STRING", n>>
bigint(n) == <<"BIGINT", n>>
ids(s) == <<"ARRAY", [i \in DOMAIN s |-> <<"BYTES", s[i]>>]>>
bigs(s) == <<"ARRAY", [i \in DOMAIN s |-> bigint(s[i])]>>

token == [id |-> str(1), count |-> bigint(5), price |-> <<"BIGDECIMAL", 7>>, parts |-> bigs(<<1, 2>>),
          kind |-> str(3), owner |-> <<"BYTES", 8>>, holders |-> ids(<<8, 9>>)]

version(n, data) == [type |-> "Token", id |-> n, data |-> data]
first == version(1, token)
second == version(1, [token EXCEPT !.count = bigint(6), !.price = Null, !.owner = Null, !.parts = bigs(<<3>>)])
noHolders == version(1, [token EXCEPT !.holders = Null])
withRest == version(1, token @@ [rest |-> bigs(<<4>>)])
deposit == [type |-> "Deposit", id |-> 2, data |-> [id |-> str(2), blockNumber |-> bigint(40)]]

MCGiven == {first, second, noHolders, withRest, deposit}

MCContext == {[pool |-> str(1), fee |-> bigint(30)], [pool |-> str(2), fee |-> bigint(5), paths |-> bigs(<<1, 2>>)]}

-------------------------------------------------------------------------------
(* Numbers.                                                                  *)

MCMinExp == -3
MCInteger == {-65, -64, -33, -32, -17, -16, -15, -8, -5, -4, -3, -2, -1, 0, 1, 2, 3, 4, 7, 8, 15, 16,
              31, 32, 33, 63, 64, 127, 128}
MCBigDecimal == {[n |-> n, x |-> x] : n \in {-101, -12, -1, 0, 1, 3, 7, 250, 999, 1005}, x \in {-4, -3, -1, 0, 2, 3}}

-------------------------------------------------------------------------------
(* A contract: words of 4 bytes of 3 bits.                                   *)

label(kind, size) == [kind |-> kind, size |-> size, word |-> ""]
plain(kind, size) == [encoding |-> "inplace", numberOfBytes |-> size, label |-> label(kind, size)]
bytes(kind) == [encoding |-> "bytes", numberOfBytes |-> 4, label |-> label(kind, 0)]
mapping(key, value) == [encoding |-> "mapping", numberOfBytes |-> 4, label |-> label("mapping", 0),
                        key |-> key, value |-> value]
array(base, size, numberOfBytes) ==
    [encoding |-> "inplace", numberOfBytes |-> numberOfBytes, label |-> label("array", 0),
     base |-> base, size |-> size]
dynamic(base) == [encoding |-> "dynamic_array", numberOfBytes |-> 4, label |-> label("array", 0), base |-> base]
member(slot, offset, type) == [slot |-> slot, offset |-> offset, type |-> type]

MCTypes == [
    bool |-> plain("bool", 1), uint1 |-> plain("uint", 1), int1 |-> plain("int", 1),
    int2 |-> plain("int", 2), uint3 |-> plain("uint", 3), enum |-> plain("enum", 1),
    address |-> plain("address", 3), bytes2 |-> plain("bytes", 2), contract |-> plain("contract", 3),
    string |-> bytes("string"), bytes |-> bytes("bytes"),
    Point |-> [encoding |-> "inplace", numberOfBytes |-> 8, label |-> label("struct", 0),
               members |-> [x |-> member(0, 0, "int2"), ok |-> member(0, 2, "bool"), tag |-> member(1, 0, "string")]],
    balances |-> mapping("address", "int2"), points |-> mapping("string", "Point"),
    allowed |-> mapping("uint1", "flags"), flags |-> mapping("bool", "uint1"),
    int1_6 |-> array("int1", 6, 8), list |-> dynamic("uint3"), pairs |-> array("Point", 2, 16),
    int2_3 |-> array("int2", 3, 8), rows |-> dynamic("int2_3")]

at(slot, offset, type) == [slot |-> slot, offset |-> offset, type |-> type]
MCLayout == [
    flag |-> at(0, 0, "bool"), small |-> at(0, 1, "uint1"), signed |-> at(0, 2, "int2"),
    owner |-> at(1, 0, "address"), kind |-> at(1, 3, "enum"), name |-> at(2, 0, "string"),
    text |-> at(3, 0, "string"), data |-> at(4, 0, "bytes"), balances |-> at(5, 0, "balances"),
    points |-> at(6, 0, "points"), six |-> at(7, 0, "int1_6"), list |-> at(9, 0, "list"),
    pairs |-> at(10, 0, "pairs"), allowed |-> at(14, 0, "allowed"), rows |-> at(15, 0, "rows"),
    token |-> at(16, 0, "contract"), word |-> at(17, 1, "bytes2")]

key(kind, value) == [kind |-> kind, value |-> value]
point(x, tag) == [x |-> x, ok |-> 1, tag |-> tag]
MCVariable == [
    flag |-> 1, small |-> 5, signed |-> -3, owner |-> 300, kind |-> 2, name |-> <<6, 5, 4>>,
    text |-> <<1, 2, 3, 4, 5, 6, 7, 0, 1>>, data |-> <<7, 6, 5, 4>>,
    balances |-> {<<key("string", 8), -9>>, <<key("string", 9), 20>>},
    points |-> {<<key("string", 8), point(-32, <<1>>)>>},
    six |-> <<-1, 2, -3, 3, -4, 1>>, list |-> <<500, 1, 77>>,
    pairs |-> <<point(4, <<2, 2, 2, 2, 2>>), point(-5, <<>>)>>,
    allowed |-> {<<key("big", 1), {<<key("bool", 1), 6>>, <<key("bool", 0), 3>>}>>},
    rows |-> <<<<1, 2, 3>>, <<-4, -5, -6>>>>, token |-> 44, word |-> 9]

whole == DOMAIN MCVariable \ {"balances", "points", "allowed"}
MCReads ==
    {[variable |-> v, keys |-> <<>>] : v \in whole} \cup
    {[variable |-> r[1], keys |-> r[2]] : r \in {
        <<"balances", <<key("string", 8)>>>>, <<"balances", <<key("string", 9)>>>>,
        <<"points", <<key("string", 8)>>>>, <<"points", <<key("string", 8), key("member", "tag")>>>>,
        <<"allowed", <<key("big", 1), key("bool", 1)>>>>, <<"allowed", <<key("big", 1), key("bool", 0)>>>>,
        <<"six", <<key("number", 5)>>>>, <<"list", <<key("number", 2)>>>>, <<"six", <<key("big", 5)>>>>,
        <<"pairs", <<key("number", 1), key("member", "x")>>>>, <<"pairs", <<key("member", "tag")>>>>,
        <<"rows", <<key("number", 1)>>>>, <<"rows", <<key("number", 1), key("number", 2)>>>>}}

-------------------------------------------------------------------------------
(* Values of the ABI.                                                        *)

int == <<"INT", -3>>
tuple == <<"TUPLE", <<<<"UINT", 5>>, <<"ARRAY", <<<<"STRING", 1>>>>>>>>>>
MCToken == {
    int, <<"UINT", 5>>, <<"BOOL", 1>>, <<"ADDRESS", 7>>, <<"BYTES", 2>>, <<"FIXED_BYTES", 32>>, tuple,
    <<"ARRAY", <<>>>>, <<"ARRAY", <<int, int>>>>, <<"FIXED_ARRAY", <<tuple, tuple>>>>,
    <<"TUPLE", <<int, <<"ARRAY", <<>>>>>>>>, <<"ARRAY", <<<<"ARRAY", <<int>>>>, <<"ARRAY", <<>>>>>>>>}

\* what the handlers of a behaviour do
VARIABLE part
parts == {{first, second}, {second, noHolders}, {first, withRest}, {deposit}}

MCInit == HostInit /\ part \in parts \cup {{}}
MCNext ==
    /\ \/ part # {} /\ EntityNext(part) /\ UNCHANGED answer
       \/ part = {} /\ answer = NoAnswer /\ (TemplateNext \/ Restart) /\ UNCHANGED answer
       \/ part = {} /\ created = [a \in Template |-> NoContext] /\ HostCall
    /\ UNCHANGED part
MCSpec == MCInit /\ [][MCNext]_<<hostVars, part>>
===============================================================================
