------------------------------- MODULE Codegen -------------------------------
(***************************************************************************)
(* The code generator (src/packages/codegen). One run visits the contracts *)
(* of a config in order: first the events of a contract's ABI, then, where *)
(* its source is given, the state variables and functions of the contract  *)
(* and its bases; then the subgraph; then every file is written. A visited *)
(* declaration is handed to six generators (schema, resolvers, indexer,    *)
(* entities, database, client), each of which decides for itself whether   *)
(* it has it already: what they hold together is the generated watcher.    *)
(*                                                                         *)
(* A name is its word, whether the first letter is a capital, the case of  *)
(* the other letters ("own": that of the word), and whether it starts with *)
(* an underscore. Types are those of GraphQL, which decide those of        *)
(* TypeScript; left out are tuples, and the texts of the files.            *)
(***************************************************************************)
EXTENDS Integers, Sequences, FiniteSets, SequencesExt, Functions

CONSTANTS
    Given,        \* the contracts of the config, a sequence
    DataSources,  \* the contracts of the data sources of the subgraph, a sequence
    EventDecl,    \* events an ABI may have: [name, inputs], inputs of [name, type, indexed]
    FunctionDecl, \* functions: [name, params, returns, view, public]
    VariableDecl, \* state variables: [name, keys, type, immutable]
    Entity,       \* names of the object types a subgraph may declare
    MaxEvents, MaxNodes  \* bounds: events and declarations of one contract

ASSUME CodegenAssumption ==
    /\ MaxEvents \in Nat /\ MaxNodes \in Nat
    /\ IsFiniteSet(Entity)

VARIABLES config, phase, contract, visited, schema, resolvers, indexer, entities,
          database, client,
          parsed, declared  \* history: events parsed and queries handed to the generators

generated == <<resolvers, indexer, entities, database, client>>
history == <<parsed, declared>>
vars == <<config, phase, contract, visited, schema, generated, history>>

-----------------------------------------------------------------------------
(* Types and names.                                                        *)

NoType == "none"

\* A Solidity type is its syntactic sort and its innermost elementary type.
IntTypes == {<<"int", n>> : n \in {8, 16, 24, 32}} \cup {<<"uint", n>> : n \in {8, 16, 24}}
GqlForSol(t) ==
    CASE t.base \in {"string", "address", "bytes"} -> "String"
      [] t.base = "bool" -> "Boolean"
      [] <<t.base, t.bits>> \in IntTypes -> "Int"
      [] t.base \in {"int", "uint"} /\ t.bits # 40 -> "BigInt"
      [] OTHER -> NoType

PgForGql(g) ==
    CASE g = "String" -> "varchar" [] g = "Int" -> "integer"
      [] g = "BigInt" -> "numeric" [] g = "Boolean" -> "boolean" [] OTHER -> NoType

\* A parameter has a type only when it is elementary: item.typeName.name.
ParamType(t) == IF t.sort = "ElementaryTypeName" THEN GqlForSol(t) ELSE NoType
Typed(params) == [i \in DOMAIN params |-> [name |-> params[i].name, type |-> ParamType(params[i].type)]]

Plain(w) == [word |-> w, cap |-> FALSE, inner |-> "own", bar |-> FALSE]
Type(w) == [Plain(w) EXCEPT !.cap = TRUE]
EntityName(n) == [n EXCEPT !.cap = TRUE]

\* toLowerCase
LowerCase(n) == [n EXCEPT !.cap = FALSE, !.inner = "own"]

With(n, suffix) == [n EXCEPT !.word = @ \o suffix]
QueryName(n) == IF n.bar THEN n ELSE [n EXCEPT !.cap = FALSE]
PluralName(n) == With(n, "s")

EventQueries == {Plain("events"), Plain("eventsInRange")}
StateQueries == {Plain("getStateByCID"), Plain("getState"), Plain("getSyncStatus")}
Meta == [Plain("meta") EXCEPT !.bar = TRUE]
BuiltIn == EventQueries \cup StateQueries \cup {Meta}

BasicTypes == {Type("bigInt"), Type("bigDecimal"), Type("bytes"), Type("proof"), Type("cacheControlScope")}
EventTypes == {Type("resultEvent"), Type("event")}

Field(gql, list, required) == [gql |-> gql, list |-> list, required |-> required]
Fields(S, f) == [n \in S |-> f]

\* f, and g where f has no value
f ++ g == [x \in DOMAIN f \cup DOMAIN g |-> IF x \in DOMAIN f THEN f[x] ELSE g[x]]
OwnArgs == Fields({"blockHash", "contractAddress"}, "String")

-----------------------------------------------------------------------------
(* A query: a declaration as it is handed to the generators.               *)

FunctionQuery(f) ==
    [name |-> f.name, params |-> f.params, returns |-> f.returns, mode |-> "eth_call"]

\* The keys of a mapping become the parameters key0, key1, ...
VariableQuery(v) ==
    [name |-> v.name, returns |-> <<v.type>>, mode |-> "storage",
     params |-> [i \in DOMAIN v.keys |-> [name |-> "key" \o ToString(i - 1), type |-> v.keys[i]]]]

HasName(list, n) == \E q \in Range(list) : q.name = n
AddAgain(list, q) == Append(list, q)
AddOnce(list, q) == IF HasName(list, q.name) THEN list ELSE Append(list, q)

ReturnField(t) == Field(GqlForSol(t), t.sort = "ArrayTypeName", TRUE)
ValueName(q, i) == IF Len(q.returns) > 1 THEN "value" \o ToString(i - 1) ELSE "value"

ManyName(q) == [With(q.name, "Type") EXCEPT !.cap = TRUE, !.word = "result" \o @]
PlainResultName(q) == IF Len(q.returns) > 1 THEN ManyName(q) ELSE Type("result" \o GqlForSol(q.returns[1]))

\* The object type of an answer: one per type of a single value, one per query
\* of several values.
ResultName(q) ==
    IF Len(q.returns) > 1 THEN ManyName(q)
    ELSE LET t == ReturnField(q.returns[1])
         IN Type("result" \o t.gql \o (IF t.list THEN "Array" ELSE ""))

ResultTypes(q) ==
    IF Len(q.returns) > 1
    THEN Fields({EntityName(With(q.name, "Type"))}, [n \in {ValueName(q, i) : i \in DOMAIN q.returns} |->
             ReturnField(q.returns[CHOOSE i \in DOMAIN q.returns : ValueName(q, i) = n])])
         ++ Fields({ResultName(q)}, Fields({"value"}, Field(EntityName(With(q.name, "Type")), FALSE, TRUE)))
    ELSE Fields({ResultName(q)}, Fields({"value"}, ReturnField(q.returns[1])))

Args(params) ==
    [n \in {p.name : p \in Range(params)} |->
        LET last == CHOOSE i \in DOMAIN params :
                        params[i].name = n /\ \A j \in DOMAIN params : params[j].name = n => j <= i
        IN ParamType(params[last].type)] ++ OwnArgs

SchemaLatest(q) ==
    [schema EXCEPT !.queries = Fields({q.name}, [args |-> Args(q.params), type |-> ResultName(q)]) ++ @,
                   !.types = @ ++ ResultTypes(q)]

SchemaWith(q) ==
    IF q.name \in DOMAIN schema.queries THEN schema
    ELSE [schema EXCEPT !.queries = Fields({q.name}, [args |-> Args(q.params), type |-> ResultName(q)]) ++ @,
                        !.types = @ ++ ResultTypes(q)]

ResolverOf(q) == [name |-> q.name, params |-> Typed(q.params)]

IndexerQuery(q) ==
    [name |-> q.name, entity |-> EntityName(q.name), params |-> Typed(q.params),
     returns |-> [i \in DOMAIN q.returns |-> ReturnField(q.returns[i])], mode |-> q.mode,
     contract |-> contract]

DatabaseQuery(q) ==
    [name |-> q.name, entity |-> EntityName(q.name), params |-> Typed(q.params),
     values |-> {ValueName(q, i) : i \in DOMAIN q.returns}]

\* The columns of the table beside id, blockHash, blockNumber, contractAddress, proof.
Table(q) ==
    [className |-> EntityName(q.name), name |-> q.name,
     columns |-> {<<q.params[i].name, PgForGql(ParamType(q.params[i].type)), FALSE>> : i \in DOMAIN q.params}
            \cup {<<ValueName(q, i), PgForGql(GqlForSol(q.returns[i])), q.returns[i].sort = "ArrayTypeName">> :
                      i \in DOMAIN q.returns}]

HasTable(q) == \E e \in Range(entities) : LowerCase(e.className) = LowerCase(q.name)
HasLikeTable(q) == \E e \in Range(entities) : e.className.word = q.name.word
AddUnlike(q) == IF HasLikeTable(q) THEN entities ELSE Append(entities, Table(q))
AddTable(q) == IF HasTable(q) THEN entities ELSE Append(entities, Table(q))

UnhandledParams(q) == \E p \in Range(q.params) : ParamType(p.type) = NoType
UnhandledReturns(q) == \E t \in Range(q.returns) : GqlForSol(t) = NoType

\* An assertion about a type fails in a generator that does not have the query.
Throws(q) ==
    LET inSchema == q.name \in DOMAIN schema.queries
        everywhere == inSchema /\ HasName(resolvers, q.name) /\ HasTable(q)
    IN \/ UnhandledParams(q) /\ ~everywhere
       \/ UnhandledReturns(q) /\ ~(inSchema /\ HasName(indexer, q.name) /\ HasTable(q))

Fail == phase' = "failed" /\ UNCHANGED <<config, contract, visited, schema, generated, history>>

Skip == visited' = visited + 1 /\ UNCHANGED <<config, phase, contract, schema, generated, history>>

AddQuery(q) ==
    \/ /\ Throws(q)
       /\ Fail
    \/ /\ ~Throws(q)
       /\ schema' = SchemaWith(q)
       /\ resolvers' = AddOnce(resolvers, ResolverOf(q))
       /\ indexer' = AddOnce(indexer, IndexerQuery(q))
       /\ entities' = AddTable(q)
       /\ database' = AddOnce(database, DatabaseQuery(q))
       /\ client' = AddOnce(client, ResolverOf(q))
       /\ visited' = visited + 1
       /\ declared' = declared \cup {q}
       /\ UNCHANGED <<config, phase, contract, parsed>>

-----------------------------------------------------------------------------
(* Events.                                                                 *)

\* An indexed value of a reference type is its hash.
EventField(p) ==
    IF p.indexed /\ (p.type.base \in {"string", "bytes"} \/ p.type.sort = "ArrayTypeName")
    THEN Field("String", FALSE, TRUE)
    ELSE ReturnField(p.type)

NewFields(inputs) ==
    IF inputs = <<>> THEN Fields({"dummy"}, Field("String", FALSE, FALSE))
    ELSE [n \in {p.name : p \in Range(inputs)} |->
             LET p == CHOOSE p \in Range(inputs) : p.name = n
             IN IF EventField(p).list THEN [EventField(p) EXCEPT !.required = FALSE] ELSE EventField(p)]

KeepRequired(current, inputs) ==
    current ++ [n \in {p.name : p \in Range(inputs)} |->
                   Field(ParamType((CHOOSE p \in Range(inputs) : p.name = n).type), FALSE, FALSE)]

\* Fields that both declarations have stay as they are; the others may be null.
ResolveEventConflict(current, inputs) ==
    LET names == {p.name : p \in Range(inputs)}
    IN [n \in DOMAIN current |-> IF n \in names THEN current[n] ELSE [current[n] EXCEPT !.required = FALSE]]
       ++ [n \in names |-> Field(ParamType((CHOOSE p \in Range(inputs) : p.name = n).type), FALSE, FALSE)]

EventType(e) == Type(e.name \o "Event")

EventUnhandled(e) ==
    IF EventType(e) \in DOMAIN schema.types
    THEN \E p \in Range(e.inputs) :
            p.name \notin DOMAIN schema.types[EventType(e)] /\ ParamType(p.type) = NoType
    ELSE \E p \in Range(e.inputs) : EventField(p).gql = NoType

\* The first event brings the queries, the subscription and the types they need.
AddEventType(e) ==
    LET T == EventType(e)
        first == schema.union = {}
    IN schema' =
         IF T \in DOMAIN schema.types
         THEN [schema EXCEPT !.types[T] = ResolveEventConflict(@, e.inputs)]
         ELSE [queries |-> (IF first THEN Fields(EventQueries, [args |-> <<>>, type |-> Type("resultEvent")])
                            ELSE <<>>) ++ schema.queries,
               types |-> schema.types ++ Fields({T}, NewFields(e.inputs)) ++ Fields(EventTypes, <<>>),
               union |-> schema.union \cup {T}]

-----------------------------------------------------------------------------
(* The run of the generator.                                               *)

Mode == IF config.mode = "unset" THEN "all" ELSE config.mode

\* Contracts of data sources that the config lacks are added with their ABI only.
Missing == SelectSeq(DataSources, LAMBDA d : d \notin Range(Given))
Contracts == Given \o (IF config.subgraph THEN Missing ELSE <<>>)

HasSource == contract <= Len(Given)

Init ==
    /\ config \in [mode : {"unset", "eth_call", "storage", "all", "none"},
                   continueOnError : BOOLEAN, subgraph : BOOLEAN]
    /\ phase = "events" /\ contract = 1 /\ visited = 0
    /\ schema = [queries |-> <<>>, types |-> Fields(BasicTypes, <<>>), union |-> {}]
    /\ resolvers = <<>> /\ indexer = <<>> /\ entities = <<>> /\ database = <<>> /\ client = <<>>
    /\ parsed = {} /\ declared = {}

ParseEvent(e) ==
    /\ phase = "events" /\ contract <= Len(Contracts) /\ visited < MaxEvents
    /\ \/ EventUnhandled(e) /\ Fail
       \/ /\ ~EventUnhandled(e)
          /\ AddEventType(e)
          /\ parsed' = parsed \cup {e}
          /\ visited' = visited + 1
          /\ UNCHANGED <<config, phase, contract, generated, declared>>

EventsParsed ==
    /\ phase = "events" /\ contract <= Len(Contracts)
    /\ phase' = "declarations" /\ visited' = 0
    /\ UNCHANGED <<config, contract, schema, generated, history>>

Visiting == phase = "declarations" /\ HasSource /\ visited < MaxNodes

VisitFunction(f) ==
    /\ Visiting /\ Mode \in {"all", "eth_call"}
    /\ IF ~f.view \/ ~f.public \/ f.returns = <<>> THEN Skip
       ELSE IF ~config.continueOnError /\ \E t \in Range(f.returns) : t.sort = "UserDefinedTypeName"
            THEN Fail
            ELSE AddQuery(FunctionQuery(f))

\* A state variable of a type that is not handled is an error or is left out.
VisitStateVariable(v) ==
    /\ Visiting /\ Mode \in {"all", "storage"}
    /\ IF v.immutable THEN Skip
       ELSE IF \E k \in Range(v.keys) : k.sort # "ElementaryTypeName" THEN Fail
       ELSE IF v.keys # <<>> \/ v.type.sort = "ElementaryTypeName" THEN AddQuery(VariableQuery(v))
       ELSE IF config.continueOnError THEN Skip ELSE Fail

NextContract ==
    /\ phase = "declarations"
    /\ contract' = contract + 1
    /\ phase' = "events" /\ visited' = 0
    /\ UNCHANGED <<config, schema, generated, history>>

\* the queries of types of the subgraph: one by id, one of a list for each
SubgraphNames(S) == UNION {{QueryName(n), PluralName(QueryName(n))} : n \in S}

\* Types of the subgraph that the schema has already are left out of the schema
\* only; the queries of the others replace those of the same name.
SubgraphQueries(S) ==
    [q \in SubgraphNames(S) |->
        [args |-> <<>>, type |-> CHOOSE n \in S : q \in {QueryName(n), PluralName(QueryName(n))}]]
    ++ Fields({Meta}, [args |-> <<>>, type |-> Type("meta")])

\* their resolvers
ResolversOf(types) ==
    [k \in 1..(2 * Len(types)) |->
        LET query == QueryName(types[(k + 1) \div 2])
        IN [name |-> IF k % 2 = 1 THEN query ELSE PluralName(query), params |-> <<>>]]

FixedTable(n) == [className |-> n, name |-> n, columns |-> {}]

VisitSubgraph(S) ==
    /\ phase = "events" /\ contract > Len(Contracts)
    /\ phase' = "export"
    /\ LET new == {n \in S : n \notin DOMAIN schema.types}
           types == SetToSeq(S)
       IN IF ~config.subgraph THEN UNCHANGED <<schema, generated>>
          ELSE /\ schema' = [schema EXCEPT !.queries = SubgraphQueries(new) ++ @,
                                           !.types = @ ++ Fields(new, <<>>)]
               /\ entities' = entities \o [i \in DOMAIN types |-> FixedTable(types[i])]
               /\ resolvers' = resolvers \o ResolversOf(types)
               /\ UNCHANGED <<indexer, database, client>>
    /\ UNCHANGED <<config, contract, visited, history>>

\* The state queries join the schema; the resolvers end with all the built-in
\* ones, the tables with those of the watcher itself.
BuiltInResolvers ==
    <<Plain("events"), Plain("eventsInRange"), Plain("getStateByCID"), Plain("getState")>>
        \o (IF config.subgraph THEN <<Meta>> ELSE <<>>) \o <<Plain("getSyncStatus")>>
BuiltInTables ==
    <<Type("event"), Type("syncStatus"), Type("contract"), Type("blockProgress"), Type("state"), Type("stateSyncStatus")>>
        \o (IF config.subgraph THEN <<Type("frothyEntity")>> ELSE <<>>)
ExportWatcher ==
    /\ phase = "export"
    /\ phase' = "done"
    /\ schema' = [schema EXCEPT !.queries = Fields(StateQueries, [args |-> <<>>, type |-> Type("state")]) ++ @]
    /\ resolvers' = resolvers \o [i \in DOMAIN BuiltInResolvers |-> [name |-> BuiltInResolvers[i], params |-> <<>>]]
    /\ entities' = entities \o [i \in DOMAIN BuiltInTables |-> FixedTable(BuiltInTables[i])]
    /\ UNCHANGED <<config, contract, visited, indexer, database, client, history>>

Next ==
    \/ \E e \in EventDecl : ParseEvent(e)
    \/ EventsParsed
    \/ \E f \in FunctionDecl : VisitFunction(f)
    \/ \E v \in VariableDecl : VisitStateVariable(v)
    \/ NextContract
    \/ \E S \in SUBSET Entity : VisitSubgraph(S)
    \/ ExportWatcher

Spec == Init /\ [][Next]_vars

-----------------------------------------------------------------------------
(* Properties.                                                             *)

Lists == {resolvers, indexer, database, client}

\* Types: no generator but that of the resolvers, which adds the subgraph and the
\* built-in queries unseen, holds two queries of one name.
TypeOK ==
    /\ phase \in {"events", "declarations", "export", "done", "failed"}
    /\ contract \in Nat \ {0}
    /\ phase = "declarations" => contract <= Len(Contracts)
    /\ visited \in 0..(MaxEvents + MaxNodes)
    /\ \A T \in schema.union : T \in DOMAIN schema.types
    /\ \A q \in Range(schema.queries) : q.args = <<>> \/ q.type \in DOMAIN schema.types
    /\ \A list \in {indexer, database, client} :
          \A i, j \in DOMAIN list : list[i].name = list[j].name => i = j

\* A declaration has a name of its own: no query of the subgraph has it, no table of
\* the watcher or type of the subgraph differs from it by the case of its first letter
\* only, and no other declaration by the case of any of its letters.
Own(n) ==
    /\ n \notin BuiltIn \cup SubgraphNames(Entity)
    /\ EntityName(n) \notin Entity \cup Range(BuiltInTables)
    /\ \A q \in declared : LowerCase(q.name) = LowerCase(n) => q.name = n

\* What a query of the schema passes is what its resolver, the method of the indexer
\* and that of the database take, also when the name is declared several times,
\* with other parameters, by a contract, its bases or other contracts.
Named(q, list) == list[CHOOSE i \in DOMAIN list : list[i].name = q]
SchemaResolved ==
    phase = "done" =>
        \A q \in declared : Own(q.name) =>
            /\ HasName(resolvers, q.name) /\ HasName(indexer, q.name) /\ q.name \in DOMAIN schema.queries
            /\ LET params == Named(q.name, indexer).params
                   Given1 == [n \in {p.name : p \in Range(params)} |->
                                 (CHOOSE p \in Range(params) : p.name = n).type]
               IN /\ schema.queries[q.name].args = Given1 ++ OwnArgs
                  /\ \A list \in Lists : Named(q.name, list).params = params

\* Each declaration is served by one query, in all generated parts, with the same
\* parameters, whatever else has its name.
DeclarationsServed == TypeOK /\ SchemaResolved

\* The table of a query has a column for each parameter the database looks it up by
\* and for each value it stores, of the type and number of the answer.
TablesFit ==
    phase = "done" =>
        \A i \in DOMAIN indexer :
            LET q == indexer[i]
                params == {<<p.name, PgForGql(p.type), FALSE>> : p \in Range(q.params)}
                tables == {e \in Range(entities) : e.className = q.entity}
            IN Own(q.name) =>
                 /\ Cardinality(tables) = 1
                 /\ \A e \in tables :
                       /\ params \subseteq e.columns
                       /\ {c[1] : c \in e.columns} = {p.name : p \in Range(q.params)} \cup Named(q.name, database).values
                       /\ \A v \in Range(q.returns) : \E c \in e.columns : c[2] = PgForGql(v.gql) /\ c[3] = v.list

\* The type of an answer can carry what the declaration returns: as many values, lists
\* where it returns lists, and an Int only for integers of less than 32 bits or signed
\* ones of 32. Result types are shared by queries; a name declared with several
\* returns keeps those of the first.
Carries(f, t) ==
    /\ f.list = (t.sort = "ArrayTypeName") /\ f.required
    /\ CASE f.gql = "Int" -> t.base \in {"int", "uint"} /\ (t.bits < 32 \/ t = [t EXCEPT !.base = "int", !.bits = 32])
         [] f.gql = "BigInt" -> t.base \in {"int", "uint"}
         [] f.gql = "Boolean" -> t.base = "bool"
         [] OTHER -> t.base \in {"string", "address", "bytes"}
AnswersFit ==
    phase = "done" =>
        \A q \in declared :
            (Own(q.name) /\ \A r \in declared : r.name = q.name => r.returns = q.returns) =>
                LET value == schema.types[schema.queries[q.name].type]["value"]
                IN IF Len(q.returns) = 1 THEN Carries(value, q.returns[1])
                   ELSE \A i \in DOMAIN q.returns : Carries(schema.types[value.gql]["value" \o ToString(i - 1)], q.returns[i])

\* What a declaration returns can be kept in its table and carried by its answer.
ReturnsKept == TablesFit /\ AnswersFit

\* An event of any contract can be answered with the one type of its name: what the
\* type requires every declaration has, and a field has the type of the input.
Alike(e, p) ==
    \A d \in parsed : \A o \in Range(d.inputs) : d.name = e.name /\ o.name = p.name => EventField(o) = EventField(p)
EventsFit ==
    \A e \in parsed :
        LET type == schema.types[EventType(e)]
        IN /\ EventType(e) \in schema.union
           /\ \A n \in DOMAIN type : type[n].required => \E p \in Range(e.inputs) : p.name = n
           /\ \A p \in Range(e.inputs) : p.name \in DOMAIN type
                 /\ Alike(e, p) => type[p.name].gql = EventField(p).gql /\ type[p.name].list = EventField(p).list

\* The README of the generator says of continue-on-error "To continue generation if any
\* unhandled data type is encountered": then no declaration stops the generator.
ContinuesOnError == config.continueOnError => phase # "failed"

-----------------------------------------------------------------------------
(* What the parts of a watcher need of the names in its contracts: the code  *)
(* checks neither, and without them the properties above fail.               *)

\* the declarations the visitor may hand to the generators
Query == {FunctionQuery(f) : f \in FunctionDecl} \cup {VariableQuery(v) : v \in VariableDecl}

\* the parameters of a declaration, a sequence, have different names
ParamsNamedApart ==
    \A q \in Query :
        /\ q.params \in Seq(Range(q.params))
        /\ \A i, j \in DOMAIN q.params : q.params[i].name = q.params[j].name => i = j

\* Different events have different types, which no other part of the schema has,
\* and no input has the name of the field of a type without any.
EventNamesApart ==
    /\ \A d, e \in EventDecl : EventType(d) = EventType(e) => d.name = e.name
    /\ \A e \in EventDecl : EventType(e) \notin BasicTypes \cup EventTypes
    /\ \A e \in EventDecl, q \in Query : EventType(e) \notin DOMAIN ResultTypes(q)
    /\ \A e \in EventDecl : \A p \in Range(e.inputs) : p.name # "dummy"
=============================================================================
