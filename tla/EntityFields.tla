---------------------------- MODULE EntityFields -----------------------------
(***************************************************************************)
(* The fields of the entities of a subgraph, from the schema to the         *)
(* handlers and back: the columns generated for them, the conversions when  *)
(* a handler saves and loads an entity, and the way of the entities through *)
(* the diffs and checkpoints of the contracts into the database of a        *)
(* watcher that imports the state.                                          *)
(*                                                                          *)
(* A value is a pair: what it is, and a number that stands for its content, *)
(* or the sequence of its elements.  Kinds of the values of handlers are    *)
(* in capitals.  Blocks are final here (EntityStore has forks, StateSync    *)
(* the jobs that make diffs and checkpoints); the hash of a block is its    *)
(* number.                                                                  *)
(***************************************************************************)
EXTENDS Integers, SequencesExt, FiniteSetsExt

CONSTANTS
    Schema,     \* Schema[t][f] = [wraps, name, derived] of the field f of the
                \* type t: its type, from outside to the name, and whether it
                \* is @derivedFrom
    Enum,       \* the enums of the schema
    Given,      \* the versions handlers save: [type, id, data]
    Contract,   \* addresses of data sources
    Template,   \* addresses of templates that handlers create
    Context,    \* the contexts they create them with: key -> value of a handler
    MaxBlock    \* bound on blocks

Type == DOMAIN Schema
None == <<"none", 0>>
NoContext == [none |-> <<"none", 0>>]
Null == <<"NULL", 0>>

ASSUME EntityFieldsAssumption ==
    /\ \A t \in Type : "id" \in DOMAIN Schema[t]
    /\ \A t \in Type, f \in {"blockNumber", "blockHash"} :
            f \in DOMAIN Schema[t] => Schema[t][f].wraps \in {<<>>, <<"NonNull">>}
    /\ MaxBlock \in Nat \ {0}

VARIABLES
    block,      \* the block being processed
    property,   \* propertyName of the columns, shared by all repositories
    rows,       \* the latest rows of the tables
    cached,     \* entities in the cache of the frothy region
    diff,       \* _subgraphStateMap
    checkpoint, \* checkpoints of the contracts, all diffs merged
    contract,   \* contexts of the templates in the contract table
    watched,    \* contexts of the templates in memory
    result,     \* what the last call of a handler returned
    failed,     \* the call that failed, if one has
    last,       \* history: what handlers saved last, for each entity
    created     \* history: the contexts handlers created templates with last

vars == <<block, property, rows, cached, diff, checkpoint, contract, watched,
          result, failed, last, created>>
stores == <<rows, cached, diff, last>>
contexts == <<contract, watched, created>>

-------------------------------------------------------------------------------
(* Columns (the entity and indexer generators).                              *)

Wraps(t, f) == Schema[t][f].wraps

\* getFieldType
IsArray(t, f) ==
    \/ Wraps(t, f) # <<>> /\ Head(Wraps(t, f)) = "List"
    \/ Len(Wraps(t, f)) > 1 /\ Wraps(t, f)[1] = "NonNull" /\ Wraps(t, f)[2] = "List"

IsNullable(t, f) == Wraps(t, f) = <<>> \/ Head(Wraps(t, f)) # "NonNull"

Stored(t) == {f \in DOMAIN Schema[t] : ~Schema[t][f].derived}
Relation(t) == {f \in Stored(t) : Schema[t][f].name \in Type}

\* fields that have the names of columns of their own, with a prefix
Conflict == [blockNumber |-> "_blockNumber", blockHash |-> "_blockHash"]

ColumnOf(f) == IF f \in DOMAIN Conflict THEN Conflict[f] ELSE f
FieldOf(c) == IF c \in Range(Conflict) THEN CHOOSE f \in DOMAIN Conflict : Conflict[f] = c ELSE c

Columns(t) == {ColumnOf(f) : f \in Stored(t)}
Metadata == [t \in Type |-> [c \in Columns(t) |-> c]]

TsType(t, f) ==
    CASE Schema[t][f].name = "Int"        -> "number"
      [] Schema[t][f].name = "BigInt"     -> "bigint"
      [] Schema[t][f].name = "Boolean"    -> "boolean"
      [] Schema[t][f].name = "BigDecimal" -> "Decimal"
      [] Schema[t][f].name \in Enum       -> "enum"
      [] OTHER                            -> "string"

\* the type of a nullable column does not say that it is an array
TypedAsArray(t, f) == IsArray(t, f) /\ ~IsNullable(t, f)

BigIntTransformer(t, f) ==
    IF TsType(t, f) # "bigint" THEN "none" ELSE IF TypedAsArray(t, f) THEN "array" ELSE "scalar"

DecimalTransformer(t, f) ==
    IF TsType(t, f) # "Decimal" THEN "none" ELSE IF TypedAsArray(t, f) THEN "array" ELSE "scalar"

\* mutant: the transformer of the elements, whether or not the array is null
TransformerByArray(t, f) ==
    IF TsType(t, f) \notin {"bigint", "Decimal"} THEN "none"
    ELSE IF IsArray(t, f) THEN "array" ELSE "scalar"

Transformer(t, f) ==
    IF TsType(t, f) = "Decimal" THEN DecimalTransformer(t, f) ELSE BigIntTransformer(t, f)

\* TypeNameToValueKind, for a relation that of the id
KindOf(t, f) ==
    LET name == IF f \in Relation(t) THEN Schema[Schema[t][f].name]["id"].name
                ELSE Schema[t][f].name
    IN  CASE name = "Int"        -> "INT"
          [] name = "BigInt"     -> "BIGINT"
          [] name = "Boolean"    -> "BOOL"
          [] name = "BigDecimal" -> "BIGDECIMAL"
          [] name = "Bytes"      -> "BYTES"
          [] OTHER               -> "STRING"

-------------------------------------------------------------------------------
(* Conversions.  A conversion that throws gives Error.                       *)

Error == <<"error", 0>>

Each(kind, op(_), v) ==
    LET w == [i \in DOMAIN v[2] |-> op(v[2][i])] IN
    IF Error \in Range(w) THEN Error ELSE <<kind, w>>

Parsed == [STRING |-> "string", BYTES |-> "string", BIGDECIMAL |-> "string", BOOL |-> "boolean",
           INT |-> "number", BIGINT |-> "bigint", NULL |-> "null"]

\* parseEntityValue: a value of a handler as a value of the program
Parse(v) ==
    LET parse(w) == <<Parsed[w[1]], w[2]>> IN
    IF v[1] = "ARRAY" THEN Each("array", parse, v) ELSE parse(v)

\* formatValue
Format(kind, v) ==
    IF kind \in {"BIGINT", "BIGDECIMAL", "STRING", "BYTES"} /\ v[1] = "null"
    THEN Error ELSE <<kind, v[2]>>

\* toEntityValue, formatEntityValue
FormatField(t, f, v) ==
    IF v[1] = "null" /\ IsNullable(t, f) THEN Null
    ELSE IF IsArray(t, f)
         THEN LET element(w) == Format(KindOf(t, f), w)
              IN  IF v[1] = "array" THEN Each("ARRAY", element, v) ELSE Error
         ELSE Format(KindOf(t, f), v)

\* bigintTransformer, decimalTransformer: to text, which is no array
ToText(v) == IF v[1] = "null" THEN v ELSE <<"text", v[2]>>

FromText(t, f, v) ==
    IF v[1] = "null" THEN v
    ELSE IF v[1] = "array" THEN Error ELSE <<TsType(t, f), v[2]>>

\* what the column stores for a value of the program
ToColumn(t, f, v) ==
    CASE Transformer(t, f) = "none"   -> v
      [] Transformer(t, f) = "scalar" -> IF v[1] = "array" THEN Error ELSE ToText(v)
      [] Transformer(t, f) = "array"  -> IF v[1] = "array" THEN Each("array", ToText, v) ELSE Error

\* the value of the program for that of a column, or of a state
FromColumn(t, f, v) ==
    LET from(w) == FromText(t, f, w) IN
    CASE Transformer(t, f) = "none"   -> v
      [] Transformer(t, f) = "scalar" -> from(v)
      [] Transformer(t, f) = "array"  -> IF v[1] = "array" THEN Each("array", from, v) ELSE Error

\* JSON, with jsonBigIntStringReplacer
ToJson(v) ==
    LET plain(w) == IF w[1] = "bigint" THEN <<"string", w[2]>> ELSE w IN
    IF v[1] = "array" THEN Each("array", plain, v) ELSE plain(v)

-------------------------------------------------------------------------------
(* Entities.                                                                 *)

\* what the block gives for the columns every entity has
OfBlock(f, n) == IF f = "blockNumber" THEN <<"number", n>> ELSE <<"string", n>>

\* repo.create: what is saved of an entity, by the property names
Created(t, entity) ==
    [c \in Columns(t) |-> IF property[t][c] \in DOMAIN Conflict
                          THEN OfBlock(property[t][c], block) ELSE entity[c]]

\* fromGraphEntity: the entity by the property names of its columns
FromGraphEntity(t, data) ==
    LET wasm(f) == IF f \in DOMAIN data THEN Parse(data[f]) ELSE <<"null", 0>> IN
    Created(t, [c \in Columns(t) |-> wasm(FieldOf(c))])

\* the row, Error where a transformer or the column refuses a value
ToRow(t, entity) ==
    [c \in Columns(t) |->
        LET f == FieldOf(c) IN
        IF entity[c][1] = "null" /\ ~IsNullable(t, f) THEN Error ELSE ToColumn(t, f, entity[c])]

FromRow(t, data) == [c \in Columns(t) |-> FromColumn(t, FieldOf(c), data[c])]

\* columns that toGraphEntity passes to handlers
Passed(t) == {c \in Columns(t) : property[t][c] \notin DOMAIN Conflict}

\* toGraphEntity: a renamed field gets the value of the name it is given
ToGraphEntity(t, entity, n) ==
    [f \in Stored(t) |->
        IF ColumnOf(f) \notin Passed(t) THEN Null
        ELSE IF f \in DOMAIN Conflict THEN Format(KindOf(t, f), OfBlock(f, n))
        ELSE FormatField(t, f, entity[ColumnOf(f)])]

\* toGraphEntity changes the metadata of the columns
Renamed(t) == [property EXCEPT ![t] = [c \in Columns(t) |-> FieldOf(c)]]

\* prepareEntityState: related entities as objects
ToState(t, entity) ==
    LET object(v) == <<"object", v[2]>>
        value(f) == entity[ColumnOf(f)]
        kept == {f \in Stored(t) : property[t][ColumnOf(f)] \notin DOMAIN Conflict}
    IN  [f \in kept |->
            IF f \in Relation(t) /\ value(f)[1] # "null"
            THEN IF IsArray(t, f) THEN Each("array", object, value(f)) ELSE object(value(f))
            ELSE ToJson(value(f))]

\* fromStateEntityValues
FromStateField(t, f, v) ==
    LET id(w) == <<"string", w[2]>> IN
    IF f \notin Relation(t) THEN FromColumn(t, f, v)
    ELSE IF IsArray(t, f) THEN IF v[1] = "array" THEN Each("array", id, v) ELSE Error
    ELSE IF v[1] = "null" THEN v ELSE id(v)

\* getStateEntityValues; a field that is not in the state is undefined
FromState(t, data) ==
    [c \in Columns(t) |->
        IF FieldOf(c) \in DOMAIN data THEN FromStateField(t, FieldOf(c), data[FieldOf(c)])
        ELSE <<"null", 0>>]

\* _.merge of two values: element by element for arrays
MergeValue(old, new) ==
    IF old[1] = "array" /\ new[1] = "array"
    THEN <<"array", [i \in 1..Max({Len(old[2]), Len(new[2])}) |->
                        IF i <= Len(new[2]) THEN new[2][i] ELSE old[2][i]]>>
    ELSE new

\* mutant: the first diff of an entity stays
KeepOld(old, new) == old @@ new

\* _.merge of two versions of an entity
MergeEntity(old, new) ==
    [f \in DOMAIN old \cup DOMAIN new |->
        IF f \notin DOMAIN old THEN new[f]
        ELSE IF f \notin DOMAIN new THEN old[f] ELSE MergeValue(old[f], new[f])]

\* states are functions from the keys of entities to their fields
Merge(old, new) ==
    [e \in DOMAIN old \cup DOMAIN new |->
        IF e \notin DOMAIN old THEN new[e]
        ELSE IF e \notin DOMAIN new THEN old[e] ELSE MergeEntity(old[e], new[e])]

-------------------------------------------------------------------------------
Empty == [x \in {} |-> 0]

Entity == {<<v.type, v.id>> : v \in Given}

\* one type invariant: what is stored was accepted by its column, the cache
\* and the states hold entities of the tables only
TypeOK ==
    /\ block \in 1..MaxBlock
    /\ \A t \in Type : property[t] \in [Columns(t) -> Columns(t) \cup DOMAIN Conflict]
    /\ DOMAIN rows \subseteq Entity
    /\ DOMAIN cached \subseteq DOMAIN rows
    /\ DOMAIN last = DOMAIN rows
    /\ \A e \in DOMAIN rows : Error \notin Range(rows[e].data) /\ rows[e].block \in 1..block
    /\ \A c \in Contract : DOMAIN diff[c] \cup DOMAIN checkpoint[c] \subseteq Entity
    /\ \A a \in Template : watched[a] # NoContext => contract[a] # NoContext

Init ==
    /\ block = 1
    /\ property = Metadata
    /\ rows = Empty /\ cached = Empty /\ last = Empty
    /\ diff = [c \in Contract |-> Empty]
    /\ checkpoint = [c \in Contract |-> Empty]
    /\ contract = [a \in Template |-> NoContext]
    /\ watched = contract /\ created = contract
    /\ result = None
    /\ failed = None

\* arrays of the entity that are shorter than in the version before
Shrinks(e, data) ==
    e \in DOMAIN last /\ \E f \in DOMAIN data \cap DOMAIN last[e].data :
        /\ data[f][1] = "ARRAY" /\ last[e].data[f][1] = "ARRAY"
        /\ Len(data[f][2]) < Len(last[e].data[f][2])

\* a version is known when the tables have to hold it: it is saved, or it came
\* through a state that keeps it
Remember(e, v, c) ==
    last' = (e :> [data |-> v.data,
                   by |-> {c} \cup IF e \in DOMAIN last THEN last[e].by ELSE {},
                   shrunk |-> Shrinks(e, v.data) \/ (e \in DOMAIN last /\ last[e].shrunk),
                   known |-> TRUE]) @@ last

\* store.set, called by a handler of the contract c
StoreSet(v, c) ==
    LET t == v.type
        e == <<t, v.id>>
        entity == FromGraphEntity(t, v.data)
        row == ToRow(t, entity)
    IN  /\ failed = None
        /\ result' = None
        /\ IF Error \in Range(row)
           THEN /\ failed' = <<"set", v>>
                /\ UNCHANGED stores
           ELSE /\ rows' = (e :> [data |-> row, block |-> block, removed |-> FALSE]) @@ rows
                /\ cached' = (e :> entity) @@ cached
                /\ diff' = [diff EXCEPT ![c] = Merge(@, e :> ToState(t, entity))]
                /\ Remember(e, v, c)
                /\ UNCHANGED failed
        /\ UNCHANGED <<block, property, checkpoint, contexts>>

\* the entity as getEntity returns it
Loaded(e) == IF e \in DOMAIN cached THEN cached[e] ELSE FromRow(e[1], rows[e].data)

\* store.get
StoreGet(e) ==
    LET t == e[1] IN
    /\ failed = None
    /\ e \in DOMAIN rows /\ ~rows[e].removed
    /\ LET graph == ToGraphEntity(t, Loaded(e), rows[e].block) IN
        /\ result' = <<"entity", e, graph>>
        /\ property' = Renamed(t)
        /\ failed' = IF Error \in Range(graph) THEN <<"get", e>> ELSE failed
    /\ UNCHANGED <<block, stores, checkpoint, contexts>>

\* store.remove: one more row, and nothing in the state
StoreRemove(e) ==
    LET entity == Created(e[1], Loaded(e)) IN
    /\ failed = None
    /\ e \in DOMAIN rows /\ ~rows[e].removed
    /\ rows' = [rows EXCEPT ![e] = [data |-> ToRow(e[1], entity), block |-> block, removed |-> TRUE]]
    /\ cached' = (e :> entity) @@ cached
    /\ result' = None
    /\ UNCHANGED <<block, property, diff, checkpoint, failed, last, contexts>>

\* fromGraphContext: JSON with the kind of every value
FromGraphContext(context) ==
    LET json(v) == <<v[1], <<IF v[1] = "BIGINT" THEN "number" ELSE Parse(v)[1], v[2]>>>>
    IN  [key \in DOMAIN context |->
            IF context[key][1] # "ARRAY" THEN json(context[key])
            ELSE <<"ARRAY", [i \in DOMAIN context[key][2] |-> json(context[key][2][i])]>>]

\* toGraphContext
ToGraphContext(context) ==
    LET read(w) == Format(w[1], w[2])
    IN  [key \in DOMAIN context |->
            IF context[key][1] # "ARRAY" THEN read(context[key])
            ELSE Each("ARRAY", read, context[key])]

\* mutant: the contract is deleted, and stays in memory
ForgetRow(a, context) ==
    /\ failed = None
    /\ IF watched[a] # NoContext
       THEN contract' = [contract EXCEPT ![a] = NoContext] /\ UNCHANGED <<watched, created>>
       ELSE /\ contract' = [contract EXCEPT ![a] = FromGraphContext(context)]
            /\ watched' = contract'
            /\ created' = [created EXCEPT ![a] = context]
    /\ result' = None
    /\ UNCHANGED <<block, property, stores, checkpoint, failed>>

\* mutant: a contract that is watched is saved, and not cached again
CreateAgain(a, context) ==
    /\ failed = None
    /\ contract' = [contract EXCEPT ![a] = FromGraphContext(context)]
    /\ watched' = [watched EXCEPT ![a] = IF @ = NoContext THEN contract'[a] ELSE @]
    /\ created' = [created EXCEPT ![a] = context]
    /\ result' = None
    /\ UNCHANGED <<block, property, stores, checkpoint, failed>>

\* watchContract: the row of the contract gets the context, whether it is new
\* or a deletion has not reached the table
WatchContract(a, saved) ==
    /\ contract' = [contract EXCEPT ![a] = saved]
    /\ watched' = [watched EXCEPT ![a] = saved]

\* removeContract: the transaction of the deletion is not committed, what comes
\* of it is open
RemoveContract(a) ==
    /\ watched' = [watched EXCEPT ![a] = NoContext]
    /\ contract' \in {contract, [contract EXCEPT ![a] = NoContext]}

\* handleDataSourceCreate: a template that is already watched is left over from
\* another branch; it is forgotten and the job fails, to be tried again
CreateTemplate(a, context) ==
    /\ failed = None
    /\ IF watched[a] # NoContext
       THEN RemoveContract(a) /\ UNCHANGED created
       ELSE /\ WatchContract(a, FromGraphContext(context))
            /\ created' = [created EXCEPT ![a] = context]
    /\ result' = None
    /\ UNCHANGED <<block, property, stores, checkpoint, failed>>

\* dataSource.context, called by a handler of the template
DataSourceContext(a) ==
    /\ failed = None
    /\ watched[a] # NoContext
    /\ result' = <<"context", a, ToGraphContext(watched[a])>>
    /\ UNCHANGED <<block, property, stores, checkpoint, failed, contexts>>

\* the post-block hook dumps the diffs, which checkpoints merge
EndBlock ==
    /\ failed = None
    /\ block < MaxBlock
    /\ block' = block + 1
    /\ checkpoint' = [c \in Contract |-> Merge(checkpoint[c], diff[c])]
    /\ diff' = [c \in Contract |-> Empty]
    /\ result' = None
    /\ UNCHANGED <<property, rows, cached, failed, last, contexts>>

\* the cache forgets entities
Evict(e) ==
    /\ failed = None
    /\ e \in DOMAIN cached
    /\ cached' = [d \in DOMAIN cached \ {e} |-> cached[d]]
    /\ result' = None
    /\ UNCHANGED <<block, property, rows, diff, checkpoint, failed, last, contexts>>

NoDiffs == \A c \in Contract : diff[c] = Empty

\* the job-runner starts again, between two blocks
Restart ==
    /\ failed = None
    /\ NoDiffs
    /\ property' = Metadata
    /\ cached' = Empty
    /\ watched' = contract
    /\ result' = None
    /\ UNCHANGED <<block, rows, diff, checkpoint, contract, failed, last, created>>

\* updateEntitiesFromState for the checkpoint of each contract in the order of
\* the export: the last one overwrites those before it
ImportedVersion(order, e) ==
    LET having == SelectSeq(order, LAMBDA c : e \in DOMAIN checkpoint[c])
    IN  FromState(e[1], checkpoint[Last(having)][e])

\* export-state has the templates without their contexts
ExportedContracts == [a \in Template |-> IF contract[a] = NoContext THEN NoContext ELSE Empty]

\* import-state with what export-state wrote, into an empty database
Import(order) ==
    LET found == UNION {DOMAIN checkpoint[c] : c \in Contract}
        row(e) == ToRow(e[1], ImportedVersion(order, e))
    IN  /\ failed = None
        /\ found # {} /\ NoDiffs
        /\ IF \E e \in found : Error \in Range(ImportedVersion(order, e)) \cup Range(row(e))
           THEN /\ failed' = <<"import", found>>
                /\ UNCHANGED <<rows, last>>
           ELSE /\ rows' = [e \in found |-> [data |-> row(e), block |-> block, removed |-> FALSE]]
                /\ last' = [e \in found |->
                        [last[e] EXCEPT !.known = /\ @ /\ ~rows[e].removed
                                                  /\ ~last[e].shrunk /\ Cardinality(last[e].by) = 1]]
                /\ UNCHANGED failed
        /\ property' = Metadata
        /\ cached' = Empty
        /\ contract' = ExportedContracts /\ watched' = contract' /\ created' = contract'
        /\ result' = None
        /\ UNCHANGED <<block, diff, checkpoint>>

EntityNext(given) ==
    \/ \E v \in given, c \in Contract : StoreSet(v, c)
    \/ \E e \in Entity : StoreGet(e) \/ StoreRemove(e) \/ Evict(e)
    \/ EndBlock
    \/ Restart
    \/ \E order \in SetToSeqs(Contract) : Import(order)

TemplateNext ==
    \/ \E a \in Template, x \in Context : CreateTemplate(a, x)
    \/ \E a \in Template : DataSourceContext(a)

-------------------------------------------------------------------------------
(* Properties.                                                               *)

GivenField(e, f) == IF f \in DOMAIN last[e].data THEN last[e].data[f] ELSE Null

\* A handler that loads an entity gets, in every field, the value a handler
\* saved last, whichever way it took: the cache, the columns and their
\* transformers, or the diffs, checkpoints, an export and an import.  Left out
\* are the fields that toGraphEntity renames, and through a state the entities
\* that the state does not keep.
LoadedIsStored ==
    (result[1] = "entity" /\ last[result[2]].known) =>
        LET e == result[2] IN
        \A f \in Stored(e[1]) \ DOMAIN Conflict : result[3][f] = GivenField(e, f)

\* Loads never fail; a save fails only for the null-able arrays whose columns
\* have the transformer of a single value, an import only for relations to
\* several entities that are null and for renamed fields.
FailuresKnown ==
    /\ failed[1] # "get"
    /\ failed[1] = "set" =>
        \E f \in DOMAIN failed[2].data :
            /\ IsArray(failed[2].type, f) /\ IsNullable(failed[2].type, f)
            /\ TsType(failed[2].type, f) \in {"bigint", "Decimal"}
    /\ failed[1] = "import" =>
        \E e \in failed[2] :
            \/ Stored(e[1]) \cap DOMAIN Conflict # {}
            \/ \E f \in Relation(e[1]) : IsArray(e[1], f) /\ IsNullable(e[1], f)

\* Handlers of a template read the context it was created with last, also when
\* another branch had created it with another one.
ContextAsGiven == result[1] = "context" => result[3] = created[result[2]]

\* What handlers get back from the store and from their data source is what handlers
\* gave, through every conversion and restart, and only known values are refused.
GivenIsReturned == TypeOK /\ LoadedIsStored /\ FailuresKnown /\ ContextAsGiven

\* A field blockNumber or blockHash of an entity, kept in a column of its own,
\* is the one the handler saved.
ConflictFieldsKept ==
    (result[1] = "entity" /\ last[result[2]].known) =>
        LET e == result[2] IN
        \A f \in Stored(e[1]) \cap DOMAIN Conflict : result[3][f] = GivenField(e, f)

===============================================================================
