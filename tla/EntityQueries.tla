---------------------------- MODULE EntityQueries ----------------------------
(***************************************************************************)
(* GraphQL queries over the entities of a subgraph watcher: the filters and *)
(* orderings the generated schema offers, how they become SQL, and how the  *)
(* relations of the entities found are loaded, in further statements,       *)
(* while handlers go on saving new versions.                                *)
(*                                                                          *)
(* The rows lie on one branch of blocks (EntityStore has forks and pruning).*)
(* A key of a filter is the sequence of its parts, split at underscores,    *)
(* a string the sequence of its letters, numbered, the capital ones from    *)
(* Capital on.  Entities are not removed, and fields are not null.          *)
(***************************************************************************)
EXTENDS Integers, SequencesExt, FiniteSetsExt

CONSTANTS
    Schema,       \* Schema[t][f] = [type, array, derived] of a field f of the
                  \* type t; derived: the field of @derivedFrom, or ""
    Patterns,     \* the patterns of queries the types may be given: "group",
                  \* "distinct", "unique", "singular" or "latest"
    Version,      \* the versions that handlers may save
    Query,        \* the queries clients may send
    MaxNumber,    \* bound on block numbers
    DefaultLimit  \* DEFAULT_LIMIT

Type == DOMAIN Schema

ASSUME EntityQueriesAssumption ==
    /\ \A t \in Type : "id" \in DOMAIN Schema[t]
    /\ Patterns \subseteq [Type -> {"group", "distinct", "unique", "singular", "latest"}]
    /\ MaxNumber \in Nat \ {0}
    /\ DefaultLimit \in Nat \ {0}

VARIABLES
    rows,     \* the tables of the entities
    number,   \* the block whose events are being processed
    pattern,  \* entityQueryTypeMap and entityToLatestEntityMap
    query     \* the query being answered

vars == <<rows, number, pattern, query>>

Relation(t) == {f \in DOMAIN Schema[t] : Schema[t][f].type \in Type}
Derived(t) == {f \in DOMAIN Schema[t] : Schema[t][f].derived # ""}
Column(t) == DOMAIN Schema[t] \ Derived(t)
IsArray(t, f) == Schema[t][f].array

-------------------------------------------------------------------------------
(* What the schema offers for a type (_addSubgraphSchemaQueries).            *)

\* the type of the filters of a field: that of the ids for a relation
FilterType(t, f) == IF f \in Relation(t) THEN "String" ELSE Schema[t][f].type

Comparisons == {<<"gt">>, <<"lt">>, <<"gte">>, <<"lte">>, <<"in">>, <<"not", "in">>}

Ends == {<<e, "with">> : e \in {"starts", "ends"}}

WithNot(S) == S \cup {<<"not">> \o s : s \in S}
WithNocase(S) == S \cup {s \o <<"nocase">> : s \in S}


\* the suffixes of a field, <<>> for none
SuffixesOf(t, f) ==
    LET type == FilterType(t, f)
        text == type = "String"
        all  == {<<>>, <<"not">>}
                \cup (IF IsArray(t, f) THEN {} ELSE Comparisons)
                \cup (IF ~IsArray(t, f) /\ text THEN WithNot(WithNocase(Ends)) ELSE {})
                \cup (IF IsArray(t, f) \/ text \/ type = "Bytes"
                      THEN WithNot({<<"contains">>}) ELSE {})
                \cup (IF IsArray(t, f) \/ text
                      THEN WithNot({<<"contains", "nocase">>}) ELSE {})
    IN  IF f \in Relation(t)
        THEN {<<"">>} \cup IF f \in Derived(t)
                           THEN all \ ({<<>>, <<"not">>}
                                       \cup WithNot(WithNocase({<<"contains">>})))
                           ELSE all
        ELSE all

\* keys of the input type t_filter, next to _change_block, and, or
FilterKeys(t) == {<<f>> \o s : <<f, s>> \in UNION {
                    {f} \X SuffixesOf(t, f) : f \in DOMAIN Schema[t]}}

\* values of the enum t_orderBy: a field, or one of a related entity
NestedOrders(t, f) ==
    LET r == Schema[t][f].type IN
    {<<f, g>> : g \in {g \in DOMAIN Schema[r] : g \notin Relation(r) /\ ~IsArray(r, g)}}

OrderKeys(t) ==
    {<<f>> : f \in DOMAIN Schema[t]}
    \cup UNION {NestedOrders(t, f) : f \in {f \in Relation(t) : ~IsArray(t, f)}}

-------------------------------------------------------------------------------
(* buildFilter: the where argument is a sequence of [key, value].            *)

ChangeBlock == <<"", "change", "block">>

OperatorWithNocase ==
    [contains |-> "contains_nocase", starts |-> "starts_nocase", ends |-> "ends_nocase"]

\* the parts of a key after the field
Suffix(key) ==
    LET not  == Len(key) > 1 /\ key[2] = "not"
        rest == SubSeq(key, IF not THEN 3 ELSE 2, Len(key))
    IN  [not |-> not,
         operator |->
            IF rest = <<>> THEN "equals"
            ELSE IF Len(rest) > 1 /\ Last(rest) = "nocase"
                 THEN OperatorWithNocase[rest[1]]
                 ELSE rest[1]]

RECURSIVE BuildFilter(_)

FilterOf(e) ==
    IF Len(e.key) = 2 /\ e.key[2] = ""
    THEN [not |-> FALSE, operator |-> "nested", value |-> BuildFilter(e.value)]
    ELSE Suffix(e.key) @@ [value |-> e.value]

\* one entry per field, with the filters of the field
AddFilter(where, e) ==
    LET known == {i \in DOMAIN where : where[i].field = e.key[1]} IN
    IF e.key \in {<<"and">>, <<"or">>}
    THEN Append(where, [field |-> e.key[1],
                        filters |-> [i \in DOMAIN e.value |-> BuildFilter(e.value[i])]])
    ELSE IF e.key = ChangeBlock
    THEN Append(where, [field |-> "_change_block",
                        filters |-> <<[not |-> FALSE, operator |-> "gte", value |-> e.value]>>])
    ELSE IF known = {}
    THEN Append(where, [field |-> e.key[1], filters |-> <<FilterOf(e)>>])
    ELSE [where EXCEPT ![CHOOSE i \in known : TRUE].filters = Append(@, FilterOf(e))]

BuildFilter(w) == FoldLeft(AddFilter, <<>>, w)

FiltersOn(where, f) == SelectSeq(where, LAMBDA e : e.field = f)
Without(where, F) == SelectSeq(where, LAMBDA e : e.field \notin F)

\* _.mergeWith of the where of a relation and the filter that selects it
MergeWhere(where, f, operator, value) ==
    LET filter == [field |-> f,
                   filters |-> <<[not |-> FALSE, operator |-> operator, value |-> value]>>]
    IN  IF FiltersOn(where, f) = <<>> THEN Append(where, filter)
        ELSE [i \in DOMAIN where |-> IF where[i].field = f THEN filter ELSE where[i]]

-------------------------------------------------------------------------------
(* buildWhereClause: the conditions of the SQL query name their parameters,  *)
(* whose values are kept by name for the whole query.                        *)

Lowered(s) == [i \in DOMAIN s |-> IF s[i] > 10 THEN s[i] - 10 ELSE s[i]]

IsSubstring(s, t) == \E i \in 0..Len(t) - Len(s) : SubSeq(t, i + 1, i + Len(s)) = s

\* the order of the values of a field, for strings that of their letters
Below(t, f, v, w) ==
    IF Schema[t][f].type \in {"ID", "String"} \cup Type
    THEN \E i \in 1..Len(w) :
            /\ SubSeq(w, 1, i - 1) = SubSeq(v, 1, Min({i - 1, Len(v)}))
            /\ Len(v) < i \/ v[i] < w[i]
    ELSE v < w

\* the condition of an operator of OPERATOR_MAP on the value v of a field
Compare(t, f, operator, v, value) ==
    CASE operator = "equals" -> v = value
      [] operator = "gt"     -> Below(t, f, value, v)
      [] operator = "lt"     -> Below(t, f, v, value)
      [] operator = "gte"    -> ~Below(t, f, v, value)
      [] operator = "lte"    -> ~Below(t, f, value, v)
      [] operator = "in"     -> v \in Range(value)
      [] operator = "contains" -> IsSubstring(value, v)
      [] operator = "starts" -> IsPrefix(value, v)
      [] operator = "ends"   -> IsSuffix(value, v)
      [] operator = "contains_nocase" -> IsSubstring(Lowered(value), Lowered(v))
      [] operator = "starts_nocase" -> IsPrefix(Lowered(value), Lowered(v))
      [] operator = "ends_nocase" -> IsSuffix(Lowered(value), Lowered(v))

\* of an array column: @> or, for not, NOT &&
ArrayContains(v, not, value) ==
    IF not THEN Range(v) \cap Range(value) = {} ELSE Range(value) \subseteq Range(v)

\* an empty list of an in filter is FALSE, with not as well
Condition(t, f, filter, v, value) ==
    IF IsArray(t, f) /\ filter.operator \in {"contains", "contains_nocase"}
    THEN ArrayContains(v, filter.not, value)
    ELSE IF filter.operator = "in" /\ value = <<>> THEN FALSE
    ELSE Compare(t, f, filter.operator, v, value) # filter.not

\* variableName: the field, the suffix of the clause, and two indices
ParameterName(f, suffix, i, k) == <<f>> \o suffix \o <<i, k>>

\* the parameters a list of conditions sets, each overwriting those before it
RECURSIVE Parameters(_, _)

ParametersOf(e, suffix, i) ==
    LET Set(params, more) == more @@ params
        none == [name \in {} |-> 0]
    IN  IF e.field \in {"and", "or"}
        THEN FoldLeft(LAMBDA p, w : Set(p, Parameters(w, suffix \o <<i>>)), none, e.filters)
        ELSE FoldLeft(LAMBDA p, k :
                        LET filter == e.filters[k] IN
                        IF filter.operator = "nested"
                        THEN Set(p, Parameters(filter.value, suffix \o <<i>>))
                        ELSE Set(p, ParameterName(e.field, suffix, i, k) :> filter.value),
                      none, [k \in DOMAIN e.filters |-> k])

Parameters(where, suffix) ==
    FoldLeft(LAMBDA p, i : ParametersOf(where[i], suffix, i) @@ p,
             [name \in {} |-> 0], [i \in DOMAIN where |-> i])

\* the rows a nested filter looks at: all versions up to the block n
RelatedRows(t, f, r, n) ==
    LET related == Schema[t][f].type IN
    {s \in rows : /\ s.type = related
                  /\ n # 0 => s.block <= n
                  /\ IF f \in Derived(t)
                     THEN s.data[Schema[t][f].derived] = r.data.id
                     ELSE IF IsArray(t, f) THEN s.data.id \in Range(r.data[f])
                                           ELSE s.data.id = r.data[f]}

\* whether a row satisfies the clause, given the parameters of the query;
\* relations are the fields that nested filters are served for
RECURSIVE Satisfies(_, _, _, _, _, _)

SatisfiesEntry(r, e, relations, suffix, params, i, n) ==
    CASE e.field = "and" -> \A k \in DOMAIN e.filters :
                                Satisfies(r, e.filters[k], relations, suffix \o <<i>>, params, n)
      [] e.field = "or"  -> \E k \in DOMAIN e.filters :
                                Satisfies(r, e.filters[k], relations, suffix \o <<i>>, params, n)
      [] OTHER -> \A k \in DOMAIN e.filters :
            LET filter == e.filters[k]
                value  == params[ParameterName(e.field, suffix, i, k)]
            IN  IF filter.operator = "nested"
                THEN /\ e.field \in relations
                     /\ \E s \in RelatedRows(r.type, e.field, r, n) :
                            Satisfies(s, filter.value, {}, suffix \o <<i>>, params, n)
                ELSE Condition(r.type, e.field, filter, r.data[e.field], value)

Satisfies(r, where, relations, suffix, params, n) ==
    \A i \in DOMAIN where : SatisfiesEntry(r, where[i], relations, suffix, params, i, n)

Matches(r, where, n) ==
    Satisfies(r, where, Relation(r.type), <<>>, Parameters(where, <<>>), n)

\* the query fails: a field is no column, nested filters of a relation aside
\* (assert(columnMetadata)), or nested, where the subquery is given no
\* relations, is taken for an operator and SQL has none of that name
RECURSIVE Throws(_, _, _)
Throws(t, where, relations) ==
    \E i \in DOMAIN where :
        LET e == where[i] IN
        IF e.field \in {"and", "or"}
        THEN \E k \in DOMAIN e.filters : Throws(t, e.filters[k], relations)
        ELSE \E k \in DOMAIN e.filters :
                IF e.filters[k].operator # "nested" THEN e.field \notin Column(t)
                ELSE \/ e.field \notin relations
                     \/ Throws(Schema[t][e.field].type, e.filters[k].value, {})

-------------------------------------------------------------------------------
(* getEntities: options are [order, desc, first, skip], order a key of       *)
(* OrderKeys, <<>> for none, first 0 for the default limit.                  *)

RowsOf(t) == {r \in rows : r.type = t}
UpTo(S, n) == IF n = 0 THEN S ELSE {r \in S : r.block <= n}
LatestOf(S) == {r \in S : \A s \in S : s.data.id = r.data.id => s.block <= r.block}

\* a row of the latest-entity table is that of the last version saved
LatestRow(id, t) == CHOOSE r \in LatestOf(RowsOf(t)) : r.data.id = id

ChangedSince(S, where) ==
    LET change == FiltersOn(where, "_change_block") IN
    IF change = <<>> THEN S ELSE {r \in S : r.block >= change[1].filters[1].value}

\* the condition on the ids, which goes to the inner query
WithIds(S, where) == {r \in S : Matches(r, FiltersOn(where, "id"), 0)}

\* getEntitiesGroupBy
GroupBy(t, n, where) ==
    LET latest == LatestOf(UpTo(ChangedSince(WithIds(RowsOf(t), where), where), n))
    IN  {r \in latest : Matches(r, Without(where, {"id", "_change_block"}), n)}

\* getEntitiesUnique: no version is taken for another of the same entity
Unique(t, n, where) ==
    {r \in UpTo(ChangedSince(RowsOf(t), where), n) : Matches(r, Without(where, {"_change_block"}), n)}

\* getEntitiesDistinctOn: the filters choose among the versions
DistinctOn(t, n, where) == LatestOf(Unique(t, n, where))

\* getEntitiesSingular: the last row (one of them, of several in its block)
Singular(t, n, where) ==
    LET S == Unique(t, n, where)
        last == {r \in S : \A s \in S : s.block <= r.block}
    IN  IF S = {} THEN {} ELSE {CHOOSE r \in last : TRUE}

\* getEntitiesLatest
Latest(t, where) ==
    {r \in ChangedSince(LatestOf(RowsOf(t)), where) : Matches(r, Without(where, {"_change_block"}), 0)}

\* getEntitiesLateral: the filters are about the latest versions
Lateral(t, n, where) ==
    {r \in LatestOf(UpTo(ChangedSince(RowsOf(t), where), n)) :
        Matches(LatestRow(r.data.id, t), Without(where, {"_change_block"}), n)}

\* orderQueryNested joins the latest version of the related entity
RelatedRow(r, f, n) ==
    {s \in LatestOf(UpTo(RowsOf(Schema[r.type][f].type), n)) : s.data.id = r.data[f]}

\* what a row is ordered by: the field, and the row that has it; {} if the
\* join drops the row
OrderedBy(r, order, n) ==
    IF order = <<>> THEN {<<"id", r>>}
    ELSE IF Len(order) = 1 THEN {<<order[1], r>>}
    ELSE {<<order[2], s>> : s \in RelatedRow(r, order[1], n)}

\* the order of two rows by the field asked for
ValueBelow(r, s, order, n) ==
    \E v \in OrderedBy(r, order, n), w \in OrderedBy(s, order, n) :
        Below(v[2].type, v[1], v[2].data[v[1]], w[2].data[v[1]])

IdBelow(r, s) == Below(r.type, "id", r.data.id, s.data.id)

\* mutant: rows of the same value are left in the order of their ids
BeforeById(r, s, options, n) ==
    IF ValueBelow(r, s, options.order, n) \/ ValueBelow(s, r, options.order, n)
    THEN ValueBelow(r, s, options.order, n) # options.desc
    ELSE IdBelow(r, s)

\* by the value, then by the id, both in the direction asked for
Before(r, s, options, n) ==
    LET up(x, y) == \/ ValueBelow(x, y, options.order, n)
                    \/ ~ValueBelow(y, x, options.order, n) /\ IdBelow(x, y)
    IN  IF options.desc THEN up(s, r) ELSE up(r, s)

\* the latest table has the values the patterns with a latest type order by
OrderedRow(t, r, n) ==
    IF pattern[t] = "latest" /\ n # 0 THEN LatestRow(r.data.id, t) ELSE r

Limit(options) == IF options.first = 0 THEN DefaultLimit ELSE options.first

\* offset and limit
Page(s, options) ==
    SubSeq(s, options.skip + 1, Min({Len(s), options.skip + Limit(options)}))

\* orderQuery refuses arrays and derived fields
Unordered(t, order) ==
    order # <<>> /\ (IsArray(t, order[1]) \/ order[1] \in Derived(t))

Selected(t, n, where) ==
    CASE pattern[t] = "group"    -> GroupBy(t, n, where)
      [] pattern[t] = "distinct" -> DistinctOn(t, n, where)
      [] pattern[t] = "unique"   -> Unique(t, n, where)
      [] pattern[t] = "singular" -> Singular(t, n, where)
      [] pattern[t] = "latest"   -> IF n = 0 THEN Latest(t, where) ELSE Lateral(t, n, where)

\* without orderBy, the distinct-on query orders by id, whatever the direction
Ordering(t, options) ==
    IF pattern[t] = "distinct" /\ options.order = <<>>
    THEN [options EXCEPT !.desc = FALSE] ELSE options

GetEntities(t, n, where, options) ==
    LET found == {r \in Selected(t, n, where) :
                    OrderedBy(OrderedRow(t, r, n), options.order, n) # {}}
        lt(r, s) == Before(OrderedRow(t, r, n), OrderedRow(t, s, n), Ordering(t, options), n)
    IN  Page(SetToSortSeq(found, lt), options)

-------------------------------------------------------------------------------
(* Relations, loaded for all entities of a list at once (loadRelation).  A   *)
(* selection is [field, where, options, onlyId]; its where and order are     *)
(* ones that do not fail.                                                    *)

Ids(entities) == [i \in DOMAIN entities |-> entities[i].data.id]

\* the filter that selects the related entities of all entities
RelatedFilter(t, s, entities) ==
    LET f == s.field
        own == [i \in DOMAIN entities |-> entities[i].data[f]]
    IN  IF f \in Derived(t)
        THEN MergeWhere(BuildFilter(s.where), Schema[t][f].derived, "in", Ids(entities))
        ELSE IF IsArray(t, f)
        THEN MergeWhere(BuildFilter(s.where), "id", "in", FlattenSeq(own))
        ELSE MergeWhere(BuildFilter(s.where), "id", "in", own)

\* the first DEFAULT_LIMIT elements of a list
Capped(s) == SubSeq(s, 1, Min({Len(s), DefaultLimit}))

\* what entity r gets of the related entities found for all
Share(t, s, r, related) ==
    LET f == s.field IN
    IF f \in Derived(t)
    THEN Capped(SelectSeq(related, LAMBDA c : c.data[Schema[t][f].derived] = r.data.id))
    ELSE IF IsArray(t, f)
    THEN Capped(SelectSeq(related, LAMBDA c : c.data.id \in Range(r.data[f])))
    ELSE SelectSeq(related, LAMBDA c : c.data.id = r.data[f])

\* mutant: the latest related entities, whatever the block of the query
LoadLatest(t, s, entities, n) ==
    LET related == GetEntities(Schema[t][s.field].type, 0, RelatedFilter(t, s, entities), s.options)
    IN  [i \in DOMAIN entities |-> Ids(Share(t, s, entities[i], related))]

\* the relation of every entity of the list; a selection of the id alone of a
\* single relation needs no query
LoadRelation(t, s, entities, n) ==
    LET related == GetEntities(Schema[t][s.field].type, n, RelatedFilter(t, s, entities), s.options)
    IN  [i \in DOMAIN entities |->
            IF s.onlyId /\ s.field \notin Derived(t) /\ ~IsArray(t, s.field)
            THEN <<entities[i].data[s.field]>>
            ELSE Ids(Share(t, s, entities[i], related))]

\* getEntityWithRelations: the last version of an entity up to the block
GetEntity(t, id, n) == {r \in LatestOf(UpTo(RowsOf(t), n)) : r.data.id = id}

\* the same for a single entity (loadEntityRelations)
LoadEntityRelation(t, s, r, n) ==
    LET f == s.field
        own == IF f \in Derived(t)
               THEN MergeWhere(BuildFilter(s.where), Schema[t][f].derived, "equals", r.data.id)
               ELSE MergeWhere(BuildFilter(s.where), "id", "in", r.data[f])
    IN  IF f \in Derived(t) \/ IsArray(t, f)
        THEN Ids(GetEntities(Schema[t][f].type, n, own, s.options))
        ELSE Ids(SetToSeq(GetEntity(Schema[t][f].type, r.data[f], n)))

-------------------------------------------------------------------------------
NoQuery == [stage |-> "idle"]

\* Types; a relation of a query is either still to be loaded or has been, once.
TypeOK ==
    /\ rows \subseteq Version
    /\ number \in 1..MaxNumber
    /\ pattern \in Patterns
    /\ query = NoQuery \/
        /\ query.stage \in {"loading", "done", "failed"}
        /\ query.asked \in Query
        /\ query.since \in 1..number
        /\ Range(query.entities) \subseteq Version
        /\ query.pending \subseteq DOMAIN query.asked.select
        /\ DOMAIN query.loaded = DOMAIN query.asked.select \ query.pending

Init ==
    /\ rows = {}
    /\ number = 1
    /\ pattern \in Patterns
    /\ query = NoQuery

\* a handler of the block saves a version of an entity; entities of the types
\* with the pattern of unique entities are saved once
SaveEntity(v) ==
    /\ v.block = number
    /\ v \notin rows
    /\ pattern[v.type] \in {"unique", "singular"} =>
        \A r \in RowsOf(v.type) : r.data.id # v.data.id
    /\ pattern[v.type] = "singular" => RowsOf(v.type) = {}
    /\ rows' = {r \in rows : ~(r.type = v.type /\ r.block = v.block /\ r.data.id = v.data.id)}
               \cup {v}
    /\ UNCHANGED <<number, pattern, query>>

NextBlock ==
    /\ number < MaxNumber
    /\ number' = number + 1
    /\ UNCHANGED <<rows, pattern, query>>

\* the first statement of the query: the entities of the list
StartQuery(q) ==
    LET where == BuildFilter(q.where)
        fails == \/ Throws(q.type, Without(where, {"_change_block"}), Relation(q.type))
                 \/ Unordered(q.type, q.options.order)
    IN  /\ query = NoQuery
        /\ query' = [stage |-> IF fails THEN "failed"
                               ELSE IF q.select = <<>> THEN "done" ELSE "loading",
                     asked |-> q, since |-> number,
                     entities |-> IF fails THEN <<>>
                                  ELSE GetEntities(q.type, q.block, where, q.options),
                     pending |-> DOMAIN q.select,
                     loaded |-> [i \in {} |-> 0]]
        /\ UNCHANGED <<rows, number, pattern>>

\* mutant: the relation is loaded again
LoadAgain(i) ==
    /\ query.stage = "loading"
    /\ i \in query.pending
    /\ query' = [query EXCEPT !.loaded = i :> <<>> @@ @, !.stage = "done"]
    /\ UNCHANGED <<rows, number, pattern>>

\* a further statement: one of the relations selected
LoadSelection(i) ==
    LET q == query.asked
        e == query.entities
    IN  /\ query.stage = "loading"
        /\ i \in query.pending
        /\ query' = [query EXCEPT
                !.pending = @ \ {i},
                !.loaded = i :> (IF e = <<>> THEN <<>> ELSE LoadRelation(q.type, q.select[i], e, q.block)) @@ @,
                !.stage = IF query.pending = {i} THEN "done" ELSE @]
        /\ UNCHANGED <<rows, number, pattern>>

EndQuery ==
    /\ query.stage \in {"done", "failed"}
    /\ query' = NoQuery
    /\ UNCHANGED <<rows, number, pattern>>

Next ==
    \/ \E v \in Version : SaveEntity(v)
    \/ NextBlock
    \/ \E q \in Query : StartQuery(q)
    \/ \E i \in 1..2 : LoadSelection(i)
    \/ EndQuery

Spec == Init /\ [][Next]_vars

-------------------------------------------------------------------------------
(* What a client means, read off the keys and the versions at the block.     *)

VersionsAt(t, n) == LatestOf(UpTo(RowsOf(t), n))

RECURSIVE Holds(_, _, _, _, _)
Holds(t, f, v, suffix, value) ==
    LET array == IsArray(t, f) IN
    IF array /\ suffix \in {<<"not", "contains">>, <<"not", "contains", "nocase">>}
    THEN Range(v) \cap Range(value) = {}
    ELSE IF suffix # <<>> /\ suffix[1] = "not" THEN ~Holds(t, f, v, Tail(suffix), value)
    ELSE CASE suffix = <<>> -> v = value
           [] suffix = <<"gt">> -> Below(t, f, value, v)
           [] suffix = <<"lt">> -> Below(t, f, v, value)
           [] suffix = <<"gte">> -> v = value \/ Below(t, f, value, v)
           [] suffix = <<"lte">> -> v = value \/ Below(t, f, v, value)
           [] suffix = <<"in">> -> v \in Range(value)
           [] suffix[1] = "contains" /\ array -> Range(value) \subseteq Range(v)
           [] suffix = <<"contains">> -> IsSubstring(value, v)
           [] suffix = <<"starts", "with">> -> IsPrefix(value, v)
           [] suffix = <<"ends", "with">> -> IsSuffix(value, v)
           [] OTHER -> Holds(t, f, Lowered(v), Front(suffix), Lowered(value))

RECURSIVE Means(_, _, _)
Means(r, w, n) ==
    \A i \in DOMAIN w :
        LET key == w[i].key
            value == w[i].value
        IN  CASE key = <<"and">> -> \A k \in DOMAIN value : Means(r, value[k], n)
              [] key = <<"or">>  -> \E k \in DOMAIN value : Means(r, value[k], n)
              [] key = ChangeBlock -> r.block >= value
              [] Last(key) = "" ->
                    \E s \in VersionsAt(Schema[r.type][key[1]].type, n) :
                        s \in RelatedRows(r.type, key[1], r, n) /\ Means(s, value, n)
              [] OTHER -> Holds(r.type, key[1], r.data[key[1]], Tail(key), value)

\* the page of the entities of S in the order asked for
Listed(S, options, n) ==
    LET found == {r \in S : OrderedBy(r, options.order, n) # {}}
        up(r, s) == ValueBelow(r, s, options.order, n)
                    \/ (~ValueBelow(s, r, options.order, n) /\ IdBelow(r, s))
        wanted(r, s) == IF options.desc THEN up(s, r) ELSE up(r, s)
    IN  Page(SetToSortSeq(found, wanted), options)

Asked(q) == Listed({r \in VersionsAt(q.type, q.block) : Means(r, q.where, q.block)},
                   q.options, q.block)

\* the entities related to r
RelatedTo(t, s, r, n) ==
    LET f == s.field IN
    {c \in VersionsAt(Schema[t][f].type, n) :
        c \in RelatedRows(t, f, r, n) /\ Means(c, s.where, n)}

\* no entity of the type has been saved in two blocks
Settled(t) == \A r, s \in RowsOf(t) : r.data.id = s.data.id => r = s

\* the query patterns but group read filters off one version of many
Exact(t, n) == pattern[t] = "group" \/ Settled(t) \/ (pattern[t] = "latest" /\ n = 0)

\* the conditions of a filter of the type t and of the filters in it, with the
\* filters around each and how many of these are nested ones
RECURSIVE Conditions(_, _, _, _)
Conditions(t, w, level, nesting) ==
    UNION {LET key == w[i].key
               value == w[i].value
           IN  {[type |-> t, key |-> key, level |-> level, nesting |-> nesting]}
               \cup CASE key \in {<<"and">>, <<"or">>} ->
                          UNION {Conditions(t, value[j], level + 1, nesting) : j \in DOMAIN value}
                      [] Last(key) = "" ->
                          Conditions(Schema[t][key[1]].type, value, level + 1, nesting + 1)
                      [] OTHER -> {} : i \in DOMAIN w}

ConditionsOf(q) == Conditions(q.type, q.where, 0, 0)
IsNested(c) == Last(c.key) = ""

\* nested filters are about all versions of the related entities
ExactQuery(q) ==
    /\ Exact(q.type, q.block)
    /\ (\E c \in ConditionsOf(q) : IsNested(c)) => \A t \in Type : Settled(t)

-------------------------------------------------------------------------------
(* Properties.                                                               *)

\* The first statement of a query (getEntities, with buildFilter and
\* buildWhereClause) lists the entities whose versions at the block are as the
\* where argument says, in the order and the page asked for.
ListsAsAsked ==
    [][query = NoQuery /\ query' # NoQuery =>
        LET q == query'.asked IN
        ExactQuery(q) /\ query'.stage # "failed" => query'.entities = Asked(q)]_vars

\* The list is the same when it is looked at later, for a block that has been
\* processed: what all conditions of an and or an or together say.
ListedAtBlock ==
    query.stage = "done" /\ query.asked.block \in 1..query.since - 1
        /\ ExactQuery(query.asked)
    => query.entities = Asked(query.asked)

\* Relations loaded later (loadRelation), while handlers save more versions,
\* are those of the block of the query, for each entity the same as for a
\* query of that entity alone (loadEntityRelations), as long as all related
\* entities fit one page.
RelationsAtBlock ==
    query.stage = "done" /\ query.asked.block \in 1..query.since - 1 =>
        LET q == query.asked IN
        \A i \in DOMAIN q.select : \A k \in DOMAIN query.entities :
            LET s == q.select[i]
                r == query.entities[k]
                to == Schema[q.type][s.field].type
                wanted == RelatedTo(q.type, s, r, q.block)
            IN  /\ Exact(to, q.block)
                /\ s.onlyId => wanted # {}
                /\ Cardinality(VersionsAt(to, q.block)) <= Limit(s.options)
                => /\ query.loaded[i][k] = Ids(Listed(wanted, s.options, q.block))
                   /\ LoadEntityRelation(q.type, s, r, q.block) = query.loaded[i][k]

\* A query loads each of its relations once, and as of its block.
RelationsAsStored == TypeOK /\ RelationsAtBlock


==============================================================================
