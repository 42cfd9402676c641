---------------------------- MODULE CodegenProofs -----------------------------
(***************************************************************************)
(* Theorems about the code generator, for every config, every subgraph and *)
(* every declaration and event the contracts may have.                     *)
(***************************************************************************)
EXTENDS Codegen, FiniteSetTheorems, SequenceTheorems, TLAPS

Collecting == phase \in {"events", "declarations"}

-------------------------------------------------------------------------------
(* Lists.                                                                    *)

IsList(s) == s \in Seq(Range(s))

LEMMA EmptyList == IsList(<<>>) /\ DOMAIN <<>> = {}
BY EmptySeq DEF IsList

LEMMA SequenceList ==
    ASSUME NEW S, NEW s \in Seq(S)
    PROVE  IsList(s)
<1>1. /\ Len(s) \in Nat /\ DOMAIN s = 1..Len(s)
      /\ s = [i \in 1..Len(s) |-> s[i]]
  OBVIOUS
<1>2. \A i \in 1..Len(s) : s[i] \in Range(s)
  BY <1>1 DEF Range
<1>3. s \in [1..Len(s) -> Range(s)]
  BY <1>1, <1>2
<1> QED
  BY <1>1, <1>3, SeqDef DEF IsList

LEMMA AppendList ==
    ASSUME NEW s, IsList(s), NEW e
    PROVE  /\ IsList(Append(s, e))
           /\ DOMAIN Append(s, e) = DOMAIN s \cup {Len(s) + 1}
           /\ Len(s) + 1 \notin DOMAIN s
           /\ \A i \in DOMAIN s : Append(s, e)[i] = s[i]
           /\ Append(s, e)[Len(s) + 1] = e
<1> DEFINE S == Range(s) \cup {e}
<1>1. s \in Seq(S)
  BY DEF IsList, Range
<1>2. /\ Append(s, e) \in Seq(S)
      /\ DOMAIN Append(s, e) = 1..(Len(s) + 1)
      /\ DOMAIN s = 1..Len(s) /\ Len(s) \in Nat
      /\ \A i \in 1..Len(s) : Append(s, e)[i] = s[i]
      /\ Append(s, e)[Len(s) + 1] = e
  BY <1>1
<1>3. DOMAIN Append(s, e) = DOMAIN s \cup {Len(s) + 1} /\ Len(s) + 1 \notin DOMAIN s
  BY <1>2
<1>4. IsList(Append(s, e))
  BY <1>2, SequenceList
<1> QED
  BY <1>2, <1>3, <1>4

LEMMA ConcatList ==
    ASSUME NEW s, IsList(s), NEW t, IsList(t)
    PROVE  /\ IsList(s \o t)
           /\ DOMAIN s \subseteq DOMAIN (s \o t)
           /\ \A i \in DOMAIN s : (s \o t)[i] = s[i]
           /\ \A i \in DOMAIN (s \o t) : i \in DOMAIN s \/ (s \o t)[i] \in Range(t)
<1> DEFINE S == Range(s) \cup Range(t)
<1>1. s \in Seq(S) /\ t \in Seq(S)
  BY DEF IsList
<1>2. /\ s \o t \in Seq(S)
      /\ DOMAIN (s \o t) = 1..(Len(s) + Len(t))
      /\ DOMAIN s = 1..Len(s) /\ Len(s) \in Nat
      /\ DOMAIN t = 1..Len(t) /\ Len(t) \in Nat
      /\ \A i \in 1..Len(s) : (s \o t)[i] = s[i]
      /\ \A i \in (Len(s) + 1)..(Len(s) + Len(t)) : (s \o t)[i] = t[i - Len(s)]
  BY <1>1
<1>3. ASSUME NEW i \in DOMAIN (s \o t), i \notin DOMAIN s
      PROVE  (s \o t)[i] \in Range(t)
  <2>1. i \in (Len(s) + 1)..(Len(s) + Len(t)) /\ i - Len(s) \in 1..Len(t)
    BY <1>2, <1>3
  <2> QED
    BY <1>2, <2>1 DEF Range
<1>4. IsList(s \o t)
  BY <1>2, SequenceList
<1>5. DOMAIN s \subseteq DOMAIN (s \o t)
  BY <1>2
<1> QED
  BY <1>2, <1>3, <1>4, <1>5

LEMMA OnceAdded ==
    ASSUME NEW s, IsList(s), NEW e
    PROVE  LET t == AddOnce(s, e)
           IN  /\ IsList(t)
               /\ \A n : HasName(t, n) <=> HasName(s, n) \/ n = e.name
               /\ \A i \in DOMAIN s : i \in DOMAIN t /\ t[i] = s[i]
               /\ \A i \in DOMAIN t \ DOMAIN s : t[i] = e /\ ~HasName(s, e.name) /\ i = Len(s) + 1
<1> DEFINE t == AddOnce(s, e)
<1>1. CASE HasName(s, e.name)
  BY <1>1 DEF AddOnce
<1>2. CASE ~HasName(s, e.name)
  <2>1. t = Append(s, e)
    BY <1>2 DEF AddOnce
  <2>2. \A n : HasName(t, n) <=> HasName(s, n) \/ n = e.name
    BY <2>1, AppendList DEF HasName, Range
  <2> QED
    BY <1>2, <2>1, <2>2, AppendList
<1> QED
  BY <1>1, <1>2

-------------------------------------------------------------------------------
(* The visits.                                                               *)

\* a declaration is left out, stops the generator or reaches the generators
LEMMA Visits ==
    ASSUME Next
    PROVE  \/ \E e \in EventDecl : ParseEvent(e)
           \/ EventsParsed
           \/ Visiting /\ (Skip \/ Fail)
           \/ Visiting /\ \E q \in Query : ~Throws(q) /\ AddQuery(q)
           \/ NextContract
           \/ \E S \in SUBSET Entity : VisitSubgraph(S)
           \/ ExportWatcher
<1>1. ASSUME NEW f \in FunctionDecl, VisitFunction(f)
      PROVE  Visiting /\ (Skip \/ Fail \/ \E q \in Query : ~Throws(q) /\ AddQuery(q))
  <2>1. FunctionQuery(f) \in Query
    BY DEF Query
  <2>2. Visiting /\ (Skip \/ Fail \/ AddQuery(FunctionQuery(f)))
    BY <1>1 DEF VisitFunction
  <2> QED
    BY <2>1, <2>2 DEF AddQuery
<1>2. ASSUME NEW v \in VariableDecl, VisitStateVariable(v)
      PROVE  Visiting /\ (Skip \/ Fail \/ \E q \in Query : ~Throws(q) /\ AddQuery(q))
  <2>1. VariableQuery(v) \in Query
    BY DEF Query
  <2>2. Visiting /\ (Skip \/ Fail \/ AddQuery(VariableQuery(v)))
    BY <1>2 DEF VisitStateVariable
  <2> QED
    BY <2>1, <2>2 DEF AddQuery
<1> QED
  BY <1>1, <1>2 DEF Next

-------------------------------------------------------------------------------
(* Types.                                                                    *)

SchemaRecord ==
    schema \in [queries : {schema.queries}, types : {schema.types}, union : {schema.union}]

UniqueNames(list) == \A i, j \in DOMAIN list : list[i].name = list[j].name => i = j

QueriesTyped == \A q \in Range(schema.queries) : q.args = <<>> \/ q.type \in DOMAIN schema.types

TypeInv ==
    /\ TypeOK
    /\ SchemaRecord
    /\ IsList(resolvers) /\ IsList(indexer) /\ IsList(database) /\ IsList(client)
    /\ parsed \subseteq EventDecl
    /\ declared \subseteq Query

LEMMA UniqueOnce ==
    ASSUME NEW s, IsList(s), UniqueNames(s), NEW e
    PROVE  UniqueNames(AddOnce(s, e))
<1> DEFINE t == AddOnce(s, e)
<1>1. /\ \A i \in DOMAIN s : i \in DOMAIN t /\ t[i] = s[i]
      /\ \A i \in DOMAIN t \ DOMAIN s : t[i] = e /\ ~HasName(s, e.name) /\ i = Len(s) + 1
  BY OnceAdded
<1>2. ASSUME NEW i \in DOMAIN t, NEW j \in DOMAIN t, t[i].name = t[j].name
      PROVE  i = j
  <2>1. CASE i \in DOMAIN s /\ j \in DOMAIN s
    BY <1>1, <1>2, <2>1 DEF UniqueNames
  <2>2. CASE i \notin DOMAIN s /\ j \notin DOMAIN s
    BY <1>1, <2>2
  <2>3. CASE i \in DOMAIN s /\ j \notin DOMAIN s
    BY <1>1, <1>2, <2>3 DEF HasName, Range
  <2>4. CASE i \notin DOMAIN s /\ j \in DOMAIN s
    BY <1>1, <1>2, <2>4 DEF HasName, Range
  <2> QED
    BY <2>1, <2>2, <2>3, <2>4
<1> QED
  BY <1>2 DEF UniqueNames

\* an event adds its own type, and once the types and queries of all events
LEMMA EventSchema ==
    ASSUME SchemaRecord, NEW e, AddEventType(e)
    PROVE  LET T == EventType(e)
           IN  /\ SchemaRecord'
               /\ DOMAIN schema'.types =
                      DOMAIN schema.types
                      \cup (IF T \in DOMAIN schema.types THEN {} ELSE {T} \cup EventTypes)
               /\ \A S \in DOMAIN schema.types \ {T} : schema'.types[S] = schema.types[S]
               /\ schema'.types[T] = IF T \in DOMAIN schema.types
                                     THEN ResolveEventConflict(schema.types[T], e.inputs)
                                     ELSE NewFields(e.inputs)
               /\ schema'.union = schema.union \cup (IF T \in DOMAIN schema.types THEN {} ELSE {T})
               /\ schema'.queries =
                      IF T \notin DOMAIN schema.types /\ schema.union = {}
                      THEN Fields(EventQueries, [args |-> <<>>, type |-> Type("resultEvent")]) ++ schema.queries
                      ELSE IF T \notin DOMAIN schema.types THEN <<>> ++ schema.queries ELSE schema.queries
<1> DEFINE T == EventType(e)
<1>1. CASE T \in DOMAIN schema.types
  <2>1. schema' = [schema EXCEPT !.types[T] = ResolveEventConflict(@, e.inputs)]
    BY <1>1 DEF AddEventType
  <2> QED
    BY <1>1, <2>1 DEF SchemaRecord
<1>2. CASE T \notin DOMAIN schema.types
  <2>1. /\ schema'.types = schema.types ++ Fields({T}, NewFields(e.inputs)) ++ Fields(EventTypes, <<>>)
        /\ schema'.union = schema.union \cup {T}
        /\ schema'.queries = (IF schema.union = {}
                              THEN Fields(EventQueries, [args |-> <<>>, type |-> Type("resultEvent")])
                              ELSE <<>>) ++ schema.queries
        /\ SchemaRecord'
    BY <1>2 DEF AddEventType, SchemaRecord
  <2>2. /\ DOMAIN schema'.types = DOMAIN schema.types \cup {T} \cup EventTypes
        /\ \A S \in DOMAIN schema.types : schema'.types[S] = schema.types[S]
        /\ schema'.types[T] = NewFields(e.inputs)
    BY <1>2, <2>1 DEF ++, Fields
  <2> QED
    BY <1>2, <2>1, <2>2
<1> QED
  BY <1>1, <1>2

\* a new declaration adds its query and the types of its answer
LEMMA QuerySchema ==
    ASSUME SchemaRecord, NEW q, schema' = SchemaWith(q)
    PROVE  /\ SchemaRecord'
           /\ schema'.union = schema.union
           /\ DOMAIN schema'.types =
                  DOMAIN schema.types
                  \cup (IF q.name \in DOMAIN schema.queries THEN {} ELSE DOMAIN ResultTypes(q))
           /\ \A S \in DOMAIN schema.types : schema'.types[S] = schema.types[S]
           /\ DOMAIN schema'.queries = DOMAIN schema.queries \cup {q.name}
           /\ \A n \in DOMAIN schema.queries : schema'.queries[n] = schema.queries[n]
           /\ q.name \notin DOMAIN schema.queries =>
                  schema'.queries[q.name] = [args |-> Args(q.params), type |-> ResultName(q)]
<1>1. CASE q.name \in DOMAIN schema.queries
  BY <1>1 DEF SchemaWith, SchemaRecord
<1>2. CASE q.name \notin DOMAIN schema.queries
  <2> DEFINE new == Fields({q.name}, [args |-> Args(q.params), type |-> ResultName(q)])
  <2>1. schema' = [schema EXCEPT !.queries = new ++ @, !.types = @ ++ ResultTypes(q)]
    BY <1>2 DEF SchemaWith
  <2>2. /\ schema'.queries = new ++ schema.queries
        /\ schema'.types = schema.types ++ ResultTypes(q)
        /\ schema'.union = schema.union
        /\ SchemaRecord'
    BY <2>1 DEF SchemaRecord
  <2>3. /\ DOMAIN schema'.types = DOMAIN schema.types \cup DOMAIN ResultTypes(q)
        /\ \A S \in DOMAIN schema.types : schema'.types[S] = schema.types[S]
    BY <2>2 DEF ++
  <2>4. /\ DOMAIN schema'.queries = DOMAIN schema.queries \cup {q.name}
        /\ \A n \in DOMAIN schema.queries : schema'.queries[n] = schema.queries[n]
        /\ schema'.queries[q.name] = [args |-> Args(q.params), type |-> ResultName(q)]
    BY <1>2, <2>2 DEF ++, Fields
  <2> QED
    BY <1>2, <2>2, <2>3, <2>4
<1> QED
  BY <1>1, <1>2

LEMMA AnswerTyped == ASSUME NEW q PROVE ResultName(q) \in DOMAIN ResultTypes(q)
BY DEF ResultName, ResultTypes, Fields, ++

LEMMA TypesListed ==
    ASSUME NEW S, IsFiniteSet(S)
    PROVE  SetToSeq(S) \in Seq(S)
<1>1. Cardinality(S) \in Nat /\ ExistsBijection(1..Cardinality(S), S)
  BY FS_CardinalityType
<1>2. \E f \in [1..Cardinality(S) -> S] : IsInjective(f)
  BY <1>1 DEF ExistsBijection, Bijection, Injection, IsInjective
<1>3. SetToSeq(S) \in [1..Cardinality(S) -> S]
  BY <1>2 DEF SetToSeq
<1> QED
  BY <1>1, <1>3, SeqDef

LEMMA ResolversListed ==
    ASSUME NEW S, NEW types \in Seq(S)
    PROVE  /\ IsList(ResolversOf(types))
           /\ \A r \in Range(ResolversOf(types)) : r.name \in SubgraphNames(S)
<1> DEFINE R == ResolversOf(types)
<1>1. Len(types) \in Nat /\ 2 * Len(types) \in Nat
  OBVIOUS
<1>2. DOMAIN R = 1..(2 * Len(types))
  BY DEF ResolversOf
<1>3. ASSUME NEW k \in 1..(2 * Len(types))
      PROVE  R[k].name \in SubgraphNames(S)
  <2>1. (k + 1) \div 2 \in 1..Len(types)
    BY <1>1
  <2>2. types[(k + 1) \div 2] \in S
    BY <2>1
  <2>3. R[k].name \in {QueryName(types[(k + 1) \div 2]), PluralName(QueryName(types[(k + 1) \div 2]))}
    BY DEF ResolversOf
  <2> QED
    BY <2>2, <2>3 DEF SubgraphNames
<1>4. R \in [1..(2 * Len(types)) -> Range(R)]
  BY <1>2 DEF ResolversOf, Range
<1>5. IsList(R)
  BY <1>1, <1>4, SeqDef DEF IsList
<1> QED
  BY <1>2, <1>3, <1>5 DEF Range

LEMMA BuiltInListed ==
    LET added == [i \in DOMAIN BuiltInResolvers |-> [name |-> BuiltInResolvers[i], params |-> <<>>]]
    IN  /\ IsList(added)
        /\ \A r \in Range(added) : r.name \in BuiltIn
<1> DEFINE added == [i \in DOMAIN BuiltInResolvers |-> [name |-> BuiltInResolvers[i], params |-> <<>>]]
<1>1. BuiltInResolvers \in Seq(BuiltIn)
  <2>1. /\ Plain("events") \in BuiltIn /\ Plain("eventsInRange") \in BuiltIn
        /\ Plain("getStateByCID") \in BuiltIn /\ Plain("getState") \in BuiltIn
        /\ Plain("getSyncStatus") \in BuiltIn /\ Meta \in BuiltIn
    BY DEF BuiltIn, EventQueries, StateQueries
  <2>2. /\ <<Plain("events"), Plain("eventsInRange"), Plain("getStateByCID"), Plain("getState")>> \in Seq(BuiltIn)
        /\ <<Meta>> \in Seq(BuiltIn) /\ <<>> \in Seq(BuiltIn)
        /\ <<Plain("getSyncStatus")>> \in Seq(BuiltIn)
    BY <2>1
  <2> QED
    BY <2>2 DEF BuiltInResolvers
<1>2. \A i \in DOMAIN added : added[i].name \in BuiltIn
  BY <1>1
<1>3. Len(BuiltInResolvers) \in Nat /\ added \in [1..Len(BuiltInResolvers) -> Range(added)]
  BY <1>1 DEF Range
<1>4. IsList(added)
  BY <1>3, SeqDef DEF IsList
<1> QED
  BY <1>2, <1>4 DEF Range

-------------------------------------------------------------------------------
(* Type correctness.                                                         *)

LEMMA InitTyped == Init => TypeInv
<1> SUFFICES ASSUME Init PROVE TypeInv
  OBVIOUS
<1>1. IsList(resolvers) /\ IsList(indexer) /\ IsList(database) /\ IsList(client)
  BY EmptyList DEF Init
<1>2. TypeOK
  BY EmptyList, CodegenAssumption DEF Init, TypeOK, Range
<1> QED
  BY <1>1, <1>2 DEF Init, TypeInv, SchemaRecord

\* what the steps of the generator may do to the schema and the lists
LEMMA TypedStep ==
    ASSUME TypeInv, SchemaRecord',
           DOMAIN schema.types \subseteq DOMAIN schema'.types,
           schema'.union \subseteq schema.union \cup (DOMAIN schema'.types \ DOMAIN schema.types),
           \A q \in Range(schema'.queries) :
               q \in Range(schema.queries) \/ q.args = <<>> \/ q.type \in DOMAIN schema'.types,
           IsList(resolvers'),
           \A list \in {<<indexer, indexer'>>, <<database, database'>>, <<client, client'>>} :
               list[2] = list[1] \/ \E e : list[2] = AddOnce(list[1], e),
           phase' \in {"events", "declarations", "export", "done", "failed"},
           contract' \in Nat \ {0},
           phase' = "declarations" => contract' <= Len(Contracts)',
           visited' \in 0..(MaxEvents + MaxNodes),
           parsed' \subseteq EventDecl, declared' \subseteq Query
    PROVE  TypeInv'
<1>1. ASSUME NEW s, NEW t, IsList(s), UniqueNames(s), t = s \/ \E e : t = AddOnce(s, e)
      PROVE  IsList(t) /\ UniqueNames(t)
  BY <1>1, OnceAdded, UniqueOnce
<1>2. /\ IsList(indexer) /\ IsList(database) /\ IsList(client)
      /\ UniqueNames(indexer) /\ UniqueNames(database) /\ UniqueNames(client)
  BY DEF TypeInv, TypeOK, UniqueNames
<1>3. /\ indexer' = indexer \/ \E e : indexer' = AddOnce(indexer, e)
      /\ database' = database \/ \E e : database' = AddOnce(database, e)
      /\ client' = client \/ \E e : client' = AddOnce(client, e)
  OBVIOUS
<1>4. /\ IsList(indexer') /\ IsList(database') /\ IsList(client')
      /\ UniqueNames(indexer') /\ UniqueNames(database') /\ UniqueNames(client')
  BY <1>1, <1>2, <1>3
<1>5. \A T \in schema'.union : T \in DOMAIN schema'.types
  BY DEF TypeInv, TypeOK
<1>6. \A q \in Range(schema'.queries) : q.args = <<>> \/ q.type \in DOMAIN schema'.types
  BY DEF TypeInv, TypeOK
<1>7. TypeOK'
  BY <1>4, <1>5, <1>6 DEF TypeOK, UniqueNames
<1> QED
  BY <1>4, <1>7 DEF TypeInv

LEMMA EventTyped == ASSUME TypeInv, NEW e \in EventDecl, ParseEvent(e) PROVE TypeInv'
<1>1. phase = "events" /\ visited < MaxEvents /\ visited \in Nat /\ contract \in Nat \ {0}
  BY CodegenAssumption DEF ParseEvent, TypeInv, TypeOK
<1>2. UNCHANGED <<contract, config, resolvers, indexer, database, client, declared>>
  BY DEF ParseEvent, Fail, generated, history
<1>3. CASE EventUnhandled(e) /\ Fail
  <2>1. UNCHANGED <<visited, schema, parsed>> /\ phase' = "failed"
    BY <1>3 DEF Fail, history
  <2>2. SchemaRecord'
    BY <2>1 DEF TypeInv, SchemaRecord
  <2> QED
    BY <1>1, <1>2, <2>1, <2>2, CodegenAssumption, TypedStep DEF TypeInv, TypeOK
<1>4. CASE ~EventUnhandled(e) /\ AddEventType(e) /\ parsed' = parsed \cup {e} /\ visited' = visited + 1
           /\ UNCHANGED phase
  <2> DEFINE T == EventType(e)
  <2>1. SchemaRecord
    BY DEF TypeInv
  <2>2. /\ SchemaRecord'
        /\ DOMAIN schema.types \subseteq DOMAIN schema'.types
        /\ schema'.union \subseteq schema.union \cup (DOMAIN schema'.types \ DOMAIN schema.types)
        /\ \/ schema'.queries = Fields(EventQueries, [args |-> <<>>, type |-> Type("resultEvent")]) ++ schema.queries
           \/ schema'.queries = <<>> ++ schema.queries
           \/ schema'.queries = schema.queries
    BY <1>4, <2>1, EventSchema
  <2>3. \A q \in Range(schema'.queries) : q \in Range(schema.queries) \/ q.args = <<>>
    BY <2>2, EmptyList DEF Fields, ++, Range
  <2>4. visited' \in 0..(MaxEvents + MaxNodes) /\ phase' # "declarations"
    BY <1>1, <1>4, CodegenAssumption
  <2>5. parsed' \subseteq EventDecl /\ declared' \subseteq Query
    BY <1>2, <1>4 DEF TypeInv
  <2> QED
    BY <1>1, <1>2, <1>4, <2>2, <2>3, <2>4, <2>5, TypedStep DEF TypeInv, TypeOK
<1> QED
  BY <1>3, <1>4 DEF ParseEvent

LEMMA VisitTyped ==
    ASSUME TypeInv, Visiting, Skip \/ Fail PROVE TypeInv'
<1>1. visited \in Nat /\ visited < MaxNodes
  BY CodegenAssumption DEF Visiting, TypeInv, TypeOK
<1>2. UNCHANGED <<config, contract, schema, resolvers, indexer, database, client, parsed, declared>>
  BY DEF Skip, Fail, generated, history
<1>3. visited' \in 0..(MaxEvents + MaxNodes) /\ phase' \in {phase, "failed"}
  BY <1>1, CodegenAssumption DEF Skip, Fail
<1>4. SchemaRecord' /\ Contracts' = Contracts
  BY <1>2 DEF TypeInv, SchemaRecord, Contracts
<1> QED
  BY <1>2, <1>3, <1>4, TypedStep DEF TypeInv, TypeOK

LEMMA QueryTyped ==
    ASSUME TypeInv, Visiting, NEW q \in Query, ~Throws(q), AddQuery(q)
    PROVE  TypeInv'
<1>1. visited \in Nat /\ visited < MaxNodes
  BY CodegenAssumption DEF Visiting, TypeInv, TypeOK
<1>2. /\ schema' = SchemaWith(q)
      /\ resolvers' = AddOnce(resolvers, ResolverOf(q))
      /\ indexer' = AddOnce(indexer, IndexerQuery(q))
      /\ database' = AddOnce(database, DatabaseQuery(q))
      /\ client' = AddOnce(client, ResolverOf(q))
      /\ visited' = visited + 1
      /\ declared' = declared \cup {q}
      /\ UNCHANGED <<config, phase, contract, parsed>>
  BY DEF AddQuery
<1>3. SchemaRecord /\ IsList(resolvers)
  BY DEF TypeInv
<1>4. /\ SchemaRecord' /\ schema'.union = schema.union
      /\ DOMAIN schema.types \subseteq DOMAIN schema'.types
  BY <1>2, <1>3, QuerySchema
<1>5. \A p \in Range(schema'.queries) : p \in Range(schema.queries) \/ p.type \in DOMAIN schema'.types
  <2>1. CASE q.name \in DOMAIN schema.queries
    BY <1>2, <2>1 DEF SchemaWith
  <2>2. CASE q.name \notin DOMAIN schema.queries
    <3>1. ResultName(q) \in DOMAIN schema'.types
      BY <1>2, <1>3, <2>2, QuerySchema, AnswerTyped
    <3>2. /\ DOMAIN schema'.queries = DOMAIN schema.queries \cup {q.name}
          /\ \A n \in DOMAIN schema.queries : schema'.queries[n] = schema.queries[n]
          /\ schema'.queries[q.name] = [args |-> Args(q.params), type |-> ResultName(q)]
      BY <1>2, <1>3, <2>2, QuerySchema
    <3> QED
      BY <3>1, <3>2 DEF Range
  <2> QED
    BY <2>1, <2>2
<1>6. IsList(resolvers')
  BY <1>2, <1>3, OnceAdded
<1>7. visited' \in 0..(MaxEvents + MaxNodes) /\ Contracts' = Contracts
  BY <1>1, <1>2, CodegenAssumption DEF Contracts
<1> QED
  BY <1>2, <1>4, <1>5, <1>6, <1>7, TypedStep DEF TypeInv, TypeOK

\* the subgraph replaces queries of its names, and adds types and resolvers
LEMMA SubgraphAdded ==
    ASSUME TypeInv, NEW S \in SUBSET Entity, VisitSubgraph(S)
    PROVE  /\ SchemaRecord' /\ schema'.union = schema.union
           /\ DOMAIN schema.types \subseteq DOMAIN schema'.types
           /\ \A T \in DOMAIN schema.types : schema'.types[T] = schema.types[T]
           /\ DOMAIN schema.queries \subseteq DOMAIN schema'.queries
           /\ \A n \in DOMAIN schema'.queries :
                  \/ n \in DOMAIN schema.queries /\ schema'.queries[n] = schema.queries[n]
                  \/ n \in SubgraphNames(Entity) \cup {Meta} /\ schema'.queries[n].args = <<>>
           /\ IsList(resolvers')
           /\ \A i \in DOMAIN resolvers : i \in DOMAIN resolvers' /\ resolvers'[i] = resolvers[i]
           /\ \A i \in DOMAIN resolvers' \ DOMAIN resolvers : resolvers'[i].name \in SubgraphNames(Entity)
           /\ phase = "events" /\ phase' = "export"
           /\ UNCHANGED <<config, contract, visited, history, indexer, database, client>>
<1> DEFINE new == {n \in S : n \notin DOMAIN schema.types}
           types == SetToSeq(S)
<1>1. phase = "events" /\ phase' = "export" /\ UNCHANGED <<config, contract, visited, history>>
  BY DEF VisitSubgraph
<1>2. CASE ~config.subgraph
  <2>1. UNCHANGED <<schema, resolvers, indexer, database, client>>
    BY <1>2 DEF VisitSubgraph, generated
  <2> QED
    BY <1>1, <2>1 DEF TypeInv, SchemaRecord
<1>3. CASE config.subgraph
  <2>1. /\ schema' = [schema EXCEPT !.queries = SubgraphQueries(new) ++ @, !.types = @ ++ Fields(new, <<>>)]
        /\ resolvers' = resolvers \o ResolversOf(types)
        /\ UNCHANGED <<indexer, database, client>>
    BY <1>3 DEF VisitSubgraph
  <2>2. /\ schema'.queries = SubgraphQueries(new) ++ schema.queries
        /\ schema'.types = schema.types ++ Fields(new, <<>>)
        /\ schema'.union = schema.union
        /\ SchemaRecord'
    BY <2>1 DEF TypeInv, SchemaRecord
  <2>3. /\ DOMAIN schema.types \subseteq DOMAIN schema'.types
        /\ \A T \in DOMAIN schema.types : schema'.types[T] = schema.types[T]
    BY <2>2 DEF ++
  <2>4. /\ DOMAIN SubgraphQueries(new) \subseteq SubgraphNames(Entity) \cup {Meta}
        /\ \A n \in DOMAIN SubgraphQueries(new) : SubgraphQueries(new)[n].args = <<>>
    <3>1. SubgraphNames(new) \subseteq SubgraphNames(Entity)
      BY DEF SubgraphNames
    <3>2. DOMAIN SubgraphQueries(new) = SubgraphNames(new) \cup {Meta}
      BY DEF SubgraphQueries, ++, Fields
    <3>3. \A n \in DOMAIN SubgraphQueries(new) : SubgraphQueries(new)[n].args = <<>>
      BY <3>2 DEF SubgraphQueries, ++, Fields
    <3> QED
      BY <3>1, <3>2, <3>3
  <2>5. /\ DOMAIN schema.queries \subseteq DOMAIN schema'.queries
        /\ \A n \in DOMAIN schema'.queries :
                  \/ n \in DOMAIN schema.queries /\ schema'.queries[n] = schema.queries[n]
                  \/ n \in SubgraphNames(Entity) \cup {Meta} /\ schema'.queries[n].args = <<>>
    BY <2>2, <2>4 DEF ++
  <2>6. IsFiniteSet(S)
    BY CodegenAssumption, FS_Subset
  <2>7. types \in Seq(S)
    BY <2>6, TypesListed
  <2>8. /\ IsList(ResolversOf(types))
        /\ \A r \in Range(ResolversOf(types)) : r.name \in SubgraphNames(Entity)
    <3>1. types \in Seq(Entity)
      BY <2>7
    <3> QED
      BY <3>1, ResolversListed
  <2>9. /\ IsList(resolvers')
        /\ \A i \in DOMAIN resolvers : i \in DOMAIN resolvers' /\ resolvers'[i] = resolvers[i]
        /\ \A i \in DOMAIN resolvers' : i \in DOMAIN resolvers \/ resolvers'[i] \in Range(ResolversOf(types))
    BY <2>1, <2>8, ConcatList DEF TypeInv
  <2> QED
    BY <1>1, <2>1, <2>2, <2>3, <2>5, <2>8, <2>9
<1> QED
  BY <1>2, <1>3

\* the end adds the queries of the state, and the resolvers of all built-in ones
LEMMA BuiltInAdded ==
    ASSUME TypeInv, ExportWatcher
    PROVE  /\ SchemaRecord' /\ schema'.union = schema.union /\ schema'.types = schema.types
           /\ DOMAIN schema.queries \subseteq DOMAIN schema'.queries
           /\ \A n \in DOMAIN schema'.queries :
                  \/ n \in DOMAIN schema.queries /\ schema'.queries[n] = schema.queries[n]
                  \/ n \in BuiltIn /\ schema'.queries[n].args = <<>>
           /\ IsList(resolvers')
           /\ \A i \in DOMAIN resolvers : i \in DOMAIN resolvers' /\ resolvers'[i] = resolvers[i]
           /\ \A i \in DOMAIN resolvers' \ DOMAIN resolvers : resolvers'[i].name \in BuiltIn
           /\ phase = "export" /\ phase' = "done"
           /\ UNCHANGED <<config, contract, visited, history, indexer, database, client>>
<1> DEFINE added == [i \in DOMAIN BuiltInResolvers |-> [name |-> BuiltInResolvers[i], params |-> <<>>]]
           new == Fields(StateQueries, [args |-> <<>>, type |-> Type("state")])
<1>1. /\ schema' = [schema EXCEPT !.queries = new ++ @]
      /\ resolvers' = resolvers \o added
      /\ phase = "export" /\ phase' = "done"
      /\ UNCHANGED <<config, contract, visited, history, indexer, database, client>>
  BY DEF ExportWatcher
<1>2. /\ schema'.queries = new ++ schema.queries
      /\ SchemaRecord' /\ schema'.union = schema.union /\ schema'.types = schema.types
  BY <1>1 DEF TypeInv, SchemaRecord
<1>3. /\ DOMAIN schema.queries \subseteq DOMAIN schema'.queries
      /\ \A n \in DOMAIN schema'.queries :
             \/ n \in DOMAIN schema.queries /\ schema'.queries[n] = schema.queries[n]
             \/ n \in BuiltIn /\ schema'.queries[n].args = <<>>
  BY <1>2 DEF ++, Fields, BuiltIn
<1>4. IsList(added) /\ \A r \in Range(added) : r.name \in BuiltIn
  BY BuiltInListed
<1> HIDE DEF added
<1>5. /\ IsList(resolvers')
      /\ \A i \in DOMAIN resolvers : i \in DOMAIN resolvers' /\ resolvers'[i] = resolvers[i]
      /\ \A i \in DOMAIN resolvers' : i \in DOMAIN resolvers \/ resolvers'[i] \in Range(added)
  BY <1>1, <1>4, ConcatList DEF TypeInv
<1> QED
  BY <1>1, <1>2, <1>3, <1>4, <1>5

LEMMA FilesTyped ==
    ASSUME TypeInv, ExportWatcher \/ \E S \in SUBSET Entity : VisitSubgraph(S)
    PROVE  TypeInv'
<1>1. /\ SchemaRecord' /\ schema'.union = schema.union
      /\ DOMAIN schema.types \subseteq DOMAIN schema'.types
      /\ \A n \in DOMAIN schema'.queries :
             \/ n \in DOMAIN schema.queries /\ schema'.queries[n] = schema.queries[n]
             \/ schema'.queries[n].args = <<>>
      /\ IsList(resolvers')
      /\ phase' \in {"export", "done"}
      /\ UNCHANGED <<config, contract, visited, history, indexer, database, client>>
  BY SubgraphAdded, BuiltInAdded
<1>2. \A q \in Range(schema'.queries) : q \in Range(schema.queries) \/ q.args = <<>>
  BY <1>1 DEF Range
<1>3. /\ visited' \in 0..(MaxEvents + MaxNodes)
      /\ contract' \in Nat \ {0}
      /\ parsed' \subseteq EventDecl /\ declared' \subseteq Query
  BY <1>1 DEF TypeInv, TypeOK, history
<1> QED
  BY <1>1, <1>2, <1>3, TypedStep

LEMMA TypesStep == TypeInv /\ [Next]_vars => TypeInv'
<1> SUFFICES ASSUME TypeInv, [Next]_vars PROVE TypeInv'
  OBVIOUS
<1>1. CASE UNCHANGED vars
  <2>1. Contracts' = Contracts
    BY <1>1 DEF vars, Contracts
  <2> QED
    BY <1>1, <2>1 DEF vars, generated, history, TypeInv, TypeOK, SchemaRecord
<1>2. CASE EventsParsed \/ NextContract
  <2>1. /\ UNCHANGED <<config, schema, generated, history>>
        /\ visited' = 0
        /\ \/ contract' = contract /\ contract <= Len(Contracts)
           \/ contract' = contract + 1 /\ phase' = "events"
        /\ phase' \in {"events", "declarations"}
    BY <1>2 DEF EventsParsed, NextContract
  <2>2. Contracts' = Contracts /\ SchemaRecord'
    BY <2>1 DEF Contracts, TypeInv, SchemaRecord
  <2>3. contract' \in Nat \ {0} /\ visited' \in 0..(MaxEvents + MaxNodes)
    BY <2>1, CodegenAssumption DEF TypeInv, TypeOK
  <2>4. UNCHANGED <<schema, resolvers, indexer, database, client, parsed, declared>>
    BY <2>1 DEF generated, history
  <2> QED
    BY <2>1, <2>2, <2>3, <2>4, TypedStep DEF TypeInv, TypeOK
<1>3. CASE \E e \in EventDecl : ParseEvent(e)
  BY <1>3, EventTyped
<1>4. CASE Visiting /\ (Skip \/ Fail)
  BY <1>4, VisitTyped
<1>5. CASE Visiting /\ \E q \in Query : ~Throws(q) /\ AddQuery(q)
  BY <1>5, QueryTyped
<1>6. CASE ExportWatcher \/ \E S \in SUBSET Entity : VisitSubgraph(S)
  BY <1>6, FilesTyped
<1> QED
  BY <1>1, <1>2, <1>3, <1>4, <1>5, <1>6, Visits

-------------------------------------------------------------------------------
(* The types of events.                                                      *)

\* a field is that of an input which an event of the name declares
Declared(e, n, field) ==
    \E d \in parsed : \E o \in Range(d.inputs) :
        /\ d.name = e.name /\ o.name = n
        /\ field.gql = EventField(o).gql /\ field.list = EventField(o).list

IsField(f) == f \in [gql : {f.gql}, list : {f.list}, required : BOOLEAN]

FieldsOf(e, type) ==
    /\ \A n \in DOMAIN type : IsField(type[n])
    /\ \A n \in DOMAIN type : type[n].required => \E p \in Range(e.inputs) : p.name = n
    /\ \A p \in Range(e.inputs) : p.name \in DOMAIN type
    /\ \A n \in DOMAIN type : n = "dummy" \/ Declared(e, n, type[n])

EventInv ==
    /\ TypeInv
    /\ Collecting => \A e \in EventDecl : EventType(e) \in DOMAIN schema.types =>
                         EventType(e) \in schema.union
    /\ \A T \in schema.union : \E e \in parsed : EventType(e) = T
    /\ \A e \in parsed : /\ EventType(e) \in schema.union
                         /\ FieldsOf(e, schema.types[EventType(e)])

LEMMA InitEvents == ASSUME EventNamesApart PROVE Init => EventInv
<1> SUFFICES ASSUME Init PROVE EventInv
  OBVIOUS
<1>1. DOMAIN schema.types = BasicTypes /\ schema.union = {} /\ parsed = {}
  BY DEF Init, Fields
<1> QED
  BY <1>1, InitTyped DEF EventInv, EventNamesApart

LEMMA EventFrame ==
    ASSUME EventInv, TypeInv', UNCHANGED parsed, schema'.union = schema.union,
           \A T \in DOMAIN schema.types : schema'.types[T] = schema.types[T],
           Collecting' => \A e \in EventDecl : EventType(e) \in DOMAIN schema'.types =>
                              EventType(e) \in schema.union
    PROVE  EventInv'
<1>1. ASSUME NEW e \in parsed
      PROVE  EventType(e) \in schema'.union /\ FieldsOf(e, schema.types[EventType(e)])'
  <2>1. EventType(e) \in schema.union /\ FieldsOf(e, schema.types[EventType(e)])
    BY DEF EventInv
  <2>2. schema'.types[EventType(e)] = schema.types[EventType(e)]
    BY <2>1 DEF EventInv, TypeInv, TypeOK
  <2>3. PICK type : type = schema.types[EventType(e)]
    OBVIOUS
  <2>4. FieldsOf(e, type) /\ type = schema'.types[EventType(e)]
    BY <2>1, <2>2, <2>3
  <2>5. FieldsOf(e, type)'
    BY <2>4 DEF FieldsOf, Declared
  <2> QED
    BY <2>1, <2>4, <2>5 DEF FieldsOf, Declared
<1> QED
  BY <1>1 DEF EventInv

LEMMA StringTyped ==
    ASSUME NEW t, t.base \in {"string", "bytes"}
    PROVE  GqlForSol(t) = "String"
<1>1. t.base # "bool" /\ t.base \notin {"int", "uint"}
  OBVIOUS
<1>2. <<t.base, t.bits>> \notin IntTypes
  BY <1>1 DEF IntTypes
<1> QED
  BY <1>1, <1>2 DEF GqlForSol

\* a field that is added to a type is that of the input
LEMMA AddedField ==
    ASSUME NEW p, ParamType(p.type) # NoType
    PROVE  EventField(p).gql = ParamType(p.type) /\ EventField(p).list = FALSE
<1>1. p.type.sort = "ElementaryTypeName" /\ ParamType(p.type) = GqlForSol(p.type)
  BY DEF ParamType
<1>2. CASE p.indexed /\ p.type.base \in {"string", "bytes"}
  BY <1>1, <1>2, StringTyped DEF EventField, Field
<1>3. CASE ~(p.indexed /\ p.type.base \in {"string", "bytes"})
  <2>1. EventField(p) = ReturnField(p.type)
    BY <1>1, <1>3 DEF EventField
  <2>2. (p.type.sort = "ArrayTypeName") = FALSE
    BY <1>1
  <2>3. ReturnField(p.type) = [gql |-> GqlForSol(p.type), list |-> FALSE, required |-> TRUE]
    BY <2>2 DEF ReturnField, Field
  <2> QED
    BY <1>1, <2>1, <2>3
<1> QED
  BY <1>2, <1>3

\* the type of a new event
LEMMA NewFieldsOf ==
    ASSUME NEW e \in parsed', \A p \in Range(e.inputs) : p.name # "dummy"
    PROVE  FieldsOf(e, NewFields(e.inputs))'
<1> DEFINE type == NewFields(e.inputs)
           names == {p.name : p \in Range(e.inputs)}
           Of(n) == CHOOSE p \in Range(e.inputs) : p.name = n
<1>1. CASE e.inputs = <<>>
  <2>1. Range(e.inputs) = {}
    BY <1>1, EmptyList DEF Range
  <2>2. DOMAIN type = {"dummy"} /\ type["dummy"].required = FALSE /\ IsField(type["dummy"])
    BY <1>1 DEF NewFields, Fields, Field, IsField
  <2> QED
    BY <2>1, <2>2 DEF FieldsOf
<1>2. CASE e.inputs # <<>>
  <2>1. DOMAIN type = names
    BY <1>2 DEF NewFields
  <2>2. ASSUME NEW n \in names
        PROVE  /\ Of(n) \in Range(e.inputs) /\ Of(n).name = n
               /\ IsField(type[n])
               /\ type[n].gql = EventField(Of(n)).gql
               /\ type[n].list = EventField(Of(n)).list
    <3>1. Of(n) \in Range(e.inputs) /\ Of(n).name = n
      OBVIOUS
    <3>2. type[n] = IF EventField(Of(n)).list THEN [EventField(Of(n)) EXCEPT !.required = FALSE]
                    ELSE EventField(Of(n))
      BY <1>2 DEF NewFields
    <3>3. EventField(Of(n)) \in [gql : {EventField(Of(n)).gql}, list : {EventField(Of(n)).list},
                                 required : BOOLEAN]
      BY DEF EventField, ReturnField, Field
    <3> QED
      BY <3>1, <3>2, <3>3 DEF IsField
  <2>3. \A n \in names : Declared(e, n, type[n])'
    BY <2>2 DEF Declared
  <2> QED
    BY <2>1, <2>2, <2>3 DEF FieldsOf
<1> QED
  BY <1>1, <1>2

\* the type of an event that has one: for the events before it and for this one
LEMMA ConflictFields ==
    ASSUME NEW e \in parsed', NEW type, NEW d,
           parsed \subseteq parsed', d.name = e.name,
           FieldsOf(d, type),
           \A p \in Range(e.inputs) : p.name \notin DOMAIN type => ParamType(p.type) # NoType
    PROVE  /\ FieldsOf(d, ResolveEventConflict(type, e.inputs))'
           /\ FieldsOf(e, ResolveEventConflict(type, e.inputs))'
<1> DEFINE resolved == ResolveEventConflict(type, e.inputs)
           names == {p.name : p \in Range(e.inputs)}
           Of(n) == CHOOSE p \in Range(e.inputs) : p.name = n
           kept == [n \in DOMAIN type |-> IF n \in names THEN type[n]
                                          ELSE [type[n] EXCEPT !.required = FALSE]]
           added == [n \in names |-> Field(ParamType(Of(n).type), FALSE, FALSE)]
<1>1. resolved = kept ++ added
  BY DEF ResolveEventConflict
<1>2. DOMAIN resolved = DOMAIN type \cup names
  BY <1>1 DEF ++
<1>3. ASSUME NEW n \in DOMAIN type
      PROVE  resolved[n] = IF n \in names THEN type[n] ELSE [type[n] EXCEPT !.required = FALSE]
  BY <1>1, <1>3 DEF ++
<1>4. ASSUME NEW n \in names \ DOMAIN type
      PROVE  /\ resolved[n] = Field(ParamType(Of(n).type), FALSE, FALSE)
             /\ Of(n) \in Range(e.inputs) /\ Of(n).name = n
  BY <1>1, <1>4 DEF ++
<1>5. ASSUME NEW n \in DOMAIN resolved
      PROVE  /\ IsField(resolved[n])
             /\ resolved[n].required => n \in names /\ n \in DOMAIN type /\ type[n].required
             /\ \/ n \in DOMAIN type /\ resolved[n].gql = type[n].gql /\ resolved[n].list = type[n].list
                \/ Declared(e, n, resolved[n])'
  <2>1. CASE n \in DOMAIN type
    <3>1. IsField(type[n])
      BY <2>1 DEF FieldsOf
    <3>2. CASE n \in names
      BY <1>3, <2>1, <3>1, <3>2
    <3>3. CASE n \notin names
      <4>1. resolved[n] = [type[n] EXCEPT !.required = FALSE]
        BY <1>3, <2>1, <3>3
      <4> QED
        BY <2>1, <3>1, <4>1 DEF IsField
    <3> QED
      BY <3>2, <3>3
  <2>2. CASE n \notin DOMAIN type
    <3>1. n \in names \ DOMAIN type
      BY <1>2, <2>2
    <3>2. /\ resolved[n] = [gql |-> ParamType(Of(n).type), list |-> FALSE, required |-> FALSE]
          /\ Of(n) \in Range(e.inputs) /\ Of(n).name = n
      BY <1>4, <3>1 DEF Field
    <3>3. ParamType(Of(n).type) # NoType
      BY <2>2, <3>2
    <3>4. EventField(Of(n)).gql = resolved[n].gql /\ EventField(Of(n)).list = resolved[n].list
      <4>1. PICK p : p = Of(n)
        OBVIOUS
      <4>2. EventField(p).gql = ParamType(p.type) /\ EventField(p).list = FALSE
        BY <3>3, <4>1, AddedField
      <4>3. resolved[n].gql = ParamType(p.type) /\ resolved[n].list = FALSE
        BY <3>2, <4>1
      <4>4. EventField(p).gql = resolved[n].gql /\ EventField(p).list = resolved[n].list
        BY <4>2, <4>3
      <4> QED
        BY <4>1, <4>4
    <3>5. Declared(e, n, resolved[n])'
      BY <3>2, <3>4 DEF Declared
    <3> QED
      BY <3>2, <3>5 DEF IsField
  <2> QED
    BY <2>1, <2>2
<1>6. ASSUME NEW n \in DOMAIN resolved, n # "dummy", NEW c, c.name = e.name
      PROVE  Declared(c, n, resolved[n])'
  <2>1. CASE Declared(e, n, resolved[n])'
    BY <1>6, <2>1 DEF Declared
  <2>2. CASE n \in DOMAIN type /\ resolved[n].gql = type[n].gql /\ resolved[n].list = type[n].list
    <3>1. Declared(d, n, type[n])
      BY <1>6, <2>2 DEF FieldsOf
    <3> QED
      BY <1>6, <2>2, <3>1 DEF Declared
  <2> QED
    BY <1>5, <2>1, <2>2
<1>7. FieldsOf(d, resolved)'
  <2>1. \A n \in DOMAIN resolved : resolved[n].required => \E p \in Range(d.inputs) : p.name = n
    BY <1>5 DEF FieldsOf
  <2>2. \A p \in Range(d.inputs) : p.name \in DOMAIN resolved
    BY <1>2 DEF FieldsOf
  <2> QED
    BY <1>5, <1>6, <2>1, <2>2 DEF FieldsOf
<1>8. FieldsOf(e, resolved)'
  BY <1>2, <1>5, <1>6 DEF FieldsOf
<1> QED
  BY <1>7, <1>8

\* what the parsed declarations say of a type goes on when a declaration is added
LEMMA FieldsKept ==
    ASSUME NEW d, NEW type, FieldsOf(d, type), parsed \subseteq parsed'
    PROVE  FieldsOf(d, type)'
<1>1. \A n \in DOMAIN type : n = "dummy" \/ Declared(d, n, type[n])'
  BY DEF FieldsOf, Declared
<1> QED
  BY <1>1 DEF FieldsOf

LEMMA EventAdded ==
    ASSUME EventNamesApart, EventInv, NEW e \in EventDecl, ParseEvent(e), AddEventType(e),
           ~EventUnhandled(e), parsed' = parsed \cup {e}
    PROVE  EventInv'
<1> DEFINE T == EventType(e)
<1>1. TypeInv /\ SchemaRecord /\ phase = "events" /\ TypeInv'
  BY EventTyped DEF EventInv, TypeInv, ParseEvent
<1>2. /\ DOMAIN schema'.types = DOMAIN schema.types
                                \cup (IF T \in DOMAIN schema.types THEN {} ELSE {T} \cup EventTypes)
      /\ \A S \in DOMAIN schema.types \ {T} : schema'.types[S] = schema.types[S]
      /\ schema'.types[T] = IF T \in DOMAIN schema.types
                            THEN ResolveEventConflict(schema.types[T], e.inputs)
                            ELSE NewFields(e.inputs)
      /\ schema'.union = schema.union \cup (IF T \in DOMAIN schema.types THEN {} ELSE {T})
  BY <1>1, EventSchema
<1>3. \A d \in EventDecl : EventType(d) \in DOMAIN schema.types => EventType(d) \in schema.union
  BY <1>1 DEF EventInv, Collecting
<1>4. T \in schema'.union
  BY <1>2, <1>3
<1>5. \A d \in EventDecl : EventType(d) \in DOMAIN schema'.types => EventType(d) \in schema'.union
  BY <1>2, <1>3 DEF EventNamesApart
<1>6. \A S \in schema'.union : \E d \in parsed' : EventType(d) = S
  BY <1>2 DEF EventInv
<1>7. ASSUME NEW d \in parsed'
      PROVE  EventType(d) \in schema'.union /\ FieldsOf(d, schema.types[EventType(d)])'
  <2>1. CASE d \in parsed /\ EventType(d) # T
    <3>1. EventType(d) \in schema.union /\ FieldsOf(d, schema.types[EventType(d)])
      BY <2>1 DEF EventInv
    <3>2. schema'.types[EventType(d)] = schema.types[EventType(d)]
      BY <1>1, <1>2, <2>1, <3>1 DEF TypeInv, TypeOK
    <3>3. PICK type : type = schema.types[EventType(d)]
      OBVIOUS
    <3>4. FieldsOf(d, type)'
      BY <3>1, <3>3, FieldsKept
    <3>5. FieldsOf(d, schema.types[EventType(d)])'
      BY <3>2, <3>3, <3>4
    <3> QED
      BY <1>2, <3>1, <3>5
  <2>2. CASE d \in parsed /\ EventType(d) = T
    <3>1. T \in schema.union /\ FieldsOf(d, schema.types[T])
      BY <2>2 DEF EventInv
    <3>2. T \in DOMAIN schema.types
      BY <1>1, <3>1 DEF TypeInv, TypeOK
    <3>3. d.name = e.name
      BY <1>1, <2>2 DEF EventNamesApart, TypeInv
    <3>4. PICK type : type = schema.types[T]
      OBVIOUS
    <3>5. \A p \in Range(e.inputs) : p.name \notin DOMAIN type => ParamType(p.type) # NoType
      BY <3>2, <3>4 DEF EventUnhandled
    <3>6. FieldsOf(d, ResolveEventConflict(type, e.inputs))'
      BY <3>1, <3>3, <3>4, <3>5, ConflictFields
    <3>7. schema'.types[EventType(d)] = ResolveEventConflict(type, e.inputs)
      BY <1>2, <2>2, <3>2, <3>4
    <3>8. FieldsOf(d, schema.types[EventType(d)])'
      BY <3>6, <3>7
    <3> QED
      BY <1>4, <2>2, <3>8
  <2>3. CASE d = e /\ T \in DOMAIN schema.types
    <3>1. PICK c \in parsed : EventType(c) = T
      BY <1>3, <2>3 DEF EventInv
    <3>2. FieldsOf(c, schema.types[T])
      BY <3>1 DEF EventInv
    <3>3. c.name = e.name
      BY <1>1, <3>1 DEF EventNamesApart, TypeInv
    <3>4. PICK type : type = schema.types[T]
      OBVIOUS
    <3>5. \A p \in Range(e.inputs) : p.name \notin DOMAIN type => ParamType(p.type) # NoType
      BY <2>3, <3>4 DEF EventUnhandled
    <3>6. FieldsOf(e, ResolveEventConflict(type, e.inputs))'
      BY <3>2, <3>3, <3>4, <3>5, ConflictFields
    <3>7. schema'.types[T] = ResolveEventConflict(type, e.inputs)
      BY <1>2, <2>3, <3>4
    <3>8. FieldsOf(d, schema.types[EventType(d)])'
      BY <2>3, <3>6, <3>7
    <3> QED
      BY <1>4, <2>3, <3>8
  <2>4. CASE d = e /\ T \notin DOMAIN schema.types
    <3>1. FieldsOf(e, NewFields(e.inputs))'
      BY NewFieldsOf DEF EventNamesApart
    <3>2. schema'.types[T] = NewFields(e.inputs)
      BY <1>2, <2>4
    <3>3. FieldsOf(d, schema.types[EventType(d)])'
      BY <2>4, <3>1, <3>2
    <3> QED
      BY <1>4, <2>4, <3>3
  <2> QED
    BY <2>1, <2>2, <2>3, <2>4
<1> QED
  BY <1>1, <1>5, <1>6, <1>7 DEF EventInv

LEMMA EventStep == ASSUME EventNamesApart PROVE EventInv /\ [Next]_vars => EventInv'
<1> SUFFICES ASSUME EventInv, [Next]_vars PROVE EventInv'
  OBVIOUS
<1>1. TypeInv /\ TypeInv'
  BY TypesStep DEF EventInv
<1>2. ASSUME UNCHANGED <<schema, parsed>>, Collecting' => Collecting
      PROVE  EventInv'
  BY <1>1, <1>2, EventFrame DEF EventInv
<1>3. CASE UNCHANGED vars
  BY <1>2, <1>3 DEF vars, history, Collecting
<1>4. CASE EventsParsed \/ NextContract \/ (Visiting /\ (Skip \/ Fail))
  BY <1>2, <1>4 DEF EventsParsed, NextContract, Visiting, Skip, Fail, history, Collecting
<1>5. ASSUME NEW e \in EventDecl, ParseEvent(e)
      PROVE  EventInv'
  <2>1. CASE EventUnhandled(e) /\ Fail
    BY <1>2, <2>1 DEF Fail, history, Collecting
  <2>2. CASE ~EventUnhandled(e) /\ AddEventType(e) /\ parsed' = parsed \cup {e}
    BY <1>5, <2>2, EventAdded
  <2> QED
    BY <1>5, <2>1, <2>2 DEF ParseEvent
<1>6. ASSUME Visiting, NEW q \in Query, ~Throws(q), AddQuery(q)
      PROVE  EventInv'
  <2>1. schema' = SchemaWith(q) /\ UNCHANGED <<phase, parsed>>
    BY <1>6 DEF AddQuery
  <2>2. /\ schema'.union = schema.union
        /\ DOMAIN schema'.types \subseteq DOMAIN schema.types \cup DOMAIN ResultTypes(q)
        /\ \A T \in DOMAIN schema.types : schema'.types[T] = schema.types[T]
    BY <1>1, <2>1, QuerySchema DEF TypeInv
  <2>3. Collecting' => \A e \in EventDecl : EventType(e) \in DOMAIN schema'.types =>
                           EventType(e) \in schema.union
    BY <2>1, <2>2 DEF EventInv, EventNamesApart, Collecting
  <2> QED
    BY <1>1, <2>1, <2>2, <2>3, EventFrame
<1>7. CASE ExportWatcher \/ \E S \in SUBSET Entity : VisitSubgraph(S)
  <2>1. /\ schema'.union = schema.union /\ UNCHANGED parsed
        /\ \A T \in DOMAIN schema.types : schema'.types[T] = schema.types[T]
        /\ phase' \in {"export", "done"}
    BY <1>1, <1>7, SubgraphAdded, BuiltInAdded DEF history
  <2> QED
    BY <1>1, <2>1, EventFrame DEF Collecting
<1> QED
  BY <1>3, <1>4, <1>5, <1>6, <1>7, Visits

LEMMA FieldsFit == ASSUME EventNamesApart, EventInv PROVE EventsFit
<1> SUFFICES ASSUME NEW e \in parsed
             PROVE  LET type == schema.types[EventType(e)]
                    IN /\ EventType(e) \in schema.union
                       /\ \A n \in DOMAIN type : type[n].required => \E p \in Range(e.inputs) : p.name = n
                       /\ \A p \in Range(e.inputs) : p.name \in DOMAIN type
                             /\ Alike(e, p) => /\ type[p.name].gql = EventField(p).gql
                                               /\ type[p.name].list = EventField(p).list
  BY DEF EventsFit
<1> DEFINE type == schema.types[EventType(e)]
<1>1. EventType(e) \in schema.union /\ FieldsOf(e, type) /\ e \in EventDecl
  BY DEF EventInv, TypeInv
<1>2. ASSUME NEW p \in Range(e.inputs), Alike(e, p)
      PROVE  type[p.name].gql = EventField(p).gql /\ type[p.name].list = EventField(p).list
  <2>1. p.name \in DOMAIN type /\ p.name # "dummy"
    BY <1>1 DEF FieldsOf, EventNamesApart
  <2>2. Declared(e, p.name, type[p.name])
    BY <1>1, <2>1 DEF FieldsOf
  <2>3. PICK d \in parsed : \E o \in Range(d.inputs) :
            /\ d.name = e.name /\ o.name = p.name
            /\ type[p.name].gql = EventField(o).gql /\ type[p.name].list = EventField(o).list
    BY <2>2 DEF Declared
  <2>4. PICK o \in Range(d.inputs) :
            /\ d.name = e.name /\ o.name = p.name
            /\ type[p.name].gql = EventField(o).gql /\ type[p.name].list = EventField(o).list
    BY <2>3
  <2>5. EventField(o) = EventField(p)
    BY <1>2, <2>4 DEF Alike
  <2> QED
    BY <2>4, <2>5
<1> QED
  BY <1>1, <1>2 DEF FieldsOf

-------------------------------------------------------------------------------
(* The generated parts.                                                      *)

IsDeclared(n) == \E q \in declared : q.name = n

\* names that only declarations bring to the schema and the resolvers
Free(n) == n \notin BuiltIn \cup SubgraphNames(Entity)

ListServes(list, n, params) ==
    /\ HasName(list, n)
    /\ \A i \in DOMAIN list : list[i].name = n => list[i].params = params

Serves(n, params) ==
    /\ n \in DOMAIN schema.queries /\ schema.queries[n].args = Args(params)
    /\ ListServes(resolvers, n, Typed(params)) /\ ListServes(indexer, n, Typed(params))
    /\ ListServes(database, n, Typed(params)) /\ ListServes(client, n, Typed(params))

\* while contracts are visited, the parts have the same names, but for the queries
\* of events in the schema
SameNames ==
    /\ \A n \in DOMAIN schema.queries : n \in EventQueries \/ IsDeclared(n)
    /\ \A q \in declared : q.name \in DOMAIN schema.queries
    /\ \A n : HasName(resolvers, n) <=> IsDeclared(n)
    /\ \A n : HasName(indexer, n) <=> IsDeclared(n)
    /\ \A n : HasName(database, n) <=> IsDeclared(n)
    /\ \A n : HasName(client, n) <=> IsDeclared(n)

ServedInv ==
    /\ TypeInv
    /\ Collecting => SameNames
    /\ \A q \in declared : Free(q.name) => \E r \in declared : r.name = q.name /\ Serves(q.name, r.params)

LEMMA ListKeeps ==
    ASSUME NEW s, IsList(s), NEW n, NEW params, ListServes(s, n, params), NEW e
    PROVE  ListServes(AddOnce(s, e), n, params)
<1> DEFINE t == AddOnce(s, e)
<1>1. /\ \A m : HasName(t, m) <=> HasName(s, m) \/ m = e.name
      /\ \A i \in DOMAIN s : i \in DOMAIN t /\ t[i] = s[i]
      /\ \A i \in DOMAIN t \ DOMAIN s : t[i] = e /\ ~HasName(s, e.name)
  BY OnceAdded
<1> QED
  BY <1>1 DEF ListServes

LEMMA ListGains ==
    ASSUME NEW s, IsList(s), NEW e, ~HasName(s, e.name)
    PROVE  ListServes(AddOnce(s, e), e.name, e.params)
<1> DEFINE t == AddOnce(s, e)
<1>1. /\ \A m : HasName(t, m) <=> HasName(s, m) \/ m = e.name
      /\ \A i \in DOMAIN s : i \in DOMAIN t /\ t[i] = s[i]
      /\ \A i \in DOMAIN t \ DOMAIN s : t[i] = e
  BY OnceAdded
<1>2. \A i \in DOMAIN s : s[i].name # e.name
  BY DEF HasName, Range
<1> QED
  BY <1>1, <1>2 DEF ListServes

LEMMA ListExtended ==
    ASSUME NEW s, NEW t, NEW n, NEW params, ListServes(s, n, params),
           \A i \in DOMAIN s : i \in DOMAIN t /\ t[i] = s[i],
           \A i \in DOMAIN t \ DOMAIN s : t[i].name # n
    PROVE  ListServes(t, n, params)
<1>1. HasName(t, n)
  BY DEF ListServes, HasName, Range
<1> QED
  BY <1>1 DEF ListServes

LEMMA InitServed == Init => ServedInv
<1> SUFFICES ASSUME Init PROVE ServedInv
  OBVIOUS
<1>1. declared = {} /\ schema.queries = <<>> /\ resolvers = <<>> /\ indexer = <<>>
      /\ database = <<>> /\ client = <<>>
  BY DEF Init
<1>2. \A n : ~HasName(<<>>, n)
  BY EmptyList DEF HasName, Range
<1>3. SameNames
  BY <1>1, <1>2, EmptyList DEF SameNames, IsDeclared
<1> QED
  BY <1>1, <1>3, InitTyped DEF ServedInv

\* steps that add neither declarations nor, to the parts, names of declarations
LEMMA ServedFrame ==
    ASSUME ServedInv, TypeInv', Collecting' => SameNames', UNCHANGED declared,
           UNCHANGED <<indexer, database, client>>,
           DOMAIN schema.queries \subseteq DOMAIN schema'.queries,
           \A n \in DOMAIN schema.queries : Free(n) => schema'.queries[n] = schema.queries[n],
           \A i \in DOMAIN resolvers : i \in DOMAIN resolvers' /\ resolvers'[i] = resolvers[i],
           \A i \in DOMAIN resolvers' \ DOMAIN resolvers : ~Free(resolvers'[i].name)
    PROVE  ServedInv'
<1>1. ASSUME NEW q \in declared, Free(q.name)
      PROVE  \E r \in declared : r.name = q.name /\ Serves(q.name, r.params)'
  <2>1. PICK r \in declared : r.name = q.name /\ Serves(q.name, r.params)
    BY <1>1 DEF ServedInv
  <2>2. ListServes(resolvers', q.name, Typed(r.params))
    BY <1>1, <2>1, ListExtended DEF Serves
  <2>3. q.name \in DOMAIN schema'.queries /\ schema'.queries[q.name].args = Args(r.params)
    BY <1>1, <2>1 DEF Serves
  <2>4. Serves(q.name, r.params)'
    BY <2>1, <2>2, <2>3 DEF Serves, ListServes, HasName
  <2> QED
    BY <2>1, <2>4
<1>2. \A n : Free(n)' <=> Free(n)
  BY DEF Free
<1> QED
  BY <1>1, <1>2 DEF ServedInv

LEMMA QueryServed ==
    ASSUME ServedInv, Visiting, NEW q \in Query, ~Throws(q), AddQuery(q)
    PROVE  ServedInv'
<1>1. TypeInv /\ TypeInv' /\ SameNames /\ SchemaRecord
  BY QueryTyped DEF ServedInv, Visiting, Collecting, TypeInv
<1>2. /\ schema' = SchemaWith(q)
      /\ resolvers' = AddOnce(resolvers, ResolverOf(q))
      /\ indexer' = AddOnce(indexer, IndexerQuery(q))
      /\ database' = AddOnce(database, DatabaseQuery(q))
      /\ client' = AddOnce(client, ResolverOf(q))
      /\ declared' = declared \cup {q}
  BY DEF AddQuery
<1>3. IsList(resolvers) /\ IsList(indexer) /\ IsList(database) /\ IsList(client)
  BY <1>1 DEF TypeInv
<1>4. /\ ResolverOf(q).name = q.name /\ ResolverOf(q).params = Typed(q.params)
      /\ IndexerQuery(q).name = q.name /\ IndexerQuery(q).params = Typed(q.params)
      /\ DatabaseQuery(q).name = q.name /\ DatabaseQuery(q).params = Typed(q.params)
  BY DEF ResolverOf, IndexerQuery, DatabaseQuery
<1>5. /\ DOMAIN schema'.queries = DOMAIN schema.queries \cup {q.name}
      /\ \A n \in DOMAIN schema.queries : schema'.queries[n] = schema.queries[n]
      /\ q.name \notin DOMAIN schema.queries => schema'.queries[q.name].args = Args(q.params)
  <2>1. /\ DOMAIN schema'.queries = DOMAIN schema.queries \cup {q.name}
        /\ \A n \in DOMAIN schema.queries : schema'.queries[n] = schema.queries[n]
        /\ q.name \notin DOMAIN schema.queries =>
               schema'.queries[q.name] = [args |-> Args(q.params), type |-> ResultName(q)]
    BY <1>1, <1>2, QuerySchema
  <2> QED
    BY <2>1
<1>6. \A n : IsDeclared(n)' <=> IsDeclared(n) \/ n = q.name
  BY <1>2 DEF IsDeclared
<1>7. /\ \A n : HasName(resolvers', n) <=> HasName(resolvers, n) \/ n = q.name
      /\ \A n : HasName(indexer', n) <=> HasName(indexer, n) \/ n = q.name
      /\ \A n : HasName(database', n) <=> HasName(database, n) \/ n = q.name
      /\ \A n : HasName(client', n) <=> HasName(client, n) \/ n = q.name
  BY <1>2, <1>3, <1>4, OnceAdded
<1>8. SameNames'
  <2>1. \A n \in DOMAIN schema'.queries : n \in EventQueries \/ IsDeclared(n)'
    BY <1>1, <1>5, <1>6 DEF SameNames
  <2>2. \A p \in declared' : p.name \in DOMAIN schema'.queries
    BY <1>1, <1>2, <1>5 DEF SameNames
  <2>3. /\ \A n : HasName(resolvers', n) <=> IsDeclared(n)'
        /\ \A n : HasName(indexer', n) <=> IsDeclared(n)'
        /\ \A n : HasName(database', n) <=> IsDeclared(n)'
        /\ \A n : HasName(client', n) <=> IsDeclared(n)'
    BY <1>1, <1>6, <1>7 DEF SameNames
  <2> QED
    BY <2>1, <2>2, <2>3 DEF SameNames, EventQueries, HasName
<1>9. ASSUME NEW p \in declared, Free(p.name)
      PROVE  \E r \in declared : r.name = p.name /\ Serves(p.name, r.params)'
  <2>1. PICK r \in declared : r.name = p.name /\ Serves(p.name, r.params)
    BY <1>9 DEF ServedInv
  <2>2. /\ ListServes(resolvers', p.name, Typed(r.params))
        /\ ListServes(indexer', p.name, Typed(r.params))
        /\ ListServes(database', p.name, Typed(r.params))
        /\ ListServes(client', p.name, Typed(r.params))
    BY <1>2, <1>3, <2>1, ListKeeps DEF Serves
  <2>3. p.name \in DOMAIN schema'.queries /\ schema'.queries[p.name].args = Args(r.params)
    BY <1>5, <2>1 DEF Serves
  <2>4. Serves(p.name, r.params)'
    BY <2>2, <2>3 DEF Serves, ListServes, HasName
  <2> QED
    BY <2>1, <2>4
<1>10. ASSUME Free(q.name)
       PROVE  \E r \in declared' : r.name = q.name /\ Serves(q.name, r.params)'
  <2>1. CASE IsDeclared(q.name)
    <3>1. PICK p \in declared : p.name = q.name
      BY <2>1 DEF IsDeclared
    <3>2. PICK r \in declared : r.name = p.name /\ Serves(p.name, r.params)'
      BY <1>9, <1>10, <3>1
    <3> QED
      BY <1>2, <3>1, <3>2
  <2>2. CASE ~IsDeclared(q.name)
    <3>1. q.name \notin DOMAIN schema.queries
      BY <1>1, <1>10, <2>2 DEF SameNames, Free, BuiltIn
    <3>2. /\ ~HasName(resolvers, q.name) /\ ~HasName(indexer, q.name)
          /\ ~HasName(database, q.name) /\ ~HasName(client, q.name)
      BY <1>1, <2>2 DEF SameNames
    <3>3. /\ ListServes(resolvers', q.name, Typed(q.params))
          /\ ListServes(client', q.name, Typed(q.params))
      BY <1>2, <1>3, <1>4, <3>2, ListGains
    <3>4. /\ ListServes(indexer', q.name, Typed(q.params))
          /\ ListServes(database', q.name, Typed(q.params))
      BY <1>2, <1>3, <1>4, <3>2, ListGains
    <3>5. q.name \in DOMAIN schema'.queries /\ schema'.queries[q.name].args = Args(q.params)
      BY <1>5, <3>1
    <3>6. Serves(q.name, q.params)'
      BY <3>3, <3>4, <3>5 DEF Serves, ListServes, HasName
    <3> QED
      BY <1>2, <3>6
  <2> QED
    BY <2>1, <2>2
<1>11. \A n : Free(n)' <=> Free(n)
  BY DEF Free
<1> QED
  BY <1>1, <1>2, <1>8, <1>9, <1>10, <1>11 DEF ServedInv

LEMMA ServedStep == ServedInv /\ [Next]_vars => ServedInv'
<1> SUFFICES ASSUME ServedInv, [Next]_vars PROVE ServedInv'
  OBVIOUS
<1>1. TypeInv /\ TypeInv'
  BY TypesStep DEF ServedInv
<1>2. ASSUME UNCHANGED <<schema, resolvers, indexer, database, client, declared>>, Collecting' => Collecting
      PROVE  ServedInv'
  <2>1. Collecting' => SameNames'
    BY <1>2 DEF ServedInv, SameNames, IsDeclared, HasName
  <2> QED
    BY <1>1, <1>2, <2>1, ServedFrame
<1>3. CASE UNCHANGED vars
  BY <1>2, <1>3 DEF vars, generated, history, Collecting
<1>4. CASE EventsParsed \/ NextContract \/ (Visiting /\ (Skip \/ Fail))
  BY <1>2, <1>4 DEF EventsParsed, NextContract, Visiting, Skip, Fail, generated, history, Collecting
<1>5. ASSUME NEW e \in EventDecl, ParseEvent(e)
      PROVE  ServedInv'
  <2>1. CASE EventUnhandled(e) /\ Fail
    BY <1>2, <2>1 DEF Fail, generated, history, Collecting
  <2>2. CASE ~EventUnhandled(e) /\ AddEventType(e)
             /\ UNCHANGED <<phase, resolvers, indexer, database, client, declared>>
    <3>1. \/ schema'.queries = Fields(EventQueries, [args |-> <<>>, type |-> Type("resultEvent")]) ++ schema.queries
          \/ schema'.queries = <<>> ++ schema.queries
          \/ schema'.queries = schema.queries
      BY <1>1, <2>2, EventSchema DEF TypeInv
    <3>2. /\ DOMAIN schema.queries \subseteq DOMAIN schema'.queries
          /\ DOMAIN schema'.queries \subseteq DOMAIN schema.queries \cup EventQueries
          /\ \A n \in DOMAIN schema.queries : n \in EventQueries \/ schema'.queries[n] = schema.queries[n]
      BY <3>1, EmptyList DEF ++, Fields
    <3>3. \A n \in DOMAIN schema.queries : Free(n) => schema'.queries[n] = schema.queries[n]
      BY <3>2 DEF Free, BuiltIn
    <3>4. Collecting' => SameNames'
      BY <2>2, <3>2 DEF ServedInv, SameNames, Collecting, IsDeclared, HasName
    <3> QED
      BY <1>1, <2>2, <3>2, <3>3, <3>4, ServedFrame
  <2> QED
    BY <1>5, <2>1, <2>2 DEF ParseEvent, generated
<1>6. ASSUME Visiting, NEW q \in Query, ~Throws(q), AddQuery(q)
      PROVE  ServedInv'
  BY <1>6, QueryServed
<1>7. CASE ExportWatcher \/ \E S \in SUBSET Entity : VisitSubgraph(S)
  <2>1. /\ DOMAIN schema.queries \subseteq DOMAIN schema'.queries
        /\ \A n \in DOMAIN schema'.queries :
               \/ n \in DOMAIN schema.queries /\ schema'.queries[n] = schema.queries[n]
               \/ n \in SubgraphNames(Entity) \cup {Meta} \cup BuiltIn
        /\ \A i \in DOMAIN resolvers : i \in DOMAIN resolvers' /\ resolvers'[i] = resolvers[i]
        /\ \A i \in DOMAIN resolvers' \ DOMAIN resolvers :
               resolvers'[i].name \in SubgraphNames(Entity) \cup BuiltIn
        /\ phase' \in {"export", "done"}
        /\ UNCHANGED <<declared, indexer, database, client>>
    BY <1>1, <1>7, SubgraphAdded, BuiltInAdded DEF history
  <2>2. \A n \in DOMAIN schema.queries : Free(n) => schema'.queries[n] = schema.queries[n]
    BY <2>1 DEF Free, BuiltIn
  <2>3. \A i \in DOMAIN resolvers' \ DOMAIN resolvers : ~Free(resolvers'[i].name)
    BY <2>1 DEF Free
  <2>4. ~Collecting'
    BY <2>1 DEF Collecting
  <2> QED
    BY <1>1, <2>1, <2>2, <2>3, <2>4, ServedFrame
<1> QED
  BY <1>3, <1>4, <1>5, <1>6, <1>7, Visits

\* the arguments of a query are the parameters of its resolver
LEMMA ArgsGiven ==
    ASSUME NEW params,
           \A i \in DOMAIN params : i \in Nat,
           \A i, j \in DOMAIN params : params[i].name = params[j].name => i = j
    PROVE  Args(params) =
               [n \in {p.name : p \in Range(Typed(params))} |->
                   (CHOOSE p \in Range(Typed(params)) : p.name = n).type] ++ OwnArgs
<1> DEFINE last(n) == CHOOSE i \in DOMAIN params :
                          params[i].name = n /\ \A j \in DOMAIN params : params[j].name = n => j <= i
           A == [n \in {p.name : p \in Range(params)} |-> ParamType(params[last(n)].type)]
           G == [n \in {p.name : p \in Range(Typed(params))} |->
                    (CHOOSE p \in Range(Typed(params)) : p.name = n).type]
<1>1. Args(params) = A ++ OwnArgs
  BY DEF Args
<1>2. /\ DOMAIN Typed(params) = DOMAIN params
      /\ \A i \in DOMAIN params : /\ Typed(params)[i].name = params[i].name
                                  /\ Typed(params)[i].type = ParamType(params[i].type)
  BY DEF Typed
<1>3. {p.name : p \in Range(Typed(params))} = {p.name : p \in Range(params)}
  BY <1>2 DEF Range
<1>4. ASSUME NEW n \in {p.name : p \in Range(params)}
      PROVE  A[n] = G[n]
  <2>1. PICK i \in DOMAIN params : params[i].name = n
    BY <1>4 DEF Range
  <2>2. last(n) = i
    <3>1. /\ i \in DOMAIN params /\ params[i].name = n
          /\ \A j \in DOMAIN params : params[j].name = n => j <= i
      <4>1. \A j \in DOMAIN params : params[j].name = n => j = i
        BY <2>1
      <4>2. i \in Nat
        OBVIOUS
      <4> QED
        BY <2>1, <4>1, <4>2
    <3>2. \A k \in DOMAIN params : params[k].name = n => k = i
      BY <2>1
    <3>3. /\ last(n) \in DOMAIN params
          /\ params[last(n)].name = n
      BY <3>1
    <3> QED
      BY <3>2, <3>3
  <2>3. (CHOOSE p \in Range(Typed(params)) : p.name = n) = Typed(params)[i]
    BY <1>2, <2>1 DEF Range
  <2> QED
    BY <1>2, <1>3, <2>1, <2>2, <2>3
<1>5. A = G
  BY <1>3, <1>4
<1> QED
  BY <1>1, <1>5

LEMMA Resolved == ASSUME ParamsNamedApart, ServedInv PROVE SchemaResolved
<1> SUFFICES ASSUME NEW q \in declared, Own(q.name)
             PROVE  /\ HasName(resolvers, q.name) /\ HasName(indexer, q.name)
                    /\ q.name \in DOMAIN schema.queries
                    /\ LET params == Named(q.name, indexer).params
                           Given1 == [n \in {p.name : p \in Range(params)} |->
                                         (CHOOSE p \in Range(params) : p.name = n).type]
                       IN /\ schema.queries[q.name].args = Given1 ++ OwnArgs
                          /\ \A list \in Lists : Named(q.name, list).params = params
  BY DEF SchemaResolved
<1>1. PICK r \in declared : r.name = q.name /\ Serves(q.name, r.params)
  BY DEF ServedInv, Own, Free
<1>2. ASSUME NEW list, ListServes(list, q.name, Typed(r.params))
      PROVE  Named(q.name, list).params = Typed(r.params)
  <2>1. \E i \in DOMAIN list : list[i].name = q.name
    BY <1>2 DEF ListServes, HasName, Range
  <2> QED
    BY <1>2, <2>1 DEF ListServes, Named
<1>3. \A list \in Lists : Named(q.name, list).params = Typed(r.params)
  BY <1>1, <1>2 DEF Serves, Lists
<1>4. Named(q.name, indexer).params = Typed(r.params)
  BY <1>3 DEF Lists
<1>5. r \in Query
  BY DEF ServedInv, TypeInv
<1>6. schema.queries[q.name].args =
          [n \in {p.name : p \in Range(Typed(r.params))} |->
              (CHOOSE p \in Range(Typed(r.params)) : p.name = n).type] ++ OwnArgs
  <2>1. /\ r.params \in Seq(Range(r.params))
        /\ \A i, j \in DOMAIN r.params : r.params[i].name = r.params[j].name => i = j
    BY <1>5 DEF ParamsNamedApart
  <2>2. DOMAIN r.params = 1..Len(r.params) /\ Len(r.params) \in Nat
    BY <2>1
  <2>3. \A i \in DOMAIN r.params : i \in Nat
    BY <2>2
  <2> QED
    BY <1>1, <2>1, <2>3, ArgsGiven DEF Serves
<1> QED
  BY <1>1, <1>3, <1>4, <1>6 DEF Serves, ListServes

-------------------------------------------------------------------------------
(* The theorems.                                                             *)

\* No generator but that of the resolvers holds two queries of one name, every query
\* of the schema answers with a type of the schema, and every event of its union is
\* one of its types (addQuery of Indexer, Database and Client; Schema).
THEOREM GeneratedTyped == Spec => []TypeOK
<1>1. TypeInv => TypeOK
  BY DEF TypeInv
<1> QED
  BY <1>1, InitTyped, TypesStep, PTL DEF Spec

\* However contracts declare a name, several times, with other parameters or case, its
\* query in the schema, its resolver, the methods of the indexer and of the database and
\* that of the client take the parameters of the same declaration, although each of
\* Schema.addQuery, Resolvers.addQuery, Indexer.addQuery, Database.addQuery and
\* Client.addQuery decides for itself whether it has the query already.
THEOREM PartsAgree == ASSUME ParamsNamedApart PROVE Spec => []DeclarationsServed
<1>1. ServedInv => DeclarationsServed
  BY Resolved DEF ServedInv, TypeInv, DeclarationsServed
<1> QED
  BY <1>1, InitServed, ServedStep, PTL DEF Spec

\* Whatever events of one name the contracts emit, and in whatever order they are
\* parsed, the one type of the name answers each of them: it requires no field the
\* event lacks, has a field for each of its inputs, and of the type of the input when
\* the events agree on it (Schema.addEventType and _resolveEventConflict).
THEOREM EventsAnswered == ASSUME EventNamesApart PROVE Spec => []EventsFit
<1>1. EventInv => EventsFit
  BY FieldsFit
<1> QED
  BY <1>1, InitEvents, EventStep, PTL DEF Spec

===============================================================================
