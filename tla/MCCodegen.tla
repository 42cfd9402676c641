------------------------------- MODULE MCCodegen -------------------------------
(***************************************************************************)
(* An instance of Codegen for TLC: three contracts with source, one of     *)
(* them a data source too, and a data source the config does not list. Of  *)
(* a run either the events or the declarations vary.                       *)
(***************************************************************************)
EXTENDS Codegen

CONSTANTS token, pool, router, factory

MCGiven == <<token, pool, router>>
MCDataSources == <<pool, factory>>

Elementary(b, n) == [sort |-> "ElementaryTypeName", base |-> b, bits |-> n]
ArrayOf(t) == [t EXCEPT !.sort = "ArrayTypeName"]
Struct == [sort |-> "UserDefinedTypeName", base |-> "struct", bits |-> 0]
Address == Elementary("address", 160)
Amount == Elementary("uint", 256)
Narrow == Elementary("uint", 32)
Odd == Elementary("uint", 40)
Text == Elementary("string", 0)
P(n, t) == [name |-> n, type |-> t]
Bar(w) == [Plain(w) EXCEPT !.bar = TRUE]
Capitals(w) == [Type(w) EXCEPT !.inner = "capitals"]

View(n, params, returns) == [name |-> n, params |-> params, returns |-> returns, view |-> TRUE, public |-> TRUE]
MCFunctionDecl ==
    {View(Plain("total"), <<>>, <<Amount>>),
     View(Type("total"), <<>>, <<Text>>),
     View(Plain("balance"), <<P("account", Address)>>, <<Amount>>),
     View(Plain("balance"), <<P("account", Address), P("at", Narrow)>>, <<Amount>>),
     View(Plain("reserves"), <<>>, <<Amount, Narrow, ArrayOf(Address)>>),
     View(Plain("names"), <<>>, <<ArrayOf(Text)>>),
     View(Capitals("names"), <<>>, <<Amount>>),
     View(Plain("info"), <<>>, <<Struct>>),
     [View(Plain("total"), <<>>, <<Amount>>) EXCEPT !.view = FALSE]}

Var(n, keys, t) == [name |-> n, keys |-> keys, type |-> t, immutable |-> FALSE]
MCVariableDecl ==
    {Var(Bar("total"), <<>>, Narrow),
     Var(Plain("name"), <<>>, Text),
     Var(Bar("balances"), <<Address>>, ArrayOf(Amount)),
     Var(Plain("list"), <<>>, ArrayOf(Amount)),
     Var(Plain("odd"), <<>>, Odd),
     Var(Plain("kept"), <<Struct>>, Amount),
     [Var(Plain("name"), <<>>, Text) EXCEPT !.immutable = TRUE]}

I(n, t, indexed) == [name |-> n, type |-> t, indexed |-> indexed]
Sent == [name |-> "sent", inputs |-> <<I("from", Address, TRUE), I("value", Amount, FALSE)>>]
MCEventDecl ==
    {Sent,
     [name |-> "sent", inputs |-> <<I("from", Address, TRUE), I("ids", ArrayOf(Amount), TRUE)>>],
     [name |-> "sent", inputs |-> <<I("from", Address, TRUE), I("memo", Text, TRUE)>>],
     [name |-> "sent", inputs |-> <<>>],
     [name |-> "named", inputs |-> <<I("name", Text, TRUE), I("parts", ArrayOf(Narrow), FALSE)>>]}

\* The subgraph may declare a type the schema has already.
MCEntity == {Type("holder"), Type("sentEvent")}

\* the names the theorems are about
ASSUME MCCodegenAssumption == ParamsNamedApart /\ EventNamesApart

MCNext ==
    \/ \E e \in EventDecl : (Mode = "none" \/ (e = Sent /\ contract = 1)) /\ ParseEvent(e)
    \/ EventsParsed
    \/ \E f \in FunctionDecl : VisitFunction(f)
    \/ \E v \in VariableDecl : VisitStateVariable(v)
    \/ NextContract
    \/ \E S \in SUBSET Entity : VisitSubgraph(S)
    \/ ExportWatcher
MCSpec == Init /\ [][MCNext]_vars
================================================================================
