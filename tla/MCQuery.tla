------------------------------ MODULE MCQuery -------------------------------
(* Small instances of Query: people with an integer and a decimal, companies  *)
(* with an instant, links with a duration.                                    *)
EXTENDS Query, TLC

Num(sign, int, frac) == [sign |-> sign, int |-> int, frac |-> frac]
At(secs, offset, frac, leap) ==
  [secs |-> secs, offset |-> offset, frac |-> frac, leap |-> leap, dangling |-> FALSE]

MCField(name, kind) == [name |-> name, value_type |-> kind, required |-> FALSE]
MCModel(id, fields) == [id_field |-> id, fields |-> fields]
MCLink(from, to) == [id_field |-> "rid", fields |-> <<MCField("w", "Duration")>>,
                     from_model |-> from, to_model |-> to]

\* Two links lead from people to companies, one of them never used.
MCNodeModels == "Person" :> MCModel("pid", <<MCField("age", "Int"), MCField("score", "Decimal")>>)
             @@ "Company" :> MCModel("cid", <<[MCField("since", "DateTime") EXCEPT !.required = TRUE]>>)
MCRelModels == "Knows" :> MCLink("Person", "Person")
            @@ "WorksAt" :> MCLink("Person", "Company")
            @@ "Owns" :> MCLink("Person", "Company")

Score(sign, int, frac) == "score" :> Plain(Num(sign, int, frac))
Age(n) == "age" :> Plain(n)
Since(t) == "since" :> [pad |-> TRUE, body |-> t]
W(int, frac) == "w" :> Plain(Num("", int, frac))

\* The last text of each is refused: a trailing zero, a leap second without
\* fraction, a missing required field.
MCNodeProps ==
  "Person" :> {Age(1) @@ Score("", <<9>>, <<<<5>>>>), Score("-", <<1, 0>>, <<>>),
               Score("", <<9>>, <<<<5, 0>>>>)}
  @@ "Company" :> {Since(At(100, 60, <<5, 0>>, FALSE)), Since(At(50, 0, <<>>, FALSE)),
                   Since(At(40, 0, <<>>, TRUE)), <<>>}
MCRelProps == "Knows" :> {W(<<1>>, <<<<5>>>>), W(<<1, 0>>, <<>>)}
           @@ "WorksAt" :> {W(<<1>>, <<<<5>>>>)}
           @@ "Owns" :> {}

-----------------------------------------------------------------------------
Lex(field, op, text) == [field |-> field, op |-> op, value |-> [form |-> "lexical", value |-> text]]
Typed(field, op, v)  == [field |-> field, op |-> op, value |-> [form |-> "typed", value |-> v]]
Dec(sign, int, frac) == Json("Decimal", Plain(Num(sign, int, frac)))

Request(on, model, q) == [on |-> on, form |-> "request", model |-> model, query |-> q]
Terms(on, model, ts)  == [on |-> on, form |-> "terms", model |-> model, query |-> ts]
Term(key, value) == key :> value

People(p)    == Request("node", "Person", [EmptyQuery EXCEPT !.predicates = p])
Companies(p) == Request("node", "Company", [EmptyQuery EXCEPT !.predicates = p])
Edges(q)     == Request("edge", "Knows", q)
Via(dir, rel, end) == [direction |-> dir, edge_model |-> rel, end_model |-> end]
Walk(model, steps, mode) ==
  [EmptyQuery EXCEPT !.traversals = steps, !.return_mode = mode]
Sorted(field, dir) == <<[field |-> field, direction |-> dir]>>

nine5  == Dec("", <<9>>, <<<<5>>>>)
nine25 == Dec("", <<9>>, <<<<2, 5>>>>)
short  == Json("Duration", Plain(Num("", <<1>>, <<<<5>>>>)))
known  == Via("Both", "Knows", "Person")

\* Flat queries: each kind of value, the edges of paging, each refusal.
MCFinds ==
  {People(<<Typed("score", op, nine5)>>) : op \in {"Eq", "Gt", "Le", "Contains"}}
  \cup {People(<<Typed("score", "Lt", nine25), Lex("age", "Ge", Plain(1))>>),
        People(<<Typed("score", "Ge", Dec("-", <<9>>, <<<<5>>>>))>>),
        People(<<Typed("pid", "Eq", Json("Int", 2))>>),
        People(<<Typed("pid", "Gt", Json("Int", 2))>>),
        People(<<Typed("pid", "Eq", nine5)>>)}
  \cup {People(<<Typed("pid", "Eq", v)>>) : v \in
          {Dec("+", <<0, 2>>, <<>>), Dec("", <<9, 9, 9>>, <<>>), Json("Bool", TRUE),
           Json("Other", Malformed), Json("Bytes", Plain([item |-> <<52, 52, 52, 54>>, canonical |-> TRUE]))}}
  \cup {People(<<Typed("id", "Eq", Json("String", text))>>) : text \in
          {<<32, 50, 32>>, <<45, 50>>, <<45>>, <<>>, <<50, 46, 48>>}}
  \cup {People(<<Typed("age", "Eq", nine5)>>),
        People(<<Typed("since", "Eq", nine5)>>),
        Companies(<<Lex("since", "Eq", Plain(At(40, 0, <<5>>, FALSE)))>>),
        Companies(<<Lex("since", "Lt", Plain(At(110, 60, <<>>, FALSE)))>>),
        Companies(<<Lex("since", "Eq", Plain(Malformed))>>)}
  \cup {Request("node", "Person",
          [EmptyQuery EXCEPT !.order = Sorted(f, d), !.offset = 1, !.limit = 1]) :
          f \in {"score", "age", "id"}, d \in {"Asc", "Desc"}}
  \cup {Request("node", "Person",
          [EmptyQuery EXCEPT !.order = Sorted("score", "Asc"), !.offset = o, !.limit = 1]) :
          o \in {Nothing, 4}}
  \cup {Request("node", "Company", [EmptyQuery EXCEPT !.order = Sorted(f, "Desc")]) :
          f \in {"since", "age"}}
  \cup {Edges([EmptyQuery EXCEPT !.from_filter = f, !.to_filter = t, !.order = Sorted("to", "Desc")]) :
          f, t \in {Nothing, 1}}
  \cup {Edges([EmptyQuery EXCEPT !.predicates = <<Typed("w", "Gt", short)>>]),
        Edges([EmptyQuery EXCEPT !.predicates = <<Typed("rid", "Eq", Json("Int", 1))>>])}
  \cup {Terms("node", "Person", ts) : ts \in
          {<<Term("predicates", Lex("id", "Eq", Plain(2))), Term("limit", 0)>>,
           <<Term("order", Sorted("age", "Asc") \o Sorted("age", "Desc"))>>,
           <<Term("offset", Malformed)>>,
           <<Term("end_predicates", Lex("age", "Eq", Plain(1)))>>}}

\* Traversals: each direction and return mode, named and wild cards, filters
\* on the root, the end and the last edge.
MCTraversals ==
  {Request("node", "Person", Walk("Person", <<Via(d, Nothing, "Person")>>, m)) :
     d \in {"Out", "In", "Both"}, m \in {"Root", "End", "Edge"}}
  \cup {Request("node", "Person",
          [Walk("Person", <<known>>, m) EXCEPT !.end_predicates = <<Typed("score", "Gt", nine25)>>]) :
          m \in {"Root", "End", "Edge"}}
  \cup {Request("node", "Person",
          [Walk("Person", <<known>>, m) EXCEPT !.edge_predicates = <<Typed("w", "Eq", short)>>]) :
          m \in {"Root", "End", "Edge"}}
  \cup {Request("node", "Person",
          [Walk("Person", <<known>>, "End") EXCEPT !.predicates = <<p>>, !.order = Sorted("score", "Desc")]) :
          p \in {Typed("score", "Ne", nine5), Typed("age", "Gt", Json("Int", 1)),
                 Typed("score", "Gt", nine5)}}
  \cup {Request("node", "Person", Walk("Person", <<s>>, "End")) :
          s \in {Via("Out", "WorksAt", "Company"), Via("In", "WorksAt", "Company"),
                 Via("Out", Nothing, "Company")}}
  \cup {Request("node", "Company",
          Walk("Company", <<Via("In", "WorksAt", "Person"), known>>, "Root"))}
  \cup {Terms("node", "Person",
          <<Term("via", Via("Out", "WorksAt", "Company")),
            Term("end_predicates", Lex("since", "Ge", Plain(At(50, 0, <<>>, FALSE)))),
            Term("return_mode", "Edge"), Term("order", Sorted("from", "Desc"))>>)}

MCAsks == MCFinds \cup MCTraversals
=============================================================================
