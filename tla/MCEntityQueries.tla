--------------------------- MODULE MCEntityQueries ---------------------------
(* Blogs and their authors: the queries ask for every filter of the schema,  *)
(* for combined and nested ones, for orders, pages and relations.            *)
EXTENDS EntityQueries

Field(type, array, derived) == [type |-> type, array |-> array, derived |-> derived]

BlogSchema ==
    [Author |-> [id |-> Field("ID", FALSE, ""), name |-> Field("String", FALSE, ""),
                 blogs |-> Field("Blog", TRUE, "author"), lead |-> Field("Blog", FALSE, "author")],
     Blog |-> [id |-> Field("ID", FALSE, ""), rating |-> Field("BigInt", FALSE, ""),
               author |-> Field("Author", FALSE, ""), readers |-> Field("Author", TRUE, "")]]

BlogPatterns ==
    {[Author |-> "group", Blog |-> "group"], [Author |-> "latest", Blog |-> "distinct"],
     [Author |-> "singular", Blog |-> "unique"]}

Author(id, block, name) == [type |-> "Author", block |-> block, data |-> [id |-> id, name |-> name]]
Blog(id, block, rating, author, readers) ==
    [type |-> "Blog", block |-> block,
     data |-> [id |-> id, rating |-> rating, author |-> author, readers |-> readers]]

\* ids
One == <<1>>
Two == <<2>>
Three == <<1, 2>>

BlogVersion ==
    {Author(One, 1, <<1, 12>>), Author(Two, 1, <<1, 2, 1>>), Author(One, 2, <<2>>),
     Blog(One, 1, 5, One, <<Two>>), Blog(Two, 1, 5, One, <<Two, One>>),
     Blog(Three, 2, 4, Two, <<>>), Blog(One, 2, 6, Two, <<One>>)}

By(order, desc, first, skip) == [order |-> order, desc |-> desc, first |-> first, skip |-> skip]
Default == By(<<>>, FALSE, 0, 0)

Select(field, onlyId) == [field |-> field, where |-> <<>>, options |-> Default, onlyId |-> onlyId]

Ask(type, block, where, options, select) ==
    [type |-> type, block |-> block, where |-> where, options |-> options, select |-> select]

\* a value for a filter of the schema
ValueFor(t, key) ==
    LET f == key[1]
        one == CASE Schema[t][f].type = "String" -> <<1, 2>>
                 [] Schema[t][f].type = "BigInt" -> 5
                 [] OTHER -> One
    IN  IF Last(key) = "" THEN IF t = "Blog" THEN <<[key |-> <<"name">>, value |-> <<2>>]>>
                               ELSE <<[key |-> <<"rating", "gt">>, value |-> 4]>>
        ELSE IF IsArray(t, f) \/ Last(key) = "in" THEN <<one>> ELSE one

Filters == UNION {{Ask(t, 2, <<[key |-> k, value |-> ValueFor(t, k)]>>, Default, <<>>) :
                    k \in FilterKeys(t)} : t \in {"Author", "Blog"}}

Is(key, value) == [key |-> key, value |-> value]
Rating(suffix, n) == Is(<<"rating">> \o suffix, n)

Combined ==
    {Ask("Blog", 1, <<Is(<<"or">>, <<<<Rating(<<>>, 5)>>, <<Is(<<"author">>, Two)>>>>)>>, Default, <<>>),
     Ask("Blog", 0, <<Rating(<<"gte">>, 4), Rating(<<"lt">>, 6), Is(<<"id", "not">>, Two)>>, Default, <<>>),
     Ask("Blog", 2, <<Is(<<"and">>, <<<<Rating(<<"not">>, 4)>>,
                         <<Is(<<"readers", "contains">>, <<One>>)>>>>), Is(ChangeBlock, 2)>>, Default, <<>>),
     Ask("Author", 0, <<Is(<<"name", "not">>, <<2>>)>>, Default, <<>>)}

\* a filter for the authors of blogs, and for the blogs of authors
ByAuthor(where) == <<Is(<<"author", "">>, where)>>
WithBlog(where) == <<Is(<<"blogs", "">>, where)>>

\* filters in filters
Nested ==
    {Ask("Blog", 2, ByAuthor(WithBlog(<<Rating(<<"gt">>, 4)>>)), Default, <<>>),
     Ask("Author", 2, WithBlog(ByAuthor(<<Is(<<"name">>, <<2>>)>>)), Default, <<>>),
     Ask("Author", 2, WithBlog(<<Is(<<"or">>, <<ByAuthor(<<>>), <<Rating(<<>>, 5)>>>>)>>), Default, <<>>),
     Ask("Author", 2, <<Is(<<"and">>, <<WithBlog(<<Is(<<"and">>, <<<<Rating(<<>>, 5)>>>>)>>),
                                       <<Is(<<"name">>, <<1, 12>>)>>>>)>>, Default, <<>>),
     Ask("Blog", 2, ByAuthor(<<Is(<<"lead", "gt">>, One)>>), Default, <<>>),
     Ask("Blog", 2, <<Is(<<"or">>, <<<<Is(ChangeBlock, 2)>>, <<Rating(<<>>, 5)>>>>)>>, Default, <<>>),
     Ask("Author", 2, WithBlog(<<Is(ChangeBlock, 1)>>), Default, <<>>)}

Paged ==
    {Ask("Blog", 2, <<>>, By(<<"rating">>, TRUE, 2, 0), <<Select("readers", FALSE)>>),
     Ask("Blog", 1, <<>>, By(<<"author", "id">>, FALSE, 1, 1), <<>>),
     Ask("Author", 1, <<>>, Default, <<Select("blogs", FALSE)>>),
     Ask("Blog", 1, <<Rating(<<>>, 5)>>, Default, <<Select("author", FALSE), Select("readers", FALSE)>>),
     Ask("Blog", 2, <<>>, Default, <<Select("author", TRUE)>>),
     Ask("Author", 2, <<>>, By(<<"blogs">>, FALSE, 0, 0), <<>>)}

\* two conditions on one field
OrQuery ==
    {Ask("Blog", 1, <<Is(<<"or">>, <<<<Rating(<<"lt">>, 5)>>, <<Rating(<<"gte">>, 4)>>>>)>>, Default, <<>>),
     Ask("Author", 1, <<Is(<<"or">>, <<<<Is(<<"id">>, One)>>, <<Is(<<"id">>, Two)>>>>)>>, Default, <<>>)}

BlogQuery == Filters \cup Combined \cup Nested \cup Paged

==============================================================================
