---------------------------- MODULE MCLogicalPlan ----------------------------
(***************************************************************************)
(* The movie schema of the example server, cut down, and documents over    *)
(* it: pairs of root fields whose selections overlap, directly, by alias   *)
(* and through fragments, with limits given as arguments, within input     *)
(* objects, as defaults and as variables, with and without a default of    *)
(* their own, and with __typename next to declared fields or alone.        *)
(***************************************************************************)
EXTENDS LogicalPlan

Num(i) == [kind |-> "num", n |-> i]
Var(x) == [kind |-> "var", name |-> x]
InputOf(v) == [kind |-> "map", of |-> [limit |-> v]]

NoDefaults == <<>>
Scalar == [elem |-> "String", list |-> FALSE, defaults |-> NoDefaults, directives |-> <<>>]
Object(t) == [Scalar EXCEPT !.elem = t]
ListOf(t) == [Object(t) EXCEPT !.list = TRUE]

BatchedBy(k) == [name |-> "batchable", key |-> k, maxBatchSize |-> 50]
CachedBy(k) == [name |-> "cacheable", key |-> k, maxBatchSize |-> 0]
Deprecated == [name |-> "deprecated", key |-> "", maxBatchSize |-> 0]

DirectiveLists ==
  {<<BatchedBy("movie_id"), CachedBy("")>>, <<CachedBy(""), BatchedBy("movie_id")>>,
   <<CachedBy("studio_id"), Deprecated, BatchedBy("movie_id")>>}

SchemaWith(directives) ==
  [Query |-> [movie |-> Object("Movie"), movies |-> Object("MoviesPayload")],
   MoviesPayload |-> [movies |-> ListOf("Movie"), total |-> Scalar],
   Movie |-> [title |-> Scalar,
              actors |-> [ListOf("Actor") EXCEPT !.defaults = [limit |-> Num(5)],
                                                 !.directives = directives]],
   Actor |-> [name |-> Scalar, movies |-> ListOf("Movie")]]

MCSchemas == {SchemaWith(d) : d \in DirectiveLists}

MCArgOrder == <<"first", "input", "limit">>

-----------------------------------------------------------------------------
Field(name, alias, args, sel) ==
  [kind |-> "field", name |-> name, alias |-> alias, args |-> args, sel |-> sel]

Plain(name, sel) == Field(name, "", <<>>, sel)
Title == Plain("title", <<>>)
Name == Plain("name", <<>>)
Typename == Plain("__typename", <<>>)
Spread(f) == [kind |-> "spread", name |-> f]
Inline(sel) == [kind |-> "inline", sel |-> sel]

MCFragments ==
  [cast |-> <<Plain("actors", <<Name>>), Title>>,
   both |-> <<Spread("cast"), Field("__typename", "kind", <<>>, <<>>),
              Plain("actors", <<Field("name", "n", <<>>, <<>>)>>), Spread("cast")>>]

(* What may be selected of a movie.                                        *)
MovieItems ==
  {Title, Field("title", "actors", <<>>, <<>>), Spread("cast"), Spread("both"),
   Typename,
   Inline(<<Plain("actors", <<Plain("movies", <<Title, Typename>>), Name>>)>>),
   Field("actors", "", [limit |-> Num(2)], <<Name>>),
   Field("actors", "few", [limit |-> Var("few")], <<Name>>)}

MovieSelections ==
  {<<i>> : i \in MovieItems} \cup {<<i, j>> : i, j \in MovieItems}

PayloadOf(alias, v, sel) ==
  Field("movies", alias, [input |-> InputOf(v)], <<Typename, Plain("movies", sel)>>)

(* An operation that declares $few, with or without a default.             *)
QueryWith(defaults, name, sel) ==
  [name |-> name, kind |-> "query", sel |-> sel, defaults |-> defaults]
Query(name, sel) == QueryWith(NoDefaults, name, sel)

RequestFor(ops, name, vars) ==
  [operations |-> ops, fragments |-> MCFragments, operationName |-> name, variables |-> vars]

(* $few has a value, a default or neither.                                 *)
Fews ==
  {[default |-> NoDefaults, given |-> [few |-> Num(3)]],
   [default |-> [few |-> Num(4)], given |-> <<>>], [default |-> NoDefaults, given |-> <<>>]}

(* Two selections on one movie, or on two payloads with different limits.  *)
MovieRequests ==
  {RequestFor(<<Query("", <<Plain("movie", s), Plain("movie", t)>>)>>, "", [few |-> Num(3)]) :
     s \in MovieSelections, t \in {<<i>> : i \in MovieItems}}

PayloadRequests ==
  {RequestFor(<<QueryWith(few.default, "", <<PayloadOf("", Num(7), <<i>>), PayloadOf(a, v, <<j>>),
                                             Plain("movie", <<Title>>), Typename>>)>>, "", few.given) :
     i, j \in MovieItems, a \in {"", "more"}, v \in {Num(7), Var("few")}, few \in Fews}

NamedRequests ==
  {RequestFor(<<Query("A", <<Plain("movie", <<Title>>)>>), Query("B", <<Plain("movie", <<Spread("cast")>>)>>)>>,
              name, <<>>) : name \in {"A", "B", "C", ""}}
    \cup {RequestFor(<<Query(own, <<Plain("movie", <<Title>>)>>)>>, name, <<>>) :
            own \in {"A", ""}, name \in {"A", ""}}

MCRequests == MovieRequests \cup PayloadRequests \cup NamedRequests
=============================================================================
