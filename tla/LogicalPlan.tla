----------------------------- MODULE LogicalPlan -----------------------------
(***************************************************************************)
(* From the text of a query to its logical plan: the catalog the planner   *)
(* builds of the schema (src/planner/catalog/catalog.go), the choice of    *)
(* the operation (frontend/prepare.go), the tree of nodes and the merging  *)
(* of fields with one response key (logical/builder.go), and what the      *)
(* estimates read off a node: how many rows its arguments, or those of the *)
(* node above it, allow (estimate/estimate.go).                            *)
(*                                                                         *)
(* Parsed documents are trees of records.  A selection is a field, a       *)
(* spread of a named fragment or an inline fragment; a value of an         *)
(* argument has a kind (num, str, map, list, var, ...).  Types are object  *)
(* types and scalars.  RECURSIVE operators: for TLC only.                  *)
(***************************************************************************)
EXTENDS Naturals, FiniteSets, SequencesExt

CONSTANTS
  Schemas,   \* schemas the planner may be started with: fields by object type
  Requests,  \* requests: operations, fragments, operationName, variables
  Payloads,  \* the object types whose name ends in "Payload"
  ArgOrder   \* the names of arguments and input fields, sorted

VARIABLES
  schema,    \* Planner.schema
  fields,    \* Catalog.fields
  request,   \* the request at hand
  prepared,  \* the operation Prepare has chosen
  plan,      \* the children of Plan.Root
  phase

planVars == <<schema, fields, request, prepared, plan, phase>>

None == [none |-> TRUE]

-----------------------------------------------------------------------------
(* Capabilities: the directives of a field, in the order they are written. *)
NoCaps ==
  [batchable |-> FALSE, batchKey |-> "", maxBatchSize |-> 0, cacheable |-> FALSE, cacheKey |-> ""]

Batchable(caps, d) ==
  [caps EXCEPT !.batchable = TRUE,
     !.maxBatchSize = IF d.maxBatchSize > 0 THEN d.maxBatchSize ELSE IF @ > 0 THEN @ ELSE 100,
     !.batchKey = IF d.key # "" THEN d.key ELSE @]

Cacheable(caps, d) ==
  [caps EXCEPT !.cacheable = TRUE, !.cacheKey = IF d.key # "" THEN d.key ELSE @]

ApplyDirective(caps, d) ==
  CASE d.name = "batchable" -> Batchable(caps, d)
    [] d.name = "cacheable" -> Cacheable(caps, d)
    [] OTHER -> caps

(* Mutant: the batch key stands in as soon as @cacheable is read.          *)
ApplyDirectiveCapsEarly(directives) ==
  LET apply(caps, d) ==
        LET c == ApplyDirective(caps, d)
        IN IF d.name = "cacheable" /\ c.cacheKey = "" THEN [c EXCEPT !.cacheKey = c.batchKey] ELSE c
  IN FoldLeft(apply, NoCaps, directives)

ApplyDirectiveCaps(directives) ==
  LET caps == FoldLeft(ApplyDirective, NoCaps, directives)
  IN [caps EXCEPT !.cacheKey = IF @ = "" THEN caps.batchKey ELSE @]

(* buildFieldMeta, without what follows from the type by formatting.       *)
FieldMeta(t, f, types) ==
  LET def == types[t][f]
  IN [parentType |-> t, fieldName |-> f, elemType |-> def.elem, isList |-> def.list,
      isScalar |-> def.elem \notin DOMAIN types,
      sideEffecting |-> t = "Mutation",
      costWeight |-> IF def.list THEN 3 ELSE IF def.elem \in DOMAIN types THEN 2 ELSE 1,
      caps |-> ApplyDirectiveCaps(def.directives)]

(* catalog.New                                                             *)
NewCatalog(types) ==
  [key \in UNION {{<<t, f>> : f \in DOMAIN types[t]} : t \in DOMAIN types} |->
     FieldMeta(key[1], key[2], types)]

-----------------------------------------------------------------------------
(* The fields of a selection set with its fragments flattened into it.     *)
(* Frontend and builder have a copy each.                                  *)
RECURSIVE CollectFields(_, _)
CollectFields(set, frags) ==
  IF set = <<>> THEN <<>>
  ELSE LET s == Head(set)
           collected ==
             CASE s.kind = "field" -> <<s>>
               [] s.kind = "spread" ->
                    IF s.name \in DOMAIN frags THEN CollectFields(frags[s.name], frags) ELSE <<>>
               [] s.kind = "inline" -> CollectFields(s.sel, frags)
       IN collected \o CollectFields(Tail(set), frags)

ResponseKey(f) == IF f.alias # "" THEN f.alias ELSE f.name

(* All that fields with the response key of the i-th select.               *)
SelectedBelow(fs, i) ==
  FlattenSeq([j \in DOMAIN fs |->
                IF ResponseKey(fs[j]) = ResponseKey(fs[i]) THEN fs[j].sel ELSE <<>>])

(***************************************************************************)
(* gqlparser.LoadQuery, as far as the planner relies on it: fields exist   *)
(* (__typename does on every object type, declared nowhere), composites    *)
(* have selections and scalars none, fields with one response key are the  *)
(* same field with the same arguments all the way down, and an anonymous   *)
(* operation is alone.                                                     *)
(***************************************************************************)
RootTypeOf(op) ==
  CASE op.kind = "mutation" -> "Mutation"
    [] op.kind = "subscription" -> "Subscription"
    [] OTHER -> "Query"

ElemTypeOf(t, f) == IF f = "__typename" THEN "String" ELSE schema[t][f].elem

RECURSIVE ValidSelections(_, _, _)
ValidSelections(t, set, frags) ==
  LET fs == CollectFields(set, frags)
  IN \A i \in DOMAIN fs :
       /\ fs[i].name \in DOMAIN schema[t] \cup {"__typename"}
       /\ ElemTypeOf(t, fs[i].name) \in DOMAIN schema <=> fs[i].sel # <<>>
       /\ \A j \in DOMAIN fs : ResponseKey(fs[j]) = ResponseKey(fs[i]) =>
            fs[j].name = fs[i].name /\ fs[j].args = fs[i].args
       /\ fs[i].sel # <<>> =>
            ValidSelections(ElemTypeOf(t, fs[i].name), SelectedBelow(fs, i), frags)

Valid(r) ==
  /\ r.operations # <<>>
  /\ \A i, j \in DOMAIN r.operations :
       i # j => "" # r.operations[i].name /\ r.operations[i].name # r.operations[j].name
  /\ \A i \in DOMAIN r.operations :
       LET op == r.operations[i]
       IN RootTypeOf(op) \in DOMAIN schema /\ ValidSelections(RootTypeOf(op), op.sel, r.fragments)

(* The first operation of a name in the document; with no name asked for,  *)
(* the only one, or one without a name.                                    *)
Named(ops, name) == SelectSeq(ops, LAMBDA op : op.name = name)

(* Mutant: with no name asked for, the first operation is taken.           *)
FindOperationFirst(ops, name) ==
  IF name = "" THEN Head(ops) ELSE IF Named(ops, name) = <<>> THEN None ELSE Head(Named(ops, name))

FindOperation(ops, name) ==
  IF name = "" /\ Len(ops) = 1 THEN Head(ops)
  ELSE IF Named(ops, name) = <<>> THEN None ELSE Head(Named(ops, name))

-----------------------------------------------------------------------------
(* ast.Value.Value and ast.Field.ArgumentMap: variables are replaced by    *)
(* what the request gives; one that is nested and not given by its own     *)
(* default, or null.  An argument without value, which is also one whose   *)
(* variable is not given, has its default or is left out.                  *)
Null == [kind |-> "null"]

RECURSIVE ValueOf(_, _)
ValueOf(v, vars) ==
  CASE v.kind = "var" ->
         IF v.name \in DOMAIN vars THEN vars[v.name]
         ELSE IF v.name \in DOMAIN prepared.op.defaults THEN prepared.op.defaults[v.name] ELSE Null
    [] v.kind = "map" -> [v EXCEPT !.of = [a \in DOMAIN v.of |-> ValueOf(v.of[a], vars)]]
    [] v.kind = "list" -> [v EXCEPT !.of = [i \in DOMAIN v.of |-> ValueOf(v.of[i], vars)]]
    [] OTHER -> v

Given(f, vars) ==
  {a \in DOMAIN f.args : f.args[a].kind = "var" => f.args[a].name \in DOMAIN vars}

ArgumentMap(f, defaults, vars) ==
  [a \in Given(f, vars) \cup DOMAIN defaults |->
     IF a \in Given(f, vars) THEN ValueOf(f.args[a], vars) ELSE defaults[a]]

(* argShape: the names of the arguments with the types of their values.    *)
ArgShape(args) == {<<a, args[a].kind>> : a \in DOMAIN args}

ResolverKey(n) == <<n.parentType, n.fieldName>>

(* Mutant: the path is left out of what is hashed.                         *)
NodeIDPathless(parentType, fieldName, path) == <<parentType, fieldName, Len(path)>>

(* nodeID, its hash taken as injective.                                    *)
NodeID(parentType, fieldName, path) == <<parentType, fieldName, path>>

(* Mutant: the children of merged fields are appended, and stay as many.   *)
AbsorbedShallow(out, i, n) == [out EXCEPT ![i].children = @ \o n.children]

RECURSIVE MergeByResponseKey(_)

(* The node joins the i-th, which takes its children.                      *)
Absorbed(out, i, n) == [out EXCEPT ![i].children = MergeByResponseKey(@ \o n.children)]

(* Each node joins the first one before it with its response key, if any.  *)
MergeByResponseKey(nodes) ==
  IF Len(nodes) <= 1 THEN nodes
  ELSE LET out == MergeByResponseKey(Front(nodes))
           n == Last(nodes)
           ex == {i \in DOMAIN out : out[i].responseKey = n.responseKey}
       IN IF ex = {} THEN Append(out, n) ELSE Absorbed(out, CHOOSE i \in ex : TRUE, n)

(* Mutant: what is handed down are the arguments the node itself was given. *)
HandedDownOwn(above, args) == args

HandedDown(above, args) == above.args

(* The node of a field, with what it takes from the node above.            *)
NodeOfField(f, path, above) ==
  LET meta == fields[<<above.elemType, f.name>>]
      args == ArgumentMap(f, schema[above.elemType][f.name].defaults, request.variables)
  IN [id |-> NodeID(above.elemType, f.name, path), parentType |-> above.elemType,
      fieldName |-> f.name, responseKey |-> ResponseKey(f), path |-> path,
      elemType |-> meta.elemType, isList |-> meta.isList, depth |-> above.depth + 1,
      args |-> args, argShape |-> ArgShape(args), meta |-> meta,
      parentResolverKey |-> ResolverKey(above), parentArgs |-> HandedDown(above, args), children |-> <<>>]

(* What the root is to the nodes below it: no resolver and no arguments.   *)
AboveRoot(rootType) ==
  [elemType |-> rootType, parentType |-> "", fieldName |-> "", depth |-> 0, args |-> <<>>, path |-> <<>>]

(* The fields of a selection set the catalog knows; the others, which in a *)
(* valid document are those called __typename, are left out.               *)
KnownFields(sel, above) ==
  SelectSeq(CollectFields(sel, request.fragments),
            LAMBDA f : <<above.elemType, f.name>> \in DOMAIN fields)

RECURSIVE BuildSelections(_, _)
BuildSelections(sel, above) ==
  LET known == KnownFields(sel, above)
      own == [i \in DOMAIN known |->
                NodeOfField(known[i], Append(above.path, ResponseKey(known[i])), above)]
  IN MergeByResponseKey(
       [i \in DOMAIN known |->
          [own[i] EXCEPT !.children = BuildSelections(known[i].sel, own[i])]])

-----------------------------------------------------------------------------
(* numericArgLimitDeep: a positive limit among the arguments by their      *)
(* usual names, else the first within them; 0 if there is none.            *)
LimitKeys == <<"first", "last", "limit", "perPage", "pageSize", "take">>

FirstPositive(ns) ==
  LET positive == SelectSeq(ns, LAMBDA x : x > 0)
  IN IF positive = <<>> THEN 0 ELSE Head(positive)

(* toInt: numbers, numeric strings among them; negative ones limit nothing. *)
ToInt(v) == IF v.kind = "num" THEN v.n ELSE 0

RECURSIVE NumericArgLimitDeep(_)
NumericArgLimitDeep(args) ==
  LET own(k) == IF k \in DOMAIN args THEN ToInt(args[k]) ELSE 0
      within(v) ==
        CASE v.kind = "map" -> <<NumericArgLimitDeep(v.of)>>
          [] v.kind = "list" ->
               [i \in DOMAIN v.of |->
                  IF v.of[i].kind = "map" THEN NumericArgLimitDeep(v.of[i].of) ELSE 0]
          [] OTHER -> <<>>
  IN FirstPositive(
       [i \in DOMAIN LimitKeys |-> own(LimitKeys[i])]
         \o FlattenSeq([i \in DOMAIN ArgOrder |->
              IF ArgOrder[i] \in DOMAIN args THEN within(args[ArgOrder[i]]) ELSE <<>>]))

InheritedParentUpperBound(n) ==
  IF /\ n.isList /\ DOMAIN n.args = {}
     /\ n.parentType \in Payloads \/ n.parentResolverKey[2] \in {"edges", "nodes"}
  THEN NumericArgLimitDeep(n.parentArgs) ELSE 0

DefaultBound == 10

(* upperBoundForList; a list's fanout hint is always 0 (defaultFanout).    *)
UpperBoundForList(n) ==
  FirstPositive(<<NumericArgLimitDeep(n.args), InheritedParentUpperBound(n), DefaultBound>>)

-----------------------------------------------------------------------------
(* planner.New: the catalog is built once.                                 *)
LogicalInit ==
  /\ schema \in Schemas
  /\ fields = NewCatalog(schema)
  /\ request = None /\ prepared = None /\ plan = <<>>
  /\ phase = "idle"

Receive ==
  /\ phase \in {"idle", "planned", "refused"}
  /\ request' \in Requests
  /\ prepared' = None /\ plan' = <<>>
  /\ phase' = "received"
  /\ UNCHANGED <<schema, fields>>

Chosen == FindOperation(request.operations, request.operationName)

(* Prepare: the text may not be a valid query, the operation not there.    *)
Rejected == ~(Valid(request) /\ Chosen # None)

Refuse ==
  /\ phase = "received"
  /\ Rejected
  /\ phase' = "refused"
  /\ UNCHANGED <<schema, fields, request, prepared, plan>>

Prepare ==
  /\ phase = "received"
  /\ ~Rejected
  /\ prepared' = [op |-> Chosen, rootType |-> RootTypeOf(Chosen)]
  /\ phase' = "prepared"
  /\ UNCHANGED <<schema, fields, request, plan>>

Build ==
  /\ phase = "prepared"
  /\ plan' = BuildSelections(prepared.op.sel, AboveRoot(prepared.rootType))
  /\ phase' = "planned"
  /\ UNCHANGED <<schema, fields, request, prepared>>

LogicalNext == Receive \/ Refuse \/ Prepare \/ Build

LogicalSpec == LogicalInit /\ [][LogicalNext]_planVars

-----------------------------------------------------------------------------
(***************************************************************************)
(* GraphQL's own field collection, as the reference: a fragment is visited *)
(* once per selection set, fields are grouped by response key in the order *)
(* of their first appearance, and what is selected below a group is what   *)
(* all its fields select.  __typename, which the schema declares nowhere,  *)
(* is left aside.                                                          *)
(***************************************************************************)
RECURSIVE Visit(_, _)
Visit(set, acc) ==
  IF set = <<>> THEN acc
  ELSE LET a == Visit(Front(set), acc)
           s == Last(set)
       IN CASE s.kind = "field" -> [a EXCEPT !.found = Append(@, s)]
            [] s.kind = "inline" -> Visit(s.sel, a)
            [] s.kind = "spread" ->
                 IF s.name \in a.visited THEN a
                 ELSE Visit(request.fragments[s.name], [a EXCEPT !.visited = @ \cup {s.name}])

Visited(set) == Visit(set, [found |-> <<>>, visited |-> {}]).found

RECURSIVE Answered(_)
Answered(set) ==
  LET fs == SelectSeq(Visited(set), LAMBDA f : f.name # "__typename")
      first(i) == \A j \in 1..(i - 1) : ResponseKey(fs[j]) # ResponseKey(fs[i])
      firsts == SelectSeq([i \in DOMAIN fs |-> i], first)
  IN [k \in DOMAIN firsts |->
        [key |-> ResponseKey(fs[firsts[k]]), field |-> fs[firsts[k]].name,
         below |-> Answered(SelectedBelow(fs, firsts[k]))]]

RECURSIVE Planned(_)
Planned(nodes) ==
  [i \in DOMAIN nodes |-> [key |-> nodes[i].responseKey, field |-> nodes[i].fieldName,
                           below |-> Planned(nodes[i].children)]]

(* The nodes of a plan, each with the node above it.                       *)
RECURSIVE Links(_, _)
Links(nodes, above) ==
  UNION {{<<nodes[i], above>>} \cup Links(nodes[i].children, nodes[i]) : i \in DOMAIN nodes}

RECURSIVE NodeCount(_)
NodeCount(nodes) ==
  IF nodes = <<>> THEN 0 ELSE 1 + NodeCount(Head(nodes).children) + NodeCount(Tail(nodes))

PlanLinks == Links(plan, AboveRoot(IF prepared = None THEN "" ELSE prepared.rootType))

(* The plan has a node for each field of the response that the schema      *)
(* declares, no more, no fewer and in its order, however fragments,        *)
(* aliases and repeated fields spread the field's selections over the      *)
(* document.  __typename alone has none: the catalog holds what types      *)
(* declare, and the builder leaves out the rest without an error.          *)
PlanMatchesQuery == phase = "planned" => Planned(plan) = Answered(prepared.op.sel)

(* A request is planned for the operation GraphQL would execute, and       *)
(* refused when that is not determined: more than one and no name.         *)
OperationAsRequested ==
  LET meant == {i \in DOMAIN request.operations :
                  \/ request.operations[i].name = request.operationName
                  \/ request.operationName = "" /\ Len(request.operations) = 1}
  IN /\ phase \in {"prepared", "planned"} =>
          \E i \in meant : meant = {i} /\ prepared.op = request.operations[i]
     /\ phase = "refused" /\ Valid(request) => meant = {}

(* Annotations, strategies, counters and caches are kept by node ID: no    *)
(* two nodes of a plan have the same.                                      *)
NodesDistinct ==
  Cardinality({link[1].id : link \in PlanLinks}) = NodeCount(plan)

(* What a node remembers of its parent when it is built is true of the     *)
(* node it stands under in the end, though merging moves it: a list of a   *)
(* payload is bounded by the limit its own payload was asked for.          *)
ParentsAgree ==
  \A link \in PlanLinks :
    LET n == link[1]
        above == link[2]
    IN /\ n.parentResolverKey = ResolverKey(above) /\ n.parentArgs = above.args
       /\ n.path = Append(above.path, n.responseKey) /\ n.depth = Len(n.path)
       /\ n.isList /\ n.parentType \in Payloads /\ DOMAIN n.args = {}
             /\ NumericArgLimitDeep(above.args) > 0
            => UpperBoundForList(n) = NumericArgLimitDeep(above.args)

(* Capabilities do not depend on the order of the directives: the cache    *)
(* key is that of @cacheable, or else that of @batchable, written before   *)
(* or after it.                                                            *)
CapabilitiesOrderless ==
  \A key \in DOMAIN fields :
    fields[key].caps = ApplyDirectiveCaps(Reverse(schema[key[1]][key[2]].directives))
=============================================================================
