---------------------------- MODULE MCDefinitions ----------------------------
(***************************************************************************)
(* The functions of the system that keep no state, on bounded inputs: every *)
(* invariant compares what the code computes for a sample of its kind with  *)
(* a definition that does not follow the code.  The invariants theorems are *)
(* about stand in the modules of their functions.                           *)
(***************************************************************************)
EXTENDS Integers, Sequences, FiniteSets, TLC, SequencesExt, FiniteSetsExt, Samples,
        Compiler, Sanitizer, ContextAndPatch, Access, Figures

O == INSTANCE CustomerOutput
T == INSTANCE Trees
I == INSTANCE Inputs
M == INSTANCE Matrix
G == INSTANCE GhostConfig
R == INSTANCE Rules

Init == NothingDrawn

UpTo(n, Elements) == UNION {[1..k -> Elements] : k \in 0..n}
IsPrefixOf(p, q) == Len(p) <= Len(q) /\ SubSeq(q, 1, Len(p)) = p
Partial(keys, values) == UNION {[k -> values] : k \in SUBSET keys}

(* Every path through a tree, and through its lists too.                    *)
RECURSIVE Everywhere(_)
Everywhere(v) == {<<>>} \cup UNION {{<<k>> \o p : p \in Everywhere(v.of[k])} : k \in DOMAIN v.of}

-----------------------------------------------------------------------------
(* Pipelines: three steps with any names and links, five steps of different *)
(* names, and up to two steps some of which do not parse.                   *)
Text(word, padded) == [word |-> word, padded |-> padded]
Step(n, next) == [name |-> Text(n, FALSE), type |-> Text(1, FALSE), next |-> next,
                  config |-> {}, beside |-> {}]
DrawSteps(steps) ==
  Draw("pipeline", [raw |-> [name |-> Text(1, TRUE), steps |-> steps],
                    outputs |-> [n \in 1..5 |-> 10 * n]])
RoughNext == {NoText, Text(1, FALSE), Text(2, FALSE), Text(2, TRUE), Text(4, FALSE)}
CleanNext == {NoText} \cup {Text(w, FALSE) : w \in 1..5}
FiveNames == <<3, 1, 5, 4, 2>>

DrawRough == \E names \in [1..3 -> 1..3], next \in [1..3 -> RoughNext] :
               DrawSteps([i \in 1..3 |-> Step(names[i], next[i])])
DrawClean == \E next \in [1..5 -> CleanNext] :
               DrawSteps([i \in 1..5 |-> Step(FiveNames[i], next[i])])

RawStep == [name : {NoText, Text(0, TRUE), Text(1, FALSE), Text(1, TRUE)},
            type : {Text(0, FALSE), Text(1, TRUE)},
            next : {NoText, Text(1, TRUE)},
            config : SUBSET {"k"}, beside : SUBSET {"k"}]
DrawRaw == \E steps \in UpTo(2, RawStep) : DrawSteps(steps)

-----------------------------------------------------------------------------
(* Governance keys: what a customer may send, and what a customer gets.     *)
Leaves == {T!Leaf("1"), T!Leaf("2")}
Values(keys, below) ==
  {T!Leaf("1")} \cup {T!Obj(f) : f \in Partial(keys, below)}
                \cup {T!List(f) : f \in Partial({"0"}, below)}
Tuples(below) == {[kind |-> "tuple", of |-> f] : f \in Partial({"0"}, below)}

OutputsBelow == Values({"a", "run_id"}, {T!Leaf("1")}) \cup Tuples({T!Leaf("1")})
Outputs == Values({"a", "run_id"}, OutputsBelow) \cup Tuples(OutputsBelow)
DrawOutput == \E result \in Outputs, fields \in OutputsBelow \cup {T!Leaf("null")} :
                Draw("output", <<result, fields>>)

InputsBelow == Values({"a", "policy"}, {T!Leaf("1")})
                 \cup {T!List("0" :> T!Obj("policy" :> T!Leaf("1")))}
Objects(keys, below) == {T!Obj(f) : f \in Partial(keys, below)}
DrawInput == \E template, version \in Objects({"a", "policy"}, {T!Leaf("1")}),
                request \in Objects({"a", "policy"}, InputsBelow) :
               Draw("input", <<template, version, request>>)

\* The customer's result holds no governance key at any depth, and everything
\* that is not under one.
NoGovernanceInCustomerOutput ==
  Drawn("output") =>
    LET result == sample.of[1]
        output == O!CustomerOutput(result, sample.of[2])
        clean(p) == \A i \in DOMAIN p : p[i] \notin {"run_id", "tenant_id"}
    IN  /\ \A part \in DOMAIN output : \A p \in Everywhere(output[part]) : clean(p)
        /\ Everywhere(output["result"]) = {p \in Everywhere(result) : clean(p)}
        /\ "fields" \in DOMAIN output <=>
             sample.of[2].kind = "dict" /\ \E p \in Everywhere(sample.of[2]) : p # <<>> /\ clean(p)

\* A request that holds a governance key anywhere is refused after the merge
\* with the templates, and a merge of three clean inputs is not.
GovernanceIsFound ==
  Drawn("input") =>
    LET holds(v) == \E p \in Everywhere(v) : p # <<>> /\ Last(p) \in {"policy", "routing"}
        merged == I!CustomerInput(sample.of[1], sample.of[2], sample.of[3])
        accepted == I!AcceptsCustomerInput(merged, I!NoSchema, I!NoSchema)
    IN  /\ holds(sample.of[3]) => ~accepted
        /\ (\A i \in 1..3 : ~holds(sample.of[i])) => accepted
        /\ I!FitsWorkflowSchema(merged, I!NoSchema) <=> ~holds(merged)
        /\ \A schema \in {[required |-> {"a"}, properties |-> {}],
                          [required |-> {}, properties |-> {"b"}]} :
             I!AcceptsCustomerInput(merged, I!NoSchema, schema) =>
               accepted /\ schema.required \subseteq T!Keys(merged)


-----------------------------------------------------------------------------
(* Binding a payload to a text with placeholders.                           *)
Tokens == {"SANITIZED_INPUT", "PROMPT", "SERIALIZED_DECISION", "RUN_KEY", "w"}
PayloadTexts == UpTo(2, {"w", "SANITIZED_INPUT", "RUN_KEY"}) \cup {<<"PROMPT">>}
DrawBinding == \E text \in UpTo(2, Tokens), prompt, key \in PayloadTexts,
                  type \in {"ai", "saga", "sanitizer"} :
                 Draw("binding", [text |-> text, type |-> type,
                                  payload |-> [prompt |-> prompt, key |-> key]])

\* The order of the replacements, as the code lists them.
BindingOrder == <<"SANITIZED_INPUT", "PROMPT", "SERIALIZED_DECISION", "RUN_KEY">>
\* A value is safe when no placeholder that is replaced after it is in it.
ValueIsSafe(i, payload) ==
  \A j \in DOMAIN BindingOrder :
    j > i => BindingOrder[j] \notin ToSet(I!ValueFor(BindingOrder[i], payload))

\* As long as the payload holds no placeholder that is still to be replaced,
\* the replacements one after the other put the payload's own words into the
\* text and nothing else; a saga is only given its run key.
BindingIsSimultaneous ==
  Drawn("binding") /\ (\A i \in DOMAIN BindingOrder : ValueIsSafe(i, sample.of.payload)) =>
    LET bound == CASE sample.of.type = "ai" -> ToSet(BindingOrder)
                   [] sample.of.type = "saga" -> {"RUN_KEY"}
                   [] sample.of.type = "sanitizer" -> {}
        text == sample.of.text
    IN  I!BindToPayload(sample.of.type, text, sample.of.payload) =
          FlattenSeq([i \in DOMAIN text |->
            IF text[i] \in bound THEN I!ValueFor(text[i], sample.of.payload) ELSE <<text[i]>>])

\* Customers neither set the keys that govern a run nor see those of one, and
\* what they send goes where the pipeline has a placeholder and nowhere else.
BoundariesHold == NoGovernanceInCustomerOutput /\ GovernanceIsFound /\ BindingIsSimultaneous

-----------------------------------------------------------------------------
(* Sanitizer: three detections in a text of three places, a policy as a     *)
(* version stores it, and the keys of an input.                             *)
Hits == [type : 1..3, start : 0..2, end : 1..3, layer : {"pattern", "semantic"}]
TrueHits == {h \in Hits : h.start < h.end /\ (h.layer = "semantic" <=> h.type = 3)}
PatternHits == {h \in TrueHits : h.layer = "pattern"}
HitSets == {{}} \cup {{a, b} : a, b \in TrueHits} \cup {{a, b, c} : a, b, c \in PatternHits}
RawPolicies ==
  [rules : {{}, {{1}}, {{1, 3}}}, types : {{}, {{}}, {{1}}, {{2, 3}}, {{4}}},
   default : {{}, {"mask"}, {"label"}, {"hide"}}, sensitivity : {{}, {"strict"}, {"balanced"}},
   preset : {{}, {"banking"}, {"healthcare"}}, modes : Partial({1, 3}, {"mask", "label"})]
RedactionPolicies ==
  [rules : {{}}, types : {{{1, 2}}, {{1, 2, 3}}}, default : {{"mask"}, {"rewrite"}},
   sensitivity : {{"strict"}}, preset : {{}}, modes : {NoModes, 2 :> "label"}]
FieldLists(word) == [required : SUBSET {<<"prompt">>, <<"x">>}, forbidden : SUBSET {word, "x"}]

DrawSanitizing(hits, policy, guards) ==
  Draw("sanitizing", [text |-> [length |-> 3, hits |-> hits],
                      version |-> [sanitizer |-> policy, threshold |-> 70, governance |-> {}],
                      guards |-> guards])
APolicy == CHOOSE policy \in RedactionPolicies : TRUE
NoList == [required |-> {}, forbidden |-> {}]
NoGuards == [keys |-> {}, policy |-> NoList, step |-> NoList, more |-> NoList]
SomeHits == {[type |-> 1, start |-> 1, end |-> 2, layer |-> "pattern"],
             [type |-> 3, start |-> 1, end |-> 3, layer |-> "semantic"]}

DrawRedaction == \E hits \in HitSets, policy \in RedactionPolicies :
                   DrawSanitizing(hits, policy, NoGuards)
DrawPolicy == \E policy \in RawPolicies : DrawSanitizing(SomeHits, policy, NoGuards)
DrawGuards == \E keys \in SUBSET {<<"prompt">>, <<"old", "password">>, <<"secret">>, <<"x">>},
                 policy \in FieldLists("secret"), step, more \in FieldLists("password") :
                DrawSanitizing({}, APolicy,
                               [keys |-> keys, policy |-> policy, step |-> step, more |-> more])

-----------------------------------------------------------------------------
(* Figures: the runs of two tenants, rows of routing decisions and the      *)
(* latest runs of a workflow.                                               *)
Breakdown(schema, total, steps, stepsTotal) ==
  [schema |-> schema, total |-> total, steps |-> steps, stepsTotal |-> stepsTotal]
Breakdowns == {{}, {Breakdown(1, {5}, {9}, {4})}, {Breakdown(1, {}, {3}, {})},
               {Breakdown(1, {Unreadable}, {2}, {7})}, {Breakdown(0, {}, {6}, {})}}
RunRows == [tenant : {"t", "u"}, created : 1..3, pipeline : {"p", "q"},
            cost : {{}, {2}, {Unreadable}}, breakdown : Breakdowns]
DrawReport == \E first \in RunRows, second \in RunRows, cut \in 0..3 :
                /\ second.cost = {2} /\ second.created > 1
                /\ Draw("report", [rows |-> <<first, second, [first EXCEPT !.pipeline = "q"]>>,
                                   tenant |-> "t", cut |-> cut])

Decisions == {[route |-> "approve", confidence |-> {2}], [route |-> "reject", confidence |-> {10}],
              [route |-> "manual_review", confidence |-> {}],
              [route |-> "escalate", confidence |-> {-1}]}
LateDecisions == {d \in Decisions : d.route \in {"approve", "manual_review"}}
Orders == {<<6, 5, 4, 3, 2, 1>>, <<2, 3, 4, 5, 6, 1>>, <<1, 5, 3, 6, 2, 4>>}
Windows == {<<{}, {}>>, <<{1}, {5}>>, <<{2}, {3}>>, <<{2}, {0}>>}
DrawDecisions == \E early \in [1..3 -> Decisions], late \in [1..3 -> LateDecisions],
                    moved \in Orders, windows \in Windows :
                   Draw("decisions", [rows |-> [i \in 1..6 |-> (early \o late)[i] @@ [ts |-> i]],
                                      moved |-> moved, baseline |-> windows[1], current |-> windows[2]])

ScoredRuns == [status : {"success", "failed", "partial"},
               confidences : {<<>>, <<5>>, <<0, 10>>}, driftHits : {0, 3, 30}]
Scored == [entityTypes : {0, 5, 13}, threshold : {{}, {Unreadable}, {120}, {-5}}, flags : {{}, {0}, {4}}]
DrawScore == \E runs \in UpTo(2, ScoredRuns), policies \in Scored :
               Draw("score", [runs |-> runs, policies |-> policies])

GivenPrices == {{}, {Unreadable}, {1}, {50}}
Usages == [type : {"ai", "effect"}, model : {"", "gpt-4.1-mini"},
           promptTokens : {0, 2}, completionTokens : {0, 3}]
DrawPrice == \E steps \in UpTo(2, Usages), prompt, completion \in GivenPrices :
               Draw("price", [steps |-> steps, inputLength |-> 5, outputLength |-> 7,
                              override |-> [prompt |-> prompt, completion |-> completion]])

-----------------------------------------------------------------------------
(* Prompt matrix: two outputs, and a matrix with the server's replies.      *)
Small == Leaves \cup Objects({"a", "b"}, Leaves)
Under(k, values) == {T!Obj(k :> v) : v \in values}
Dotted == {T!Obj(f) : f \in {x @@ y @@ z : x \in Partial({"a"}, {T!Leaf("1")} \cup Under("b", Leaves)),
                                         y \in Partial({"a.b"}, Leaves),
                                         z \in Partial({""}, {T!Leaf("1")} \cup Under("a", Leaves))}}
KeyOrders == {<<"", "a", "a.b", "b">>, <<"a.b", "b", "a", "">>}
DrawDiff == \/ \E a, b \in Objects({"a", "b"}, Small) :
                 Draw("diff", [a |-> a, b |-> b, orderOfA |-> <<"a", "b">>, orderOfB |-> <<"b", "a">>])
            \/ \E a, b \in Dotted, orderOfA, orderOfB \in KeyOrders :
                 Draw("diff", [a |-> a, b |-> b, orderOfA |-> orderOfA, orderOfB |-> orderOfB])

Reply(http, status, output) ==
  [http |-> http, status |-> status, output |-> output, keys |-> <<"a", "usage", "tokens">>]
Replies == {Reply("ok", "success", T!Obj("a" :> T!Leaf("1"))),
            Reply("ok", "success", T!Obj("usage" :> T!Obj("tokens" :> T!Leaf("7")))),
            Reply("ok", "failed", T!Leaf("null")), Reply("error", "", T!Leaf("null"))}
Matrices == {[variants |-> <<1, 2, 3>>, cases |-> <<"c">>, repetitions |-> 2],
             [variants |-> <<2, 1>>, cases |-> <<"c", "d">>, repetitions |-> 1]}
DrawMatrix == \E matrix \in Matrices : \E replies \in [1..6 -> Replies] :
                Draw("matrix", [matrix |-> matrix, replies |-> replies])

Cell(m, v, c, i) == ((v - 1) * Len(m.cases) + (c - 1)) * m.repetitions + i
MatrixRows ==
  LET m == sample.of.matrix
  IN  M!RunAll(m, [v \in DOMAIN m.variants, c \in DOMAIN m.cases, i \in 1..m.repetitions |->
                     sample.of.replies[Cell(m, v, c, i)]])

\* The name a diff gives to a path of keys: dots between them, none after an
\* empty beginning.
Spelled(p) == FoldLeft(LAMBDA name, k : IF name = "" THEN k ELSE name \o "." \o k, "", p)
LeafPaths(v) == {p \in Everywhere(v) : ~T!IsObj(T!At(v, p))}
ValuesNamed(v, name) == {T!At(v, p) : p \in {q \in LeafPaths(v) : Spelled(q) = name}}
NamesIn(v) == {Spelled(p) : p \in LeafPaths(v)}
NamesTellPaths(a, b) ==
  \A p, q \in LeafPaths(a) \cup LeafPaths(b) : Spelled(p) = Spelled(q) => p = q

\* A diff lists the names that values have in one of two outputs only.  A name
\* they share is listed when no value is the same under it, and is not when the
\* only one is; keys with dots in them can give several values one name, and
\* then the order of the keys decides.  The diff the other way round lists the
\* same.  Where no two paths have one name, the severity is none only if the
\* outputs have the same values in the same places.  [matrix/diffing.py]
DiffsMatchLeaves ==
  Drawn("diff") =>
    LET a == sample.of.a
        b == sample.of.b
        diff == M!DiffSnapshots(a, b, sample.of.orderOfA, sample.of.orderOfB)
        back == M!DiffSnapshots(b, a, sample.of.orderOfB, sample.of.orderOfA)
    IN  /\ diff.added = NamesIn(b) \ NamesIn(a) /\ diff.removed = NamesIn(a) \ NamesIn(b)
        /\ diff.changed \subseteq NamesIn(a) \cap NamesIn(b)
        /\ \A name \in NamesIn(a) \cap NamesIn(b) :
             LET x == ValuesNamed(a, name)
                 y == ValuesNamed(b, name)
             IN  /\ x \cap y = {} => name \in diff.changed
                 /\ x = y /\ Cardinality(x) = 1 => name \notin diff.changed
        /\ back = [diff EXCEPT !.added = diff.removed, !.removed = diff.added]
        /\ NamesTellPaths(a, b) /\ diff.severity = "none" =>
             /\ LeafPaths(a) = LeafPaths(b)
             /\ \A p \in LeafPaths(a) : T!At(a, p) = T!At(b, p)

\* Every case is run with every variant, as often as asked, and the diffs of a
\* case compare every two variants once.
EveryPairIsCompared ==
  Drawn("matrix") =>
    LET m == sample.of.matrix
        rows == MatrixRows
        n == Len(m.variants)
        pairs(c) == M!PairwiseDiffs(m, rows, c)
    IN  /\ \A v \in ToSet(m.variants), c \in ToSet(m.cases), i \in 0..(m.repetitions - 1) :
             Cardinality({k \in DOMAIN rows : /\ rows[k].variant = v /\ rows[k].case = c
                                              /\ rows[k].index = i}) = 1
        /\ \A c \in ToSet(m.cases) :
             /\ 2 * Len(pairs(c)) = n * (n - 1)
             /\ {{pairs(c)[k].a, pairs(c)[k].b} : k \in DOMAIN pairs(c)} =
                  {{v, w} : <<v, w>> \in {<<v, w>> \in (1..n) \X (1..n) : v < w}}

\* The table by variant and the table by case count the same rows, an error is
\* whatever is no success, and no variant fails less than the recommended one.
TablesAddUp ==
  Drawn("matrix") =>
    LET rows == MatrixRows
        byVariant == M!MetricsBy(rows, [r \in Range(rows) |-> r.variant])
        byCase == M!MetricsBy(rows, [r \in Range(rows) |-> r.case])
        sum(table, column) == FoldFunction(+, 0, [k \in DOMAIN table |-> table[k][column]])
        failed == Cardinality({i \in DOMAIN rows : rows[i].error # ""})
        best == M!BestVariant(rows)
        score == M!StabilityScore(rows)
        addsUp(table) == sum(table, "n") = Len(rows) /\ sum(table, "errors") = failed
    IN  /\ addsUp(byVariant) /\ addsUp(byCase)
        /\ sum(byVariant, "withTokens") = sum(byCase, "withTokens")
        /\ \A v \in DOMAIN byVariant : byVariant[best].errors * byVariant[v].n
                                         <= byVariant[v].errors * byVariant[best].n
        /\ score.same <= score.of
        /\ score.of = IF sample.of.matrix.repetitions = 1 THEN 0
                      ELSE Len(sample.of.matrix.variants) * Len(sample.of.matrix.cases)

\* Prompt matrix: the rows, diffs and tables of one comparison fit together.
MatrixHolds == DiffsMatchLeaves /\ EveryPairIsCompared /\ TablesAddUp

-----------------------------------------------------------------------------
(* Layers: the settings of the Ghost client, the body of its runs, and the  *)
(* rules of a task.                                                         *)
Layer(retries, timeout, interval, switch) ==
  [apiBaseUrl |-> "unset", apiKey |-> "unset", outgoingRoot |-> "unset", profile |-> "unset",
   stateEnabled |-> switch, maxRetries |-> retries, hookTimeout |-> timeout, interval |-> interval]
Numbers == {{}, {50}, {51}} \X {{}, {0}, {1200}, {G!NaN}} \X {{}, {172801}, {G!NaN}}
Environments == {[Layer(n[1], n[2], n[3], "unset") EXCEPT !.profile = p] :
                   n \in Numbers, p \in {"unset", "blank", "ci"}}
ProfileLayers == {Layer(n[1], n[2], n[3], {}) : n \in Numbers}
Files == {{}} \cup {{[active |-> active, profiles |-> [default |-> p, ci |-> q]]} :
                      active \in {"", "ci"}, p \in ProfileLayers,
                      q \in {Layer({7}, {}, {}, {TRUE}), Layer({51}, {}, {}, {})}}
DrawSettings == \E argument \in {"", "ci", "zz"}, env \in Environments, root \in Files :
                  Draw("settings", [argument |-> argument, env |-> env, root |-> root])

\* The objects a layer may be; its values carry the name of the layer.
LayerObjects(name) ==
  {T!Obj(f) : f \in Partial({"input"}, {T!Leaf(name), T!Obj("text" :> T!Leaf(name)),
                                       T!Obj(("text" :> T!Leaf(name)) @@ ("more" :> T!Leaf(name)))})}
    \cup {T!Obj("other" :> T!Leaf(name))}
Options(set) == {{}} \cup {{v} : v \in set}
BaseObjects == LayerObjects("base") \cup {T!Obj("input" :> T!Obj("text" :> T!Leaf("null")))}
DrawBody == \E base \in BaseObjects, merge \in Options(LayerObjects("merge")),
               patch \in Options(LayerObjects("patch")), skills \in {{}, {T!Leaf("skills")}} :
              \/ \E file \in Options(LayerObjects("file")) :
                   Draw("body", [base |-> base, mode |-> "json", file |-> file,
                                 skills |-> skills, merge |-> merge, patch |-> patch])
              \/ Draw("body", [base |-> base, mode |-> "text", file |-> {T!Leaf("file")},
                               skills |-> skills, merge |-> merge, patch |-> patch])

TaskNames == {<<"a", "z">>, <<"z", "a">>, <<"b">>}
DrawRules == \E rules \in LayerObjects("rules"), module \in LayerObjects("module"),
                first \in LayerObjects("starred"), second \in LayerObjects("plain"),
                forbidden \in LayerObjects("forbidden"), name \in TaskNames, inModule \in BOOLEAN :
               Draw("rules", [rules |-> rules, module |-> module, starred |-> first,
                              plain |-> second, forbidden |-> forbidden, name |-> name,
                              inModule |-> inModule])

\* What loads is within the limits whichever layer it is from, or is a nan that
\* the environment gives or, where it is silent, the chosen profile; and the
\* profiles that are not chosen do not count.
LoadedSettingsAreLegal ==
  Drawn("settings") /\ G!Loads(sample.of.argument, sample.of.env, sample.of.root) =>
    LET cfg == G!LoadedConfig(sample.of.argument, sample.of.env, sample.of.root)
        chosen == G!ProfileName(sample.of.argument, sample.of.env, sample.of.root)
        inProfile(field) == UNION {root.profiles[chosen][field] : root \in sample.of.root}
        isGivenNaN(field) ==
          {cfg[field], G!NaN} = IF sample.of.env[field] # {} THEN sample.of.env[field] ELSE inProfile(field)
    IN  /\ cfg.maxRetries \in 0..50
        /\ cfg.interval \in 0..172800 \/ isGivenNaN("interval")
        /\ cfg.hookTimeout \in 1..1200 \/ isGivenNaN("hookTimeout")
        /\ \A root \in sample.of.root : \A other \in DOMAIN root.profiles \ {chosen} :
             cfg = G!LoadedConfig(sample.of.argument, sample.of.env,
                                  {[root EXCEPT !.profiles[other] = Layer({9}, {9}, {9}, {TRUE})]})

\* A layer covers a path when it has a value there, or something that is no
\* object on the way to it.
Speaks(layer, p) == \E q \in Everywhere(layer) :
                      IsPrefixOf(q, p) /\ (q = p \/ ~T!IsObj(T!At(layer, q)))
IsLayered(value, layers) ==
  LET uncovered(i) == {p \in LeafPaths(layers[i]) :
                         \A j \in DOMAIN layers : j > i => ~Speaks(layers[j], p)}
  IN  {<<p, T!At(value, p)>> : p \in LeafPaths(value)} =
        UNION {{<<p, T!At(layers[i], p)>> : p \in uncovered(i)} : i \in DOMAIN layers}

\* Every value of a run's body is that of the highest layer that speaks there:
\* command line, merge file, skills, input file, defaults.
BodyTakesTheHighestLayer ==
  Drawn("body") =>
    LET b == sample.of
        recipe == [defaults |-> b.base, mode |-> b.mode, textField |-> "text", skills |-> b.skills]
        overlay == IF b.mode = "json" THEN b.file
                   ELSE {T!Obj("input" :> T!Obj("text" :> T!Leaf("file")))}
        skills == {T!Obj("skills" :> v) : v \in b.skills}
        given == <<{b.base}, overlay, skills, b.merge, b.patch>>
        layers == FlattenSeq([i \in DOMAIN given |-> SetToSeq(given[i])])
    IN  G!BodyIsBuilt(recipe, b.file) =>
          IsLayered(G!ExecuteBody(recipe, b.file, b.merge, b.patch), layers)

\* The effective rules of a task are those of the highest group that speaks:
\* forbidden, the patterns that match in their order, the task's module, the
\* rules; and within a group the project's before the global ones.
EffectiveRulesAreLayered ==
  Drawn("rules") =>
    LET r == sample.of
        groups == {"rules", "modules", "naming", "allowed_operations", "style", "structure",
                   "forbidden"}
        specs(global, project) ==
          [global |-> [g \in groups |-> IF g = "rules" THEN global ELSE T!EmptyObj],
           project |-> [g \in groups |->
                          CASE g = "rules" -> project
                            [] g = "modules" -> T!Obj("m" :> r.module)
                            [] g = "forbidden" -> r.forbidden
                            [] OTHER -> T!EmptyObj],
           patterns |-> <<[text |-> <<"a">>, starred |-> TRUE, rules |-> r.starred],
                          [text |-> <<"z">>, starred |-> FALSE, rules |-> r.plain]>>]
        task == [module |-> IF r.inModule THEN {"m"} ELSE {"n"}, name |-> r.name, path |-> <<>>]
        ofModule == IF r.inModule THEN <<r.module>> ELSE <<>>
        starred  == IF r.name[1] = "a" THEN <<r.starred>> ELSE <<>>
        plain    == IF "z" \in ToSet(r.name) THEN <<r.plain>> ELSE <<>>
        matched  == R!MatchPatterns(specs(r.rules, T!EmptyObj).patterns, r.name, <<>>)
    IN  /\ IsLayered(matched, starred \o plain)
        /\ IsLayered(R!EffectiveRules(specs(r.rules, T!EmptyObj), task),
                     <<r.rules>> \o ofModule \o <<matched, r.forbidden>>)
        /\ ~r.inModule =>
             IsLayered(R!EffectiveRules(specs(r.plain, r.rules), [task EXCEPT !.name = <<"b">>]),
                       <<r.plain, r.rules, r.forbidden>>)

\* Of several layers of settings, body or rules the one that should win does.
LayersKeepTheirOrder ==
  LoadedSettingsAreLegal /\ BodyTakesTheHighestLayer /\ EffectiveRulesAreLayered

-----------------------------------------------------------------------------
(* The earlier orchestrator: the files shown to the model and the patch.    *)
ContextFiles(path) ==
  [path : {path}, module : {"m", "n"}, flask : BOOLEAN, lines : {0, 2, 3}, snippet : {1, 2},
   imported : {FALSE}, pattern : {FALSE}, used : {path = 2}, imports : {0}]
Node(kind, name, body) == [kind |-> kind, name |-> name, body |-> body]
Body(name) == <<Node("statement", name, <<>>)>>
Def(name, body) == Node("def", name, Body(body))
Methods == {<<>>, <<Def("f", "old")>>, <<Def("g", "old"), Def("f", "old")>>}
Nodes == {Def("f", "old"), Def("g", "old"), Node("statement", "f", <<>>)}
           \cup {Node("class", "K", body) : body \in Methods}
DrawAnswer(files, source) ==
  Draw("answer", [task |-> "m", files |-> files, limits |-> [files |-> 2, lines |-> 4],
                  answer |-> [source |-> source, class |-> "K", def |-> Def("f", "new")]])
DrawContext == \E a \in ContextFiles(1), b \in ContextFiles(2), c \in ContextFiles(3) :
                 DrawAnswer(<<a, b, c>>, [parses |-> TRUE, nodes |-> <<>>])
DrawPatch == \E nodes \in UpTo(3, Nodes), parses \in BOOLEAN :
               DrawAnswer(<<>>, [parses |-> parses, nodes |-> nodes])

-----------------------------------------------------------------------------
(* Access: one key, and a request for a reviewer's listing.                 *)
Said(word) == Text(word, FALSE)
Padded(word) == Text(word, TRUE)
StoredScopes == {{}, {<<>>}, {<<{Said("reviewer")}>>}, {<<{Padded("")}, {}>>},
                 {<<{Padded("tenant_admin")}, {}>>}, {<<{Said("reviewer")}, {Said("tenant_user")}>>},
                 {<<{Padded("reviewer")}, {Said("tenant_admin")}>>}}
DrawListing == \E active \in BOOLEAN, expires \in {{}, {1}, {2}, {3}}, scopes \in StoredScopes,
                  bound \in {{}, {Said("")}, {Said("a")}, {Padded("a")}, {Padded("")}},
                  key \in {"h", "other"}, query, header \in {Said(""), Said("a"), Padded("a"), Said("b")} :
                 Draw("listing",
                      [rows |-> {[hash |-> "h", active |-> active, expires |-> expires,
                                 scopes |-> scopes, bound |-> bound]},
                       now |-> 2,
                       request |-> [key |-> key, query |-> query, header |-> header]])

Next == /\ NothingDrawn
        /\ \/ DrawRough \/ DrawClean \/ DrawRaw \/ DrawOutput \/ DrawInput \/ DrawBinding
           \/ DrawRedaction \/ DrawPolicy \/ DrawGuards
           \/ DrawReport \/ DrawDecisions \/ DrawScore \/ DrawPrice \/ DrawDiff \/ DrawMatrix
           \/ DrawSettings \/ DrawBody \/ DrawRules \/ DrawContext \/ DrawPatch \/ DrawListing
=============================================================================
