------------------------------- MODULE Matrix -------------------------------
(***************************************************************************)
(* The prompt matrix (matrix/): a run of every case against every variant,  *)
(* and what is computed from its rows: groups, pairwise diffs, stability    *)
(* and the recommended variant.                                             *)
(*                                                                          *)
(* A configuration is a sequence of variant names, a sequence of case ids   *)
(* and a number of repetitions.  The server's reply to one run is its HTTP  *)
(* class, its status and its output, a tree, with the order of its keys.    *)
(***************************************************************************)
EXTENDS Trees, SequencesExt

NoOutput == Leaf("null")

\* One row: only the case's input is sent, the variant names the row.
ErrorTypeFor(reply) ==
  CASE reply.http = "exception" -> "exception"
    [] reply.http = "error"     -> "http_error"
    [] reply.http = "ok" /\ reply.status # "success" -> reply.status
    [] OTHER -> ""

\* The usage of the output itself, else of the first object below that has
\* one.
RECURSIVE UsagesBelow(_)
UsagesBelow(v) ==
  (IF Has(v, "usage") /\ Has(v.of["usage"], "tokens") THEN {v.of["usage"].of["tokens"].kind} ELSE {})
  \cup (IF v.kind \in {"dict", "list"} THEN UNION {UsagesBelow(v.of[k]) : k \in Keys(v)} ELSE {})
TokensOf(output) ==
  IF Has(output, "usage") /\ Has(output.of["usage"], "tokens")
  THEN {output.of["usage"].of["tokens"].kind}
  ELSE UsagesBelow(output)

Row(variant, case, index, reply) ==
  LET answered == reply.http = "ok"
      output == IF answered /\ IsObj(reply.output) THEN reply.output ELSE NoOutput
  IN  [variant |-> variant, case |-> case, index |-> index,
       status |-> IF answered THEN reply.status ELSE "error",
       error |-> ErrorTypeFor(reply),
       tokens |-> TokensOf(output),
       output |-> output, keys |-> reply.keys]

\* Variants outside, then cases, then repetitions; replies by their positions.
RunAll(config, replies) ==
  FlattenSeq([v \in DOMAIN config.variants |->
    FlattenSeq([c \in DOMAIN config.cases |->
      [i \in 1..config.repetitions |->
        Row(config.variants[v], config.cases[c], i - 1, replies[v, c, i])]])])

(* Diffs.  Objects are flattened to names, lists and other values stay.  The *)
(* keys of an object stand in the order of a sequence.                      *)

\* The keys on the way to a value, joined with dots: of two values with one
\* name the later stays.
RECURSIVE FlattenDict(_, _, _)
FlattenDict(v, prefix, order) ==
  LET path(k) == IF prefix = "" THEN k ELSE prefix \o "." \o k
      entries(k) == IF IsObj(v.of[k]) THEN FlattenDict(v.of[k], path(k), order) ELSE path(k) :> v.of[k]
  IN  FoldLeft(LAMBDA out, k : entries(k) @@ out, NoItems, SelectSeq(order, LAMBDA k : k \in Keys(v)))

DiffSnapshots(a, b, orderOfA, orderOfB) ==
  LET fa == FlattenDict(a, "", orderOfA)
      fb == FlattenDict(b, "", orderOfB)
      added   == DOMAIN fb \ DOMAIN fa
      removed == DOMAIN fa \ DOMAIN fb
      changed == {k \in DOMAIN fa \cap DOMAIN fb : fa[k] # fb[k]}
  IN  [added |-> added, removed |-> removed, changed |-> changed,
       severity |-> IF changed # {} THEN "major"
                    ELSE IF added \cup removed # {} THEN "minor" ELSE "none"]

BodyForDiff(row) == IF IsObj(row.output) THEN row.output ELSE EmptyObj

\* Mutant: repetitions are taken to be counted from one.
FirstRowFromOne(rows, case, variant) ==
  SelectSeq(rows, LAMBDA r : r.case = case /\ r.variant = variant /\ r.index = 1)

\* The first row of a case, a variant and the first repetition.
FirstRow(rows, case, variant) ==
  SelectSeq(rows, LAMBDA r : r.case = case /\ r.variant = variant /\ r.index = 0)

\* For a case, each variant against every later one, when both have a row.
PairwiseDiffs(config, rows, case) ==
  LET pair(i, j) ==
        LET a == FirstRow(rows, case, config.variants[i])
            b == FirstRow(rows, case, config.variants[j])
        IN  IF a = <<>> \/ b = <<>> THEN <<>>
            ELSE <<[a |-> config.variants[i], b |-> config.variants[j],
                    diff |-> DiffSnapshots(BodyForDiff(Head(a)), BodyForDiff(Head(b)), Head(a).keys, Head(b).keys)]>>
  IN  FlattenSeq([i \in DOMAIN config.variants |->
        FlattenSeq([k \in 1..(Len(config.variants) - i) |-> pair(i, i + k)])])

(* Tables.  A table has a line for each key of a row, key being a function.   *)
Successes(rows) == Len(SelectSeq(rows, LAMBDA r : r.status = "success"))
GroupedBy(rows, key) ==
  [k \in Range(key) |-> SelectSeq(rows, LAMBDA r : key[r] = k)]
Aggregate(rows) ==
  [n |-> Len(rows), successes |-> Successes(rows), errors |-> Len(rows) - Successes(rows),
   withTokens |-> Len(SelectSeq(rows, LAMBDA r : r.tokens # {}))]
MetricsBy(rows, key) ==
  LET groups == GroupedBy(rows, key) IN [k \in DOMAIN groups |-> Aggregate(groups[k])]

\* The share of groups with repetitions whose outputs are all the same: how
\* many of how many.
StabilityScore(rows) ==
  LET groups == GroupedBy(rows, [r \in Range(rows) |-> <<r.variant, r.case>>])
      repeated == {k \in DOMAIN groups : Len(groups[k]) >= 2}
      outputs(k) == {groups[k][i].output : i \in DOMAIN groups[k]}
  IN  [of |-> Cardinality(repeated),
       same |-> Cardinality({k \in repeated : Cardinality(outputs(k)) = 1})]

\* The lowest error rate, then cost, then confidence, then name.  Rows carry
\* neither a cost nor a confidence, so the rate and the name decide.
BestVariant(rows) ==
  LET table == MetricsBy(rows, [r \in Range(rows) |-> r.variant])
      better(a, b) == table[a].errors * table[b].n < table[b].errors * table[a].n
      tied == {v \in DOMAIN table : ~\E w \in DOMAIN table : better(w, v)}
  IN  CHOOSE v \in tied : \A w \in tied : v <= w
=============================================================================
