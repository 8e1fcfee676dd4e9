------------------------------ MODULE Figures ------------------------------
(***************************************************************************)
(* The figures shown to tenants: the price of a run (engine/cost.py), the   *)
(* cost report (metrics/costs.py), routing analytics (analytics/routing.py) *)
(* and the safety score of a workflow (workflow/safety_score.py).           *)
(*                                                                          *)
(* Fractions are whole numbers of a smaller unit, named where they occur.   *)
(* An option is a set of at most one value; Unreadable is a value that      *)
(* float() and int() refuse.  Rows of a query or of a file are sequences.   *)
(***************************************************************************)
EXTENDS Integers, Sequences, FiniteSets, Sums, Sorting, Samples

Unreadable == -1000
Absent == {}
IsRead(option) == option \notin {Absent, {Unreadable}}
The(option) == CHOOSE x \in option : TRUE
OrZero(option) == IF IsRead(option) THEN The(option) ELSE 0

(* The price of a run, in thousandths of a euro per thousand tokens.        *)
DefaultModel == "gpt-4.1"
DefaultPrices == [m \in {"gpt-4.1", "gpt-4.1-mini"} |->
                    IF m = "gpt-4.1" THEN [prompt |-> 10, completion |-> 30]
                    ELSE [prompt |-> 2, completion |-> 6]]

\* An override is read prompt first; a bad value ends the reading, and what
\* has been read by then stays.
Prices(model, override) ==
  LET base == DefaultPrices[IF model \in DOMAIN DefaultPrices THEN model ELSE DefaultModel]
      prompt == IF IsRead(override.prompt) THEN The(override.prompt) ELSE base.prompt
  IN  IF override.prompt = {Unreadable} \/ ~IsRead(override.completion)
      THEN [base EXCEPT !.prompt = prompt]
      ELSE [prompt |-> prompt, completion |-> The(override.completion)]

\* Costs in millionths of a euro.
Cost(usage, override) ==
  LET prices == Prices(usage.model, override)
      prompt == usage.prompt * prices.prompt
      completion == usage.completion * prices.completion
  IN  [prompt |-> prompt, completion |-> completion, total |-> prompt + completion]

\* The model of the first AI step in the order of the names.
ModelOf(steps) ==
  LET named == {i \in DOMAIN steps : steps[i].type = "ai" /\ steps[i].model # ""}
  IN  IF named = {} THEN DefaultModel
      ELSE steps[CHOOSE i \in named : \A j \in named : i <= j].model

\* The usage the steps report, or the lengths of input and output when no
\* step reports any.
TokenUsage(steps, inputLength, outputLength) ==
  LET prompt     == Total([i \in DOMAIN steps |-> steps[i].promptTokens])
      completion == Total([i \in DOMAIN steps |-> steps[i].completionTokens])
      reported   == prompt # 0 \/ completion # 0
  IN  [model |-> ModelOf(steps),
       prompt |-> IF reported THEN prompt ELSE inputLength,
       completion |-> IF reported THEN completion ELSE outputLength]

(* The cost report.  A row has a tenant, a time, a pipeline, a cost and at  *)
(* most one breakdown, of schema 1 or of none.                              *)
ReportedRows(rows, tenant, since, until) ==
  {i \in DOMAIN rows : /\ rows[i].tenant = tenant
                       /\ since # Absent => rows[i].created >= The(since)
                       /\ until # Absent => rows[i].created <= The(until)}

StepCosts(b) ==
  IF b.schema = 1 /\ b.total # Absent THEN OrZero(b.total) ELSE OrZero(b.steps)

\* A bad total ends the reading before the second sum, a bad sum of steps
\* after the first.
TotalCost(b) ==
  IF b.schema # 1 THEN 0 ELSE IF b.total = Absent THEN StepCosts(b) ELSE OrZero(b.total)
StepCostsTotal(b) ==
  IF b.schema # 1 \/ b.total = {Unreadable} THEN 0
  ELSE IF b.stepsTotal = Absent THEN TotalCost(b) ELSE OrZero(b.stepsTotal)

CostsOf(row) ==
  LET b == The(row.breakdown)
      broken == row.breakdown # Absent
  IN  [cost |-> OrZero(row.cost),
       stepCosts |-> IF broken THEN StepCosts(b) ELSE 0,
       totalCost |-> IF broken THEN TotalCost(b) ELSE 0,
       stepCostsTotal |-> IF broken THEN StepCostsTotal(b) ELSE 0]

Amounts(rows, figure) == [i \in DOMAIN rows |-> CostsOf(rows[i])[figure]]

CostReport(rows, tenant, since, until) ==
  LET places == ReportedRows(rows, tenant, since, until)
      sum(figure, some) == SumOver(Amounts(rows, figure), some)
  IN  [runs |-> Cardinality(places),
       cost |-> sum("cost", places),
       byPipeline |-> [p \in {rows[i].pipeline : i \in places} |->
                         sum("cost", {i \in places : rows[i].pipeline = p})],
       stepCosts |-> sum("stepCosts", places),
       totalCost |-> sum("totalCost", places),
       stepCostsTotal |-> sum("stepCostsTotal", places)]

(* Routing analytics over audit rows: a time, a route, and a confidence in  *)
(* tenths.                                                                  *)
Routes == {"approve", "reject", "manual_review", "other"}
RouteDistribution(rows) ==
  [r \in Routes |->
     Cardinality({i \in DOMAIN rows :
       IF r = "other" THEN rows[i].route \notin Routes \ {"other"} ELSE rows[i].route = r})]

Bins == 5
\* The places that have a readable confidence, with what it is clamped to.
Confidences(rows) ==
  LET clamp(c) == IF c < 0 THEN 0 ELSE IF c > 10 THEN 10 ELSE c
  IN  [i \in {i \in DOMAIN rows : IsRead(rows[i].confidence)} |-> clamp(The(rows[i].confidence))]

\* The last bin takes the value 1.0 too.
BinOf(c) == LET b == (c * Bins) \div 10 IN IF b > Bins - 1 THEN Bins - 1 ELSE b
ConfidenceHistogram(rows) ==
  LET values == Confidences(rows)
  IN  [b \in 0..(Bins - 1) |-> Cardinality({i \in DOMAIN values : BinOf(values[i]) = b})]

\* Mutant: the rows stay in the order they were read in.
AsRead(rows) == rows

\* A stable sort by time: rows of the same time keep their order.
ByTime(rows) ==
  StablySorted(rows, {p \in (DOMAIN rows) \X (DOMAIN rows) : rows[p[1]].ts < rows[p[2]].ts})

\* The earlier part against the recent one, by halves or by given windows;
\* a rise of a rate above one quarter is a signal, and so are more than six
\* tenths of at least five recent samples in the two lowest bins.
RoutingDrift(rows, baselineWindow, currentWindow) ==
  LET ordered == ByTime(rows)
      n       == Len(ordered)
      fits    == /\ baselineWindow # Absent /\ currentWindow # Absent
                 /\ The(baselineWindow) + The(currentWindow) <= n
      base == IF fits THEN SubSeq(ordered, 1, The(baselineWindow))
              ELSE SubSeq(ordered, 1, n \div 2)
      cur  == IF ~fits THEN SubSeq(ordered, n \div 2 + 1, n)
              ELSE IF The(currentWindow) = 0 THEN ordered   \* Python's ordered[-0:]
              ELSE SubSeq(ordered, n - The(currentWindow) + 1, n)
      size(part) == IF part = <<>> THEN 1 ELSE Len(part)
      rises(label) ==
        4 * (RouteDistribution(cur)[label] * size(base) - RouteDistribution(base)[label] * size(cur))
          > size(base) * size(cur)
      samples == Cardinality(DOMAIN Confidences(cur))
      low     == ConfidenceHistogram(cur)[0] + ConfidenceHistogram(cur)[1]
  IN  IF n < 4 THEN {}
      ELSE {label \in {"manual_review", "reject"} : rises(label)}
           \cup IF samples >= 5 /\ 10 * low > 6 * samples THEN {"threshold_sensitivity"} ELSE {}

(* The safety score, in hundredths.  Runs are newest first; confidences are *)
(* in tenths, and the variance of n of them is (n * sum of squares - square *)
(* of the sum) / n^2.                                                       *)
Clamped(x) == IF x < 0 THEN 0 ELSE IF x > 100 THEN 100 ELSE x

ErrorComponent(runs) ==
  LET errors == Cardinality({i \in DOMAIN runs : runs[i].status # "success"})
  IN  Clamped(((Len(runs) - errors) * 100) \div Len(runs))

Stability(runs) ==
  LET confs == [i \in DOMAIN runs |-> runs[i].confidences]
      n == Total([i \in DOMAIN runs |-> Len(confs[i])])
      sum == Total([i \in DOMAIN runs |-> Total(confs[i])])
      squares == Total([i \in DOMAIN runs |-> Total([k \in DOMAIN confs[i] |-> confs[i][k] * confs[i][k]])])
  IN  IF n <= 1 THEN 70 ELSE Clamped(100 - (2 * (n * squares - sum * sum)) \div (n * n))

SafetyScore(runs, policies) ==
  IF runs = <<>> THEN 5000
  ELSE   20 * Clamped(8 * policies.entityTypes)
       + 20 * Clamped(IF IsRead(policies.threshold) THEN The(policies.threshold) ELSE 70)
       + 15 * Clamped(100 - 5 * runs[1].driftHits)
       + 15 * Stability(runs)
       + 20 * ErrorComponent(runs)
       + 10 * (IF policies.flags = Absent THEN 50 ELSE Clamped(40 + 20 * The(policies.flags)))

-----------------------------------------------------------------------------
(* What the figures promise.                                                *)

\* The reports of two adjacent windows add up to the report of both, every
\* report to its pipelines, and what other tenants spend does not count.
ListsOf(S) == {list \in [1..Cardinality(S) -> S] : \A i, j \in DOMAIN list : list[i] = list[j] => i = j}
ReportsAddUp(rows, tenant, cut) ==
  LET whole == CostReport(rows, tenant, Absent, Absent)
      early == CostReport(rows, tenant, Absent, {cut})
      late  == CostReport(rows, tenant, {cut + 1}, Absent)
      free  == [i \in DOMAIN rows |-> IF rows[i].tenant = tenant THEN rows[i]
                                      ELSE [rows[i] EXCEPT !.cost = Absent, !.breakdown = Absent]]
  IN  /\ \A figure \in {"runs", "cost", "stepCosts", "totalCost", "stepCostsTotal"} :
           whole[figure] = early[figure] + late[figure]
      /\ \A list \in ListsOf(DOMAIN whole.byPipeline) :
           whole.cost = Total([i \in DOMAIN list |-> whole.byPipeline[list[i]]])
      /\ whole = CostReport(free, tenant, Absent, Absent)

\* Every row is in one class of the distribution, and every readable confidence
\* in one bin of the histogram.
RowsAreCountedOnce(rows) ==
  LET routes == RouteDistribution(rows)
      bins == ConfidenceHistogram(rows)
  IN  /\ routes["approve"] + routes["reject"] + routes["manual_review"] + routes["other"] = Len(rows)
      /\ Total([b \in 1..Bins |-> bins[b - 1]])
           = Cardinality({i \in DOMAIN rows : IsRead(rows[i].confidence)})

\* The drift signals depend on when the decisions were made, not on the order in
\* which the rows are read.
DriftFollowsTime(rows, moved, baselineWindow, currentWindow) ==
  /\ \A i, j \in DOMAIN rows : rows[i].ts = rows[j].ts => i = j
  /\ moved \in [DOMAIN rows -> DOMAIN rows] /\ \A i, j \in DOMAIN rows : moved[i] = moved[j] => i = j
  => RoutingDrift([i \in DOMAIN rows |-> rows[moved[i]]], baselineWindow, currentWindow)
       = RoutingDrift(rows, baselineWindow, currentWindow)

\* The score stays between 0 and 100, and neither one more failure nor one more
\* hit of drift ever raises it.
ScoreFallsWithFailures(runs, policies) ==
  /\ SafetyScore(runs, policies) \in 0..10000
  /\ \A i \in DOMAIN runs :
       /\ SafetyScore([runs EXCEPT ![i].status = "failed"], policies) <= SafetyScore(runs, policies)
       /\ SafetyScore([runs EXCEPT ![i].driftHits = @ + 1], policies) <= SafetyScore(runs, policies)

\* A run is priced for the tokens its steps report or, when none reports any, for
\* its texts; the model is the first one an AI step names; and each kind of token
\* costs what the model itself asks or what is given, even if a price given is
\* unreadable.
RunsArePriced(steps, inputLength, outputLength, override) ==
  LET usage == TokenUsage(steps, inputLength, outputLength)
      own == Prices(usage.model, [prompt |-> Absent, completion |-> Absent])
      silent == \A i \in DOMAIN steps : steps[i].promptTokens = 0 /\ steps[i].completionTokens = 0
      prompt == IF silent THEN inputLength ELSE Total([i \in DOMAIN steps |-> steps[i].promptTokens])
      completion == IF silent THEN outputLength ELSE Total([i \in DOMAIN steps |-> steps[i].completionTokens])
      names(i) == steps[i].type = "ai" /\ steps[i].model # ""
  IN  /\ \E p \in {own.prompt} \cup (override.prompt \ {Unreadable}),
            c \in {own.completion} \cup (override.completion \ {Unreadable}) :
           Cost(usage, override).total = prompt * p + completion * c
      /\ IF \E i \in DOMAIN steps : names(i)
         THEN \E i \in DOMAIN steps : /\ names(i) /\ usage.model = steps[i].model
                                      /\ \A j \in 1..(i - 1) : ~names(j)
         ELSE usage.model = DefaultModel

\* What tenants are shown is what the rows say: reports, distributions and drift,
\* scores, prices.
FiguresHold ==
  /\ Drawn("report") => ReportsAddUp(sample.of.rows, sample.of.tenant, sample.of.cut)
  /\ Drawn("decisions") =>
       /\ RowsAreCountedOnce(sample.of.rows)
       /\ DriftFollowsTime(sample.of.rows, sample.of.moved, sample.of.baseline, sample.of.current)
  /\ Drawn("score") => ScoreFallsWithFailures(sample.of.runs, sample.of.policies)
  /\ Drawn("price") =>
       RunsArePriced(sample.of.steps, sample.of.inputLength, sample.of.outputLength, sample.of.override)
=============================================================================
