------------------------------ MODULE Compiler ------------------------------
(***************************************************************************)
(* The pipeline compiler (compiler.py): parse, check, lower to a graph,     *)
(* clean the graph; and the order of a graph's steps from which the product *)
(* of a finished run is taken (customer_output.py).                         *)
(*                                                                          *)
(* A text is a word with or without blanks around it; words are numbers, so *)
(* that they have the order sorted() gives them, and 0 is the empty word.   *)
(* A function that may raise is two definitions: the condition under which  *)
(* it returns, and what it returns then.  A loop is a function of the       *)
(* number of its rounds.  Lists of names that are sorted or whose order has *)
(* no effect are sets.                                                      *)
(***************************************************************************)
EXTENDS Integers, Sequences, FiniteSets, Samples

NoText == [word |-> -1, padded |-> FALSE]            \* Python's None

\* str.strip: the word without the blanks.
Strip(t) == t.word
IsBlank(t) == Strip(t) = 0

(* Parsing.  A raw step holds the texts name, type and next, the keys of    *)
(* its config and the keys beside the reserved ones at its top level.       *)
StepIsWellFormed(item) ==
  /\ item.name # NoText /\ ~IsBlank(item.name)
  /\ item.type # NoText /\ ~IsBlank(item.type)
  /\ item.config \cap item.beside = {}

\* Name and type are stripped here, next is not.
ParsedStep(item) ==
  [name   |-> Strip(item.name),
   type   |-> Strip(item.type),
   next   |-> item.next,
   config |-> [k \in item.config \cup item.beside |->
                 IF k \in item.beside THEN "top level" ELSE "config"]]

Parses(raw) == /\ raw.name # NoText /\ ~IsBlank(raw.name)
               /\ \A i \in DOMAIN raw.steps : StepIsWellFormed(raw.steps[i])
Parsed(raw) == [name  |-> Strip(raw.name),
                steps |-> [i \in DOMAIN raw.steps |-> ParsedStep(raw.steps[i])]]

(* Structural validation: names are unique and every next is the exact name *)
(* of a step, and the chain of next has no cycle.                           *)
StepNames(steps) == {steps[i].name : i \in DOMAIN steps}
Linked(steps) == {i \in DOMAIN steps : steps[i].next # NoText}

\* Of several steps of a name the last one stays in a dict.
LastOfName(steps, places, n) ==
  steps[CHOOSE i \in places : /\ steps[i].name = n
                              /\ \A j \in places : steps[j].name = n => j <= i]
Successors(steps) ==
  [n \in {steps[i].name : i \in Linked(steps)} |-> Strip(LastOfName(steps, Linked(steps), n).next)]

\* Depth-first search, at most as deep as there are names: whether a gray name
\* is met from n, and the colours it leaves.  A name whose successor is no
\* step stays gray.
Colours(names) == [names -> {"white", "gray", "black"}]
Dfs(succ, names) ==
  LET dfs[depth \in 0 .. Cardinality(names)] ==
        [colour \in Colours(names) |-> [n \in names |->
          LET gray == [colour EXCEPT ![n] = "gray"]
              black == [colour EXCEPT ![n] = "black"]
          IN  IF n \notin DOMAIN succ THEN [found |-> FALSE, colour |-> black]
              ELSE IF succ[n] \notin names THEN [found |-> FALSE, colour |-> gray]
              ELSE IF gray[succ[n]] = "gray" THEN [found |-> TRUE, colour |-> gray]
              ELSE IF gray[succ[n]] = "black" \/ depth = 0 THEN [found |-> FALSE, colour |-> black]
              ELSE LET below == dfs[depth - 1][gray][succ[n]]
                   IN  IF below.found THEN below
                       ELSE [found |-> FALSE, colour |-> [below.colour EXCEPT ![n] = "black"]]]]
  IN  dfs[Cardinality(names)]

\* The search starts from every name that is white when its turn comes.
SearchRound(succ, names, s) ==
  LET n == CHOOSE n \in s.left : TRUE
      seen == IF s.found \/ s.colour[n] # "white" THEN s ELSE Dfs(succ, names)[s.colour][n]
  IN  [found |-> seen.found, colour |-> seen.colour, left |-> s.left \ {n}]

NextChainHasCycle(steps) ==
  LET names == StepNames(steps)
      search[k \in 0 .. Cardinality(names)] ==
        IF k = 0 THEN [found |-> FALSE, colour |-> [n \in names |-> "white"], left |-> names]
        ELSE SearchRound(Successors(steps), names, search[k - 1])
  IN  search[Cardinality(names)].found

NamesAreUnique(steps) ==
  \A i, j \in DOMAIN steps : steps[i].name = steps[j].name => i = j
NextIsExact(steps) ==
  \A i \in Linked(steps) : /\ ~steps[i].next.padded
                            /\ Strip(steps[i].next) \in StepNames(steps)

CheckPasses(ast) == /\ NamesAreUnique(ast.steps)
                    /\ NextIsExact(ast.steps)
                    /\ ~NextChainHasCycle(ast.steps)

(* Lowering.  A graph is the successors of every node and the entry points. *)
Referenced(steps) == {Strip(steps[i].next) : i \in Linked(steps)}
Entrypoints(steps) == StepNames(steps) \ Referenced(steps)

Generates(ast) == Entrypoints(ast.steps) # {}
GeneratedIR(ast) ==
  [next |-> [n \in StepNames(ast.steps) |->
               LET nxt == LastOfName(ast.steps, DOMAIN ast.steps, n).next
               IN  IF nxt = NoText THEN {} ELSE {Strip(nxt)}],
   entrypoints |-> Entrypoints(ast.steps)]

\* Breadth-first over the nodes of the graph.  The queue is a set: a node that
\* is queued twice is passed over the second time.
WalkRound(next, s) ==
  IF s.queue = {} THEN s
  ELSE LET u == CHOOSE u \in s.queue : TRUE
           seen == s.seen \cup {u}
       IN  [seen |-> seen, queue |-> (s.queue \ {u}) \cup ((next[u] \cap DOMAIN next) \ seen)]
Reachable(next, from) ==
  LET walk[k \in 0 .. Cardinality(DOMAIN next)] ==
        IF k = 0 THEN [seen |-> {}, queue |-> from] ELSE WalkRound(next, walk[k - 1])
  IN  walk[Cardinality(DOMAIN next)].seen

\* Mutant: edges to nodes that are gone stay.
OptimizedIRLeavingEdges(ir) ==
  LET normal == [n \in DOMAIN ir.next |-> ir.next[n] \ {0}]
      kept == Reachable(normal, ir.entrypoints \cap DOMAIN ir.next)
      next == [n \in kept |-> normal[n]]
  IN  [next |-> next, entrypoints |-> kept \ UNION {next[n] : n \in kept}]

\* Empty targets go first, then unreachable nodes, then edges to no node.
OptimizedIR(ir) ==
  LET normal == [n \in DOMAIN ir.next |-> ir.next[n] \ {0}]
      kept == Reachable(normal, ir.entrypoints \cap DOMAIN ir.next)
      next == [n \in kept |-> normal[n] \cap kept]
  IN  [next |-> next, entrypoints |-> kept \ UNION {next[n] : n \in kept}]
Optimizes(ir) == OptimizedIR(ir).entrypoints # {}

(* The customer's result is the output of the last sink in Kahn's order     *)
(* that always takes the smallest ready name.                               *)
OrderRound(next, s) ==
  IF s.ready = {} THEN s
  ELSE LET u == CHOOSE n \in s.ready : \A m \in s.ready : n <= m
           left == [n \in DOMAIN s.degree |-> s.degree[n] - (IF n \in next[u] THEN 1 ELSE 0)]
       IN  [degree |-> left, order |-> Append(s.order, u),
            ready |-> (s.ready \ {u}) \cup {v \in next[u] : v \in DOMAIN left /\ left[v] = 0}]

KahnOrder(ir) ==
  LET nodes == DOMAIN ir.next
      degree == [n \in nodes |-> Cardinality({u \in nodes : n \in ir.next[u]})]
      rounds[k \in 0 .. Cardinality(nodes)] ==
        IF k = 0 THEN [degree |-> degree, order |-> <<>>, ready |-> {n \in nodes : degree[n] = 0}]
        ELSE OrderRound(ir.next, rounds[k - 1])
  IN  rounds[Cardinality(nodes)].order
HasTopologicalOrder(ir) == Len(KahnOrder(ir)) = Cardinality(DOMAIN ir.next)

Sinks(ir) == {n \in DOMAIN ir.next : ir.next[n] = {}}
LastTopologicalSink(ir) ==
  LET order == KahnOrder(ir)
      places == {i \in DOMAIN order : order[i] \in Sinks(ir)}
  IN  IF places = {} THEN 0 ELSE order[CHOOSE i \in places : \A j \in places : j <= i]

\* None (0) for a graph without a sink and for a step without an output.
FinalResult(ir, outputs) ==
  LET sink == LastTopologicalSink(ir)
  IN  IF sink \in DOMAIN outputs THEN outputs[sink] ELSE 0

-----------------------------------------------------------------------------
(* What the compiler promises.                                              *)

\* What parses has a name and a type on every step, and no key of a step's
\* configuration is given twice.
ParsingLosesNothing(raw) ==
  \A i \in DOMAIN raw.steps :
    LET step == Parsed(raw).steps[i]
    IN  /\ step.name > 0 /\ step.type > 0 /\ step.next = raw.steps[i].next
        /\ {k \in DOMAIN step.config : step.config[k] = "config"} = raw.steps[i].config
        /\ {k \in DOMAIN step.config : step.config[k] = "top level"} = raw.steps[i].beside

\* The depth-first search finds a cycle exactly when some names only lead to
\* each other.
IsCyclic(succ) == \E set \in SUBSET DOMAIN succ : set # {} /\ \A n \in set : succ[n] \in set
CyclesAreFound(steps) ==
  NamesAreUnique(steps) /\ NextIsExact(steps) =>
    (NextChainHasCycle(steps) <=> IsCyclic(Successors(steps)))

\* Optimising a generated graph never raises, keeps exactly what the entry
\* points reach and every edge of it that has a target, keeps the entry
\* points, and is done in one pass.
OptimizesCleanly(ast) ==
  Generates(ast) =>
    LET ir == GeneratedIR(ast)
        ok == OptimizedIR(ir)
        nodes == DOMAIN ok.next
        closed == {set \in SUBSET DOMAIN ir.next :
                     /\ ir.entrypoints \subseteq set
                     /\ \A n \in set : ir.next[n] \cap DOMAIN ir.next \subseteq set}
    IN  /\ Optimizes(ir)
        /\ nodes \in closed /\ \A set \in closed : nodes \subseteq set
        /\ \A n \in nodes : ok.next[n] = ir.next[n] \cap DOMAIN ir.next
        /\ ok.entrypoints = ir.entrypoints
        /\ OptimizedIR(ok) = ok

\* The order has no node twice, puts every node before its successors, and has
\* at every place the smallest node whose predecessors are all before it.
IsOrderOf(order, next) ==
  LET before(i) == {order[j] : j \in 1 .. (i - 1)}
      isReady(n, i) == /\ n \in DOMAIN next \ before(i)
                       /\ \A p \in DOMAIN next : n \in next[p] => p \in before(i)
  IN  \A i \in DOMAIN order : /\ isReady(order[i], i)
                              /\ \A n \in DOMAIN next : isReady(n, i) => order[i] <= n

\* There is a topological order unless some nodes only lead to each other, and
\* the customer gets the output of the node that is last in it.
ResultIsOfTheLastStep(ast, outputs) ==
  NextIsExact(ast.steps) =>
    LET ir == GeneratedIR(ast)
        order == KahnOrder(ir)
        last == order[Len(order)]
    IN  /\ IsOrderOf(order, ir.next)
        /\ HasTopologicalOrder(ir) <=> ~IsCyclic([n \in DOMAIN ir.next \ Sinks(ir) |->
                                                    CHOOSE m \in ir.next[n] : TRUE])
        /\ HasTopologicalOrder(ir) /\ order # <<>> =>
             FinalResult(ir, outputs) = IF last \in DOMAIN outputs THEN outputs[last] ELSE 0

\* A pipeline that passes the checks is lowered and optimised without an error,
\* unless it is empty, and without losing a step or an edge, and it has a
\* topological order.
CheckedIsWhole(ast) ==
  CheckPasses(ast) =>
    LET ir == OptimizedIR(GeneratedIR(ast))
    IN  /\ Generates(ast) <=> ast.steps # <<>>
        /\ Generates(ast) => Optimizes(GeneratedIR(ast))
        /\ DOMAIN ir.next = StepNames(ast.steps)
        /\ \A i \in DOMAIN ast.steps :
             ir.next[ast.steps[i].name] =
               IF i \in Linked(ast.steps) THEN {ast.steps[i].next.word} ELSE {}
        /\ HasTopologicalOrder(ir)

\* All of it, for a pipeline that parses and the outputs of its steps: what
\* parses lost nothing, cycles are found, optimising is clean, the result is that
\* of the last step, and what passes the checks is whole.
PipelineIsSound(raw, outputs) ==
  Parses(raw) =>
    LET ast == Parsed(raw)
    IN  /\ ParsingLosesNothing(raw)
        /\ CyclesAreFound(ast.steps)
        /\ OptimizesCleanly(ast)
        /\ ResultIsOfTheLastStep(ast, outputs)
        /\ CheckedIsWhole(ast)

\* The compiler loses nothing, finds what is wrong and never raises on what it has
\* let pass.
CompiledPipelinesAreSound == Drawn("pipeline") => PipelineIsSound(sample.of.raw, sample.of.outputs)
=============================================================================
