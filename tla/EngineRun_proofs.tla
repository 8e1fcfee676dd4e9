---------------------------- MODULE EngineRun_proofs ----------------------------
(***************************************************************************)
(* Proofs about EngineRun, for every set of pipeline graphs, effects,      *)
(* tenants and armed failures, and any number of runs; about Compiler, for *)
(* every pipeline; and about the runs of a compiled pipeline.              *)
(***************************************************************************)
EXTENDS EngineRun, Compiler, FiniteSetTheorems, WellFoundedInduction, TLAPS

\* The operators of the promise, on the state of the current run.
In(s) == Promise!Steps(s)
LeadsTo(n) == Promise!LeadsTo(job.pipe, out, n)
Entries == Promise!Entries(job.pipe)

Walking == phase # "idle"

\* The types the proofs need.
Typed ==
    /\ phase \in {"idle", "running", "finishing"}
    /\ effects \in [Keys -> Effects \cup {None}]
    /\ \E S : results \in Seq(S)
    /\ \A blob \in blobs : "kind" \in DOMAIN blob.of

RunTyped ==
    Walking =>
        /\ job.pipe \in PipelineType
        /\ queue \in Seq(Names) /\ trace \in Seq(Names) /\ applied \in Seq(Names)
        /\ DOMAIN out = Names /\ payload \in Values
        /\ visited = In(trace)

\* What is executed was led to, and is executed once.
TraceIsCausal ==
    Walking =>
        \A i \in DOMAIN trace :
            /\ \A j \in DOMAIN trace : trace[i] = trace[j] => i = j
            /\ \/ trace[i] \in Entries
               \/ \E j \in DOMAIN trace : j < i /\ trace[i] \in LeadsTo(trace[j])

\* What is queued was led to, and what was led to is executed or queued.
QueueIsLedTo ==
    Walking => \A m \in In(queue) \cap job.pipe.nodes : m \in Entries \/ \E n \in visited : m \in LeadsTo(n)

NothingIsForgotten ==
    phase = "running" =>
        /\ Entries \subseteq visited \cup In(queue)
        /\ \A n \in visited : LeadsTo(n) \subseteq visited \cup In(queue)

TimeoutIsLast ==
    phase = "finishing" => trace # << >> /\ out[trace[Len(trace)]] = "timeout"

EffectsAreListed ==
    Walking =>
        /\ In(applied) = {n \in In(trace) : job.pipe.kind[n] = "effect"}
        /\ \A i, j \in DOMAIN applied, k, l \in DOMAIN trace :
            i < j /\ applied[i] = trace[k] /\ applied[j] = trace[l] => k < l

Walked ==
    /\ Typed
    /\ RunTyped
    /\ TraceIsCausal
    /\ QueueIsLedTo
    /\ NothingIsForgotten
    /\ TimeoutIsLast
    /\ EffectsAreListed

----------------------------------------------------------------------------

\* The members of the sequences that the walk makes.
LEMMA AppendedSteps ==
    ASSUME NEW S, NEW s \in Seq(S), NEW x \in S
    PROVE  In(Append(s, x)) = In(s) \cup {x}
<1>1. Len(Append(s, x)) = Len(s) + 1 /\ Append(s, x)[Len(s) + 1] = x
  OBVIOUS
<1>2. \A i \in 1 .. Len(s) : Append(s, x)[i] = s[i]
  OBVIOUS
<1>3. DOMAIN s = 1 .. Len(s) /\ DOMAIN Append(s, x) = 1 .. Len(s) + 1 /\ Len(s) \in Nat
  OBVIOUS
<1> QED
  BY <1>1, <1>2, <1>3 DEF In, Promise!Steps

LEMMA JoinedSteps ==
    ASSUME NEW S, NEW s \in Seq(S), NEW t \in Seq(S)
    PROVE  In(s \o t) = In(s) \cup In(t)
<1> DEFINE st == s \o t
<1>1. Len(st) = Len(s) + Len(t) /\ Len(s) \in Nat /\ Len(t) \in Nat
  OBVIOUS
<1>2. DOMAIN s = 1 .. Len(s) /\ DOMAIN t = 1 .. Len(t) /\ DOMAIN st = 1 .. Len(s) + Len(t)
  OBVIOUS
<1>3. \A i \in 1 .. Len(s) : st[i] = s[i]
  OBVIOUS
<1>4. \A i \in 1 .. Len(t) : st[Len(s) + i] = t[i]
  OBVIOUS
<1> HIDE DEF st
<1>5. In(s) \cup In(t) \subseteq In(st)
  <2>1. ASSUME NEW i \in 1 .. Len(s)
        PROVE  s[i] \in In(st)
    <3>1. i \in DOMAIN st
      BY <1>1, <1>2
    <3> QED
      BY <1>3, <3>1 DEF In, Promise!Steps
  <2>2. ASSUME NEW i \in 1 .. Len(t)
        PROVE  t[i] \in In(st)
    <3>1. Len(s) + i \in DOMAIN st
      BY <1>1, <1>2
    <3> QED
      BY <1>4, <3>1 DEF In, Promise!Steps
  <2> QED
    BY <1>2, <2>1, <2>2 DEF In, Promise!Steps
<1>6. ASSUME NEW i \in DOMAIN st
      PROVE  st[i] \in In(s) \cup In(t)
  <2>1. CASE i \in 1 .. Len(s)
    BY <1>2, <1>3, <2>1 DEF In, Promise!Steps
  <2>2. CASE i \notin 1 .. Len(s)
    <3>1. i - Len(s) \in 1 .. Len(t) /\ i = Len(s) + (i - Len(s))
      BY <1>1, <1>2, <2>2
    <3>2. st[i] = t[i - Len(s)]
      BY <1>4, <3>1
    <3> QED
      BY <1>2, <3>1, <3>2 DEF In, Promise!Steps
  <2> QED
    BY <2>1, <2>2
<1>7. In(st) \subseteq In(s) \cup In(t)
  BY <1>6 DEF In, Promise!Steps
<1> QED
  BY <1>5, <1>7 DEF st

LEMMA HeadAndTailSteps ==
    ASSUME NEW S, NEW s \in Seq(S), s # << >>
    PROVE  /\ Head(s) \in S /\ Tail(s) \in Seq(S)
           /\ In(s) = {Head(s)} \cup In(Tail(s))
<1> DEFINE t == Tail(s)
<1>1. Head(s) = s[1] /\ Head(s) \in S /\ t \in Seq(S) /\ Len(t) = Len(s) - 1 /\ Len(s) \in Nat \ {0}
  OBVIOUS
<1>2. DOMAIN s = 1 .. Len(s) /\ DOMAIN t = 1 .. Len(s) - 1
  BY <1>1
<1>3. \A i \in 1 .. Len(s) - 1 : t[i] = s[i + 1]
  OBVIOUS
<1> HIDE DEF t
<1>4. {Head(s)} \cup In(t) \subseteq In(s)
  BY <1>1, <1>2, <1>3 DEF In, Promise!Steps
<1>5. ASSUME NEW i \in DOMAIN s
      PROVE  s[i] \in {Head(s)} \cup In(t)
  <2>1. CASE i = 1
    BY <1>1, <2>1
  <2>2. CASE i # 1
    <3>1. i - 1 \in 1 .. Len(s) - 1 /\ (i - 1) + 1 = i
      BY <1>1, <1>2, <2>2
    <3>2. t[i - 1] = s[i]
      BY <1>3, <3>1
    <3> QED
      BY <1>2, <3>1, <3>2 DEF In, Promise!Steps
  <2> QED
    BY <2>1, <2>2
<1> QED
  BY <1>1, <1>4, <1>5 DEF t, In, Promise!Steps

LEMMA StepsAreMembers ==
    ASSUME NEW S, NEW s \in Seq(S)
    PROVE  In(s) \subseteq S
BY DEF In, Promise!Steps

\* The results are a sequence of anything.
LEMMA AnyAppended ==
    ASSUME NEW S, NEW s \in Seq(S), NEW x
    PROVE  /\ Append(s, x) \in Seq(S \cup {x})
           /\ DOMAIN s = 1 .. Len(s) /\ Len(s) \in Nat /\ DOMAIN Append(s, x) = 1 .. Len(s) + 1
           /\ \A i \in DOMAIN s : Append(s, x)[i] = s[i]
           /\ Append(s, x)[Len(s) + 1] = x
<1>1. s \in Seq(S \cup {x})
  OBVIOUS
<1> QED
  BY <1>1

----------------------------------------------------------------------------

\* A step is executed: it was queued, so it was led to, and not before.
LEMMA ExecutedIsCausal ==
    ASSUME Walked, NEW n, NEW o, Visits(n), job' = job, phase' # "idle",
           trace' = Append(trace, n), out' = [out EXCEPT ![n] = o], visited' = visited \cup {n},
           queue' \in Seq(Names), payload' \in Values,
           applied' = IF job.pipe.kind[n] = "effect" THEN Append(applied, n) ELSE applied
    PROVE  /\ RunTyped' /\ TraceIsCausal' /\ EffectsAreListed'
           /\ n \in Names /\ n \notin visited
           /\ Entries' = Entries
           /\ \A m \in visited : LeadsTo(m)' = LeadsTo(m)
<1>1. Walking /\ RunTyped /\ TraceIsCausal /\ EffectsAreListed /\ QueueIsLedTo
  BY DEF Walked, Visits, Walking
<1>2. n \in Names /\ n \in In(queue) /\ n \notin visited /\ n \in job.pipe.nodes /\ visited = In(trace)
  BY <1>1, HeadAndTailSteps DEF RunTyped, Visits, Dropped
<1>3. /\ trace \in Seq(Names) /\ applied \in Seq(Names) /\ DOMAIN out = Names
      /\ trace' \in Seq(Names) /\ applied' \in Seq(Names) /\ DOMAIN out' = Names
  BY <1>1, <1>2 DEF RunTyped
<1>4. In(trace') = In(trace) \cup {n}
  BY <1>2, <1>3, AppendedSteps
<1>5. RunTyped'
  BY <1>1, <1>2, <1>3, <1>4 DEF RunTyped, In
<1>6. Entries' = Entries
  BY DEF Entries
<1>7. visited \subseteq Names
  BY <1>2, <1>3, StepsAreMembers
<1> DEFINE after(m) == Promise!LeadsTo(job.pipe, out', m)
<1>8. \A m \in visited : after(m) = LeadsTo(m)
  BY <1>2, <1>3, <1>7 DEF LeadsTo, Promise!LeadsTo
<1> HIDE DEF after
<1>9. /\ DOMAIN trace = 1 .. Len(trace) /\ DOMAIN trace' = 1 .. Len(trace) + 1 /\ Len(trace) \in Nat
      /\ \A i \in 1 .. Len(trace) : trace'[i] = trace[i] /\ trace[i] \in visited
      /\ trace'[Len(trace) + 1] = n
  BY <1>2, <1>3 DEF In, Promise!Steps
<1>10. n \in Entries \/ \E i \in 1 .. Len(trace) : n \in LeadsTo(trace[i])
  BY <1>1, <1>2, <1>9 DEF QueueIsLedTo, In, Promise!Steps
<1>11. TraceIsCausal'
  <2> SUFFICES ASSUME NEW i \in DOMAIN trace'
               PROVE  /\ \A j \in DOMAIN trace' : trace'[i] = trace'[j] => i = j
                      /\ \/ trace'[i] \in Entries
                         \/ \E j \in DOMAIN trace' : j < i /\ trace'[i] \in after(trace'[j])
    BY <1>6 DEF TraceIsCausal, LeadsTo, after
  <2>1. \A j \in DOMAIN trace' : trace'[i] = trace'[j] => i = j
    BY <1>1, <1>2, <1>9 DEF TraceIsCausal
  <2>2. CASE i \in 1 .. Len(trace)
    <3>1. trace[i] \in Entries \/ \E j \in DOMAIN trace : j < i /\ trace[i] \in LeadsTo(trace[j])
      BY <1>1, <1>9, <2>2 DEF TraceIsCausal
    <3>2. ASSUME NEW j \in DOMAIN trace, trace[i] \in LeadsTo(trace[j])
          PROVE  trace'[i] \in after(trace'[j]) /\ j \in DOMAIN trace'
      <4>1. after(trace'[j]) = LeadsTo(trace[j])
        BY <1>8, <1>9
      <4> QED
        BY <1>9, <2>2, <3>2, <4>1
    <3> QED
      BY <1>9, <2>1, <2>2, <3>1, <3>2
  <2>3. CASE i = Len(trace) + 1
    <3>1. ASSUME NEW j \in 1 .. Len(trace), n \in LeadsTo(trace[j])
          PROVE  trace'[i] \in after(trace'[j]) /\ j \in DOMAIN trace' /\ j < i
      <4>1. after(trace'[j]) = LeadsTo(trace[j])
        BY <1>8, <1>9
      <4> QED
        BY <1>9, <2>3, <3>1, <4>1
    <3> QED
      BY <1>9, <1>10, <2>1, <2>3, <3>1
  <2> QED
    BY <1>9, <2>2, <2>3
<1>12. EffectsAreListed'
  <2> DEFINE kind == job.pipe.kind
  <2>1. In(applied) = {m \in visited : kind[m] = "effect"}
    BY <1>1, <1>2 DEF EffectsAreListed
  <2>2. In(applied') = {m \in visited \cup {n} : kind[m] = "effect"}
    <3>1. kind[n] = "effect" => In(applied') = In(applied) \cup {n}
      BY <1>2, <1>3, AppendedSteps
    <3> QED
      BY <2>1, <3>1
  <2>3. /\ DOMAIN applied = 1 .. Len(applied) /\ Len(applied) \in Nat
        /\ \A i \in 1 .. Len(applied) : applied[i] \in visited /\ applied'[i] = applied[i]
        /\ \A i \in DOMAIN applied' : i \in 1 .. Len(applied) \/ (i = Len(applied) + 1 /\ applied'[i] = n)
    BY <1>2, <1>3, <2>1 DEF In, Promise!Steps
  <2>4. ASSUME NEW i \in DOMAIN applied', NEW j \in DOMAIN applied', NEW k \in DOMAIN trace', NEW l \in DOMAIN trace',
               i < j, applied'[i] = trace'[k], applied'[j] = trace'[l]
        PROVE  k < l
    <3>1. i \in 1 .. Len(applied)
      BY <2>3, <2>4
    <3>2. k \in 1 .. Len(trace)
      BY <1>2, <1>9, <2>3, <2>4, <3>1
    <3>3. CASE j \in 1 .. Len(applied)
      <4>1. l \in 1 .. Len(trace)
        BY <1>2, <1>9, <2>3, <2>4, <3>3
      <4> QED
        BY <1>1, <1>9, <2>3, <2>4, <3>1, <3>2, <3>3, <4>1 DEF EffectsAreListed
    <3>4. CASE j = Len(applied) + 1 /\ applied'[j] = n
      BY <1>2, <1>9, <2>4, <3>2, <3>4
    <3> QED
      BY <2>3, <3>3, <3>4
  <2> QED
    BY <1>2, <1>4, <2>2, <2>4 DEF EffectsAreListed, In
<1>13. \A m \in visited : LeadsTo(m)' = LeadsTo(m)
  BY <1>8 DEF LeadsTo, after
<1> QED
  BY <1>2, <1>5, <1>6, <1>11, <1>12, <1>13

\* A step that goes on queues exactly what it leads to.
LEMMA DoneKeepsWalked ==
    ASSUME Walked, NEW n, NEW o, NEW s \in Seq(Names), Visits(n), Done(n, o, s),
           UNCHANGED <<results, blobs>>, effects' \in [Keys -> Effects \cup {None}], payload' \in Values,
           applied' = IF job.pipe.kind[n] = "effect" THEN Append(applied, n) ELSE applied,
           In(s) \cap job.pipe.nodes = LeadsTo(n)'
    PROVE  Walked'
<1>1. /\ queue \in Seq(Names) /\ queue # << >> /\ n = Head(queue)
      /\ phase = "running" /\ phase' = "running" /\ job' = job
      /\ queue' = Tail(queue) \o s /\ visited' = visited \cup {n}
  BY DEF Walked, RunTyped, Walking, Visits, Done
<1>2. Tail(queue) \in Seq(Names) /\ In(queue) = {n} \cup In(Tail(queue)) /\ queue' \in Seq(Names)
  BY <1>1, HeadAndTailSteps
<1>3. In(queue') = In(Tail(queue)) \cup In(s)
  BY <1>1, <1>2, JoinedSteps
<1>4. /\ RunTyped' /\ TraceIsCausal' /\ EffectsAreListed'
      /\ n \notin visited /\ Entries' = Entries
      /\ \A m \in visited : LeadsTo(m)' = LeadsTo(m)
  BY <1>1, <1>2, ExecutedIsCausal DEF Done
<1>5. QueueIsLedTo'
  <2> SUFFICES ASSUME NEW m \in In(queue') \cap job.pipe.nodes
               PROVE  m \in Entries \/ \E k \in visited \cup {n} : m \in LeadsTo(k)'
    BY <1>1, <1>4 DEF QueueIsLedTo, In
  <2>1. CASE m \in In(queue)
    BY <1>1, <1>4, <2>1 DEF Walked, QueueIsLedTo, Walking
  <2>2. CASE m \in In(s)
    BY <2>2
  <2> QED
    BY <1>2, <1>3, <2>1, <2>2
<1>6. NothingIsForgotten'
  <2>1. /\ Entries \subseteq visited \cup In(queue)
        /\ \A m \in visited : LeadsTo(m) \subseteq visited \cup In(queue)
    BY <1>1 DEF Walked, NothingIsForgotten
  <2>2. visited \cup In(queue) \subseteq visited' \cup In(queue')
    BY <1>1, <1>2, <1>3
  <2>3. LeadsTo(n)' \subseteq In(queue')
    BY <1>3
  <2> QED
    BY <1>1, <1>4, <2>1, <2>2, <2>3 DEF NothingIsForgotten, In
<1>7. Typed' /\ TimeoutIsLast'
  BY <1>1 DEF Walked, Typed, TimeoutIsLast
<1> QED
  BY <1>4, <1>5, <1>6, <1>7 DEF Walked

\* Only a routing step whose route is mapped leads elsewhere than its successors.
LEMMA SuccessorsOnly ==
    ASSUME Walked, NEW n, NEW o, Visits(n), Done(n, o, Succ(n)), job.pipe.kind[n] # "routing"
    PROVE  Succ(n) \in Seq(Names) /\ In(Succ(n)) \cap job.pipe.nodes = LeadsTo(n)'
<1>1. n \in Names /\ job' = job
  BY HeadAndTailSteps DEF Walked, RunTyped, Walking, Visits, Done
<1>2. job.pipe \in PipelineType
  BY DEF Walked, RunTyped, Walking, Visits
<1>3. Succ(n) \in Seq(Names)
  BY <1>1, <1>2 DEF Succ, PipelineType
<1>4. LeadsTo(n)' = In(Succ(n)) \cap job.pipe.nodes
  BY <1>1 DEF LeadsTo, Promise!LeadsTo, In, Succ
<1> QED
  BY <1>3, <1>4

LEMMA StepKeepsWalked ==
    ASSUME Walked, NEW n, RunModule(n) \/ RunSaga(n) \/ RunAI(n) \/ ApplyEffect(n)
    PROVE  Walked'
<1>1. Visits(n) /\ Typed /\ payload \in Values /\ job.pipe \in PipelineType /\ n \in Names
  BY HeadAndTailSteps
  DEF Walked, RunTyped, Walking, Visits, RunModule, RunSaga, RunAI, ApplyEffect
<1>2. PICK o : Done(n, o, Succ(n))
  BY DEF RunModule, RunSaga, RunAI, ApplyEffect
<1>3. /\ job.pipe.kind[n] # "routing" /\ UNCHANGED <<results, blobs>> /\ payload' \in Values
      /\ applied' = IF job.pipe.kind[n] = "effect" THEN Append(applied, n) ELSE applied
  BY <1>1 DEF RunModule, RunSaga, RunAI, ApplyEffect, stores
<1>4. effects' \in [Keys -> Effects \cup {None}]
  <2>1. CASE ApplyEffect(n)
    <3>1. EffectOf(n) \in Effects
      BY <1>1 DEF EffectOf, Effects, PipelineType
    <3> QED
      BY <1>1, <2>1, <3>1 DEF Typed, ApplyEffect
  <2>2. CASE RunModule(n) \/ RunSaga(n) \/ RunAI(n)
    BY <1>1, <2>2 DEF Typed, RunModule, RunSaga, RunAI, stores
  <2> QED
    BY <2>1, <2>2
<1> QED
  BY <1>1, <1>2, <1>3, <1>4, SuccessorsOnly, DoneKeepsWalked

LEMMA RouteKeepsWalked ==
    ASSUME Walked, NEW n, Route(n)
    PROVE  Walked'
<1>1. PICK route \in PossibleRoutes : Done(n, route, AfterRouting(n, route))
  BY DEF Route
<1>2. /\ Visits(n) /\ Typed /\ payload \in Values /\ job.pipe \in PipelineType /\ n \in Names /\ job' = job
      /\ DOMAIN out = Names /\ job.pipe.kind[n] = "routing"
      /\ UNCHANGED <<results, blobs, effects, payload, applied>>
  BY <1>1, HeadAndTailSteps DEF Walked, RunTyped, Walking, Visits, Route, Done
<1> DEFINE map == job.pipe.routing[n]
<1> DEFINE s == AfterRouting(n, route)
<1>3. Succ(n) \in Seq(Names) /\ job.pipe.nodes \subseteq Names
  BY <1>2 DEF Succ, PipelineType
<1>4. CASE route \in DOMAIN map /\ map[route] \in job.pipe.nodes
  <2>1. s = <<map[route]>> /\ s \in Seq(Names)
    BY <1>3, <1>4 DEF AfterRouting
  <2>2. LeadsTo(n)' = {map[route]}
    BY <1>1, <1>2, <1>4 DEF LeadsTo, Promise!LeadsTo, Done
  <2>3. In(s) = {map[route]}
    BY <2>1 DEF In, Promise!Steps
  <2> QED
    BY <1>1, <1>2, <1>4, <2>1, <2>2, <2>3, DoneKeepsWalked DEF Typed
<1>5. CASE ~(route \in DOMAIN map /\ map[route] \in job.pipe.nodes)
  <2>1. s = Succ(n)
    BY <1>5 DEF AfterRouting
  <2>2. LeadsTo(n)' = In(Succ(n)) \cap job.pipe.nodes
    BY <1>1, <1>2, <1>5 DEF LeadsTo, Promise!LeadsTo, Done, In, Succ
  <2> QED
    BY <1>1, <1>2, <1>3, <2>1, <2>2, DoneKeepsWalked DEF Typed
<1> QED
  BY <1>4, <1>5

LEMMA TimeoutKeepsWalked ==
    ASSUME Walked, NEW n, Timeout(n)
    PROVE  Walked'
<1>1. /\ Visits(n) /\ Typed /\ Walking /\ RunTyped /\ job.pipe.kind[n] = "ai"
      /\ phase' = "finishing" /\ UNCHANGED <<job, queue, payload, applied, results, blobs, effects>>
      /\ trace' = Append(trace, n) /\ out' = [out EXCEPT ![n] = "timeout"] /\ visited' = visited \cup {n}
  BY DEF Walked, Timeout, stores, Visits, Walking
<1>2. /\ RunTyped' /\ TraceIsCausal' /\ EffectsAreListed'
      /\ n \in Names /\ Entries' = Entries
      /\ \A m \in visited : LeadsTo(m)' = LeadsTo(m)
  BY <1>1, ExecutedIsCausal DEF RunTyped
<1>3. QueueIsLedTo'
  BY <1>1, <1>2 DEF Walked, QueueIsLedTo, In, Walking
<1>4. TimeoutIsLast'
  <2>1. trace \in Seq(Names) /\ DOMAIN out = Names
    BY <1>1 DEF RunTyped
  <2> QED
    BY <1>1, <1>2, <2>1 DEF TimeoutIsLast
<1>5. Typed' /\ NothingIsForgotten'
  BY <1>1 DEF Typed, NothingIsForgotten
<1> QED
  BY <1>2, <1>3, <1>4, <1>5 DEF Walked

LEMMA DropKeepsWalked ==
    ASSUME Walked, Drop
    PROVE  Walked'
<1>1. /\ phase = "running" /\ UNCHANGED <<phase, job, visited, trace, out, payload, applied, results, blobs, effects>>
      /\ queue # << >> /\ queue' = Tail(queue) /\ queue \in Seq(Names)
      /\ Head(queue) \in visited \/ Head(queue) \notin job.pipe.nodes
  BY DEF Walked, RunTyped, Walking, Drop, Dropped, stores
<1>2. queue' \in Seq(Names) /\ In(queue) = {Head(queue)} \cup In(queue')
  BY <1>1, HeadAndTailSteps
<1>3. Entries \subseteq job.pipe.nodes /\ \A n : LeadsTo(n) \subseteq job.pipe.nodes
  BY DEF Entries, Promise!Entries, LeadsTo, Promise!LeadsTo
<1>4. Entries' = Entries /\ \A n : LeadsTo(n)' = LeadsTo(n)
  BY <1>1 DEF Entries, LeadsTo
<1>5. RunTyped' /\ Typed' /\ TimeoutIsLast'
  BY <1>1, <1>2 DEF Walked, RunTyped, Typed, TimeoutIsLast, In, Walking
<1>6. TraceIsCausal' /\ EffectsAreListed'
  BY <1>1, <1>4 DEF Walked, TraceIsCausal, EffectsAreListed, In, Walking, LeadsTo
<1>7. QueueIsLedTo'
  BY <1>1, <1>2, <1>4 DEF Walked, QueueIsLedTo, Walking, In
<1>8. NothingIsForgotten'
  BY <1>1, <1>2, <1>3, <1>4 DEF Walked, NothingIsForgotten, In
<1> QED
  BY <1>5, <1>6, <1>7, <1>8 DEF Walked

LEMMA BeginKeepsWalked ==
    ASSUME Walked, Begin
    PROVE  Walked'
<1>1. PICK p \in Pipelines, t \in Tenants, dry \in BOOLEAN, bound \in BOOLEAN, review \in BOOLEAN, v \in Values :
        /\ job' = [pipe |-> p, tenant |-> t, dry |-> dry, bound |-> bound, review |-> review, fail |-> armed]
        /\ payload' = v
        /\ queue' = p.entry
  BY DEF Begin
<1>2. /\ phase' = "running" /\ visited' = {} /\ trace' = << >> /\ out' = [n \in Names |-> None]
      /\ applied' = << >> /\ UNCHANGED <<results, blobs, effects>>
  BY DEF Begin
<1>3. job'.pipe = p /\ p \in PipelineType /\ p.entry \in Seq(Names)
  BY <1>1, PipelinesAssumption DEF PipelineType
<1>4. In(trace') = {} /\ In(applied') = {}
  BY <1>2 DEF In, Promise!Steps
<1>5. RunTyped' /\ Typed' /\ TimeoutIsLast'
  BY <1>1, <1>2, <1>3, <1>4 DEF Walked, RunTyped, Typed, TimeoutIsLast, In
<1>6. TraceIsCausal' /\ EffectsAreListed'
  BY <1>2, <1>4 DEF TraceIsCausal, EffectsAreListed, In
<1>7. Entries' = In(queue') \cap p.nodes
  BY <1>1, <1>3 DEF Entries, Promise!Entries, In
<1> QED
  BY <1>2, <1>3, <1>5, <1>6, <1>7 DEF Walked, QueueIsLedTo, NothingIsForgotten, In

\* Between runs nothing is promised of the walk.
LEMMA IdleIsWalked ==
    ASSUME Walked, phase' = "idle", effects' = effects,
           results' = results \/ \E x : results' = Append(results, x),
           \A blob \in blobs' : "kind" \in DOMAIN blob.of
    PROVE  Walked'
<1>1. \E S : results' \in Seq(S)
  <2>1. PICK S : results \in Seq(S)
    BY DEF Walked, Typed
  <2>2. CASE results' = results
    BY <2>1, <2>2
  <2>3. ASSUME NEW x, results' = Append(results, x)
        PROVE  \E T : results' \in Seq(T)
    <3>1. results' \in Seq(S \cup {x})
      BY <2>1, <2>3, AnyAppended
    <3> QED
      BY <3>1
  <2> QED
    BY <2>2, <2>3
<1> QED
  BY <1>1 DEF Walked, Typed, RunTyped, TraceIsCausal, QueueIsLedTo, NothingIsForgotten, TimeoutIsLast,
             EffectsAreListed, Walking

LEMMA EveryStepKeepsWalked ==
    ASSUME Walked, [Next]_vars
    PROVE  Walked'
<1>1. CASE UNCHANGED vars
  BY <1>1 DEF vars, Walked, Typed, RunTyped, TraceIsCausal, QueueIsLedTo, NothingIsForgotten, TimeoutIsLast,
             EffectsAreListed, Walking, LeadsTo, Entries, In
<1>2. ASSUME Arm \/ Replay
      PROVE  Walked'
  BY <1>2, IdleIsWalked DEF Arm, Replay, Walked, Typed
<1>3. ASSUME NEW n, AbortSaga(n) \/ Raise(n)
      PROVE  Walked'
  BY <1>3, IdleIsWalked DEF AbortSaga, Raise, Ends, Walked, Typed
<1>4. ASSUME Finish
      PROVE  Walked'
  <2>1. PICK done, x :
          /\ "kind" \in DOMAIN done
          /\ blobs' = blobs \cup {[id |-> NextId(job.pipe), of |-> done]} \/ blobs' = blobs
          /\ Ends(x) /\ UNCHANGED effects
    BY <1>4 DEF Finish, Result
  <2> QED
    BY <2>1, IdleIsWalked DEF Ends, Walked, Typed
<1> QED
  BY <1>1, <1>2, <1>3, <1>4, BeginKeepsWalked, DropKeepsWalked, StepKeepsWalked, RouteKeepsWalked, TimeoutKeepsWalked
  DEF Next, Walk

----------------------------------------------------------------------------

Published == {Execution(results[i]) : i \in Completed}

\* Only a result that is "done" is published.
LEMMA AppendedCompletes ==
    ASSUME Walked, NEW x, results' = Append(results, x)
    PROVE  /\ Len(results) \in Nat /\ DOMAIN results = 1 .. Len(results)
           /\ DOMAIN results' = 1 .. Len(results) + 1
           /\ \A i \in DOMAIN results : results'[i] = results[i]
           /\ results'[Len(results) + 1] = x
           /\ Completed' = Completed \cup (IF x.kind = "done" THEN {Len(results) + 1} ELSE {})
<1>1. PICK S : results \in Seq(S)
  BY DEF Walked, Typed
<1>2. /\ DOMAIN results = 1 .. Len(results) /\ Len(results) \in Nat
      /\ DOMAIN results' = 1 .. Len(results) + 1
      /\ \A i \in DOMAIN results : results'[i] = results[i]
      /\ results'[Len(results) + 1] = x
  BY <1>1, AnyAppended
<1>3. Completed' = Completed \cup (IF x.kind = "done" THEN {Len(results) + 1} ELSE {})
  BY <1>2 DEF Completed
<1> QED
  BY <1>2, <1>3

LEMMA AppendedIsPublished ==
    ASSUME Walked, NEW x, results' = Append(results, x)
    PROVE  Published' = Published \cup (IF x.kind = "done" THEN {Execution(x)} ELSE {})
<1>1. \A i \in Completed : Execution(results'[i]) = Execution(results[i])
  BY AppendedCompletes DEF Completed
<1> QED
  BY <1>1, AppendedCompletes DEF Published

\* The snapshot of a walk that is over is that of a legal execution.
LEMMA FinishedIsLegal ==
    ASSUME Walked, phase = "finishing" \/ (phase = "running" /\ queue = << >>), NEW id
    PROVE  Promise!Legal(Execution([Result("done") EXCEPT !.id = id]))
<1> DEFINE x == Execution([Result("done") EXCEPT !.id = id])
<1>1. /\ x.pipe = job.pipe /\ x.trace = trace /\ x.out = out /\ x.effects = applied
      /\ x.timeout = (phase = "finishing")
  BY DEF Execution, ExecutionFields, Result
<1> HIDE DEF x
<1>2. Walking /\ visited = In(trace)
  BY DEF Walking, Walked, RunTyped
<1>3. Promise!Causal(x)
  BY <1>1, <1>2 DEF Walked, TraceIsCausal, Promise!Causal, Entries, LeadsTo
<1>4. Promise!Complete(x)
  <2>1. CASE phase = "finishing"
    BY <1>1, <2>1 DEF Walked, TimeoutIsLast, Promise!Complete
  <2>2. CASE phase = "running" /\ queue = << >>
    <3>1. In(queue) = {}
      BY <2>2 DEF In, Promise!Steps
    <3>2. Entries \subseteq In(trace) /\ \A n \in In(trace) : LeadsTo(n) \subseteq In(trace)
      BY <1>2, <2>2, <3>1 DEF Walked, NothingIsForgotten
    <3> QED
      BY <1>1, <2>2, <3>2 DEF Promise!Complete, Entries, LeadsTo, In
  <2> QED
    BY <2>1, <2>2
<1>5. Promise!ListsItsEffects(x)
  BY <1>1, <1>2 DEF Walked, EffectsAreListed, Promise!ListsItsEffects, In
<1> QED
  BY <1>3, <1>4, <1>5 DEF Promise!Legal, x

\* Every step is one of the promise, or changes nothing of it.
LEMMA StepRefines ==
    ASSUME Walked, [Next]_vars
    PROVE  [Promise!Next]_<<effects, Published>>
<1>1. ASSUME UNCHANGED results
      PROVE  Published' = Published
  BY <1>1 DEF Published, Completed
<1>2. ASSUME UNCHANGED vars \/ Arm \/ Begin \/ Drop
      PROVE  UNCHANGED <<effects, Published>>
  BY <1>1, <1>2 DEF vars, Arm, Begin, Drop, stores
<1>3. ASSUME NEW n, RunModule(n) \/ Route(n) \/ RunSaga(n) \/ RunAI(n) \/ Timeout(n)
      PROVE  UNCHANGED <<effects, Published>>
  BY <1>1, <1>3 DEF RunModule, Route, RunSaga, RunAI, Timeout, stores
<1>4. ASSUME NEW n, ApplyEffect(n)
      PROVE  [Promise!Next]_<<effects, Published>>
  <2> DEFINE k == job.pipe.effect[n].key
  <2>1. Published' = Published
    BY <1>1, <1>4 DEF ApplyEffect
  <2>2. k \in Keys /\ EffectOf(n) \in Effects /\ effects \in [Keys -> Effects \cup {None}]
    <3>1. n \in Names /\ job.pipe \in PipelineType /\ payload \in Values
      BY <1>4, HeadAndTailSteps DEF ApplyEffect, Visits, Walked, RunTyped, Walking
    <3> QED
      BY <3>1 DEF EffectOf, Effects, PipelineType, Walked, Typed
  <2>3. CASE effects' = effects
    BY <2>1, <2>3
  <2>4. CASE effects' # effects
    <3>1. effects' = [effects EXCEPT ![k] = EffectOf(n)] /\ (effects[k] = None \/ effects[k] = EffectOf(n))
      BY <1>4, <2>4 DEF ApplyEffect, Idempotent
    <3>2. effects[k] = None
      BY <2>2, <2>4, <3>1
    <3> QED
      BY <2>1, <2>2, <3>1, <3>2 DEF Promise!Next, Promise!Apply, Published
  <2> QED
    BY <2>3, <2>4
<1>5. ASSUME NEW n, AbortSaga(n) \/ Raise(n)
      PROVE  UNCHANGED <<effects, Published>>
  <2>1. PICK x : results' = Append(results, x) /\ x.kind # "done" /\ effects' = effects
    BY <1>5 DEF AbortSaga, Raise, Ends, Result
  <2> QED
    BY <2>1, AppendedIsPublished
<1>6. ASSUME Replay
      PROVE  UNCHANGED <<effects, Published>>
  <2>1. CASE UNCHANGED results
    BY <1>1, <1>6, <2>1 DEF Replay
  <2>2. CASE ~UNCHANGED results
    <3>1. PICK blob \in blobs : results' = Append(results, [snapshots'[blob.id] EXCEPT !.kind = "replayed"])
                               /\ snapshots' = Stored(blob.id, blob.of)
      BY <1>6, <2>2 DEF Replay
    <3>2. snapshots'[blob.id] = blob.of /\ "kind" \in DOMAIN blob.of
      BY <3>1 DEF Walked, Typed, Stored
    <3>3. [blob.of EXCEPT !.kind = "replayed"].kind = "replayed"
      BY <3>2
    <3> QED
      BY <1>6, <3>1, <3>2, <3>3, AppendedIsPublished DEF Replay
  <2> QED
    BY <2>1, <2>2
<1>7. ASSUME Finish
      PROVE  [Promise!Next]_<<effects, Published>>
  <2> DEFINE done == [Result("done") EXCEPT !.id = NextId(job.pipe)]
  <2>1. effects' = effects /\ (phase = "finishing" \/ (phase = "running" /\ queue = << >>))
    BY <1>7 DEF Finish
  <2>2. results' = Append(results, done) \/ results' = Append(results, [done EXCEPT !.kind = "sink_failed"])
    BY <1>7 DEF Finish, Ends
  <2>3. done.kind = "done" /\ [done EXCEPT !.kind = "sink_failed"].kind = "sink_failed"
    BY DEF Result
  <2>4. Promise!Legal(Execution(done))
    BY <2>1, FinishedIsLegal
  <2> HIDE DEF done
  <2>5. Published' = Published \cup {Execution(done)} \/ Published' = Published
    BY <2>2, <2>3, AppendedIsPublished
  <2> QED
    BY <2>1, <2>4, <2>5 DEF Promise!Next, Promise!Publish, Published
<1> QED
  BY <1>2, <1>3, <1>4, <1>5, <1>6, <1>7 DEF Next, Walk

LEMMA FirstIsWalked ==
    ASSUME Init
    PROVE  Walked
<1>1. phase = "idle" /\ effects = [k \in Keys |-> None] /\ results = << >> /\ blobs = ForeignBlobs
  BY DEF Init
<1>2. results \in Seq({})
  BY <1>1
<1>3. Typed
  BY <1>1, <1>2, PipelinesAssumption DEF Typed
<1> QED
  BY <1>1, <1>3 DEF Walked, RunTyped, TraceIsCausal, QueueIsLedTo, NothingIsForgotten, TimeoutIsLast,
                  EffectsAreListed, Walking

\* The engine keeps its promise for all pipeline graphs: effects are written
\* once, and only legal executions are published.
THEOREM EngineKeepsPromise == Spec => KeepsPromise
<1>1. Init => Promise!Init
  BY DEF Init, Promise!Init, Completed
<1>2. Walked /\ [Next]_vars => Walked'
  BY EveryStepKeepsWalked
<1>3. Walked /\ [Next]_vars => [Promise!Next]_<<effects, Published>>
  BY StepRefines
<1>4. Init => Walked
  BY FirstIsWalked
<1> QED
  BY <1>1, <1>2, <1>3, <1>4, PTL DEF Spec, KeepsPromise, Promise!Spec, Published

----------------------------------------------------------------------------

\* Between runs the engine has no job, so that no step of it is a dry run's.
NoJobWhenIdle == phase = "idle" => job = None

\* In a dry run no step changes the effect store, and the model is not asked.
THEOREM DryRunsTouchNothing == Spec => DryRunTouchesNothing
<1>1. Init => Walked /\ NoJobWhenIdle
  BY FirstIsWalked DEF Init, NoJobWhenIdle
<1>2. Walked /\ NoJobWhenIdle /\ [Next]_vars => Walked' /\ NoJobWhenIdle'
  <2> SUFFICES ASSUME Walked, NoJobWhenIdle, [Next]_vars
               PROVE  NoJobWhenIdle'
    BY EveryStepKeepsWalked
  <2>1. CASE UNCHANGED <<phase, job>>
    BY <2>1 DEF NoJobWhenIdle
  <2>2. CASE phase' = "idle" /\ job' = None
    BY <2>2 DEF NoJobWhenIdle
  <2>3. CASE phase' \in {"running", "finishing"}
    BY <2>3 DEF NoJobWhenIdle
  <2> QED
    BY <2>1, <2>2, <2>3
    DEF Next, Walk, vars, Arm, Begin, Drop, RunModule, Route, ApplyEffect, RunSaga, RunAI, Timeout, AbortSaga, Raise,
        Finish, Replay, Ends, Done
<1>3. Walked /\ NoJobWhenIdle /\ [Next]_vars =>
        [job # None /\ job.dry =>
            /\ UNCHANGED effects
            /\ \A n \in Names : out'[n] # out[n] => out'[n] # "done" \/ job.pipe.kind[n] # "ai"]_vars
  <2> DEFINE Unasked(m) == out'[m] # out[m] => out'[m] # "done" \/ job.pipe.kind[m] # "ai"
  <2> SUFFICES ASSUME Walked, NoJobWhenIdle, [Next]_vars, job # None, job.dry
               PROVE  effects' = effects /\ \A m \in Names : Unasked(m)
    OBVIOUS
  <2>1. phase # "idle" /\ DOMAIN out = Names
    BY DEF NoJobWhenIdle, Walked, RunTyped, Walking
  <2>2. CASE UNCHANGED <<effects, out>>
    BY <2>2
  <2>3. ASSUME NEW n, NEW o, NEW s, Done(n, o, s), o # "done" \/ job.pipe.kind[n] # "ai"
        PROVE  \A m \in Names : Unasked(m)
    BY <2>1, <2>3 DEF Done
  <2>4. ASSUME NEW n, RunModule(n) \/ RunSaga(n) \/ Route(n) \/ RunAI(n) \/ ApplyEffect(n)
        PROVE  \E o, s : Done(n, o, s) /\ effects' = effects /\ (o # "done" \/ job.pipe.kind[n] # "ai")
    BY <2>4 DEF RunModule, RunSaga, Route, RunAI, ApplyEffect, stores
  <2>5. ASSUME NEW n, Timeout(n)
        PROVE  FALSE
    BY <2>5 DEF Timeout
  <2>6. CASE UNCHANGED vars \/ Arm \/ Begin \/ Replay \/ Drop \/ Finish \/ \E n \in Names : AbortSaga(n) \/ Raise(n)
    BY <2>1, <2>2, <2>6 DEF vars, Arm, Begin, Drop, AbortSaga, Raise, Finish, Replay, progress, stores
  <2> HIDE DEF Unasked
  <2> QED
    BY <2>3, <2>4, <2>5, <2>6 DEF Next, Walk
<1> QED
  BY <1>1, <1>2, <1>3, PTL DEF Spec, DryRunTouchesNothing

----------------------------------------------------------------------------
(* Snapshots *)

IsForeign(id) == \E blob \in ForeignBlobs : blob.id = id
Stores == DOMAIN snapshots

\* No id of the engine's own is ahead of the counter it is made of, so the next
\* one is new unless it is a foreign row's.
IdsAreCounted ==
    /\ IsFiniteSet(Stores)
    /\ \A id \in Stores : IsForeign(id) \/ (id[2] \in Nat /\ id[2] <= Cardinality(Stores))

\* A row is a foreign one or that of a run that was completed here.
IsRow(blob) ==
    /\ ExecutionFields \cup {"kind"} \subseteq DOMAIN blob.of
    /\ blob \in ForeignBlobs \/ \E j \in Completed : blob.of = results[j] /\ blob.id = results[j].id

RowsAreKnown == \A blob \in blobs : IsRow(blob)

Sound == Walked /\ IdsAreCounted /\ RowsAreKnown /\ SnapshotsAreSound

LEMMA FirstIsSound ==
    ASSUME Init
    PROVE  Sound
<1>1. Walked
  BY FirstIsWalked
<1>2. results = << >> /\ snapshots = << >> /\ blobs = ForeignBlobs
  BY DEF Init
<1>3. Stores = {} /\ DOMAIN results = {} /\ Completed = {}
  BY <1>2 DEF Stores, Completed
<1>4. IdsAreCounted
  BY <1>3, FS_EmptySet DEF IdsAreCounted
<1>5. RowsAreKnown
  BY <1>2, PipelinesAssumption DEF RowsAreKnown, IsRow
<1>6. SnapshotsAreSound
  BY <1>3 DEF SnapshotsAreSound, OneSnapshotPerRun, OnlyCompletedRunsAreReplayed
<1> QED
  BY <1>1, <1>4, <1>5, <1>6 DEF Sound

\* Storing under an id that is foreign, in use, or the next one.
LEMMA StoredIsCounted ==
    ASSUME IdsAreCounted, NEW id, NEW x, snapshots' = Stored(id, x),
           \/ id \in Stores \/ IsForeign(id)
           \/ id[2] = Cardinality(Stores) + 1
    PROVE  /\ IdsAreCounted' /\ id \in Stores' /\ Stores \subseteq Stores'
           /\ snapshots'[id] = x /\ \A i \in Stores \ {id} : snapshots'[i] = snapshots[i]
<1>1. Stores' = Stores \cup {id} /\ snapshots'[id] = x /\ \A i \in Stores \ {id} : snapshots'[i] = snapshots[i]
  BY DEF Stored, Stores
<1> DEFINE n == Cardinality(Stores)
<1> DEFINE m == Cardinality(Stores \cup {id})
<1>2. /\ IsFiniteSet(Stores \cup {id}) /\ n \in Nat /\ m \in Nat
      /\ m = IF id \in Stores THEN n ELSE n + 1
  BY FS_AddElement, FS_CardinalityType DEF IdsAreCounted
<1>3. \A i \in Stores : IsForeign(i) \/ (i[2] \in Nat /\ i[2] <= n)
  BY DEF IdsAreCounted
<1>4. id \in Stores \/ IsForeign(id) \/ id[2] = n + 1
  OBVIOUS
<1> HIDE DEF n, m
<1>5. n <= m
  BY <1>2
<1>6. ASSUME NEW i \in Stores \cup {id}
      PROVE  IsForeign(i) \/ (i[2] \in Nat /\ i[2] <= m)
  <2>1. CASE i \in Stores
    BY <1>2, <1>3, <1>5, <2>1
  <2>2. CASE i \notin Stores
    BY <1>2, <1>4, <2>2
  <2> QED
    BY <2>1, <2>2
<1>7. Stores' = Stores \cup {id} /\ Cardinality(Stores') = m
  BY <1>1 DEF m
<1>8. \A i \in Stores' : IsForeign(i) \/ (i[2] \in Nat /\ i[2] <= Cardinality(Stores'))
  BY <1>6, <1>7
<1>9. IsFiniteSet(Stores')
  BY <1>2, <1>7
<1>10. IdsAreCounted'
  BY <1>8, <1>9 DEF IdsAreCounted, IsForeign
<1> QED
  BY <1>1, <1>10

\* Results are only appended: a row stays known.
LEMMA RowsStayKnown ==
    ASSUME Walked, NEW blob, IsRow(blob),
           results' = results \/ \E x : results' = Append(results, x)
    PROVE  IsRow(blob)'
<1>1. \A j \in Completed : j \in Completed' /\ results'[j] = results[j]
  <2>1. ASSUME NEW x, results' = Append(results, x)
        PROVE  \A j \in Completed : j \in Completed' /\ results'[j] = results[j]
    BY <2>1, AppendedCompletes DEF Completed
  <2>2. CASE results' = results
    BY <2>2 DEF Completed
  <2> QED
    BY <2>1, <2>2
<1> QED
  BY <1>1 DEF IsRow

\* A result of another kind than "replayed" needs no run before it.
LEMMA AppendedIsNotReplayed ==
    ASSUME Walked, OnlyCompletedRunsAreReplayed, NEW x, results' = Append(results, x),
           x.kind = "replayed" =>
               \/ \E j \in Completed : Execution(results[j]) = Execution(x)
               \/ \E blob \in ForeignBlobs : Execution(blob.of) = Execution(x)
    PROVE  OnlyCompletedRunsAreReplayed'
<1>1. /\ Len(results) \in Nat /\ DOMAIN results = 1 .. Len(results) /\ DOMAIN results' = 1 .. Len(results) + 1
      /\ \A i \in DOMAIN results : results'[i] = results[i]
      /\ results'[Len(results) + 1] = x /\ Completed \subseteq Completed' /\ Completed \subseteq DOMAIN results
  BY AppendedCompletes DEF Completed
<1> SUFFICES ASSUME NEW i \in DOMAIN results', results'[i].kind = "replayed"
             PROVE  \/ \E j \in Completed' : j < i /\ Execution(results'[j]) = Execution(results'[i])
                    \/ \E blob \in ForeignBlobs : Execution(blob.of) = Execution(results'[i])
  BY DEF OnlyCompletedRunsAreReplayed, Execution
<1>2. CASE i \in DOMAIN results
  <2>1. \/ \E j \in Completed : j < i /\ Execution(results[j]) = Execution(results[i])
        \/ \E blob \in ForeignBlobs : Execution(blob.of) = Execution(results[i])
    BY <1>1, <1>2 DEF OnlyCompletedRunsAreReplayed
  <2> QED
    BY <1>1, <1>2, <2>1
<1>3. CASE i = Len(results) + 1
  <2>1. \A j \in Completed : j < i
    BY <1>1, <1>3
  <2> QED
    BY <1>1, <1>3, <2>1
<1>4. i \in DOMAIN results \/ i = Len(results) + 1
  BY <1>1
<1> QED
  BY <1>2, <1>3, <1>4

\* A step that ends a run without a snapshot, or none.
LEMMA QuietKeepsSound ==
    ASSUME Sound, Walked', snapshots' = snapshots, blobs' = blobs,
           results' = results \/ \E x : results' = Append(results, x) /\ x.kind \notin {"done", "replayed"}
    PROVE  Sound'
<1>1. IdsAreCounted'
  BY DEF Sound, IdsAreCounted, Stores, IsForeign
<1>2. RowsAreKnown'
  <2> SUFFICES ASSUME NEW blob \in blobs
               PROVE  IsRow(blob)'
    BY DEF RowsAreKnown
  <2> QED
    BY RowsStayKnown DEF Sound, RowsAreKnown
<1>3. SnapshotsAreSound'
  <2>1. CASE results' = results
    BY <2>1 DEF Sound, SnapshotsAreSound, OneSnapshotPerRun, OnlyCompletedRunsAreReplayed, Completed, Execution
  <2>2. ASSUME NEW x, results' = Append(results, x), x.kind \notin {"done", "replayed"}
        PROVE  SnapshotsAreSound'
    <3>1. Completed' = Completed /\ \A i \in Completed : results'[i] = results[i]
      BY <2>2, AppendedCompletes DEF Sound, Completed
    <3>2. OneSnapshotPerRun'
      BY <3>1 DEF Sound, SnapshotsAreSound, OneSnapshotPerRun, Execution
    <3>3. OnlyCompletedRunsAreReplayed'
      BY <2>2, AppendedIsNotReplayed DEF Sound, SnapshotsAreSound
    <3> QED
      BY <3>2, <3>3 DEF SnapshotsAreSound
  <2> QED
    BY <2>1, <2>2
<1> QED
  BY <1>1, <1>2, <1>3 DEF Sound

\* The next id is nobody's, but perhaps a foreign row's.
LEMMA FinishKeepsSound ==
    ASSUME Sound, Walked', Finish
    PROVE  Sound'
<1> DEFINE id == NextId(job.pipe)
<1> DEFINE done == [Result("done") EXCEPT !.id = id]
<1> DEFINE failed == [done EXCEPT !.kind = "sink_failed"]
<1>1. /\ snapshots' = Stored(id, done)
      /\ \/ results' = Append(results, done) /\ blobs' = blobs \cup {[id |-> id, of |-> done]}
         \/ results' = Append(results, failed) /\ blobs' = blobs
  BY DEF Finish, Ends
<1>2. /\ done.kind = "done" /\ done.id = id /\ ExecutionFields \cup {"kind"} \subseteq DOMAIN done
      /\ failed.kind = "sink_failed"
  BY DEF Result, ExecutionFields
<1>3. id[2] = Cardinality(Stores) + 1
  BY DEF NextId, Stores
<1> HIDE DEF id, done, failed
<1>4. /\ IdsAreCounted' /\ id \in Stores' /\ Stores \subseteq Stores'
      /\ snapshots'[id] = done /\ \A i \in Stores \ {id} : snapshots'[i] = snapshots[i]
  BY <1>1, <1>3, StoredIsCounted DEF Sound
<1>5. \A i \in Stores : i = id => IsForeign(id)
  <2>1. Cardinality(Stores) \in Nat
    BY FS_CardinalityType DEF Sound, IdsAreCounted
  <2>2. \A i \in Stores : IsForeign(i) \/ (i[2] \in Nat /\ i[2] <= Cardinality(Stores))
    BY DEF Sound, IdsAreCounted
  <2> QED
    BY <1>3, <2>1, <2>2
<1>6. \A i \in Completed :
        \/ IsForeign(results[i].id)
        \/ /\ results[i].id \in Stores /\ results[i].id # id
           /\ Execution(snapshots'[results[i].id]) = Execution(results[i])
           /\ \A j \in Completed : results[i].id = results[j].id => i = j
  <2> SUFFICES ASSUME NEW i \in Completed, ~IsForeign(results[i].id)
               PROVE  /\ results[i].id \in Stores /\ results[i].id # id
                      /\ Execution(snapshots'[results[i].id]) = Execution(results[i])
                      /\ \A j \in Completed : results[i].id = results[j].id => i = j
    OBVIOUS
  <2>1. /\ results[i].id \in Stores /\ Execution(snapshots[results[i].id]) = Execution(results[i])
        /\ \A j \in Completed : results[i].id = results[j].id => i = j
    BY DEF Sound, SnapshotsAreSound, OneSnapshotPerRun, IsForeign, Stores
  <2> QED
    BY <1>4, <1>5, <2>1
<1>7. CASE results' = Append(results, failed) /\ blobs' = blobs
  <2>1. Completed' = Completed /\ \A i \in Completed : results'[i] = results[i]
    BY <1>2, <1>7, AppendedCompletes DEF Sound, Completed
  <2>2. OneSnapshotPerRun'
    BY <1>4, <1>6, <2>1 DEF OneSnapshotPerRun, IsForeign, Stores, Execution
  <2>3. OnlyCompletedRunsAreReplayed'
    BY <1>2, <1>7, AppendedIsNotReplayed DEF Sound, SnapshotsAreSound
  <2>4. RowsAreKnown'
    BY <1>7, RowsStayKnown DEF Sound, RowsAreKnown
  <2> QED
    BY <1>4, <2>2, <2>3, <2>4 DEF Sound, SnapshotsAreSound
<1>8. CASE results' = Append(results, done) /\ blobs' = blobs \cup {[id |-> id, of |-> done]}
  <2> DEFINE n == Len(results) + 1
  <2>1. /\ Completed' = Completed \cup {n} /\ n \notin Completed /\ results'[n] = done
        /\ \A i \in Completed : results'[i] = results[i]
    BY <1>2, <1>8, AppendedCompletes DEF Sound, Completed
  <2> HIDE DEF n
  <2>2. OneSnapshotPerRun'
    <3> SUFFICES ASSUME NEW i \in Completed', ~IsForeign(results'[i].id)
                 PROVE  /\ results'[i].id \in Stores'
                        /\ Execution(snapshots'[results'[i].id]) = Execution(results'[i])
                        /\ \A j \in Completed' : results'[i].id = results'[j].id => i = j
      BY DEF OneSnapshotPerRun, IsForeign, Stores, Execution
    <3>1. CASE i \in Completed
      BY <1>2, <1>4, <1>6, <2>1, <3>1
    <3>2. CASE i = n
      BY <1>2, <1>4, <1>6, <2>1, <3>2
    <3> QED
      BY <2>1, <3>1, <3>2
  <2>3. OnlyCompletedRunsAreReplayed'
    BY <1>2, <1>8, AppendedIsNotReplayed DEF Sound, SnapshotsAreSound
  <2>4. RowsAreKnown'
    <3>1. ASSUME NEW blob \in blobs
          PROVE  IsRow(blob)'
      BY <1>8, RowsStayKnown DEF Sound, RowsAreKnown
    <3>2. ASSUME NEW blob, blob = [id |-> id, of |-> done]
          PROVE  IsRow(blob)'
      <4>1. blob.id = id /\ blob.of = done
        BY <3>2
      <4> QED
        BY <1>2, <2>1, <4>1 DEF IsRow
    <3> QED
      BY <1>8, <3>1, <3>2 DEF RowsAreKnown
  <2> QED
    BY <1>4, <2>2, <2>3, <2>4 DEF Sound, SnapshotsAreSound
<1> QED
  BY <1>1, <1>7, <1>8

\* A row that is put back is a foreign one, or what its id finds already.
LEMMA ReplayKeepsSound ==
    ASSUME Sound, Walked', Replay
    PROVE  Sound'
<1>1. PICK blob \in blobs :
        /\ snapshots' = Stored(blob.id, blob.of)
        /\ \/ results' = results
           \/ results' = Append(results, [snapshots'[blob.id] EXCEPT !.kind = "replayed"])
  BY DEF Replay
<1>2. /\ ExecutionFields \cup {"kind"} \subseteq DOMAIN blob.of
      /\ blob \in ForeignBlobs \/ \E j \in Completed : blob.of = results[j] /\ blob.id = results[j].id
  BY DEF Sound, RowsAreKnown, IsRow
<1>3. blobs' = blobs
  BY DEF Replay
<1>4. blob.id \in Stores \/ IsForeign(blob.id)
  BY <1>2 DEF Sound, SnapshotsAreSound, OneSnapshotPerRun, IsForeign, Stores
<1>5. /\ IdsAreCounted' /\ Stores \subseteq Stores'
      /\ snapshots'[blob.id] = blob.of /\ \A i \in Stores \ {blob.id} : snapshots'[i] = snapshots[i]
  BY <1>1, <1>4, StoredIsCounted DEF Sound
<1> DEFINE x == [blob.of EXCEPT !.kind = "replayed"]
<1>6. x.kind = "replayed" /\ Execution(x) = Execution(blob.of)
  BY <1>2 DEF Execution, ExecutionFields
<1>7. results' = results \/ results' = Append(results, x)
  BY <1>1, <1>5
<1> HIDE DEF x
<1>8. Completed' = Completed /\ \A i \in Completed : results'[i] = results[i]
  <2>1. CASE results' = results
    BY <2>1 DEF Completed
  <2>2. CASE results' = Append(results, x)
    BY <1>6, <2>2, AppendedCompletes DEF Sound, Completed
  <2> QED
    BY <1>7, <2>1, <2>2
<1>9. OneSnapshotPerRun'
  <2> SUFFICES ASSUME NEW i \in Completed, ~IsForeign(results[i].id)
               PROVE  /\ results[i].id \in Stores'
                      /\ Execution(snapshots'[results[i].id]) = Execution(results[i])
                      /\ \A j \in Completed : results[i].id = results[j].id => i = j
    BY <1>8 DEF OneSnapshotPerRun, IsForeign, Stores, Execution
  <2>1. /\ results[i].id \in Stores /\ Execution(snapshots[results[i].id]) = Execution(results[i])
        /\ \A j \in Completed : results[i].id = results[j].id => i = j
    BY DEF Sound, SnapshotsAreSound, OneSnapshotPerRun, IsForeign, Stores
  <2>2. CASE results[i].id = blob.id
    <3>1. blob.of = results[i]
      BY <1>2, <2>1, <2>2 DEF IsForeign
    <3> QED
      BY <1>5, <2>1, <2>2, <3>1
  <2>3. CASE results[i].id # blob.id
    BY <1>5, <2>1, <2>3
  <2> QED
    BY <2>2, <2>3
<1>10. OnlyCompletedRunsAreReplayed'
  <2>1. CASE results' = results
    BY <2>1 DEF Sound, SnapshotsAreSound, OnlyCompletedRunsAreReplayed, Completed, Execution
  <2>2. CASE results' = Append(results, x)
    <3>1. \/ \E j \in Completed : Execution(results[j]) = Execution(x)
          \/ \E row \in ForeignBlobs : Execution(row.of) = Execution(x)
      BY <1>2, <1>6
    <3> QED
      BY <2>2, <3>1, AppendedIsNotReplayed DEF Sound, SnapshotsAreSound
  <2> QED
    BY <1>7, <2>1, <2>2
<1>11. RowsAreKnown'
  BY <1>3, <1>7, RowsStayKnown DEF Sound, RowsAreKnown
<1> QED
  BY <1>5, <1>9, <1>10, <1>11 DEF Sound, SnapshotsAreSound

LEMMA EveryStepKeepsSound ==
    ASSUME Sound, [Next]_vars
    PROVE  Sound'
<1>1. Walked'
  BY EveryStepKeepsWalked DEF Sound
<1>2. ASSUME UNCHANGED vars \/ Arm \/ Begin \/ Drop
      PROVE  Sound'
  BY <1>1, <1>2, QuietKeepsSound DEF vars, Arm, Begin, Drop, stores
<1>3. ASSUME NEW n, RunModule(n) \/ Route(n) \/ ApplyEffect(n) \/ RunSaga(n) \/ RunAI(n) \/ Timeout(n)
      PROVE  Sound'
  BY <1>1, <1>3, QuietKeepsSound DEF RunModule, Route, ApplyEffect, RunSaga, RunAI, Timeout, stores
<1>4. ASSUME NEW n, AbortSaga(n) \/ Raise(n)
      PROVE  Sound'
  <2>1. snapshots' = snapshots /\ blobs' = blobs
    BY <1>4 DEF AbortSaga, Raise
  <2>2. PICK x : results' = Append(results, x) /\ x.kind \in {"aborted", "raised"}
    <3>1. CASE Raise(n)
      BY <3>1 DEF Raise, Ends, Result
    <3>2. CASE AbortSaga(n)
      <4> DEFINE x == [Result("aborted") EXCEPT !.rollback = RollbackOrder(sagas), !.effects = << >>]
      <4>1. x.kind = "aborted"
        BY DEF Result
      <4>2. results' = Append(results, x)
        BY <3>2 DEF AbortSaga, Ends
      <4> HIDE DEF x
      <4> QED
        BY <4>1, <4>2
    <3> QED
      BY <1>4, <3>1, <3>2
  <2> QED
    BY <1>1, <2>1, <2>2, QuietKeepsSound
<1> QED
  BY <1>1, <1>2, <1>3, <1>4, FinishKeepsSound, ReplayKeepsSound DEF Next, Walk

\* What is replayed, and what is found under a run's id later, is what the
\* engine has executed, but for rows of other engines that carry the same id.
THEOREM SoundSnapshots == Spec => []SnapshotsAreSound
<1>1. Init => Sound
  BY FirstIsSound
<1>2. Sound /\ [Next]_vars => Sound'
  BY EveryStepKeepsSound
<1>3. Sound => SnapshotsAreSound
  BY DEF Sound
<1> QED
  BY <1>1, <1>2, <1>3, PTL DEF Spec

----------------------------------------------------------------------------

\* s lists its steps in the order in which t does.
InOrderOf(s, t) ==
    \A i, j \in DOMAIN s, k, l \in DOMAIN t : i < j /\ s[i] = t[k] /\ s[j] = t[l] => k < l

\* The next step is listed behind the others if it is of the kind that is listed.
LEMMA ListGrows ==
    ASSUME NEW s \in Seq(Names), NEW t \in Seq(Names), NEW n \in Names, NEW P,
           In(s) = In(t) \cap P, InOrderOf(s, t), n \notin In(t)
    PROVE  /\ n \in P => In(Append(s, n)) = In(Append(t, n)) \cap P /\ InOrderOf(Append(s, n), Append(t, n))
           /\ n \notin P => In(s) = In(Append(t, n)) \cap P /\ InOrderOf(s, Append(t, n))
<1> DEFINE sn == Append(s, n)
<1> DEFINE tn == Append(t, n)
<1>1. In(sn) = In(s) \cup {n} /\ In(tn) = In(t) \cup {n}
  BY AppendedSteps
<1>2. /\ DOMAIN s = 1 .. Len(s) /\ DOMAIN sn = 1 .. Len(s) + 1 /\ Len(s) \in Nat
      /\ \A i \in 1 .. Len(s) : sn[i] = s[i]
      /\ sn[Len(s) + 1] = n
  OBVIOUS
<1>3. /\ DOMAIN t = 1 .. Len(t) /\ DOMAIN tn = 1 .. Len(t) + 1 /\ Len(t) \in Nat
      /\ \A i \in 1 .. Len(t) : tn[i] = t[i]
      /\ tn[Len(t) + 1] = n
  OBVIOUS
<1> HIDE DEF sn, tn
<1>4. \A i \in 1 .. Len(t) : t[i] # n
  BY <1>3 DEF In, Promise!Steps
<1>5. \A i \in 1 .. Len(s) : s[i] # n /\ s[i] \in In(t)
  BY <1>2 DEF In, Promise!Steps
<1>6. \A i \in 1 .. Len(s), k \in DOMAIN tn : s[i] = tn[k] => k \in 1 .. Len(t) /\ s[i] = t[k]
  BY <1>3, <1>5
<1>7. InOrderOf(s, tn)
  BY <1>2, <1>3, <1>6 DEF InOrderOf
<1>8. InOrderOf(sn, tn)
  <2> SUFFICES ASSUME NEW i \in DOMAIN sn, NEW j \in DOMAIN sn, NEW k \in DOMAIN tn, NEW l \in DOMAIN tn,
                      i < j, sn[i] = tn[k], sn[j] = tn[l]
               PROVE  k < l
    BY DEF InOrderOf
  <2>1. i \in 1 .. Len(s) /\ sn[i] = s[i]
    BY <1>2
  <2>2. k \in 1 .. Len(t) /\ s[i] = t[k]
    BY <1>6, <2>1
  <2>3. CASE j \in 1 .. Len(s)
    <3>1. l \in 1 .. Len(t) /\ s[j] = t[l]
      BY <1>2, <1>6, <2>3
    <3> QED
      BY <1>2, <1>3, <2>1, <2>2, <2>3, <3>1 DEF InOrderOf
  <2>4. CASE j = Len(s) + 1
    BY <1>2, <1>3, <1>4, <2>2, <2>4
  <2> QED
    BY <1>2, <2>3, <2>4
<1> QED
  BY <1>1, <1>7, <1>8 DEF sn, tn

----------------------------------------------------------------------------

\* Every field has its type, also between runs.
FieldsFit ==
    /\ job \in IF phase = "idle" THEN {None} ELSE Jobs
    /\ queue \in Seq(Names) /\ visited \subseteq Names /\ trace \in Seq(Names)
    /\ out \in [Names -> Outputs \cup {None}] /\ payload \in Values \cup {None}
    /\ sagas \in Seq(Names) /\ applied \in Seq(Names)
    /\ armed \in Failures

\* One error for a visited step at most, one result for every run that ended.
CountersFit ==
    /\ errors \in Nat /\ errors <= Cardinality(visited)
    /\ reviews \subseteq 1 .. seq
    /\ seq = Len(results) + (IF phase = "idle" THEN 0 ELSE 1)

OfKind(kind) == {n \in Names : job.pipe.kind[n] = kind}

\* The saga steps to compensate are those of the trace, in its order.
SagasAreListed == Walking => In(sagas) = In(trace) \cap OfKind("saga") /\ InOrderOf(sagas, trace)

Consistent == Sound /\ FieldsFit /\ CountersFit /\ SagasAreListed /\ RollbackMirrorsTrace

LEMMA FirstIsConsistent ==
    ASSUME Init
    PROVE  Consistent
<1>1. Sound /\ results = << >>
  BY FirstIsSound DEF Init
<1>2. FieldsFit
  BY DEF Init, FieldsFit, NoFailure, Failures
<1>3. CountersFit
  BY FS_EmptySet DEF Init, CountersFit
<1>4. SagasAreListed /\ RollbackMirrorsTrace
  BY DEF Init, SagasAreListed, Walking, RollbackMirrorsTrace
<1> QED
  BY <1>1, <1>2, <1>3, <1>4 DEF Consistent

LEMMA VisitedFits ==
    ASSUME Consistent, NEW n, Visits(n)
    PROVE  /\ n \in Names /\ n \notin visited /\ visited = In(trace) /\ Walking
           /\ job \in Jobs /\ job.pipe \in PipelineType /\ payload \in Values
           /\ Cardinality(visited \cup {n}) = Cardinality(visited) + 1 /\ Cardinality(visited) \in Nat
<1>1. Walking /\ n \in Names /\ n \notin visited /\ visited = In(trace) /\ job.pipe \in PipelineType /\ payload \in Values
  BY HeadAndTailSteps DEF Consistent, Sound, Walked, RunTyped, Walking, Visits, Dropped
<1>2. IsFiniteSet(visited)
  BY PipelinesAssumption, FS_Subset DEF Consistent, FieldsFit
<1>3. Cardinality(visited \cup {n}) = Cardinality(visited) + 1 /\ Cardinality(visited) \in Nat
  BY <1>1, <1>2, FS_AddElement, FS_CardinalityType
<1>4. job \in Jobs
  BY DEF Consistent, FieldsFit, Visits
<1> QED
  BY <1>1, <1>3, <1>4

\* An executed step that goes on.
LEMMA DoneFits ==
    ASSUME Consistent, NEW n, NEW o \in Outputs, NEW s \in Seq(Names), Visits(n), Done(n, o, s),
           payload' \in Values, applied' \in Seq(Names), UNCHANGED <<armed, seq, results>>,
           sagas' = IF job.pipe.kind[n] = "saga" THEN Append(sagas, n) ELSE sagas,
           errors' \in errors .. errors + 1, reviews' \subseteq reviews \cup {seq}
    PROVE  FieldsFit' /\ CountersFit' /\ SagasAreListed'
<1>1. /\ n \in Names /\ n \notin visited /\ visited = In(trace) /\ Walking /\ job \in Jobs
      /\ Cardinality(visited \cup {n}) = Cardinality(visited) + 1 /\ Cardinality(visited) \in Nat
  BY VisitedFits
<1>2. FieldsFit /\ CountersFit /\ SagasAreListed
  BY DEF Consistent
<1>3. /\ phase = "running" /\ phase' = "running" /\ job' = job /\ queue # << >>
      /\ queue' = Tail(queue) \o s /\ visited' = visited \cup {n} /\ trace' = Append(trace, n)
      /\ out' = [out EXCEPT ![n] = o]
  BY DEF Visits, Done
<1>4. FieldsFit'
  <2>1. Tail(queue) \in Seq(Names) /\ queue' \in Seq(Names)
    BY <1>2, <1>3, HeadAndTailSteps DEF FieldsFit
  <2>2. trace' \in Seq(Names) /\ sagas' \in Seq(Names)
    BY <1>1, <1>2, <1>3 DEF FieldsFit
  <2>3. out' \in [Names -> Outputs \cup {None}]
    BY <1>1, <1>2, <1>3 DEF FieldsFit
  <2> QED
    BY <1>1, <1>2, <1>3, <2>1, <2>2, <2>3 DEF FieldsFit
<1>5. CountersFit'
  <2>1. /\ seq = Len(results) + 1 /\ Len(results) \in Nat /\ seq \in 1 .. seq
    <3>1. Len(results) \in Nat
      BY DEF Consistent, Sound, Walked, Typed
    <3> QED
      BY <1>2, <1>3, <3>1 DEF CountersFit
  <2>2. errors' \in Nat /\ errors' <= Cardinality(visited')
    BY <1>1, <1>2, <1>3 DEF CountersFit
  <2> QED
    BY <1>2, <1>3, <2>1, <2>2 DEF CountersFit
<1>6. SagasAreListed'
  <2> DEFINE P == OfKind("saga")
  <2>1. In(sagas) = In(trace) \cap P /\ InOrderOf(sagas, trace) /\ n \notin In(trace)
    BY <1>1, <1>2 DEF SagasAreListed
  <2>2. sagas \in Seq(Names) /\ trace \in Seq(Names)
    BY <1>2 DEF FieldsFit
  <2>3. n \in P <=> job.pipe.kind[n] = "saga"
    BY <1>1 DEF OfKind
  <2>4. P' = P
    BY <1>3 DEF OfKind
  <2> HIDE DEF P
  <2>5. /\ n \in P => In(Append(sagas, n)) = In(Append(trace, n)) \cap P /\ InOrderOf(Append(sagas, n), Append(trace, n))
        /\ n \notin P => In(sagas) = In(Append(trace, n)) \cap P /\ InOrderOf(sagas, Append(trace, n))
    BY <1>1, <2>1, <2>2, ListGrows
  <2>6. In(sagas') = In(trace') \cap P /\ InOrderOf(sagas', trace')
    BY <1>3, <2>3, <2>5
  <2> QED
    BY <2>4, <2>6 DEF SagasAreListed, P, In, InOrderOf
<1> QED
  BY <1>4, <1>5, <1>6

LEMMA StepFits ==
    ASSUME Consistent, NEW n, RunModule(n) \/ RunSaga(n) \/ RunAI(n) \/ ApplyEffect(n)
    PROVE  FieldsFit' /\ CountersFit' /\ SagasAreListed'
<1>1. Visits(n) /\ FieldsFit /\ CountersFit
  BY DEF Consistent, RunModule, RunSaga, RunAI, ApplyEffect
<1>2. n \in Names /\ job.pipe \in PipelineType /\ payload \in Values
  BY <1>1, VisitedFits
<1>3. Succ(n) \in Seq(Names)
  BY <1>2 DEF Succ, PipelineType
<1>4. PICK o \in Outputs : Done(n, o, Succ(n))
  BY DEF RunModule, RunSaga, RunAI, ApplyEffect, Outputs
<1>5. /\ payload' \in Values /\ UNCHANGED <<armed, seq, results, reviews>>
  BY <1>2 DEF RunModule, RunSaga, RunAI, ApplyEffect, stores
<1>6. applied' \in Seq(Names)
  <2>1. applied \in Seq(Names) /\ Append(applied, n) \in Seq(Names)
    BY <1>1, <1>2 DEF FieldsFit
  <2>2. applied' = applied \/ applied' = Append(applied, n)
    BY DEF RunModule, RunSaga, RunAI, ApplyEffect
  <2> QED
    BY <2>1, <2>2
<1>7. sagas' = IF job.pipe.kind[n] = "saga" THEN Append(sagas, n) ELSE sagas
  BY DEF RunModule, RunSaga, RunAI, ApplyEffect
<1>8. errors' \in errors .. errors + 1
  BY <1>1 DEF CountersFit, RunModule, RunSaga, RunAI, ApplyEffect
<1>9. reviews' \subseteq reviews \cup {seq}
  BY <1>5
<1> QED
  BY <1>1, <1>3, <1>4, <1>5, <1>6, <1>7, <1>8, <1>9, DoneFits

LEMMA RouteFits ==
    ASSUME Consistent, NEW n, Route(n)
    PROVE  FieldsFit' /\ CountersFit' /\ SagasAreListed'
<1>1. PICK route \in PossibleRoutes : Done(n, route, AfterRouting(n, route))
  BY DEF Route
<1>2. /\ Visits(n) /\ FieldsFit /\ CountersFit /\ job.pipe.kind[n] = "routing"
      /\ UNCHANGED <<payload, sagas, applied, errors, armed, seq, results>>
      /\ reviews' \subseteq reviews \cup {seq}
  BY DEF Consistent, Route
<1>3. n \in Names /\ job.pipe \in PipelineType /\ payload \in Values
  BY <1>2, VisitedFits
<1>4. route \in Outputs
  BY DEF PossibleRoutes, Outputs, Routes
<1>5. AfterRouting(n, route) \in Seq(Names)
  BY <1>3 DEF AfterRouting, Succ, PipelineType
<1>6. errors' \in errors .. errors + 1 /\ applied' \in Seq(Names)
  BY <1>2 DEF CountersFit, FieldsFit
<1>7. sagas' = IF job.pipe.kind[n] = "saga" THEN Append(sagas, n) ELSE sagas
  BY <1>2
<1>8. payload' \in Values /\ UNCHANGED <<armed, seq, results>>
  BY <1>2, <1>3
<1> QED
  BY <1>1, <1>2, <1>4, <1>5, <1>6, <1>7, <1>8, DoneFits

LEMMA TimeoutFits ==
    ASSUME Consistent, NEW n, Timeout(n)
    PROVE  FieldsFit' /\ CountersFit' /\ SagasAreListed'
<1>1. /\ Visits(n) /\ FieldsFit /\ CountersFit /\ SagasAreListed /\ job.pipe.kind[n] = "ai"
      /\ phase' = "finishing" /\ UNCHANGED <<job, queue, payload, sagas, applied, armed, reviews, seq, results>>
      /\ trace' = Append(trace, n) /\ out' = [out EXCEPT ![n] = "timeout"] /\ visited' = visited \cup {n}
      /\ errors' = errors + 1 /\ phase = "running"
  BY DEF Consistent, Timeout, Visits, stores
<1>2. /\ n \in Names /\ n \notin visited /\ visited = In(trace) /\ Walking /\ job \in Jobs
      /\ Cardinality(visited \cup {n}) = Cardinality(visited) + 1 /\ Cardinality(visited) \in Nat
  BY <1>1, VisitedFits
<1>3. trace' \in Seq(Names) /\ out' \in [Names -> Outputs \cup {None}]
  BY <1>1, <1>2 DEF FieldsFit, Outputs
<1>4. FieldsFit'
  BY <1>1, <1>2, <1>3 DEF FieldsFit
<1>5. CountersFit'
  BY <1>1, <1>2 DEF CountersFit
<1>6. SagasAreListed'
  <2> DEFINE P == OfKind("saga")
  <2>1. In(sagas) = In(trace) \cap P /\ InOrderOf(sagas, trace) /\ n \notin In(trace)
    BY <1>1, <1>2 DEF SagasAreListed
  <2>2. sagas \in Seq(Names) /\ trace \in Seq(Names)
    BY <1>1 DEF FieldsFit
  <2>3. n \notin P /\ P' = P
    BY <1>1 DEF OfKind
  <2> HIDE DEF P
  <2>4. In(sagas) = In(Append(trace, n)) \cap P /\ InOrderOf(sagas, Append(trace, n))
    BY <1>2, <2>1, <2>2, <2>3, ListGrows
  <2>5. In(sagas') = In(trace') \cap P /\ InOrderOf(sagas', trace')
    BY <1>1, <2>4
  <2> QED
    BY <2>3, <2>5 DEF SagasAreListed, P, In, InOrderOf
<1> QED
  BY <1>4, <1>5, <1>6

\* A step that is no step of the walk, or drops a name from the queue.
LEMMA IdleStepFits ==
    ASSUME Consistent, Arm \/ Begin \/ Drop \/ UNCHANGED vars
    PROVE  FieldsFit' /\ CountersFit' /\ SagasAreListed'
<1>1. /\ FieldsFit /\ CountersFit /\ SagasAreListed
      /\ Len(results) \in Nat /\ seq \in Nat
  BY DEF Consistent, CountersFit, Sound, Walked, Typed
<1>2. CASE Arm
  <2>1. armed' \in Failures
    <3>1. PICK n \in Names, which \in {"saga", "compensation"} : armed' = [armed EXCEPT ![which] = n]
      BY <1>2 DEF Arm
    <3> QED
      BY <1>1, <3>1 DEF FieldsFit, Failures
  <2> QED
    BY <1>1, <1>2, <2>1 DEF Arm, progress, FieldsFit, CountersFit, SagasAreListed, Walking
<1>3. CASE Begin
  <2>1. PICK p \in Pipelines, t \in Tenants, dry \in BOOLEAN, bound \in BOOLEAN, review \in BOOLEAN, v \in Values :
          /\ job' = [pipe |-> p, tenant |-> t, dry |-> dry, bound |-> bound, review |-> review, fail |-> armed]
          /\ payload' = v
          /\ queue' = p.entry
    BY <1>3 DEF Begin
  <2>2. job' \in Jobs /\ p.entry \in Seq(Names) /\ NoFailure \in Failures
    BY <1>1, <2>1, PipelinesAssumption DEF FieldsFit, Jobs, PipelineType, NoFailure, Failures
  <2>3. /\ phase = "idle" /\ phase' = "running" /\ armed' = NoFailure /\ seq' = seq + 1
        /\ visited' = {} /\ trace' = << >> /\ out' = [n \in Names |-> None]
        /\ sagas' = << >> /\ applied' = << >> /\ errors' = 0 /\ UNCHANGED <<reviews, results>>
    BY <1>3 DEF Begin
  <2>4. FieldsFit'
    BY <2>1, <2>2, <2>3 DEF FieldsFit
  <2>5. Cardinality({}) = 0
    BY FS_EmptySet
  <2>6. CountersFit'
    BY <1>1, <2>3, <2>5 DEF CountersFit
  <2>7. SagasAreListed'
    BY <2>3 DEF SagasAreListed, In, Promise!Steps, InOrderOf, OfKind
  <2> QED
    BY <2>4, <2>6, <2>7
<1>4. CASE Drop
  <2>1. /\ phase = "running" /\ queue # << >> /\ queue' = Tail(queue)
        /\ UNCHANGED <<phase, job, visited, trace, out, payload, sagas, applied, errors, armed, reviews, seq, results>>
    BY <1>4 DEF Drop, stores
  <2>2. queue' \in Seq(Names)
    BY <1>1, <2>1, HeadAndTailSteps DEF FieldsFit
  <2>3. FieldsFit' /\ CountersFit'
    BY <1>1, <2>1, <2>2 DEF FieldsFit, CountersFit
  <2>4. SagasAreListed'
    BY <1>1, <2>1 DEF SagasAreListed, Walking, In, InOrderOf, OfKind
  <2> QED
    BY <2>3, <2>4
<1>5. CASE UNCHANGED vars
  BY <1>1, <1>5 DEF vars, FieldsFit, CountersFit, SagasAreListed, Walking, In, InOrderOf, OfKind
<1> QED
  BY <1>2, <1>3, <1>4, <1>5

\* A run ends, or a replay returns a result.
LEMMA EndFits ==
    ASSUME Consistent, UNCHANGED <<progress, reviews>>, phase' = "idle", job' = None, armed' \in Failures,
           \/ UNCHANGED <<results, seq>> /\ phase = "idle"
           \/ /\ \E x : results' = Append(results, x)
              /\ seq' = IF phase = "idle" THEN seq + 1 ELSE seq
    PROVE  FieldsFit' /\ CountersFit' /\ SagasAreListed'
<1>1. FieldsFit /\ CountersFit /\ Len(results) \in Nat
  BY DEF Consistent, Sound, Walked, Typed
<1>2. FieldsFit'
  BY <1>1 DEF FieldsFit, progress
<1>3. CountersFit'
  <2>1. CASE UNCHANGED <<results, seq>> /\ phase = "idle"
    BY <1>1, <2>1 DEF CountersFit, progress
  <2>2. ASSUME NEW x, results' = Append(results, x), seq' = IF phase = "idle" THEN seq + 1 ELSE seq
        PROVE  CountersFit'
    <3>1. PICK S : results \in Seq(S)
      BY DEF Consistent, Sound, Walked, Typed
    <3>2. results' \in Seq(S \cup {x}) /\ DOMAIN results' = 1 .. Len(results) + 1
      BY <2>2, <3>1, AnyAppended
    <3>3. Len(results') = Len(results) + 1
      BY <1>1, <3>2
    <3>4. seq' = Len(results') /\ seq \in Nat /\ seq <= seq'
      BY <1>1, <2>2, <3>3 DEF CountersFit
    <3> QED
      BY <1>1, <3>4 DEF CountersFit, progress
  <2> QED
    BY <2>1, <2>2
<1>4. SagasAreListed'
  BY DEF SagasAreListed, Walking
<1> QED
  BY <1>2, <1>3, <1>4

\* A result that is not of an aborted run is no compensation.
LEMMA RollbacksStay ==
    ASSUME Consistent, results' = results \/ \E x : results' = Append(results, x) /\ x.kind # "aborted"
    PROVE  RollbackMirrorsTrace'
<1> DEFINE Sum == {results[i] : i \in DOMAIN results}
<1>1. CASE results' = results
  BY <1>1 DEF Consistent, RollbackMirrorsTrace
<1>2. ASSUME NEW x, results' = Append(results, x), x.kind # "aborted"
      PROVE  RollbackMirrorsTrace'
  <2>1. {results'[i] : i \in DOMAIN results'} \subseteq Sum \cup {x}
    BY <1>2, AppendedCompletes DEF Consistent, Sound
  <2> HIDE DEF Sum
  <2> SUFFICES ASSUME NEW r \in Sum, r.kind = "aborted"
               PROVE  /\ {r.rollback[i] : i \in DOMAIN r.rollback}
                            = {n \in {r.trace[k] : k \in DOMAIN r.trace} : r.pipe.kind[n] = "saga"}
                      /\ \A i, j \in DOMAIN r.rollback, k, l \in DOMAIN r.trace :
                            i < j /\ r.rollback[i] = r.trace[k] /\ r.rollback[j] = r.trace[l] => l < k
    BY <1>2, <2>1 DEF RollbackMirrorsTrace
  <2> QED
    BY DEF Consistent, RollbackMirrorsTrace, Sum
<1> QED
  BY <1>1, <1>2

\* Compensation walks the list of the executed saga steps backwards.
LEMMA AbortMirrors ==
    ASSUME Consistent, NEW n, AbortSaga(n)
    PROVE  RollbackMirrorsTrace'
<1> DEFINE back == Reversed(sagas)
<1> DEFINE x == [Result("aborted") EXCEPT !.rollback = RollbackOrder(sagas), !.effects = << >>]
<1> DEFINE Sum == {results[i] : i \in DOMAIN results}
<1>1. x.rollback = back /\ x.trace = trace /\ x.pipe = job.pipe
  BY DEF Result, RollbackOrder
<1>2. results' = Append(results, x)
  BY DEF AbortSaga, Ends
<1> HIDE DEF x
<1>3. /\ sagas \in Seq(Names) /\ trace \in Seq(Names)
      /\ In(sagas) = In(trace) \cap OfKind("saga") /\ InOrderOf(sagas, trace)
  BY VisitedFits DEF AbortSaga, Consistent, FieldsFit, SagasAreListed
<1>4. /\ DOMAIN sagas = 1 .. Len(sagas) /\ DOMAIN back = 1 .. Len(sagas) /\ Len(sagas) \in Nat
      /\ \A i \in 1 .. Len(sagas) : back[i] = sagas[Len(sagas) + 1 - i] /\ Len(sagas) + 1 - i \in 1 .. Len(sagas)
  BY <1>3 DEF Reversed
<1> HIDE DEF back
<1>5. {back[i] : i \in DOMAIN back} = In(sagas)
  <2>1. ASSUME NEW i \in 1 .. Len(sagas)
        PROVE  \E j \in DOMAIN back : sagas[i] = back[j]
    <3>1. Len(sagas) + 1 - i \in 1 .. Len(sagas) /\ Len(sagas) + 1 - (Len(sagas) + 1 - i) = i
      BY <1>4
    <3> QED
      BY <1>4, <3>1
  <2>2. \A j \in DOMAIN back : \E i \in DOMAIN sagas : back[j] = sagas[i]
    BY <1>4
  <2>3. \A i \in DOMAIN sagas : \E j \in DOMAIN back : sagas[i] = back[j]
    BY <1>4, <2>1
  <2> QED
    BY <2>2, <2>3 DEF In, Promise!Steps
<1>6. In(trace) \cap OfKind("saga") = {m \in {trace[k] : k \in DOMAIN trace} : job.pipe.kind[m] = "saga"}
  BY <1>3, StepsAreMembers DEF OfKind, In, Promise!Steps
<1>7. \A i, j \in DOMAIN back, k, l \in DOMAIN trace : i < j /\ back[i] = trace[k] /\ back[j] = trace[l] => l < k
  <2> SUFFICES ASSUME NEW i \in DOMAIN back, NEW j \in DOMAIN back, NEW k \in DOMAIN trace, NEW l \in DOMAIN trace,
                      i < j, back[i] = trace[k], back[j] = trace[l]
               PROVE  l < k
    OBVIOUS
  <2>1. /\ Len(sagas) + 1 - j < Len(sagas) + 1 - i
        /\ Len(sagas) + 1 - j \in DOMAIN sagas /\ Len(sagas) + 1 - i \in DOMAIN sagas
        /\ sagas[Len(sagas) + 1 - j] = trace[l] /\ sagas[Len(sagas) + 1 - i] = trace[k]
    BY <1>4
  <2> QED
    BY <1>3, <2>1 DEF InOrderOf
<1>8. {results'[i] : i \in DOMAIN results'} \subseteq Sum \cup {x}
  BY <1>2, AppendedCompletes DEF Consistent, Sound
<1> HIDE DEF Sum
<1> SUFFICES ASSUME NEW r \in Sum \cup {x}, r.kind = "aborted"
             PROVE  /\ {r.rollback[i] : i \in DOMAIN r.rollback}
                          = {m \in {r.trace[k] : k \in DOMAIN r.trace} : r.pipe.kind[m] = "saga"}
                    /\ \A i, j \in DOMAIN r.rollback, k, l \in DOMAIN r.trace :
                          i < j /\ r.rollback[i] = r.trace[k] /\ r.rollback[j] = r.trace[l] => l < k
  BY <1>8 DEF RollbackMirrorsTrace
<1>9. CASE r \in Sum
  BY <1>9 DEF Consistent, RollbackMirrorsTrace, Sum
<1>10. CASE r = x
  <2>1. r.rollback = back /\ r.trace = trace /\ r.pipe = job.pipe
    BY <1>1, <1>10
  <2>2. {r.rollback[i] : i \in DOMAIN r.rollback}
            = {m \in {r.trace[k] : k \in DOMAIN r.trace} : r.pipe.kind[m] = "saga"}
    BY <1>3, <1>5, <1>6, <2>1
  <2> QED
    BY <1>7, <2>1, <2>2
<1> QED
  BY <1>9, <1>10

LEMMA EveryStepKeepsConsistent ==
    ASSUME Consistent, [Next]_vars
    PROVE  Consistent'
<1>1. Sound'
  BY EveryStepKeepsSound DEF Consistent
<1>2. ASSUME Arm \/ Begin \/ Drop \/ UNCHANGED vars
      PROVE  Consistent'
  <2>1. results' = results
    BY <1>2 DEF Arm, Begin, Drop, stores, vars
  <2> QED
    BY <1>1, <1>2, <2>1, IdleStepFits, RollbacksStay DEF Consistent
<1>3. ASSUME NEW n, RunModule(n) \/ RunSaga(n) \/ RunAI(n) \/ ApplyEffect(n) \/ Route(n) \/ Timeout(n)
      PROVE  Consistent'
  <2>1. results' = results
    BY <1>3 DEF RunModule, RunSaga, RunAI, ApplyEffect, Route, Timeout, stores
  <2> QED
    BY <1>1, <1>3, <2>1, StepFits, RouteFits, TimeoutFits, RollbacksStay DEF Consistent
<1>4. ASSUME NEW n, AbortSaga(n) \/ Raise(n)
      PROVE  Consistent'
  <2>1. /\ phase # "idle" /\ phase' = "idle" /\ job' = None /\ UNCHANGED <<progress, reviews, armed, seq>>
        /\ \E x : results' = Append(results, x)
    BY <1>4 DEF AbortSaga, Raise, Ends, Visits
  <2>2. armed' \in Failures
    BY <2>1 DEF Consistent, FieldsFit
  <2>3. FieldsFit' /\ CountersFit' /\ SagasAreListed'
    BY <2>1, <2>2, EndFits
  <2>4. CASE Raise(n)
    <3>1. results' = Append(results, Result("raised")) /\ Result("raised").kind # "aborted"
      BY <2>4 DEF Raise, Ends, Result
    <3> QED
      BY <1>1, <2>3, <3>1, RollbacksStay DEF Consistent
  <2>5. CASE AbortSaga(n)
    BY <1>1, <2>3, <2>5, AbortMirrors DEF Consistent
  <2> QED
    BY <1>4, <2>4, <2>5
<1>5. ASSUME Finish
      PROVE  Consistent'
  <2> DEFINE done == [Result("done") EXCEPT !.id = NextId(job.pipe)]
  <2> DEFINE failed == [done EXCEPT !.kind = "sink_failed"]
  <2>1. /\ phase # "idle" /\ phase' = "idle" /\ job' = None /\ UNCHANGED <<progress, reviews, armed, seq>>
        /\ results' = Append(results, done) \/ results' = Append(results, failed)
    BY <1>5 DEF Finish, Ends
  <2>2. done.kind # "aborted" /\ failed.kind # "aborted"
    BY DEF Result
  <2> HIDE DEF done, failed
  <2>3. armed' \in Failures
    BY <2>1 DEF Consistent, FieldsFit
  <2>4. FieldsFit' /\ CountersFit' /\ SagasAreListed'
    BY <2>1, <2>3, EndFits
  <2> QED
    BY <1>1, <2>1, <2>2, <2>4, RollbacksStay DEF Consistent
<1>6. ASSUME Replay
      PROVE  Consistent'
  <2>1. PICK blob \in blobs :
          /\ snapshots' = Stored(blob.id, blob.of)
          /\ \/ UNCHANGED <<seq, results>>
             \/ seq' = seq + 1 /\ results' = Append(results, [snapshots'[blob.id] EXCEPT !.kind = "replayed"])
    BY <1>6 DEF Replay
  <2> DEFINE x == [snapshots'[blob.id] EXCEPT !.kind = "replayed"]
  <2>2. x.kind = "replayed"
    <3>1. snapshots'[blob.id] = blob.of /\ "kind" \in DOMAIN blob.of
      BY <2>1 DEF Consistent, Sound, Walked, Typed, Stored
    <3> QED
      BY <3>1
  <2>3. UNCHANGED <<seq, results>> \/ (seq' = seq + 1 /\ results' = Append(results, x))
    BY <2>1
  <2> HIDE DEF x
  <2>4. /\ phase = "idle" /\ phase' = "idle" /\ job' = job /\ armed' = NoFailure /\ UNCHANGED <<progress, reviews>>
    BY <1>6 DEF Replay
  <2>5. job' = None /\ armed' \in Failures
    BY <2>4 DEF Consistent, FieldsFit, NoFailure, Failures
  <2>6. FieldsFit' /\ CountersFit' /\ SagasAreListed'
    BY <2>3, <2>4, <2>5, EndFits
  <2> QED
    BY <1>1, <2>2, <2>3, <2>6, RollbacksStay DEF Consistent
<1> QED
  BY <1>2, <1>3, <1>4, <1>5, <1>6 DEF Next, Walk

\* Between any two steps the engine's state has its types and its counters
\* agree, and a compensation undoes exactly the saga steps of the trace, the
\* last one first.
THEOREM ConsistentEngine == Spec => []EngineIsConsistent
<1>1. Init => Consistent
  BY FirstIsConsistent
<1>2. Consistent /\ [Next]_vars => Consistent'
  BY EveryStepKeepsConsistent
<1>3. Consistent => EngineIsConsistent
  <2> SUFFICES ASSUME Consistent
               PROVE  TypeOK
    BY DEF Consistent, EngineIsConsistent
  <2>1. errors \in 0 .. Cardinality(Names)
    <3>1. Cardinality(visited) <= Cardinality(Names) /\ Cardinality(visited) \in Nat /\ Cardinality(Names) \in Nat
      BY PipelinesAssumption, FS_Subset, FS_CardinalityType DEF Consistent, FieldsFit
    <3> QED
      BY <3>1 DEF Consistent, CountersFit
  <2>2. \A id \in DOMAIN snapshots : id[2] \in Nat
    BY PipelinesAssumption DEF Consistent, Sound, IdsAreCounted, Stores, IsForeign
  <2>3. phase \in {"idle", "running", "finishing"} /\ effects \in [Keys -> Effects \cup {None}]
    BY DEF Consistent, Sound, Walked, Typed
  <2> QED
    BY <2>1, <2>2, <2>3 DEF Consistent, FieldsFit, CountersFit, TypeOK
<1> QED
  BY <1>1, <1>2, <1>3, PTL DEF Spec

----------------------------------------------------------------------------
(* The compiler: what its loops compute *)

\* A set of numbers that has a member has a least one.
LEMMA LeastNumber ==
    ASSUME NEW S, S \subseteq Nat, S # {}
    PROVE  \E m \in S : \A k \in S : m <= k
<1> DEFINE less == OpToRel(<, Nat)
<1>1. IsWellFoundedOn(less, Nat)
  BY NatLessThanWellFounded
<1>2. \A a, b \in Nat : a < b => <<a, b>> \in less
  BY DEF OpToRel
<1> HIDE DEF less
<1>3. PICK m \in S : \A k \in S : ~(<<k, m>> \in less)
  BY <1>1, WFMin
<1>4. \A k \in S : ~(k < m)
  BY <1>2, <1>3
<1> QED
  BY <1>3, <1>4

\* Induction over the rounds of a loop.
LEMMA Induction ==
    ASSUME NEW S, 0 \in S, \A n \in Nat : n \in S => n + 1 \in S
    PROVE  Nat \subseteq S
<1> DEFINE Bad == Nat \ S
<1>1. CASE Bad # {}
  <2>1. PICK m \in Bad : \A k \in Bad : m <= k
    BY <1>1, LeastNumber
  <2>2. m # 0 /\ m - 1 \in Nat /\ m - 1 \notin Bad
    BY <2>1
  <2>3. m - 1 \in S /\ (m - 1) + 1 = m
    BY <2>2
  <2> QED
    BY <2>1, <2>2, <2>3
<1> QED
  BY <1>1

Runs(g, N, start, round) == g[0] = start /\ \A n \in 1 .. N : g[n] = round[g[n - 1]]

\* A loop whose rounds stay in a set of states runs as often as asked.
LEMMA LoopRuns ==
    ASSUME NEW N \in Nat, NEW V, NEW start \in V, NEW round \in [V -> V]
    PROVE  \E g \in [0 .. N -> V] : Runs(g, N, start, round)
<1> DEFINE S == {m \in Nat : \E g \in [0 .. m -> V] : Runs(g, m, start, round)}
<1>1. 0 \in S
  <2>1. [n \in 0 .. 0 |-> start] \in [0 .. 0 -> V] /\ Runs([n \in 0 .. 0 |-> start], 0, start, round)
    BY DEF Runs
  <2> QED
    BY <2>1
<1>2. ASSUME NEW m \in Nat, m \in S PROVE m + 1 \in S
  <2>1. PICK g \in [0 .. m -> V] : Runs(g, m, start, round)
    BY <1>2
  <2> DEFINE h == [n \in 0 .. m + 1 |-> IF n = m + 1 THEN round[g[m]] ELSE g[n]]
  <2>2. h[0] = start /\ \A n \in 1 .. m + 1 : h[n] = round[h[n - 1]]
    BY <2>1 DEF Runs
  <2>3. h \in [0 .. m + 1 -> V]
    BY <2>1
  <2> HIDE DEF h
  <2>4. \E f \in [0 .. m + 1 -> V] : Runs(f, m + 1, start, round)
    BY <2>2, <2>3 DEF Runs
  <2> QED
    BY <2>4
<1>3. N \in S
  BY <1>1, <1>2, Induction
<1> QED
  BY <1>3

\* A set every member of which is a successor of a member is closed under succ.
LEMMA ReachedFromWithin ==
    ASSUME NEW R, IsFiniteSet(R), NEW succ,
           \A r \in R : \E p \in R : p \in DOMAIN succ /\ succ[p] = r
    PROVE  R \subseteq DOMAIN succ /\ \A r \in R : succ[r] \in R
<1> DEFINE D == {p \in R : p \in DOMAIN succ /\ succ[p] \in R}
<1> DEFINE f == [p \in D |-> succ[p]]
<1>1. D \subseteq R /\ IsFiniteSet(D) /\ Cardinality(D) <= Cardinality(R)
      /\ (Cardinality(D) = Cardinality(R) => D = R)
  BY FS_Subset
<1>2. f \in Surjection(D, R)
  <2>1. f \in [D -> R]
    OBVIOUS
  <2>2. \A r \in R : \E p \in D : f[p] = r
    OBVIOUS
  <2> QED
    BY <2>1, <2>2 DEF Surjection
<1>3. Cardinality(R) <= Cardinality(D)
  BY <1>1, <1>2, FS_Surjection
<1>4. Cardinality(R) \in Nat /\ Cardinality(D) \in Nat
  BY <1>1, FS_CardinalityType
<1>5. D = R
  BY <1>1, <1>3, <1>4
<1> QED
  BY <1>5

\* The walk that optimize_ir makes, as the solution of its recursion.
IsWalk(g, next, from) ==
    g = [k \in 0 .. Cardinality(DOMAIN next) |->
           IF k = 0 THEN [seen |-> {}, queue |-> from] ELSE WalkRound(next, g[k - 1])]

WalkStates(next) == [seen : SUBSET DOMAIN next, queue : SUBSET DOMAIN next]
ClosedUnder(next, set) == \A n \in set : next[n] \cap DOMAIN next \subseteq set

\* After k rounds: k nodes are seen or nothing is queued, no queued node is seen,
\* and what is seen leads to what is seen or queued.
WalkInv(next, from, s, k) ==
    /\ s \in WalkStates(next)
    /\ s.seen \cap s.queue = {}
    /\ from \subseteq s.seen \cup s.queue
    /\ \A n \in s.seen : next[n] \cap DOMAIN next \subseteq s.seen \cup s.queue
    /\ \A set \in SUBSET DOMAIN next :
         from \subseteq set /\ ClosedUnder(next, set) => s.seen \cup s.queue \subseteq set
    /\ s.queue = {} \/ Cardinality(s.seen) = k

\* A round of the walk sees one node more and queues what it leads to.
LEMMA WalkRoundGoesOn ==
    ASSUME NEW next, IsFiniteSet(DOMAIN next), NEW from \in SUBSET DOMAIN next,
           NEW k \in Nat, NEW s, WalkInv(next, from, s, k)
    PROVE  WalkInv(next, from, WalkRound(next, s), k + 1)
<1> DEFINE nodes == DOMAIN next
<1>1. CASE s.queue = {}
  BY <1>1 DEF WalkInv, WalkRound
<1>2. CASE s.queue # {}
  <2> DEFINE u == CHOOSE u \in s.queue : TRUE
  <2> DEFINE t == WalkRound(next, s)
  <2>1. u \in s.queue
    BY <1>2
  <2>2. t = [seen |-> s.seen \cup {u},
             queue |-> (s.queue \ {u}) \cup ((next[u] \cap nodes) \ (s.seen \cup {u}))]
    BY <1>2 DEF WalkRound
  <2> HIDE DEF u, t
  <2>3. s \in WalkStates(next) /\ s.seen \in SUBSET nodes /\ s.queue \in SUBSET nodes
    BY DEF WalkInv, WalkStates
  <2>4. t \in WalkStates(next)
    BY <2>1, <2>2, <2>3 DEF WalkStates
  <2>5. t.seen = s.seen \cup {u} /\ t.queue = (s.queue \ {u}) \cup ((next[u] \cap nodes) \ (s.seen \cup {u}))
    BY <2>2
  <2> HIDE DEF nodes
  <2>6. t.seen \cap t.queue = {}
    BY <2>5 DEF WalkInv
  <2>7. t.seen \cup t.queue = s.seen \cup s.queue \cup (next[u] \cap nodes)
    BY <2>1, <2>5
  <2>8. from \subseteq t.seen \cup t.queue
    BY <2>7 DEF WalkInv
  <2>9. \A n \in t.seen : next[n] \cap nodes \subseteq t.seen \cup t.queue
    BY <2>5, <2>7 DEF WalkInv, nodes
  <2>10. \A set \in SUBSET nodes :
           from \subseteq set /\ ClosedUnder(next, set) => t.seen \cup t.queue \subseteq set
    BY <2>1, <2>7 DEF WalkInv, ClosedUnder, nodes
  <2>11. Cardinality(t.seen) = k + 1
    <3>1. IsFiniteSet(s.seen) /\ u \notin s.seen
      BY <2>1, <2>3, FS_Subset DEF WalkInv, nodes
    <3>2. Cardinality(s.seen \cup {u}) = Cardinality(s.seen) + 1
      BY <3>1, FS_AddElement
    <3> QED
      BY <1>2, <2>5, <3>2 DEF WalkInv
  <2> QED
    BY <2>4, <2>6, <2>8, <2>9, <2>10, <2>11 DEF WalkInv, t, nodes
<1> QED
  BY <1>1, <1>2

\* The walk sees the least set of nodes that holds its start and every edge
\* of its nodes.
LEMMA ReachableIsLeastClosed ==
    ASSUME NEW next, IsFiniteSet(DOMAIN next), NEW from \in SUBSET DOMAIN next
    PROVE  LET r == Reachable(next, from)
           IN /\ r \subseteq DOMAIN next /\ from \subseteq r /\ ClosedUnder(next, r)
              /\ \A set \in SUBSET DOMAIN next :
                   from \subseteq set /\ ClosedUnder(next, set) => r \subseteq set
<1> DEFINE N == Cardinality(DOMAIN next)
<1> DEFINE V == WalkStates(next)
<1> DEFINE first == [seen |-> {}, queue |-> from]
<1> DEFINE round == [s \in V |-> WalkRound(next, s)]
<1> DEFINE walk == CHOOSE g : IsWalk(g, next, from)
<1>1. N \in Nat
  BY FS_CardinalityType
<1>2. first \in V
  BY DEF WalkStates
<1>3. round \in [V -> V]
  <2>1. ASSUME NEW s \in V PROVE WalkRound(next, s) \in V
    <3>1. CASE s.queue = {}
      BY <3>1 DEF WalkRound
    <3>2. CASE s.queue # {}
      BY <3>2 DEF WalkRound, WalkStates
    <3> QED
      BY <3>1, <3>2
  <2> QED
    BY <2>1
<1> HIDE DEF N, V, first, walk
<1>4. \E g \in [0 .. N -> V] : Runs(g, N, first, round)
  <2> HIDE DEF round
  <2> QED
    BY <1>1, <1>2, <1>3, LoopRuns
<1>5. PICK g \in [0 .. N -> V] : Runs(g, N, first, round)
  BY <1>4
<1>6. g = [n \in 0 .. N |-> IF n = 0 THEN first ELSE WalkRound(next, g[n - 1])]
  <2>1. \A n \in 1 .. N : g[n - 1] \in V
    BY <1>1
  <2>2. \A n \in 1 .. N : g[n] = WalkRound(next, g[n - 1])
    BY <1>5, <2>1 DEF Runs
  <2> QED
    BY <1>5, <2>2 DEF Runs
<1>7. IsWalk(walk, next, from)
  <2>1. IsWalk(g, next, from)
    BY <1>6 DEF IsWalk, N, first
  <2> QED
    BY <2>1 DEF walk
<1>8. walk[0] = first /\ \A k \in Nat : k + 1 <= N => walk[k + 1] = WalkRound(next, walk[k])
  <2>1. walk[0] = first
    BY <1>1, <1>7 DEF IsWalk, N, first
  <2>2. ASSUME NEW k \in Nat, k + 1 <= N PROVE walk[k + 1] = WalkRound(next, walk[k])
    <3>1. k + 1 \in 0 .. N /\ k + 1 # 0 /\ (k + 1) - 1 = k
      BY <1>1, <2>2
    <3> QED
      BY <1>7, <3>1 DEF IsWalk, N
  <2> QED
    BY <2>1, <2>2
<1> DEFINE Good == {k \in Nat : k <= N => WalkInv(next, from, walk[k], k)}
<1>9. 0 \in Good
  <2>1. WalkInv(next, from, first, 0)
    BY FS_EmptySet DEF first, WalkInv, WalkStates
  <2> QED
    BY <1>8, <2>1
<1>10. \A k \in Nat : k \in Good => k + 1 \in Good
  <2> SUFFICES ASSUME NEW k \in Nat, k \in Good, k + 1 <= N
               PROVE  WalkInv(next, from, walk[k + 1], k + 1)
    OBVIOUS
  <2>1. WalkInv(next, from, walk[k], k)
    BY <1>1
  <2> QED
    BY <1>8, <2>1, WalkRoundGoesOn
<1>11. WalkInv(next, from, walk[N], N)
  <2>1. N \in Good
    <3> HIDE DEF Good
    <3> QED
      BY <1>1, <1>9, <1>10, Induction
  <2> QED
    BY <1>1, <2>1
<1>12. walk[N].queue = {}
  <2> SUFFICES ASSUME walk[N].queue # {} PROVE FALSE
    OBVIOUS
  <2>1. Cardinality(walk[N].seen) = N /\ walk[N].seen \in SUBSET DOMAIN next
    BY <1>11 DEF WalkInv, WalkStates
  <2>2. walk[N].seen = DOMAIN next
    BY <2>1, FS_Subset DEF N
  <2> QED
    BY <1>11, <2>2 DEF WalkInv, WalkStates
<1>13. Reachable(next, from) = walk[N].seen
  BY DEF Reachable, walk, IsWalk, N
<1>14. walk[N] \in WalkStates(next) /\ walk[N].seen \subseteq DOMAIN next
  BY <1>11 DEF WalkInv, WalkStates
<1> DEFINE last == walk[N]
<1>15. last.queue = {} /\ Reachable(next, from) = last.seen /\ last.seen \subseteq DOMAIN next
       /\ WalkInv(next, from, last, N)
  BY <1>11, <1>12, <1>13, <1>14
<1> HIDE DEF last
<1> QED
  BY <1>15 DEF WalkInv, ClosedUnder

\* A set of places has a last one.
LEMMA GreatestPlace ==
    ASSUME NEW m \in Nat, NEW S, S \subseteq 1 .. m, S # {}
    PROVE  \E i \in S : \A j \in S : j <= i
<1> DEFINE T == {k \in Nat : m - k \in S}
<1>1. \A i \in S : m - i \in T
  OBVIOUS
<1>2. T \subseteq Nat /\ T # {}
  BY <1>1
<1>3. PICK k \in T : \A l \in T : k <= l
  BY <1>2, LeastNumber
<1>4. m - k \in S /\ \A j \in S : j <= m - k
  BY <1>1, <1>3
<1> QED
  BY <1>4

\* The parsed steps of a pipeline, as far as the checks and the lowering look at
\* them.
IsSteps(steps) ==
    /\ Len(steps) \in Nat /\ DOMAIN steps = 1 .. Len(steps) /\ \E S : steps \in Seq(S)
    /\ \A i \in DOMAIN steps : /\ steps[i].name \in Nat \ {0}
                               /\ steps[i].next # NoText => Strip(steps[i].next) \in Nat

\* A dict keeps the last of several steps with a name.
LEMMA LastOfNameIsLast ==
    ASSUME NEW steps, IsSteps(steps), NEW places \in SUBSET DOMAIN steps,
           NEW n \in {steps[i].name : i \in places}
    PROVE  \E i \in places : /\ steps[i].name = n
                             /\ \A j \in places : steps[j].name = n => j <= i
                             /\ LastOfName(steps, places, n) = steps[i]
<1> DEFINE S == {i \in places : steps[i].name = n}
<1> DEFINE IsLast(i) == steps[i].name = n /\ \A j \in places : steps[j].name = n => j <= i
<1>1. S \subseteq 1 .. Len(steps) /\ S # {} /\ Len(steps) \in Nat
  BY DEF IsSteps
<1>2. PICK i \in S : \A j \in S : j <= i
  BY <1>1, GreatestPlace
<1>3. \E k \in places : IsLast(k)
  BY <1>2
<1> DEFINE k == CHOOSE k \in places : IsLast(k)
<1>4. k \in places /\ IsLast(k)
  BY <1>3
<1>5. LastOfName(steps, places, n) = steps[k]
  BY DEF LastOfName
<1> QED
  BY <1>4, <1>5

\* A pipeline has finitely many names.
LEMMA NamesAreFinite ==
    ASSUME NEW steps, IsSteps(steps)
    PROVE  IsFiniteSet(StepNames(steps)) /\ StepNames(steps) \subseteq Nat \ {0}
<1> DEFINE f == [i \in DOMAIN steps |-> steps[i].name]
<1>1. f \in Surjection(DOMAIN steps, StepNames(steps))
  BY DEF Surjection, StepNames
<1>2. IsFiniteSet(DOMAIN steps)
  BY FS_Interval DEF IsSteps
<1> QED
  BY <1>1, <1>2, FS_Surjection DEF StepNames, IsSteps

\* What lowering leaves of the links.
LEMMA GeneratedLinks ==
    ASSUME NEW ast, IsSteps(ast.steps)
    PROVE  LET steps == ast.steps
               next == GeneratedIR(ast).next
           IN /\ DOMAIN next = StepNames(steps)
              /\ next = [n \in DOMAIN next |-> next[n]]
              /\ \A n \in DOMAIN next : \E i \in DOMAIN steps :
                   /\ steps[i].name = n
                   /\ \A j \in DOMAIN steps : steps[j].name = n => j <= i
                   /\ next[n] = IF i \in Linked(steps) THEN {Strip(steps[i].next)} ELSE {}
<1> DEFINE steps == ast.steps
<1> DEFINE next == GeneratedIR(ast).next
<1> DEFINE link(n) == LastOfName(steps, DOMAIN steps, n).next
<1>1. next = [n \in StepNames(steps) |-> IF link(n) = NoText THEN {} ELSE {Strip(link(n))}]
  BY DEF GeneratedIR
<1> HIDE DEF next
<1>2. ASSUME NEW n \in StepNames(steps)
      PROVE  \E i \in DOMAIN steps :
               /\ steps[i].name = n
               /\ \A j \in DOMAIN steps : steps[j].name = n => j <= i
               /\ next[n] = IF i \in Linked(steps) THEN {Strip(steps[i].next)} ELSE {}
  <2>1. n \in {steps[i].name : i \in DOMAIN steps} /\ DOMAIN steps \in SUBSET DOMAIN steps
    BY DEF StepNames
  <2>2. PICK i \in DOMAIN steps : /\ steps[i].name = n
                                  /\ \A j \in DOMAIN steps : steps[j].name = n => j <= i
                                  /\ LastOfName(steps, DOMAIN steps, n) = steps[i]
    BY <2>1, LastOfNameIsLast
  <2>3. next[n] = IF steps[i].next = NoText THEN {} ELSE {Strip(steps[i].next)}
    BY <1>1, <2>2
  <2> QED
    BY <2>2, <2>3 DEF Linked
<1>3. DOMAIN next = StepNames(steps) /\ next = [n \in DOMAIN next |-> next[n]]
  BY <1>1
<1> QED
  BY <1>2, <1>3 DEF next

\* A graph whose entry points have no predecessor.
IsRooted(ir) ==
    /\ ir.next = [n \in DOMAIN ir.next |-> ir.next[n]]
    /\ IsFiniteSet(DOMAIN ir.next) /\ 0 \notin DOMAIN ir.next
    /\ ir.entrypoints \subseteq DOMAIN ir.next
    /\ \A n \in DOMAIN ir.next : ir.next[n] \cap ir.entrypoints = {}

\* optimize_ir keeps what the entry points reach, and the entry points.
LEMMA OptimizedIsReachable ==
    ASSUME NEW ir, IsRooted(ir)
    PROVE  LET ok == OptimizedIR(ir)
               kept == DOMAIN ok.next
           IN /\ ok = [next |-> ok.next, entrypoints |-> ok.entrypoints]
              /\ ok.next = [n \in kept |-> ir.next[n] \cap DOMAIN ir.next]
              /\ ok.entrypoints = ir.entrypoints
              /\ kept \subseteq DOMAIN ir.next /\ ir.entrypoints \subseteq kept /\ ClosedUnder(ir.next, kept)
              /\ \A set \in SUBSET DOMAIN ir.next :
                   ir.entrypoints \subseteq set /\ ClosedUnder(ir.next, set) => kept \subseteq set
              /\ IsRooted(ok)
<1> DEFINE nodes == DOMAIN ir.next
<1> DEFINE E == ir.entrypoints
<1> DEFINE ok == OptimizedIR(ir)
<1> DEFINE normal == [n \in nodes |-> ir.next[n] \ {0}]
<1> DEFINE kept == Reachable(normal, E \cap nodes)
<1> DEFINE next == [n \in kept |-> normal[n] \cap kept]
<1>1. ok = [next |-> next, entrypoints |-> kept \ UNION {next[n] : n \in kept}]
  BY DEF OptimizedIR
<1>2. DOMAIN normal = nodes /\ IsFiniteSet(DOMAIN normal) /\ E \cap nodes = E /\ E \in SUBSET DOMAIN normal /\ 0 \notin nodes
  BY DEF IsRooted
<1>3. \A n \in nodes : normal[n] \cap DOMAIN normal = ir.next[n] \cap nodes
  BY <1>2
<1> HIDE DEF normal, ok
<1>4. /\ kept \subseteq nodes /\ E \subseteq kept /\ ClosedUnder(normal, kept)
      /\ \A set \in SUBSET nodes : E \subseteq set /\ ClosedUnder(normal, set) => kept \subseteq set
  <2> HIDE DEF nodes, E
  <2> QED
    BY <1>2, ReachableIsLeastClosed
<1>5. \A set \in SUBSET nodes : ClosedUnder(normal, set) <=> ClosedUnder(ir.next, set)
  BY <1>3 DEF ClosedUnder
<1> HIDE DEF kept
<1>6. \A n \in kept : normal[n] \cap kept = ir.next[n] \cap nodes
  <2> SUFFICES ASSUME NEW n \in kept PROVE normal[n] \cap kept = ir.next[n] \cap nodes
    OBVIOUS
  <2>1. n \in nodes /\ normal[n] \cap DOMAIN normal = ir.next[n] \cap nodes
    BY <1>3, <1>4
  <2>2. ir.next[n] \cap nodes \subseteq kept
    BY <1>4, <2>1 DEF ClosedUnder
  <2> QED
    BY <1>2, <1>4, <2>1, <2>2
<1>7. next = [n \in kept |-> ir.next[n] \cap nodes]
  BY <1>6
<1> HIDE DEF next
<1>8. kept \ UNION {next[n] : n \in kept} = E
  <2>1. E \subseteq kept \ UNION {next[n] : n \in kept}
    BY <1>4, <1>7 DEF IsRooted
  <2>2. ASSUME NEW m \in kept, m \notin E, \A n \in kept : m \notin next[n] PROVE FALSE
    <3>1. kept \ {m} \in SUBSET nodes /\ E \subseteq kept \ {m}
      BY <1>4, <2>2
    <3>2. \A n \in kept : ir.next[n] \cap nodes \subseteq kept /\ m \notin ir.next[n] \cap nodes
      BY <1>4, <1>5, <1>7, <2>2 DEF ClosedUnder
    <3>3. ClosedUnder(ir.next, kept \ {m})
      BY <3>2 DEF ClosedUnder
    <3>4. kept \subseteq kept \ {m}
      BY <1>4, <1>5, <3>1, <3>3
    <3> QED
      BY <2>2, <3>4
  <2> QED
    BY <2>1, <2>2
<1>9. ok.next = next /\ ok.entrypoints = E /\ ok = [next |-> ok.next, entrypoints |-> ok.entrypoints]
      /\ DOMAIN ok.next = kept
  BY <1>1, <1>7, <1>8
<1>10. IsRooted(ok)
  <2>1. IsFiniteSet(kept) /\ 0 \notin kept
    BY <1>2, <1>4, FS_Subset
  <2>2. \A n \in kept : next[n] \cap E = {}
    BY <1>4, <1>7 DEF IsRooted
  <2>3. next = [n \in DOMAIN next |-> next[n]]
    BY <1>7
  <2> QED
    BY <1>4, <1>9, <2>1, <2>2, <2>3 DEF IsRooted
<1> QED
  BY <1>4, <1>5, <1>7, <1>9, <1>10 DEF ok

\* In a generated graph nothing leads to an entry point.
LEMMA GeneratedIsRooted ==
    ASSUME NEW ast, IsSteps(ast.steps)
    PROVE  IsRooted(GeneratedIR(ast))
<1> DEFINE steps == ast.steps
<1> DEFINE next == GeneratedIR(ast).next
<1>1. /\ DOMAIN next = StepNames(steps)
      /\ next = [n \in DOMAIN next |-> next[n]]
      /\ \A n \in DOMAIN next : next[n] \subseteq Referenced(steps)
  <2>1. /\ DOMAIN next = StepNames(steps)
        /\ next = [n \in DOMAIN next |-> next[n]]
        /\ \A n \in DOMAIN next : \E i \in DOMAIN steps :
                   next[n] = IF i \in Linked(steps) THEN {Strip(steps[i].next)} ELSE {}
    BY GeneratedLinks
  <2> HIDE DEF next
  <2>2. \A i \in Linked(steps) : Strip(steps[i].next) \in Referenced(steps)
    BY DEF Referenced
  <2>3. \A n \in DOMAIN next : next[n] \subseteq Referenced(steps)
    BY <2>1, <2>2
  <2> QED
    BY <2>1, <2>3
<1>2. GeneratedIR(ast).entrypoints = StepNames(steps) \ Referenced(steps)
  BY DEF GeneratedIR, Entrypoints
<1>3. IsFiniteSet(StepNames(steps)) /\ StepNames(steps) \subseteq Nat \ {0}
  BY NamesAreFinite
<1> QED
  BY <1>1, <1>2, <1>3 DEF IsRooted

\* Optimising a generated graph never raises, and doing it twice is doing it
\* once.
LEMMA OptimizingIsClean ==
    ASSUME NEW ast, IsSteps(ast.steps)
    PROVE  OptimizesCleanly(ast)
<1> SUFFICES ASSUME Generates(ast) PROVE OptimizesCleanly(ast)
  BY DEF OptimizesCleanly
<1> DEFINE ir == GeneratedIR(ast)
<1> DEFINE ok == OptimizedIR(ir)
<1> DEFINE again == OptimizedIR(ok)
<1>1. IsRooted(ir)
  BY GeneratedIsRooted
<1>2. ir.entrypoints # {}
  BY DEF Generates, GeneratedIR
<1> HIDE DEF ir
<1>3. /\ ok = [next |-> ok.next, entrypoints |-> ok.entrypoints]
      /\ ok.next = [n \in DOMAIN ok.next |-> ir.next[n] \cap DOMAIN ir.next]
      /\ ok.entrypoints = ir.entrypoints
      /\ DOMAIN ok.next \subseteq DOMAIN ir.next /\ ir.entrypoints \subseteq DOMAIN ok.next
      /\ ClosedUnder(ir.next, DOMAIN ok.next)
      /\ \A set \in SUBSET DOMAIN ir.next :
           ir.entrypoints \subseteq set /\ ClosedUnder(ir.next, set) => DOMAIN ok.next \subseteq set
      /\ IsRooted(ok)
  BY <1>1, OptimizedIsReachable
<1> HIDE DEF ok
<1>4. /\ again = [next |-> again.next, entrypoints |-> again.entrypoints]
      /\ again.next = [n \in DOMAIN again.next |-> ok.next[n] \cap DOMAIN ok.next]
      /\ again.entrypoints = ok.entrypoints
      /\ DOMAIN again.next \subseteq DOMAIN ok.next /\ ok.entrypoints \subseteq DOMAIN again.next
      /\ ClosedUnder(ok.next, DOMAIN again.next)
  BY <1>3, OptimizedIsReachable
<1> HIDE DEF again
<1>5. DOMAIN again.next = DOMAIN ok.next
  <2>1. ClosedUnder(ir.next, DOMAIN again.next)
    <3> SUFFICES ASSUME NEW n \in DOMAIN again.next
                 PROVE  ir.next[n] \cap DOMAIN ir.next \subseteq DOMAIN again.next
      BY DEF ClosedUnder
    <3>1. ok.next[n] = ir.next[n] \cap DOMAIN ir.next /\ n \in DOMAIN ok.next
      BY <1>3, <1>4
    <3>2. ok.next[n] \subseteq DOMAIN ok.next
      BY <1>3, <3>1 DEF ClosedUnder
    <3> QED
      BY <1>4, <3>1, <3>2 DEF ClosedUnder
  <2> QED
    BY <1>3, <1>4, <2>1
<1>6. \A n \in DOMAIN ok.next : ok.next[n] \subseteq DOMAIN ok.next
  BY <1>3 DEF ClosedUnder
<1>7. again.next = ok.next
  <2>1. \A n \in DOMAIN ok.next : ok.next[n] \cap DOMAIN ok.next = ok.next[n]
    BY <1>6
  <2>2. again.next = [n \in DOMAIN ok.next |-> ok.next[n]]
    BY <1>4, <1>5, <2>1
  <2>3. ok.next = [n \in DOMAIN ok.next |-> ok.next[n]]
    BY <1>3 DEF IsRooted
  <2> QED
    BY <2>2, <2>3
<1>8. again = ok
  BY <1>3, <1>4, <1>7
<1>9. \A n \in DOMAIN ok.next : ok.next[n] = ir.next[n] \cap DOMAIN ir.next
  BY <1>3
<1>10. Optimizes(ir)
  BY <1>2, <1>3 DEF Optimizes, ok
<1> DEFINE closed == {set \in SUBSET DOMAIN ir.next :
                        /\ ir.entrypoints \subseteq set
                        /\ \A n \in set : ir.next[n] \cap DOMAIN ir.next \subseteq set}
<1>11. DOMAIN ok.next \in closed /\ \A set \in closed : DOMAIN ok.next \subseteq set
  BY <1>3 DEF ClosedUnder
<1> HIDE DEF closed
<1>12. Optimizes(ir) /\ ok.entrypoints = ir.entrypoints /\ again = ok
  BY <1>3, <1>8, <1>10
<1> QED
  BY <1>9, <1>11, <1>12 DEF OptimizesCleanly, closed, ok, again, ir

Members(order) == {order[i] : i \in 1 .. Len(order)}
OrderStates(next) ==
    [degree : [DOMAIN next -> Int], order : Seq(DOMAIN next), ready : SUBSET DOMAIN next]
FirstOrder(next) ==
    LET degree == [n \in DOMAIN next |-> Cardinality({u \in DOMAIN next : n \in next[u]})]
    IN  [degree |-> degree, order |-> <<>>, ready |-> {n \in DOMAIN next : degree[n] = 0}]
IsOrdering(g, next) ==
    g = [k \in 0 .. Cardinality(DOMAIN next) |->
           IF k = 0 THEN FirstOrder(next) ELSE OrderRound(next, g[k - 1])]

\* The predecessors of n that are still to come.
Waiting(next, order, n) == {p \in DOMAIN next \ Members(order) : n \in next[p]}

OrderInv(next, s, k) ==
    /\ s \in OrderStates(next)
    /\ Cardinality(Members(s.order)) = Len(s.order)
    /\ s.ready = {n \in DOMAIN next \ Members(s.order) : Waiting(next, s.order, n) = {}}
    /\ \A n \in DOMAIN next : s.degree[n] = Cardinality(Waiting(next, s.order, n))
    /\ IsOrderOf(s.order, next)
    /\ Len(s.order) = k \/ s.ready = {}

\* The node at place i comes after its predecessors, and before every other one
\* whose predecessors are all before i.
IsInPlace(order, next, i) ==
    /\ \A j \in 1 .. Len(order) : j < i => order[j] # order[i]
    /\ \A p \in DOMAIN next : order[i] \in next[p] => \E j \in 1 .. Len(order) : j < i /\ order[j] = p
    /\ \A n \in DOMAIN next :
         /\ \A j \in 1 .. Len(order) : j < i => order[j] # n
         /\ \A p \in DOMAIN next : n \in next[p] => \E j \in 1 .. Len(order) : j < i /\ order[j] = p
         => order[i] <= n

\* The order of a graph's nodes, place by place.
LEMMA OrderPlaces ==
    ASSUME NEW next, NEW order \in Seq(DOMAIN next)
    PROVE  IsOrderOf(order, next) <=> \A i \in 1 .. Len(order) : IsInPlace(order, next, i)
<1> DEFINE before(i) == {order[j] : j \in 1 .. (i - 1)}
<1>1. Len(order) \in Nat /\ DOMAIN order = 1 .. Len(order) /\ \A i \in 1 .. Len(order) : order[i] \in DOMAIN next
  OBVIOUS
<1>2. \A i \in 1 .. Len(order) : \A n : n \in before(i) <=> \E j \in 1 .. Len(order) : j < i /\ order[j] = n
  <2> SUFFICES ASSUME NEW i \in 1 .. Len(order), NEW n
               PROVE  n \in before(i) <=> \E j \in 1 .. Len(order) : j < i /\ order[j] = n
    OBVIOUS
  <2>1. \A j : j \in 1 .. (i - 1) <=> j \in 1 .. Len(order) /\ j < i
    BY <1>1
  <2> QED
    BY <2>1
<1> HIDE DEF before
<1>3. IsOrderOf(order, next) <=>
        \A i \in 1 .. Len(order) :
          /\ order[i] \in DOMAIN next \ before(i)
          /\ \A p \in DOMAIN next : order[i] \in next[p] => p \in before(i)
          /\ \A n \in DOMAIN next :
               n \in DOMAIN next \ before(i) /\ (\A p \in DOMAIN next : n \in next[p] => p \in before(i))
                 => order[i] <= n
  BY <1>1 DEF IsOrderOf, before
<1> QED
  BY <1>1, <1>2, <1>3 DEF IsInPlace

\* A round of Kahn's algorithm appends the smallest ready node, and counts
\* the predecessors that are still to come.
LEMMA OrderRoundGoesOn ==
    ASSUME NEW next, IsFiniteSet(DOMAIN next), DOMAIN next \subseteq Nat,
           NEW k \in Nat, NEW s, OrderInv(next, s, k)
    PROVE  OrderInv(next, OrderRound(next, s), k + 1)
<1> DEFINE nodes == DOMAIN next
<1>1. CASE s.ready = {}
  BY <1>1 DEF OrderInv, OrderRound
<1>2. CASE s.ready # {}
  <2> DEFINE u == CHOOSE n \in s.ready : \A m \in s.ready : n <= m
  <2> DEFINE left == [n \in DOMAIN s.degree |-> s.degree[n] - (IF n \in next[u] THEN 1 ELSE 0)]
  <2> DEFINE t == OrderRound(next, s)
  <2> DEFINE order == s.order
  <2>1. s.ready \subseteq nodes /\ order \in Seq(nodes) /\ s.degree \in [nodes -> Int]
    BY DEF OrderInv, OrderStates
  <2>2. u \in s.ready /\ \A m \in s.ready : u <= m
    <3>1. \E n \in s.ready : \A m \in s.ready : n <= m
      BY <1>2, <2>1, LeastNumber
    <3> QED
      BY <3>1
  <2>3. t = [degree |-> left, order |-> Append(order, u),
             ready |-> (s.ready \ {u}) \cup {v \in next[u] : v \in DOMAIN left /\ left[v] = 0}]
    BY <1>2 DEF OrderRound
  <2>4. DOMAIN left = nodes /\ left \in [nodes -> Int]
        /\ \A n \in nodes : left[n] = s.degree[n] - (IF n \in next[u] THEN 1 ELSE 0)
    BY <2>1
  <2> HIDE DEF u, left, t
  <2>5. t.degree = left /\ t.order = Append(order, u)
        /\ t.ready = (s.ready \ {u}) \cup {v \in next[u] : v \in nodes /\ left[v] = 0}
    BY <2>3, <2>4
  <2>6. u \in nodes /\ u \notin Members(order) /\ Waiting(next, order, u) = {}
    BY <2>1, <2>2 DEF OrderInv
  <2>7. /\ Append(order, u) \in Seq(nodes) /\ Len(Append(order, u)) = Len(order) + 1
        /\ Len(order) \in Nat /\ Append(order, u)[Len(order) + 1] = u
        /\ \A i \in 1 .. Len(order) : Append(order, u)[i] = order[i]
    BY <2>1, <2>6
  <2> DEFINE new == Append(order, u)
  <2> HIDE DEF new
  <2>8. Members(new) = Members(order) \cup {u}
    <3>1. \A i : i \in 1 .. Len(new) <=> i \in 1 .. Len(order) \/ i = Len(order) + 1
      BY <2>7 DEF new
    <3> QED
      BY <2>7, <3>1 DEF Members, new
  <2>9. t \in OrderStates(next)
    <3>1. t.ready \in SUBSET nodes
      BY <2>1, <2>5
    <3>2. t = [degree |-> t.degree, order |-> t.order, ready |-> t.ready]
      BY <2>3, <2>5
    <3> QED
      BY <2>4, <2>5, <2>7, <3>1, <3>2 DEF OrderStates
  <2>10. Cardinality(Members(new)) = Len(new)
    <3>1. IsFiniteSet(Members(order))
      <4>1. Members(order) \subseteq nodes
        BY <2>1 DEF Members
      <4> QED
        BY <4>1, FS_Subset
    <3>2. Cardinality(Members(order) \cup {u}) = Cardinality(Members(order)) + 1
      BY <2>6, <3>1, FS_AddElement
    <3>3. Cardinality(Members(order)) = Len(order)
      BY DEF OrderInv
    <3>4. Len(new) = Len(order) + 1
      BY <2>7 DEF new
    <3> QED
      BY <2>8, <3>2, <3>3, <3>4
  <2>11. \A n : Waiting(next, new, n) = Waiting(next, order, n) \ {u}
    BY <2>8 DEF Waiting
  <2>12. \A n \in nodes : left[n] = Cardinality(Waiting(next, new, n))
    <3> SUFFICES ASSUME NEW n \in nodes PROVE left[n] = Cardinality(Waiting(next, new, n))
      OBVIOUS
    <3> DEFINE W == Waiting(next, order, n)
    <3>1. s.degree[n] = Cardinality(W) /\ IsFiniteSet(W)
      <4>1. W \subseteq nodes
        BY DEF Waiting
      <4> QED
        BY <4>1, FS_Subset DEF OrderInv
    <3>2. n \in next[u] <=> u \in W
      BY <2>6 DEF Waiting
    <3> HIDE DEF W
    <3>3. Cardinality(W \ {u}) = IF u \in W THEN Cardinality(W) - 1 ELSE Cardinality(W)
      BY <3>1, FS_RemoveElement
    <3>4. Cardinality(W) \in Nat
      BY <3>1, FS_CardinalityType
    <3> QED
      BY <2>4, <2>11, <3>1, <3>2, <3>3, <3>4 DEF W
  <2>13. \A i \in 1 .. Len(order) :
           /\ \A j \in 1 .. Len(order) : j < i => order[j] # order[i]
           /\ \A p \in nodes : order[i] \in next[p] => \E j \in 1 .. Len(order) : j < i /\ order[j] = p
           /\ \A n \in nodes :
                /\ \A j \in 1 .. Len(order) : j < i => order[j] # n
                /\ \A p \in nodes : n \in next[p] => \E j \in 1 .. Len(order) : j < i /\ order[j] = p
                => order[i] <= n
    <3>1. IsOrderOf(order, next) /\ order \in Seq(nodes)
      BY <2>1 DEF OrderInv
    <3>2. \A i \in 1 .. Len(order) : IsInPlace(order, next, i)
      BY <3>1, OrderPlaces
    <3> QED
      BY <3>2 DEF IsInPlace
  <2>14. t.ready = {n \in nodes \ Members(new) : Waiting(next, new, n) = {}}
    <3>1. \A n \in nodes : left[n] = 0 <=> Waiting(next, new, n) = {}
      <4> SUFFICES ASSUME NEW n \in nodes PROVE left[n] = 0 <=> Waiting(next, new, n) = {}
        OBVIOUS
      <4>1. Waiting(next, new, n) \subseteq nodes
        BY DEF Waiting
      <4>2. IsFiniteSet(Waiting(next, new, n))
        BY <4>1, FS_Subset
      <4> QED
        BY <2>12, <4>2, FS_EmptySet
    <3>2. ASSUME NEW v \in next[u], v \in nodes PROVE v \notin Members(new)
      <4>1. v # u
        BY <2>6, <3>2 DEF Waiting
      <4>2. v \notin Members(order)
        <5> SUFFICES ASSUME NEW i \in 1 .. Len(order), v = order[i] PROVE FALSE
          BY DEF Members
        <5>1. \E j \in 1 .. Len(order) : order[j] = u
          BY <2>6, <2>13, <3>2
        <5> QED
          BY <2>6, <5>1 DEF Members
      <4> QED
        BY <2>8, <4>1, <4>2
    <3>3. s.ready = {n \in nodes \ Members(order) : Waiting(next, order, n) = {}}
      BY DEF OrderInv
    <3>4. ASSUME NEW n \in nodes, n \notin Members(new), Waiting(next, new, n) = {}, n \notin s.ready
          PROVE  n \in next[u]
      BY <2>6, <2>8, <2>11, <3>3, <3>4 DEF Waiting
    <3>5. ASSUME NEW n \in t.ready PROVE n \in nodes \ Members(new) /\ Waiting(next, new, n) = {}
      <4>1. CASE n \in s.ready \ {u}
        BY <2>8, <2>11, <3>3, <4>1
      <4>2. CASE n \in next[u] /\ n \in nodes /\ left[n] = 0
        BY <3>1, <3>2, <4>2
      <4> QED
        BY <2>5, <3>5, <4>1, <4>2
    <3>6. ASSUME NEW n \in nodes \ Members(new), Waiting(next, new, n) = {} PROVE n \in t.ready
      BY <2>5, <2>8, <3>1, <3>4, <3>6
    <3> QED
      BY <3>5, <3>6
  <2>15. IsOrderOf(new, next)
    <3>1. ASSUME NEW i \in 1 .. Len(order)
          PROVE  /\ new[i] = order[i] /\ i \in 1 .. Len(new) /\ i <= Len(order)
      BY <2>7 DEF new
    <3>2. \A j \in 1 .. Len(new) : j \in 1 .. Len(order) \/ j = Len(order) + 1
      BY <2>7 DEF new
    <3>3. \A p \in nodes : u \in next[p] => \E j \in 1 .. Len(order) : order[j] = p
      BY <2>6 DEF Waiting, Members
    <3>4. \A n \in nodes : /\ \A j \in 1 .. Len(order) : order[j] # n
                           /\ \A p \in nodes : n \in next[p] => \E j \in 1 .. Len(order) : order[j] = p
                           => u <= n
      <4> SUFFICES ASSUME NEW n \in nodes, \A j \in 1 .. Len(order) : order[j] # n,
                          \A p \in nodes : n \in next[p] => \E j \in 1 .. Len(order) : order[j] = p
                   PROVE  u <= n
        OBVIOUS
      <4>1. n \notin Members(order) /\ Waiting(next, order, n) = {}
        BY DEF Members, Waiting
      <4>2. n \in s.ready
        BY <4>1 DEF OrderInv
      <4> QED
        BY <2>2, <4>2
    <3>5. \A j \in 1 .. Len(order) : order[j] # u
      BY <2>6 DEF Members
    <3>6. Len(order) \in Nat /\ Len(new) = Len(order) + 1 /\ new[Len(order) + 1] = u /\ new \in Seq(nodes)
      BY <2>7 DEF new
    <3> HIDE DEF nodes, order
    <3>7. ASSUME NEW i \in 1 .. Len(new)
          PROVE  /\ \A j \in 1 .. Len(new) : j < i => new[j] # new[i]
                 /\ \A p \in nodes : new[i] \in next[p] => \E j \in 1 .. Len(new) : j < i /\ new[j] = p
                 /\ \A n \in nodes :
                      /\ \A j \in 1 .. Len(new) : j < i => new[j] # n
                      /\ \A p \in nodes : n \in next[p] => \E j \in 1 .. Len(new) : j < i /\ new[j] = p
                      => new[i] <= n
      <4> DEFINE P(x, i_, d) == \E j \in 1 .. Len(d) : j < i_ /\ d[j] = x
      <4>1. CASE i \in 1 .. Len(order)
        <5>1. \A x : P(x, i, new) <=> P(x, i, order)
          BY <3>1, <3>2, <3>6, <4>1
        <5>2. new[i] = order[i]
          BY <3>1, <4>1
        <5>3. /\ ~P(order[i], i, order)
              /\ \A p \in nodes : order[i] \in next[p] => P(p, i, order)
              /\ \A n \in nodes : ~P(n, i, order) /\ (\A p \in nodes : n \in next[p] => P(p, i, order)) => order[i] <= n
          BY <2>13, <4>1
        <5> HIDE DEF P
        <5>4. /\ ~P(new[i], i, new)
              /\ \A p \in nodes : new[i] \in next[p] => P(p, i, new)
              /\ \A n \in nodes : ~P(n, i, new) /\ (\A p \in nodes : n \in next[p] => P(p, i, new)) => new[i] <= n
          BY <5>1, <5>2, <5>3
        <5> QED
          BY <5>4 DEF P
      <4>2. CASE i = Len(order) + 1
        <5>1. \A x : P(x, i, new) <=> \E j \in 1 .. Len(order) : order[j] = x
          BY <3>1, <3>2, <3>6, <4>2
        <5>2. new[i] = u
          BY <3>6, <4>2
        <5> HIDE DEF P
        <5>3. /\ ~P(new[i], i, new)
              /\ \A p \in nodes : new[i] \in next[p] => P(p, i, new)
              /\ \A n \in nodes : ~P(n, i, new) /\ (\A p \in nodes : n \in next[p] => P(p, i, new)) => new[i] <= n
          BY <3>3, <3>4, <3>5, <5>1, <5>2
        <5> QED
          BY <5>3 DEF P
      <4> QED
        BY <3>2, <4>1, <4>2
    <3>8. \A i \in 1 .. Len(new) : IsInPlace(new, next, i)
      BY <3>7 DEF IsInPlace, nodes
    <3> QED
      BY <3>6, <3>8, OrderPlaces DEF nodes
  <2>16. Len(new) = k + 1
    BY <1>2, <2>7 DEF OrderInv, new
  <2>17. t.order = new /\ t.degree = left
    BY <2>5 DEF new
  <2> QED
    BY <2>9, <2>10, <2>12, <2>14, <2>15, <2>16, <2>17 DEF OrderInv, t
<1> QED
  BY <1>1, <1>2

\* The order has no node twice, and what is not in it waits for a node that
\* is not in it either.
LEMMA KahnOrders ==
    ASSUME NEW ir, IsFiniteSet(DOMAIN ir.next), DOMAIN ir.next \subseteq Nat
    PROVE  LET order == KahnOrder(ir)
               nodes == DOMAIN ir.next
           IN /\ order \in Seq(nodes)
              /\ IsOrderOf(order, ir.next)
              /\ Cardinality(Members(order)) = Len(order)
              /\ \A n \in nodes \ Members(order) : Waiting(ir.next, order, n) # {}
<1> DEFINE next == ir.next
<1> DEFINE N == Cardinality(DOMAIN next)
<1> DEFINE V == OrderStates(next)
<1> DEFINE first == FirstOrder(next)
<1> DEFINE rounds == CHOOSE g : IsOrdering(g, next)
<1>1. N \in Nat
  BY FS_CardinalityType
<1>2. \A n \in DOMAIN next : IsFiniteSet({u \in DOMAIN next : n \in next[u]})
                            /\ Cardinality({u \in DOMAIN next : n \in next[u]}) \in Nat
  <2> SUFFICES ASSUME NEW n \in DOMAIN next
               PROVE  IsFiniteSet({u \in DOMAIN next : n \in next[u]})
                      /\ Cardinality({u \in DOMAIN next : n \in next[u]}) \in Nat
    OBVIOUS
  <2>1. {u \in DOMAIN next : n \in next[u]} \subseteq DOMAIN next
    OBVIOUS
  <2> QED
    BY <2>1, FS_Subset, FS_CardinalityType
<1>3. first \in V
  <2> DEFINE degree == [n \in DOMAIN next |-> Cardinality({u \in DOMAIN next : n \in next[u]})]
  <2> DEFINE ready == {n \in DOMAIN next : degree[n] = 0}
  <2>1. first = [degree |-> degree, order |-> <<>>, ready |-> ready]
    BY DEF FirstOrder
  <2>2. degree \in [DOMAIN next -> Int]
    <3>1. \A n \in DOMAIN next : Cardinality({u \in DOMAIN next : n \in next[u]}) \in Int
      BY <1>2
    <3> QED
      BY <3>1
  <2>3. ready \in SUBSET DOMAIN next /\ <<>> \in Seq(DOMAIN next)
    OBVIOUS
  <2> HIDE DEF first, degree, ready
  <2> QED
    BY <2>1, <2>2, <2>3 DEF OrderStates
<1>4. OrderInv(next, first, 0)
  <2>1. /\ first.degree = [n \in DOMAIN next |-> Cardinality({u \in DOMAIN next : n \in next[u]})]
        /\ first.order = <<>>
        /\ first.ready = {n \in DOMAIN next : Cardinality({u \in DOMAIN next : n \in next[u]}) = 0}
    BY DEF FirstOrder
  <2>2. Members(<<>>) = {} /\ Len(<<>>) = 0
    <3>1. Len(<<>>) = 0 /\ 1 .. 0 = {}
      OBVIOUS
    <3> QED
      BY <3>1 DEF Members
  <2>3. \A n : Waiting(next, <<>>, n) = {u \in DOMAIN next : n \in next[u]}
    BY <2>2 DEF Waiting
  <2>4. \A n \in DOMAIN next : Cardinality({u \in DOMAIN next : n \in next[u]}) = 0
                                <=> {u \in DOMAIN next : n \in next[u]} = {}
    <3> SUFFICES ASSUME NEW n \in DOMAIN next
                 PROVE  Cardinality({u \in DOMAIN next : n \in next[u]}) = 0
                        <=> {u \in DOMAIN next : n \in next[u]} = {}
      OBVIOUS
    <3> DEFINE P == {u \in DOMAIN next : n \in next[u]}
    <3>1. IsFiniteSet(P)
      BY <1>2
    <3> HIDE DEF P
    <3>2. Cardinality(P) = 0 <=> P = {}
      BY <3>1, FS_EmptySet
    <3> QED
      BY <3>2 DEF P
  <2>5. IsOrderOf(<<>>, next)
    BY DEF IsOrderOf
  <2>6. Cardinality(Members(<<>>)) = Len(<<>>)
    BY <2>2, FS_EmptySet
  <2>7. first.ready = {n \in DOMAIN next \ Members(<<>>) : Waiting(next, <<>>, n) = {}}
    BY <2>1, <2>2, <2>3, <2>4
  <2>8. \A n \in DOMAIN next : first.degree[n] = Cardinality(Waiting(next, <<>>, n))
    BY <2>1, <2>3
  <2> HIDE DEF first
  <2> QED
    BY <1>3, <2>1, <2>2, <2>5, <2>6, <2>7, <2>8 DEF OrderInv
<1> DEFINE round == [s \in V |-> IF OrderRound(next, s) \in V THEN OrderRound(next, s) ELSE first]
<1>5. round \in [V -> V]
  BY <1>3
<1> HIDE DEF N, V, first, rounds
<1>6. PICK g \in [0 .. N -> V] : Runs(g, N, first, round)
  <2>1. \E g \in [0 .. N -> V] : Runs(g, N, first, round)
    <3> HIDE DEF round
    <3> QED
      BY <1>1, <1>3, <1>5, LoopRuns
  <2> QED
    BY <2>1
<1>7. g[0] = first /\ \A k \in 1 .. N : g[k] = round[g[k - 1]]
  BY <1>6 DEF Runs
<1>8. \A m \in 0 .. N : OrderInv(next, g[m], m)
  <2> DEFINE S == {k \in Nat : k <= N => OrderInv(next, g[k], k)}
  <2>1. 0 \in S
    BY <1>4, <1>7
  <2>2. ASSUME NEW k \in Nat, k \in S, k + 1 <= N PROVE OrderInv(next, g[k + 1], k + 1)
    <3>1. OrderInv(next, g[k], k)
      BY <1>1, <2>2
    <3>2. OrderInv(next, OrderRound(next, g[k]), k + 1)
      BY <3>1, OrderRoundGoesOn
    <3>3. OrderRound(next, g[k]) \in V /\ g[k] \in V
      BY <3>1, <3>2 DEF OrderInv, V
    <3>4. g[k + 1] = round[g[k]]
      <4>1. k + 1 \in 1 .. N /\ (k + 1) - 1 = k
        BY <1>1, <2>2
      <4> QED
        BY <1>7, <4>1
    <3> QED
      BY <3>2, <3>3, <3>4
  <2>3. \A k \in Nat : k \in S => k + 1 \in S
    BY <2>2
  <2>4. Nat \subseteq S
    <3> HIDE DEF S
    <3> QED
      BY <2>1, <2>3, Induction
  <2> QED
    BY <1>1, <2>4
<1>9. g = [k \in 0 .. N |-> IF k = 0 THEN first ELSE OrderRound(next, g[k - 1])]
  <2>1. \A k \in 1 .. N : OrderRound(next, g[k - 1]) \in V /\ g[k - 1] \in V
    <3> SUFFICES ASSUME NEW k \in 1 .. N PROVE OrderRound(next, g[k - 1]) \in V /\ g[k - 1] \in V
      OBVIOUS
    <3>1. OrderInv(next, g[k - 1], k - 1) /\ k - 1 \in Nat
      BY <1>1, <1>8
    <3>2. OrderInv(next, OrderRound(next, g[k - 1]), (k - 1) + 1)
      BY <3>1, OrderRoundGoesOn
    <3> QED
      BY <3>1, <3>2 DEF OrderInv, V
  <2>2. \A k \in 1 .. N : g[k] = OrderRound(next, g[k - 1])
    BY <1>7, <2>1
  <2> QED
    BY <1>6, <1>7, <2>2
<1>10. IsOrdering(rounds, next)
  <2>1. IsOrdering(g, next)
    BY <1>9 DEF IsOrdering, N, first
  <2> QED
    BY <2>1 DEF rounds
<1>11. OrderInv(next, rounds[N], N)
  <2> DEFINE S == {k \in Nat : k <= N => OrderInv(next, rounds[k], k)}
  <2>1. 0 \in S
    BY <1>1, <1>4, <1>10 DEF IsOrdering, N, first
  <2>2. ASSUME NEW k \in Nat, k \in S, k + 1 <= N PROVE OrderInv(next, rounds[k + 1], k + 1)
    <3>1. OrderInv(next, rounds[k], k)
      BY <1>1, <2>2
    <3>2. OrderInv(next, OrderRound(next, rounds[k]), k + 1)
      BY <3>1, OrderRoundGoesOn
    <3>3. rounds[k + 1] = OrderRound(next, rounds[k])
      <4>1. k + 1 \in 0 .. N /\ (k + 1) - 1 = k /\ k + 1 # 0
        BY <1>1, <2>2
      <4> QED
        BY <1>10, <4>1 DEF IsOrdering, N
    <3> QED
      BY <3>2, <3>3
  <2>3. \A k \in Nat : k \in S => k + 1 \in S
    BY <2>2
  <2>4. Nat \subseteq S
    <3> HIDE DEF S
    <3> QED
      BY <2>1, <2>3, Induction
  <2> QED
    BY <1>1, <2>4
<1> DEFINE last == rounds[N]
<1> DEFINE order == last.order
<1>12. KahnOrder(ir) = order
  BY DEF KahnOrder, rounds, IsOrdering, FirstOrder, N
<1>13. /\ order \in Seq(DOMAIN next) /\ Cardinality(Members(order)) = Len(order)
       /\ IsOrderOf(order, next) /\ (Len(order) = N \/ last.ready = {})
       /\ last.ready = {n \in DOMAIN next \ Members(order) : Waiting(next, order, n) = {}}
  BY <1>11 DEF OrderInv, OrderStates
<1> HIDE DEF last
<1>14. ASSUME Len(order) = N PROVE Members(order) = DOMAIN next
  <2>1. Members(order) \subseteq DOMAIN next
    <3>1. \A i \in 1 .. Len(order) : order[i] \in DOMAIN next
      BY <1>13
    <3> QED
      BY <3>1 DEF Members
  <2>2. Cardinality(Members(order)) = N
    BY <1>13, <1>14
  <2> QED
    BY <2>1, <2>2, FS_Subset DEF N
<1>15. \A n \in DOMAIN next \ Members(order) : Waiting(next, order, n) # {}
  BY <1>13, <1>14
<1> QED
  BY <1>12, <1>13, <1>15

\* Every node leads to one other node at most.
IsChain(next) ==
    /\ IsFiniteSet(DOMAIN next) /\ DOMAIN next \subseteq Nat \ {0}
    /\ \A n \in DOMAIN next : next[n] # {} => \E m \in DOMAIN next : next[n] = {m}

SuccessorsIn(ir) == [n \in DOMAIN ir.next \ Sinks(ir) |-> CHOOSE m \in ir.next[n] : TRUE]

\* A node that is no sink has one successor.
LEMMA SuccessorsAreLinks ==
    ASSUME NEW ir, IsChain(ir.next)
    PROVE  /\ DOMAIN SuccessorsIn(ir) = DOMAIN ir.next \ Sinks(ir)
           /\ \A n \in DOMAIN ir.next \ Sinks(ir) :
                 ir.next[n] = {SuccessorsIn(ir)[n]} /\ SuccessorsIn(ir)[n] \in DOMAIN ir.next
<1>1. ASSUME NEW n \in DOMAIN ir.next \ Sinks(ir)
      PROVE  ir.next[n] = {CHOOSE m \in ir.next[n] : TRUE} /\ (CHOOSE m \in ir.next[n] : TRUE) \in DOMAIN ir.next
  <2>1. ir.next[n] # {}
    BY DEF Sinks
  <2>2. PICK m \in DOMAIN ir.next : ir.next[n] = {m}
    BY <2>1 DEF IsChain
  <2>3. (CHOOSE k \in ir.next[n] : TRUE) \in ir.next[n]
    BY <2>2
  <2> QED
    BY <2>2, <2>3
<1> QED
  BY <1>1 DEF SuccessorsIn

\* Every node is ordered unless some only lead to each other, and the last
\* of them is the last sink.
LEMMA TopologicalOrders ==
    ASSUME NEW ir, IsChain(ir.next)
    PROVE  LET order == KahnOrder(ir)
           IN /\ IsOrderOf(order, ir.next)
              /\ HasTopologicalOrder(ir) <=> ~IsCyclic(SuccessorsIn(ir))
              /\ HasTopologicalOrder(ir) /\ order # <<>> =>
                   LastTopologicalSink(ir) = order[Len(order)]
<1> DEFINE nodes == DOMAIN ir.next
<1> DEFINE order == KahnOrder(ir)
<1> DEFINE succ == SuccessorsIn(ir)
<1> DEFINE L == Len(order)
<1>1. /\ order \in Seq(nodes) /\ IsOrderOf(order, ir.next) /\ Cardinality(Members(order)) = L
      /\ \A n \in nodes \ Members(order) : Waiting(ir.next, order, n) # {}
      /\ IsFiniteSet(nodes)
  <2>1. IsFiniteSet(DOMAIN ir.next) /\ DOMAIN ir.next \subseteq Nat
    BY DEF IsChain
  <2> QED
    BY <2>1, KahnOrders
<1>2. /\ DOMAIN succ = nodes \ Sinks(ir)
      /\ \A n \in nodes \ Sinks(ir) : ir.next[n] = {succ[n]} /\ succ[n] \in nodes
  BY SuccessorsAreLinks
<1> HIDE DEF order, succ
<1>3. L \in Nat /\ DOMAIN order = 1 .. L /\ \A i \in 1 .. L : order[i] \in nodes
  BY <1>1
<1>4. \A i \in 1 .. L : IsInPlace(order, ir.next, i)
  BY <1>1, OrderPlaces
<1>5. Members(order) \subseteq nodes
  BY <1>3 DEF Members
<1>6. \A i, j \in 1 .. L : order[i] = order[j] => i = j
  <2> SUFFICES ASSUME NEW i \in 1 .. L, NEW j \in 1 .. L, order[i] = order[j], i # j PROVE FALSE
    OBVIOUS
  <2>1. (j < i => order[j] # order[i]) /\ (i < j => order[i] # order[j])
    BY <1>4 DEF IsInPlace
  <2> QED
    BY <1>3, <2>1
<1>7. HasTopologicalOrder(ir) <=> Members(order) = nodes
  <2>1. HasTopologicalOrder(ir) <=> Cardinality(Members(order)) = Cardinality(nodes)
    BY <1>1 DEF HasTopologicalOrder, order
  <2> QED
    BY <1>1, <1>5, <2>1, FS_Subset
<1>8. \A n \in nodes, j \in 1 .. L : order[j] \in ir.next[n] => \E i \in 1 .. L : i < j /\ order[i] = n
  BY <1>4 DEF IsInPlace
<1>9. ASSUME Members(order) = nodes, IsCyclic(succ) PROVE FALSE
  <2>1. PICK set \in SUBSET DOMAIN succ : set # {} /\ \A n \in set : succ[n] \in set
    BY <1>9 DEF IsCyclic
  <2> DEFINE P == {i \in 1 .. L : order[i] \in set}
  <2>2. \A n \in nodes : \E i \in 1 .. L : order[i] = n
    BY <1>9 DEF Members
  <2>3. P # {} /\ P \subseteq 1 .. L
    BY <1>2, <2>1, <2>2
  <2>4. PICK i \in P : \A j \in P : j <= i
    BY <1>3, <2>3, GreatestPlace
  <2>5. order[i] \in set /\ succ[order[i]] \in set
    BY <2>1, <2>4
  <2>6. PICK j \in P : order[j] = succ[order[i]]
    BY <1>2, <2>1, <2>2, <2>5
  <2>7. order[j] \in ir.next[order[i]]
    BY <1>2, <2>1, <2>5, <2>6
  <2>8. PICK k \in 1 .. L : k < j /\ order[k] = order[i]
    BY <1>2, <1>8, <2>1, <2>5, <2>7
  <2>9. k = i
    BY <1>6, <2>8
  <2> QED
    BY <1>3, <2>4, <2>8, <2>9
<1>10. ASSUME Members(order) # nodes PROVE IsCyclic(succ)
  <2> DEFINE R == nodes \ Members(order)
  <2>1. R # {} /\ IsFiniteSet(R)
    BY <1>1, <1>5, <1>10, FS_Subset
  <2>2. ASSUME NEW r \in R PROVE \E p \in R : p \in DOMAIN succ /\ succ[p] = r
    <3>1. PICK p \in R : r \in ir.next[p]
      BY <1>1 DEF Waiting
    <3>2. p \in nodes \ Sinks(ir)
      BY <3>1 DEF Sinks
    <3> QED
      BY <1>2, <3>1, <3>2
  <2> HIDE DEF R
  <2>3. R \subseteq DOMAIN succ /\ \A r \in R : succ[r] \in R
    BY <2>1, <2>2, ReachedFromWithin
  <2> QED
    BY <2>1, <2>3 DEF IsCyclic
<1>11. ASSUME Members(order) = nodes, order # <<>> PROVE LastTopologicalSink(ir) = order[L]
  <2> DEFINE places == {i \in DOMAIN order : order[i] \in Sinks(ir)}
  <2>1. L \in 1 .. L
    BY <1>1, <1>11
  <2>2. order[L] \in Sinks(ir)
    <3> SUFFICES ASSUME order[L] \in nodes \ Sinks(ir) PROVE FALSE
      BY <1>3, <2>1
    <3>1. succ[order[L]] \in ir.next[order[L]] /\ succ[order[L]] \in nodes
      BY <1>2
    <3>2. PICK j \in 1 .. L : order[j] = succ[order[L]]
      BY <1>11, <3>1 DEF Members
    <3>3. PICK k \in 1 .. L : k < j /\ order[k] = order[L]
      BY <1>8, <3>1, <3>2
    <3>4. k = L
      BY <1>6, <2>1, <3>3
    <3> QED
      BY <1>3, <3>3, <3>4
  <2>3. L \in places /\ places \subseteq 1 .. L
    BY <1>3, <2>1, <2>2
  <2>4. \A i \in places : (\A j \in places : j <= i) <=> i = L
    BY <1>3, <2>3
  <2> DEFINE c == CHOOSE i \in places : \A j \in places : j <= i
  <2>5. c = L
    BY <2>3, <2>4
  <2>6. LastTopologicalSink(ir) = order[c]
    BY <2>3 DEF LastTopologicalSink, order
  <2> QED
    BY <2>5, <2>6
<1> QED
  BY <1>1, <1>7, <1>9, <1>10, <1>11 DEF order, succ

\* A step has one next at most.
LEMMA GeneratedIsChain ==
    ASSUME NEW ast, IsSteps(ast.steps), NextIsExact(ast.steps)
    PROVE  IsChain(GeneratedIR(ast).next)
<1> DEFINE next == GeneratedIR(ast).next
<1> DEFINE steps == ast.steps
<1>1. /\ DOMAIN next = StepNames(steps)
      /\ \A n \in DOMAIN next : \E i \in DOMAIN steps :
           next[n] = IF i \in Linked(steps) THEN {Strip(steps[i].next)} ELSE {}
  BY GeneratedLinks
<1>2. IsFiniteSet(StepNames(steps)) /\ StepNames(steps) \subseteq Nat \ {0}
  BY NamesAreFinite
<1>3. \A i \in Linked(steps) : Strip(steps[i].next) \in StepNames(steps)
  BY DEF NextIsExact
<1> HIDE DEF next
<1> QED
  BY <1>1, <1>2, <1>3 DEF IsChain, next

\* The customer's result is the output of the last step of the order.
LEMMA ResultsAreOfTheLastStep ==
    ASSUME NEW ast, IsSteps(ast.steps), NEW outputs
    PROVE  ResultIsOfTheLastStep(ast, outputs)
<1> SUFFICES ASSUME NextIsExact(ast.steps) PROVE ResultIsOfTheLastStep(ast, outputs)
  BY DEF ResultIsOfTheLastStep
<1> DEFINE ir == GeneratedIR(ast)
<1> DEFINE order == KahnOrder(ir)
<1>1. IsChain(ir.next)
  BY GeneratedIsChain
<1> HIDE DEF ir
<1>2. /\ IsOrderOf(order, ir.next)
      /\ HasTopologicalOrder(ir) <=> ~IsCyclic(SuccessorsIn(ir))
      /\ HasTopologicalOrder(ir) /\ order # <<>> => LastTopologicalSink(ir) = order[Len(order)]
  BY <1>1, TopologicalOrders
<1>3. HasTopologicalOrder(ir) /\ order # <<>> =>
        FinalResult(ir, outputs) = IF order[Len(order)] \in DOMAIN outputs THEN outputs[order[Len(order)]] ELSE 0
  BY <1>2 DEF FinalResult
<1> HIDE DEF order
<1> QED
  BY <1>2, <1>3 DEF ResultIsOfTheLastStep, SuccessorsIn, ir, order

Answers(names) == [found : BOOLEAN, colour : Colours(names)]
Levels(names) == [Colours(names) -> [names -> Answers(names)]]

Painted(colour, n, c) == [colour EXCEPT ![n] = c]

\* What the search answers for one name, with the answers one level deeper.
Visit(succ, names, depth, below, colour, n) ==
    LET gray == Painted(colour, n, "gray")
        black == Painted(colour, n, "black")
    IN  IF n \notin DOMAIN succ THEN [found |-> FALSE, colour |-> black]
        ELSE IF succ[n] \notin names THEN [found |-> FALSE, colour |-> gray]
        ELSE IF gray[succ[n]] = "gray" THEN [found |-> TRUE, colour |-> gray]
        ELSE IF gray[succ[n]] = "black" \/ depth = 0 THEN [found |-> FALSE, colour |-> black]
        ELSE IF below[gray][succ[n]].found THEN below[gray][succ[n]]
        ELSE [found |-> FALSE, colour |-> Painted(below[gray][succ[n]].colour, n, "black")]
Level(succ, names, depth, below) ==
    [colour \in Colours(names) |-> [n \in names |-> Visit(succ, names, depth, below, colour, n)]]
IsDfs(g, succ, names) ==
    g = [depth \in 0 .. Cardinality(names) |-> Level(succ, names, depth, g[depth - 1])]

\* What is answered for a name is an answer.
LEMMA VisitAnswers ==
    ASSUME NEW names, NEW succ, NEW depth \in Nat, NEW below,
           depth # 0 => below \in Levels(names),
           NEW colour \in Colours(names), NEW n \in names
    PROVE  Visit(succ, names, depth, below, colour, n) \in Answers(names)
<1> DEFINE gray == Painted(colour, n, "gray")
<1> DEFINE black == Painted(colour, n, "black")
<1> DEFINE answer == below[gray][succ[n]]
<1>1. gray \in Colours(names) /\ black \in Colours(names)
  BY DEF Colours, Painted
<1>2. \A b \in BOOLEAN : [found |-> b, colour |-> gray] \in Answers(names)
                         /\ [found |-> b, colour |-> black] \in Answers(names)
  BY <1>1 DEF Answers
<1>3. ASSUME depth # 0, succ[n] \in names
      PROVE  answer \in Answers(names) /\ [found |-> FALSE, colour |-> Painted(answer.colour, n, "black")] \in Answers(names)
  <2>1. answer \in Answers(names)
    <3> HIDE DEF gray
    <3> QED
      BY <1>1, <1>3 DEF Levels
  <2> HIDE DEF answer
  <2>2. Painted(answer.colour, n, "black") \in Colours(names)
    BY <2>1 DEF Answers, Colours, Painted
  <2> QED
    BY <2>1, <2>2 DEF Answers
<1>4. Visit(succ, names, depth, below, colour, n) =
        IF n \notin DOMAIN succ THEN [found |-> FALSE, colour |-> black]
        ELSE IF succ[n] \notin names THEN [found |-> FALSE, colour |-> gray]
        ELSE IF gray[succ[n]] = "gray" THEN [found |-> TRUE, colour |-> gray]
        ELSE IF gray[succ[n]] = "black" \/ depth = 0 THEN [found |-> FALSE, colour |-> black]
        ELSE IF answer.found THEN answer
        ELSE [found |-> FALSE, colour |-> Painted(answer.colour, n, "black")]
  BY DEF Visit
<1> DEFINE deeper == [found |-> FALSE, colour |-> Painted(answer.colour, n, "black")]
<1> HIDE DEF gray, black, answer, deeper
<1> QED
  BY <1>2, <1>3, <1>4 DEF deeper

\* The search is defined at every depth.
LEMMA DfsIsDefined ==
    ASSUME NEW names, IsFiniteSet(names), NEW succ
    PROVE  \E g : IsDfs(g, succ, names)
<1> DEFINE N == Cardinality(names)
<1> DEFINE V == Nat \X Levels(names)
<1> DEFINE first == Level(succ, names, 0, 0)
<1> DEFINE round == [v \in V |-> <<v[1] + 1, Level(succ, names, v[1] + 1, v[2])>>]
<1>1. N \in Nat
  BY FS_CardinalityType
<1>2. \A depth \in Nat : \A below : (depth # 0 => below \in Levels(names)) => Level(succ, names, depth, below) \in Levels(names)
  <2> SUFFICES ASSUME NEW depth \in Nat, NEW below, depth # 0 => below \in Levels(names)
               PROVE  Level(succ, names, depth, below) \in Levels(names)
    OBVIOUS
  <2>1. \A colour \in Colours(names) : \A n \in names : Visit(succ, names, depth, below, colour, n) \in Answers(names)
    BY VisitAnswers
  <2>2. \A colour \in Colours(names) : [n \in names |-> Visit(succ, names, depth, below, colour, n)] \in [names -> Answers(names)]
    BY <2>1
  <2> QED
    BY <2>2 DEF Level, Levels
<1>3. <<0, first>> \in V
  BY <1>2
<1>4. round \in [V -> V]
  <2>1. ASSUME NEW v \in V PROVE <<v[1] + 1, Level(succ, names, v[1] + 1, v[2])>> \in V
    <3>1. v[1] + 1 \in Nat /\ v[2] \in Levels(names)
      OBVIOUS
    <3>2. Level(succ, names, v[1] + 1, v[2]) \in Levels(names)
      BY <1>2, <3>1
    <3> QED
      BY <3>1, <3>2
  <2> QED
    BY <2>1
<1> HIDE DEF N, V, first
<1>5. PICK h \in [0 .. N -> V] : Runs(h, N, <<0, first>>, round)
  <2>1. \E h \in [0 .. N -> V] : Runs(h, N, <<0, first>>, round)
    <3> HIDE DEF round
    <3> QED
      BY <1>1, <1>3, <1>4, LoopRuns
  <2> QED
    BY <2>1
<1>6. h[0] = <<0, first>> /\ \A k \in 1 .. N : h[k] = <<h[k - 1][1] + 1, Level(succ, names, h[k - 1][1] + 1, h[k - 1][2])>>
  <2>1. \A k \in 1 .. N : h[k - 1] \in V
    BY <1>1
  <2> QED
    BY <1>5, <2>1 DEF Runs
<1> DEFINE S == {k \in Nat : k <= N => h[k][1] = k}
<1>7. Nat \subseteq S
  <2>1. 0 \in S
    BY <1>6
  <2>2. ASSUME NEW k \in Nat, k \in S, k + 1 <= N PROVE h[k + 1][1] = k + 1
    <3>1. k + 1 \in 1 .. N /\ (k + 1) - 1 = k /\ h[k][1] = k
      BY <1>1, <2>2
    <3> QED
      BY <1>6, <3>1
  <2>3. \A k \in Nat : k \in S => k + 1 \in S
    BY <2>2
  <2> HIDE DEF S
  <2> QED
    BY <2>1, <2>3, Induction
<1> DEFINE g == [k \in 0 .. N |-> h[k][2]]
<1>8. \A k \in 0 .. N : g[k] = Level(succ, names, k, g[k - 1])
  <2>1. g[0] = Level(succ, names, 0, g[0 - 1])
    <3>1. g[0] = first
      BY <1>1, <1>6
    <3>2. \A b : \A colour \in Colours(names) : \A n \in names :
             Visit(succ, names, 0, b, colour, n) = Visit(succ, names, 0, 0, colour, n)
      BY DEF Visit
    <3>3. \A b : \A colour \in Colours(names) :
             [n \in names |-> Visit(succ, names, 0, b, colour, n)] = [n \in names |-> Visit(succ, names, 0, 0, colour, n)]
      BY <3>2
    <3>4. \A b : Level(succ, names, 0, b) = Level(succ, names, 0, 0)
      BY <3>3 DEF Level
    <3> HIDE DEF g
    <3> QED
      BY <3>1, <3>4 DEF first
  <2>2. ASSUME NEW k \in 1 .. N PROVE g[k] = Level(succ, names, k, g[k - 1])
    <3>1. k - 1 \in 0 .. N /\ k \in 0 .. N /\ (k - 1) + 1 = k /\ k - 1 \in Nat /\ k - 1 <= N
      BY <1>1
    <3>2. h[k - 1][1] = k - 1
      BY <1>7, <3>1
    <3> QED
      BY <1>6, <3>1, <3>2
  <2> HIDE DEF g
  <2> QED
    BY <1>1, <2>1, <2>2
<1>9. g = [k \in 0 .. N |-> Level(succ, names, k, g[k - 1])]
  <2>1. g = [k \in 0 .. N |-> g[k]]
    OBVIOUS
  <2> HIDE DEF g
  <2> QED
    BY <1>8, <2>1
<1> QED
  BY <1>9 DEF IsDfs, N

OfColour(colour, c) == {n \in DOMAIN colour : colour[n] = c}

\* What the search is done with leads nowhere else, and no cycle is in it.
IsDone(succ, set) ==
    /\ \A n \in set \cap DOMAIN succ : succ[n] \in set
    /\ \A cycle \in SUBSET (set \cap DOMAIN succ) : (\A n \in cycle : succ[n] \in cycle) => cycle = {}

\* A name that leads to a name that is done with is done with too.
LEMMA DoneGrows ==
    ASSUME NEW succ, NEW set, IsDone(succ, set), NEW n, n \notin set,
           n \in DOMAIN succ => succ[n] \in set
    PROVE  IsDone(succ, set \cup {n})
<1>1. \A m \in (set \cup {n}) \cap DOMAIN succ : succ[m] \in set \cup {n}
  BY DEF IsDone
<1>2. ASSUME NEW cycle \in SUBSET ((set \cup {n}) \cap DOMAIN succ), \A m \in cycle : succ[m] \in cycle
      PROVE  cycle = {}
  <2> DEFINE rest == cycle \ {n}
  <2>1. rest \in SUBSET (set \cap DOMAIN succ)
    BY <1>2
  <2>2. \A m \in rest : succ[m] \in rest
    BY <1>2, <2>1 DEF IsDone
  <2>3. rest = {}
    <3> HIDE DEF rest
    <3> QED
      BY <2>1, <2>2 DEF IsDone
  <2>4. ASSUME n \in cycle PROVE FALSE
    <3>1. succ[n] \in set /\ succ[n] \in cycle
      BY <1>2, <2>4
    <3> QED
      BY <2>3, <3>1
  <2> QED
    BY <2>3, <2>4
<1> QED
  BY <1>1, <1>2 DEF IsDone

\* When the search comes to n with depth levels left: n is white, there are not
\* more white names than levels, every gray name leads to a gray one or to n, and
\* the black names are done with.
SearchPre(succ, names, depth, colour, n) ==
    /\ colour \in Colours(names) /\ n \in names /\ colour[n] = "white"
    /\ Cardinality(OfColour(colour, "white")) <= depth + 1
    /\ \A g \in OfColour(colour, "gray") : g \in DOMAIN succ /\ succ[g] \in OfColour(colour, "gray") \cup {n}
    /\ IsDone(succ, OfColour(colour, "black"))

\* It finds a cycle, or leaves n black, the gray names gray and no name unblack.
SearchPost(succ, names, colour, n, answer) ==
    IF answer.found THEN IsCyclic(succ)
    ELSE /\ n \in OfColour(answer.colour, "black")
         /\ OfColour(answer.colour, "gray") = OfColour(colour, "gray")
         /\ OfColour(colour, "black") \subseteq OfColour(answer.colour, "black")
         /\ IsDone(succ, OfColour(answer.colour, "black"))

\* Painting a name moves it from one colour to another.
LEMMA Recoloured ==
    ASSUME NEW names, NEW colour \in Colours(names), NEW n \in names
    PROVE  LET gray == Painted(colour, n, "gray")
               black == Painted(colour, n, "black")
           IN /\ gray \in Colours(names)
              /\ OfColour(gray, "white") = OfColour(colour, "white") \ {n}
              /\ OfColour(gray, "gray") = OfColour(colour, "gray") \cup {n}
              /\ OfColour(gray, "black") = OfColour(colour, "black") \ {n}
              /\ black \in Colours(names)
              /\ OfColour(black, "gray") = OfColour(colour, "gray") \ {n}
              /\ OfColour(black, "black") = OfColour(colour, "black") \cup {n}
BY DEF Colours, OfColour, Painted

\* The search of a name is right when it is right one level deeper.
LEMMA VisitIsRight ==
    ASSUME NEW names, IsFiniteSet(names),
           NEW succ, \A n \in DOMAIN succ : n \in names /\ succ[n] \in names,
           NEW depth \in Nat, NEW below, depth # 0 => below \in Levels(names),
           depth # 0 => \A colour \in Colours(names), n \in names :
             SearchPre(succ, names, depth - 1, colour, n) => SearchPost(succ, names, colour, n, below[colour][n]),
           NEW colour, NEW n, SearchPre(succ, names, depth, colour, n)
    PROVE  SearchPost(succ, names, colour, n, Visit(succ, names, depth, below, colour, n))
<1> DEFINE gray == Painted(colour, n, "gray")
<1> DEFINE black == Painted(colour, n, "black")
<1> DEFINE v == Visit(succ, names, depth, below, colour, n)
<1> DEFINE W(c) == OfColour(c, "white")
<1> DEFINE G(c) == OfColour(c, "gray")
<1> DEFINE B(c) == OfColour(c, "black")
<1>1. /\ colour \in Colours(names) /\ n \in names
      /\ n \in W(colour) /\ n \notin G(colour) /\ n \notin B(colour)
      /\ DOMAIN colour = names
  BY DEF SearchPre, OfColour, Colours
<1>2. /\ \A g \in G(colour) : g \in DOMAIN succ /\ succ[g] \in G(colour) \cup {n}
      /\ IsDone(succ, B(colour))
      /\ Cardinality(W(colour)) <= depth + 1
  BY DEF SearchPre
<1>3. /\ gray \in Colours(names) /\ W(gray) = W(colour) \ {n} /\ G(gray) = G(colour) \cup {n} /\ B(gray) = B(colour)
      /\ black \in Colours(names) /\ G(black) = G(colour) /\ B(black) = B(colour) \cup {n}
  <2>1. /\ gray \in Colours(names) /\ W(gray) = W(colour) \ {n} /\ G(gray) = G(colour) \cup {n}
        /\ B(gray) = B(colour) \ {n}
        /\ black \in Colours(names) /\ G(black) = G(colour) \ {n} /\ B(black) = B(colour) \cup {n}
    BY <1>1, Recoloured
  <2> HIDE DEF W, G, B, gray, black
  <2>2. n \notin G(colour) /\ n \notin B(colour)
    BY <1>1 DEF W, G, B
  <2> QED
    BY <2>1, <2>2
<1>4. \A m \in names : (gray[m] = "gray" <=> m \in G(gray)) /\ (gray[m] = "black" <=> m \in B(gray))
                        /\ (gray[m] # "gray" /\ gray[m] # "black" => m \in W(gray) /\ gray[m] = "white")
  <2> HIDE DEF gray
  <2>1. gray \in Colours(names)
    BY <1>3
  <2> QED
    BY <2>1 DEF Colours, OfColour
<1>5. v = IF n \notin DOMAIN succ THEN [found |-> FALSE, colour |-> black]
          ELSE IF succ[n] \notin names THEN [found |-> FALSE, colour |-> gray]
          ELSE IF gray[succ[n]] = "gray" THEN [found |-> TRUE, colour |-> gray]
          ELSE IF gray[succ[n]] = "black" \/ depth = 0 THEN [found |-> FALSE, colour |-> black]
          ELSE IF below[gray][succ[n]].found THEN below[gray][succ[n]]
          ELSE [found |-> FALSE, colour |-> Painted(below[gray][succ[n]].colour, n, "black")]
  BY DEF Visit
<1>6. SearchPost(succ, names, colour, n, v) <=>
        IF v.found THEN IsCyclic(succ)
        ELSE /\ n \in B(v.colour) /\ G(v.colour) = G(colour)
             /\ B(colour) \subseteq B(v.colour) /\ IsDone(succ, B(v.colour))
  BY DEF SearchPost
<1> SUFFICES SearchPost(succ, names, colour, n, v)
  OBVIOUS
<1> HIDE DEF v, gray, black, W, G, B
<1>7. ASSUME v = [found |-> FALSE, colour |-> black], n \in DOMAIN succ => succ[n] \in B(colour)
      PROVE  SearchPost(succ, names, colour, n, v)
  <2>1. v.found = FALSE /\ v.colour = black
    BY <1>7
  <2>2. IsDone(succ, B(colour) \cup {n})
    BY <1>1, <1>2, <1>7, DoneGrows
  <2> QED
    BY <1>3, <1>6, <2>1, <2>2
<1>8. CASE n \notin DOMAIN succ
  BY <1>5, <1>7, <1>8
<1>9. CASE n \in DOMAIN succ /\ succ[n] \in G(gray)
  <2>1. v = [found |-> TRUE, colour |-> gray]
    BY <1>4, <1>5, <1>9
  <2>2. G(gray) \in SUBSET DOMAIN succ /\ G(gray) # {} /\ \A m \in G(gray) : succ[m] \in G(gray)
    BY <1>2, <1>3, <1>9
  <2>3. IsCyclic(succ)
    BY <2>2 DEF IsCyclic
  <2> QED
    BY <1>6, <2>1, <2>3
<1>10. CASE n \in DOMAIN succ /\ succ[n] \in B(gray)
  <2>1. gray[succ[n]] = "black" /\ gray[succ[n]] # "gray" /\ succ[n] \in names
    BY <1>4, <1>10
  <2>2. v = [found |-> FALSE, colour |-> black]
    BY <1>5, <1>10, <2>1
  <2> QED
    BY <1>3, <1>7, <1>10, <2>2
<1>11. CASE n \in DOMAIN succ /\ succ[n] \notin G(gray) /\ succ[n] \notin B(gray)
  <2> DEFINE m == succ[n]
  <2> DEFINE answer == below[gray][m]
  <2>1. m \in names /\ gray[m] = "white" /\ m \in W(gray)
    BY <1>4, <1>11
  <2>2. Cardinality(W(gray)) <= depth /\ depth # 0
    <3>1. IsFiniteSet(W(colour))
      <4>1. W(colour) \subseteq names
        BY <1>1 DEF W, OfColour
      <4> QED
        BY <4>1, FS_Subset
    <3>2. IsFiniteSet(W(gray)) /\ Cardinality(W(gray)) = Cardinality(W(colour)) - 1
      BY <1>1, <1>3, <3>1, FS_RemoveElement
    <3>3. Cardinality(W(gray)) # 0 /\ Cardinality(W(gray)) \in Nat /\ Cardinality(W(colour)) \in Nat
      BY <2>1, <3>1, <3>2, FS_EmptySet, FS_CardinalityType
    <3> QED
      BY <1>2, <3>2, <3>3
  <2>3. v = IF answer.found THEN answer ELSE [found |-> FALSE, colour |-> Painted(answer.colour, n, "black")]
    <3>1. gray[m] # "gray" /\ gray[m] # "black"
      BY <2>1
    <3> HIDE DEF answer
    <3> QED
      BY <1>5, <1>11, <2>1, <2>2, <3>1 DEF answer
  <2>4. SearchPre(succ, names, depth - 1, gray, m)
    <3>1. \A g \in G(gray) : g \in DOMAIN succ /\ succ[g] \in G(gray) \cup {m}
      BY <1>2, <1>3, <1>11
    <3>2. Cardinality(W(gray)) <= (depth - 1) + 1 /\ IsDone(succ, B(gray))
      BY <1>2, <1>3, <2>2
    <3> HIDE DEF m
    <3> QED
      BY <1>3, <2>1, <3>1, <3>2 DEF SearchPre, W, G, B
  <2>5. SearchPost(succ, names, gray, m, answer) /\ answer \in Answers(names)
    <3>1. below \in Levels(names) /\ gray \in Colours(names) /\ m \in names
      BY <1>3, <2>1, <2>2
    <3> HIDE DEF m
    <3> QED
      BY <2>2, <2>4, <3>1 DEF Levels
  <2> HIDE DEF answer, m
  <2>6. CASE answer.found
    BY <1>6, <2>3, <2>5, <2>6 DEF SearchPost
  <2>7. CASE ~answer.found
    <3> DEFINE c == Painted(answer.colour, n, "black")
    <3>1. v.found = FALSE /\ v.colour = c
      BY <2>3, <2>7
    <3>2. /\ m \in B(answer.colour) /\ G(answer.colour) = G(gray) /\ B(gray) \subseteq B(answer.colour)
          /\ IsDone(succ, B(answer.colour)) /\ answer.colour \in Colours(names)
      BY <2>5, <2>7 DEF SearchPost, Answers, B, G
    <3>3. G(c) = G(answer.colour) \ {n} /\ B(c) = B(answer.colour) \cup {n}
      BY <1>1, <3>2, Recoloured DEF B, G
    <3> HIDE DEF c
    <3>4. n \notin B(answer.colour)
      <4>1. n \in G(answer.colour)
        BY <1>3, <3>2
      <4> QED
        BY <4>1 DEF G, B, OfColour
    <3>5. IsDone(succ, B(answer.colour) \cup {n})
      BY <3>2, <3>4, DoneGrows DEF m
    <3>6. G(c) = G(colour) /\ B(colour) \subseteq B(c) /\ n \in B(c)
      BY <1>1, <1>3, <3>2, <3>3
    <3> QED
      BY <1>6, <3>1, <3>3, <3>5, <3>6
  <2> QED
    BY <2>6, <2>7
<1> QED
  BY <1>8, <1>9, <1>10, <1>11

\* A map of successors that stays within the names.
IsSuccessorMap(succ, names) ==
    IsFiniteSet(names) /\ \A n \in DOMAIN succ : n \in names /\ succ[n] \in names

\* The search of a name is right at the depth it is started with.
LEMMA DfsIsRight ==
    ASSUME NEW names, NEW succ, IsSuccessorMap(succ, names),
           NEW colour, NEW n, SearchPre(succ, names, Cardinality(names), colour, n)
    PROVE  /\ Dfs(succ, names)[colour][n] \in Answers(names)
           /\ SearchPost(succ, names, colour, n, Dfs(succ, names)[colour][n])
<1> DEFINE N == Cardinality(names)
<1> DEFINE g == CHOOSE g : IsDfs(g, succ, names)
<1>1. N \in Nat /\ IsFiniteSet(names) /\ \A m \in DOMAIN succ : m \in names /\ succ[m] \in names
  BY FS_CardinalityType DEF IsSuccessorMap
<1>2. Dfs(succ, names) = g[N]
  BY DEF Dfs, IsDfs, Level, Visit, Painted
<1>3. IsDfs(g, succ, names)
  BY <1>1, DfsIsDefined
<1> HIDE DEF g, N
<1>4. \A k \in 0 .. N : g[k] = Level(succ, names, k, g[k - 1])
  BY <1>3 DEF IsDfs, N
<1> DEFINE IsRight(k, level) ==
      /\ level \in Levels(names)
      /\ \A c \in Colours(names), m \in names :
           SearchPre(succ, names, k, c, m) => SearchPost(succ, names, c, m, level[c][m])
<1>5. ASSUME NEW k \in Nat, NEW below, k # 0 => IsRight(k - 1, below)
      PROVE  IsRight(k, Level(succ, names, k, below))
  <2> DEFINE level == Level(succ, names, k, below)
  <2>1. \A c \in Colours(names), m \in names : Visit(succ, names, k, below, c, m) \in Answers(names)
    BY <1>5, VisitAnswers
  <2>2. \A c \in Colours(names) : [m \in names |-> Visit(succ, names, k, below, c, m)] \in [names -> Answers(names)]
    BY <2>1
  <2>3. level \in Levels(names) /\ \A c \in Colours(names), m \in names : level[c][m] = Visit(succ, names, k, below, c, m)
    BY <2>2 DEF Level, Levels
  <2>4. ASSUME NEW c \in Colours(names), NEW m \in names, SearchPre(succ, names, k, c, m)
        PROVE  SearchPost(succ, names, c, m, Visit(succ, names, k, below, c, m))
    BY <1>1, <1>5, <2>4, VisitIsRight
  <2> HIDE DEF level
  <2> QED
    BY <2>3, <2>4 DEF level
<1> DEFINE S == {k \in Nat : k <= N => IsRight(k, g[k])}
<1>6. Nat \subseteq S
  <2>1. 0 \in S
    <3>1. IsRight(0, Level(succ, names, 0, g[0 - 1]))
      <4> HIDE DEF IsRight
      <4> QED
        BY <1>5
    <3> HIDE DEF IsRight
    <3> QED
      BY <1>1, <1>4, <3>1
  <2>2. ASSUME NEW k \in Nat, k \in S, k + 1 <= N PROVE IsRight(k + 1, g[k + 1])
    <3> HIDE DEF IsRight
    <3>1. k + 1 \in 0 .. N /\ (k + 1) - 1 = k /\ k + 1 \in Nat /\ IsRight(k, g[k])
      BY <1>1, <2>2
    <3> QED
      BY <1>4, <1>5, <3>1
  <2>3. \A k \in Nat : k \in S => k + 1 \in S
    <3> HIDE DEF IsRight
    <3> QED
      BY <2>2
  <2> HIDE DEF S
  <2> QED
    BY <2>1, <2>3, Induction
<1>7. IsRight(N, g[N])
  <2> HIDE DEF IsRight
  <2> QED
    BY <1>1, <1>6
<1>8. colour \in Colours(names) /\ n \in names
  BY DEF SearchPre
<1>9. g[N][colour][n] \in Answers(names)
  BY <1>7, <1>8 DEF Levels
<1> QED
  BY <1>2, <1>7, <1>8, <1>9 DEF N

SearchStates(names) == [found : BOOLEAN, colour : Colours(names), left : SUBSET names]
FirstSearch(names) == [found |-> FALSE, colour |-> [n \in names |-> "white"], left |-> names]
IsSearch(g, succ, names) ==
    g = [k \in 0 .. Cardinality(names) |->
           IF k = 0 THEN FirstSearch(names) ELSE SearchRound(succ, names, g[k - 1])]

\* After k names: a cycle is found, or every one of them is black and done with.
SearchInv(succ, names, s, k) ==
    /\ s \in SearchStates(names)
    /\ Cardinality(s.left) + k = Cardinality(names)
    /\ IF s.found THEN IsCyclic(succ)
       ELSE /\ OfColour(s.colour, "gray") = {}
            /\ names \ s.left \subseteq OfColour(s.colour, "black")
            /\ IsDone(succ, OfColour(s.colour, "black"))

\* The search from one more name.
LEMMA SearchRoundGoesOn ==
    ASSUME NEW names, NEW succ, IsSuccessorMap(succ, names),
           NEW k \in Nat, k < Cardinality(names), NEW s, SearchInv(succ, names, s, k)
    PROVE  SearchInv(succ, names, SearchRound(succ, names, s), k + 1)
<1> DEFINE n == CHOOSE n \in s.left : TRUE
<1> DEFINE answer == Dfs(succ, names)[s.colour][n]
<1> DEFINE t == SearchRound(succ, names, s)
<1>1. s.found \in BOOLEAN /\ s.colour \in Colours(names) /\ s.left \in SUBSET names
      /\ Cardinality(s.left) + k = Cardinality(names) /\ IsFiniteSet(names)
      /\ Cardinality(names) \in Nat
  BY FS_CardinalityType DEF SearchInv, SearchStates, IsSuccessorMap
<1>2. IsFiniteSet(s.left) /\ Cardinality(s.left) \in Nat
  BY <1>1, FS_Subset, FS_CardinalityType
<1>3. n \in s.left /\ n \in names
  <2>1. s.left # {}
    BY <1>1, <1>2, FS_EmptySet
  <2> QED
    BY <1>1, <2>1
<1>4. Cardinality(s.left \ {n}) + (k + 1) = Cardinality(names)
  <2> HIDE DEF n
  <2>1. Cardinality(s.left \ {n}) = Cardinality(s.left) - 1
    BY <1>2, <1>3, FS_RemoveElement
  <2> QED
    BY <1>1, <1>2, <2>1
<1>5. t = IF s.found \/ s.colour[n] # "white" THEN [found |-> s.found, colour |-> s.colour, left |-> s.left \ {n}]
          ELSE [found |-> answer.found, colour |-> answer.colour, left |-> s.left \ {n}]
  BY DEF SearchRound
<1> HIDE DEF n, t, answer
<1>6. CASE s.found
  <2>1. t.found = s.found /\ t.left = s.left \ {n} /\ t \in SearchStates(names)
    BY <1>1, <1>5, <1>6 DEF SearchStates
  <2>2. IsCyclic(succ)
    BY <1>6 DEF SearchInv
  <2> QED
    BY <1>4, <1>6, <2>1, <2>2 DEF SearchInv, t
<1>7. CASE ~s.found /\ s.colour[n] # "white"
  <2>1. t.found = s.found /\ t.left = s.left \ {n} /\ t.colour = s.colour /\ t \in SearchStates(names)
    BY <1>1, <1>5, <1>7 DEF SearchStates
  <2>2. /\ OfColour(s.colour, "gray") = {}
        /\ names \ s.left \subseteq OfColour(s.colour, "black")
        /\ IsDone(succ, OfColour(s.colour, "black"))
    BY <1>7 DEF SearchInv
  <2>3. n \in OfColour(s.colour, "black")
    BY <1>1, <1>3, <1>7, <2>2 DEF OfColour, Colours
  <2>4. names \ t.left \subseteq OfColour(t.colour, "black")
    BY <2>1, <2>2, <2>3
  <2> QED
    BY <1>4, <1>7, <2>1, <2>2, <2>4 DEF SearchInv, t
<1>8. CASE ~s.found /\ s.colour[n] = "white"
  <2>1. /\ OfColour(s.colour, "gray") = {}
        /\ names \ s.left \subseteq OfColour(s.colour, "black")
        /\ IsDone(succ, OfColour(s.colour, "black"))
    BY <1>8 DEF SearchInv
  <2>2. SearchPre(succ, names, Cardinality(names), s.colour, n)
    <3>1. OfColour(s.colour, "white") \subseteq names
      BY <1>1 DEF OfColour, Colours
    <3>2. Cardinality(OfColour(s.colour, "white")) <= Cardinality(names)
          /\ Cardinality(OfColour(s.colour, "white")) \in Nat
      BY <1>1, <3>1, FS_Subset, FS_CardinalityType
    <3>3. Cardinality(OfColour(s.colour, "white")) <= Cardinality(names) + 1
      BY <1>1, <3>2
    <3> QED
      BY <1>1, <1>3, <1>8, <2>1, <3>3 DEF SearchPre
  <2>3. answer \in Answers(names) /\ SearchPost(succ, names, s.colour, n, answer)
    BY <2>2, DfsIsRight DEF answer
  <2>4. t.found = answer.found /\ t.left = s.left \ {n} /\ t.colour = answer.colour /\ t \in SearchStates(names)
    BY <1>1, <1>5, <1>8, <2>3 DEF SearchStates, Answers
  <2>5. CASE answer.found
    BY <1>4, <2>3, <2>4, <2>5 DEF SearchInv, SearchPost, t
  <2>6. CASE ~answer.found
    <3>1. /\ n \in OfColour(answer.colour, "black")
          /\ OfColour(answer.colour, "gray") = OfColour(s.colour, "gray")
          /\ OfColour(s.colour, "black") \subseteq OfColour(answer.colour, "black")
          /\ IsDone(succ, OfColour(answer.colour, "black"))
      BY <2>3, <2>6 DEF SearchPost
    <3>2. names \ t.left \subseteq OfColour(t.colour, "black")
      BY <2>1, <2>4, <3>1
    <3> QED
      BY <1>4, <2>1, <2>4, <2>6, <3>1, <3>2 DEF SearchInv, t
  <2> QED
    BY <2>5, <2>6
<1> QED
  BY <1>1, <1>6, <1>7, <1>8

\* The search finds a cycle exactly when there is one.
LEMMA SearchIsRight ==
    ASSUME NEW steps, IsSuccessorMap(Successors(steps), StepNames(steps))
    PROVE  NextChainHasCycle(steps) <=> IsCyclic(Successors(steps))
<1> DEFINE names == StepNames(steps)
<1> DEFINE succ == Successors(steps)
<1> DEFINE N == Cardinality(names)
<1> DEFINE V == SearchStates(names)
<1> DEFINE first == FirstSearch(names)
<1> DEFINE search == CHOOSE g : IsSearch(g, succ, names)
<1>1. N \in Nat /\ IsFiniteSet(names)
  BY FS_CardinalityType DEF IsSuccessorMap
<1>2. NextChainHasCycle(steps) = search[N].found
  BY DEF NextChainHasCycle, IsSearch, FirstSearch
<1> HIDE DEF succ, names
<1>3. SearchInv(succ, names, first, 0)
  <2>1. first.found = FALSE /\ first.left = names /\ first.colour = [n \in names |-> "white"]
    BY DEF FirstSearch
  <2>2. first \in SearchStates(names)
    BY DEF FirstSearch, SearchStates, Colours
  <2> HIDE DEF first
  <2>3. OfColour(first.colour, "gray") = {} /\ OfColour(first.colour, "black") = {}
    BY <2>1 DEF OfColour
  <2>4. IsDone(succ, {})
    BY DEF IsDone
  <2> QED
    BY <1>1, <2>1, <2>2, <2>3, <2>4 DEF SearchInv
<1>4. \A k \in Nat : \A s : k < N /\ SearchInv(succ, names, s, k) => SearchInv(succ, names, SearchRound(succ, names, s), k + 1)
  BY SearchRoundGoesOn DEF succ, names
<1>5. \A s, k : SearchInv(succ, names, s, k) => s \in V
  BY DEF SearchInv
<1> DEFINE round == [s \in V |-> IF SearchRound(succ, names, s) \in V THEN SearchRound(succ, names, s) ELSE first]
<1>6. round \in [V -> V] /\ first \in V
  BY <1>3, <1>5
<1> HIDE DEF N, V, first, search
<1>7. PICK g \in [0 .. N -> V] : Runs(g, N, first, round)
  <2>1. \E g \in [0 .. N -> V] : Runs(g, N, first, round)
    <3> HIDE DEF round
    <3> QED
      BY <1>1, <1>6, LoopRuns
  <2> QED
    BY <2>1
<1>8. g[0] = first /\ \A k \in 1 .. N : g[k] = round[g[k - 1]]
  BY <1>7 DEF Runs
<1> DEFINE S == {k \in Nat : k <= N => SearchInv(succ, names, g[k], k)}
<1>9. Nat \subseteq S
  <2>1. 0 \in S
    BY <1>3, <1>8
  <2>2. ASSUME NEW k \in Nat, k \in S, k + 1 <= N PROVE SearchInv(succ, names, g[k + 1], k + 1)
    <3>1. SearchInv(succ, names, g[k], k) /\ k < N /\ k + 1 \in 1 .. N /\ (k + 1) - 1 = k
      BY <1>1, <2>2
    <3>2. SearchInv(succ, names, SearchRound(succ, names, g[k]), k + 1)
      BY <1>4, <3>1
    <3>3. g[k + 1] = SearchRound(succ, names, g[k])
      BY <1>5, <1>8, <3>1, <3>2
    <3> QED
      BY <3>2, <3>3
  <2>3. \A k \in Nat : k \in S => k + 1 \in S
    BY <2>2
  <2> HIDE DEF S
  <2> QED
    BY <2>1, <2>3, Induction
<1>10. \A k \in 1 .. N : g[k] = SearchRound(succ, names, g[k - 1])
  <2> SUFFICES ASSUME NEW k \in 1 .. N PROVE g[k] = SearchRound(succ, names, g[k - 1])
    OBVIOUS
  <2>1. k - 1 \in Nat /\ k - 1 <= N /\ k - 1 < N /\ (k - 1) + 1 = k
    BY <1>1
  <2>2. SearchInv(succ, names, g[k - 1], k - 1)
    BY <1>9, <2>1
  <2>3. SearchInv(succ, names, SearchRound(succ, names, g[k - 1]), (k - 1) + 1)
    BY <1>4, <2>1, <2>2
  <2> QED
    BY <1>5, <1>8, <2>2, <2>3
<1>11. IsSearch(search, succ, names)
  <2>1. g = [k \in 0 .. N |-> IF k = 0 THEN first ELSE SearchRound(succ, names, g[k - 1])]
    BY <1>7, <1>8, <1>10
  <2>2. IsSearch(g, succ, names)
    BY <2>1 DEF IsSearch, N, first
  <2> QED
    BY <2>2 DEF search
<1> DEFINE T == {k \in Nat : k <= N => SearchInv(succ, names, search[k], k)}
<1>12. Nat \subseteq T
  <2>1. 0 \in T
    BY <1>1, <1>3, <1>11 DEF IsSearch, N, first
  <2>2. ASSUME NEW k \in Nat, k \in T, k + 1 <= N PROVE SearchInv(succ, names, search[k + 1], k + 1)
    <3>1. SearchInv(succ, names, search[k], k) /\ k < N /\ k + 1 \in 0 .. N /\ (k + 1) - 1 = k /\ k + 1 # 0
      BY <1>1, <2>2
    <3>2. SearchInv(succ, names, SearchRound(succ, names, search[k]), k + 1)
      BY <1>4, <3>1
    <3>3. search[k + 1] = SearchRound(succ, names, search[k])
      BY <1>11, <3>1 DEF IsSearch, N
    <3> QED
      BY <3>2, <3>3
  <2>3. \A k \in Nat : k \in T => k + 1 \in T
    BY <2>2
  <2> HIDE DEF T
  <2> QED
    BY <2>1, <2>3, Induction
<1>13. SearchInv(succ, names, search[N], N)
  BY <1>1, <1>12
<1> DEFINE last == search[N]
<1>14. last.left = {}
  <2>1. last.left \in SUBSET names /\ Cardinality(last.left) + N = N
    BY <1>13 DEF SearchInv, SearchStates, N
  <2>2. IsFiniteSet(last.left) /\ Cardinality(last.left) \in Nat
    BY <1>1, <2>1, FS_Subset, FS_CardinalityType
  <2> HIDE DEF last
  <2>3. Cardinality(last.left) = 0
    BY <1>1, <2>1, <2>2
  <2> QED
    BY <2>2, <2>3, FS_EmptySet
<1> HIDE DEF last
<1>15. last.found \in BOOLEAN /\ (last.found => IsCyclic(succ))
  BY <1>13 DEF SearchInv, SearchStates, last
<1>16. ASSUME ~last.found PROVE ~IsCyclic(succ)
  <2>1. names \subseteq OfColour(last.colour, "black") /\ IsDone(succ, OfColour(last.colour, "black"))
    BY <1>13, <1>14, <1>16 DEF SearchInv, last
  <2>2. DOMAIN succ \subseteq names
    BY DEF IsSuccessorMap, succ, names
  <2> QED
    BY <2>1, <2>2 DEF IsCyclic, IsDone
<1> QED
  BY <1>2, <1>15, <1>16 DEF last, succ, names

\* In a pipeline whose next are exact, every successor is a step.
LEMMA SuccessorsStayWithin ==
    ASSUME NEW steps, IsSteps(steps), NextIsExact(steps)
    PROVE  /\ IsSuccessorMap(Successors(steps), StepNames(steps))
           /\ DOMAIN Successors(steps) = {steps[i].name : i \in Linked(steps)}
           /\ \A n \in DOMAIN Successors(steps) : \E i \in Linked(steps) :
                steps[i].name = n /\ Successors(steps)[n] = Strip(steps[i].next)
<1> DEFINE succ == Successors(steps)
<1>1. Linked(steps) \in SUBSET DOMAIN steps
  BY DEF Linked
<1>2. DOMAIN succ = {steps[i].name : i \in Linked(steps)}
      /\ \A n \in DOMAIN succ : succ[n] = Strip(LastOfName(steps, Linked(steps), n).next)
  BY DEF Successors
<1> HIDE DEF succ
<1>3. ASSUME NEW n \in DOMAIN succ
      PROVE  \E i \in Linked(steps) : steps[i].name = n /\ succ[n] = Strip(steps[i].next)
  <2>1. PICK i \in Linked(steps) : steps[i].name = n /\ LastOfName(steps, Linked(steps), n) = steps[i]
    BY <1>1, <1>2, LastOfNameIsLast
  <2> QED
    BY <1>2, <2>1
<1>4. \A n \in DOMAIN succ : n \in StepNames(steps) /\ succ[n] \in StepNames(steps)
  BY <1>1, <1>2, <1>3 DEF NextIsExact, StepNames
<1>5. IsFiniteSet(StepNames(steps))
  BY NamesAreFinite
<1> QED
  BY <1>2, <1>3, <1>4, <1>5 DEF IsSuccessorMap, succ

\* validate_structure finds every cycle.
LEMMA CyclesAreAllFound ==
    ASSUME NEW steps, IsSteps(steps)
    PROVE  CyclesAreFound(steps)
BY SearchIsRight, SuccessorsStayWithin DEF CyclesAreFound

\* In a pipeline whose names are unique, lowering keeps exactly the links.
LEMMA LinksAreSuccessors ==
    ASSUME NEW ast, IsSteps(ast.steps), NamesAreUnique(ast.steps), NextIsExact(ast.steps)
    PROVE  LET steps == ast.steps
               next == GeneratedIR(ast).next
               succ == Successors(steps)
           IN /\ DOMAIN next = StepNames(steps)
              /\ \A i \in DOMAIN steps :
                   next[steps[i].name] = IF i \in Linked(steps) THEN {Strip(steps[i].next)} ELSE {}
              /\ \A n \in StepNames(steps) : next[n] = IF n \in DOMAIN succ THEN {succ[n]} ELSE {}
              /\ \A n \in DOMAIN succ : succ[n] \in StepNames(steps)
              /\ \A m \in Referenced(steps) : \E n \in StepNames(steps) : n \in DOMAIN succ /\ succ[n] = m
<1> DEFINE steps == ast.steps
<1> DEFINE next == GeneratedIR(ast).next
<1> DEFINE succ == Successors(steps)
<1>1. /\ DOMAIN next = StepNames(steps)
      /\ \A n \in DOMAIN next : \E i \in DOMAIN steps :
           steps[i].name = n /\ next[n] = IF i \in Linked(steps) THEN {Strip(steps[i].next)} ELSE {}
  BY GeneratedLinks
<1>2. /\ DOMAIN succ = {steps[i].name : i \in Linked(steps)}
      /\ \A n \in DOMAIN succ : \E i \in Linked(steps) : steps[i].name = n /\ succ[n] = Strip(steps[i].next)
      /\ \A n \in DOMAIN succ : n \in StepNames(steps) /\ succ[n] \in StepNames(steps)
  BY SuccessorsStayWithin DEF IsSuccessorMap
<1>3. \A i, j \in DOMAIN steps : steps[i].name = steps[j].name => i = j
  BY DEF NamesAreUnique
<1>4. \A i \in DOMAIN steps : steps[i].name \in StepNames(steps)
  BY DEF StepNames
<1>5. \A i \in Linked(steps) : i \in DOMAIN steps
  BY DEF Linked
<1> HIDE DEF next, succ
<1>6. \A i \in DOMAIN steps :
        next[steps[i].name] = IF i \in Linked(steps) THEN {Strip(steps[i].next)} ELSE {}
  <2> SUFFICES ASSUME NEW i \in DOMAIN steps
               PROVE  next[steps[i].name] = IF i \in Linked(steps) THEN {Strip(steps[i].next)} ELSE {}
    OBVIOUS
  <2>1. PICK j \in DOMAIN steps :
          steps[j].name = steps[i].name
          /\ next[steps[i].name] = IF j \in Linked(steps) THEN {Strip(steps[j].next)} ELSE {}
    BY <1>1, <1>4
  <2>2. j = i
    BY <1>3, <2>1
  <2> QED
    BY <2>1, <2>2
<1>7. \A i \in Linked(steps) : steps[i].name \in DOMAIN succ /\ succ[steps[i].name] = Strip(steps[i].next)
  <2> SUFFICES ASSUME NEW i \in Linked(steps)
               PROVE  steps[i].name \in DOMAIN succ /\ succ[steps[i].name] = Strip(steps[i].next)
    OBVIOUS
  <2>1. steps[i].name \in DOMAIN succ
    BY <1>2
  <2>2. PICK j \in Linked(steps) : steps[j].name = steps[i].name /\ succ[steps[i].name] = Strip(steps[j].next)
    BY <1>2, <2>1
  <2>3. j = i
    BY <1>3, <1>5, <2>2
  <2> QED
    BY <2>1, <2>2, <2>3
<1>8. \A n \in StepNames(steps) : next[n] = IF n \in DOMAIN succ THEN {succ[n]} ELSE {}
  <2> SUFFICES ASSUME NEW n \in StepNames(steps) PROVE next[n] = IF n \in DOMAIN succ THEN {succ[n]} ELSE {}
    OBVIOUS
  <2>1. PICK i \in DOMAIN steps : steps[i].name = n
    BY DEF StepNames
  <2>2. i \in Linked(steps) <=> n \in DOMAIN succ
    <3>1. ASSUME n \in DOMAIN succ PROVE i \in Linked(steps)
      <4>1. PICK j \in Linked(steps) : steps[j].name = n
        BY <1>2, <3>1
      <4> QED
        BY <1>3, <1>5, <2>1, <4>1
    <3> QED
      BY <1>7, <2>1, <3>1
  <2> QED
    BY <1>6, <1>7, <2>1, <2>2
<1>9. \A m \in Referenced(steps) : \E n \in StepNames(steps) : n \in DOMAIN succ /\ succ[n] = m
  BY <1>4, <1>5, <1>7 DEF Referenced
<1> QED
  BY <1>1, <1>2, <1>6, <1>8, <1>9 DEF next, succ

\* What passes the checks is lowered and optimised whole.
LEMMA CheckedAreWhole ==
    ASSUME NEW ast, IsSteps(ast.steps)
    PROVE  CheckedIsWhole(ast)
<1> SUFFICES ASSUME CheckPasses(ast) PROVE CheckedIsWhole(ast)
  BY DEF CheckedIsWhole
<1> DEFINE steps == ast.steps
<1> DEFINE names == StepNames(steps)
<1> DEFINE succ == Successors(steps)
<1> DEFINE gen == GeneratedIR(ast)
<1> DEFINE ir == OptimizedIR(gen)
<1>1. NamesAreUnique(steps) /\ NextIsExact(steps)
  BY DEF CheckPasses
<1>2. ~IsCyclic(succ)
  BY <1>1, CyclesAreAllFound DEF CheckPasses, CyclesAreFound
<1>3. /\ DOMAIN gen.next = names
      /\ \A i \in DOMAIN steps :
           gen.next[steps[i].name] = IF i \in Linked(steps) THEN {Strip(steps[i].next)} ELSE {}
      /\ \A n \in names : gen.next[n] = IF n \in DOMAIN succ THEN {succ[n]} ELSE {}
      /\ \A n \in DOMAIN succ : succ[n] \in names
      /\ \A m \in Referenced(steps) : \E n \in names : n \in DOMAIN succ /\ succ[n] = m
  BY <1>1, LinksAreSuccessors
<1>4. IsFiniteSet(names) /\ names \subseteq Nat \ {0}
  BY NamesAreFinite
<1>5. gen.entrypoints = names \ Referenced(steps) /\ Entrypoints(steps) = names \ Referenced(steps)
  BY DEF GeneratedIR, Entrypoints
<1>6. /\ \A n \in DOMAIN ir.next : ir.next[n] = gen.next[n] \cap DOMAIN gen.next
      /\ ir.entrypoints = gen.entrypoints
      /\ DOMAIN ir.next \subseteq DOMAIN gen.next /\ gen.entrypoints \subseteq DOMAIN ir.next
      /\ ClosedUnder(gen.next, DOMAIN ir.next)
  <2>1. IsRooted(gen)
    BY GeneratedIsRooted
  <2> HIDE DEF gen
  <2>2. ir.next = [n \in DOMAIN ir.next |-> gen.next[n] \cap DOMAIN gen.next]
    BY <2>1, OptimizedIsReachable
  <2>3. /\ ir.entrypoints = gen.entrypoints
        /\ DOMAIN ir.next \subseteq DOMAIN gen.next /\ gen.entrypoints \subseteq DOMAIN ir.next
        /\ ClosedUnder(gen.next, DOMAIN ir.next)
    BY <2>1, OptimizedIsReachable
  <2> HIDE DEF ir
  <2> QED
    BY <2>2, <2>3
<1> HIDE DEF succ, gen, ir, names
<1>7. ASSUME NEW R \in SUBSET names, \A m \in R : \E n \in R : n \in DOMAIN succ /\ succ[n] = m
      PROVE  R = {}
  <2>1. IsFiniteSet(R)
    BY <1>4, FS_Subset
  <2>2. R \subseteq DOMAIN succ /\ \A m \in R : succ[m] \in R
    BY <1>7, <2>1, ReachedFromWithin
  <2> QED
    BY <1>2, <2>2 DEF IsCyclic
<1>8. DOMAIN ir.next = names
  <2> DEFINE R == names \ DOMAIN ir.next
  <2>1. ASSUME NEW m \in R PROVE \E n \in R : n \in DOMAIN succ /\ succ[n] = m
    <3>1. PICK n \in names : n \in DOMAIN succ /\ succ[n] = m
      BY <1>3, <1>5, <1>6
    <3>2. n \notin DOMAIN ir.next
      <4> SUFFICES ASSUME n \in DOMAIN ir.next PROVE FALSE
        OBVIOUS
      <4>1. gen.next[n] \cap DOMAIN gen.next \subseteq DOMAIN ir.next
        BY <1>6 DEF ClosedUnder
      <4> QED
        BY <1>3, <3>1, <4>1
    <3> QED
      BY <3>1, <3>2
  <2> HIDE DEF R
  <2>2. R \in SUBSET names
    BY DEF R
  <2>3. R = {}
    BY <1>7, <2>1, <2>2
  <2> QED
    BY <1>3, <1>6, <2>3 DEF R
<1>9. \A n \in names : ir.next[n] = gen.next[n]
  <2> SUFFICES ASSUME NEW n \in names PROVE ir.next[n] = gen.next[n]
    OBVIOUS
  <2>1. ir.next[n] = gen.next[n] \cap names
    BY <1>3, <1>6, <1>8
  <2>2. gen.next[n] = (IF n \in DOMAIN succ THEN {succ[n]} ELSE {}) /\ (n \in DOMAIN succ => succ[n] \in names)
    BY <1>3
  <2> QED
    BY <2>1, <2>2
<1>10. Generates(ast) <=> steps # <<>>
  <2>1. steps = <<>> <=> names = {}
    <3>1. Len(steps) = 0 <=> names = {}
      <4>1. Len(steps) \in Nat /\ DOMAIN steps = 1 .. Len(steps)
        BY DEF IsSteps
      <4> HIDE DEF steps
      <4>2. \A L \in Nat : 1 .. L = {} <=> L = 0
        OBVIOUS
      <4>3. DOMAIN steps = {} <=> Len(steps) = 0
        BY <4>1, <4>2
      <4> QED
        BY <4>3 DEF names, StepNames
    <3>2. \E S : steps \in Seq(S)
      BY DEF IsSteps
    <3>3. Len(steps) = 0 <=> steps = <<>>
      BY <3>2
    <3> QED
      BY <3>1, <3>3
  <2>2. ASSUME Entrypoints(steps) = {} PROVE names = {}
    BY <1>3, <1>5, <1>7, <2>2
  <2>3. Entrypoints(steps) \subseteq names
    BY <1>5
  <2> QED
    BY <2>1, <2>2, <2>3 DEF Generates
<1>11. Generates(ast) => Optimizes(gen)
  <2>1. Optimizes(gen) <=> ir.entrypoints # {}
    BY DEF Optimizes, ir
  <2> QED
    BY <1>5, <1>6, <2>1 DEF Generates
<1>12. \A i \in DOMAIN steps : ir.next[steps[i].name] = IF i \in Linked(steps) THEN {steps[i].next.word} ELSE {}
  <2>1. \A i \in DOMAIN steps : steps[i].name \in names
    BY DEF StepNames, names
  <2> QED
    <3> SUFFICES ASSUME NEW i \in DOMAIN steps
                 PROVE  ir.next[steps[i].name] = IF i \in Linked(steps) THEN {steps[i].next.word} ELSE {}
      OBVIOUS
    <3>1. ir.next[steps[i].name] = gen.next[steps[i].name]
      BY <1>9, <2>1
    <3>2. gen.next[steps[i].name] = IF i \in Linked(steps) THEN {Strip(steps[i].next)} ELSE {}
      BY <1>3
    <3> QED
      BY <3>1, <3>2 DEF Strip
<1>13. HasTopologicalOrder(ir)
  <2>1. IsChain(ir.next)
    BY <1>3, <1>4, <1>8, <1>9 DEF IsChain
  <2>2. /\ DOMAIN SuccessorsIn(ir) = names \ Sinks(ir)
        /\ \A n \in names \ Sinks(ir) : ir.next[n] = {SuccessorsIn(ir)[n]}
    BY <1>8, <2>1, SuccessorsAreLinks
  <2>3. \A n \in DOMAIN SuccessorsIn(ir) : n \in DOMAIN succ /\ SuccessorsIn(ir)[n] = succ[n]
    <3> SUFFICES ASSUME NEW n \in names \ Sinks(ir) PROVE n \in DOMAIN succ /\ SuccessorsIn(ir)[n] = succ[n]
      BY <2>2
    <3>1. ir.next[n] = {SuccessorsIn(ir)[n]} /\ ir.next[n] = IF n \in DOMAIN succ THEN {succ[n]} ELSE {}
      BY <1>3, <1>9, <2>2
    <3> QED
      BY <3>1
  <2>4. ~IsCyclic(SuccessorsIn(ir))
    <3> DEFINE links == SuccessorsIn(ir)
    <3> HIDE DEF links
    <3>1. \A n \in DOMAIN links : n \in DOMAIN succ /\ links[n] = succ[n]
      BY <2>3 DEF links
    <3>2. ~IsCyclic(links)
      BY <1>2, <3>1 DEF IsCyclic
    <3> QED
      BY <3>2 DEF links
  <2> QED
    BY <2>1, <2>4, TopologicalOrders
<1> QED
  BY <1>8, <1>10, <1>11, <1>12, <1>13 DEF CheckedIsWhole, ir, gen, names

\* A text is None or a word with or without blanks around it; a pipeline as it is
\* posted, with keys for its steps' configurations.
Text == [word : Nat, padded : BOOLEAN] \cup {NoText}
RawPipelines(keys) ==
    [name : Text, steps : Seq([name : Text, type : Text, next : Text,
                               config : SUBSET keys, beside : SUBSET keys])]

\* What parses has the types the checks rely on, and nothing of it is lost.
LEMMA ParsedSteps ==
    ASSUME NEW keys, NEW raw \in RawPipelines(keys), Parses(raw)
    PROVE  IsSteps(Parsed(raw).steps) /\ ParsingLosesNothing(raw)
<1> DEFINE steps == Parsed(raw).steps
<1>1. Len(raw.steps) \in Nat /\ DOMAIN raw.steps = 1 .. Len(raw.steps)
  BY DEF RawPipelines
<1>2. steps = [i \in DOMAIN raw.steps |-> ParsedStep(raw.steps[i])]
  BY DEF Parsed
<1>3. Len(steps) = Len(raw.steps)
  BY <1>1, <1>2
<1> HIDE DEF steps
<1>4. ASSUME NEW i \in DOMAIN raw.steps
      PROVE  /\ steps[i].name \in Nat \ {0} /\ steps[i].type \in Nat \ {0} /\ steps[i].next = raw.steps[i].next
             /\ steps[i].next # NoText => Strip(steps[i].next) \in Nat
             /\ {k \in DOMAIN steps[i].config : steps[i].config[k] = "config"} = raw.steps[i].config
             /\ {k \in DOMAIN steps[i].config : steps[i].config[k] = "top level"} = raw.steps[i].beside
  <2> DEFINE item == raw.steps[i]
  <2>1. item \in [name : Text, type : Text, next : Text, config : SUBSET keys, beside : SUBSET keys]
    <3> DEFINE X == [name : Text, type : Text, next : Text, config : SUBSET keys, beside : SUBSET keys]
    <3>1. raw \in [name : Text, steps : Seq(X)]
      BY DEF RawPipelines
    <3> HIDE DEF X
    <3>2. raw.steps \in Seq(X)
      BY <3>1
    <3>3. raw.steps[i] \in X
      BY <1>1, <3>2
    <3> QED
      BY <3>3 DEF X
  <2>2. item.name # NoText /\ ~IsBlank(item.name) /\ item.type # NoText /\ ~IsBlank(item.type)
        /\ item.config \cap item.beside = {}
    BY DEF Parses, StepIsWellFormed
  <2> DEFINE config == [k \in item.config \cup item.beside |-> IF k \in item.beside THEN "top level" ELSE "config"]
  <2>3. steps[i] = [name |-> Strip(item.name), type |-> Strip(item.type), next |-> item.next, config |-> config]
    BY <1>2 DEF ParsedStep
  <2> HIDE DEF item
  <2>4. \A t \in Text : t # NoText => t.word \in Nat
    BY DEF Text
  <2>5. item.name \in Text /\ item.type \in Text /\ item.next \in Text
    BY <2>1
  <2>6. Strip(item.name) \in Nat \ {0} /\ Strip(item.type) \in Nat \ {0}
    BY <2>2, <2>4, <2>5 DEF Strip, IsBlank
  <2>7. item.next # NoText => Strip(item.next) \in Nat
    BY <2>4, <2>5 DEF Strip
  <2>8. /\ {k \in DOMAIN config : config[k] = "config"} = item.config
        /\ {k \in DOMAIN config : config[k] = "top level"} = item.beside
    BY <2>2
  <2> HIDE DEF config
  <2>9. steps[i].name = Strip(item.name) /\ steps[i].type = Strip(item.type) /\ steps[i].next = item.next
        /\ steps[i].config = config
    BY <2>3
  <2> QED
    BY <2>6, <2>7, <2>8, <2>9 DEF item
<1>5. IsSteps(steps)
  <2>1. DOMAIN steps = 1 .. Len(steps) /\ DOMAIN steps = DOMAIN raw.steps
    BY <1>1, <1>2, <1>3
  <2>2. steps \in Seq({steps[i] : i \in DOMAIN steps})
    BY <1>1, <1>2, <2>1
  <2> QED
    BY <1>1, <1>3, <1>4, <2>1, <2>2 DEF IsSteps
<1>6. \A i \in DOMAIN raw.steps : steps[i].name > 0 /\ steps[i].type > 0
  <2>1. \A i \in DOMAIN raw.steps : steps[i].name \in Nat \ {0} /\ steps[i].type \in Nat \ {0}
    BY <1>4
  <2>2. \A m \in Nat \ {0} : m > 0
    OBVIOUS
  <2> QED
    BY <2>1, <2>2
<1>7. ParsingLosesNothing(raw) <=>
        \A i \in DOMAIN raw.steps :
          /\ steps[i].name > 0 /\ steps[i].type > 0 /\ steps[i].next = raw.steps[i].next
          /\ {k \in DOMAIN steps[i].config : steps[i].config[k] = "config"} = raw.steps[i].config
          /\ {k \in DOMAIN steps[i].config : steps[i].config[k] = "top level"} = raw.steps[i].beside
  BY DEF ParsingLosesNothing, steps
<1> QED
  BY <1>4, <1>5, <1>6, <1>7 DEF steps

\* For every pipeline that parses, with any number of steps: the checks find
\* exactly the cycles of next, what passes them is lowered and optimised whole
\* and without an error, the order of its steps is topological, and the
\* customer gets the output of the last of them (compiler.py, customer_output.py).
LEMMA PipelinesAreSound ==
    ASSUME NEW keys, NEW raw \in RawPipelines(keys), NEW outputs
    PROVE  PipelineIsSound(raw, outputs)
<1> SUFFICES ASSUME Parses(raw) PROVE PipelineIsSound(raw, outputs)
  BY DEF PipelineIsSound
<1> DEFINE ast == Parsed(raw)
<1>1. IsSteps(ast.steps) /\ ParsingLosesNothing(raw)
  BY ParsedSteps
<1> HIDE DEF ast
<1>2. CyclesAreFound(ast.steps)
  BY <1>1, CyclesAreAllFound
<1>3. OptimizesCleanly(ast) /\ ResultIsOfTheLastStep(ast, outputs)
  BY <1>1, OptimizingIsClean, ResultsAreOfTheLastStep
<1>4. CheckedIsWhole(ast)
  BY <1>1, CheckedAreWhole
<1> QED
  BY <1>1, <1>2, <1>3, <1>4 DEF PipelineIsSound, ast

----------------------------------------------------------------------------
(* The runs of a compiled pipeline *)

\* The engine's graph p is the compiled graph ir, and no step routes to a step of
\* its own choice.
IsGraphOf(p, ir) ==
    /\ p.nodes = DOMAIN ir.next /\ In(p.entry) = ir.entrypoints
    /\ \A n \in p.nodes :
         /\ In(p.next[n]) = ir.next[n]
         /\ p.kind[n] = "routing" => \A r \in DOMAIN p.routing[n] : p.routing[n][r] \notin p.nodes

LegalRuns == Walked /\ \A x \in Published : Promise!Legal(x)

\* A run that completes and was not cut short by a timeout has executed every
\* step of the pipeline, once.
RunsEveryStepOf(ast, p) ==
    \A i \in Completed :
      LET x == Execution(results[i])
      IN  x.pipe = p /\ ~x.timeout =>
            /\ In(x.trace) = StepNames(ast.steps)
            /\ \A k, l \in DOMAIN x.trace : x.trace[k] = x.trace[l] => k = l

\* The graph of a compiled pipeline is reached from its entry points.
LEMMA CompiledIsReached ==
    ASSUME NEW ast, IsSteps(ast.steps), CheckPasses(ast), ast.steps # <<>>
    PROVE  LET ir == OptimizedIR(GeneratedIR(ast))
           IN /\ DOMAIN ir.next = StepNames(ast.steps)
              /\ \A set \in SUBSET DOMAIN ir.next :
                   ir.entrypoints \subseteq set /\ ClosedUnder(ir.next, set) => set = DOMAIN ir.next
<1> DEFINE ir == OptimizedIR(GeneratedIR(ast))
<1>1. DOMAIN ir.next = StepNames(ast.steps) /\ Generates(ast)
  BY CheckedAreWhole DEF CheckedIsWhole
<1>2. OptimizedIR(ir) = ir
  BY <1>1, OptimizingIsClean DEF OptimizesCleanly
<1>3. IsRooted(ir)
  <2> DEFINE gen == GeneratedIR(ast)
  <2>1. IsRooted(gen)
    BY GeneratedIsRooted
  <2> HIDE DEF gen
  <2>2. IsRooted(OptimizedIR(gen))
    BY <2>1, OptimizedIsReachable
  <2> QED
    BY <2>2 DEF gen
<1> HIDE DEF ir
<1>4. \A set \in SUBSET DOMAIN ir.next :
        ir.entrypoints \subseteq set /\ ClosedUnder(ir.next, set) => DOMAIN OptimizedIR(ir).next \subseteq set
  BY <1>3, OptimizedIsReachable
<1> QED
  BY <1>1, <1>2, <1>4 DEF ir

\* A legal execution of a compiled pipeline executes every step.
LEMMA LegalIsWhole ==
    ASSUME NEW ast, IsSteps(ast.steps), CheckPasses(ast), ast.steps # <<>>,
           NEW x, IsGraphOf(x.pipe, OptimizedIR(GeneratedIR(ast))), Promise!Legal(x), ~x.timeout
    PROVE  /\ In(x.trace) = StepNames(ast.steps)
           /\ \A k, l \in DOMAIN x.trace : x.trace[k] = x.trace[l] => k = l
<1> DEFINE ir == OptimizedIR(GeneratedIR(ast))
<1> DEFINE p == x.pipe
<1>1. /\ DOMAIN ir.next = StepNames(ast.steps)
      /\ \A set \in SUBSET DOMAIN ir.next :
           ir.entrypoints \subseteq set /\ ClosedUnder(ir.next, set) => set = DOMAIN ir.next
  BY CompiledIsReached
<1>2. /\ p.nodes = DOMAIN ir.next /\ In(p.entry) = ir.entrypoints
      /\ \A n \in p.nodes :
           /\ In(p.next[n]) = ir.next[n]
           /\ p.kind[n] = "routing" => \A r \in DOMAIN p.routing[n] : p.routing[n][r] \notin p.nodes
  BY DEF IsGraphOf
<1> HIDE DEF ir
<1>3. \A n \in p.nodes : Promise!LeadsTo(p, x.out, n) = ir.next[n] \cap p.nodes
  BY <1>2 DEF Promise!LeadsTo, In
<1>4. Promise!Entries(p) = ir.entrypoints \cap p.nodes
  BY <1>2 DEF Promise!Entries, In
<1>5. /\ Promise!Causal(x) /\ Promise!Entries(p) \subseteq In(x.trace)
      /\ \A n \in In(x.trace) : Promise!LeadsTo(p, x.out, n) \subseteq In(x.trace)
  BY DEF Promise!Legal, Promise!Complete, In
<1>6. In(x.trace) \subseteq p.nodes
  <2>1. \A i \in DOMAIN x.trace :
          \/ x.trace[i] \in Promise!Entries(p)
          \/ \E j \in DOMAIN x.trace : x.trace[i] \in Promise!LeadsTo(p, x.out, x.trace[j])
    BY <1>5 DEF Promise!Causal
  <2>2. Promise!Entries(p) \subseteq p.nodes
    BY <1>4
  <2>3. \A n : Promise!LeadsTo(p, x.out, n) \subseteq p.nodes
    BY DEF Promise!LeadsTo
  <2> QED
    BY <2>1, <2>2, <2>3 DEF In, Promise!Steps
<1>7. ClosedUnder(ir.next, In(x.trace))
  BY <1>2, <1>3, <1>5, <1>6 DEF ClosedUnder
<1>8. ir.entrypoints \subseteq In(x.trace)
  <2>1. ir.entrypoints \subseteq DOMAIN ir.next
    <3>1. IsRooted(GeneratedIR(ast))
      BY GeneratedIsRooted
    <3> DEFINE gen == GeneratedIR(ast)
    <3> HIDE DEF gen
    <3>2. ir.entrypoints = gen.entrypoints /\ gen.entrypoints \subseteq DOMAIN ir.next
      BY <3>1, OptimizedIsReachable DEF ir, gen
    <3> QED
      BY <3>2
  <2> QED
    BY <1>2, <1>4, <1>5, <2>1
<1>9. In(x.trace) = DOMAIN ir.next
  BY <1>1, <1>2, <1>6, <1>7, <1>8
<1> QED
  BY <1>1, <1>5, <1>9 DEF Promise!Causal

\* The compiler keeps its promise on every set of such samples, whatever the
\* outputs of the steps.
THEOREM CompiledPipelines ==
    ASSUME NEW keys, NEW Inputs, \A v \in Inputs : v.raw \in RawPipelines(keys)
    PROVE  DrawsFrom("pipeline", Inputs) => []CompiledPipelinesAreSound
<1> DEFINE Inv == Drawn("pipeline") => sample.of \in Inputs
<1>1. NothingDrawn => Inv
  BY DEF NothingDrawn, Drawn
<1>2. Inv /\ [NothingDrawn /\ \E v \in Inputs : Draw("pipeline", v)]_sample => Inv'
  BY DEF Drawn, Draw
<1>3. Inv => CompiledPipelinesAreSound
  BY PipelinesAreSound DEF CompiledPipelinesAreSound
<1> HIDE DEF Inv
<1> QED
  BY <1>1, <1>2, <1>3, PTL DEF DrawsFrom

\* Compiler and engine together: whatever the engine ran before, a completed run
\* of a pipeline that passed the compiler's checks has executed every step of it
\* exactly once, unless a step chose its successor or the model timed out.
THEOREM CompiledPipelinesRunWhole ==
    ASSUME NEW keys, NEW raw \in RawPipelines(keys), Parses(raw), raw.steps # <<>>,
           CheckPasses(Parsed(raw)), NEW p, IsGraphOf(p, OptimizedIR(GeneratedIR(Parsed(raw))))
    PROVE  Spec => []RunsEveryStepOf(Parsed(raw), p)
<1> DEFINE ast == Parsed(raw)
<1>1. Init => LegalRuns
  <2>1. ASSUME Init PROVE Published = {}
    BY <2>1 DEF Init, Published, Completed
  <2> QED
    BY <2>1, FirstIsWalked DEF LegalRuns
<1>2. LegalRuns /\ [Next]_vars => LegalRuns'
  <2> SUFFICES ASSUME LegalRuns, [Next]_vars PROVE LegalRuns'
    OBVIOUS
  <2>1. Walked' /\ [Promise!Next]_<<effects, Published>>
    BY EveryStepKeepsWalked, StepRefines DEF LegalRuns
  <2>2. \A x \in Published' : Promise!Legal(x)
    <3>1. CASE UNCHANGED Published
      BY <3>1 DEF LegalRuns
    <3>2. CASE Promise!Publish
      BY <3>2 DEF LegalRuns, Promise!Publish, Published
    <3> QED
      BY <2>1, <3>1, <3>2 DEF Promise!Next, Promise!Apply, Published
  <2>3. \A x : Promise!Legal(x)' <=> Promise!Legal(x)
    BY DEF Promise!Legal, Promise!Causal, Promise!Complete, Promise!ListsItsEffects, Promise!Entries, Promise!LeadsTo, Promise!Steps
  <2> QED
    BY <2>1, <2>2 DEF LegalRuns
<1>3. LegalRuns => RunsEveryStepOf(ast, p)
  <2> SUFFICES ASSUME LegalRuns, NEW i \in Completed,
                      Execution(results[i]).pipe = p, ~Execution(results[i]).timeout
               PROVE  /\ In(Execution(results[i]).trace) = StepNames(ast.steps)
                      /\ \A k, l \in DOMAIN Execution(results[i]).trace :
                           Execution(results[i]).trace[k] = Execution(results[i]).trace[l] => k = l
    BY DEF RunsEveryStepOf
  <2> DEFINE x == Execution(results[i])
  <2>1. Promise!Legal(x)
    BY DEF LegalRuns, Published
  <2>2. IsSteps(ast.steps)
    BY ParsedSteps
  <2>3. ast.steps # <<>>
    <3>1. DOMAIN ast.steps = DOMAIN raw.steps
      BY DEF Parsed
    <3>2. Len(raw.steps) \in Nat /\ DOMAIN raw.steps = 1 .. Len(raw.steps) /\ \E S : raw.steps \in Seq(S)
      BY DEF RawPipelines
    <3>3. Len(raw.steps) # 0
      BY <3>2
    <3> QED
      BY <3>1, <3>2, <3>3
  <2>4. CheckPasses(ast) /\ IsGraphOf(x.pipe, OptimizedIR(GeneratedIR(ast)))
    OBVIOUS
  <2> HIDE DEF ast, x
  <2> QED
    BY <2>1, <2>2, <2>3, <2>4, LegalIsWhole DEF x
<1> QED
  BY <1>1, <1>2, <1>3, PTL DEF Spec
=============================================================================
