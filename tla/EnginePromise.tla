---------------------------- MODULE EnginePromise ----------------------------
(***************************************************************************)
(* What one Engine promises about the pipeline graphs it runs: the effect  *)
(* store only ever gains keys, no key is rewritten, and every snapshot     *)
(* that a run publishes is that of a legal execution of the pipeline.      *)
(***************************************************************************)
EXTENDS Naturals, Sequences

CONSTANTS
    Keys, None,
    Effects         \* what can be stored under a key

VARIABLES
    store,          \* [Keys -> Effects or None]
    published       \* the executions published so far

Steps(trace) == {trace[i] : i \in DOMAIN trace}

\* The steps an executed step leads to.  A routing step whose route is mapped
\* to a step of the pipeline leads there and nowhere else.
LeadsTo(pipe, out, n) ==
    IF /\ pipe.kind[n] = "routing"
       /\ out[n] \in DOMAIN pipe.routing[n]
       /\ pipe.routing[n][out[n]] \in pipe.nodes
    THEN {pipe.routing[n][out[n]]}
    ELSE Steps(pipe.next[n]) \cap pipe.nodes

Entries(pipe) == Steps(pipe.entry) \cap pipe.nodes

\* Every step is executed once, and only after a step that leads to it.
Causal(x) ==
    \A i \in DOMAIN x.trace :
        /\ \A j \in DOMAIN x.trace : x.trace[i] = x.trace[j] => i = j
        /\ \/ x.trace[i] \in Entries(x.pipe)
           \/ \E j \in DOMAIN x.trace : j < i /\ x.trace[i] \in LeadsTo(x.pipe, x.out, x.trace[j])

\* Every step that is led to is executed, unless the model timed out; then
\* nothing follows the step that timed out.
Complete(x) ==
    IF x.timeout
    THEN x.trace # <<>> /\ x.out[x.trace[Len(x.trace)]] = "timeout"
    ELSE /\ Entries(x.pipe) \subseteq Steps(x.trace)
         /\ \A n \in Steps(x.trace) : LeadsTo(x.pipe, x.out, n) \subseteq Steps(x.trace)

\* The effects listed are those of the executed effect steps, in their order.
ListsItsEffects(x) ==
    /\ Steps(x.effects) = {n \in Steps(x.trace) : x.pipe.kind[n] = "effect"}
    /\ \A i, j \in DOMAIN x.effects, k, l \in DOMAIN x.trace :
        i < j /\ x.effects[i] = x.trace[k] /\ x.effects[j] = x.trace[l] => k < l

Legal(x) == Causal(x) /\ Complete(x) /\ ListsItsEffects(x)

Init ==
    /\ store = [k \in Keys |-> None]
    /\ published = {}

Apply(k, e) ==
    /\ store[k] = None
    /\ store' = [store EXCEPT ![k] = e]
    /\ UNCHANGED published

Publish ==
    /\ published \subseteq published'
    /\ \A x \in published' \ published : Legal(x)
    /\ UNCHANGED store

Next ==
    \/ \E k \in Keys, e \in Effects : Apply(k, e)
    \/ Publish

Spec == Init /\ [][Next]_<<store, published>>
=============================================================================
