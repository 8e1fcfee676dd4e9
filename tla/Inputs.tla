------------------------------- MODULE Inputs -------------------------------
(***************************************************************************)
(* What happens to an input before the engine sees it: validation           *)
(* (engine/validation.py), the customer's merge (api/routes/customer.py)    *)
(* and the binding of payload values to the placeholders of a pipeline      *)
(* (control_plane/pipelines.py).                                            *)
(***************************************************************************)
EXTENDS Trees, SequencesExt

(* Validation.  Two of the ten forbidden keys stand for all.                *)
GovernanceForbiddenKeys == {"policy", "routing"}

\* Objects and lists are searched; nothing else holds keys.
RECURSIVE HasGovernanceViolation(_)
HasGovernanceViolation(v) ==
  \/ IsObj(v) /\ Keys(v) \cap GovernanceForbiddenKeys # {}
  \/ v.kind \in {"dict", "list"} /\ \E k \in Keys(v) : HasGovernanceViolation(v.of[k])

\* A schema: the required keys, and the properties (none means any).
NoSchema == [required |-> {}, properties |-> {}]
FitsTemplate(data, schema) ==
  \/ schema = NoSchema
  \/ /\ IsObj(data)
     /\ schema.required \subseteq Keys(data)
     /\ schema.properties # {} => Keys(data) \subseteq schema.properties

FitsWorkflowSchema(data, schema) ==
  IsObj(data) /\ ~HasGovernanceViolation(data) /\ FitsTemplate(data, schema)

AcceptsCustomerInput(data, templateSchema, pipelineSchema) ==
  /\ IsObj(data)
  /\ ~HasGovernanceViolation(data)
  /\ FitsTemplate(data, templateSchema)
  /\ FitsTemplate(data, pipelineSchema)

\* The workflow's template, the version's over it, the request's over both.
CustomerInput(workflowTemplate, versionTemplate, request) ==
  ShallowMerge(ShallowMerge(workflowTemplate, versionTemplate), request)

(* Binding.  A text is a sequence of tokens; four tokens are placeholders.  *)
(* They are replaced one after the other, in this order, each in the text   *)
(* the one before has left.                                                 *)
Placeholders == <<"SANITIZED_INPUT", "PROMPT", "SERIALIZED_DECISION", "RUN_KEY">>

\* The dumped payload holds the prompt's tokens and the key's.
Dump(payload) == <<"{">> \o payload.prompt \o payload.key \o <<"}">>
ValueFor(placeholder, payload) ==
  CASE placeholder \in {"SANITIZED_INPUT", "SERIALIZED_DECISION"} -> Dump(payload)
    [] placeholder = "PROMPT"  -> payload.prompt
    [] placeholder = "RUN_KEY" -> <<"run:">> \o payload.key

Replace(text, token, value) ==
  FlattenSeq([i \in DOMAIN text |-> IF text[i] = token THEN value ELSE <<text[i]>>])

SubstitutePlaceholders(text, payload) ==
  FoldLeft(LAMBDA t, p : Replace(t, p, ValueFor(p, payload)), text, Placeholders)
SubstituteRunKeyOnly(text, payload) == Replace(text, "RUN_KEY", ValueFor("RUN_KEY", payload))

BindToPayload(nodeType, text, payload) ==
  CASE nodeType \in {"ai", "effect", "module"} -> SubstitutePlaceholders(text, payload)
    [] nodeType = "saga" -> SubstituteRunKeyOnly(text, payload)
    [] OTHER -> text

=============================================================================
