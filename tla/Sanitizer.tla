----------------------------- MODULE Sanitizer -----------------------------
(***************************************************************************)
(* The sanitizer: its policies (sanitizer/policy.py), detection and         *)
(* redaction (sanitizer/pipeline.py, redaction.py, semantic.py), zero-risk  *)
(* mode (governance/zero_risk.py), and the two guards every Pipeline A      *)
(* input passes after it (engine/modules/schema_validator.py,               *)
(* forbidden_fields.py, pipeline_a/prompt_binding.py).                      *)
(*                                                                          *)
(* Three of the twelve entity types are kept, numbered in the order of      *)
(* their names.  An option is a set of at most one value.                   *)
(***************************************************************************)
EXTENDS Integers, Sequences, FiniteSets, SequencesExt, Sorting, Samples

ACCOUNT_ID == 1
EMAIL      == 2
GENERIC_ID == 3
ValidEntityTypes == {ACCOUNT_ID, EMAIL, GENERIC_ID}
ValidModes       == {"mask", "label", "rewrite"}
ValidSensitivity == {"strict", "balanced", "permissive"}

NotGiven == {}
Given(v) == {v}
OrElse(option, v) == IF option = NotGiven THEN v ELSE CHOOSE x \in option : TRUE
NoModes == [e \in {} |-> "mask"]

(* Policies.                                                                *)
DefaultPolicy == [types |-> {EMAIL}, modes |-> NoModes, default |-> "mask",
                  sensitivity |-> "balanced", preset |-> NotGiven]

\* Two of the four presets, as far as they concern the three types.
Presets ==
  [banking    |-> [types |-> {ACCOUNT_ID}, modes |-> NoModes, default |-> "mask",
                   sensitivity |-> "strict", preset |-> Given("banking")],
   healthcare |-> [types |-> {EMAIL, GENERIC_ID}, modes |-> [e \in {GENERIC_ID} |-> "mask"],
                   default |-> "label", sensitivity |-> "strict",
                   preset |-> Given("healthcare")]]

\* The older form, a list of rules, stands for the types only.
Adapted(raw) ==
  IF raw.rules # NotGiven /\ raw.types = NotGiven
  THEN [raw EXCEPT !.rules = NotGiven, !.types = raw.rules, !.default = Given("mask"),
                   !.modes = NoModes, !.sensitivity = Given("balanced")]
  ELSE raw

BasePolicy(raw) ==
  IF raw.preset = NotGiven THEN DefaultPolicy ELSE Presets[OrElse(raw.preset, "")]

PolicyIsValid(given) ==
  LET raw == Adapted(given)
  IN  /\ raw.preset \subseteq DOMAIN Presets
      /\ OrElse(raw.types, {}) \subseteq ValidEntityTypes
      /\ raw.default \subseteq ValidModes
      /\ raw.sensitivity \subseteq ValidSensitivity
      /\ DOMAIN raw.modes \subseteq ValidEntityTypes
      /\ \A e \in DOMAIN raw.modes : raw.modes[e] \in ValidModes

\* What is given replaces what the preset has, and modes of types that are
\* not detected go.
PolicyFromRaw(given) ==
  LET raw   == Adapted(given)
      base  == BasePolicy(raw)
      types == OrElse(raw.types, base.types)
      named == DOMAIN raw.modes \cup DOMAIN base.modes
  IN  [types |-> types,
       modes |-> [e \in named \cap types |->
                    IF e \in DOMAIN raw.modes THEN raw.modes[e] ELSE base.modes[e]],
       default |-> OrElse(raw.default, base.default),
       sensitivity |-> OrElse(raw.sensitivity, base.sensitivity),
       preset |-> raw.preset]

ModeFor(policy, e) == IF e \in DOMAIN policy.modes THEN policy.modes[e] ELSE policy.default

PolicyToDict(policy) ==
  [rules |-> NotGiven, types |-> Given(policy.types), modes |-> policy.modes,
   default |-> Given(policy.default), sensitivity |-> Given(policy.sensitivity),
   preset |-> policy.preset]

\* Zero-risk mode rewrites the version's policies in place.
ZeroRisk(version) ==
  [sanitizer  |-> [PolicyToDict(PolicyFromRaw(version.sanitizer))
                     EXCEPT !.sensitivity = Given("strict"), !.default = Given("mask")],
   threshold  |-> 90,
   governance |-> version.governance
                    \cup {"drift_monitoring", "snapshot_replay", "audit_events", "zero_risk"}]

\* A version in zero-risk mode: its policy is valid, strict and masking, for the
\* types it had with the modes of single types it had; writing it again changes
\* nothing.
IsZeroRisk(stored, version) ==
  /\ PolicyIsValid(stored.sanitizer)
  /\ PolicyFromRaw(stored.sanitizer) =
       [PolicyFromRaw(version.sanitizer) EXCEPT !.sensitivity = "strict", !.default = "mask"]
  /\ ZeroRisk(stored) = stored

(* Detection.  A hit is a match of one layer: its type and the text from    *)
(* start up to end, counted from zero.                                      *)
PatternDetections(hits, policy) ==
  {h \in hits : h.layer = "pattern" /\ h.type \in policy.types}
SemanticDetections(hits, policy) ==
  {h \in hits : /\ h.layer = "semantic"
                /\ \/ h.type \in policy.types
                   \/ h.type = GENERIC_ID /\ ACCOUNT_ID \in policy.types}

ComesBefore(a, b) ==
  \/ a.start < b.start
  \/ a.start = b.start /\ a.end < b.end
  \/ a.start = b.start /\ a.end = b.end /\ a.type < b.type
SameSpot(a, b) == a.start = b.start /\ a.end = b.end /\ a.type = b.type

\* In order of place; of two layers' hits in one spot the pattern's stays.
Deduped(detections) ==
  LET kept == {d \in detections : ~\E o \in detections : /\ SameSpot(o, d)
                                                           /\ o.layer = "pattern"
                                                           /\ d.layer = "semantic"}
  IN  InOrder(kept, {p \in kept \X kept : ComesBefore(p[1], p[2])})

Detections(hits, policy) ==
  Deduped(PatternDetections(hits, policy) \cup SemanticDetections(hits, policy))

(* Redaction.  The output is a sequence of places of the text left in       *)
(* clear, and of labels.                                                    *)
Clear(i) == [place |-> i, label |-> 0, mode |-> "clear"]
Label(e, mode) == [place |-> -1, label |-> e, mode |-> mode]
Slice(from, to) == [i \in 1..(to - from) |-> Clear(from + i - 1)]

\* Mutant: a replacement that starts at the cursor is dropped too.
ReplacedApart(done, d, mode) ==
  IF d.start <= done.cursor THEN done
  ELSE [out |-> done.out \o Slice(done.cursor, d.start) \o <<Label(d.type, mode)>>, cursor |-> d.end]

\* One more replacement after the output so far; one that starts before the
\* cursor is dropped.
Replaced(done, d, mode) ==
  IF d.start < done.cursor THEN done
  ELSE [out |-> done.out \o Slice(done.cursor, d.start) \o <<Label(d.type, mode)>>, cursor |-> d.end]

ApplyReplacements(length, detections, modeOf) ==
  LET done[n \in 0 .. Len(detections)] ==
        IF n = 0 THEN [out |-> <<>>, cursor |-> 0]
        ELSE Replaced(done[n - 1], detections[n], modeOf[detections[n].type])
      last == done[Len(detections)]
  IN  last.out \o Slice(last.cursor, length)

\* Only the rewrite strategy looks at the modes of single types.
Redacted(length, hits, policy) ==
  LET mode == [e \in ValidEntityTypes |->
                 IF policy.default # "rewrite" THEN policy.default
                 ELSE IF ModeFor(policy, e) = "label" THEN "label" ELSE "mask"]
  IN  ApplyReplacements(length, Detections(hits, policy), mode)

\* The counts reported with the text, and the mode reported for each type.
ImpactMetadata(hits, policy) ==
  LET found == Detections(hits, policy)
      count(e) == Cardinality({i \in DOMAIN found : found[i].type = e})
      types == {found[i].type : i \in DOMAIN found}
  IN  [total |-> Len(found), byEntity |-> [e \in types |-> count(e)],
       mode |-> [e \in types |-> ModeFor(policy, e)]]

(* What a redacted text is: the places left in clear keep their order; a    *)
(* place that no detection covers is left; the first place of a detection   *)
(* is not, nor is any other of it, unless the detection begins inside an    *)
(* earlier one; otherwise there is a label of its type for it, and every    *)
(* label stands for a detection.                                            *)
Covers(d, i) == d.start <= i /\ i < d.end
InClear(out) == {out[i].place : i \in {k \in DOMAIN out : out[k].mode = "clear"}}
BeginsInside(found, n) == \E m \in DOMAIN found : m < n /\ Covers(found[m], found[n].start)

IsRedaction(out, found, length) ==
  /\ InClear(out) \subseteq 0 .. (length - 1)
  /\ \A i, j \in DOMAIN out :
       i < j /\ out[i].mode = "clear" /\ out[j].mode = "clear" => out[i].place < out[j].place
  /\ \A p \in 0 .. (length - 1) : p \in InClear(out) \/ \E n \in DOMAIN found : Covers(found[n], p)
  /\ \A n \in DOMAIN found :
       /\ found[n].start \notin InClear(out)
       /\ ~BeginsInside(found, n) =>
            /\ \A p \in InClear(out) : ~Covers(found[n], p)
            /\ \E i \in DOMAIN out : out[i].mode # "clear" /\ out[i].label = found[n].type
  /\ \A i \in DOMAIN out :
       out[i].mode # "clear" => \E n \in DOMAIN found : out[i].label = found[n].type

\* The text that the pipeline returns is a redaction of what was detected.
\* Where no detection begins inside an earlier one it has as many labels, of all
\* types and of each, as the metadata of this text reports.
\* [run_sanitizer_pipeline, sanitizer_impact_metadata_with_policy]
Labels(out) == {i \in DOMAIN out : out[i].mode # "clear"}
RedactionIsReported(length, hits, policy) ==
  LET found == Detections(hits, policy)
      out == Redacted(length, hits, policy)
      told == ImpactMetadata(hits, policy)
  IN  /\ IsRedaction(out, found, length)
      /\ (\A n \in DOMAIN found : ~BeginsInside(found, n)) =>
           /\ Cardinality(Labels(out)) = told.total
           /\ \A e \in DOMAIN told.byEntity :
                Cardinality({i \in Labels(out) : out[i].label = e}) = told.byEntity[e]

(* The guards of a Pipeline A input, whose keys have been stripped.  A key  *)
(* is a sequence of words; a required field is a whole key, a forbidden one *)
(* a word anywhere in a key.                                                *)
SanitizedKeys(keys) == keys \cup {<<"prompt">>}

\* The policy's list, else the built-in one, and the step's list beside it.
MergedRequiredFields(policy, step) ==
  (IF policy.required = {} THEN {<<"prompt">>} ELSE policy.required) \cup step.required
MergedForbiddenFields(policy, step) ==
  (IF policy.forbidden = {} THEN {"password", "token"} ELSE policy.forbidden) \cup step.forbidden

PassesGuards(keys, policy, step) ==
  /\ MergedRequiredFields(policy, step) \subseteq SanitizedKeys(keys)
  /\ \A key \in SanitizedKeys(keys) : ToSet(key) \cap MergedForbiddenFields(policy, step) = {}

\* A step's lists on top of another step's: what passes both lists passes each,
\* and no forbidden word of the policy or of a list is in it.
OnlyTightens(keys, policy, step, more) ==
  LET both == [required |-> step.required \cup more.required,
               forbidden |-> step.forbidden \cup more.forbidden]
  IN  PassesGuards(keys, policy, both) =>
        /\ PassesGuards(keys, policy, step)
        /\ PassesGuards(keys, policy, more)
        /\ \A key \in keys : ToSet(key) \cap (policy.forbidden \cup both.forbidden) = {}

\* All of it, for a text with hits, a version and the guards of an input: a
\* policy that can be read redacts as it reports, zero-risk mode makes it strict,
\* and the guards only get tighter.
SanitizerIsSound(text, version, guards) ==
  /\ PolicyIsValid(version.sanitizer) =>
       /\ RedactionIsReported(text.length, text.hits, PolicyFromRaw(version.sanitizer))
       /\ IsZeroRisk(ZeroRisk(version), version)
  /\ OnlyTightens(guards.keys, guards.policy, guards.step, guards.more)

\* What is detected does not stay in the text that the pipeline returns, nothing
\* else is taken away, and the metadata of the text counts the labels.  Zero-risk
\* mode writes a policy that is valid, strict and masking for the same types, and
\* writing it again changes nothing.  The fields a step requires or forbids never
\* let in an input that would be refused without them.
SanitizingHolds ==
  Drawn("sanitizing") =>
    SanitizerIsSound(sample.of.text, sample.of.version, sample.of.guards)
=============================================================================
