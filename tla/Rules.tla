-------------------------------- MODULE Rules --------------------------------
(***************************************************************************)
(* The rules of a task of the earlier orchestrator (core/spec_engine.py).   *)
(***************************************************************************)
EXTENDS Trees, SequencesExt

(* Rules.  specs.global and specs.project hold an object for each group; a  *)
(* task has a module (a set of at most one key), and a name and a path that *)
(* are sequences of characters.  The patterns of a group are the sequence   *)
(* of [text, starred, rules] in the order of the file; "patterns" of the    *)
(* project are appended where they are new.                                 *)
Within(part, text) ==
  \E i \in 0..Len(text) : IsPrefix(part, SubSeq(text, i + 1, Len(text)))

\* Names and paths hold no star, so a starred pattern is only ever a prefix.
PatternApplies(p, name, path) ==
  IF p.starred THEN IsPrefix(p.text, name) \/ IsPrefix(p.text, path)
  ELSE Within(p.text, name) \/ Within(p.text, path)

MatchPatterns(patterns, name, path) ==
  FoldLeft(LAMBDA matched, p : IF IsObj(p.rules) /\ PatternApplies(p, name, path)
                               THEN DeepMerge(matched, p.rules) ELSE matched,
           EmptyObj, patterns)

LaterGroups == <<"naming", "allowed_operations", "style", "structure", "forbidden">>

\* The groups in the order of their priority, the last one wins.
RuleGroups(specs, task) ==
  LET merged(g) == DeepMerge(specs.global[g], specs.project[g])
      modules == merged("modules")
      ofModule == IF \E k \in task.module : k \in Keys(modules)
                  THEN modules.of[CHOOSE k \in task.module : TRUE] ELSE EmptyObj
  IN  <<merged("rules"), ofModule, MatchPatterns(specs.patterns, task.name, task.path)>>
        \o [i \in DOMAIN LaterGroups |-> merged(LaterGroups[i])]

EffectiveRules(specs, task) ==
  FoldLeft(DeepMerge, EmptyObj, RuleGroups(specs, task))
=============================================================================
