---------------------------- MODULE GhostConfig ----------------------------
(***************************************************************************)
(* How the Ghost client finds its settings (arctis_ghost/config.py) and     *)
(* builds the body of a run from a recipe (arctis_ghost/recipes.py).        *)
(*                                                                          *)
(* Of the nineteen settings one stands for each rule: apiKey and apiBaseUrl *)
(* have a rule of their own, outgoingRoot stands for the texts,             *)
(* stateEnabled for the switches, and the three numbers have their bounds.  *)
(* Times are in half seconds.  A raw text is "unset", "empty", "blank" or a *)
(* word; an option is a set of at most one value.                           *)
(***************************************************************************)
EXTENDS Trees

None == {}
OrElse(option, v) == IF option = None THEN v ELSE CHOOSE x \in option : TRUE
IsBlank(raw)  == raw \in {"unset", "empty", "blank"}
Stripped(raw) == IF IsBlank(raw) THEN "" ELSE raw
TextOr(raw, v) == IF raw = "unset" THEN v ELSE Stripped(raw)

(* Numbers: an option; -1 stands for a text that is no number.  A float may *)
(* be the nan that "nan" is read as, which is below nothing and above       *)
(* nothing.                                                                 *)
NaN == -2
Below(x, y) == NaN \notin {x, y} /\ x < y
WithinRetries(n)  == n \in 0..50
WithinInterval(n) == ~(Below(n, 0) \/ Below(172800, n))
WithinTimeout(n)  == ~(Below(n, 1) \/ Below(1200, n))

\* The schema of a profile compares with the same bounds as the environment.
ProfileIsValid(p) == /\ \A n \in p.maxRetries : WithinRetries(n)
                     /\ \A n \in p.interval : WithinInterval(n)
                     /\ \A n \in p.hookTimeout : WithinTimeout(n)
SwitchIsValid(raw) == IsBlank(raw) \/ raw \in {"on", "off"}
EnvironmentIsValid(env) ==
  /\ \A n \in env.maxRetries : WithinRetries(n)
  /\ \A n \in env.interval \cup env.hookTimeout : WithinInterval(n)
  /\ \A n \in env.hookTimeout : WithinTimeout(n)
  /\ SwitchIsValid(env.stateEnabled)

\* The argument, the environment, the file's active profile, "default".
ProfileName(argument, env, root) ==
  IF argument # "" THEN argument
  ELSE IF Stripped(env.profile) # "" THEN Stripped(env.profile)
  ELSE IF root # None /\ OrElse(root, {}).active # "" THEN OrElse(root, {}).active
  ELSE "default"

Profiles(root) == IF root = None THEN [n \in {} |-> 0] ELSE OrElse(root, {}).profiles

\* An unknown profile is an error only in a file that has profiles.
Loads(argument, env, root) ==
  /\ \A n \in DOMAIN Profiles(root) : ProfileIsValid(Profiles(root)[n])
  /\ DOMAIN Profiles(root) # {} => ProfileName(argument, env, root) \in DOMAIN Profiles(root)
  /\ EnvironmentIsValid(env)

Defaults == [apiBaseUrl |-> "localhost", apiKey |-> "", outgoingRoot |-> "outgoing",
             stateEnabled |-> FALSE, maxRetries |-> 3, interval |-> 60, hookTimeout |-> 60]

WithProfile(cfg, p) ==
  [cfg EXCEPT !.apiBaseUrl   = TextOr(p.apiBaseUrl, cfg.apiBaseUrl),
              !.apiKey       = TextOr(p.apiKey, cfg.apiKey),
              !.outgoingRoot = TextOr(p.outgoingRoot, cfg.outgoingRoot),
              !.stateEnabled = OrElse(p.stateEnabled, cfg.stateEnabled),
              !.maxRetries   = OrElse(p.maxRetries, cfg.maxRetries),
              !.interval     = OrElse(p.interval, cfg.interval),
              !.hookTimeout  = OrElse(p.hookTimeout, cfg.hookTimeout)]

\* The key wins even when it is empty, the URL unless it is empty, the other
\* texts unless they are blank.
WithEnvironment(cfg, env) ==
  [cfg EXCEPT !.apiBaseUrl   = IF env.apiBaseUrl \in {"unset", "empty"} THEN @
                               ELSE Stripped(env.apiBaseUrl),
              !.apiKey       = TextOr(env.apiKey, @),
              !.outgoingRoot = IF IsBlank(env.outgoingRoot) THEN @ ELSE env.outgoingRoot,
              !.stateEnabled = IF IsBlank(env.stateEnabled) THEN @ ELSE env.stateEnabled = "on",
              !.maxRetries   = OrElse(env.maxRetries, @),
              !.interval     = OrElse(env.interval, @),
              !.hookTimeout  = OrElse(env.hookTimeout, @)]

LoadedConfig(argument, env, root) ==
  LET name == ProfileName(argument, env, root)
      base == IF name \in DOMAIN Profiles(root) THEN WithProfile(Defaults, Profiles(root)[name])
              ELSE Defaults
  IN  WithEnvironment(base, env)

(* The body of a run.  Objects are merged, the recipe's skills replace.     *)
\* A file of mode "text" goes to one field of the input.
InputOverlay(body, recipe, file) ==
  IF recipe.mode = "json" THEN file
  ELSE LET input == IF Has(body, "input") /\ IsObj(body.of["input"]) THEN body.of["input"]
                    ELSE EmptyObj
       IN  Obj([k \in {"input"} |->
                  Obj([f \in Keys(input) \cup {recipe.textField} |->
                         IF f = recipe.textField THEN file ELSE input.of[f]])])

\* What is not a text is not overwritten by one: an object, a list, a number, a
\* switch, null.
IsText(v) == v.kind \notin {"dict", "list", "number", "true", "false", "null"}
BodyIsBuilt(recipe, inputFile) ==
  recipe.mode = "text" /\ inputFile # None
    => ~(/\ Has(recipe.defaults, "input")
         /\ Has(recipe.defaults.of["input"], recipe.textField)
         /\ ~IsText(recipe.defaults.of["input"].of[recipe.textField]))

WithSkills(body, skills) ==
  Obj([k \in Keys(body) \cup {"skills"} |->
         IF k = "skills" THEN OrElse(skills, EmptyObj) ELSE body.of[k]])

\* Mutant: the patch of the command line goes under the merge file.
ExecuteBodyPatchedFirst(recipe, inputFile, mergeJson, cliPatch) ==
  LET base       == recipe.defaults
      withInput  == IF inputFile = None THEN base
                    ELSE DeepMerge(base, InputOverlay(base, recipe, OrElse(inputFile, base)))
      withSkills == IF recipe.skills = None THEN withInput
                    ELSE WithSkills(withInput, recipe.skills)
      withPatch  == IF cliPatch = None THEN withSkills
                    ELSE DeepMerge(withSkills, OrElse(cliPatch, base))
  IN  IF mergeJson = None THEN withPatch ELSE DeepMerge(withPatch, OrElse(mergeJson, base))

\* Defaults < input file < skills < merge-json < patch of the command line.
ExecuteBody(recipe, inputFile, mergeJson, cliPatch) ==
  LET base       == recipe.defaults
      withInput  == IF inputFile = None THEN base
                    ELSE DeepMerge(base, InputOverlay(base, recipe, OrElse(inputFile, base)))
      withSkills == IF recipe.skills = None THEN withInput
                    ELSE WithSkills(withInput, recipe.skills)
      withMerge  == IF mergeJson = None THEN withSkills
                    ELSE DeepMerge(withSkills, OrElse(mergeJson, base))
  IN  IF cliPatch = None THEN withMerge ELSE DeepMerge(withMerge, OrElse(cliPatch, base))
=============================================================================
