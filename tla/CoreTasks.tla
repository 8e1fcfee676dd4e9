----------------------------- MODULE CoreTasks -----------------------------
(***************************************************************************)
(* The earlier orchestrator (core/).  run_task asks a model for the code   *)
(* of one file, validates it, asks for corrections, and patches the file   *)
(* if it still is what create_patch has read.  Nothing locks the file:     *)
(* other runs and a developer's editor write to it meanwhile; disk errors  *)
(* and the death of a process may strike at every step.                    *)
(***************************************************************************)
EXTENDS Naturals, Sequences, FiniteSets, SequencesExt, FiniteSetsExt

CONSTANTS
    Tasks, Files,
    Target,         \* [Tasks -> Files \cup {None}], task.target_file
    Type,           \* [Tasks -> task types]
    Metas,          \* [Tasks -> SUBSET Files], the files of file_metas
    Plugins,        \* what plugins[0] may do with a task: "none" if there is none,
                    \* "error", "empty" (SingleFilePlugin), "subtasks"
    Kinds,          \* kinds of program text, see below
    Kind,           \* [Kinds -> its features]
    Rules,          \* the structure rules of the specs, NoRules if they set none
    Retries,        \* max_retries of OllamaClient
    Iterations,     \* MAX_CORRECTION_ITERATIONS
    MaxEdits, MaxFaults,    \* bounds: saves of the editor, errors and deaths
    None

Text == [by : Tasks \cup {"editor"}, kind : Kinds]

\* The failures that are reported.
Modes ==
    {"io_error", "llm_unavailable", "llm_empty", "validation_fatal", "patch_hash_mismatch", "plugin_runtime_error"}

NoRules == [classes |-> None, functions |-> None, one |-> FALSE]

ASSUME CoreTasksAssumption ==
    /\ Target \in [Tasks -> Files \cup {None}] /\ Metas \in [Tasks -> SUBSET Files]
    /\ Plugins \subseteq {"none", "error", "empty", "subtasks"}
    /\ Kind \in [Kinds -> [size : Nat, parses : BOOLEAN, classes : Nat, functions : Nat, dynamic : BOOLEAN]]
    /\ Retries \in Nat \ {0} /\ Iterations \in Nat \ {0}
    /\ MaxEdits \in Nat /\ MaxFaults \in Nat
    /\ None \notin Files \cup Kinds \cup Tasks /\ None \notin Modes \cup {"success"} /\ None \notin Nat /\ None \notin Seq(Text)
    /\ "editor" \notin Tasks

VARIABLES
    file,       \* text of a file: <<>> if empty, <<a, b>> if a is followed by the rest of b
    task,       \* what a run holds, see Fresh
    folder,     \* runs/<run_id>: the patch file and the audit
    faults,     \* errors and deaths so far
    edits,      \* saves of the editor so far
    history     \* of a task [wrote, over, raced], of the files the overlapped ones

vars == <<file, task, folder, faults, edits, history>>

Fresh(plugin) == [pc |-> "start", plugin |-> plugin, rules |-> NoRules, round |-> 0, attempt |-> 0, code |-> None, base |-> None, failure |-> None]

Init ==
    /\ file \in [Files -> {None, <<>>} \cup {<<[by |-> "editor", kind |-> k]>> : k \in Kinds}]
    /\ \E plugin \in [Tasks -> Plugins] : task = [t \in Tasks |-> Fresh(plugin[t])]
    /\ folder = [t \in Tasks |-> [patch |-> None, audit |-> None]]
    /\ faults = 0 /\ edits = 0
    /\ history = [wrote |-> [t \in Tasks |-> FALSE], over |-> [t \in Tasks |-> None], raced |-> [t \in Tasks |-> FALSE], mixed |-> {}]

At(t, pc) == task[t].pc = pc
F(t) == Target[t]

Go(t, pc) == task' = [task EXCEPT ![t].pc = pc]

\* _fail: the record is returned; a single-file run saves no audit of it.
Fail(t, mode) == task' = [task EXCEPT ![t] = [@ EXCEPT !.pc = "failed", !.failure = mode, !.round = 0, !.attempt = 0]]

\* An exception that run_task does not catch.
Raise(t) == task' = [task EXCEPT ![t] = [@ EXCEPT !.pc = "raised", !.round = 0, !.attempt = 0]]

Fault == faults < MaxFaults /\ faults' = faults + 1

----------------------------------------------------------------------------
(* Validation *)

Validators(type) ==
    CASE type = "codegen.file" -> {"imports", "structure"}
      [] type \in {"patch.refactor", "analysis.review"} -> {"structure"}
      [] type = "patch.fix_bug" -> {"imports"}
      [] OTHER -> {}

\* One function and no class is a snippet, never a badly structured module.
BadStructure(text, rules) ==
    /\ text.classes > 0 \/ text.functions > 1
    /\ \/ rules.classes # None /\ text.classes > rules.classes
       \/ rules.one /\ text.classes > 1
       \/ rules.functions # None /\ text.functions > rules.functions

\* The profile of get_rules_for_task has no "imports": only the default, which
\* forbids dynamic imports, is ever in force.
BadImports(text) == text.dynamic

Blocked(t, kind, rules) ==
    LET text == Kind[kind] IN
    \/ ~text.parses
    \/ "imports" \in Validators(Type[t]) /\ BadImports(text)
    \/ "structure" \in Validators(Type[t]) /\ BadStructure(text, rules)

----------------------------------------------------------------------------
(* The run *)

\* Specs that do not merge (a list where a mapping is expected) leave no rules at all.
\* A plugin's subtasks have no id and no module: building their prompt raises.
Prepare(t) ==
    /\ At(t, "start")
    /\ LET plugin == task[t].plugin IN
       /\ \E rules \in {Rules, NoRules} :
            task' = [task EXCEPT ![t] = [@ EXCEPT !.rules = rules,
                       !.pc = [none |-> "context", error |-> "failed", empty |-> "success", subtasks |-> "raised"][plugin],
                       !.failure = IF plugin = "error" THEN "plugin_runtime_error" ELSE None]]
       /\ folder' = [folder EXCEPT ![t].audit = CASE plugin = "error" -> "failed" [] plugin = "empty" -> "success" [] OTHER -> @]
    /\ UNCHANGED <<file, faults, edits, history>>

\* The snapshot cannot be saved; its record is, when that works again.
SnapshotFails(t) ==
    /\ At(t, "start") /\ Fault /\ Fail(t, "io_error")
    /\ folder' = [folder EXCEPT ![t].audit = "failed"]
    /\ UNCHANGED <<file, edits, history>>

\* load_snippets opens every file that was selected.
LoadContext(t) ==
    /\ At(t, "context")
    /\ IF \E f \in Metas[t] : file[f] = None THEN Raise(t) ELSE Go(t, "ask")
    /\ UNCHANGED <<file, folder, faults, edits, history>>

AnotherAttempt(t) ==
    IF task[t].attempt + 1 < Retries
    THEN task' = [task EXCEPT ![t].attempt = @ + 1]
    ELSE Fail(t, "llm_unavailable")

\* An error of the model, an empty answer, an answer that is not JSON.
AttemptFails(t) ==
    /\ At(t, "ask") /\ AnotherAttempt(t)
    /\ UNCHANGED <<file, folder, faults, edits, history>>

\* The log of a good answer cannot be written: that is one more failed attempt,
\* and the answer is lost.
LogFails(t) ==
    /\ At(t, "ask") /\ Fault /\ AnotherAttempt(t)
    /\ UNCHANGED <<file, folder, edits, history>>

\* Nothing but fences or a stock phrase normalises to no code.
NoCode(t) ==
    /\ At(t, "ask") /\ Fail(t, "llm_empty")
    /\ UNCHANGED <<file, folder, faults, edits, history>>

Answer(t, kind) ==
    /\ At(t, "ask")
    /\ task' = [task EXCEPT ![t] = [@ EXCEPT !.code = kind, !.attempt = 0, !.pc = "judge"]]
    /\ UNCHANGED <<file, folder, faults, edits, history>>

\* Mutants: the last code is patched unseen; rounds are not counted.
JudgeAllButTheLast(t) ==
    /\ At(t, "judge")
    /\ IF ~Blocked(t, task[t].code, task[t].rules) \/ task[t].round = Iterations - 1
       THEN task' = [task EXCEPT ![t] = [@ EXCEPT !.round = 0, !.pc = "create"]]
       ELSE task' = [task EXCEPT ![t] = [task[t] EXCEPT !.round = @ + 1, !.pc = "ask"]]
    /\ UNCHANGED <<file, folder, faults, edits, history>>

JudgeForever(t) ==
    /\ At(t, "judge")
    /\ Go(t, IF Blocked(t, task[t].code, task[t].rules) THEN "ask" ELSE "create")
    /\ UNCHANGED <<file, folder, faults, edits, history>>

\* validate_code, and what the correction loop makes of it.
Judge(t) ==
    /\ At(t, "judge")
    /\ IF ~Blocked(t, task[t].code, task[t].rules) THEN task' = [task EXCEPT ![t] = [@ EXCEPT !.round = 0, !.pc = "create"]]
       ELSE IF task[t].round = Iterations - 1 THEN Fail(t, "validation_fatal")
       ELSE task' = [task EXCEPT ![t] = [task[t] EXCEPT !.round = @ + 1, !.pc = "ask"]]
    /\ UNCHANGED <<file, folder, faults, edits, history>>

\* A patch without a target is the TypeError of os.path.join, caught as an IO error.
CreatePatch(t) ==
    /\ At(t, "create")
    /\ IF F(t) = None THEN Fail(t, "io_error")
       ELSE task' = [task EXCEPT ![t] = [@ EXCEPT !.base = file[F(t)], !.pc = "apply"]]
    /\ UNCHANGED <<file, folder, faults, edits, history>>

\* Mutant: the hash is not checked.
ApplyBlindly(t) ==
    /\ At(t, "apply") /\ Go(t, "open")
    /\ history' = [history EXCEPT !.raced[t] = task[t].base = None /\ file[F(t)] # None]
    /\ UNCHANGED <<file, folder, faults, edits>>

\* The file is compared with the base only if both exist.
ApplyPatch(t) ==
    /\ At(t, "apply")
    /\ IF file[F(t)] # None /\ task[t].base # None /\ file[F(t)] # task[t].base
       THEN Fail(t, "patch_hash_mismatch") ELSE Go(t, "open")
    /\ history' = [history EXCEPT !.raced[t] = task[t].base = None /\ file[F(t)] # None]
    /\ UNCHANGED <<file, folder, faults, edits>>

\* Somebody other than t writes to f while others have checked or truncated it.
Disturbed(t, f) ==
    LET Others(pc) == {u \in Tasks \ {t} : At(u, pc) /\ F(u) = f}
    IN [history EXCEPT !.raced = [u \in Tasks |-> @[u] \/ u \in Others("open")],
                       !.mixed = IF Others("write") # {} THEN @ \cup {f} ELSE @]

\* open(full_path, "w")
Truncate(t) ==
    /\ At(t, "open") /\ Go(t, "write")
    /\ file' = [file EXCEPT ![F(t)] = <<>>]
    /\ history' = [Disturbed(t, F(t)) EXCEPT !.wrote[t] = TRUE, !.over[t] = file[F(t)]]
    /\ UNCHANGED <<folder, faults, edits>>

Size(content) == Max({Kind[content[i].kind].size : i \in 1 .. Len(content)})

\* Text is written from the start of the file; what is longer keeps its end.
Over(text, content) ==
    IF content = <<>> \/ Size(content) <= Kind[text.kind].size THEN <<text>> ELSE <<text, Last(content)>>

\* f.write, which reaches the file when it is closed.
Write(t) ==
    /\ At(t, "write") /\ Go(t, "keep")
    /\ file' = [file EXCEPT ![F(t)] = Over([by |-> t, kind |-> task[t].code], @)]
    /\ history' = Disturbed(t, F(t))
    /\ UNCHANGED <<folder, faults, edits>>

SavePatch(t) ==
    /\ At(t, "keep") /\ Go(t, "audit")
    /\ folder' = [folder EXCEPT ![t].patch = task[t].code]
    /\ UNCHANGED <<file, faults, edits, history>>

SaveAudit(t) ==
    /\ At(t, "audit") /\ Go(t, "success")
    /\ folder' = [folder EXCEPT ![t].audit = "success"]
    /\ UNCHANGED <<file, faults, edits, history>>

\* An error of the disk inside the try block, and outside of it.
PatchError(t) ==
    /\ \E pc \in {"create", "apply", "open", "write", "keep"} : At(t, pc)
    /\ Fault /\ Fail(t, "io_error")
    /\ UNCHANGED <<file, folder, edits, history>>

DiskError(t) ==
    /\ \E pc \in {"start", "context", "ask", "judge", "audit"} : At(t, pc)
    /\ Fault /\ Raise(t)
    /\ UNCHANGED <<file, folder, edits, history>>

Ends == {"success", "failed", "raised", "dead"}
Ended(t) == task[t].pc \in Ends

Die(t) == ~Ended(t) /\ Fault /\ task' = [task EXCEPT ![t] = [@ EXCEPT !.pc = "dead", !.round = 0, !.attempt = 0]] /\ UNCHANGED <<file, folder, edits, history>>

\* A developer saves a file, in place.
Edit(f, kind) ==
    /\ edits < MaxEdits /\ edits' = edits + 1
    /\ file' = [file EXCEPT ![f] = <<[by |-> "editor", kind |-> kind]>>]
    /\ history' = Disturbed(None, f)
    /\ UNCHANGED <<task, folder, faults>>

Step(t) ==
    \/ Prepare(t) \/ LoadContext(t) \/ AttemptFails(t) \/ NoCode(t) \/ (\E k \in Kinds : Answer(t, k))
    \/ Judge(t) \/ CreatePatch(t) \/ ApplyPatch(t) \/ Truncate(t) \/ Write(t) \/ SavePatch(t) \/ SaveAudit(t)

Finished == (\A t \in Tasks : Ended(t)) /\ UNCHANGED vars

Next ==
    \/ \E t \in Tasks : Step(t) \/ SnapshotFails(t) \/ LogFails(t) \/ PatchError(t) \/ DiskError(t) \/ Die(t)
    \/ \E f \in Files, k \in Kinds : Edit(f, k)
    \/ Finished

\* A run is a process of its own, and every call of it returns or times out.
Spec == Init /\ [][Next]_vars /\ \A t \in Tasks : WF_vars(Step(t))

----------------------------------------------------------------------------
(* Properties *)

\* Every variable has the values the code gives it.
TypeOK ==
    /\ \A f \in Files : file[f] # None => Len(file[f]) <= 2 /\ \A i \in 1 .. Len(file[f]) : file[f][i] \in Text
    /\ \A t \in Tasks :
         /\ task[t].pc \in Ends \cup {"start", "context", "ask", "judge", "create", "apply", "open", "write", "keep", "audit"}
         /\ task[t].round < Iterations /\ task[t].attempt < Retries
         /\ task[t].code \in Kinds \cup {None} /\ folder[t].patch \in {None, task[t].code}
         /\ task[t].failure \in Modes \cup {None} /\ At(t, "failed") = (task[t].failure # None)
    /\ faults <= MaxFaults /\ edits <= MaxEdits

\* Whatever a run leaves in a file - also in one that another run or the editor
\* writes to at the same time - is code its validators have let pass.
OnlyAcceptedCodeIsWritten ==
    \A f \in Files : file[f] # None => \A i \in 1 .. Len(file[f]) :
        LET text == file[f][i]
        IN text.by \in Tasks => ~Blocked(text.by, text.kind, task[text.by].rules)

\* What a run reports is what it has done: a success has written its file and
\* kept the patch; every failure but an IO error has left the file as it was.
OutcomesAreTrue ==
    \A t \in Tasks : task[t].plugin = "none" =>
        /\ folder[t].audit = "success" => history.wrote[t] /\ folder[t].patch = task[t].code /\ task[t].code # None
        /\ At(t, "success") => folder[t].audit = "success"
        /\ At(t, "failed") /\ history.wrote[t] => task[t].failure = "io_error"

\* A run overwrites what create_patch has read, unless the file changed between
\* the check of its hash and its opening, or did not exist when it was read.
OnlyWhatWasReadIsOverwritten ==
    \A t \in Tasks : history.wrote[t] => history.over[t] = task[t].base \/ history.raced[t]

\* A file is one text from end to end unless somebody wrote to it while a run had
\* it open; it is left empty only by a run that failed, died or still writes.
FilesAreWhole ==
    \A f \in Files : file[f] # None =>
        /\ Len(file[f]) > 1 => f \in history.mixed
        /\ file[f] = <<>> /\ (\E t \in Tasks : F(t) = f /\ history.wrote[t])
             => \E t \in Tasks : F(t) = f /\ history.wrote[t] /\ task[t].pc \in {"write", "failed", "dead"}

\* What a run has done to the files, and what its folder says of it, agree.
RunsAndFilesAgree ==
    /\ TypeOK
    /\ OutcomesAreTrue
    /\ OnlyWhatWasReadIsOverwritten
    /\ FilesAreWhole

\* Every run ends, whatever the model answers and whoever else dies.
EveryRunEnds == \A t \in Tasks : <>Ended(t)
=============================================================================
