--------------------------- MODULE CoreTasks_proofs ---------------------------
(***************************************************************************)
(* Proofs about CoreTasks, for every set of tasks and files, every rule,   *)
(* number of rounds and number of faults.                                  *)
(***************************************************************************)
EXTENDS CoreTasks, TLAPS

Stages == Ends \cup {"start", "context", "ask", "judge", "create", "apply", "open", "write", "keep", "audit"}

\* The stages in which a run holds code that it is about to write.
Patching == {"create", "apply", "open", "write"}

Content == Seq(Text) \cup {None}
Held ==
    [pc : Stages, plugin : Plugins, rules : {Rules, NoRules}, round : Nat, attempt : Nat,
     code : Kinds \cup {None}, base : Content, failure : Modes \cup {None}]

\* The types the proof needs.
Typed == file \in [Files -> Content] /\ task \in [Tasks -> Held]

\* A run that is judged holds code, one about to patch code that passed.
AcceptedIsHeld ==
    \A t \in Tasks :
        /\ task[t].pc \in Patching \cup {"judge"} => task[t].code \in Kinds
        /\ task[t].pc \in Patching => ~Blocked(t, task[t].code, task[t].rules)

\* A text that a run has written was let pass under the rules that the run
\* still has: it has chosen them before.
AcceptedIsWritten ==
    \A f \in Files : file[f] # None => \A i \in 1 .. Len(file[f]) :
        LET text == file[f][i]
        IN text.by \in Tasks =>
             task[text.by].pc # "start" /\ ~Blocked(text.by, text.kind, task[text.by].rules)

\* Who has created a patch has a target, and who writes has opened it.
TargetsExist ==
    \A t \in Tasks :
        /\ task[t].pc \in {"apply", "open", "write"} => F(t) \in Files
        /\ task[t].pc = "write" => file[F(t)] # None

Accepted == Typed /\ AcceptedIsHeld /\ TargetsExist /\ AcceptedIsWritten

----------------------------------------------------------------------------

\* A run that goes on under its rules, to a patch only with accepted code.
LEMMA MoveKeepsAccepted ==
    ASSUME Accepted, NEW t \in Tasks, NEW held \in Held,
           task' = [task EXCEPT ![t] = held], file' = file,
           held.pc \notin {"start", "write"}, task[t].pc = "start" \/ held.rules = task[t].rules,
           held.pc \in {"apply", "open"} => F(t) \in Files,
           held.pc \in Patching \cup {"judge"} => held.code \in Kinds,
           held.pc \in Patching => ~Blocked(t, held.code, held.rules)
    PROVE  Accepted'
<1>1. Typed'
  BY DEF Accepted, Typed
<1>2. task'[t] = held /\ \A u \in Tasks \ {t} : task'[u] = task[u]
  BY DEF Accepted, Typed
<1>3. AcceptedIsHeld'
  <2> SUFFICES ASSUME NEW u \in Tasks
               PROVE  /\ task'[u].pc \in Patching \cup {"judge"} => task'[u].code \in Kinds
                      /\ task'[u].pc \in Patching => ~Blocked(u, task'[u].code, task'[u].rules)
    BY DEF AcceptedIsHeld, Blocked
  <2> QED
    BY <1>2 DEF Accepted, AcceptedIsHeld
<1>4. AcceptedIsWritten'
  <2> SUFFICES ASSUME NEW f \in Files, file[f] # None, NEW i \in 1 .. Len(file[f]), file[f][i].by \in Tasks
               PROVE  /\ task'[file[f][i].by].pc # "start"
                      /\ ~Blocked(file[f][i].by, file[f][i].kind, task'[file[f][i].by].rules)
    BY DEF AcceptedIsWritten, Blocked
  <2>1. /\ task[file[f][i].by].pc # "start"
        /\ ~Blocked(file[f][i].by, file[f][i].kind, task[file[f][i].by].rules)
    BY DEF Accepted, AcceptedIsWritten
  <2> QED
    BY <1>2, <2>1
<1>5. TargetsExist'
  <2> SUFFICES ASSUME NEW u \in Tasks
               PROVE  /\ task'[u].pc \in {"apply", "open", "write"} => F(u) \in Files
                      /\ task'[u].pc = "write" => file[F(u)] # None
    BY DEF TargetsExist, F
  <2> QED
    BY <1>2 DEF Accepted, TargetsExist
<1> QED
  BY <1>1, <1>3, <1>4, <1>5 DEF Accepted

\* The ways a run goes on without touching a file.
LEMMA GoKeepsAccepted ==
    ASSUME Accepted, NEW t \in Tasks, NEW pc \in Stages \ {"start", "judge", "create", "apply", "write"}, Go(t, pc), file' = file,
           pc = "open" => task[t].pc = "apply"
    PROVE  Accepted'
<1> DEFINE held == [task[t] EXCEPT !.pc = pc]
<1>1. task[t] \in Held
  BY DEF Accepted, Typed
<1>2. held \in Held /\ held.pc = pc /\ held.rules = task[t].rules /\ held.code = task[t].code
  BY <1>1 DEF Held
<1>3. task' = [task EXCEPT ![t] = held]
  BY DEF Go
<1> HIDE DEF held
<1> QED
  BY <1>2, <1>3, MoveKeepsAccepted DEF Accepted, AcceptedIsHeld, TargetsExist, Patching

LEMMA EndKeepsAccepted ==
    ASSUME Accepted, NEW t \in Tasks, file' = file,
           \/ \E mode \in Modes : Fail(t, mode)
           \/ Raise(t)
           \/ task' = [task EXCEPT ![t] = [@ EXCEPT !.pc = "dead", !.round = 0, !.attempt = 0]]
    PROVE  Accepted'
<1>1. task[t] \in Held
  BY DEF Accepted, Typed
<1>2. PICK held \in Held : task' = [task EXCEPT ![t] = held] /\ held.pc \in Ends /\ held.rules = task[t].rules
  <2>1. ASSUME NEW mode \in Modes, Fail(t, mode)
        PROVE  \E held \in Held : task' = [task EXCEPT ![t] = held] /\ held.pc \in Ends /\ held.rules = task[t].rules
    <3>1. [task[t] EXCEPT !.pc = "failed", !.failure = mode, !.round = 0, !.attempt = 0] \in Held
      BY <1>1 DEF Held, Stages, Ends
    <3> QED
      BY <1>1, <2>1, <3>1 DEF Fail, Held, Ends
  <2>2. ASSUME NEW pc \in {"raised", "dead"},
               task' = [task EXCEPT ![t] = [@ EXCEPT !.pc = pc, !.round = 0, !.attempt = 0]]
        PROVE  \E held \in Held : task' = [task EXCEPT ![t] = held] /\ held.pc \in Ends /\ held.rules = task[t].rules
    <3>1. [task[t] EXCEPT !.pc = pc, !.round = 0, !.attempt = 0] \in Held
      BY <1>1 DEF Held, Stages, Ends
    <3> QED
      BY <1>1, <2>2, <3>1 DEF Held, Ends
  <2> QED
    BY <2>1, <2>2 DEF Raise
<1>3. held.pc \notin {"start", "judge"} \cup Patching
  BY <1>2 DEF Ends, Patching
<1> QED
  BY <1>2, <1>3, MoveKeepsAccepted DEF Patching

LEMMA PrepareKeepsAccepted ==
    ASSUME Accepted, NEW t \in Tasks, Prepare(t)
    PROVE  Accepted'
<1>1. task[t] \in Held /\ task[t].pc = "start" /\ task[t].plugin \in {"none", "error", "empty", "subtasks"}
  BY CoreTasksAssumption DEF Accepted, Typed, Prepare, At, Held
<1> DEFINE next == [none |-> "context", error |-> "failed", empty |-> "success", subtasks |-> "raised"][task[t].plugin]
<1> DEFINE failure == IF task[t].plugin = "error" THEN "plugin_runtime_error" ELSE None
<1>2. PICK rules \in {Rules, NoRules} :
        task' = [task EXCEPT ![t] = [@ EXCEPT !.rules = rules, !.pc = next, !.failure = failure]]
  BY DEF Prepare
<1>3. next \in {"context", "failed", "success", "raised"}
  BY <1>1
<1>4. failure \in Modes \cup {None}
  BY DEF Modes
<1> HIDE DEF next, failure
<1> DEFINE held == [task[t] EXCEPT !.rules = rules, !.pc = next, !.failure = failure]
<1>5. held \in Held /\ held.pc \notin {"start", "judge"} \cup Patching
  BY <1>1, <1>3, <1>4 DEF Held, Stages, Ends, Patching
<1>6. task' = [task EXCEPT ![t] = held] /\ file' = file
  BY <1>2 DEF Prepare
<1> HIDE DEF held
<1> QED
  BY <1>1, <1>5, <1>6, MoveKeepsAccepted DEF Patching

\* The model: another attempt, an answer, a verdict.
LEMMA AttemptKeepsAccepted ==
    ASSUME Accepted, NEW t \in Tasks, At(t, "ask"), AnotherAttempt(t), file' = file
    PROVE  Accepted'
<1>1. task[t] \in Held /\ task[t].pc = "ask"
  BY DEF Accepted, Typed, At
<1>2. CASE task' = [task EXCEPT ![t].attempt = @ + 1]
  <2> DEFINE held == [task[t] EXCEPT !.attempt = @ + 1]
  <2>1. held \in Held /\ held.pc = "ask" /\ held.rules = task[t].rules
    BY <1>1 DEF Held
  <2>2. task' = [task EXCEPT ![t] = held]
    BY <1>2
  <2> HIDE DEF held
  <2> QED
    BY <2>1, <2>2, MoveKeepsAccepted DEF Patching
<1>3. CASE Fail(t, "llm_unavailable")
  BY <1>3, EndKeepsAccepted DEF Modes
<1> QED
  BY <1>2, <1>3 DEF AnotherAttempt

LEMMA AnswerKeepsAccepted ==
    ASSUME Accepted, NEW t \in Tasks, NEW kind \in Kinds, Answer(t, kind)
    PROVE  Accepted'
<1>1. task[t] \in Held
  BY DEF Accepted, Typed
<1> DEFINE held == [task[t] EXCEPT !.code = kind, !.attempt = 0, !.pc = "judge"]
<1>2. held \in Held /\ held.pc = "judge" /\ held.rules = task[t].rules /\ held.code = kind
  BY <1>1 DEF Held, Stages
<1>3. task' = [task EXCEPT ![t] = held] /\ file' = file
  BY DEF Answer
<1> HIDE DEF held
<1> QED
  BY <1>2, <1>3, MoveKeepsAccepted DEF Patching

LEMMA JudgeKeepsAccepted ==
    ASSUME Accepted, NEW t \in Tasks, Judge(t)
    PROVE  Accepted'
<1>1. task[t] \in Held /\ file' = file /\ task[t].code \in Kinds
  BY DEF Accepted, Typed, Judge, At, AcceptedIsHeld
<1>2. CASE ~Blocked(t, task[t].code, task[t].rules)
  <2> DEFINE held == [task[t] EXCEPT !.round = 0, !.pc = "create"]
  <2>1. held \in Held /\ held.pc = "create" /\ held.rules = task[t].rules /\ held.code = task[t].code
    BY <1>1 DEF Held, Stages
  <2>2. task' = [task EXCEPT ![t] = held]
    BY <1>2 DEF Judge
  <2> HIDE DEF held
  <2> QED
    BY <1>1, <1>2, <2>1, <2>2, MoveKeepsAccepted
<1>3. CASE Fail(t, "validation_fatal")
  BY <1>1, <1>3, EndKeepsAccepted DEF Modes
<1>4. CASE task' = [task EXCEPT ![t] = [task[t] EXCEPT !.round = @ + 1, !.pc = "ask"]]
  <2> DEFINE held == [task[t] EXCEPT !.round = @ + 1, !.pc = "ask"]
  <2>1. task[t].round + 1 \in Nat
    BY <1>1 DEF Held
  <2>2. held \in Held /\ held.pc = "ask" /\ held.rules = task[t].rules
    BY <1>1, <2>1 DEF Held, Stages
  <2>3. task' = [task EXCEPT ![t] = held]
    BY <1>4
  <2> HIDE DEF held
  <2> QED
    BY <1>1, <2>2, <2>3, MoveKeepsAccepted DEF Patching
<1> QED
  BY <1>2, <1>3, <1>4 DEF Judge

\* create_patch: the base is what the file holds.
LEMMA CreateKeepsAccepted ==
    ASSUME Accepted, NEW t \in Tasks, CreatePatch(t)
    PROVE  Accepted'
<1>1. /\ task[t] \in Held /\ task[t].pc = "create" /\ file' = file
      /\ task[t].code \in Kinds /\ ~Blocked(t, task[t].code, task[t].rules)
  BY DEF Accepted, Typed, CreatePatch, At, AcceptedIsHeld, Patching
<1>2. CASE F(t) = None
  BY <1>1, <1>2, EndKeepsAccepted DEF CreatePatch, Modes
<1>3. CASE F(t) # None
  <2> DEFINE held == [task[t] EXCEPT !.base = file[F(t)], !.pc = "apply"]
  <2>1. F(t) \in Files /\ file[F(t)] \in Content
    BY <1>3, CoreTasksAssumption DEF Accepted, Typed, F
  <2>2. held \in Held /\ held.pc = "apply" /\ held.rules = task[t].rules /\ held.code = task[t].code
    BY <1>1, <2>1 DEF Held, Stages
  <2>3. task' = [task EXCEPT ![t] = held]
    BY <1>3 DEF CreatePatch
  <2> HIDE DEF held
  <2> QED
    BY <1>1, <2>1, <2>2, <2>3, MoveKeepsAccepted
<1> QED
  BY <1>2, <1>3

----------------------------------------------------------------------------
(* Writers *)

\* One file gets other content; every text of it that a run has written was
\* let pass already.
LEMMA ContentKeepsWritten ==
    ASSUME Typed, AcceptedIsWritten, NEW f \in Files, NEW content \in Seq(Text),
           file' = [file EXCEPT ![f] = content],
           \A u \in Tasks : task'[u].rules = task[u].rules /\ (task'[u].pc = "start" => task[u].pc = "start"),
           \A i \in 1 .. Len(content) : content[i].by \in Tasks =>
                /\ task[content[i].by].pc # "start"
                /\ ~Blocked(content[i].by, content[i].kind, task[content[i].by].rules)
    PROVE  AcceptedIsWritten'
<1> SUFFICES ASSUME NEW g \in Files, file'[g] # None, NEW i \in 1 .. Len(file'[g]), file'[g][i].by \in Tasks
             PROVE  /\ task'[file'[g][i].by].pc # "start"
                    /\ ~Blocked(file'[g][i].by, file'[g][i].kind, task'[file'[g][i].by].rules)
  BY DEF AcceptedIsWritten, Blocked
<1>1. CASE g = f
  <2>1. file'[g] = content
    BY <1>1 DEF Typed
  <2> QED
    BY <2>1
<1>2. CASE g # f
  <2>1. file'[g] = file[g]
    BY <1>2 DEF Typed
  <2>2. /\ task[file[g][i].by].pc # "start"
        /\ ~Blocked(file[g][i].by, file[g][i].kind, task[file[g][i].by].rules)
    BY <2>1 DEF AcceptedIsWritten
  <2> QED
    BY <2>1, <2>2
<1> QED
  BY <1>1, <1>2

\* A run at a patching stage has moved to the next one and nothing else of it
\* has changed.
LEMMA WriterMoves ==
    ASSUME Accepted, NEW t \in Tasks, NEW pc \in {"write", "keep"}, Go(t, pc), task[t].pc \in Patching
    PROVE  /\ task' \in [Tasks -> Held] /\ AcceptedIsHeld'
           /\ \A u \in Tasks : task'[u].rules = task[u].rules /\ (task'[u].pc = "start" => task[u].pc = "start")
<1>1. task \in [Tasks -> Held]
  BY DEF Accepted, Typed
<1> DEFINE held == [task[t] EXCEPT !.pc = pc]
<1>2. held \in Held /\ held.pc = pc /\ held.rules = task[t].rules /\ held.code = task[t].code
  BY <1>1 DEF Held, Stages
<1>3. task' = [task EXCEPT ![t] = held]
  BY DEF Go
<1> HIDE DEF held
<1>4. task'[t] = held /\ \A u \in Tasks \ {t} : task'[u] = task[u]
  BY <1>1, <1>3
<1>5. AcceptedIsHeld'
  <2> SUFFICES ASSUME NEW u \in Tasks
               PROVE  /\ task'[u].pc \in Patching \cup {"judge"} => task'[u].code \in Kinds
                      /\ task'[u].pc \in Patching => ~Blocked(u, task'[u].code, task'[u].rules)
    BY DEF AcceptedIsHeld, Blocked
  <2> QED
    BY <1>2, <1>4 DEF Accepted, AcceptedIsHeld
<1> QED
  BY <1>1, <1>2, <1>3, <1>4, <1>5

LEMMA WriterKeepsAccepted ==
    ASSUME Accepted, NEW t \in Tasks, NEW pc \in {"write", "keep"}, Go(t, pc), task[t].pc \in Patching,
           F(t) \in Files, NEW content \in Seq(Text), file' = [file EXCEPT ![F(t)] = content],
           \A i \in 1 .. Len(content) : content[i].by \in Tasks =>
                /\ task[content[i].by].pc # "start"
                /\ ~Blocked(content[i].by, content[i].kind, task[content[i].by].rules)
    PROVE  Accepted'
<1>1. Typed'
  BY WriterMoves DEF Accepted, Typed, Content
<1>2. AcceptedIsHeld'
  BY WriterMoves
<1>3. AcceptedIsWritten'
  BY WriterMoves, ContentKeepsWritten DEF Accepted
<1>4. TargetsExist'
  <2>1. \A g \in Files : file[g] # None => file'[g] # None
    BY CoreTasksAssumption DEF Accepted, Typed
  <2>2. file'[F(t)] # None
    BY CoreTasksAssumption DEF Accepted, Typed
  <2>3. \A u \in Tasks \ {t} : task'[u] = task[u]
    BY DEF Go, Accepted, Typed
  <2> QED
    BY <2>1, <2>2, <2>3 DEF Accepted, TargetsExist, F
<1> QED
  BY <1>1, <1>2, <1>3, <1>4 DEF Accepted

LEMMA TruncateKeepsAccepted ==
    ASSUME Accepted, NEW t \in Tasks, Truncate(t)
    PROVE  Accepted'
<1>1. /\ task[t].pc = "open" /\ Go(t, "write") /\ F(t) \in Files
      /\ file' = [file EXCEPT ![F(t)] = << >>]
  BY DEF Truncate, At, Accepted, TargetsExist
<1> DEFINE content == << >>
<1>2. content \in Seq(Text) /\ \A i \in 1 .. Len(content) : FALSE
  OBVIOUS
<1>3. file' = [file EXCEPT ![F(t)] = content]
  BY <1>1
<1> HIDE DEF content
<1> QED
  BY <1>1, <1>2, <1>3, WriterKeepsAccepted DEF Patching

\* What is written over the content of a file is the text and perhaps the end
\* of what was there.
LEMMA OverIsOldAndNew ==
    ASSUME NEW text \in Text, NEW content \in Seq(Text)
    PROVE  /\ Over(text, content) \in Seq(Text)
           /\ \A i \in 1 .. Len(Over(text, content)) :
                \/ Over(text, content)[i] = text
                \/ \E j \in 1 .. Len(content) : Over(text, content)[i] = content[j]
<1>1. CASE content = << >> \/ Size(content) <= Kind[text.kind].size
  <2>1. Over(text, content) = <<text>>
    BY <1>1 DEF Over
  <2> QED
    BY <2>1
<1>2. CASE ~(content = << >> \/ Size(content) <= Kind[text.kind].size)
  <2>1. Over(text, content) = <<text, Last(content)>>
    BY <1>2 DEF Over
  <2>2. Len(content) \in 1 .. Len(content) /\ Last(content) = content[Len(content)] /\ Last(content) \in Text
    BY <1>2 DEF Last
  <2> QED
    BY <2>1, <2>2
<1> QED
  BY <1>1, <1>2

LEMMA WriteKeepsAccepted ==
    ASSUME Accepted, NEW t \in Tasks, Write(t)
    PROVE  Accepted'
<1> DEFINE text == [by |-> t, kind |-> task[t].code]
<1> DEFINE content == Over(text, file[F(t)])
<1>1. /\ task[t].pc = "write" /\ Go(t, "keep") /\ F(t) \in Files /\ file[F(t)] # None
      /\ file' = [file EXCEPT ![F(t)] = content]
  BY DEF Write, At, Accepted, TargetsExist
<1>2. text \in Text /\ ~Blocked(t, text.kind, task[t].rules)
  BY <1>1 DEF Accepted, AcceptedIsHeld, Patching, Text
<1>3. file[F(t)] \in Seq(Text)
  BY <1>1 DEF Accepted, Typed, Content
<1>4. /\ content \in Seq(Text)
      /\ \A i \in 1 .. Len(content) : content[i] = text \/ \E j \in 1 .. Len(file[F(t)]) : content[i] = file[F(t)][j]
  BY <1>2, <1>3, OverIsOldAndNew
<1>5. text.by = t
  OBVIOUS
<1> HIDE DEF text, content
<1>6. ASSUME NEW i \in 1 .. Len(content), content[i].by \in Tasks
      PROVE  /\ task[content[i].by].pc # "start"
             /\ ~Blocked(content[i].by, content[i].kind, task[content[i].by].rules)
  <2>1. CASE content[i] = text
    BY <1>1, <1>2, <1>5, <2>1
  <2>2. CASE \E j \in 1 .. Len(file[F(t)]) : content[i] = file[F(t)][j]
    BY <1>1, <1>6, <2>2 DEF Accepted, AcceptedIsWritten
  <2> QED
    BY <1>4, <2>1, <2>2
<1> QED
  BY <1>1, <1>4, <1>6, WriterKeepsAccepted DEF Patching

\* A developer's text is nobody's patch.
LEMMA EditKeepsAccepted ==
    ASSUME Accepted, NEW f \in Files, NEW kind \in Kinds, Edit(f, kind)
    PROVE  Accepted'
<1> DEFINE content == <<[by |-> "editor", kind |-> kind]>>
<1>1. file' = [file EXCEPT ![f] = content] /\ task' = task
  BY DEF Edit
<1>2. content \in Seq(Text) /\ \A i \in 1 .. Len(content) : content[i].by \notin Tasks
  BY CoreTasksAssumption DEF Text
<1> HIDE DEF content
<1>3. Typed'
  BY <1>1, <1>2 DEF Accepted, Typed, Content
<1>4. AcceptedIsHeld'
  BY <1>1 DEF Accepted, AcceptedIsHeld, Blocked
<1>5. AcceptedIsWritten'
  BY <1>1, <1>2, ContentKeepsWritten DEF Accepted
<1>6. TargetsExist'
  BY <1>1, <1>2, CoreTasksAssumption DEF Accepted, Typed, TargetsExist, F
<1> QED
  BY <1>3, <1>4, <1>5, <1>6 DEF Accepted

----------------------------------------------------------------------------

\* Every step: the runs' own, the errors and deaths, and the editor's.
LEMMA StepKeepsAccepted ==
    ASSUME Accepted, [Next]_vars
    PROVE  Accepted'
<1>1. CASE UNCHANGED vars
  BY <1>1 DEF vars, Accepted, Typed, AcceptedIsHeld, AcceptedIsWritten, TargetsExist, Blocked, F
<1>2. ASSUME NEW t \in Tasks, LoadContext(t) \/ SavePatch(t) \/ SaveAudit(t)
      PROVE  Accepted'
  <2>1. file' = file /\ (Raise(t) \/ \E pc \in {"ask", "audit", "success"} : Go(t, pc))
    BY <1>2 DEF LoadContext, SavePatch, SaveAudit
  <2> QED
    BY <2>1, GoKeepsAccepted, EndKeepsAccepted DEF Stages, Ends
<1>3. ASSUME NEW t \in Tasks, ApplyPatch(t)
      PROVE  Accepted'
  <2>1. file' = file /\ task[t].pc = "apply" /\ (Fail(t, "patch_hash_mismatch") \/ Go(t, "open"))
    BY <1>3 DEF ApplyPatch, At
  <2> QED
    BY <2>1, GoKeepsAccepted, EndKeepsAccepted DEF Stages, Modes
<1>4. ASSUME NEW t \in Tasks, AttemptFails(t) \/ LogFails(t)
      PROVE  Accepted'
  BY <1>4, AttemptKeepsAccepted DEF AttemptFails, LogFails
<1>5. ASSUME NEW t \in Tasks, NoCode(t) \/ SnapshotFails(t) \/ PatchError(t) \/ DiskError(t) \/ Die(t)
      PROVE  Accepted'
  <2>1. file' = file
    BY <1>5 DEF NoCode, SnapshotFails, PatchError, DiskError, Die
  <2>2. \/ Fail(t, "llm_empty") \/ Fail(t, "io_error") \/ Raise(t)
        \/ task' = [task EXCEPT ![t] = [@ EXCEPT !.pc = "dead", !.round = 0, !.attempt = 0]]
    BY <1>5 DEF NoCode, SnapshotFails, PatchError, DiskError, Die
  <2> QED
    BY <2>1, <2>2, EndKeepsAccepted DEF Modes
<1> QED
  BY <1>1, <1>2, <1>3, <1>4, <1>5, PrepareKeepsAccepted, AnswerKeepsAccepted, JudgeKeepsAccepted,
     CreateKeepsAccepted, TruncateKeepsAccepted, WriteKeepsAccepted, EditKeepsAccepted
  DEF Next, Step, Finished

\* At first only the editor has written.
LEMMA FirstIsAccepted ==
    ASSUME Init
    PROVE  Accepted
<1>1. file \in [Files -> Content] /\
      \A f \in Files : file[f] # None => \A i \in 1 .. Len(file[f]) : file[f][i].by = "editor"
  <2>1. {None, << >>} \cup {<<[by |-> "editor", kind |-> k]>> : k \in Kinds} \subseteq Content
    <3>1. << >> \in Seq(Text)
      OBVIOUS
    <3>2. ASSUME NEW k \in Kinds
          PROVE  <<[by |-> "editor", kind |-> k]>> \in Seq(Text)
      <4>1. [by |-> "editor", kind |-> k] \in Text
        BY DEF Text
      <4> QED
        BY <4>1
    <3> QED
      BY <3>1, <3>2 DEF Content
  <2>2. \A f \in Files : file[f] \in {None, << >>} \cup {<<[by |-> "editor", kind |-> k]>> : k \in Kinds}
    BY DEF Init
  <2>3. ASSUME NEW f \in Files, file[f] # None, NEW i \in 1 .. Len(file[f])
        PROVE  file[f][i].by = "editor"
    <3>1. CASE file[f] = << >>
      BY <2>3, <3>1
    <3>2. ASSUME NEW k \in Kinds, file[f] = <<[by |-> "editor", kind |-> k]>>
          PROVE  file[f][i].by = "editor"
      <4>1. i = 1
        BY <2>3, <3>2
      <4> QED
        BY <3>2, <4>1
    <3> QED
      BY <2>2, <2>3, <3>1, <3>2
  <2> QED
    BY <2>1, <2>2, <2>3 DEF Init
<1>2. \A t \in Tasks : task[t] \in Held /\ task[t].pc = "start"
  BY DEF Init, Fresh, Held, Stages, Content
<1>3. task \in [Tasks -> Held]
  BY <1>2 DEF Init
<1> QED
  BY <1>1, <1>2, <1>3, CoreTasksAssumption
  DEF Accepted, Typed, AcceptedIsHeld, AcceptedIsWritten, TargetsExist, Patching

\* Whatever a run leaves in a file - also in one that others write to at the
\* same time, and whatever fails or dies in between - is code that its
\* validators let pass.
THEOREM AcceptedCode == Spec => []OnlyAcceptedCodeIsWritten
<1>1. Init => Accepted
  BY FirstIsAccepted
<1>2. Accepted /\ [Next]_vars => Accepted'
  BY StepKeepsAccepted
<1>3. Accepted => OnlyAcceptedCodeIsWritten
  BY DEF Accepted, AcceptedIsWritten, OnlyAcceptedCodeIsWritten
<1> QED
  BY <1>1, <1>2, <1>3, PTL DEF Spec
----------------------------------------------------------------------------
(* What a run has done to the files, and what its folder says of it *)

Folder == [patch : Kinds \cup {None}, audit : {None, "failed", "success"}]
Ghosts ==
    [wrote : [Tasks -> BOOLEAN], over : [Tasks -> Content], raced : [Tasks -> BOOLEAN], mixed : SUBSET Files]

\* What a run holds, its folder d, and whether it has opened its file, w, agree
\* at every stage.
Tells(held, d, w) ==
    /\ held.round < Iterations /\ held.attempt < Retries
    /\ held.pc = "failed" <=> held.failure # None
    /\ d.patch # None => held.pc \in Ends \cup {"audit"} /\ d.patch = held.code
    /\ held.pc = "audit" => d.patch = held.code
    /\ w => held.pc \in Ends \cup {"write", "keep", "audit"}
    /\ held.pc \in {"write", "keep", "audit"} => w /\ held.code \in Kinds
    /\ w /\ held.pc = "failed" => held.failure = "io_error"
    /\ held.pc = "success" => d.audit = "success"
    /\ held.plugin = "none" /\ d.audit = "success" =>
         held.pc = "success" /\ w /\ held.code \in Kinds /\ d.patch = held.code

\* From the base a run has read to the content it overwrites.
KnowsItsBase(t) ==
    /\ task[t].pc = "apply" /\ task[t].base # None => file[F(t)] # None
    /\ task[t].pc = "open" => file[F(t)] = task[t].base \/ history.raced[t]
    /\ history.wrote[t] => history.over[t] = task[t].base \/ history.raced[t]
    /\ task[t].pc = "write" => file[F(t)] = << >> \/ F(t) \in history.mixed

Writer(t, f) == F(t) = f /\ history.wrote[t]

IsWhole(f) ==
    file[f] # None =>
        /\ Len(file[f]) <= 2
        /\ Len(file[f]) > 1 => f \in history.mixed
        /\ file[f] = << >> /\ (\E t \in Tasks : Writer(t, f))
             => \E t \in Tasks : Writer(t, f) /\ task[t].pc \in {"write", "failed", "dead"}

Kept == folder \in [Tasks -> Folder] /\ history \in Ghosts
AllTell == \A t \in Tasks : Tells(task[t], folder[t], history.wrote[t])
BasesAreKnown == \A t \in Tasks : KnowsItsBase(t)
AreWhole == \A f \in Files : IsWhole(f)
Bounded == faults \in 0 .. MaxFaults /\ edits \in 0 .. MaxEdits

Agreed == Kept /\ AllTell /\ BasesAreKnown /\ AreWhole /\ Bounded

\* A step of a run that touches neither a file nor the history.
LEMMA QuietKeepsAgreed ==
    ASSUME Accepted, Agreed, Bounded', NEW t \in Tasks, NEW held \in Held, NEW d \in Folder,
           task' = [task EXCEPT ![t] = held], folder' = [folder EXCEPT ![t] = d], file' = file, history' = history,
           Tells(held, d, history.wrote[t]),
           history.wrote[t] => held.base = task[t].base,
           held.pc \notin {"open", "write"},
           held.pc = "apply" /\ held.base # None => file[F(t)] # None,
           task[t].pc = "write" => held.pc \in {"failed", "dead"},
           task[t].pc \notin {"failed", "dead"}
    PROVE  Agreed'
<1>1. /\ task'[t] = held /\ folder'[t] = d
      /\ \A u \in Tasks \ {t} : task'[u] = task[u] /\ folder'[u] = folder[u]
      /\ folder' \in [Tasks -> Folder]
  BY DEF Accepted, Typed, Agreed, Kept
<1>2. Kept'
  BY <1>1 DEF Agreed, Kept, Folder, Ghosts, Content
<1>3. AllTell'
  <2> SUFFICES ASSUME NEW u \in Tasks
               PROVE  Tells(task'[u], folder'[u], history.wrote[u])
    BY DEF AllTell, Tells
  <2> QED
    BY <1>1 DEF Agreed, AllTell
<1>4. BasesAreKnown'
  <2> SUFFICES ASSUME NEW u \in Tasks
               PROVE  KnowsItsBase(u)'
    BY DEF BasesAreKnown
  <2>1. KnowsItsBase(u)
    BY DEF Agreed, BasesAreKnown
  <2>2. CASE u = t
    BY <1>1, <2>1, <2>2 DEF KnowsItsBase, F
  <2>3. CASE u # t
    BY <1>1, <2>1, <2>3 DEF KnowsItsBase, F
  <2> QED
    BY <2>2, <2>3
<1>5. AreWhole'
  <2> SUFFICES ASSUME NEW f \in Files
               PROVE  IsWhole(f)'
    BY DEF AreWhole
  <2>1. IsWhole(f)
    BY DEF Agreed, AreWhole
  <2>2. \A u \in Tasks : Writer(u, f)' = Writer(u, f)
    BY DEF Writer, F
  <2>3. \A u \in Tasks : task[u].pc \in {"write", "failed", "dead"} => task'[u].pc \in {"write", "failed", "dead"}
    BY <1>1
  <2> QED
    BY <2>1, <2>2, <2>3 DEF IsWhole
<1> QED
  BY <1>2, <1>3, <1>4, <1>5 DEF Agreed

\* The same, if the folder stays as it is too.
LEMMA MoveKeepsAgreed ==
    ASSUME Accepted, Agreed, Bounded', NEW t \in Tasks, NEW held \in Held,
           task' = [task EXCEPT ![t] = held], UNCHANGED <<folder, file, history>>,
           Tells(held, folder[t], history.wrote[t]),
           history.wrote[t] => held.base = task[t].base,
           held.pc \notin {"open", "write"},
           held.pc = "apply" /\ held.base # None => file[F(t)] # None,
           task[t].pc = "write" => held.pc \in {"failed", "dead"},
           task[t].pc \notin {"failed", "dead"}
    PROVE  Agreed'
<1>1. folder[t] \in Folder /\ folder' = [folder EXCEPT ![t] = folder[t]]
  BY DEF Agreed, Kept
<1> QED
  BY <1>1, QuietKeepsAgreed

\* A run fails, raises or dies; only an IO error strikes after the file was opened.
LEMMA EndKeepsAgreed ==
    ASSUME Accepted, Agreed, Bounded', NEW t \in Tasks, UNCHANGED <<folder, file, history>>, ~Ended(t),
           \/ \E mode \in Modes : Fail(t, mode) /\ (task[t].pc \in {"write", "keep", "audit"} => mode = "io_error")
           \/ Raise(t) /\ task[t].pc # "write"
           \/ task' = [task EXCEPT ![t] = [@ EXCEPT !.pc = "dead", !.round = 0, !.attempt = 0]]
    PROVE  Agreed'
<1>1. task[t] \in Held /\ task[t].pc \notin Ends /\ Tells(task[t], folder[t], history.wrote[t])
  BY DEF Accepted, Typed, Agreed, AllTell, Ended
<1>2. 0 < Iterations /\ 0 < Retries /\ \A mode \in Modes : mode # None
  <2>1. \A n \in Nat \ {0} : 0 < n
    OBVIOUS
  <2>2. Retries \in Nat \ {0} /\ Iterations \in Nat \ {0}
    BY CoreTasksAssumption
  <2> QED
    BY <2>1, <2>2, CoreTasksAssumption
<1>3. PICK held \in Held :
        /\ task' = [task EXCEPT ![t] = held] /\ held.base = task[t].base /\ held.code = task[t].code
        /\ held.plugin = task[t].plugin /\ held.round = 0 /\ held.attempt = 0
        /\ \/ /\ held.pc = "failed" /\ held.failure \in Modes
              /\ task[t].pc \in {"write", "keep", "audit"} => held.failure = "io_error"
           \/ held.pc \in {"raised", "dead"} /\ held.failure = task[t].failure
              /\ (task[t].pc = "write" => held.pc = "dead")
  <2>1. ASSUME NEW mode \in Modes, Fail(t, mode), task[t].pc \in {"write", "keep", "audit"} => mode = "io_error"
        PROVE  \E held \in Held :
                /\ task' = [task EXCEPT ![t] = held] /\ held.base = task[t].base /\ held.code = task[t].code
                /\ held.plugin = task[t].plugin /\ held.round = 0 /\ held.attempt = 0
                /\ held.pc = "failed" /\ held.failure \in Modes
                /\ task[t].pc \in {"write", "keep", "audit"} => held.failure = "io_error"
    <3> DEFINE held == [task[t] EXCEPT !.pc = "failed", !.failure = mode, !.round = 0, !.attempt = 0]
    <3>1. /\ held \in Held /\ held.base = task[t].base /\ held.code = task[t].code
          /\ held.plugin = task[t].plugin /\ held.round = 0 /\ held.attempt = 0
          /\ held.pc = "failed" /\ held.failure = mode
      BY <1>1 DEF Held, Stages, Ends
    <3>2. task' = [task EXCEPT ![t] = held]
      BY <2>1 DEF Fail
    <3> HIDE DEF held
    <3> QED
      BY <2>1, <3>1, <3>2
  <2>2. ASSUME NEW pc \in {"raised", "dead"}, task[t].pc = "write" => pc = "dead",
               task' = [task EXCEPT ![t] = [@ EXCEPT !.pc = pc, !.round = 0, !.attempt = 0]]
        PROVE  \E held \in Held :
                /\ task' = [task EXCEPT ![t] = held] /\ held.base = task[t].base /\ held.code = task[t].code
                /\ held.plugin = task[t].plugin /\ held.round = 0 /\ held.attempt = 0
                /\ held.pc \in {"raised", "dead"} /\ held.failure = task[t].failure
                /\ (task[t].pc = "write" => held.pc = "dead")
    <3> DEFINE held == [task[t] EXCEPT !.pc = pc, !.round = 0, !.attempt = 0]
    <3>1. /\ held \in Held /\ held.base = task[t].base /\ held.code = task[t].code
          /\ held.plugin = task[t].plugin /\ held.round = 0 /\ held.attempt = 0
          /\ held.pc = pc /\ held.failure = task[t].failure
      BY <1>1 DEF Held, Stages, Ends
    <3>2. task' = [task EXCEPT ![t] = held]
      BY <2>2
    <3> HIDE DEF held
    <3> QED
      BY <2>2, <3>1, <3>2
  <2> QED
    BY <2>1, <2>2 DEF Raise
<1>4. Tells(held, folder[t], history.wrote[t])
  BY <1>1, <1>2, <1>3 DEF Tells, Ends
<1> QED
  BY <1>1, <1>3, <1>4, MoveKeepsAgreed DEF Ends

LEMMA PrepareKeepsAgreed ==
    ASSUME Accepted, Agreed, NEW t \in Tasks, Prepare(t)
    PROVE  Agreed'
<1>1. /\ task[t] \in Held /\ task[t].pc = "start" /\ task[t].plugin \in {"none", "error", "empty", "subtasks"}
      /\ Tells(task[t], folder[t], history.wrote[t]) /\ folder[t] \in Folder
  BY CoreTasksAssumption DEF Accepted, Typed, Agreed, AllTell, Kept, Prepare, At, Held
<1> DEFINE next == [none |-> "context", error |-> "failed", empty |-> "success", subtasks |-> "raised"][task[t].plugin]
<1> DEFINE failure == IF task[t].plugin = "error" THEN "plugin_runtime_error" ELSE None
<1> DEFINE audit == CASE task[t].plugin = "error" -> "failed" [] task[t].plugin = "empty" -> "success" [] OTHER -> folder[t].audit
<1>2. PICK rules \in {Rules, NoRules} :
        task' = [task EXCEPT ![t] = [@ EXCEPT !.rules = rules, !.pc = next, !.failure = failure]]
  BY DEF Prepare
<1>3. folder' = [folder EXCEPT ![t].audit = audit] /\ file' = file /\ history' = history /\ Bounded'
  BY DEF Prepare, Agreed, Kept, Bounded
<1>4. /\ task[t].plugin = "none" => next = "context" /\ failure = None /\ audit = folder[t].audit
      /\ next \in {"context", "failed", "success", "raised"}
      /\ failure \in Modes \cup {None} /\ (next = "failed" <=> failure # None)
      /\ audit \in {None, "failed", "success"} /\ (next = "success" => audit = "success")
  BY <1>1, CoreTasksAssumption DEF Modes, Folder
<1> HIDE DEF next, failure, audit
<1> DEFINE held == [task[t] EXCEPT !.rules = rules, !.pc = next, !.failure = failure]
<1> DEFINE d == [folder[t] EXCEPT !.audit = audit]
<1>5. /\ held \in Held /\ held.pc = next /\ held.failure = failure /\ held.plugin = task[t].plugin
      /\ held.round = task[t].round /\ held.attempt = task[t].attempt /\ held.base = task[t].base
      /\ held.code = task[t].code
  BY <1>1, <1>4 DEF Held, Stages, Ends
<1>6. d \in Folder /\ d.audit = audit /\ d.patch = folder[t].patch
  BY <1>1, <1>4 DEF Folder
<1>7. task' = [task EXCEPT ![t] = held] /\ folder' = [folder EXCEPT ![t] = d]
  BY <1>2, <1>3 DEF Agreed, Kept
<1> HIDE DEF held, d
<1>8. ~history.wrote[t] /\ folder[t].patch = None
  BY <1>1 DEF Tells, Ends
<1>9. Tells(held, d, history.wrote[t])
  BY <1>1, <1>4, <1>5, <1>6, <1>8 DEF Tells, Ends
<1> QED
  BY <1>1, <1>3, <1>4, <1>5, <1>6, <1>7, <1>8, <1>9, QuietKeepsAgreed

\* The record of a run whose snapshot failed.
LEMMA SnapshotFailsKeepsAgreed ==
    ASSUME Accepted, Agreed, NEW t \in Tasks, SnapshotFails(t)
    PROVE  Agreed'
<1>1. /\ task[t] \in Held /\ task[t].pc = "start" /\ folder[t] \in Folder
      /\ Tells(task[t], folder[t], history.wrote[t])
  BY DEF Accepted, Typed, Agreed, Kept, AllTell, SnapshotFails, At
<1> DEFINE held == [task[t] EXCEPT !.pc = "failed", !.failure = "io_error", !.round = 0, !.attempt = 0]
<1> DEFINE d == [folder[t] EXCEPT !.audit = "failed"]
<1>2. /\ held \in Held /\ held.pc = "failed" /\ held.failure = "io_error" /\ held.plugin = task[t].plugin
      /\ held.round = 0 /\ held.attempt = 0 /\ held.base = task[t].base /\ held.code = task[t].code
  BY <1>1 DEF Held, Stages, Ends, Modes
<1>3. d \in Folder /\ d.audit = "failed" /\ d.patch = folder[t].patch
  BY <1>1 DEF Folder
<1>4. /\ task' = [task EXCEPT ![t] = held] /\ folder' = [folder EXCEPT ![t] = d]
      /\ file' = file /\ history' = history /\ Bounded'
  BY CoreTasksAssumption DEF SnapshotFails, Fail, Fault, Agreed, Kept, Bounded
<1>5. 0 < Iterations /\ 0 < Retries /\ "io_error" # None
  BY CoreTasksAssumption DEF Modes
<1> HIDE DEF held, d
<1>6. ~history.wrote[t] /\ Tells(held, d, history.wrote[t])
  BY <1>1, <1>2, <1>3, <1>5 DEF Tells, Ends
<1> QED
  BY <1>1, <1>2, <1>3, <1>4, <1>6, QuietKeepsAgreed

\* A run goes on to another stage and nothing else of it changes.
LEMMA GoKeepsAgreed ==
    ASSUME Accepted, Agreed, Bounded', NEW t \in Tasks, NEW d \in Folder, NEW pc \in Stages, Go(t, pc),
           folder' = [folder EXCEPT ![t] = d], file' = file, history' = history,
           pc \notin {"failed", "open", "write", "apply"},
           task[t].pc \notin {"failed", "dead", "write"},
           \A held \in Held :
                /\ held.pc = pc /\ held.round = task[t].round /\ held.attempt = task[t].attempt
                /\ held.failure = task[t].failure /\ held.code = task[t].code /\ held.plugin = task[t].plugin
                => Tells(held, d, history.wrote[t])
    PROVE  Agreed'
<1>1. task[t] \in Held
  BY DEF Accepted, Typed
<1> DEFINE held == [task[t] EXCEPT !.pc = pc]
<1>2. /\ held \in Held /\ held.pc = pc /\ held.failure = task[t].failure /\ held.plugin = task[t].plugin
      /\ held.round = task[t].round /\ held.attempt = task[t].attempt /\ held.base = task[t].base
      /\ held.code = task[t].code
  BY <1>1 DEF Held
<1>3. task' = [task EXCEPT ![t] = held]
  BY DEF Go
<1> HIDE DEF held
<1> QED
  BY <1>2, <1>3, QuietKeepsAgreed

LEMMA LoadKeepsAgreed ==
    ASSUME Accepted, Agreed, NEW t \in Tasks, LoadContext(t)
    PROVE  Agreed'
<1>1. /\ task[t].pc = "context" /\ Tells(task[t], folder[t], history.wrote[t]) /\ folder[t] \in Folder
      /\ folder' = [folder EXCEPT ![t] = folder[t]] /\ UNCHANGED <<folder, file, history>> /\ Bounded'
  BY DEF Agreed, Kept, AllTell, Bounded, LoadContext, At
<1>2. CASE Raise(t)
  BY <1>1, <1>2, EndKeepsAgreed DEF Ended, Ends
<1>3. CASE Go(t, "ask")
  BY <1>1, <1>3, GoKeepsAgreed DEF Tells, Stages, Ends
<1> QED
  BY <1>2, <1>3 DEF LoadContext

LEMMA KeepKeepsAgreed ==
    ASSUME Accepted, Agreed, NEW t \in Tasks, SavePatch(t) \/ SaveAudit(t)
    PROVE  Agreed'
<1>1. /\ task[t] \in Held /\ Tells(task[t], folder[t], history.wrote[t]) /\ folder[t] \in Folder
      /\ file' = file /\ history' = history /\ Bounded' /\ task[t].pc \in {"keep", "audit"}
  BY DEF Accepted, Typed, Agreed, Kept, AllTell, Bounded, SavePatch, SaveAudit, At
<1>2. CASE SavePatch(t)
  <2> DEFINE d == [folder[t] EXCEPT !.patch = task[t].code]
  <2>1. d \in Folder /\ d.patch = task[t].code /\ d.audit = folder[t].audit
    BY <1>1 DEF Folder, Held
  <2>2. folder' = [folder EXCEPT ![t] = d] /\ Go(t, "audit") /\ task[t].pc = "keep"
    BY <1>2 DEF SavePatch, At, Agreed, Kept
  <2> HIDE DEF d
  <2>3. ASSUME NEW held \in Held, held.pc = "audit", held.round = task[t].round, held.attempt = task[t].attempt,
               held.failure = task[t].failure, held.code = task[t].code, held.plugin = task[t].plugin
        PROVE  Tells(held, d, history.wrote[t])
    BY <1>1, <2>1, <2>2, <2>3 DEF Tells, Ends
  <2>4. "audit" \in Stages
    BY DEF Stages, Ends
  <2> QED
    BY <1>1, <2>1, <2>2, <2>3, <2>4, GoKeepsAgreed
<1>3. CASE SaveAudit(t)
  <2> DEFINE d == [folder[t] EXCEPT !.audit = "success"]
  <2>1. d \in Folder /\ d.patch = folder[t].patch /\ d.audit = "success"
    BY <1>1 DEF Folder
  <2>2. folder' = [folder EXCEPT ![t] = d] /\ Go(t, "success") /\ task[t].pc = "audit"
    BY <1>3 DEF SaveAudit, At, Agreed, Kept
  <2> HIDE DEF d
  <2>3. ASSUME NEW held \in Held, held.pc = "success", held.round = task[t].round, held.attempt = task[t].attempt,
               held.failure = task[t].failure, held.code = task[t].code, held.plugin = task[t].plugin
        PROVE  Tells(held, d, history.wrote[t])
    BY <1>1, <2>1, <2>2, <2>3 DEF Tells, Ends
  <2>4. "success" \in Stages
    BY DEF Stages, Ends
  <2> QED
    BY <1>1, <2>1, <2>2, <2>3, <2>4, GoKeepsAgreed
<1> QED
  BY <1>2, <1>3

LEMMA AttemptKeepsAgreed ==
    ASSUME Accepted, Agreed, Bounded', NEW t \in Tasks, At(t, "ask"), AnotherAttempt(t), UNCHANGED <<folder, file, history>>
    PROVE  Agreed'
<1>1. task[t] \in Held /\ task[t].pc = "ask" /\ Tells(task[t], folder[t], history.wrote[t])
  BY DEF Accepted, Typed, Agreed, AllTell, At
<1>2. CASE task[t].attempt + 1 < Retries
  <2> DEFINE held == [task[t] EXCEPT !.attempt = @ + 1]
  <2>1. /\ held \in Held /\ held.pc = "ask" /\ held.failure = task[t].failure /\ held.plugin = task[t].plugin
        /\ held.round = task[t].round /\ held.attempt = task[t].attempt + 1 /\ held.base = task[t].base
        /\ held.code = task[t].code
    BY <1>1 DEF Held
  <2>2. task' = [task EXCEPT ![t] = held]
    BY <1>2 DEF AnotherAttempt
  <2> HIDE DEF held
  <2>3. Tells(held, folder[t], history.wrote[t])
    BY <1>1, <1>2, <2>1 DEF Tells, Ends
  <2> QED
    BY <1>1, <2>1, <2>2, <2>3, MoveKeepsAgreed
<1>3. CASE Fail(t, "llm_unavailable")
  BY <1>1, <1>3, EndKeepsAgreed DEF Modes, Ended, Ends
<1> QED
  BY <1>2, <1>3 DEF AnotherAttempt

LEMMA AnswerKeepsAgreed ==
    ASSUME Accepted, Agreed, NEW t \in Tasks, NEW kind \in Kinds, Answer(t, kind)
    PROVE  Agreed'
<1>1. /\ task[t] \in Held /\ task[t].pc = "ask" /\ Tells(task[t], folder[t], history.wrote[t])
      /\ UNCHANGED <<folder, file, history>> /\ Bounded' /\ 0 < Retries
  BY CoreTasksAssumption DEF Accepted, Typed, Agreed, AllTell, Bounded, Answer, At
<1> DEFINE held == [task[t] EXCEPT !.code = kind, !.attempt = 0, !.pc = "judge"]
<1>2. /\ held \in Held /\ held.pc = "judge" /\ held.failure = task[t].failure /\ held.plugin = task[t].plugin
      /\ held.round = task[t].round /\ held.attempt = 0 /\ held.base = task[t].base /\ held.code = kind
  BY <1>1 DEF Held, Stages
<1>3. task' = [task EXCEPT ![t] = held]
  BY DEF Answer
<1> HIDE DEF held
<1>4. Tells(held, folder[t], history.wrote[t])
  BY <1>1, <1>2 DEF Tells, Ends
<1> QED
  BY <1>1, <1>2, <1>3, <1>4, MoveKeepsAgreed

LEMMA JudgeKeepsAgreed ==
    ASSUME Accepted, Agreed, NEW t \in Tasks, Judge(t)
    PROVE  Agreed'
<1>1. /\ task[t] \in Held /\ task[t].pc = "judge" /\ Tells(task[t], folder[t], history.wrote[t])
      /\ UNCHANGED <<folder, file, history>> /\ Bounded'
  BY DEF Accepted, Typed, Agreed, AllTell, Bounded, Judge, At
<1>2. CASE Fail(t, "validation_fatal")
  BY <1>1, <1>2, EndKeepsAgreed DEF Modes, Ended, Ends
<1>3. ASSUME NEW round \in Nat, NEW pc \in {"create", "ask"}, round < Iterations,
             task' = [task EXCEPT ![t] = [task[t] EXCEPT !.round = round, !.pc = pc]]
      PROVE  Agreed'
  <2> DEFINE held == [task[t] EXCEPT !.round = round, !.pc = pc]
  <2>1. /\ held \in Held /\ held.pc = pc /\ held.failure = task[t].failure /\ held.plugin = task[t].plugin
        /\ held.round = round /\ held.attempt = task[t].attempt /\ held.base = task[t].base
        /\ held.code = task[t].code
    BY <1>1 DEF Held, Stages
  <2>2. task' = [task EXCEPT ![t] = held]
    BY <1>3
  <2> HIDE DEF held
  <2>3. Tells(held, folder[t], history.wrote[t])
    BY <1>1, <1>3, <2>1 DEF Tells, Ends
  <2> QED
    BY <1>1, <2>1, <2>2, <2>3, MoveKeepsAgreed
<1>4. CASE task' = [task EXCEPT ![t] = [@ EXCEPT !.round = 0, !.pc = "create"]]
  <2>1. 0 \in Nat /\ 0 < Iterations
    BY CoreTasksAssumption
  <2> QED
    BY <1>3, <1>4, <2>1
<1>5. CASE /\ task[t].round # Iterations - 1
           /\ task' = [task EXCEPT ![t] = [task[t] EXCEPT !.round = @ + 1, !.pc = "ask"]]
  <2>1. task[t].round + 1 \in Nat /\ task[t].round + 1 < Iterations
    BY <1>1, <1>5, CoreTasksAssumption DEF Tells, Held
  <2> QED
    BY <1>3, <1>5, <2>1
<1> QED
  BY <1>2, <1>4, <1>5 DEF Judge

LEMMA CreateKeepsAgreed ==
    ASSUME Accepted, Agreed, NEW t \in Tasks, CreatePatch(t)
    PROVE  Agreed'
<1>1. /\ task[t] \in Held /\ task[t].pc = "create" /\ Tells(task[t], folder[t], history.wrote[t])
      /\ UNCHANGED <<folder, file, history>> /\ Bounded'
  BY DEF Accepted, Typed, Agreed, AllTell, Bounded, CreatePatch, At
<1>2. CASE Fail(t, "io_error")
  BY <1>1, <1>2, EndKeepsAgreed DEF Modes, Ended, Ends
<1>3. CASE F(t) # None /\ task' = [task EXCEPT ![t] = [@ EXCEPT !.base = file[F(t)], !.pc = "apply"]]
  <2> DEFINE held == [task[t] EXCEPT !.base = file[F(t)], !.pc = "apply"]
  <2>1. F(t) \in Files /\ file[F(t)] \in Content
    BY <1>3, CoreTasksAssumption DEF Accepted, Typed, F
  <2>2. /\ held \in Held /\ held.pc = "apply" /\ held.failure = task[t].failure /\ held.plugin = task[t].plugin
        /\ held.round = task[t].round /\ held.attempt = task[t].attempt /\ held.base = file[F(t)]
        /\ held.code = task[t].code
    BY <1>1, <2>1 DEF Held, Stages
  <2>3. task' = [task EXCEPT ![t] = held]
    BY <1>3
  <2> HIDE DEF held
  <2>4. ~history.wrote[t] /\ Tells(held, folder[t], history.wrote[t])
    BY <1>1, <2>2 DEF Tells, Ends
  <2> QED
    BY <1>1, <2>2, <2>3, <2>4, MoveKeepsAgreed
<1> QED
  BY <1>2, <1>3 DEF CreatePatch

\* The hash is compared: what comes after is a race.
LEMMA ApplyKeepsAgreed ==
    ASSUME Accepted, Agreed, NEW t \in Tasks, ApplyPatch(t)
    PROVE  Agreed'
<1> DEFINE raced == task[t].base = None /\ file[F(t)] # None
<1>1. /\ task[t] \in Held /\ task[t].pc = "apply" /\ Tells(task[t], folder[t], history.wrote[t]) /\ KnowsItsBase(t)
      /\ UNCHANGED <<folder, file>> /\ Bounded' /\ task \in [Tasks -> Held] /\ history \in Ghosts
  BY DEF Accepted, Typed, Agreed, Kept, AllTell, BasesAreKnown, Bounded, ApplyPatch, At
<1>2. /\ history' \in Ghosts /\ history'.raced[t] = raced
      /\ \A u \in Tasks \ {t} : history'.raced[u] = history.raced[u]
      /\ history'.wrote = history.wrote /\ history'.over = history.over /\ history'.mixed = history.mixed
  BY <1>1 DEF ApplyPatch, Ghosts
<1>3. ~history.wrote[t]
  BY <1>1 DEF Tells, Ends
<1>4. PICK held \in Held :
        /\ task' = [task EXCEPT ![t] = held] /\ held.base = task[t].base /\ Tells(held, folder[t], FALSE)
        /\ held.pc \in {"failed", "open"} /\ (held.pc = "open" => file[F(t)] = task[t].base \/ raced)
  <2>1. CASE Fail(t, "patch_hash_mismatch")
    <3> DEFINE held == [task[t] EXCEPT !.pc = "failed", !.failure = "patch_hash_mismatch", !.round = 0, !.attempt = 0]
    <3>1. /\ held \in Held /\ held.pc = "failed" /\ held.failure = "patch_hash_mismatch" /\ held.plugin = task[t].plugin
          /\ held.round = 0 /\ held.attempt = 0 /\ held.base = task[t].base /\ held.code = task[t].code
      BY <1>1 DEF Held, Stages, Ends, Modes
    <3>2. task' = [task EXCEPT ![t] = held]
      BY <2>1 DEF Fail
    <3>3. 0 < Iterations /\ 0 < Retries /\ "patch_hash_mismatch" # None
      BY CoreTasksAssumption DEF Modes
    <3> HIDE DEF held
    <3>4. Tells(held, folder[t], FALSE)
      BY <1>1, <3>1, <3>3 DEF Tells, Ends
    <3> QED
      BY <3>1, <3>2, <3>4
  <2>2. CASE Go(t, "open") /\ ~(file[F(t)] # None /\ task[t].base # None /\ file[F(t)] # task[t].base)
    <3> DEFINE held == [task[t] EXCEPT !.pc = "open"]
    <3>1. /\ held \in Held /\ held.pc = "open" /\ held.failure = task[t].failure /\ held.plugin = task[t].plugin
          /\ held.round = task[t].round /\ held.attempt = task[t].attempt /\ held.base = task[t].base
          /\ held.code = task[t].code
      BY <1>1 DEF Held, Stages
    <3>2. task' = [task EXCEPT ![t] = held]
      BY <2>2 DEF Go
    <3>3. file[F(t)] = task[t].base \/ raced
      BY <1>1, <2>2 DEF KnowsItsBase
    <3> HIDE DEF held
    <3>4. Tells(held, folder[t], FALSE)
      BY <1>1, <1>3, <3>1 DEF Tells, Ends
    <3> QED
      BY <3>1, <3>2, <3>3, <3>4
  <2> QED
    BY <2>1, <2>2 DEF ApplyPatch
<1>5. task'[t] = held /\ \A u \in Tasks \ {t} : task'[u] = task[u]
  BY <1>1, <1>4
<1> HIDE DEF raced
<1>6. AllTell'
  <2> SUFFICES ASSUME NEW u \in Tasks
               PROVE  Tells(task'[u], folder'[u], history'.wrote[u])
    BY DEF AllTell, Tells
  <2>1. Tells(task[u], folder[u], history.wrote[u])
    BY DEF Agreed, AllTell
  <2>2. CASE u # t
    BY <1>1, <1>2, <1>5, <2>1, <2>2
  <2>3. CASE u = t
    <3>1. history.wrote[t] = FALSE
      BY <1>1, <1>3 DEF Ghosts
    <3> QED
      BY <1>1, <1>2, <1>4, <1>5, <2>3, <3>1
  <2> QED
    BY <2>2, <2>3
<1>7. BasesAreKnown'
  <2> SUFFICES ASSUME NEW u \in Tasks
               PROVE  KnowsItsBase(u)'
    BY DEF BasesAreKnown
  <2>1. KnowsItsBase(u)
    BY DEF Agreed, BasesAreKnown
  <2>2. CASE u = t
    BY <1>1, <1>2, <1>3, <1>4, <1>5, <2>2 DEF KnowsItsBase, F
  <2>3. CASE u # t
    BY <1>1, <1>2, <1>5, <2>1, <2>3 DEF KnowsItsBase, F
  <2> QED
    BY <2>2, <2>3
<1>8. AreWhole'
  <2> SUFFICES ASSUME NEW f \in Files
               PROVE  IsWhole(f)'
    BY DEF AreWhole
  <2>1. IsWhole(f)
    BY DEF Agreed, AreWhole
  <2>2. \A u \in Tasks : Writer(u, f)' = Writer(u, f)
    BY <1>2 DEF Writer, F
  <2>3. \A u \in Tasks : task[u].pc \in {"write", "failed", "dead"} => task'[u].pc \in {"write", "failed", "dead"}
    BY <1>1, <1>5
  <2> QED
    BY <1>1, <1>2, <2>1, <2>2, <2>3 DEF IsWhole
<1> QED
  BY <1>1, <1>2, <1>6, <1>7, <1>8 DEF Agreed, Kept

----------------------------------------------------------------------------

\* Whoever has checked or truncated the file that w writes to is marked.
LEMMA DisturbedIsMarked ==
    ASSUME task \in [Tasks -> Held], history \in Ghosts, NEW w, NEW f \in Files
    PROVE  /\ Disturbed(w, f) \in Ghosts
           /\ Disturbed(w, f).wrote = history.wrote /\ Disturbed(w, f).over = history.over
           /\ history.mixed \subseteq Disturbed(w, f).mixed
           /\ \A u \in Tasks : history.raced[u] => Disturbed(w, f).raced[u]
           /\ \A u \in Tasks \ {w} :
                /\ F(u) = f /\ task[u].pc = "open" => Disturbed(w, f).raced[u]
                /\ F(u) = f /\ task[u].pc = "write" => f \in Disturbed(w, f).mixed
<1> DEFINE Others(pc) == {u \in Tasks \ {w} : At(u, pc) /\ F(u) = f}
<1> DEFINE raced == [u \in Tasks |-> history.raced[u] \/ u \in Others("open")]
<1> DEFINE mixed == IF Others("write") # {} THEN history.mixed \cup {f} ELSE history.mixed
<1>1. Disturbed(w, f) = [history EXCEPT !.raced = raced, !.mixed = mixed]
  BY DEF Disturbed
<1>2. raced \in [Tasks -> BOOLEAN]
  BY DEF Ghosts
<1>3. mixed \subseteq Files /\ history.mixed \subseteq mixed
  BY DEF Ghosts
<1>4. \A u \in Tasks : history.raced[u] => raced[u]
  OBVIOUS
<1>5. \A u \in Tasks \ {w} :
        /\ F(u) = f /\ task[u].pc = "open" => raced[u]
        /\ F(u) = f /\ task[u].pc = "write" => f \in mixed
  BY DEF At
<1> HIDE DEF raced, mixed
<1> QED
  BY <1>1, <1>2, <1>3, <1>4, <1>5 DEF Ghosts

\* A file gets another content, by a run w or by the editor.
LEMMA WriterKeepsAgreed ==
    ASSUME Accepted, Agreed, Bounded', folder' = folder, history' \in Ghosts,
           NEW w \in Tasks \cup {None}, NEW f \in Files, NEW content \in Seq(Text), file' = [file EXCEPT ![f] = content],
           history'.raced = Disturbed(w, f).raced, history'.mixed = Disturbed(w, f).mixed,
           \A u \in Tasks \ {w} :
                /\ task'[u] = task[u]
                /\ history'.wrote[u] = history.wrote[u] /\ history'.over[u] = history.over[u],
           w \in Tasks => F(w) = f /\ Tells(task'[w], folder[w], history'.wrote[w]) /\ KnowsItsBase(w)',
           Len(content) <= 2, Len(content) > 1 => f \in history.mixed,
           content = << >> => w \in Tasks /\ task'[w].pc = "write" /\ history'.wrote[w]
    PROVE  Agreed'
<1>1. /\ \A u \in Tasks : history.raced[u] => history'.raced[u]
      /\ history.mixed \subseteq history'.mixed
      /\ \A u \in Tasks \ {w} :
           /\ F(u) = f /\ task[u].pc = "open" => history'.raced[u]
           /\ F(u) = f /\ task[u].pc = "write" => f \in history'.mixed
  BY DisturbedIsMarked DEF Accepted, Typed, Agreed, Kept
<1>2. content # None /\ file'[f] = content /\ \A g \in Files \ {f} : file'[g] = file[g]
  BY CoreTasksAssumption DEF Accepted, Typed
<1>3. AllTell'
  <2> SUFFICES ASSUME NEW u \in Tasks
               PROVE  Tells(task'[u], folder[u], history'.wrote[u])
    BY DEF AllTell, Tells
  <2>1. Tells(task[u], folder[u], history.wrote[u])
    BY DEF Agreed, AllTell
  <2> QED
    BY <2>1
<1>4. BasesAreKnown'
  <2> SUFFICES ASSUME NEW u \in Tasks, u # w
               PROVE  KnowsItsBase(u)'
    BY DEF BasesAreKnown
  <2>1. KnowsItsBase(u) /\ (task[u].pc \in {"apply", "open", "write"} => F(u) \in Files)
    BY DEF Agreed, BasesAreKnown, Accepted, TargetsExist
  <2>2. CASE F(u) = f
    BY <1>1, <1>2, <2>1, <2>2 DEF KnowsItsBase, F
  <2>3. CASE F(u) # f
    BY <1>1, <1>2, <2>1, <2>3 DEF KnowsItsBase, F
  <2> QED
    BY <2>2, <2>3
<1>5. AreWhole'
  <2> SUFFICES ASSUME NEW g \in Files
               PROVE  IsWhole(g)'
    BY DEF AreWhole
  <2>1. CASE g = f
    BY <1>1, <1>2, <2>1 DEF IsWhole, Writer, F
  <2>2. CASE g # f
    <3>1. IsWhole(g) /\ file'[g] = file[g]
      BY <1>2, <2>2 DEF Agreed, AreWhole
    <3>2. \A u \in Tasks : Writer(u, g)' => u # w
      BY <2>2 DEF Writer, F
    <3>3. \A u \in Tasks \ {w} : Writer(u, g)' = Writer(u, g) /\ task'[u].pc = task[u].pc
      BY DEF Writer, F
    <3>4. \A u \in Tasks : Writer(u, g) => u # w
      BY <2>2 DEF Writer
    <3> QED
      BY <1>1, <3>1, <3>2, <3>3, <3>4 DEF IsWhole
  <2> QED
    BY <2>1, <2>2
<1> QED
  BY <1>3, <1>4, <1>5 DEF Agreed, Kept

LEMMA EditKeepsAgreed ==
    ASSUME Accepted, Agreed, NEW f \in Files, NEW kind \in Kinds, Edit(f, kind)
    PROVE  Agreed'
<1> DEFINE content == <<[by |-> "editor", kind |-> kind]>>
<1>1. /\ file' = [file EXCEPT ![f] = content] /\ task' = task /\ folder' = folder
      /\ history' = Disturbed(None, f) /\ None \notin Tasks
  BY CoreTasksAssumption DEF Edit
<1>2. content \in Seq(Text) /\ Len(content) = 1 /\ content # << >>
  <2>1. [by |-> "editor", kind |-> kind] \in Text
    BY DEF Text
  <2> QED
    BY <2>1
<1>3. Bounded'
  BY CoreTasksAssumption DEF Edit, Agreed, Bounded
<1>4. history' \in Ghosts /\ history'.wrote = history.wrote /\ history'.over = history.over
  BY <1>1, DisturbedIsMarked DEF Accepted, Typed, Agreed, Kept
<1> HIDE DEF content
<1>5. \A u \in Tasks \ {None} :
         /\ task'[u] = task[u]
         /\ history'.wrote[u] = history.wrote[u] /\ history'.over[u] = history.over[u]
  BY <1>1, <1>4
<1>6. history'.raced = Disturbed(None, f).raced /\ history'.mixed = Disturbed(None, f).mixed
  BY <1>1
<1>7. None \in Tasks \cup {None} /\ Len(content) <= 2 /\ ~(Len(content) > 1)
  BY <1>2
<1>8. folder' = folder /\ file' = [file EXCEPT ![f] = content] /\ None \notin Tasks
  BY <1>1
<1> QED
  BY <1>2, <1>3, <1>4, <1>5, <1>6, <1>7, <1>8, WriterKeepsAgreed

LEMMA TruncateKeepsAgreed ==
    ASSUME Accepted, Agreed, NEW t \in Tasks, Truncate(t)
    PROVE  Agreed'
<1>1. /\ task[t] \in Held /\ task[t].pc = "open" /\ Tells(task[t], folder[t], history.wrote[t]) /\ KnowsItsBase(t)
      /\ task \in [Tasks -> Held] /\ history \in Ghosts /\ F(t) \in Files /\ file \in [Files -> Content]
  BY DEF Accepted, Typed, TargetsExist, Agreed, Kept, AllTell, BasesAreKnown, Truncate, At
<1>2. /\ file' = [file EXCEPT ![F(t)] = << >>] /\ folder' = folder /\ Bounded'
      /\ history' = [Disturbed(t, F(t)) EXCEPT !.wrote[t] = TRUE, !.over[t] = file[F(t)]]
  BY DEF Truncate, Agreed, Bounded
<1>3. /\ history' \in Ghosts /\ history'.wrote[t] = TRUE /\ history'.over[t] = file[F(t)]
      /\ history'.raced = Disturbed(t, F(t)).raced /\ history'.mixed = Disturbed(t, F(t)).mixed
      /\ \A u \in Tasks \ {t} : history'.wrote[u] = history.wrote[u] /\ history'.over[u] = history.over[u]
      /\ history.raced[t] => history'.raced[t]
  <2>1. file[F(t)] \in Content
    BY <1>1
  <2>2. /\ Disturbed(t, F(t)) \in Ghosts
        /\ Disturbed(t, F(t)).wrote = history.wrote /\ Disturbed(t, F(t)).over = history.over
        /\ history.raced[t] => Disturbed(t, F(t)).raced[t]
    BY <1>1, DisturbedIsMarked
  <2> QED
    BY <1>1, <1>2, <2>1, <2>2 DEF Ghosts
<1>4. /\ \A u \in Tasks \ {t} : task'[u] = task[u]
      /\ task'[t].pc = "write" /\ task'[t].failure = task[t].failure /\ task'[t].plugin = task[t].plugin
      /\ task'[t].round = task[t].round /\ task'[t].attempt = task[t].attempt /\ task'[t].base = task[t].base
      /\ task'[t].code = task[t].code
  BY <1>1 DEF Truncate, Go, Held
<1>5. task[t].code \in Kinds
  BY <1>1 DEF Accepted, AcceptedIsHeld, Patching
<1>6. Tells(task'[t], folder[t], history'.wrote[t])
  BY <1>1, <1>3, <1>4, <1>5 DEF Tells, Ends
<1>7. KnowsItsBase(t)'
  BY <1>1, <1>2, <1>3, <1>4 DEF KnowsItsBase, F
<1> DEFINE content == << >>
<1>8. content \in Seq(Text) /\ Len(content) = 0
  OBVIOUS
<1>9. file' = [file EXCEPT ![F(t)] = content]
  BY <1>2
<1> HIDE DEF content
<1>10. \A u \in Tasks \ {t} :
         /\ task'[u] = task[u]
         /\ history'.wrote[u] = history.wrote[u] /\ history'.over[u] = history.over[u]
  BY <1>3, <1>4
<1>11. history'.raced = Disturbed(t, F(t)).raced /\ history'.mixed = Disturbed(t, F(t)).mixed
  BY <1>3
<1>12. t \in Tasks \cup {None} /\ folder' = folder /\ Bounded' /\ F(t) \in Files
  BY <1>1, <1>2
<1>13. file' = [file EXCEPT ![F(t)] = content] /\ content \in Seq(Text) /\ Len(content) <= 2
  BY <1>8, <1>9
<1>14. /\ Len(content) > 1 => F(t) \in history.mixed
       /\ content = << >> => t \in Tasks /\ task'[t].pc = "write" /\ history'.wrote[t]
  BY <1>3, <1>4, <1>8
<1>15. t \in Tasks => F(t) = F(t) /\ Tells(task'[t], folder[t], history'.wrote[t]) /\ KnowsItsBase(t)'
  BY <1>6, <1>7
<1>16. history' \in Ghosts
  BY <1>3
<1> QED
  BY <1>10, <1>11, <1>12, <1>13, <1>14, <1>15, <1>16, WriterKeepsAgreed

LEMMA WriteKeepsAgreed ==
    ASSUME Accepted, Agreed, NEW t \in Tasks, Write(t)
    PROVE  Agreed'
<1>1. /\ task[t] \in Held /\ task[t].pc = "write" /\ Tells(task[t], folder[t], history.wrote[t]) /\ KnowsItsBase(t)
      /\ task \in [Tasks -> Held] /\ history \in Ghosts /\ F(t) \in Files /\ file[F(t)] \in Seq(Text)
  BY DEF Accepted, Typed, TargetsExist, Agreed, Kept, AllTell, BasesAreKnown, Write, At, Content
<1> DEFINE content == Over([by |-> t, kind |-> task[t].code], file[F(t)])
<1>2. file' = [file EXCEPT ![F(t)] = content] /\ folder' = folder /\ Bounded' /\ history' = Disturbed(t, F(t))
  BY DEF Write, Agreed, Bounded
<1>3. [by |-> t, kind |-> task[t].code] \in Text
  BY <1>1 DEF Tells, Text
<1>4. /\ content \in Seq(Text) /\ Len(content) <= 2 /\ content # << >>
      /\ Len(content) > 1 => file[F(t)] # << >>
  <2>1. content \in Seq(Text)
    BY <1>1, <1>3, OverIsOldAndNew
  <2> QED
    BY <2>1 DEF Over
<1>5. /\ \A u \in Tasks \ {t} : task'[u] = task[u]
      /\ task'[t].pc = "keep" /\ task'[t].failure = task[t].failure /\ task'[t].plugin = task[t].plugin
      /\ task'[t].round = task[t].round /\ task'[t].attempt = task[t].attempt /\ task'[t].base = task[t].base
      /\ task'[t].code = task[t].code
  BY <1>1 DEF Write, Go, Held
<1>6. /\ history' \in Ghosts /\ history'.wrote = history.wrote /\ history'.over = history.over
      /\ history.raced[t] => history'.raced[t]
  BY <1>1, <1>2, DisturbedIsMarked
<1>7. Tells(task'[t], folder[t], history'.wrote[t])
  BY <1>1, <1>5, <1>6 DEF Tells, Ends
<1>8. KnowsItsBase(t)'
  BY <1>1, <1>5, <1>6 DEF KnowsItsBase, F
<1>9. Len(content) > 1 => F(t) \in history.mixed
  BY <1>1, <1>4 DEF KnowsItsBase
<1> HIDE DEF content
<1>10. \A u \in Tasks \ {t} :
         /\ task'[u] = task[u]
         /\ history'.wrote[u] = history.wrote[u] /\ history'.over[u] = history.over[u]
  BY <1>5, <1>6
<1>11. history'.raced = Disturbed(t, F(t)).raced /\ history'.mixed = Disturbed(t, F(t)).mixed
  BY <1>2
<1>12. t \in Tasks \cup {None} /\ folder' = folder /\ Bounded' /\ F(t) \in Files
  BY <1>1, <1>2
<1>13. file' = [file EXCEPT ![F(t)] = content] /\ content \in Seq(Text) /\ Len(content) <= 2
  BY <1>2, <1>4, Zenon
<1>14. /\ Len(content) > 1 => F(t) \in history.mixed
       /\ content = << >> => t \in Tasks /\ task'[t].pc = "write" /\ history'.wrote[t]
  BY <1>4, <1>9
<1>15. t \in Tasks => F(t) = F(t) /\ Tells(task'[t], folder[t], history'.wrote[t]) /\ KnowsItsBase(t)'
  BY <1>7, <1>8
<1>16. history' \in Ghosts
  BY <1>6
<1> QED
  BY <1>10, <1>11, <1>12, <1>13, <1>14, <1>15, <1>16, WriterKeepsAgreed

LEMMA EveryStepKeepsAgreed ==
    ASSUME Accepted, Agreed, [Next]_vars
    PROVE  Agreed'
<1>1. CASE UNCHANGED vars
  BY <1>1 DEF vars, Agreed, Kept, AllTell, Tells, BasesAreKnown, KnowsItsBase, AreWhole, IsWhole, Writer, Bounded, F
<1>2. ASSUME NEW t \in Tasks, AttemptFails(t) \/ LogFails(t)
      PROVE  Agreed'
  <2>1. At(t, "ask") /\ AnotherAttempt(t) /\ UNCHANGED <<folder, file, history>>
    BY <1>2 DEF AttemptFails, LogFails
  <2>2. Bounded'
    BY <1>2, CoreTasksAssumption DEF AttemptFails, LogFails, Fault, Agreed, Bounded
  <2> QED
    BY <2>1, <2>2, AttemptKeepsAgreed
<1>3. ASSUME NEW t \in Tasks, NoCode(t) \/ PatchError(t) \/ DiskError(t) \/ Die(t)
      PROVE  Agreed'
  <2>1. UNCHANGED <<folder, file, history>> /\ ~Ended(t)
    BY <1>3 DEF NoCode, PatchError, DiskError, Die, At, Ended, Ends
  <2>2. Bounded'
    BY <1>3, CoreTasksAssumption DEF NoCode, PatchError, DiskError, Die, Fault, Agreed, Bounded
  <2>3. CASE NoCode(t)
    BY <2>1, <2>2, <2>3, EndKeepsAgreed DEF NoCode, At, Modes
  <2>4. CASE PatchError(t)
    BY <2>1, <2>2, <2>4, EndKeepsAgreed DEF PatchError, Modes
  <2>5. CASE DiskError(t)
    BY <2>1, <2>2, <2>5, EndKeepsAgreed DEF DiskError, At
  <2>6. CASE Die(t)
    BY <2>1, <2>2, <2>6, EndKeepsAgreed DEF Die
  <2> QED
    BY <1>3, <2>3, <2>4, <2>5, <2>6
<1> QED
  BY <1>1, <1>2, <1>3, PrepareKeepsAgreed, SnapshotFailsKeepsAgreed, LoadKeepsAgreed, KeepKeepsAgreed, AnswerKeepsAgreed,
     JudgeKeepsAgreed, CreateKeepsAgreed, ApplyKeepsAgreed, TruncateKeepsAgreed, WriteKeepsAgreed, EditKeepsAgreed
  DEF Next, Step, Finished

\* At first a file is missing, empty, or one text.
LEMMA FirstIsAgreed ==
    ASSUME Init
    PROVE  Agreed
<1>1. /\ \A t \in Tasks : \E plugin \in Plugins : task[t] = Fresh(plugin)
      /\ folder = [t \in Tasks |-> [patch |-> None, audit |-> None]]
      /\ history = [wrote |-> [t \in Tasks |-> FALSE], over |-> [t \in Tasks |-> None],
                    raced |-> [t \in Tasks |-> FALSE], mixed |-> {}]
      /\ faults = 0 /\ edits = 0
  BY DEF Init
<1>2. 0 < Iterations /\ 0 < Retries /\ 0 <= MaxFaults /\ 0 <= MaxEdits
  BY CoreTasksAssumption
<1>3. Kept
  BY <1>1 DEF Kept, Folder, Ghosts, Content
<1> DEFINE fresh(t) ==
       /\ task[t].pc = "start" /\ task[t].round = 0 /\ task[t].attempt = 0 /\ task[t].failure = None
       /\ folder[t].patch = None /\ folder[t].audit = None /\ ~history.wrote[t]
<1>8. \A t \in Tasks : fresh(t)
  <2>1. ASSUME NEW t \in Tasks
        PROVE  task[t].pc = "start" /\ task[t].round = 0 /\ task[t].attempt = 0 /\ task[t].failure = None
    <3>1. PICK plugin : task[t] = Fresh(plugin)
      BY <1>1
    <3> QED
      BY <3>1 DEF Fresh
  <2>2. ASSUME NEW t \in Tasks
        PROVE  folder[t].patch = None /\ folder[t].audit = None
    BY <1>1
  <2>3. history.wrote = [t \in Tasks |-> FALSE]
    BY <1>1
  <2>4. ASSUME NEW t \in Tasks
        PROVE  history.wrote[t] = FALSE
    BY <2>3
  <2> QED
    BY <2>1, <2>2, <2>4
<1>9. None # "success"
  BY CoreTasksAssumption
<1>4. AllTell
  BY <1>2, <1>8, <1>9 DEF AllTell, Tells
<1>5. BasesAreKnown
  BY <1>8 DEF BasesAreKnown, KnowsItsBase
<1>6. AreWhole
  <2> SUFFICES ASSUME NEW f \in Files, file[f] # None
               PROVE  IsWhole(f)
    BY DEF AreWhole, IsWhole
  <2>1. \A t \in Tasks : ~Writer(t, f)
    BY <1>1 DEF Writer
  <2>2. file[f] = << >> \/ \E k \in Kinds : file[f] = <<[by |-> "editor", kind |-> k]>>
    BY DEF Init
  <2>3. Len(file[f]) <= 1
    <3>1. CASE file[f] = << >>
      BY <3>1
    <3>2. ASSUME NEW k \in Kinds, file[f] = <<[by |-> "editor", kind |-> k]>>
          PROVE  Len(file[f]) <= 1
      BY <3>2
    <3> QED
      BY <2>2, <3>1, <3>2
  <2> QED
    BY <2>1, <2>3 DEF IsWhole
<1>7. Bounded
  BY <1>1, CoreTasksAssumption DEF Bounded
<1> QED
  BY <1>3, <1>4, <1>5, <1>6, <1>7 DEF Agreed

LEMMA AgreedIsTrue ==
    ASSUME Accepted, Agreed
    PROVE  RunsAndFilesAgree
<1>1. \A t \in Tasks : Tells(task[t], folder[t], history.wrote[t]) /\ task[t] \in Held /\ KnowsItsBase(t)
  BY DEF Accepted, Typed, Agreed, AllTell, BasesAreKnown
<1>2. \A f \in Files : IsWhole(f) /\ file[f] \in Content
  BY DEF Accepted, Typed, Agreed, AreWhole
<1>3. TypeOK
  <2>1. ASSUME NEW f \in Files, file[f] # None
        PROVE  Len(file[f]) <= 2 /\ \A i \in 1 .. Len(file[f]) : file[f][i] \in Text
    BY <1>2, <2>1 DEF IsWhole, Content
  <2>2. ASSUME NEW t \in Tasks
        PROVE  /\ task[t].pc \in Stages
               /\ task[t].round < Iterations /\ task[t].attempt < Retries
               /\ task[t].code \in Kinds \cup {None} /\ folder[t].patch \in {None, task[t].code}
               /\ task[t].failure \in Modes \cup {None}
               /\ At(t, "failed") = (task[t].failure # None)
    BY <1>1 DEF Tells, Held, At
  <2> QED
    BY <2>1, <2>2 DEF TypeOK, Stages, Agreed, Bounded
<1>4. OutcomesAreTrue
  <2>1. ASSUME NEW t \in Tasks, task[t].plugin = "none"
        PROVE  /\ folder[t].audit = "success" => history.wrote[t] /\ folder[t].patch = task[t].code /\ task[t].code # None
               /\ At(t, "success") => folder[t].audit = "success"
               /\ At(t, "failed") /\ history.wrote[t] => task[t].failure = "io_error"
    BY <1>1, <2>1, CoreTasksAssumption DEF Tells, At
  <2> QED
    BY <2>1 DEF OutcomesAreTrue
<1>5. OnlyWhatWasReadIsOverwritten
  BY <1>1 DEF KnowsItsBase, OnlyWhatWasReadIsOverwritten
<1>6. FilesAreWhole
  BY <1>2 DEF IsWhole, Writer, FilesAreWhole
<1> QED
  BY <1>3, <1>4, <1>5, <1>6 DEF RunsAndFilesAgree

\* Whatever the model answers, whoever else writes to the files, and whatever
\* fails or dies: the record, the folder and the files of a run agree.
THEOREM TrueOutcomes == Spec => []RunsAndFilesAgree
<1>1. Init => Accepted /\ Agreed
  BY FirstIsAccepted, FirstIsAgreed
<1>2. Accepted /\ Agreed /\ [Next]_vars => Accepted' /\ Agreed'
  BY StepKeepsAccepted, EveryStepKeepsAgreed
<1>3. Accepted /\ Agreed => RunsAndFilesAgree
  BY AgreedIsTrue
<1> QED
  BY <1>1, <1>2, <1>3, PTL DEF Spec
=============================================================================
