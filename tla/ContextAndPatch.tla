--------------------------- MODULE ContextAndPatch ---------------------------
(***************************************************************************)
(* What the earlier orchestrator in core/ shows to the model and what it    *)
(* makes of the answer: the files of a task (context_manager.py) and the    *)
(* patched file (patcher.py).                                               *)
(***************************************************************************)
EXTENDS Integers, Sequences, FiniteSets, Sorting, Sums, Samples

(* Context.  A file is [module, imported, pattern, flask, used, lines,      *)
(* snippet, imports, path]; its snippet is the number of lines of its top   *)
(* level definitions (of the whole text when there are none), and paths are *)
(* numbers in the order of the names.                                       *)
FileScore(task, file) ==
  LET points(holds, n) == IF holds THEN n ELSE 0
  IN  points(file.module = task, 5) + points(file.imported, 4) + points(file.pattern, 2)
        + points(file.flask, 6) + points(file.used, 1)

\* _sort_key: the score descending, then size, imports and path.
SortKey(task, f) == <<-FileScore(task, f), f.lines, f.imports, f.path>>
ComesFirst(task, a, b) ==
  LET x == SortKey(task, a)
      y == SortKey(task, b)
  IN  \E i \in 1..4 : x[i] < y[i] /\ \A j \in 1..(i - 1) : x[j] = y[j]

SelectFiles(task, files, maxFiles) ==
  LET places == DOMAIN files
      before == {p \in places \X places : ComesFirst(task, files[p[1]], files[p[2]])}
      ranked == StablySorted(files, before)
  IN  SubSeq(ranked, 1, IF Len(ranked) < maxFiles THEN Len(ranked) ELSE maxFiles)

\* The lines of a file that are worth showing.
SnippetSize(f) == IF f.flask THEN f.lines ELSE f.snippet

\* Mutant: every file is cut to the whole budget.
TakeSnippetUpTo(taken, f, budget) ==
  LET allowed == IF SnippetSize(f) < budget THEN SnippetSize(f) ELSE budget
  IN  IF taken.total >= budget THEN taken
      ELSE [shown |-> Append(taken.shown, [path |-> f.path, lines |-> allowed]),
            total |-> taken.total + allowed]

\* No file is opened once the budget is spent, but the last one may be cut in
\* the middle.
TakeSnippet(taken, f, budget) ==
  LET left == budget - taken.total
      allowed == IF SnippetSize(f) < left THEN SnippetSize(f) ELSE left
  IN  IF taken.total >= budget THEN taken
      ELSE [shown |-> Append(taken.shown, [path |-> f.path, lines |-> allowed]),
            total |-> taken.total + allowed]

\* The number of lines taken of each selected file.
LoadSnippets(selected, budget) ==
  LET taken[n \in 0 .. Len(selected)] ==
        IF n = 0 THEN [shown |-> <<>>, total |-> 0]
        ELSE TakeSnippet(taken[n - 1], selected[n], budget)
  IN  taken[Len(selected)].shown

(* Patching.  A source says whether it parses and has the sequence of its   *)
(* top level nodes; a class is a node whose body is such a sequence, and a  *)
(* node is [kind, name, body].                                              *)
Defines(node, def) == node.kind = "def" /\ node.name = def.name
ReplaceDef(nodes, def) ==
  IF \E i \in DOMAIN nodes : Defines(nodes[i], def)
  THEN [i \in DOMAIN nodes |-> IF Defines(nodes[i], def) THEN def ELSE nodes[i]]
  ELSE Append(nodes, def)

\* Mode FUNCTION: every top level function of the name, or a new one at the end.
\* A file that cannot be parsed is written back as it was, and the patch is lost.
ReplaceFunction(source, def) ==
  IF source.parses THEN [source EXCEPT !.nodes = ReplaceDef(@, def)] ELSE source

ReplaceInClasses(nodes, class, def) ==
  [i \in DOMAIN nodes |->
     IF nodes[i].kind = "class" /\ nodes[i].name = class
     THEN [nodes[i] EXCEPT !.body = ReplaceDef(nodes[i].body, def)] ELSE nodes[i]]

\* Mode CLASS_METHOD: in every top level class of the name; without one the
\* file keeps its nodes and the method is lost.
ReplaceMethod(source, class, def) ==
  IF source.parses THEN [source EXCEPT !.nodes = ReplaceInClasses(@, class, def)] ELSE source

-----------------------------------------------------------------------------
(* What the model is shown, and what it may change.                         *)

\* The files selected are the same in whatever order they are found, and no
\* other one has a higher score.
Rearranged(files) ==
  {[i \in DOMAIN files |-> files[at[i]]] :
     at \in {at \in [DOMAIN files -> DOMAIN files] :
               \A i, j \in DOMAIN files : at[i] = at[j] => i = j}}
TheBestAreChosen(task, files, maxFiles) ==
  LET chosen == SelectFiles(task, files, maxFiles)
  IN  /\ \A others \in Rearranged(files) : SelectFiles(task, others, maxFiles) = chosen
      /\ Len(chosen) <= maxFiles
      /\ \A i \in DOMAIN files :
           \/ \E k \in DOMAIN chosen : chosen[k] = files[i]
           \/ /\ Len(chosen) = maxFiles
              /\ \A k \in DOMAIN chosen : FileScore(task, files[i]) <= FileScore(task, chosen[k])

\* The selected files are shown in their order until the budget is spent: only
\* the last one shown may be cut, and it is if all of it does not fit.
SnippetsFitTheBudget(chosen, budget) ==
  LET shown == LoadSnippets(chosen, budget)
      wanted == Sums([i \in DOMAIN chosen |-> SnippetSize(chosen[i])])
      got == Sums([i \in DOMAIN shown |-> shown[i].lines])
  IN  /\ Len(shown) <= Len(chosen)
      /\ \A i \in DOMAIN shown :
           /\ shown[i].path = chosen[i].path
           /\ got[i] = IF wanted[i] < budget THEN wanted[i] ELSE budget
           /\ i < Len(shown) => wanted[i] < budget
      /\ Len(shown) < Len(chosen) => got[Len(shown)] = budget

\* A patch leaves no old copy of its definition and everything else as it was
\* and where it was.
IsPatched(after, before, def) ==
  /\ \E i \in DOMAIN after : after[i] = def
  /\ \A i \in DOMAIN after : Defines(after[i], def) => after[i] = def
  /\ DOMAIN before \subseteq DOMAIN after
  /\ \A i \in DOMAIN after :
       IF i \in DOMAIN before THEN ~Defines(before[i], def) => after[i] = before[i]
       ELSE \A j \in DOMAIN before : ~Defines(before[j], def)

\* A method goes into the classes of the name and nowhere else.
ClassesArePatched(after, before, class, def) ==
  /\ DOMAIN after = DOMAIN before
  /\ \A i \in DOMAIN before :
       IF before[i].kind = "class" /\ before[i].name = class
       THEN /\ IsPatched(after[i].body, before[i].body, def)
            /\ after[i].kind = "class" /\ after[i].name = class
       ELSE after[i] = before[i]

\* A file that can be parsed is patched, another one is not touched, and applying
\* the patch again changes nothing.
PatchesAreIdempotent(source, class, def) ==
  LET patched == ReplaceFunction(source, def)
      methods == ReplaceMethod(source, class, def)
  IN  /\ ReplaceFunction(patched, def) = patched
      /\ ReplaceMethod(methods, class, def) = methods
      /\ IF source.parses
         THEN /\ IsPatched(patched.nodes, source.nodes, def)
              /\ ClassesArePatched(methods.nodes, source.nodes, class, def)
         ELSE patched = source /\ methods = source

\* The earlier orchestrator, for the files of a task, its limits, and the answer to
\* it.  The best files are shown, the same ones in whatever order they are found,
\* within the budget, and only the last of them is cut.  A patch of a file that can
\* be parsed leaves no old copy of its definition and everything else as it was and
\* where it was, and applying it again changes nothing.
ContextAndPatchHold ==
  Drawn("answer") =>
    LET limits == sample.of.limits
        chosen == SelectFiles(sample.of.task, sample.of.files, limits.files)
        answer == sample.of.answer
    IN  /\ TheBestAreChosen(sample.of.task, sample.of.files, limits.files)
        /\ SnippetsFitTheBudget(chosen, limits.lines)
        /\ PatchesAreIdempotent(answer.source, answer.class, answer.def)
=============================================================================
