---------------------------- MODULE MCCoreTasks ----------------------------
EXTENDS CoreTasks

CONSTANTS t1, t2, f1

MCTarget == [t \in Tasks |-> f1]
MCType == t1 :> "codegen.file" @@ t2 :> "patch.fix_bug"
MCMetas == t1 :> {f1} @@ t2 :> {}
MCKinds == {"function", "classes"}
MCKind == [
    function |-> [size |-> 1, parses |-> TRUE, classes |-> 0, functions |-> 1, dynamic |-> FALSE],
    classes |-> [size |-> 2, parses |-> TRUE, classes |-> 2, functions |-> 0, dynamic |-> FALSE]]
MCRules == [classes |-> 1, functions |-> None, one |-> FALSE]
=============================================================================
