SPECIFICATION Spec
CONSTANTS
    None = None
    t1 = t1
    t2 = t2
    f1 = f1
    Tasks = {t1, t2}
    Files = {f1}
    Target <- MCTarget
    Type <- MCType
    Metas <- MCMetas
    Plugins = {"none", "error", "empty", "subtasks"}
    Kinds <- MCKinds
    Kind <- MCKind
    Rules <- MCRules
    Retries = 2
    Iterations = 2
    MaxEdits = 1
    MaxFaults = 1
INVARIANTS OnlyAcceptedCodeIsWritten RunsAndFilesAgree
PROPERTY EveryRunEnds
