SPECIFICATION Spec
CONSTANTS
    a1 = a1
    a2 = a2
    s1 = s1
    e1 = e1
    e2 = e2
    Artefacts = {a1, a2}
    Free = Free
    Gone = Gone
    Mailboxes = {"refresh", "summary"}
    SummaryWorkers = {s1}
    EmbeddingWorkers = {e1}
    BatchSize = 1
    RetryLimit = 2
    MaxEnqueues = 2
    MaxUpsets = 1
INVARIANTS
    NoWorkLost
    RebuildOwed
SYMMETRY ArtefactSymmetry
CHECK_DEADLOCK FALSE
