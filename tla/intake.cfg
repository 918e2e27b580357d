SPECIFICATION MCSpec
CONSTANTS
    Chats = {c1}
    Threads = {main}
    Home = home
    Repos = {home, made}
    MAX_ROUNDS = 1
    Plans <- MCPlans
    Messages = 2
    Edits = 1
    EditKinds = {"add", "prune", "break"}
    MayLackContent = FALSE
    None = None
    Unparsable = Unparsable
    Suppliers = {run1}
    ListFails = FALSE
    ListLimit = 6
    MaxOpenPrs = 1
    Window = 2
    ItemLabels <- MCItemLabels
    OwnIssues = 1
INVARIANTS BuildOrder FiledOnce
PROPERTIES PlansWhole NothingLost ImportKeeps
CHECK_DEADLOCK FALSE
