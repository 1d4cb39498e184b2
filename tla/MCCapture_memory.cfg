\* Two deliveries to one inbox on the in-memory store, under fairness.
CONSTANTS
    Hooks = {h1, h2}
    Inboxes = {a}
    NoInbox = NoInbox
    Backend = "memory"
SPECIFICATION FairSpec
INVARIANTS
    MemoryCountsEveryHook
PROPERTIES
    HookEnds
CHECK_DEADLOCK FALSE
