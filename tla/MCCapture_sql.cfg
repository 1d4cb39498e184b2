\* Two deliveries to one inbox, SQL store: failing calls and restarts.
CONSTANTS
    Hooks = {h1, h2}
    Inboxes = {a}
    NoInbox = NoInbox
    Backend = "sql"
SYMMETRY Interchangeable
SPECIFICATION Spec
INVARIANTS
    TypeOK
    StoredWasActive
    RefusalWasTrue
    StatusTellsStored
    ObservationAgrees
PROPERTIES
    AnswerComesLast
    ImplementsContract
CHECK_DEADLOCK FALSE
