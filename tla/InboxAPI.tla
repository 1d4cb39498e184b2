------------------------------- MODULE InboxAPI --------------------------------
(***************************************************************************)
(* What one client of /v1/inboxes is told while others write: it walks     *)
(* through the pages of a list, asks for one request, or patches an inbox. *)
(* Each of these is several store calls, in SQL several statements, and    *)
(* nothing holds the store still between them.                             *)
(*                                                                         *)
(* A row is an inbox of GET /v1/inboxes or a request of one inbox of       *)
(* GET /v1/inboxes/{id}/requests; list says which.  Of the filters only    *)
(* what they leave counts: a row is one that matches.  A row leaves its    *)
(* list by a soft deletion or by a retention run.  Times are half seconds. *)
(***************************************************************************)
EXTENDS TimeText, Sequences, FiniteSets, SequencesExt

CONSTANTS Rows,
          MaxTime,          \* bound of the times of rows
          Lists,            \* subset of {"inboxes", "requests"}
          Backends,         \* the stores buildStore picks from
          Pages, PageSizes, \* what a client may ask for; 0 stands for nothing
          PageSizeCap, DefaultPageSize,
          MaxInt            \* an int is in -MaxInt-1 .. MaxInt

ASSUME InboxAPIAssumption ==
    /\ Lists \subseteq {"inboxes", "requests"}
    /\ Backends \subseteq {"memory", "sql"}
    /\ IsFiniteSet(Rows) /\ Rows \cap {"active", "disabled", "other", "empty", "none"} = {}
    /\ MaxTime \in Nat /\ MaxInt \in Nat \ {0}
    /\ Pages \subseteq 0 .. MaxInt /\ PageSizes \subseteq 0 .. MaxInt
    /\ PageSizeCap \in 1 .. MaxInt /\ DefaultPageSize \in 1 .. PageSizeCap

\* The length of a list and of one more page is in the range of an int.
ASSUME RowsFitInAnInt == Cardinality(Rows) + PageSizeCap <= MaxInt

VARIABLES backend, list,    \* for good
          time,             \* row -> its created_at or received_at
          stored,           \* rows in the list
          gone,             \* rows that were in it
          inbox,            \* [status, disabledAt, deletedAt] of the inbox asked for
          pc,               \* where the client's call is
          page, pageSize, order,
          total, items,     \* of the page's answer
          asked, answer     \* the patch or the request asked for; what PATCH gets

\* Histories of the client's call or walk.
VARIABLES fromStart,        \* the walk began with page 1
          kept,             \* rows stored ever since it began
          seen, served,     \* rows it was given, and how many it was given
          inserted, removed,\* a row came, or left, since it began
          raced,            \* a write between the COUNT and the page of the call
          shown             \* states of the inbox since the patch took effect

rows == <<time, stored, gone>>
query == <<page, pageSize, order>>
result == <<total, items>>
patching == <<asked, answer, shown>>
walk == <<fromStart, kept, seen, served, inserted, removed, raced>>
vars == <<backend, list, rows, inbox, pc, query, result, patching, walk>>

Inbox == [status : {"active", "disabled"}, disabledAt : BOOLEAN, deletedAt : BOOLEAN]
Patches == {"active", "disabled", "other", "empty"}

\* An int after an operation that may overflow.
Wrapped(x) == ((x + MaxInt + 1) % (2 * (MaxInt + 1))) - (MaxInt + 1)

--------------------------------------------------------------------------------
\* Pages.

\* Times in the order of the store: the memory store compares times, the SQL
\* store their texts.
Earlier(a, b) == IF backend = "sql" THEN TextBefore(time[a], time[b]) ELSE time[a] < time[b]

Precedes(a, b) == IF order = "asc" THEN Earlier(a, b) ELSE Earlier(b, a)

\* The orders a list may come in: rows as old as one another in any order, as
\* the sort is not stable and the iteration over a map has no order.
Sorted(S) == {s \in SetToSeqs(S) : \A j, k \in 1 .. Len(s) : j < k => ~ Precedes(s[k], s[j])}

Lesser(a, b) == IF a < b THEN a ELSE b

\* Mutant: pages are counted from 0.
rangeFromPageZero(n) ==
    LET start == Wrapped(page * pageSize)
    IN  [start |-> start, end |-> Lesser(Wrapped(start + pageSize), n)]

\* Mutant: the last row of a page is the first of the next.
rangeFromPageInclusive(n) ==
    LET start == Wrapped((page - 1) * pageSize)
    IN  [start |-> start, end |-> Lesser(Wrapped(start + pageSize + 1), n)]

rangeFromPage(n) ==
    LET start == Wrapped((page - 1) * pageSize)
    IN  [start |-> start, end |-> Lesser(Wrapped(start + pageSize), n)]

\* The page of a sorted list in memory; a negative start makes the slice
\* expression panic.
paginate(s) ==
    LET r == rangeFromPage(Len(s))
    IN  IF r.start >= Len(s) THEN <<>> ELSE SubSeq(s, r.start + 1, r.end)
Panics(n) == rangeFromPage(n).start < 0

\* LIMIT pageSize OFFSET start; SQLite takes a negative offset for 0.
LimitOffset(s) ==
    LET offset == rangeFromPage(Len(s)).start
        from == IF offset < 0 THEN 0 ELSE offset
    IN  IF from >= Len(s) THEN <<>> ELSE SubSeq(s, from + 1, Lesser(from + pageSize, Len(s)))

\* Mutant: the remainder of the division is lost.
totalPagesDown == total \div pageSize

\* buildPaginationMeta
totalPages == (total + pageSize - 1) \div pageSize
hasNext == page < totalPages

--------------------------------------------------------------------------------
\* The others.

UnderWay == pc \in {"lookup", "count", "page", "answered", "fetch", "update", "reread"}
BetweenStatements == backend = "sql" /\ pc = "page"

Insert(r) ==
    /\ r \notin stored \cup gone
    /\ stored' = stored \cup {r}
    /\ inserted' = (inserted \/ UnderWay)
    /\ raced' = (raced \/ BetweenStatements)
    /\ UNCHANGED <<backend, list, time, gone, inbox, pc, query, result, patching,
                   fromStart, kept, seen, served, removed>>

TakeAway(r) ==
    /\ r \in stored
    /\ stored' = stored \ {r}
    /\ gone' = gone \cup {r}
    /\ kept' = IF UnderWay THEN kept \ {r} ELSE kept
    /\ removed' = (removed \/ UnderWay)
    /\ raced' = (raced \/ BetweenStatements)
    /\ UNCHANGED <<backend, list, time, inbox, pc, query, result, patching,
                   fromStart, seen, served, inserted>>

\* Mutant: an inbox that is enabled again keeps its disabled_at.
PatchedKeepsDate(i, p) ==
    CASE p = "active"   -> [i EXCEPT !.status = "active"]
      [] p = "disabled" -> [i EXCEPT !.status = "disabled", !.disabledAt = TRUE]
      [] OTHER          -> i

\* What the SET of UPDATE inboxes makes of a row: a status comes with its date.
Patched(i, p) ==
    CASE p = "active"   -> [i EXCEPT !.status = "active", !.disabledAt = FALSE]
      [] p = "disabled" -> [i EXCEPT !.status = "disabled", !.disabledAt = TRUE]
      [] OTHER          -> i

\* Another client's PATCH takes effect.
PatchByAnother ==
    /\ ~ inbox.deletedAt
    /\ \E p \in {"active", "disabled"} : inbox' = Patched(inbox, p)
    /\ shown' = IF pc = "reread" THEN shown \cup {inbox'} ELSE shown
    /\ UNCHANGED <<backend, list, rows, pc, query, result, asked, answer, walk>>

SoftDeleteInbox ==
    /\ ~ inbox.deletedAt
    /\ inbox' = [inbox EXCEPT !.deletedAt = TRUE]
    /\ UNCHANGED <<backend, list, rows, pc, query, result, patching, walk>>

--------------------------------------------------------------------------------
\* A walk through a list, page after page while has_next is true.

FirstStep == IF list = "requests" THEN "lookup" ELSE IF backend = "sql" THEN "count" ELSE "page"

StartHistory ==
    /\ kept' = stored
    /\ seen' = {}
    /\ served' = 0
    /\ inserted' = FALSE
    /\ removed' = FALSE
    /\ raced' = FALSE

\* readFilter refuses a filter it cannot read, and another field to sort by.
RefuseFilter ==
    /\ pc = "idle" /\ list = "requests"
    /\ pc' = "400"
    /\ UNCHANGED <<backend, list, rows, inbox, query, result, patching, walk>>

\* readPage and readFilter, which lets any order through.
BeginWalk ==
    /\ pc = "idle"
    /\ \E p \in Pages, s \in PageSizes :
          /\ page' = IF p = 0 THEN 1 ELSE p
          /\ pageSize' = IF s = 0 THEN DefaultPageSize ELSE Lesser(s, PageSizeCap)
    /\ order' \in IF list = "requests" THEN {"asc", "desc", "other"} ELSE {"desc"}
    /\ fromStart' = (page' = 1)
    /\ pc' = FirstStep
    /\ StartHistory
    /\ UNCHANGED <<backend, list, rows, inbox, result, patching>>

\* GetInboxByID, the first call of ListRequests and of GetRequestDetails; an
\* order that is none is refused after it.
LookupInbox ==
    /\ pc = "lookup"
    /\ pc' = CASE inbox.deletedAt                      -> "404"
               [] ~ inbox.deletedAt /\ asked \in Rows  -> "fetch"
               [] ~ inbox.deletedAt /\ asked \notin Rows ->
                    IF order = "other" THEN "400" ELSE IF backend = "sql" THEN "count" ELSE "page"
    /\ UNCHANGED <<backend, list, rows, inbox, query, result, patching, walk>>

CountRows ==
    /\ pc = "count"
    /\ total' = Cardinality(stored)
    /\ raced' = FALSE
    /\ pc' = "page"
    /\ UNCHANGED <<backend, list, rows, inbox, query, items, patching,
                   fromStart, kept, seen, served, inserted, removed>>

Give(s) ==
    /\ items' = s
    /\ seen' = seen \cup ToSet(s)
    /\ served' = served + Len(s)
    /\ pc' = "answered"

\* In memory the total and the page are of one moment.
ListInMemory ==
    /\ pc = "page" /\ backend = "memory"
    /\ ~ Panics(Cardinality(stored))
    /\ \E s \in Sorted(stored) : Give(paginate(s))
    /\ total' = Cardinality(stored)
    /\ UNCHANGED <<backend, list, rows, inbox, query, patching,
                   fromStart, kept, inserted, removed, raced>>

ListPanics ==
    /\ pc = "page" /\ backend = "memory"
    /\ Panics(Cardinality(stored))
    /\ pc' = "panicked"
    /\ UNCHANGED <<backend, list, rows, inbox, query, result, patching, walk>>

SelectPage ==
    /\ pc = "page" /\ backend = "sql"
    /\ \E s \in Sorted(stored) : Give(LimitOffset(s))
    /\ UNCHANGED <<backend, list, rows, inbox, query, total, patching,
                   fromStart, kept, inserted, removed, raced>>

\* The client has the page and asks for the next one if it is told of one.
NextPage ==
    /\ pc = "answered" /\ hasNext
    /\ page' = page + 1
    /\ pc' = FirstStep
    /\ items' = <<>>
    /\ total' = 0
    /\ raced' = FALSE
    /\ UNCHANGED <<backend, list, rows, inbox, pageSize, order, patching,
                   fromStart, kept, seen, served, inserted, removed>>

EndOfWalk ==
    /\ pc = "answered" /\ ~ hasNext
    /\ pc' = "done"
    /\ items' = <<>>
    /\ total' = 0
    /\ UNCHANGED <<backend, list, rows, inbox, query, patching, walk>>

--------------------------------------------------------------------------------
\* One request with its inbox.

BeginDetails ==
    /\ pc = "idle" /\ list = "requests"
    /\ asked' \in Rows
    /\ pc' = "lookup"
    /\ StartHistory
    /\ UNCHANGED <<backend, list, rows, inbox, query, result, answer, shown, fromStart>>

GetCapturedRequestByID ==
    /\ pc = "fetch"
    /\ pc' = IF asked \in stored THEN "200" ELSE "404"
    /\ UNCHANGED <<backend, list, rows, inbox, query, result, patching, walk>>

--------------------------------------------------------------------------------
\* PATCH.

BeginPatch ==
    /\ pc = "idle"
    /\ asked' \in Patches
    /\ pc' = IF backend = "sql" /\ asked' = "empty" THEN "reread" ELSE "update"
    /\ shown' = {inbox}
    /\ StartHistory
    /\ UNCHANGED <<backend, list, rows, inbox, query, result, answer, fromStart>>

\* Mutant: the copy that is returned is made before the changes.
PatchInMemoryCopiesFirst ==
    /\ pc = "update" /\ backend = "memory"
    /\ IF inbox.deletedAt
       THEN /\ pc' = "404"
            /\ UNCHANGED <<inbox, answer, shown>>
       ELSE /\ inbox' = Patched(inbox, asked)
            /\ shown' = {inbox'}
            /\ answer' = inbox
            /\ pc' = "200"
    /\ UNCHANGED <<backend, list, rows, query, result, asked, walk>>

\* The memory store patches the row and copies it in one critical section.
PatchInMemory ==
    /\ pc = "update" /\ backend = "memory"
    /\ IF inbox.deletedAt
       THEN /\ pc' = "404"
            /\ UNCHANGED <<inbox, answer, shown>>
       ELSE /\ inbox' = Patched(inbox, asked)
            /\ shown' = {inbox'}
            /\ answer' = inbox'
            /\ pc' = "200"
    /\ UNCHANGED <<backend, list, rows, query, result, asked, walk>>

\* Mutant: a row that the UPDATE leaves as it was does not count as affected.
UpdateRowCountsChanges ==
    /\ pc = "update" /\ backend = "sql"
    /\ IF inbox.deletedAt \/ Patched(inbox, asked) = inbox
       THEN /\ pc' = "404"
            /\ UNCHANGED <<inbox, shown>>
       ELSE /\ inbox' = Patched(inbox, asked)
            /\ shown' = {inbox'}
            /\ pc' = "reread"
    /\ UNCHANGED <<backend, list, rows, query, result, asked, answer, walk>>

\* UPDATE ... WHERE deleted_at IS NULL; no row affected is a 404.
UpdateRow ==
    /\ pc = "update" /\ backend = "sql"
    /\ IF inbox.deletedAt
       THEN /\ pc' = "404"
            /\ UNCHANGED <<inbox, shown>>
       ELSE /\ inbox' = Patched(inbox, asked)
            /\ shown' = {inbox'}
            /\ pc' = "reread"
    /\ UNCHANGED <<backend, list, rows, query, result, asked, answer, walk>>

\* The answer is what a second statement finds.
RereadInbox ==
    /\ pc = "reread"
    /\ IF inbox.deletedAt
       THEN /\ pc' = "404"
            /\ UNCHANGED answer
       ELSE /\ answer' = inbox
            /\ pc' = "200"
    /\ UNCHANGED <<backend, list, rows, inbox, query, result, asked, shown, walk>>

\* A statement returns an error: 500.  An UPDATE that took effect all the same
\* is a PatchByAnother and then this.
Fail ==
    /\ backend = "sql" /\ pc \in {"lookup", "count", "page", "fetch", "update", "reread"}
    /\ pc' = "500"
    /\ UNCHANGED <<backend, list, rows, inbox, query, result, patching, walk>>

--------------------------------------------------------------------------------

NewInbox == [status |-> "active", disabledAt |-> FALSE, deletedAt |-> FALSE]

Init ==
    /\ backend \in Backends
    /\ list \in Lists
    /\ time \in [Rows -> 0 .. MaxTime]
    /\ stored = {} /\ gone = {}
    /\ inbox = NewInbox
    /\ pc = "idle"
    /\ page = 1 /\ pageSize = DefaultPageSize /\ order = "desc"
    /\ total = 0 /\ items = <<>>
    /\ asked = "none" /\ answer = NewInbox /\ shown = {}
    /\ fromStart = FALSE /\ kept = {} /\ seen = {} /\ served = 0
    /\ inserted = FALSE /\ removed = FALSE /\ raced = FALSE

Others == PatchByAnother \/ SoftDeleteInbox \/ \E r \in Rows : Insert(r) \/ TakeAway(r)
Client ==
    \/ RefuseFilter \/ BeginWalk \/ LookupInbox \/ CountRows \/ ListInMemory \/ ListPanics \/ SelectPage
    \/ NextPage \/ EndOfWalk
    \/ BeginDetails \/ GetCapturedRequestByID
    \/ BeginPatch \/ PatchInMemory \/ UpdateRow \/ RereadInbox
    \/ Fail

Next == Others \/ Client

Spec == Init /\ [][Next]_vars

--------------------------------------------------------------------------------

TypeOK ==
    /\ backend \in Backends /\ list \in Lists
    /\ time \in [Rows -> 0 .. MaxTime]
    /\ stored \subseteq Rows /\ gone \subseteq Rows /\ stored \cap gone = {}
    /\ inbox \in Inbox /\ (inbox.disabledAt <=> inbox.status = "disabled")
    /\ pc \in {"idle", "lookup", "count", "page", "answered", "done", "fetch", "update",
               "reread", "200", "400", "404", "500", "panicked"}
    /\ page \in Nat \ {0} /\ pageSize \in 1 .. PageSizeCap /\ order \in {"asc", "desc", "other"}
    /\ total \in Nat /\ items \in Seq(Rows)
    /\ asked \in Patches \cup Rows \cup {"none"}
    /\ answer \in Inbox /\ shown \subseteq Inbox
    /\ kept \subseteq stored \cup gone /\ seen \subseteq stored \cup gone /\ served \in Nat
    /\ fromStart \in BOOLEAN /\ inserted \in BOOLEAN /\ removed \in BOOLEAN /\ raced \in BOOLEAN

\* No two rows ever listed are as old as one another.
NoTies == \A a, b \in stored \cup gone : time[a] = time[b] => a = b

NoOverflow == page * pageSize <= MaxInt

\* A page is the part of the list that its number says: no row in it twice, no
\* more rows before one of its rows than the earlier pages hold, and as many
\* rows as are left for it; and with no write between the statements the total
\* is the length of the list.  Page numbers whose first row is beyond the
\* range of an int are left out: there a memory store panics or wraps around.
PageHoldsItsRanks ==
    [][pc = "page" /\ pc' = "answered" /\ NoOverflow =>
         /\ ToSet(items') \subseteq stored
         /\ Cardinality(ToSet(items')) = Len(items')
         /\ Len(items') = LET left == Cardinality(stored) - (page - 1) * pageSize
                          IN  IF left < 0 THEN 0 ELSE Lesser(left, pageSize)
         /\ \A r \in ToSet(items') :
              /\ Cardinality({o \in stored : Precedes(o, r)}) < page * pageSize
              /\ Cardinality({o \in stored : ~ Precedes(r, o)}) > (page - 1) * pageSize
         /\ raced \/ total' = Cardinality(stored)]_vars

\* A client that begins with page 1 and follows has_next to its end has seen
\* every row that was there all the while, whatever is captured meanwhile,
\* provided no row was removed, no two are as old, and (in SQL) nothing was
\* written between the count and the page of the last call.
WalkMissesNothing ==
    pc = "done" /\ fromStart /\ NoTies /\ ~ removed /\ ~ raced => kept \subseteq seen

\* And it is given no row twice, whatever is removed meanwhile, provided no row
\* was inserted.
WalkRepeatsNothing ==
    pc \in {"answered", "done"} /\ NoTies /\ ~ inserted => served = Cardinality(seen)

\* A PATCH that is answered 200 shows the inbox as that patch left it or as it
\* was at a later moment of the call, never as it was before.
PatchAnswerIsCurrent ==
    pc = "200" /\ asked \in Patches => answer \in shown

\* 404 is true: the inbox was deleted, or the request asked for was not there,
\* at a moment of the call.
NotFoundIsTrue ==
    pc = "404" => \/ inbox.deletedAt
                  \/ asked \in Rows /\ asked \notin kept
================================================================================
