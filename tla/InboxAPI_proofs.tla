----------------------------- MODULE InboxAPI_proofs -----------------------------
(***************************************************************************)
(* Proofs about InboxAPI, for any rows, page sizes and ranges of an int.   *)
(* The inductive invariant IInv adds to the properties what a call knows   *)
(* between two statements: that a patch about to be read again is among    *)
(* the states shown since it took effect, and that a row kept ever since   *)
(* the call began is stored.  WalkInv, for a walk through the pages, says  *)
(* by the ranks of rows where what was given and what was not stand.       *)
(***************************************************************************)
EXTENDS InboxAPI, CommonLemmas

RereadAfterPatch == pc = "reread" => asked \in Patches /\ (inbox.deletedAt \/ inbox \in shown)
KeptIsStored == UnderWay => kept \subseteq stored
AskedFits ==
    /\ pc = "fetch" => asked \in Rows
    /\ pc = "update" => asked \in Patches

IInv ==
    /\ TypeOK
    /\ RereadAfterPatch
    /\ KeptIsStored
    /\ AskedFits
    /\ PatchAnswerIsCurrent
    /\ NotFoundIsTrue

--------------------------------------------------------------------------------
\* Pages.

\* An order of the stored rows is a sequence of them.
LEMMA SortedIsASequence ==
    ASSUME NEW S \in SUBSET Rows, NEW s \in Sorted(S)
    PROVE  s \in Seq(S)
<1>1. Cardinality(S) \in Nat
  BY InboxAPIAssumption, FS_Subset, FS_CardinalityType
<1>2. s \in [1 .. Cardinality(S) -> S]
  BY DEF Sorted, SetToSeqs
<1>3. QED
  BY <1>1, <1>2

\* What a page is cut from the list is a sequence of rows of the list.
LEMMA PageIsASequence ==
    ASSUME NEW S, NEW s \in Seq(S), NEW a \in Nat, NEW b \in Int, a < Len(s), b <= Len(s)
    PROVE  SubSeq(s, a + 1, b) \in Seq(S)
  OBVIOUS

\* The elements of a sequence over S are in S.
LEMMA ToSetOfSequence ==
    ASSUME NEW S, NEW s \in Seq(S) PROVE ToSet(s) \subseteq S /\ Len(s) \in Nat
  BY DEF ToSet

\* What an overflow makes of an integer is one.
LEMMA WrappedIsInt ==
    ASSUME NEW x \in Int PROVE Wrapped(x) \in Int
  BY InboxAPIAssumption DEF Wrapped

\* The first and last row of a page are ints, whatever overflows.
LEMMA RangeOfPage ==
    ASSUME TypeOK, NEW n \in Nat
    PROVE  /\ rangeFromPage(n).start \in Int
           /\ rangeFromPage(n).end \in Int
           /\ rangeFromPage(n).end <= n
<1>1. /\ page \in Nat /\ pageSize \in Nat
  BY InboxAPIAssumption DEF TypeOK
<1>2. (page - 1) * pageSize \in Int
  BY <1>1
<1>3. Wrapped((page - 1) * pageSize) \in Int
  BY <1>2, WrappedIsInt
<1>4. Wrapped(Wrapped((page - 1) * pageSize) + pageSize) \in Int
  BY <1>1, <1>3, WrappedIsInt
<1>5. QED
  BY <1>3, <1>4 DEF rangeFromPage, Lesser

\* A page of the memory store is a sequence of rows.
LEMMA PaginateIsASequence ==
    ASSUME TypeOK, NEW S, NEW s \in Seq(S), ~ Panics(Len(s))
    PROVE  paginate(s) \in Seq(S)
<1>1. Len(s) \in Nat
  OBVIOUS
<1>2. /\ rangeFromPage(Len(s)).start \in Nat
      /\ rangeFromPage(Len(s)).end \in Int
      /\ rangeFromPage(Len(s)).end <= Len(s)
  BY <1>1, RangeOfPage DEF Panics
<1>3. QED
  BY <1>2, PageIsASequence DEF paginate

\* A page of the SQL store is a sequence of rows.
LEMMA LimitOffsetIsASequence ==
    ASSUME TypeOK, NEW S, NEW s \in Seq(S)
    PROVE  LimitOffset(s) \in Seq(S)
<1> DEFINE offset == rangeFromPage(Len(s)).start
           from == IF offset < 0 THEN 0 ELSE offset
           end == Lesser(from + pageSize, Len(s))
<1>1. Len(s) \in Nat /\ offset \in Int /\ pageSize \in Nat
  BY RangeOfPage, InboxAPIAssumption DEF TypeOK
<1>2. from \in Nat /\ end \in Int /\ end <= Len(s)
  BY <1>1 DEF Lesser
<1>3. CASE from >= Len(s)
  BY <1>3 DEF LimitOffset
<1>4. CASE ~ (from >= Len(s))
  <2>1. from < Len(s)
    BY <1>1, <1>2, <1>4
  <2>2. SubSeq(s, from + 1, end) \in Seq(S)
    BY <1>2, <2>1, PageIsASequence
  <2>3. LimitOffset(s) = SubSeq(s, from + 1, end)
    BY <1>4 DEF LimitOffset
  <2>4. QED
    BY <2>2, <2>3
<1>5. QED
  BY <1>3, <1>4

--------------------------------------------------------------------------------
\* Types.

\* A patched inbox is disabled exactly when it has a date for that.
LEMMA PatchedIsAnInbox ==
    ASSUME NEW i \in Inbox, i.disabledAt <=> i.status = "disabled", NEW p \in Patches
    PROVE  /\ Patched(i, p) \in Inbox
           /\ Patched(i, p).disabledAt <=> Patched(i, p).status = "disabled"
           /\ Patched(i, p).deletedAt = i.deletedAt
<1>1. CASE p = "active"
  BY <1>1 DEF Patched, Inbox
<1>2. CASE p = "disabled"
  BY <1>2 DEF Patched, Inbox
<1>3. CASE p \in {"other", "empty"}
  BY <1>3 DEF Patched, Inbox
<1>4. QED
  BY <1>1, <1>2, <1>3 DEF Patches

\* The types, before the first call.
LEMMA InitTypes == ASSUME Init PROVE TypeOK
<1>1. inbox \in Inbox /\ answer \in Inbox /\ (inbox.disabledAt <=> inbox.status = "disabled")
  BY DEF Init, NewInbox, Inbox
<1>2. page \in Nat \ {0} /\ pageSize \in 1 .. PageSizeCap
  BY InboxAPIAssumption DEF Init
<1>3. items \in Seq(Rows) /\ total \in Nat /\ served \in Nat
  BY DEF Init
<1>4. QED
  BY <1>1, <1>2, <1>3 DEF Init, TypeOK

\* The others write rows and the inbox, and the histories that go with them.
LEMMA OthersKeepTypes == ASSUME TypeOK, Others PROVE TypeOK'
<1> USE DEF TypeOK, rows, query, result, patching, walk
<1>1. ASSUME NEW r \in Rows, Insert(r) PROVE TypeOK'
  BY <1>1 DEF Insert
<1>2. ASSUME NEW r \in Rows, TakeAway(r) PROVE TypeOK'
  BY <1>2 DEF TakeAway
<1>3. CASE PatchByAnother
  BY <1>3, PatchedIsAnInbox DEF PatchByAnother, Patches
<1>4. CASE SoftDeleteInbox
  <2>1. /\ inbox' \in Inbox
        /\ inbox'.disabledAt = inbox.disabledAt /\ inbox'.status = inbox.status
    BY <1>4 DEF SoftDeleteInbox, Inbox
  <2>2. QED
    BY <1>4, <2>1 DEF SoftDeleteInbox
<1>5. QED
  BY <1>1, <1>2, <1>3, <1>4 DEF Others

\* Giving a page that is a sequence of stored rows.
LEMMA GiveKeepsTypes ==
    ASSUME TypeOK, NEW s \in Seq(stored), Give(s), total' \in Nat,
           UNCHANGED <<backend, list, rows, inbox, query, patching,
                       fromStart, kept, inserted, removed, raced>>
    PROVE  TypeOK'
<1>1. ToSet(s) \subseteq stored /\ Len(s) \in Nat
  BY ToSetOfSequence
<1>2. s \in Seq(Rows)
  BY DEF TypeOK
<1>3. QED
  BY <1>1, <1>2 DEF TypeOK, Give, rows, query, patching

\* The steps of a walk through pages keep the types.
LEMMA WalkKeepsTypes ==
    ASSUME TypeOK, \/ RefuseFilter \/ BeginWalk \/ LookupInbox \/ CountRows \/ ListInMemory
                   \/ ListPanics \/ SelectPage \/ NextPage \/ EndOfWalk
    PROVE  TypeOK'
<1> USE DEF TypeOK, rows, query, result, patching, walk
<1>0. Cardinality(stored) \in Nat
  BY InboxAPIAssumption, FS_Subset, FS_CardinalityType
<1>1. CASE RefuseFilter
  BY <1>1 DEF RefuseFilter
<1>2. CASE BeginWalk
  <2>1. page' \in Nat \ {0} /\ pageSize' \in 1 .. PageSizeCap
    BY <1>2, InboxAPIAssumption DEF BeginWalk, Lesser
  <2>2. pc' \in {"lookup", "count", "page"}
    BY <1>2 DEF BeginWalk, FirstStep
  <2>3. fromStart' \in BOOLEAN
    <3>1. fromStart' = (page' = 1)
      BY <1>2 DEF BeginWalk
    <3>2. QED
      BY <3>1
  <2>4. order' \in {"asc", "desc", "other"}
    BY <1>2 DEF BeginWalk
  <2>5. QED
    BY <1>2, <2>1, <2>2, <2>3, <2>4 DEF BeginWalk, StartHistory
<1>3. CASE LookupInbox
  BY <1>3 DEF LookupInbox, Inbox
<1>4. CASE CountRows
  BY <1>0, <1>4 DEF CountRows
<1>5. CASE ListInMemory
  <2>1. PICK s \in Sorted(stored) : Give(paginate(s))
    BY <1>5 DEF ListInMemory
  <2>2. s \in Seq(stored) /\ Len(s) = Cardinality(stored)
    BY <1>0, SortedIsASequence DEF Sorted, SetToSeqs
  <2>3. paginate(s) \in Seq(stored)
    BY <1>5, <2>2, PaginateIsASequence DEF ListInMemory
  <2>4. QED
    BY <1>0, <1>5, <2>1, <2>3, GiveKeepsTypes DEF ListInMemory
<1>6. CASE ListPanics
  BY <1>6 DEF ListPanics
<1>7. CASE SelectPage
  <2>1. PICK s \in Sorted(stored) : Give(LimitOffset(s))
    BY <1>7 DEF SelectPage
  <2>2. LimitOffset(s) \in Seq(stored)
    BY SortedIsASequence, LimitOffsetIsASequence
  <2>3. QED
    BY <1>7, <2>1, <2>2, GiveKeepsTypes DEF SelectPage
<1>8. CASE NextPage
  <2>1. page' \in Nat \ {0} /\ pc' \in {"lookup", "count", "page"}
    BY <1>8 DEF NextPage, FirstStep
  <2>2. items' \in Seq(Rows) /\ total' \in Nat
    BY <1>8 DEF NextPage
  <2>3. QED
    BY <1>8, <2>1, <2>2 DEF NextPage
<1>9. CASE EndOfWalk
  BY <1>9 DEF EndOfWalk
<1>10. QED
  BY <1>1, <1>2, <1>3, <1>4, <1>5, <1>6, <1>7, <1>8, <1>9

\* The steps of the other calls keep the types.
LEMMA CallsKeepTypes ==
    ASSUME TypeOK, \/ BeginDetails \/ GetCapturedRequestByID
                   \/ BeginPatch \/ PatchInMemory \/ UpdateRow \/ RereadInbox \/ Fail,
           pc = "update" => asked \in Patches
    PROVE  TypeOK'
<1> USE DEF TypeOK, rows, query, result, patching, walk
<1>1. CASE BeginDetails
  BY <1>1 DEF BeginDetails, StartHistory
<1>2. CASE GetCapturedRequestByID
  BY <1>2 DEF GetCapturedRequestByID
<1>3. CASE BeginPatch
  BY <1>3 DEF BeginPatch, StartHistory
<1>4. CASE PatchInMemory
  BY <1>4, PatchedIsAnInbox DEF PatchInMemory
<1>5. CASE UpdateRow
  BY <1>5, PatchedIsAnInbox DEF UpdateRow
<1>6. CASE RereadInbox
  BY <1>6 DEF RereadInbox
<1>7. CASE Fail
  BY <1>7 DEF Fail
<1>8. QED
  BY <1>1, <1>2, <1>3, <1>4, <1>5, <1>6, <1>7

--------------------------------------------------------------------------------
\* The invariant.

\* Before the first call.
LEMMA InitEstablishes == ASSUME Init PROVE IInv
<1>1. TypeOK
  BY InitTypes
<1>2. QED
  BY <1>1 DEF Init, IInv, RereadAfterPatch, KeptIsStored, UnderWay, AskedFits,
              PatchAnswerIsCurrent, NotFoundIsTrue

\* What other clients and the retention do keeps the invariant.
LEMMA OthersKeep == ASSUME IInv, Others PROVE IInv'
<1> USE DEF RereadAfterPatch, KeptIsStored, UnderWay, AskedFits, PatchAnswerIsCurrent,
            NotFoundIsTrue, rows, query, result, patching, walk
<1>1. TypeOK /\ TypeOK'
  BY OthersKeepTypes DEF IInv
<1>2. ASSUME NEW r \in Rows, Insert(r) PROVE IInv'
  BY <1>1, <1>2 DEF Insert, IInv
<1>3. ASSUME NEW r \in Rows, TakeAway(r) PROVE IInv'
  BY <1>1, <1>3 DEF TakeAway, IInv
<1>4. CASE PatchByAnother
  <2>1. inbox'.deletedAt = inbox.deletedAt
    BY <1>1, <1>4, PatchedIsAnInbox DEF PatchByAnother, Patches, TypeOK
  <2>2. QED
    BY <1>1, <1>4, <2>1 DEF PatchByAnother, IInv
<1>5. CASE SoftDeleteInbox
  <2>1. inbox'.deletedAt
    BY <1>1, <1>5 DEF SoftDeleteInbox, TypeOK, Inbox
  <2>2. QED
    BY <1>1, <1>5, <2>1 DEF SoftDeleteInbox, IInv
<1>6. QED
  BY <1>2, <1>3, <1>4, <1>5 DEF Others

\* The steps of a walk keep the invariant.
LEMMA WalkKeeps ==
    ASSUME IInv, \/ RefuseFilter \/ BeginWalk \/ LookupInbox \/ CountRows \/ ListInMemory
                 \/ ListPanics \/ SelectPage \/ NextPage \/ EndOfWalk
    PROVE  IInv'
<1> USE DEF IInv, RereadAfterPatch, KeptIsStored, UnderWay, AskedFits, PatchAnswerIsCurrent,
            NotFoundIsTrue, rows, query, result, patching, walk
<1>0. TypeOK'
  BY WalkKeepsTypes
<1>1. CASE RefuseFilter
  BY <1>0, <1>1 DEF RefuseFilter
<1>2. CASE BeginWalk
  BY <1>0, <1>2 DEF BeginWalk, StartHistory, FirstStep
<1>3. CASE LookupInbox
  BY <1>0, <1>3 DEF LookupInbox
<1>4. CASE CountRows
  BY <1>0, <1>4 DEF CountRows
<1>5. CASE ListInMemory
  BY <1>0, <1>5 DEF ListInMemory, Give
<1>6. CASE ListPanics
  BY <1>0, <1>6 DEF ListPanics
<1>7. CASE SelectPage
  BY <1>0, <1>7 DEF SelectPage, Give
<1>8. CASE NextPage
  BY <1>0, <1>8 DEF NextPage, FirstStep
<1>9. CASE EndOfWalk
  BY <1>0, <1>9 DEF EndOfWalk
<1>10. QED
  BY <1>1, <1>2, <1>3, <1>4, <1>5, <1>6, <1>7, <1>8, <1>9

\* The steps of a patch and of a lookup keep the invariant.
LEMMA CallsKeep ==
    ASSUME IInv, \/ BeginDetails \/ GetCapturedRequestByID
                 \/ BeginPatch \/ PatchInMemory \/ UpdateRow \/ RereadInbox \/ Fail
    PROVE  IInv'
<1> USE DEF IInv, RereadAfterPatch, KeptIsStored, UnderWay, AskedFits, PatchAnswerIsCurrent,
            NotFoundIsTrue, rows, query, result, patching, walk
<1>0. TypeOK'
  BY CallsKeepTypes
<1>1. CASE BeginDetails
  BY <1>0, <1>1 DEF BeginDetails, StartHistory
<1>2. CASE GetCapturedRequestByID
  BY <1>0, <1>2, InboxAPIAssumption DEF GetCapturedRequestByID, Patches
<1>3. CASE BeginPatch
  BY <1>0, <1>3 DEF BeginPatch, StartHistory, Patches
<1>4. CASE PatchInMemory
  BY <1>0, <1>4 DEF PatchInMemory
<1>5. CASE UpdateRow
  BY <1>0, <1>5 DEF UpdateRow
<1>6. CASE RereadInbox
  BY <1>0, <1>6 DEF RereadInbox
<1>7. CASE Fail
  BY <1>0, <1>7 DEF Fail
<1>8. QED
  BY <1>1, <1>2, <1>3, <1>4, <1>5, <1>6, <1>7

\* The inductive invariant holds, whatever the others do between two
\* statements of a call.
THEOREM Invariant == Spec => []IInv
<1>1. ASSUME IInv, [Next]_vars PROVE IInv'
  <2>1. CASE Others
    BY <1>1, <2>1, OthersKeep
  <2>2. CASE Client
    BY <1>1, <2>2, WalkKeeps, CallsKeep DEF Client
  <2>3. CASE UNCHANGED vars
    BY <1>1, <2>3 DEF vars, rows, query, result, patching, walk, IInv, TypeOK,
       RereadAfterPatch, KeptIsStored, UnderWay, AskedFits, PatchAnswerIsCurrent, NotFoundIsTrue
  <2>4. QED
    BY <1>1, <2>1, <2>2, <2>3 DEF Next
<1>2. QED
  BY <1>1, InitEstablishes, PTL DEF Spec

\* Type correctness, for any rows, times and page sizes: a page is a sequence
\* of rows, and an inbox is disabled exactly when it has a date for that.
THEOREM TypeCorrect == Spec => []TypeOK
  BY Invariant, PTL DEF IInv

\* The answer of a PATCH is the state that patch left or a later one, however
\* many other patches and deletions come between its two statements.
THEOREM PatchAnswerIsCurrentHolds == Spec => []PatchAnswerIsCurrent
  BY Invariant, PTL DEF IInv

\* A 404 of a list, of a request or of a PATCH was true at some moment of the
\* call, on either store.
THEOREM NotFoundIsTrueHolds == Spec => []NotFoundIsTrue
  BY Invariant, PTL DEF IInv

--------------------------------------------------------------------------------
\* Where a row stands in its list.

\* The order of the list, on either store: of two rows that are not as old as
\* one another one comes first, and not both.
LEMMA PrecedesOrders ==
    ASSUME TypeOK, NEW a \in Rows, NEW b \in Rows
    PROVE  /\ ~ Precedes(a, a)
           /\ Precedes(a, b) => ~ Precedes(b, a)
           /\ time[a] # time[b] => Precedes(a, b) \/ Precedes(b, a)
<1>1. time[a] \in Int /\ time[b] \in Int
  BY InboxAPIAssumption DEF TypeOK
<1>2. /\ ~ TextBefore(time[a], time[a])
      /\ TextBefore(time[a], time[b]) => ~ TextBefore(time[b], time[a])
      /\ time[a] # time[b] => TextBefore(time[a], time[b]) \/ TextBefore(time[b], time[a])
  BY <1>1, TextOrder
<1>4. CASE order = "asc"
  BY <1>1, <1>2, <1>4 DEF Precedes, Earlier
<1>5. CASE order # "asc"
  BY <1>1, <1>2, <1>5 DEF Precedes, Earlier
<1>6. QED
  BY <1>4, <1>5

Before(r) == {o \in stored : Precedes(o, r)}
NotAfter(r) == {o \in stored : ~ Precedes(r, o)}

\* The stored rows, in an order the list may come in.
LEMMA SortedHoldsAll ==
    ASSUME TypeOK, NEW s \in Sorted(stored)
    PROVE  /\ IsFiniteSet(stored) /\ Cardinality(stored) \in Nat
           /\ s \in Seq(stored) /\ Len(s) = Cardinality(stored)
           /\ \A j, k \in 1 .. Len(s) : s[j] = s[k] => j = k
           /\ \A r \in stored : \E k \in 1 .. Len(s) : s[k] = r
           /\ \A j, k \in 1 .. Len(s) : j < k => ~ Precedes(s[k], s[j])
<1> DEFINE n == Cardinality(stored)
<1>1. IsFiniteSet(stored) /\ n \in Nat
  BY InboxAPIAssumption, FS_Subset, FS_CardinalityType DEF TypeOK
<1>2. /\ s \in [1 .. n -> stored] /\ (\A j, k \in 1 .. n : s[j] = s[k] => j = k)
      /\ \A j, k \in 1 .. Len(s) : j < k => ~ Precedes(s[k], s[j])
  BY DEF Sorted, SetToSeqs
<1>3. s \in Seq(stored) /\ Len(s) = n
  BY <1>1, <1>2
<1>4. \A r \in stored : \E k \in 1 .. n : s[k] = r
  <2>1. s \in Injection(1 .. n, stored)
    BY <1>2 DEF Injection, IsInjective
  <2>2. Cardinality(1 .. n) = n
    BY <1>1, FS_Interval
  <2>3. s \in Surjection(1 .. n, stored)
    BY <1>1, <2>1, <2>2, FS_Injection
  <2>4. QED
    BY <2>3 DEF Surjection
<1>5. QED
  BY <1>1, <1>2, <1>3, <1>4

\* The row at place k has at most k - 1 rows before it and at least k that are
\* not after it; without ties it has k - 1 before it.
LEMMA PlaceIsRank ==
    ASSUME TypeOK, NEW s \in Sorted(stored), NEW k \in 1 .. Len(s)
    PROVE  /\ Cardinality(Before(s[k])) \in Nat /\ Cardinality(Before(s[k])) <= k - 1
           /\ Cardinality(NotAfter(s[k])) \in Nat /\ Cardinality(NotAfter(s[k])) >= k
           /\ NoTies => Cardinality(Before(s[k])) = k - 1
<1> DEFINE first == HeldFrom(s, 1, k - 1)
           upTo == HeldFrom(s, 1, k)
<1>1. /\ IsFiniteSet(stored) /\ s \in Seq(stored) /\ Len(s) \in Nat /\ k \in Nat /\ 1 <= k
      /\ \A j, m \in 1 .. Len(s) : s[j] = s[m] => j = m
      /\ \A r \in stored : \E m \in 1 .. Len(s) : s[m] = r
      /\ \A j, m \in 1 .. Len(s) : j < m => ~ Precedes(s[m], s[j])
  BY SortedHoldsAll
<1>2. \A j \in 1 .. Len(s) : s[j] \in stored /\ s[j] \in Rows
  BY <1>1 DEF TypeOK
<1>3. IsFiniteSet(first) /\ Cardinality(first) = k - 1
  <2>1. \A j, m \in 1 .. k - 1 : s[j] = s[m] => j = m
    <3>1. 1 .. k - 1 \subseteq 1 .. Len(s)
      BY <1>1
    <3>2. QED
      BY ONLY <1>1, <3>1
  <2>2. k - 1 \in Int /\ (IF 1 > k - 1 THEN 0 ELSE (k - 1) - 1 + 1) = k - 1
    BY <1>1
  <2>3. QED
    BY ONLY <2>1, <2>2, PlacesCount
<1>4. IsFiniteSet(upTo) /\ Cardinality(upTo) = k
  <2>1. \A j, m \in 1 .. k : s[j] = s[m] => j = m
    <3>1. 1 .. k \subseteq 1 .. Len(s)
      BY <1>1
    <3>2. QED
      BY ONLY <1>1, <3>1
  <2>2. k \in Int /\ (IF 1 > k THEN 0 ELSE k - 1 + 1) = k
    BY <1>1
  <2>3. QED
    BY ONLY <2>1, <2>2, PlacesCount
<1>5. Before(s[k]) \subseteq first
  <2>1. SUFFICES ASSUME NEW o \in stored, Precedes(o, s[k]) PROVE o \in first
    BY DEF Before
  <2>2. PICK j \in 1 .. Len(s) : s[j] = o
    BY <1>1
  <2>3. j # k /\ ~ (k < j)
    BY <1>1, <1>2, <2>1, <2>2, PrecedesOrders
  <2>4. j \in 1 .. k - 1
    BY <1>1, <2>3
  <2>5. QED
    BY <2>2, <2>4 DEF HeldFrom
<1>6. upTo \subseteq NotAfter(s[k])
  <2>1. SUFFICES ASSUME NEW j \in 1 .. k PROVE s[j] \in NotAfter(s[k])
    BY DEF HeldFrom
  <2>2. j \in 1 .. Len(s) /\ s[j] \in stored /\ s[j] \in Rows /\ s[k] \in Rows
    BY SMTT(30), <1>1, <1>2
  <2>3. ~ Precedes(s[k], s[j])
    <3>1. CASE j = k
      BY <2>2, <3>1, PrecedesOrders
    <3>2. CASE j # k
      BY <1>1, <2>2, <3>2
    <3>3. QED
      BY <3>1, <3>2
  <2>4. QED
    BY <2>2, <2>3 DEF NotAfter
<1>7. NoTies => first \subseteq Before(s[k])
  <2>1. SUFFICES ASSUME NoTies, NEW j \in 1 .. k - 1 PROVE s[j] \in Before(s[k])
    BY DEF HeldFrom
  <2>2. /\ j \in 1 .. Len(s) /\ j < k /\ s[j] # s[k]
        /\ s[j] \in stored /\ s[j] \in Rows /\ s[k] \in stored /\ s[k] \in Rows
    BY SMTT(30), <1>1, <1>2
  <2>3. time[s[j]] # time[s[k]] /\ ~ Precedes(s[k], s[j])
    BY <1>1, <2>1, <2>2 DEF NoTies
  <2>4. QED
    BY <2>2, <2>3, PrecedesOrders DEF Before
<1> HIDE DEF first, upTo
<1>8. Cardinality(Before(s[k])) \in Nat /\ Cardinality(Before(s[k])) <= k - 1
  BY <1>3, <1>5, FS_Subset, FS_CardinalityType
<1>9. Cardinality(NotAfter(s[k])) \in Nat /\ Cardinality(NotAfter(s[k])) >= k
  <2>1. IsFiniteSet(NotAfter(s[k]))
    BY <1>1, FS_Subset DEF NotAfter
  <2>2. Cardinality(NotAfter(s[k])) \in Nat /\ Cardinality(upTo) <= Cardinality(NotAfter(s[k]))
    BY <1>6, <2>1, FS_Subset, FS_CardinalityType
  <2>3. QED
    BY <1>1, <1>4, <2>2
<1>10. NoTies => Cardinality(Before(s[k])) = k - 1
  <2>1. NoTies => Before(s[k]) = first
    BY <1>5, <1>7
  <2>2. QED
    BY <1>3, <2>1
<1>11. QED
  BY <1>8, <1>9, <1>10

--------------------------------------------------------------------------------
\* What a page is.

\* A page that holds the places a + 1 to b of a list.
IsCut(given, s, a, b) ==
    /\ a <= b /\ b <= Len(s)
    /\ Len(given) = b - a /\ DOMAIN given = 1 .. b - a
    /\ \A k \in 1 .. b - a : given[k] = s[a + k]

\* What the slice expression and OFFSET give; from a to b, or nothing.
LEMMA SliceIsCut ==
    ASSUME NEW S, NEW s \in Seq(S), NEW a \in Nat, NEW b \in Int, b <= Len(s)
    PROVE  LET given == IF a >= Len(s) THEN <<>> ELSE SubSeq(s, a + 1, b)
               from  == Lesser(a, Len(s))
               to    == IF a >= Len(s) THEN Len(s) ELSE IF b < a THEN a ELSE b
           IN  from \in Nat /\ to \in Nat /\ IsCut(given, s, from, to)
<1>1. Len(s) \in Nat
  OBVIOUS
<1>2. CASE a >= Len(s)
  BY <1>1, <1>2 DEF IsCut, Lesser
<1>3. CASE ~ (a >= Len(s))
  <2>1. a < Len(s) /\ Lesser(a, Len(s)) = a
    BY <1>1, <1>3 DEF Lesser
  <2>2. CASE b < a
    <3>1. SubSeq(s, a + 1, b) = <<>>
      BY <2>1, <2>2
    <3>2. QED
      BY <1>1, <1>3, <2>1, <2>2, <3>1 DEF IsCut
  <2>3. CASE ~ (b < a)
    <3>1. Len(SubSeq(s, a + 1, b)) = b - a
      BY <2>1, <2>3
    <3>2. \A k \in 1 .. b - a : SubSeq(s, a + 1, b)[k] = s[a + k]
      BY <2>1, <2>3
    <3>3. DOMAIN SubSeq(s, a + 1, b) = 1 .. b - a
      BY <2>1, <2>3
    <3>4. b \in Nat
      BY <2>3
    <3>5. QED
      BY <1>1, <1>3, <2>1, <2>3, <3>1, <3>2, <3>3, <3>4 DEF IsCut
  <2>4. QED
    BY <2>2, <2>3
<1>4. QED
  BY <1>2, <1>3

\* An int that fits does not overflow.
LEMMA WrappedFits == ASSUME NEW x \in 0 .. MaxInt PROVE Wrapped(x) = x
<1>1. MaxInt \in Nat /\ x \in Nat /\ x + MaxInt + 1 \in Nat /\ x + MaxInt + 1 < 2 * (MaxInt + 1)
  BY InboxAPIAssumption
<1>2. \A y, m \in Nat : y < m => y % m = y
  OBVIOUS
<1>3. (x + MaxInt + 1) % (2 * (MaxInt + 1)) = x + MaxInt + 1
  BY <1>1, <1>2
<1>4. QED
  BY <1>1, <1>3 DEF Wrapped

\* The last row of a page is before the first one of the next.
LEMMA PageEnds ==
    ASSUME TypeOK
    PROVE  /\ (page - 1) * pageSize \in Nat /\ page * pageSize \in Nat /\ pageSize \in Nat \ {0}
           /\ page * pageSize = (page - 1) * pageSize + pageSize
<1>1. page \in Nat \ {0} /\ pageSize \in Nat \ {0}
  BY InboxAPIAssumption DEF TypeOK
<1>2. PICK p \in Nat : p = page - 1
  BY <1>1
<1>3. p * pageSize \in Nat /\ (p + 1) * pageSize = p * pageSize + pageSize /\ page = p + 1
  BY <1>1, <1>2
<1>4. QED
  BY <1>1, <1>2, <1>3

\* Where a page begins and ends: as its number says, if that does not overflow.
LEMMA RangeIsRight ==
    ASSUME TypeOK, NEW n \in Nat, NoOverflow
    PROVE  /\ rangeFromPage(n).start = (page - 1) * pageSize
           /\ rangeFromPage(n).end = Lesser(page * pageSize, n)
<1>1. /\ (page - 1) * pageSize \in 0 .. MaxInt /\ page * pageSize \in 0 .. MaxInt
      /\ page * pageSize = (page - 1) * pageSize + pageSize
  BY PageEnds, InboxAPIAssumption DEF NoOverflow
<1>2. /\ Wrapped((page - 1) * pageSize) = (page - 1) * pageSize
      /\ Wrapped((page - 1) * pageSize + pageSize) = page * pageSize
  BY <1>1, WrappedFits
<1>3. QED
  BY <1>2 DEF rangeFromPage

\* The places a page number and size stand for.
Asked(a, b, n) == a = Lesser((page - 1) * pageSize, n) /\ b = Lesser(page * pageSize, n)

\* The page of the memory store.
LEMMA PaginateIsCut ==
    ASSUME TypeOK, NEW S, NEW s \in Seq(S), ~ Panics(Len(s))
    PROVE  \E a, b \in Nat : IsCut(paginate(s), s, a, b) /\ (NoOverflow => Asked(a, b, Len(s)))
<1> DEFINE n == Len(s)
           r == rangeFromPage(n)
           from == Lesser(r.start, n)
           to == IF r.start >= n THEN n ELSE IF r.end < r.start THEN r.start ELSE r.end
<1>1. n \in Nat /\ r.start \in Nat /\ r.end \in Int /\ r.end <= n
  BY RangeOfPage DEF Panics
<1>2. /\ from \in Nat /\ to \in Nat /\ IsCut(paginate(s), s, from, to)
  BY <1>1, SliceIsCut DEF paginate
<1>3. NoOverflow => Asked(from, to, n)
  <2>1. SUFFICES ASSUME NoOverflow PROVE Asked(from, to, n)
    OBVIOUS
  <2>2. r.start = (page - 1) * pageSize /\ r.end = Lesser(page * pageSize, n)
    BY <1>1, <2>1, RangeIsRight
  <2>3. /\ (page - 1) * pageSize \in Nat /\ page * pageSize \in Nat
        /\ (page - 1) * pageSize <= page * pageSize
    BY PageEnds
  <2> HIDE DEF r, n
  <2>4. QED
    BY <1>1, <2>2, <2>3 DEF Asked, Lesser
<1>4. QED
  BY <1>2, <1>3

\* The page of the SQL store, whose OFFSET is never below zero.
LEMMA LimitOffsetIsCut ==
    ASSUME TypeOK, NEW S, NEW s \in Seq(S)
    PROVE  \E a, b \in Nat : IsCut(LimitOffset(s), s, a, b) /\ (NoOverflow => Asked(a, b, Len(s)))
<1> DEFINE n == Len(s)
           offset == rangeFromPage(n).start
           first == IF offset < 0 THEN 0 ELSE offset
           last == Lesser(first + pageSize, n)
           from == Lesser(first, n)
           to == IF first >= n THEN n ELSE IF last < first THEN first ELSE last
<1>1. n \in Nat /\ offset \in Int /\ pageSize \in Nat \ {0}
  BY RangeOfPage, PageEnds
<1>2. first \in Nat /\ last \in Int /\ last <= n
  BY <1>1 DEF Lesser
<1>3. from \in Nat /\ to \in Nat /\ IsCut(LimitOffset(s), s, from, to)
  <2>1. LimitOffset(s) = IF first >= n THEN <<>> ELSE SubSeq(s, first + 1, last)
    BY DEF LimitOffset
  <2> HIDE DEF first, last
  <2>2. QED
    BY <1>2, <2>1, SliceIsCut
<1>4. NoOverflow => Asked(from, to, n)
  <2>1. SUFFICES ASSUME NoOverflow PROVE Asked(from, to, n)
    OBVIOUS
  <2>2. /\ (page - 1) * pageSize \in Nat /\ page * pageSize \in Nat
        /\ page * pageSize = (page - 1) * pageSize + pageSize
    BY PageEnds
  <2>3. offset = (page - 1) * pageSize
    BY <1>1, <2>1, RangeIsRight
  <2>4. first = (page - 1) * pageSize
    BY <2>2, <2>3
  <2> HIDE DEF offset, first, n
  <2>5. QED
    BY <1>1, <2>2, <2>4 DEF Asked, Lesser
<1>5. QED
  BY <1>3, <1>4

\* What a client is given: some places of the stored rows in an order the list
\* may come in, no row twice.
LEMMA ServedPage ==
    ASSUME TypeOK, ListInMemory \/ SelectPage
    PROVE  \E s \in Sorted(stored) : \E a, b \in Nat :
              /\ IsCut(items', s, a, b) /\ (NoOverflow => Asked(a, b, Len(s)))
              /\ Give(items')
              /\ IsFiniteSet(ToSet(items')) /\ Cardinality(ToSet(items')) = b - a
              /\ ToSet(items') = HeldFrom(s, a + 1, b)
<1>1. PICK s \in Sorted(stored) : \/ ListInMemory /\ Give(paginate(s))
                                  \/ SelectPage /\ Give(LimitOffset(s))
  BY DEF ListInMemory, SelectPage
<1>2. /\ s \in Seq(stored) /\ Len(s) = Cardinality(stored) /\ Len(s) \in Nat
      /\ \A j, k \in 1 .. Len(s) : s[j] = s[k] => j = k
  BY SortedHoldsAll
<1>3. PICK a \in Nat, b \in Nat : /\ IsCut(items', s, a, b) /\ (NoOverflow => Asked(a, b, Len(s)))
                                  /\ Give(items')
  <2>1. CASE ListInMemory /\ Give(paginate(s))
    BY <1>2, <2>1, PaginateIsCut DEF ListInMemory, Give
  <2>2. CASE SelectPage /\ Give(LimitOffset(s))
    BY <1>2, <2>2, LimitOffsetIsCut DEF SelectPage, Give
  <2>3. QED
    BY <1>1, <2>1, <2>2
<1>4. ToSet(items') = HeldFrom(s, a + 1, b)
  <2>1. \A k \in 1 .. b - a : items'[k] = s[a + k] /\ a + k \in a + 1 .. b
    BY <1>3 DEF IsCut
  <2>2. \A j \in a + 1 .. b : j - a \in 1 .. b - a /\ items'[j - a] = s[j]
    BY <1>3 DEF IsCut
  <2>3. DOMAIN items' = 1 .. b - a
    BY <1>3 DEF IsCut
  <2>4. QED
    BY <2>1, <2>2, <2>3 DEF ToSet, HeldFrom
<1>5. IsFiniteSet(ToSet(items')) /\ Cardinality(ToSet(items')) = b - a
  <2>1. a <= b /\ a + 1 .. b \subseteq 1 .. Len(s)
    BY <1>2, <1>3 DEF IsCut
  <2>2. \A j, k \in a + 1 .. b : s[j] = s[k] => j = k
    BY ONLY <1>2, <2>1
  <2>3. (IF a + 1 > b THEN 0 ELSE b - (a + 1) + 1) = b - a /\ a + 1 \in Int /\ b \in Int
    BY <2>1
  <2>4. QED
    BY ONLY <1>4, <2>2, <2>3, PlacesCount
<1>6. QED
  BY <1>3, <1>4, <1>5

\* Between the two statements of SQL the total is what the first one counted.
CountedTotal == pc = "page" /\ backend = "sql" /\ ~ raced => total = Cardinality(stored)

\* A write between the statements is remembered.
LEMMA CountedTotalKept == ASSUME TypeOK, CountedTotal, [Next]_vars PROVE CountedTotal'
<1> USE DEF CountedTotal, rows, query, result, patching, walk
<1>1. CASE Others
  BY <1>1 DEF Others, PatchByAnother, SoftDeleteInbox, Insert, TakeAway, BetweenStatements
<1>2. CASE RefuseFilter \/ LookupInbox \/ CountRows \/ ListInMemory \/ ListPanics \/ SelectPage \/ EndOfWalk
  BY <1>2 DEF RefuseFilter, LookupInbox, CountRows, ListInMemory, ListPanics, SelectPage, EndOfWalk, Give
<1>3. CASE BeginWalk \/ NextPage
  BY <1>3 DEF BeginWalk, NextPage, FirstStep
<1>4. CASE BeginDetails \/ GetCapturedRequestByID \/ BeginPatch \/ PatchInMemory \/ UpdateRow \/ RereadInbox \/ Fail
  BY <1>4 DEF BeginDetails, GetCapturedRequestByID, BeginPatch, PatchInMemory, UpdateRow, RereadInbox, Fail
<1>5. CASE UNCHANGED vars
  BY <1>5 DEF vars
<1>6. QED
  BY <1>1, <1>2, <1>3, <1>4, <1>5 DEF Next, Client

\* The step in which a client is given a page.
LEMMA GivingStep == ASSUME Next, pc = "page", pc' = "answered" PROVE ListInMemory \/ SelectPage
BY DEF Next, Others, Client, PatchByAnother, SoftDeleteInbox, Insert, TakeAway, RefuseFilter, BeginWalk,
   LookupInbox, CountRows, ListPanics, NextPage, EndOfWalk, BeginDetails, GetCapturedRequestByID, BeginPatch,
   PatchInMemory, UpdateRow, RereadInbox, Fail

\* What a page of numbers that do not overflow holds.
LEMMA ServedRanks ==
    ASSUME TypeOK, ListInMemory \/ SelectPage, NoOverflow
    PROVE  /\ ToSet(items') \subseteq stored
           /\ Cardinality(ToSet(items')) = Len(items')
           /\ Len(items') = LET left == Cardinality(stored) - (page - 1) * pageSize
                            IN  IF left < 0 THEN 0 ELSE Lesser(left, pageSize)
           /\ \A r \in ToSet(items') :
                /\ Cardinality({o \in stored : Precedes(o, r)}) < page * pageSize
                /\ Cardinality({o \in stored : ~ Precedes(r, o)}) > (page - 1) * pageSize
<1>1. PICK s \in Sorted(stored), a \in Nat, b \in Nat :
         /\ IsCut(items', s, a, b) /\ Asked(a, b, Len(s))
         /\ Cardinality(ToSet(items')) = b - a /\ ToSet(items') = HeldFrom(s, a + 1, b)
  BY ServedPage
<1>2. s \in Seq(stored) /\ Len(s) = Cardinality(stored) /\ Len(s) \in Nat
  BY SortedHoldsAll
<1>3. /\ (page - 1) * pageSize \in Nat /\ page * pageSize \in Nat /\ pageSize \in Nat
      /\ page * pageSize = (page - 1) * pageSize + pageSize
  BY PageEnds
<1>4. PICK from \in Nat, to \in Nat : from = (page - 1) * pageSize /\ to = page * pageSize
  BY <1>3
<1>5. a = Lesser(from, Len(s)) /\ b = Lesser(to, Len(s)) /\ to = from + pageSize
  BY <1>1, <1>3, <1>4 DEF Asked
<1>6. Len(items') = b - a /\ a <= b /\ b <= Len(s)
  BY <1>1 DEF IsCut
<1>7. Len(items') = LET left == Len(s) - from IN IF left < 0 THEN 0 ELSE Lesser(left, pageSize)
  BY <1>2, <1>3, <1>5, <1>6 DEF Lesser
<1>8. ASSUME NEW r \in ToSet(items')
      PROVE  r \in stored /\ Cardinality(Before(r)) < to /\ Cardinality(NotAfter(r)) > from
  <2>1. PICK k \in a + 1 .. b : r = s[k]
    BY <1>1 DEF HeldFrom
  <2>2. k \in 1 .. Len(s) /\ k <= to /\ k > from
    BY <1>2, <1>5, <1>6, <2>1 DEF Lesser
  <2>3. /\ Cardinality(Before(r)) \in Nat /\ Cardinality(Before(r)) <= k - 1
        /\ Cardinality(NotAfter(r)) \in Nat /\ Cardinality(NotAfter(r)) >= k
    BY <2>1, <2>2, PlaceIsRank
  <2>4. r \in stored
    BY <1>2, <2>1, <2>2
  <2>5. QED
    BY <2>2, <2>3, <2>4
<1>9. QED
  BY <1>1, <1>2, <1>4, <1>6, <1>7, <1>8 DEF Before, NotAfter

\* A page is the part of the list that its number says, for any rows, sizes and
\* numbers whose first row is in the range of an int; and with no write between
\* the two statements its total is the length of the list.
THEOREM PageHoldsItsRanksHolds == Spec => PageHoldsItsRanks
<1>1. Init => CountedTotal
  BY DEF Init, CountedTotal
<1>2. TypeOK /\ CountedTotal /\ [Next]_vars => CountedTotal'
  BY CountedTotalKept
<1>3. ASSUME TypeOK, CountedTotal, Next, pc = "page", pc' = "answered"
      PROVE  (ListInMemory \/ SelectPage) /\ (raced \/ total' = Cardinality(stored))
  <2>1. ListInMemory \/ SelectPage
    BY <1>3, GivingStep
  <2>2. QED
    BY <1>3, <2>1 DEF ListInMemory, SelectPage, CountedTotal
<1>4. TypeOK /\ CountedTotal /\ [Next]_vars
         => [pc = "page" /\ pc' = "answered" /\ NoOverflow =>
               /\ ToSet(items') \subseteq stored
               /\ Cardinality(ToSet(items')) = Len(items')
               /\ Len(items') = LET left == Cardinality(stored) - (page - 1) * pageSize
                                IN  IF left < 0 THEN 0 ELSE Lesser(left, pageSize)
               /\ \A r \in ToSet(items') :
                    /\ Cardinality({o \in stored : Precedes(o, r)}) < page * pageSize
                    /\ Cardinality({o \in stored : ~ Precedes(r, o)}) > (page - 1) * pageSize
               /\ raced \/ total' = Cardinality(stored)]_vars
  BY <1>3, ServedRanks
<1>5. QED
  BY <1>1, <1>2, <1>4, TypeCorrect, PTL DEF Spec, PageHoldsItsRanks

--------------------------------------------------------------------------------
\* The walk through the pages.

Listing == pc \in {"lookup", "count", "page"}

\* How many rows of the list the pages given so far reach to.
ServedUpTo == IF pc = "answered" THEN page * pageSize ELSE (page - 1) * pageSize

\* Only the first page asked for can be beyond the rows there are.
InRange ==
    /\ total <= Cardinality(Rows)
    /\ Listing => \/ (page - 1) * pageSize <= Cardinality(Rows)
                  \/ seen = {} /\ served = 0 /\ ~ fromStart

\* A row that was there all the while and has not been given is still ahead.
LeftAreAhead ==
    (Listing \/ pc = "answered") /\ fromStart /\ NoTies /\ ~ removed =>
        \A r \in kept \ seen : Cardinality(Before(r)) >= ServedUpTo

\* With no page to follow and no write between the last statements, none is left.
NothingLeft ==
    pc = "answered" /\ ~ hasNext /\ fromStart /\ NoTies /\ ~ removed /\ ~ raced => kept \subseteq seen

\* A row that has been given, and is still there, is behind.
SeenAreBehind ==
    (Listing \/ pc = "answered") /\ NoTies /\ ~ inserted =>
        /\ served = Cardinality(seen)
        /\ \A r \in seen \cap stored : Cardinality(Before(r)) < ServedUpTo

\* No walk has begun before the first call.
NoWalkYet == pc = "idle" => ~ fromStart

WalkInv ==
    /\ NoWalkYet /\ InRange
    /\ LeftAreAhead /\ NothingLeft /\ SeenAreBehind
    /\ WalkMissesNothing /\ WalkRepeatsNothing

\* What the walk is about in a list of rows that others write.
LEMMA BeforeIsFinite ==
    ASSUME TypeOK
    PROVE  /\ IsFiniteSet(Rows) /\ Cardinality(Rows) \in Nat
           /\ IsFiniteSet(stored) /\ Cardinality(stored) \in Nat /\ Cardinality(stored) <= Cardinality(Rows)
           /\ \A r \in Rows : IsFiniteSet(Before(r)) /\ Cardinality(Before(r)) \in Nat
<1>1. IsFiniteSet(Rows) /\ stored \subseteq Rows /\ \A r \in Rows : Before(r) \subseteq Rows
  BY InboxAPIAssumption DEF TypeOK, Before
<1>2. QED
  BY <1>1, FS_Subset, FS_CardinalityType

\* A smaller number of pages holds no more rows.
LEMMA FewerPages ==
    ASSUME NEW m \in Nat, NEW n \in Nat, NEW p \in Nat, m <= n
    PROVE  m * p <= n * p
<1>1. PICK d \in Nat : n = m + d
  <2>1. n - m \in Nat /\ n = m + (n - m)
    OBVIOUS
  <2>2. QED
    BY <2>1
<1>2. n * p = m * p + d * p /\ d * p \in Nat /\ m * p \in Nat
  BY <1>1
<1>3. QED
  BY <1>2

\* Rounding up to whole pages: a page is followed by another one exactly when
\* rows are left after it.
LEMMA PagesLeft ==
    ASSUME NEW p \in Nat, NEW size \in Nat \ {0}, NEW n \in Nat
    PROVE  p < (n + size - 1) \div size <=> p * size < n
<1> DEFINE q == (n + size - 1) \div size
<1>1. PICK t \in Nat : t = n + size - 1
  <2>1. n + size - 1 \in Nat
    OBVIOUS
  <2>2. QED
    BY <2>1
<1>2. q \in Nat /\ q * size <= t /\ t < q * size + size
  <2>1. \A u \in Nat, m \in Nat \ {0} : u \div m \in Nat /\ (u \div m) * m <= u /\ u < (u \div m) * m + m
    OBVIOUS
  <2>2. q = t \div size
    BY <1>1
  <2>3. QED
    BY <1>1, <2>1, <2>2
<1> HIDE DEF q
<1>3. p * size \in Nat /\ q * size \in Nat /\ (p + 1) * size = p * size + size
  BY <1>2
<1>4. p < q => p * size + size <= q * size
  <2>1. SUFFICES ASSUME p < q PROVE (p + 1) * size <= q * size
    BY <1>3
  <2>2. p + 1 \in Nat /\ p + 1 <= q
    BY <1>2, <2>1
  <2>3. QED
    BY <1>2, <2>2, FewerPages
<1>5. ~ (p < q) => q * size <= p * size
  BY <1>2, FewerPages
<1>6. p < q <=> p * size < n
  BY <1>1, <1>2, <1>3, <1>4, <1>5
<1>7. QED
  BY <1>6 DEF q

\* A row is at most at the last place of its list.
LEMMA PlaceOfRow ==
    ASSUME TypeOK, NEW s \in Sorted(stored), NEW r \in stored
    PROVE  \E k \in 1 .. Len(s) : s[k] = r /\ (NoTies => Cardinality(Before(r)) = k - 1)
                                           /\ Cardinality(Before(r)) <= k - 1
<1>1. PICK k \in 1 .. Len(s) : s[k] = r
  BY SortedHoldsAll
<1>2. QED
  BY <1>1, PlaceIsRank

\* A page that begins within the rows there are does not overflow.
LEMMA InRangeFits ==
    ASSUME TypeOK, (page - 1) * pageSize <= Cardinality(Rows)
    PROVE  NoOverflow
<1>1. /\ (page - 1) * pageSize \in Nat /\ page * pageSize = (page - 1) * pageSize + pageSize
      /\ pageSize <= PageSizeCap
  BY PageEnds DEF TypeOK
<1>2. Cardinality(Rows) \in Nat /\ PageSizeCap \in Nat /\ MaxInt \in Nat
  BY BeforeIsFinite, InboxAPIAssumption
<1>3. QED
  BY <1>1, <1>2, RowsFitInAnInt DEF TypeOK, NoOverflow

\* What giving a page leaves as it was, and what it tells.
LEMMA Given ==
    ASSUME TypeOK, CountedTotal, ListInMemory \/ SelectPage
    PROVE  /\ UNCHANGED <<backend, list, time, stored, gone, page, pageSize, order>>
           /\ UNCHANGED <<fromStart, kept, inserted, removed, raced>>
           /\ pc = "page" /\ pc' = "answered"
           /\ seen' = seen \cup ToSet(items') /\ served' = served + Len(items')
           /\ raced \/ total' = Cardinality(stored)
           /\ total' \in {total, Cardinality(stored)}
           /\ NoTies' <=> NoTies
           /\ \A r : Before(r)' = Before(r)
<1>1. /\ UNCHANGED <<backend, list, time, stored, gone, page, pageSize, order>>
      /\ UNCHANGED <<fromStart, kept, inserted, removed, raced>>
      /\ pc = "page"
      /\ raced \/ total' = Cardinality(stored)
      /\ total' \in {total, Cardinality(stored)}
  BY DEF ListInMemory, SelectPage, CountedTotal, rows, query
<1>2. Give(items')
  BY ServedPage
<1>3. QED
  BY <1>1, <1>2 DEF Give, NoTies, Before, Precedes, Earlier

\* Giving a page whose first row no number of rows reaches: it is a client's
\* first one, and every row is behind.
LEMMA GivingBeyond ==
    ASSUME TypeOK, CountedTotal, WalkInv, ListInMemory \/ SelectPage,
           ~ ((page - 1) * pageSize <= Cardinality(Rows))
    PROVE  (LeftAreAhead /\ NothingLeft /\ SeenAreBehind)'
<1>1. seen = {} /\ served = 0 /\ ~ fromStart /\ ~ fromStart'
  BY Given DEF WalkInv, InRange, Listing
<1>2. PICK s \in Sorted(stored), a \in Nat, b \in Nat :
         /\ IsCut(items', s, a, b)
         /\ Cardinality(ToSet(items')) = b - a /\ ToSet(items') = HeldFrom(s, a + 1, b)
  BY ServedPage
<1>3. s \in Seq(stored) /\ Len(s) = Cardinality(stored) /\ Len(s) \in Nat
  BY SortedHoldsAll
<1>4. Len(items') = b - a /\ b <= Len(s)
  BY <1>2 DEF IsCut
<1>5. seen' = ToSet(items') /\ served' = b - a
  BY <1>1, <1>4, Given
<1>6. /\ page * pageSize \in Nat /\ (page - 1) * pageSize \in Nat
      /\ (page - 1) * pageSize <= page * pageSize
  BY PageEnds
<1>7. ASSUME NEW r \in seen' PROVE Cardinality(Before(r)) < page * pageSize
  <2>1. PICK k \in a + 1 .. b : s[k] = r
    BY <1>2, <1>5 DEF HeldFrom
  <2>2. k \in 1 .. Len(s)
    BY <1>3, <1>4, <2>1
  <2>3. Cardinality(Before(r)) \in Nat /\ Cardinality(Before(r)) <= k - 1
    BY <2>1, <2>2, PlaceIsRank
  <2>4. Cardinality(stored) \in Nat /\ Cardinality(Rows) \in Nat /\ Cardinality(stored) <= Cardinality(Rows)
    BY BeforeIsFinite
  <2>5. QED
    BY <1>3, <1>6, <2>2, <2>3, <2>4
<1>8. ServedUpTo' = page * pageSize
  BY Given DEF ServedUpTo
<1>9. SeenAreBehind'
  BY <1>2, <1>5, <1>7, <1>8, Given DEF SeenAreBehind
<1>10. QED
  BY <1>1, <1>9 DEF LeftAreAhead, NothingLeft

\* Giving a page that begins within the rows there are: in a list without ties
\* its rows are those of the ranks its number says.
LEMMA GivingRanks ==
    ASSUME TypeOK, NoTies, ListInMemory \/ SelectPage,
           (page - 1) * pageSize <= Cardinality(Rows),
           NEW r \in stored
    PROVE  r \in ToSet(items') <=> /\ Cardinality(Before(r)) >= (page - 1) * pageSize
                                   /\ Cardinality(Before(r)) < page * pageSize
<1>1. PICK s \in Sorted(stored), a \in Nat, b \in Nat :
         /\ IsCut(items', s, a, b) /\ Asked(a, b, Len(s))
         /\ ToSet(items') = HeldFrom(s, a + 1, b)
  BY ServedPage, InRangeFits
<1>2. /\ s \in Seq(stored) /\ Len(s) \in Nat
      /\ \A j, k \in 1 .. Len(s) : s[j] = s[k] => j = k
  BY SortedHoldsAll
<1>3. PICK k \in 1 .. Len(s) : s[k] = r /\ Cardinality(Before(r)) = k - 1
  BY PlaceOfRow
<1>4. a <= b /\ b <= Len(s)
  BY <1>1 DEF IsCut
<1>5. r \in ToSet(items') <=> k \in a + 1 .. b
  BY <1>1, <1>2, <1>3, <1>4 DEF HeldFrom
<1>6. /\ page * pageSize \in Nat /\ (page - 1) * pageSize \in Nat
      /\ a = Lesser((page - 1) * pageSize, Len(s)) /\ b = Lesser(page * pageSize, Len(s))
  BY <1>1, PageEnds DEF Asked
<1>7. QED
  BY <1>2, <1>3, <1>5, <1>6 DEF Lesser

\* Such a page takes every row that was left and reaches up to its end, and
\* holds no row that was given before.
LEMMA GivingWithin ==
    ASSUME TypeOK, KeptIsStored, CountedTotal, WalkInv, ListInMemory \/ SelectPage,
           (page - 1) * pageSize <= Cardinality(Rows)
    PROVE  (LeftAreAhead /\ NothingLeft /\ SeenAreBehind)'
<1>1. /\ page * pageSize \in Nat /\ (page - 1) * pageSize \in Nat
      /\ (page - 1) * pageSize <= page * pageSize
  BY PageEnds
<1>2. /\ ServedUpTo = (page - 1) * pageSize /\ ServedUpTo' = page * pageSize
      /\ Listing /\ UnderWay /\ (NoTies' <=> NoTies) /\ \A r : Before(r)' = Before(r)
  BY Given DEF ServedUpTo, Listing, UnderWay
<1>3. /\ IsFiniteSet(stored) /\ Cardinality(stored) \in Nat
      /\ \A r \in stored : Cardinality(Before(r)) \in Nat /\ Cardinality(Before(r)) < Cardinality(stored)
  <2>1. PICK s \in Sorted(stored) : s \in Seq(stored) /\ Len(s) = Cardinality(stored)
    BY ServedPage, SortedHoldsAll
  <2>2. \A r \in stored : Cardinality(Before(r)) \in Nat
    BY BeforeIsFinite DEF TypeOK
  <2>3. \A r \in stored : \E k \in 1 .. Len(s) : Cardinality(Before(r)) <= k - 1
    BY PlaceOfRow
  <2>4. Cardinality(stored) \in Nat /\ IsFiniteSet(stored)
    BY BeforeIsFinite
  <2>5. QED
    BY <2>1, <2>2, <2>3, <2>4
<1>4. ASSUME fromStart', NoTies', ~ removed', NEW r \in kept' \ seen'
      PROVE  r \in stored /\ Cardinality(Before(r)) >= page * pageSize
  <2>1. r \in stored /\ r \in kept \ seen /\ r \notin ToSet(items')
    BY <1>2, <1>4, Given DEF KeptIsStored
  <2>2. fromStart /\ NoTies /\ ~ removed
    <3>1. fromStart' = fromStart /\ removed' = removed
      BY Given
    <3>2. QED
      BY <1>2, <1>4, <3>1
  <2>3. Cardinality(Before(r)) >= (page - 1) * pageSize
    BY <1>2, <2>1, <2>2 DEF WalkInv, LeftAreAhead
  <2>4. QED
    BY <1>1, <1>3, <2>1, <2>2, <2>3, GivingRanks
<1>5. LeftAreAhead'
  BY <1>2, <1>4 DEF LeftAreAhead
<1>6. NothingLeft'
  <2>1. SUFFICES ASSUME (~ hasNext)', fromStart', NoTies', ~ removed', ~ raced',
                        NEW r \in kept', r \notin seen'
                 PROVE  FALSE
    BY DEF NothingLeft
  <2>2. Cardinality(Before(r)) >= page * pageSize /\ r \in stored
    BY <1>4, <2>1
  <2>3. total' = Cardinality(stored)
    <3>1. raced' = raced /\ (raced \/ total' = Cardinality(stored))
      BY Given
    <3>2. QED
      BY <2>1, <3>1
  <2>4. page' = page /\ pageSize' = pageSize /\ page \in Nat /\ pageSize \in Nat \ {0}
    BY Given, PageEnds DEF TypeOK
  <2>5. ~ (page < (Cardinality(stored) + pageSize - 1) \div pageSize)
    BY <2>1, <2>3, <2>4 DEF hasNext, totalPages
  <2>7. ~ (page * pageSize < Cardinality(stored))
    BY <1>3, <2>4, <2>5, PagesLeft
  <2>8. QED
    BY <1>1, <1>3, <2>2, <2>7
<1>7. SeenAreBehind'
  <2>1. SUFFICES ASSUME NoTies', ~ inserted'
                 PROVE  /\ served' = Cardinality(seen')
                        /\ \A r \in seen' \cap stored' : Cardinality(Before(r)) < page * pageSize
    BY <1>2 DEF SeenAreBehind
  <2>2. NoTies /\ ~ inserted
    BY <1>2, <2>1, Given
  <2>3. /\ served = Cardinality(seen)
        /\ \A r \in seen \cap stored : Cardinality(Before(r)) < (page - 1) * pageSize
    BY <1>2, <2>2 DEF WalkInv, SeenAreBehind
  <2>4. \A r \in ToSet(items') : /\ r \in stored
                                 /\ Cardinality(Before(r)) >= (page - 1) * pageSize
                                 /\ Cardinality(Before(r)) < page * pageSize
    BY <2>2, GivingRanks, ServedRanks, InRangeFits
  <2>5. seen \cap ToSet(items') = {}
    BY <1>1, <1>3, <2>3, <2>4
  <2>6. IsFiniteSet(seen) /\ IsFiniteSet(ToSet(items')) /\ Len(items') = Cardinality(ToSet(items'))
    <3>1. seen \subseteq Rows /\ IsFiniteSet(Rows)
      BY BeforeIsFinite DEF TypeOK
    <3>2. QED
      BY <3>1, FS_Subset, ServedPage, ServedRanks, InRangeFits
  <2>7. Cardinality(seen \cup ToSet(items')) = Cardinality(seen) + Cardinality(ToSet(items'))
    <3>1. Cardinality(seen) \in Nat /\ Cardinality(ToSet(items')) \in Nat
      BY <2>6, FS_CardinalityType
    <3>2. Cardinality(seen \cap ToSet(items')) = 0
      BY <2>5, FS_EmptySet
    <3>3. /\ IsFiniteSet(seen) /\ IsFiniteSet(ToSet(items'))
          /\ Cardinality(seen \cup ToSet(items'))
               = Cardinality(seen) + Cardinality(ToSet(items')) - Cardinality(seen \cap ToSet(items'))
      BY <2>6, FS_Union
    <3>4. QED
      BY ONLY <3>1, <3>2, <3>3
  <2>8. served' = Cardinality(seen')
    BY <2>3, <2>6, <2>7, Given
  <2>9. ASSUME NEW r \in seen' \cap stored' PROVE Cardinality(Before(r)) < page * pageSize
    BY <1>1, <1>3, <2>3, <2>4, <2>9, Given
  <2>10. QED
    BY <2>8, <2>9
<1>8. QED
  BY <1>5, <1>6, <1>7

\* Giving a page keeps what the walk is about.
LEMMA GivingKeepsWalk ==
    ASSUME TypeOK, KeptIsStored, CountedTotal, WalkInv, ListInMemory \/ SelectPage
    PROVE  WalkInv'
<1>1. (LeftAreAhead /\ NothingLeft /\ SeenAreBehind)'
  BY GivingBeyond, GivingWithin
<1>2. pc' = "answered"
  BY Given
<1>3. total' <= Cardinality(Rows)
  BY Given, BeforeIsFinite DEF WalkInv, InRange
<1>4. InRange' /\ NoWalkYet' /\ WalkMissesNothing'
  BY <1>2, <1>3 DEF InRange, Listing, NoWalkYet, WalkMissesNothing
<1>5. WalkRepeatsNothing'
  BY <1>1, <1>2 DEF SeenAreBehind, WalkRepeatsNothing
<1>6. QED
  BY <1>1, <1>4, <1>5 DEF WalkInv

\* A row that comes can only push others back.
LEMMA InsertKeepsWalk ==
    ASSUME TypeOK, WalkInv, NEW r \in Rows, Insert(r)
    PROVE  WalkInv'
<1>1. /\ UNCHANGED <<backend, list, time, pc, page, pageSize, order, total>>
      /\ UNCHANGED <<fromStart, kept, seen, served, removed>>
      /\ stored' = stored \cup {r} /\ gone' = gone
      /\ inserted' = (inserted \/ UnderWay)
      /\ raced' = (raced \/ BetweenStatements)
  BY DEF Insert, query, result
<1>2. NoTies' => NoTies
  BY <1>1 DEF NoTies
<1>3. \A o \in Rows : Cardinality(Before(o)') >= Cardinality(Before(o))
  <2>1. SUFFICES ASSUME NEW o \in Rows PROVE Cardinality(Before(o)') >= Cardinality(Before(o))
    OBVIOUS
  <2>2. Before(o) \subseteq Before(o)' /\ Before(o)' \subseteq Rows
    BY <1>1 DEF Before, Precedes, Earlier, TypeOK
  <2>3. IsFiniteSet(Before(o)')
    BY <2>2, BeforeIsFinite, FS_Subset
  <2>4. QED
    BY <2>2, <2>3, FS_Subset, FS_CardinalityType
<1>4. /\ Listing' <=> Listing
      /\ ServedUpTo' = ServedUpTo /\ ServedUpTo \in Nat
      /\ hasNext' <=> hasNext
  BY <1>1, PageEnds DEF Listing, ServedUpTo, hasNext, totalPages
<1>5. InRange' /\ NoWalkYet'
  BY <1>1, <1>4 DEF WalkInv, InRange, NoWalkYet
<1>6. LeftAreAhead'
  <2>1. SUFFICES ASSUME Listing \/ pc = "answered", fromStart, NoTies, ~ removed, NEW o \in kept \ seen
                 PROVE  Cardinality(Before(o)') >= ServedUpTo
    BY <1>1, <1>2, <1>4 DEF LeftAreAhead
  <2>2. Cardinality(Before(o)) >= ServedUpTo /\ o \in Rows
    BY <2>1 DEF WalkInv, LeftAreAhead, TypeOK
  <2>3. Cardinality(Before(o)) \in Nat /\ Cardinality(Before(o)') \in Nat
    <3>1. Before(o)' \subseteq Rows
      BY <1>1 DEF Before, TypeOK
    <3>2. QED
      BY <2>2, <3>1, BeforeIsFinite, FS_Subset, FS_CardinalityType
  <2>4. QED
    BY <1>3, <1>4, <2>2, <2>3
<1>7. NothingLeft'
  BY <1>1, <1>2, <1>4 DEF WalkInv, NothingLeft
<1>8. SeenAreBehind'
  BY <1>1, <1>4 DEF SeenAreBehind, Listing, UnderWay
<1>9. WalkMissesNothing'
  BY <1>1, <1>2 DEF WalkInv, WalkMissesNothing
<1>10. WalkRepeatsNothing'
  BY <1>1, <1>2 DEF WalkInv, WalkRepeatsNothing
<1>11. QED
  BY <1>5, <1>6, <1>7, <1>8, <1>9, <1>10 DEF WalkInv

\* A row that leaves can only pull others forward.
LEMMA TakeAwayKeepsWalk ==
    ASSUME TypeOK, WalkInv, NEW r \in Rows, TakeAway(r)
    PROVE  WalkInv'
<1>1. /\ UNCHANGED <<backend, list, time, pc, page, pageSize, order, total>>
      /\ UNCHANGED <<fromStart, seen, served, inserted>>
      /\ stored' = stored \ {r} /\ gone' = gone \cup {r} /\ r \in stored
      /\ kept' = (IF UnderWay THEN kept \ {r} ELSE kept)
      /\ removed' = (removed \/ UnderWay)
      /\ raced' = (raced \/ BetweenStatements)
  BY DEF TakeAway, query, result
<1>2. NoTies' <=> NoTies
  BY <1>1 DEF NoTies
<1>3. \A o \in Rows : /\ Cardinality(Before(o)') \in Nat /\ Cardinality(Before(o)) \in Nat
                      /\ Cardinality(Before(o)') <= Cardinality(Before(o))
  <2>1. SUFFICES ASSUME NEW o \in Rows
                 PROVE  /\ Cardinality(Before(o)') \in Nat /\ Cardinality(Before(o)) \in Nat
                        /\ Cardinality(Before(o)') <= Cardinality(Before(o))
    OBVIOUS
  <2>2. Before(o)' \subseteq Before(o)
    BY <1>1 DEF Before, Precedes, Earlier
  <2>3. QED
    BY <2>2, BeforeIsFinite, FS_Subset, FS_CardinalityType
<1>4. /\ Listing' <=> Listing
      /\ ServedUpTo' = ServedUpTo /\ ServedUpTo \in Nat
      /\ hasNext' <=> hasNext
  BY <1>1, PageEnds DEF Listing, ServedUpTo, hasNext, totalPages
<1>5. InRange' /\ NoWalkYet'
  BY <1>1, <1>4 DEF WalkInv, InRange, NoWalkYet
<1>6. LeftAreAhead'
  BY <1>1, <1>4 DEF LeftAreAhead, Listing, UnderWay
<1>7. NothingLeft'
  BY <1>1, <1>2, <1>4 DEF WalkInv, NothingLeft
<1>8. SeenAreBehind'
  <2>1. SUFFICES ASSUME Listing \/ pc = "answered", NoTies, ~ inserted
                 PROVE  /\ served = Cardinality(seen)
                        /\ \A o \in seen \cap stored' : Cardinality(Before(o)') < ServedUpTo
    BY <1>1, <1>2, <1>4 DEF SeenAreBehind
  <2>2. /\ served = Cardinality(seen)
        /\ \A o \in seen \cap stored : Cardinality(Before(o)) < ServedUpTo
    BY <2>1 DEF WalkInv, SeenAreBehind
  <2>3. seen \cap stored' \subseteq seen \cap stored /\ stored \subseteq Rows
    BY <1>1 DEF TypeOK
  <2>4. QED
    BY <1>3, <1>4, <2>2, <2>3
<1>9. WalkMissesNothing'
  BY <1>1, <1>2 DEF WalkInv, WalkMissesNothing, UnderWay
<1>10. WalkRepeatsNothing'
  BY <1>1, <1>2 DEF WalkInv, WalkRepeatsNothing
<1>11. QED
  BY <1>5, <1>6, <1>7, <1>8, <1>9, <1>10 DEF WalkInv

\* A step that gives no page, moves no row and turns no page leaves it as it was.
LEMMA QuietStepKeepsWalk ==
    ASSUME TypeOK, WalkInv,
           UNCHANGED <<backend, list, rows, query, fromStart, kept, seen, served, inserted, removed>>,
           total' <= Cardinality(Rows),
           \/ pc' \notin {"idle", "answered", "done"} /\ (Listing' => Listing)
           \/ pc' = pc /\ UNCHANGED <<total, raced>>
    PROVE  WalkInv'
<1>1. /\ NoTies' <=> NoTies
      /\ \A r : Before(r)' = Before(r)
      /\ page' = page /\ pageSize' = pageSize /\ stored' = stored
  BY DEF NoTies, Before, Precedes, Earlier, rows, query
<1>2. CASE pc' \notin {"idle", "answered", "done"} /\ (Listing' => Listing)
  <2>1. Listing' => ServedUpTo' = ServedUpTo
    BY <1>1, <1>2 DEF ServedUpTo, Listing
  <2>2. InRange' /\ NoWalkYet'
    BY <1>1, <1>2 DEF WalkInv, InRange, NoWalkYet
  <2>3. LeftAreAhead'
    BY <1>1, <1>2, <2>1 DEF WalkInv, LeftAreAhead
  <2>4. SeenAreBehind'
    BY <1>1, <1>2, <2>1 DEF WalkInv, SeenAreBehind
  <2>5. NothingLeft' /\ WalkMissesNothing' /\ WalkRepeatsNothing'
    BY <1>2 DEF NothingLeft, WalkMissesNothing, WalkRepeatsNothing
  <2>6. QED
    BY <2>2, <2>3, <2>4, <2>5 DEF WalkInv
<1>3. CASE pc' = pc /\ UNCHANGED <<total, raced>>
  <2>1. ServedUpTo' = ServedUpTo /\ (Listing' <=> Listing) /\ (hasNext' <=> hasNext)
    BY <1>1, <1>3 DEF ServedUpTo, Listing, hasNext, totalPages
  <2>2. InRange' /\ NoWalkYet'
    BY <1>1, <1>3, <2>1 DEF WalkInv, InRange, NoWalkYet
  <2>3. LeftAreAhead'
    BY <1>1, <1>3, <2>1 DEF WalkInv, LeftAreAhead
  <2>4. SeenAreBehind'
    BY <1>1, <1>3, <2>1 DEF WalkInv, SeenAreBehind
  <2>5. NothingLeft' /\ WalkMissesNothing' /\ WalkRepeatsNothing'
    BY <1>1, <1>3, <2>1 DEF WalkInv, NothingLeft, WalkMissesNothing, WalkRepeatsNothing
  <2>6. QED
    BY <2>2, <2>3, <2>4, <2>5 DEF WalkInv
<1>4. QED
  BY <1>2, <1>3

\* A call begins with nothing seen, and a walk from page 1 with nothing to reach to.
LEMMA BeginningKeepsWalk ==
    ASSUME TypeOK, TypeOK', WalkInv, pc = "idle", StartHistory, UNCHANGED <<rows, total>>,
           pc' \in {"lookup", "count", "page", "update", "reread"},
           fromStart' => page' = 1
    PROVE  WalkInv'
<1>1. seen' = {} /\ served' = 0 /\ Cardinality({}) = 0
  BY FS_EmptySet DEF StartHistory
<1>2. /\ page' \in Nat /\ pageSize' \in Nat
      /\ Cardinality(Rows) \in Nat
  BY BeforeIsFinite, InboxAPIAssumption DEF TypeOK
<1>3. page' = 1 => (page' - 1) * pageSize' = 0
  <2>1. \A p \in Nat : 0 * p = 0
    OBVIOUS
  <2>2. page' = 1 => page' - 1 = 0
    OBVIOUS
  <2>3. QED
    BY <1>2, <2>1, <2>2
<1>4. InRange'
  BY <1>1, <1>2, <1>3 DEF WalkInv, InRange
<1>5. LeftAreAhead'
  <2>1. SUFFICES ASSUME fromStart', NEW r \in kept' \ seen'
                 PROVE  Cardinality(Before(r)') >= ServedUpTo'
    BY DEF LeftAreAhead
  <2>2. ServedUpTo' = 0
    BY <1>3, <2>1 DEF ServedUpTo
  <2>3. Cardinality(Before(r)') \in Nat
    <3>1. Before(r)' \subseteq Rows
      BY DEF Before, TypeOK
    <3>2. QED
      BY <3>1, BeforeIsFinite, FS_Subset, FS_CardinalityType
  <2>4. QED
    BY <2>2, <2>3
<1>6. SeenAreBehind'
  BY <1>1 DEF SeenAreBehind
<1>7. NothingLeft' /\ NoWalkYet' /\ WalkMissesNothing' /\ WalkRepeatsNothing'
  BY DEF NothingLeft, NoWalkYet, WalkMissesNothing, WalkRepeatsNothing
<1>8. QED
  BY <1>4, <1>5, <1>6, <1>7 DEF WalkInv

\* The next page begins where this one ends.
LEMMA NextPageKeepsWalk == ASSUME TypeOK, TypeOK', WalkInv, NextPage PROVE WalkInv'
<1>1. /\ NoTies' <=> NoTies
      /\ \A r : Before(r)' = Before(r)
      /\ stored' = stored /\ pageSize' = pageSize /\ page' = page + 1
      /\ UNCHANGED <<fromStart, kept, seen, served, inserted, removed>>
      /\ total' = 0 /\ pc = "answered" /\ pc' \in {"lookup", "count", "page"}
  BY DEF NextPage, FirstStep, NoTies, Before, Precedes, Earlier, rows
<1>2. /\ page * pageSize \in Nat /\ page \in Nat /\ pageSize \in Nat \ {0} /\ total \in Nat
      /\ Cardinality(Rows) \in Nat
  BY PageEnds, BeforeIsFinite DEF TypeOK
<1>3. (page' - 1) * pageSize' = page * pageSize
  <2>1. page' - 1 = page
    BY <1>1, <1>2
  <2>2. QED
    BY <1>1, <2>1
<1>4. page * pageSize < total
  BY <1>2, PagesLeft DEF NextPage, hasNext, totalPages
<1>5. ServedUpTo' = ServedUpTo
  BY <1>1, <1>3 DEF ServedUpTo
<1>6. InRange' /\ NoWalkYet'
  BY <1>1, <1>2, <1>3, <1>4 DEF WalkInv, InRange, NoWalkYet
<1>7. LeftAreAhead'
  BY <1>1, <1>5 DEF WalkInv, LeftAreAhead
<1>8. SeenAreBehind'
  BY <1>1, <1>5 DEF WalkInv, SeenAreBehind
<1>9. NothingLeft' /\ WalkMissesNothing' /\ WalkRepeatsNothing'
  BY <1>1 DEF NothingLeft, WalkMissesNothing, WalkRepeatsNothing
<1>10. QED
  BY <1>6, <1>7, <1>8, <1>9 DEF WalkInv

\* The walk ends where no page follows.
LEMMA EndOfWalkKeepsWalk == ASSUME TypeOK, WalkInv, EndOfWalk PROVE WalkInv'
<1>1. /\ NoTies' <=> NoTies
      /\ UNCHANGED <<fromStart, kept, seen, served, inserted, removed, raced>>
      /\ total' = 0 /\ pc = "answered" /\ pc' = "done" /\ ~ hasNext
  BY DEF EndOfWalk, NoTies, rows, walk
<1>2. InRange' /\ NoWalkYet' /\ LeftAreAhead' /\ SeenAreBehind' /\ NothingLeft'
  BY <1>1, BeforeIsFinite DEF InRange, Listing, NoWalkYet, LeftAreAhead, SeenAreBehind, NothingLeft
<1>3. WalkMissesNothing' /\ WalkRepeatsNothing'
  BY <1>1 DEF WalkInv, NothingLeft, SeenAreBehind, WalkMissesNothing, WalkRepeatsNothing
<1>4. QED
  BY <1>2, <1>3 DEF WalkInv

\* Every step keeps what the walk is about.
LEMMA WalkInvKept ==
    ASSUME IInv, IInv', CountedTotal, WalkInv, [Next]_vars
    PROVE  WalkInv'
<1> USE DEF rows, query, result, patching, walk
<1>0. TypeOK /\ TypeOK' /\ KeptIsStored
  BY DEF IInv
<1>1. total <= Cardinality(Rows) /\ Cardinality(stored) <= Cardinality(Rows)
  BY <1>0, BeforeIsFinite DEF WalkInv, InRange
<1>2. CASE \E r \in Rows : Insert(r) \/ TakeAway(r)
  BY <1>0, <1>2, InsertKeepsWalk, TakeAwayKeepsWalk
<1>3. CASE PatchByAnother \/ SoftDeleteInbox \/ UNCHANGED vars
  BY <1>0, <1>1, <1>3, QuietStepKeepsWalk DEF PatchByAnother, SoftDeleteInbox, vars
<1>4. CASE RefuseFilter \/ LookupInbox \/ CountRows \/ ListPanics
  BY <1>0, <1>1, <1>4, QuietStepKeepsWalk DEF RefuseFilter, LookupInbox, CountRows, ListPanics, Listing
<1>5. CASE BeginWalk
  BY <1>0, <1>5, BeginningKeepsWalk DEF BeginWalk, FirstStep
<1>6. CASE BeginDetails \/ BeginPatch
  BY <1>0, <1>6, BeginningKeepsWalk DEF BeginDetails, BeginPatch, WalkInv, NoWalkYet
<1>7. CASE ListInMemory \/ SelectPage
  BY <1>0, <1>7, GivingKeepsWalk
<1>8. CASE NextPage \/ EndOfWalk
  BY <1>0, <1>8, NextPageKeepsWalk, EndOfWalkKeepsWalk
<1>9. CASE GetCapturedRequestByID \/ PatchInMemory \/ UpdateRow \/ RereadInbox \/ Fail
  BY <1>0, <1>1, <1>9, QuietStepKeepsWalk
     DEF GetCapturedRequestByID, PatchInMemory, UpdateRow, RereadInbox, Fail, Listing
<1>10. QED
  BY <1>2, <1>3, <1>4, <1>5, <1>6, <1>7, <1>8, <1>9 DEF Next, Others, Client

\* Before the first call no row is left and none was given.
LEMMA WalkInvFirst == ASSUME Init PROVE WalkInv /\ CountedTotal
<1>1. /\ TypeOK /\ pc = "idle" /\ ~ fromStart /\ total = 0
  BY InitTypes DEF Init
<1>2. Cardinality(Rows) \in Nat
  BY <1>1, BeforeIsFinite
<1>3. QED
  BY <1>1, <1>2 DEF WalkInv, NoWalkYet, InRange, Listing, LeftAreAhead, NothingLeft, SeenAreBehind,
                    WalkMissesNothing, WalkRepeatsNothing, CountedTotal

\* The invariant of a walk, page after page, whoever writes in between.
THEOREM WalkInvariant == Spec => []WalkInv
<1>1. IInv /\ CountedTotal /\ [Next]_vars => CountedTotal'
  BY CountedTotalKept DEF IInv
<1>2. IInv /\ IInv' /\ CountedTotal /\ WalkInv /\ [Next]_vars => WalkInv'
  BY WalkInvKept
<1>3. QED
  BY <1>1, <1>2, WalkInvFirst, Invariant, PTL DEF Spec

\* A walk from page 1 to its end misses no row that was there all the while, in
\* a list of any length with pages of any size, whatever is captured meanwhile:
\* what is left is always ahead of what the pages given so far reach to.
THEOREM WalkMissesNothingHolds == Spec => []WalkMissesNothing
  BY WalkInvariant, PTL DEF WalkInv

\* A walk is given no row twice, whatever is removed meanwhile: what was given
\* is always behind.
THEOREM WalkRepeatsNothingHolds == Spec => []WalkRepeatsNothing
  BY WalkInvariant, PTL DEF WalkInv

================================================================================
