------------------------- MODULE SyncServiceProofs -------------------------
(***************************************************************************)
(* Theorems about SyncService for any number of syncs and transactions,    *)
(* any page size and any bounds.                                           *)
(***************************************************************************)
EXTENDS SyncService, FiniteSetLemmas

-----------------------------------------------------------------------------
(* Type correctness.                                                       *)

LEMMA InitType == Init => TypeOK
<1> SUFFICES ASSUME Init PROVE TypeOK
  OBVIOUS
<1>1. StoreType
  BY DEF Init, StoreType
<1>2. LocalsType
  BY DEF Init, LocalsType, Labels
<1>3. LocalsInScope
  BY DEF Init, LocalsInScope
<1> QED
  BY <1>1, <1>2, <1>3 DEF TypeOK

(* A longer log leaves every event where it was.                           *)
LEMMA PlaidType ==
    ASSUME TypeOK, NEW t \in Txs, PlaidEvent(t)
    PROVE  TypeOK'
<1> USE DEF TypeOK, PlaidEvent, store, locals
<1>1. PICK op \in {"added", "modified", "removed"}, pending \in BOOLEAN :
        log' = Append(log, [op |-> op, tx |-> t, pending |-> pending])
  OBVIOUS
<1>2. log' \in Seq(Event) /\ Len(log') = Len(log) + 1 /\ Len(log) \in Nat
  BY <1>1 DEF StoreType, Event
<1>3. 1..Len(log) \subseteq 1..Len(log')
  BY <1>2
<1>4. StoreType'
  BY <1>2, <1>3 DEF StoreType
<1>5. LocalsType' /\ LocalsInScope'
  BY <1>3 DEF LocalsType, LocalsInScope
<1> QED
  BY <1>4, <1>5

LEMMA FetchType ==
    ASSUME TypeOK, NEW p \in Syncs, Fetch(p)
    PROVE  TypeOK'
<1> DEFINE k == Min({cur[p] + PageSize, Len(log)})
<1> USE DEF TypeOK, store, Goto
<1>1. cur[p] + PageSize \in Nat /\ Len(log) \in Nat /\ cur[p] \in Nat
  BY BoundsAssumption DEF StoreType, LocalsType
<1>2. k \in Nat /\ k <= Len(log)
  BY <1>1, MinOfTwo
<1>3. /\ end' = [end EXCEPT ![p] = k]
      /\ todo' = [todo EXCEPT ![p] = (cur[p] + 1)..k]
      /\ more' = [more EXCEPT ![p] = k < Len(log)]
      /\ pc' = [pc EXCEPT ![p] = "row"]
      /\ pc[p] = "fetch"
      /\ UNCHANGED <<log, store, cache, handled, crashes, cur, seen, failures>>
  BY DEF Fetch
<1> HIDE DEF k
<1>4. (cur[p] + 1)..k \subseteq 1..Len(log)
  BY <1>1, <1>2
<1>5. StoreType'
  BY <1>3 DEF StoreType
<1>6. LocalsType'
  BY <1>2, <1>3, <1>4 DEF LocalsType, Labels
<1>7. LocalsInScope'
  BY <1>3 DEF LocalsType, LocalsInScope
<1> QED
  BY <1>5, <1>6, <1>7

(* What Done and ThenEngine do to the locals of the sync.                  *)
LEMMA DoneType ==
    ASSUME TypeOK, NEW p \in Syncs, NEW e \in todo[p],
           pc[p] \in {"row", "engine"}, Done(p, e) \/ ThenEngine(p, e),
           UNCHANGED <<log, cursorRow, cur, end, more, seen, failures>>
    PROVE  LocalsType' /\ LocalsInScope' /\ handled' \subseteq 1..Len(log')
<1> USE DEF TypeOK, Goto
<1>1. e \in 1..Len(log)
  BY DEF LocalsType
<1>2. CASE Done(p, e)
  <2>1. /\ pc' = [pc EXCEPT ![p] = "row"]
        /\ todo' = [todo EXCEPT ![p] = @ \ {e}]
        /\ handled' = handled \cup {e}
    BY <1>2 DEF Done
  <2>2. LocalsType'
    BY <2>1 DEF LocalsType, Labels
  <2>3. LocalsInScope'
    BY <2>1 DEF LocalsType, LocalsInScope
  <2> QED
    BY <1>1, <2>1, <2>2, <2>3 DEF StoreType
<1>3. CASE pc' = [pc EXCEPT ![p] = "engine"] /\ UNCHANGED <<todo, handled>>
  <2>1. LocalsType'
    BY <1>3 DEF LocalsType, Labels
  <2>2. LocalsInScope'
    BY <1>3 DEF LocalsType, LocalsInScope
  <2> QED
    BY <1>3, <2>1, <2>2 DEF StoreType
<1>4. \/ Done(p, e)
      \/ pc' = [pc EXCEPT ![p] = "engine"] /\ UNCHANGED <<todo, handled>>
  BY Zenon DEF ThenEngine
<1> QED
  BY <1>2, <1>3, <1>4

LEMMA ProcessType ==
    ASSUME TypeOK, NEW p \in Syncs, NEW e \in todo[p],
           \/ AddTransaction(p, e) \/ ModifyTransaction(p, e)
           \/ RemoveTransaction(p, e) \/ RunEngine(p, e) \/ RowFails(p, e)
    PROVE  TypeOK'
<1> USE DEF TypeOK
<1>1. e \in 1..Len(log) /\ e \in Nat
  BY DEF LocalsType
<1>2. log[e].tx \in Txs
  <2>1. log \in Seq(Event)
    BY DEF StoreType
  <2>2. log[e] \in Event
    BY <1>1, <2>1
  <2> QED
    BY <2>2 DEF Event
<1>3. LocalsType' /\ LocalsInScope' /\ handled' \subseteq 1..Len(log')
  BY DoneType DEF AddTransaction, ModifyTransaction, RemoveTransaction,
                  RunEngine, RowFails, store
<1>4. CASE AddTransaction(p, e)
  <2>1. PICK id \in IF rows[log[e].tx] = None THEN UnusedRowIds
                    ELSE {rows[log[e].tx].id} :
              rows' = [rows EXCEPT ![log[e].tx] = [id |-> id, event |-> e]]
    BY <1>4 DEF AddTransaction
  <2>2. id \in RowIds
    BY <1>2, <2>1 DEF UnusedRowIds, StoreType, Row
  <2>3. StoreType'
    BY <1>1, <1>3, <1>4, <2>1, <2>2 DEF AddTransaction, StoreType, Row
  <2> QED
    BY <1>3, <2>3
<1>5. CASE ModifyTransaction(p, e)
  <2>1. rows' \in [Txs -> {None} \cup Row]
    <3>1. CASE rows[log[e].tx] = None
      BY <1>5, <3>1 DEF ModifyTransaction, StoreType
    <3>2. CASE rows[log[e].tx] # None
      <4>1. rows[log[e].tx] \in Row
        BY <1>2, <3>2 DEF StoreType
      <4>2. [rows[log[e].tx] EXCEPT !.event = e] \in Row
        BY <1>1, <4>1 DEF Row
      <4>3. rows' = [rows EXCEPT ![log[e].tx] =
                        [rows[log[e].tx] EXCEPT !.event = e]]
        BY <1>5, <3>2 DEF ModifyTransaction
      <4> QED
        BY <1>2, <4>2, <4>3 DEF StoreType
    <3> QED
      BY <3>1, <3>2
  <2>2. StoreType'
    BY <1>3, <1>5, <2>1 DEF ModifyTransaction, StoreType
  <2> QED
    BY <1>3, <2>2
<1>6. CASE RemoveTransaction(p, e)
  <2>1. StoreType'
    BY <1>2, <1>3, <1>6 DEF RemoveTransaction, StoreType
  <2> QED
    BY <1>3, <2>1
<1>7. CASE RunEngine(p, e)
  <2>1. executions' \subseteq [tx : Txs, row : RowIds]
    BY <1>2, <1>7 DEF RunEngine, StoreType, Row
  <2>2. StoreType'
    BY <1>3, <1>7, <2>1 DEF RunEngine, StoreType
  <2> QED
    BY <1>3, <2>2
<1>8. CASE RowFails(p, e)
  <2>1. StoreType'
    BY <1>3, <1>8 DEF RowFails, StoreType, store
  <2> QED
    BY <1>3, <2>1
<1> QED
  BY <1>4, <1>5, <1>6, <1>7, <1>8

(* What is left of a sync that returns.                                    *)
LEMMA ReturnType ==
    ASSUME TypeOK, NEW p \in Syncs, Return(p), log' = log,
           cursorRow' # None \/ cursorRow' = cursorRow
    PROVE  LocalsType' /\ LocalsInScope'
<1> USE DEF TypeOK, Return, Goto
<1>1. LocalsType'
  BY DEF LocalsType, Labels
<1>2. LocalsInScope'
  BY DEF LocalsType, LocalsInScope
<1> QED
  BY <1>1, <1>2

(* The steps that touch neither rows nor events.                           *)
LEMMA RecordType ==
    ASSUME TypeOK, NEW p \in Syncs,
           \/ GetCursor(p) \/ CreateCursor(p) \/ RecordSuccess(p)
           \/ QueryFailures(p) \/ RecordError(p) \/ RecordFails(p)
    PROVE  TypeOK'
<1> USE DEF TypeOK, store, Goto
<1>1. CASE GetCursor(p)
  <2>1. PICK answer \in {cursorRow} \cup cache :
            /\ cache' = {answer}
            /\ IF answer = None
               THEN pc' = [pc EXCEPT ![p] = "create"] /\ UNCHANGED cur
               ELSE /\ pc' = [pc EXCEPT ![p] = "fetch"]
                    /\ cur' = [cur EXCEPT ![p] = answer.cursor]
    BY <1>1 DEF GetCursor
  <2>2. answer \in {None} \cup CursorRow
    BY DEF StoreType
  <2>3. StoreType'
    BY <1>1, <2>1, <2>2 DEF GetCursor, StoreType
  <2>4. LocalsType'
    BY <1>1, <2>1, <2>2 DEF GetCursor, LocalsType, Labels, CursorRow
  <2>5. answer # None => cursorRow # None
    BY DEF StoreType
  <2>6. LocalsInScope'
    BY <1>1, <2>1, <2>5 DEF GetCursor, LocalsType, LocalsInScope
  <2> QED
    BY <2>3, <2>4, <2>6
<1>2. CASE CreateCursor(p)
  <2>1. [cursor |-> 0, failures |-> 0] \in CursorRow
    BY DEF CursorRow
  <2>2. cursorRow' \in {None} \cup CursorRow /\ cursorRow' # None
    BY <1>2, <2>1, MarkerAssumption DEF CreateCursor, StoreType
  <2>3. StoreType'
    BY <1>2, <2>2 DEF CreateCursor, StoreType
  <2>4. LocalsType'
    BY <1>2 DEF CreateCursor, LocalsType, Labels
  <2>5. LocalsInScope'
    BY <1>2, <2>2 DEF CreateCursor, LocalsType, LocalsInScope
  <2> QED
    BY <2>3, <2>4, <2>5
<1>3. CASE RecordSuccess(p)
  <2>1. cursorRow' \in CursorRow
    BY <1>3 DEF RecordSuccess, LocalsType, CursorRow
  <2>2. cursorRow' # None
    BY <2>1, MarkerAssumption
  <2>3. StoreType'
    BY <1>3, <2>1, <2>2 DEF RecordSuccess, StoreType
  <2>4. LocalsType' /\ LocalsInScope'
    BY <1>3, <2>2, ReturnType DEF RecordSuccess
  <2> QED
    BY <2>3, <2>4
<1>4. CASE QueryFailures(p)
  <2>1. PICK answer \in {cursorRow} \cup cache :
            /\ cache' = {answer}
            /\ IF answer = None
               THEN Return(p)
               ELSE /\ failures' = [failures EXCEPT ![p] = answer.failures]
                    /\ pc' = [pc EXCEPT ![p] = "failure"]
                    /\ UNCHANGED <<cur, todo, end, more, seen>>
    BY <1>4 DEF QueryFailures
  <2>2. /\ answer \in {None} \cup CursorRow
        /\ answer # None => cursorRow # None
    BY DEF StoreType
  <2>3. StoreType'
    BY <1>4, <2>1, <2>2 DEF QueryFailures, StoreType
  <2>4. LocalsType' /\ LocalsInScope'
    <3>1. CASE answer = None
      BY <1>4, <2>1, <3>1, ReturnType DEF QueryFailures
    <3>2. CASE answer # None
      <4>1. LocalsType'
        BY <1>4, <2>1, <2>2, <3>2
           DEF QueryFailures, LocalsType, Labels, CursorRow
      <4>2. LocalsInScope'
        BY <1>4, <2>1, <2>2, <3>2 DEF QueryFailures, LocalsType, LocalsInScope
      <4> QED
        BY <4>1, <4>2
    <3> QED
      BY <3>1, <3>2
  <2> QED
    BY <2>3, <2>4
<1>5. CASE RecordError(p)
  <2> DEFINE n == Min({failures[p] + 1, MaxFailures})
  <2>1. n \in Nat
    <3>1. failures[p] + 1 \in Nat
      BY DEF LocalsType
    <3> QED
      BY <3>1, MinOfTwo, BoundsAssumption
  <2>2. cursorRow \in CursorRow
    BY <1>5 DEF RecordError, LocalsInScope, StoreType
  <2>3. cursorRow' = [cursorRow EXCEPT !.failures = n]
    BY <1>5 DEF RecordError
  <2> HIDE DEF n
  <2>4. cursorRow' \in CursorRow
    BY <2>1, <2>2, <2>3 DEF CursorRow
  <2>5. cursorRow' # None
    BY <2>4, MarkerAssumption
  <2>6. StoreType'
    BY <1>5, <2>4, <2>5 DEF RecordError, StoreType
  <2>7. LocalsType' /\ LocalsInScope'
    BY <1>5, <2>5, ReturnType DEF RecordError
  <2> QED
    BY <2>6, <2>7
<1>6. CASE RecordFails(p)
  <2>1. StoreType'
    BY <1>6 DEF RecordFails, StoreType
  <2>2. LocalsType' /\ LocalsInScope'
    BY <1>6, ReturnType DEF RecordFails
  <2> QED
    BY <2>1, <2>2
<1> QED
  BY <1>1, <1>2, <1>3, <1>4, <1>5, <1>6

LEMMA ControlType ==
    ASSUME TypeOK,
           \/ \E p \in Syncs :
                 \/ SyncItemTransactions(p) \/ FinishPage(p) \/ GetAccounts(p)
                 \/ UpdateAccounts(p) \/ BalancesFail(p) \/ CallFails(p)
           \/ Crash
           \/ UNCHANGED vars
    PROVE  TypeOK'
<1> USE DEF TypeOK, store, Goto
<1>1. ASSUME NEW p \in Syncs,
             \/ SyncItemTransactions(p) \/ FinishPage(p) \/ GetAccounts(p)
             \/ UpdateAccounts(p) \/ BalancesFail(p) \/ CallFails(p)
      PROVE  TypeOK'
  <2>1. CASE SyncItemTransactions(p)
    <3>1. StoreType'
      BY <2>1 DEF SyncItemTransactions, StoreType
    <3>2. LocalsType'
      BY <2>1 DEF SyncItemTransactions, LocalsType, Labels
    <3>3. LocalsInScope'
      BY <2>1 DEF SyncItemTransactions, LocalsType, LocalsInScope
    <3> QED
      BY <3>1, <3>2, <3>3
  <2>2. CASE FinishPage(p)
    <3>1. StoreType'
      BY <2>2 DEF FinishPage, StoreType
    <3>2. LocalsType'
      BY <2>2 DEF FinishPage, LocalsType, Labels
    <3>3. LocalsInScope'
      BY <2>2 DEF FinishPage, LocalsType, LocalsInScope
    <3> QED
      BY <3>1, <3>2, <3>3
  <2>3. CASE GetAccounts(p)
    <3>1. StoreType'
      BY <2>3 DEF GetAccounts, StoreType
    <3>2. LocalsType'
      BY <2>3 DEF GetAccounts, StoreType, LocalsType, Labels
    <3>3. LocalsInScope'
      BY <2>3 DEF GetAccounts, LocalsType, LocalsInScope
    <3> QED
      BY <3>1, <3>2, <3>3
  <2>4. CASE UpdateAccounts(p)
    <3>1. StoreType'
      BY <2>4 DEF UpdateAccounts, StoreType, LocalsType
    <3>2. LocalsType'
      BY <2>4 DEF UpdateAccounts, LocalsType, Labels
    <3>3. LocalsInScope'
      BY <2>4 DEF UpdateAccounts, LocalsType, LocalsInScope
    <3> QED
      BY <3>1, <3>2, <3>3
  <2>5. CASE BalancesFail(p)
    <3>1. StoreType'
      BY <2>5 DEF BalancesFail, StoreType
    <3>2. LocalsType'
      BY <2>5 DEF BalancesFail, LocalsType, Labels
    <3>3. LocalsInScope'
      BY <2>5 DEF BalancesFail, LocalsType, LocalsInScope
    <3> QED
      BY <3>1, <3>2, <3>3
  <2>6. CASE CallFails(p)
    <3>1. StoreType'
      BY <2>6 DEF CallFails, Fail, StoreType
    <3>2. LocalsType'
      BY <2>6 DEF CallFails, Fail, LocalsType, Labels
    <3>3. LocalsInScope'
      BY <2>6 DEF CallFails, Fail, LocalsType, LocalsInScope
    <3> QED
      BY <3>1, <3>2, <3>3
  <2> QED
    BY <1>1, <2>1, <2>2, <2>3, <2>4, <2>5, <2>6
<1>2. CASE Crash
  <2>1. StoreType'
    BY <1>2 DEF Crash, StoreType
  <2>2. LocalsType'
    BY <1>2 DEF Crash, LocalsType, Labels
  <2>3. LocalsInScope'
    BY <1>2 DEF Crash, LocalsInScope
  <2> QED
    BY <2>1, <2>2, <2>3
<1>3. CASE UNCHANGED vars
  BY <1>3 DEF vars, StoreType, LocalsType, LocalsInScope
<1> QED
  BY <1>1, <1>2, <1>3

LEMMA NextType ==
    ASSUME TypeOK, [Next]_vars
    PROVE  TypeOK'
<1>1. CASE Next
  BY <1>1, PlaidType, FetchType, ProcessType, RecordType, ControlType
     DEF Next, Progress, ProcessEvent, Fault
<1>2. CASE UNCHANGED vars
  BY <1>2, ControlType
<1> QED
  BY <1>1, <1>2

-----------------------------------------------------------------------------
(* The cursor and the work behind it.  The stored cursor is some sync's    *)
(* cur, and that is the end of a page all of whose events are dealt with;  *)
(* a cached cursor was a stored one.                                       *)

Covered(c) == 1..c \subseteq handled

RowsCovered ==
    \A row \in {cursorRow} \cup cache : row # None => Covered(row.cursor)

LocalsCovered ==
    \A p \in Syncs :
        /\ Covered(cur[p])
        /\ pc[p] \in {"row", "engine"} =>
              (cur[p] + 1)..end[p] \subseteq handled \cup todo[p]

WorkCovered == RowsCovered /\ LocalsCovered

LEMMA InitCovered == Init => WorkCovered
  BY DEF Init, WorkCovered, RowsCovered, LocalsCovered, Covered

(* A sync returns; what it may store is covered.                           *)
LEMMA ReturnCovered ==
    ASSUME TypeOK, WorkCovered, NEW p \in Syncs, Return(p),
           UNCHANGED handled,
           \A row \in {cursorRow'} \cup cache' :
               row # None => \/ row \in {cursorRow} \cup cache
                             \/ row.cursor = cur[p]
                             \/ /\ cursorRow # None
                                /\ row.cursor = cursorRow.cursor
    PROVE  WorkCovered'
<1> USE DEF WorkCovered, Covered
<1>1. RowsCovered'
  BY DEF RowsCovered, LocalsCovered
<1>2. LocalsCovered'
  BY DEF LocalsCovered, Return, Goto, TypeOK, LocalsType
<1> QED
  BY <1>1, <1>2

(* The steps that move no cursor.                                          *)
LEMMA OthersCovered ==
    ASSUME TypeOK, WorkCovered,
           UNCHANGED <<cursorRow, cache, cur, todo, end, handled>>,
           \A p \in Syncs : pc'[p] \in {"row", "engine"} => pc'[p] = pc[p]
    PROVE  WorkCovered'
BY DEF WorkCovered, RowsCovered, LocalsCovered, Covered

LEMMA ProcessCovered ==
    ASSUME TypeOK, WorkCovered, NEW p \in Syncs, NEW e \in todo[p],
           \/ AddTransaction(p, e) \/ ModifyTransaction(p, e)
           \/ RemoveTransaction(p, e) \/ RunEngine(p, e) \/ RowFails(p, e)
    PROVE  WorkCovered'
<1>1. /\ UNCHANGED <<cursorRow, cache, cur, end>>
      /\ pc[p] \in {"row", "engine"}
      /\ \A q \in Syncs \ {p} : pc'[q] = pc[q] /\ todo'[q] = todo[q]
      /\ handled \subseteq handled'
      /\ handled \cup todo[p] \subseteq handled' \cup todo'[p]
  <2>1. /\ UNCHANGED <<cursorRow, cache, cur, end>>
        /\ pc[p] \in {"row", "engine"}
        /\ Done(p, e) \/ ThenEngine(p, e)
    BY DEF AddTransaction, ModifyTransaction, RemoveTransaction, RunEngine,
           RowFails, store
  <2>2. \/ Done(p, e)
        \/ pc' = [pc EXCEPT ![p] = "engine"] /\ UNCHANGED <<todo, handled>>
    BY <2>1, Zenon DEF ThenEngine, Goto
  <2>3. CASE Done(p, e)
    BY <2>1, <2>3 DEF Done, Goto, TypeOK, LocalsType
  <2>4. CASE pc' = [pc EXCEPT ![p] = "engine"] /\ UNCHANGED <<todo, handled>>
    BY <2>1, <2>4 DEF TypeOK, LocalsType
  <2> QED
    BY <2>2, <2>3, <2>4
<1>2. RowsCovered'
  BY <1>1 DEF WorkCovered, RowsCovered, Covered
<1>3. LocalsCovered'
  <2> SUFFICES ASSUME NEW q \in Syncs
               PROVE  /\ Covered(cur[q])'
                      /\ pc'[q] \in {"row", "engine"} =>
                            (cur'[q] + 1)..end'[q] \subseteq handled' \cup todo'[q]
    BY DEF LocalsCovered
  <2>1. Covered(cur[q])'
    BY <1>1 DEF WorkCovered, LocalsCovered, Covered
  <2>2. CASE q = p
    BY <1>1, <2>1, <2>2 DEF WorkCovered, LocalsCovered
  <2>3. CASE q # p
    BY <1>1, <2>1, <2>3 DEF WorkCovered, LocalsCovered
  <2> QED
    BY <2>2, <2>3
<1> QED
  BY <1>2, <1>3 DEF WorkCovered

LEMMA NextCovered ==
    ASSUME TypeOK, WorkCovered, [Next]_vars
    PROVE  WorkCovered'
<1> USE DEF Goto, store
<1>1. ASSUME NEW p \in Syncs, GetCursor(p)
      PROVE  WorkCovered'
  <2>1. PICK answer \in {cursorRow} \cup cache :
            /\ cache' = {answer}
            /\ IF answer = None
               THEN pc' = [pc EXCEPT ![p] = "create"] /\ UNCHANGED cur
               ELSE /\ pc' = [pc EXCEPT ![p] = "fetch"]
                    /\ cur' = [cur EXCEPT ![p] = answer.cursor]
    BY <1>1 DEF GetCursor
  <2>2. UNCHANGED <<cursorRow, todo, end, handled>>
    BY <1>1 DEF GetCursor
  <2>3. RowsCovered'
    BY <2>1, <2>2 DEF WorkCovered, RowsCovered, Covered
  <2>4. LocalsCovered'
    BY <2>1, <2>2
       DEF WorkCovered, RowsCovered, LocalsCovered, Covered, TypeOK, LocalsType
  <2> QED
    BY <2>3, <2>4 DEF WorkCovered
<1>2. ASSUME NEW p \in Syncs, CreateCursor(p)
      PROVE  WorkCovered'
  <2>1. /\ UNCHANGED <<cache, cur, todo, end, handled>>
        /\ \A q \in Syncs : pc'[q] \in {"row", "engine"} => pc'[q] = pc[q]
        /\ cursorRow' = cursorRow \/ cursorRow'.cursor = 0
    BY <1>2 DEF CreateCursor, TypeOK, LocalsType
  <2>2. RowsCovered'
    BY <2>1 DEF WorkCovered, RowsCovered, Covered
  <2>3. LocalsCovered'
    BY <2>1 DEF WorkCovered, LocalsCovered, Covered
  <2> QED
    BY <2>2, <2>3 DEF WorkCovered
<1>3. ASSUME NEW p \in Syncs, Fetch(p)
      PROVE  WorkCovered'
  <2> DEFINE k == Min({cur[p] + PageSize, Len(log)})
  <2>1. /\ end' = [end EXCEPT ![p] = k]
        /\ todo' = [todo EXCEPT ![p] = (cur[p] + 1)..k]
        /\ pc' = [pc EXCEPT ![p] = "row"]
        /\ UNCHANGED <<cursorRow, cache, handled, cur>>
    BY <1>3 DEF Fetch
  <2> HIDE DEF k
  <2>2. RowsCovered'
    BY <2>1 DEF WorkCovered, RowsCovered, Covered
  <2>3. LocalsCovered'
    BY <2>1 DEF WorkCovered, LocalsCovered, Covered, TypeOK, LocalsType
  <2> QED
    BY <2>2, <2>3 DEF WorkCovered
<1>4. ASSUME NEW p \in Syncs, ProcessEvent(p) \/ \E e \in todo[p] : RowFails(p, e)
      PROVE  WorkCovered'
  BY <1>4, ProcessCovered DEF ProcessEvent
<1>5. ASSUME NEW p \in Syncs, FinishPage(p)
      PROVE  WorkCovered'
  <2>1. /\ pc[p] = "row" /\ todo[p] = {}
        /\ cur' = [cur EXCEPT ![p] = end[p]]
        /\ UNCHANGED <<cursorRow, cache, todo, end, handled>>
        /\ pc'[p] \notin {"row", "engine"}
        /\ \A q \in Syncs \ {p} : pc'[q] = pc[q]
    BY <1>5 DEF FinishPage, TypeOK, LocalsType
  <2>2. RowsCovered'
    BY <2>1 DEF WorkCovered, RowsCovered, Covered
  <2>3. Covered(end[p])
    <3>1. 1..cur[p] \subseteq handled /\ (cur[p] + 1)..end[p] \subseteq handled
      BY <2>1 DEF WorkCovered, LocalsCovered, Covered
    <3>2. cur[p] \in Nat /\ end[p] \in Nat
      BY DEF TypeOK, LocalsType
    <3> QED
      BY <3>1, <3>2 DEF Covered
  <2>4. LocalsCovered'
    BY <2>1, <2>3 DEF WorkCovered, LocalsCovered, Covered, TypeOK, LocalsType
  <2> QED
    BY <2>2, <2>4 DEF WorkCovered
<1>6. ASSUME NEW p \in Syncs,
             RecordSuccess(p) \/ RecordError(p) \/ RecordFails(p)
      PROVE  WorkCovered'
  <2>1. Return(p) /\ UNCHANGED <<handled, cache>>
    BY <1>6 DEF RecordSuccess, RecordError, RecordFails
  <2>2. CASE RecordSuccess(p)
    BY <2>1, <2>2, ReturnCovered DEF RecordSuccess
  <2>3. CASE RecordError(p)
    <3>1. cursorRow # None /\ cursorRow \in CursorRow
      BY <2>3 DEF RecordError, TypeOK, LocalsInScope, StoreType
    <3>2. cursorRow'.cursor = cursorRow.cursor
      BY <2>3, <3>1 DEF RecordError, CursorRow
    <3> QED
      BY <2>1, <3>1, <3>2, ReturnCovered
  <2>4. CASE RecordFails(p)
    BY <2>1, <2>4, ReturnCovered DEF RecordFails
  <2> QED
    BY <1>6, <2>2, <2>3, <2>4
<1>7. ASSUME NEW p \in Syncs, QueryFailures(p)
      PROVE  WorkCovered'
  <2>1. UNCHANGED <<cursorRow, handled>> /\ cache' \subseteq {cursorRow} \cup cache
    BY <1>7 DEF QueryFailures
  <2>2. CASE Return(p)
    BY <2>1, <2>2, ReturnCovered
  <2>3. CASE /\ pc' = [pc EXCEPT ![p] = "failure"]
             /\ UNCHANGED <<cur, todo, end, more, seen>>
    <3>1. RowsCovered'
      BY <2>1 DEF WorkCovered, RowsCovered, Covered
    <3>2. LocalsCovered'
      BY <2>1, <2>3 DEF WorkCovered, LocalsCovered, Covered, TypeOK, LocalsType
    <3> QED
      BY <3>1, <3>2 DEF WorkCovered
  <2> QED
    BY <1>7, <2>2, <2>3 DEF QueryFailures
<1>8. ASSUME NEW p \in Syncs,
             \/ SyncItemTransactions(p) \/ GetAccounts(p) \/ UpdateAccounts(p)
             \/ BalancesFail(p) \/ CallFails(p)
      PROVE  WorkCovered'
  <2>1. /\ UNCHANGED <<cursorRow, cache, cur, todo, end, handled>>
        /\ \A q \in Syncs : pc'[q] \in {"row", "engine"} => pc'[q] = pc[q]
    BY <1>8 DEF SyncItemTransactions, GetAccounts, UpdateAccounts,
                BalancesFail, CallFails, Fail, TypeOK, LocalsType
  <2> QED
    BY <2>1, OthersCovered
<1>9. CASE (\E t \in Txs : PlaidEvent(t)) \/ UNCHANGED vars
  BY <1>9, OthersCovered DEF PlaidEvent, vars, locals
<1>10. CASE Crash
  <2>1. RowsCovered'
    BY <1>10 DEF Crash, WorkCovered, RowsCovered, Covered
  <2>2. LocalsCovered'
    BY <1>10 DEF Crash, LocalsCovered, Covered
  <2> QED
    BY <2>1, <2>2 DEF WorkCovered
<1> QED
  BY <1>1, <1>2, <1>3, <1>4, <1>5, <1>6, <1>7, <1>8, <1>9, <1>10
     DEF Next, Progress, Fault

-----------------------------------------------------------------------------
(* A row something was saved for stays in the table, with its id.          *)

SavedRowsStay ==
    \A x \in executions : rows[x.tx] # None /\ rows[x.tx].id = x.row

LEMMA InitStay == Init => SavedRowsStay
  BY DEF Init, SavedRowsStay

LEMMA NextStay ==
    ASSUME TypeOK, SavedRowsStay, [Next]_vars
    PROVE  SavedRowsStay'
<1> USE DEF store
<1>1. ASSUME NEW p \in Syncs, NEW e \in todo[p], AddTransaction(p, e)
      PROVE  SavedRowsStay'
  <2> DEFINE t == log[e].tx
  <2>1. PICK id \in IF rows[t] = None THEN UnusedRowIds ELSE {rows[t].id} :
            rows' = [rows EXCEPT ![t] = [id |-> id, event |-> e]]
    BY <1>1 DEF AddTransaction
  <2>2. UNCHANGED executions
    BY <1>1 DEF AddTransaction
  <2>3. rows[t] # None => id = rows[t].id
    BY <2>1
  <2>4. e \in Nat
    BY DEF TypeOK, LocalsType
  <2> HIDE DEF t
  <2>5. SUFFICES ASSUME NEW x \in executions
                 PROVE  rows'[x.tx] # None /\ rows'[x.tx].id = x.row
    BY <2>2 DEF SavedRowsStay
  <2>6. rows[x.tx] # None /\ rows[x.tx].id = x.row /\ x.tx \in Txs
    BY DEF SavedRowsStay, TypeOK, StoreType
  <2>7. CASE x.tx # t
    BY <2>1, <2>6, <2>7 DEF TypeOK, StoreType
  <2>8. CASE x.tx = t
    <3>1. rows'[t] = [id |-> id, event |-> e]
      BY <2>1, <2>6, <2>8 DEF TypeOK, StoreType
    <3>2. id \in RowIds
      BY <2>3, <2>6, <2>8 DEF TypeOK, StoreType, Row
    <3>3. rows'[t] \in Row
      BY <2>4, <3>1, <3>2 DEF Row
    <3> QED
      BY <2>3, <2>6, <2>8, <3>1, <3>3, MarkerAssumption
  <2> QED
    BY <2>7, <2>8
<1>2. ASSUME NEW p \in Syncs, NEW e \in todo[p], ModifyTransaction(p, e)
      PROVE  SavedRowsStay'
  <2> DEFINE t == log[e].tx
  <2>1. /\ UNCHANGED executions
        /\ rows' = IF rows[t] = None THEN rows
                   ELSE [rows EXCEPT ![t] = [rows[t] EXCEPT !.event = e]]
    BY <1>2 DEF ModifyTransaction
  <2>2. e \in Nat
    BY DEF TypeOK, LocalsType
  <2> HIDE DEF t
  <2>3. SUFFICES ASSUME NEW x \in executions
                 PROVE  rows'[x.tx] # None /\ rows'[x.tx].id = x.row
    BY <2>1 DEF SavedRowsStay
  <2>4. /\ rows[x.tx] # None /\ rows[x.tx].id = x.row /\ x.tx \in Txs
        /\ rows[x.tx] \in Row
    BY DEF SavedRowsStay, TypeOK, StoreType
  <2>5. CASE x.tx # t \/ rows[t] = None
    BY <2>1, <2>4, <2>5 DEF TypeOK, StoreType
  <2>6. CASE x.tx = t /\ rows[t] # None
    <3>1. rows'[t] = [rows[t] EXCEPT !.event = e]
      BY <2>1, <2>4, <2>6 DEF TypeOK, StoreType
    <3>2. [rows[t] EXCEPT !.event = e] \in Row
      BY <2>2, <2>4, <2>6 DEF Row
    <3>3. [rows[t] EXCEPT !.event = e].id = rows[t].id
      BY <2>4, <2>6 DEF Row
    <3> QED
      BY <2>4, <2>6, <3>1, <3>2, <3>3, MarkerAssumption
  <2> QED
    BY <2>5, <2>6
<1>3. ASSUME NEW p \in Syncs, NEW e \in todo[p], RemoveTransaction(p, e)
      PROVE  SavedRowsStay'
  <2> DEFINE t == log[e].tx
  <2>1. /\ UNCHANGED executions
        /\ rows' = IF rows[t] # None /\ Referenced(rows[t]) THEN rows
                   ELSE [rows EXCEPT ![t] = None]
    BY <1>3 DEF RemoveTransaction
  <2> HIDE DEF t
  <2>2. SUFFICES ASSUME NEW x \in executions
                 PROVE  rows'[x.tx] # None /\ rows'[x.tx].id = x.row
    BY <2>1 DEF SavedRowsStay
  <2>3. rows[x.tx] # None /\ rows[x.tx].id = x.row /\ x.tx \in Txs
    BY DEF SavedRowsStay, TypeOK, StoreType
  <2>4. x.tx = t => Referenced(rows[t])
    BY <2>3 DEF Referenced
  <2> QED
    BY <2>1, <2>3, <2>4 DEF TypeOK, StoreType
<1>4. ASSUME NEW p \in Syncs, NEW e \in todo[p], RunEngine(p, e)
      PROVE  SavedRowsStay'
  BY <1>4 DEF RunEngine, SavedRowsStay
<1>5. ASSUME UNCHANGED <<rows, executions>>
      PROVE  SavedRowsStay'
  BY <1>5 DEF SavedRowsStay
<1>6. ASSUME NEW p \in Syncs,
             \/ SyncItemTransactions(p) \/ GetCursor(p) \/ CreateCursor(p)
             \/ Fetch(p) \/ FinishPage(p) \/ GetAccounts(p)
             \/ UpdateAccounts(p) \/ RecordSuccess(p) \/ QueryFailures(p)
             \/ RecordError(p) \/ Fault(p)
      PROVE  UNCHANGED <<rows, executions>>
  BY <1>6 DEF SyncItemTransactions, GetCursor, CreateCursor, Fetch,
              FinishPage, GetAccounts, UpdateAccounts, RecordSuccess,
              QueryFailures, RecordError, Fault, RowFails, BalancesFail,
              CallFails, Fail, RecordFails
<1>7. CASE (\E t \in Txs : PlaidEvent(t)) \/ Crash \/ UNCHANGED vars
  BY <1>5, <1>7 DEF PlaidEvent, Crash, vars
<1> QED
  BY <1>1, <1>2, <1>3, <1>4, <1>5, <1>6, <1>7 DEF Next, Progress, ProcessEvent

-----------------------------------------------------------------------------
(* What holds for any number of syncs, whatever fails.                     *)

IInv == TypeOK /\ WorkCovered /\ SavedRowsStay

(* The inductive invariant: the types, the work behind every cursor that   *)
(* is stored, cached or in a sync's hands, and the rows something was      *)
(* saved for.                                                              *)
THEOREM Inductive == Spec => []IInv
<1>1. Init => IInv
  BY InitType, InitCovered, InitStay DEF IInv
<1>2. IInv /\ [Next]_vars => IInv'
  BY NextType, NextCovered, NextStay DEF IInv
<1> QED
  BY <1>1, <1>2, PTL DEF Spec

(* Type correctness of the tables, the cache and every sync's locals.      *)
THEOREM TypeCorrect == Spec => []TypeOK
<1>1. IInv => TypeOK
  BY DEF IInv
<1> QED
  BY <1>1, Inductive, PTL

(* No update of the bank is skipped: the cursor the next sync starts from  *)
(* never ran ahead of the work, however many syncs save theirs over each   *)
(* other, fail half-way, die, or start from a cached one                   *)
(* (sync_service.go:63-117).                                               *)
THEOREM NothingSkipped == Spec => []NoUpdateSkipped
<1>1. IInv => NoUpdateSkipped
  BY DEF IInv, WorkCovered, RowsCovered, Covered, NoUpdateSkipped
<1> QED
  BY <1>1, Inductive, PTL

(* A transaction of the bank has one row for as long as anything was saved *)
(* for it, so that the unique index of rule_executions speaks about the    *)
(* bank's transaction.                                                     *)
THEOREM OneRowForSavings == Spec => []OneRowPerTransaction
<1>1. IInv => OneRowPerTransaction
  BY DEF IInv, SavedRowsStay, OneRowPerTransaction
<1> QED
  BY <1>1, Inductive, PTL
-----------------------------------------------------------------------------
(* The last event of a transaction.                                        *)

LEMMA UptoIsLast ==
    ASSUME NEW t, NEW c \in Nat
    PROVE  /\ Upto(t, c) \in 0..c
           /\ Upto(t, c) # 0 => log[Upto(t, c)].tx = t
           /\ \A e \in 1..c : log[e].tx = t => e <= Upto(t, c)
<1> DEFINE S == {0} \cup {e \in 1..c : log[e].tx = t}
<1>1. S \subseteq 0..c /\ 0 \in S
  OBVIOUS
<1>2. IsFiniteSet(S)
  <2>1. IsFiniteSet(0..c)
    BY FS_Interval
  <2> QED
    BY <1>1, <2>1, FS_Subset
<1>3. Max(S) \in S /\ \A x \in S : x <= Max(S)
  <2>1. S \subseteq Int /\ S # {}
    BY <1>1
  <2> HIDE DEF S
  <2> QED
    BY <1>2, <2>1, MaxOfSome
<1>4. Upto(t, c) = Max(S)
  BY DEF Upto
<1> QED
  BY <1>3, <1>4

(* The log only grows, and so do the savings.                              *)
LEMMA LogGrows ==
    ASSUME TypeOK, [Next]_vars
    PROVE  /\ Len(log) \in Nat /\ Len(log') \in Nat /\ Len(log) <= Len(log')
           /\ \A e \in 1..Len(log) : log'[e] = log[e]
<1>1. log \in Seq(Event) /\ Len(log) \in Nat
  BY DEF TypeOK, StoreType
<1>2. ASSUME NEW t \in Txs, PlaidEvent(t)
      PROVE  \E ev \in Event : log' = Append(log, ev)
  BY <1>2 DEF PlaidEvent, Event
<1>3. CASE \E t \in Txs : PlaidEvent(t)
  <2>1. PICK ev \in Event : log' = Append(log, ev)
    BY <1>2, <1>3
  <2> QED
    BY <1>1, <2>1
<1>4. CASE log' = log
  BY <1>1, <1>4
<1> QED
  BY <1>3, <1>4
     DEF Next, Progress, Fault, ProcessEvent, SyncItemTransactions, GetCursor,
         CreateCursor, Fetch, AddTransaction, ModifyTransaction,
         RemoveTransaction, RunEngine, RowFails, FinishPage, GetAccounts,
         UpdateAccounts, BalancesFail, RecordSuccess, QueryFailures,
         RecordError, CallFails, Fail, RecordFails, Crash, vars

(* A cursor, stored or in a sync's hands, is a position in the log.        *)
LEMMA Positions ==
    ASSUME IInv
    PROVE  /\ Len(log) \in Nat
           /\ cursorRow # None => /\ cursorRow \in CursorRow
                                  /\ cursorRow.cursor \in 0..Len(log)
           /\ \A p \in Syncs : cur[p] \in 0..Len(log)
<1>1. Len(log) \in Nat /\ handled \subseteq 1..Len(log)
  BY DEF IInv, TypeOK, StoreType
<1>2. ASSUME NEW c \in Nat, Covered(c)
      PROVE  c \in 0..Len(log)
  BY <1>1, <1>2 DEF Covered
<1>3. cursorRow # None => cursorRow \in CursorRow /\ cursorRow.cursor \in Nat
  BY DEF IInv, TypeOK, StoreType, CursorRow
<1>4. cursorRow # None => Covered(cursorRow.cursor)
  BY DEF IInv, WorkCovered, RowsCovered
<1>5. \A p \in Syncs : cur[p] \in Nat /\ Covered(cur[p])
  BY DEF IInv, TypeOK, LocalsType, WorkCovered, LocalsCovered
<1> QED
  BY <1>1, <1>2, <1>3, <1>4, <1>5

-----------------------------------------------------------------------------
(* One sync at a time: its balances.                                       *)

OneSync == \A p, q \in Syncs : p = q

(* The balances are read after the last page, so that they know of every   *)
(* event behind the cursor; no statement in between moves the stored one.  *)
Balanced ==
    /\ cursorRow # None => cursorRow.cursor <= balance
    /\ \A p \in Syncs :
          /\ pc[p] = "accounts" => /\ cur[p] <= seen[p]
                                   /\ cursorRow.cursor <= seen[p]
          /\ pc[p] = "success" => cur[p] <= balance

LEMMA InitBalanced == Init => Balanced
  BY DEF Init, Balanced

(* The steps that concern neither the stored cursor nor the balances.      *)
LEMMA QuietBalanced ==
    ASSUME \A p \in Syncs :
              \/ pc'[p] \notin {"accounts", "success"}
              \/ pc'[p] = pc[p] /\ cur'[p] = cur[p] /\ seen'[p] = seen[p],
           UNCHANGED <<cursorRow, balance>>, Balanced
    PROVE  Balanced'
  BY DEF Balanced

LEMMA NextBalanced ==
    ASSUME IInv, OneSync, Faults \subseteq {"row"}, Balanced, [Next]_vars
    PROVE  Balanced'
<1> USE DEF Goto
<1>1. TypeOK
  BY DEF IInv
<1>2. ASSUME NEW p \in Syncs, CreateCursor(p)
      PROVE  Balanced'
  <2>1. /\ \A q \in Syncs : pc'[q] \notin {"accounts", "success"}
        /\ UNCHANGED balance /\ balance \in Nat
        /\ cursorRow' = cursorRow \/ cursorRow'.cursor = 0
    BY <1>1, <1>2 DEF CreateCursor, TypeOK, StoreType, LocalsType, OneSync
  <2> QED
    BY <2>1 DEF Balanced
<1>3. ASSUME NEW p \in Syncs, GetAccounts(p)
      PROVE  Balanced'
  <2>1. /\ pc[p] = "balances" /\ UNCHANGED <<cursorRow, balance, cur>>
        /\ seen'[p] = Len(log) /\ pc'[p] = "accounts"
    BY <1>1, <1>3 DEF GetAccounts, store, TypeOK, LocalsType
  <2>2. cursorRow # None /\ cur[p] <= Len(log) /\ cursorRow.cursor <= Len(log)
    BY <1>1, <2>1, Positions DEF TypeOK, LocalsInScope
  <2> QED
    BY <2>1, <2>2 DEF Balanced, OneSync
<1>4. ASSUME NEW p \in Syncs, UpdateAccounts(p)
      PROVE  Balanced'
  <2>1. /\ pc[p] = "accounts" /\ UNCHANGED <<cursorRow, cur>>
        /\ balance' = seen[p] /\ pc'[p] = "success"
    BY <1>1, <1>4 DEF UpdateAccounts, TypeOK, LocalsType
  <2> QED
    BY <2>1 DEF Balanced, OneSync
<1>5. ASSUME NEW p \in Syncs, RecordSuccess(p)
      PROVE  Balanced'
  <2>1. /\ pc[p] = "success" /\ UNCHANGED balance
        /\ cursorRow'.cursor = cur[p] /\ pc'[p] = "idle"
    BY <1>1, <1>5 DEF RecordSuccess, Return, TypeOK, LocalsType
  <2> QED
    BY <2>1 DEF Balanced, OneSync
<1>6. ASSUME NEW p \in Syncs, RecordError(p)
      PROVE  Balanced'
  <2>1. cursorRow # None /\ cursorRow \in CursorRow
    BY <1>1, <1>6 DEF RecordError, TypeOK, LocalsInScope, StoreType
  <2>2. /\ UNCHANGED balance /\ pc'[p] = "idle"
        /\ cursorRow'.cursor = cursorRow.cursor
    BY <1>1, <1>6, <2>1
       DEF RecordError, Return, TypeOK, LocalsType, CursorRow
  <2> QED
    BY <2>1, <2>2 DEF Balanced, OneSync
<1>7. ASSUME NEW p \in Syncs,
             \/ SyncItemTransactions(p) \/ GetCursor(p) \/ Fetch(p)
             \/ ProcessEvent(p) \/ FinishPage(p) \/ QueryFailures(p)
             \/ \E e \in todo[p] : RowFails(p, e)
      PROVE  Balanced'
  <2>1. UNCHANGED <<cursorRow, balance>>
    BY <1>7 DEF SyncItemTransactions, GetCursor, Fetch, ProcessEvent,
                AddTransaction, ModifyTransaction, RemoveTransaction,
                RunEngine, RowFails, FinishPage, QueryFailures, store
  <2>2. \A q \in Syncs : pc'[q] \notin {"accounts", "success"}
    BY <1>1, <1>7
       DEF SyncItemTransactions, GetCursor, Fetch, ProcessEvent,
           AddTransaction, ModifyTransaction, RemoveTransaction, RunEngine,
           RowFails, FinishPage, QueryFailures, ThenEngine, Done, Return,
           TypeOK, LocalsType, OneSync
  <2> QED
    BY <1>1, <2>1, <2>2, QuietBalanced
<1>8. CASE (\E t \in Txs : PlaidEvent(t)) \/ Crash \/ UNCHANGED vars
  <2>1. /\ UNCHANGED <<cursorRow, balance>>
        /\ \/ UNCHANGED <<pc, cur, seen>>
           \/ \A q \in Syncs : pc'[q] = "idle"
    BY <1>8 DEF PlaidEvent, Crash, vars, store, locals
  <2> QED
    BY <1>1, <2>1, QuietBalanced
<1>9. \A p \in Syncs : ~BalancesFail(p) /\ ~CallFails(p) /\ ~RecordFails(p)
  BY DEF BalancesFail, CallFails, RecordFails
<1> QED
  BY <1>2, <1>3, <1>4, <1>5, <1>6, <1>7, <1>8, <1>9 DEF Next, Progress, Fault
-----------------------------------------------------------------------------
(* One sync at a time: its transactions.  Plaid's log first: a transaction *)
(* is added before everything else and removed after everything else.      *)

LogOrdered ==
    \A e, f \in 1..Len(log) :
        log[e].tx = log[f].tx /\ e < f =>
            log[e].op # "removed" /\ log[f].op # "added"

LogStarts ==
    \A e \in 1..Len(log) :
        \E a \in 1..e : log[a].tx = log[e].tx /\ log[a].op = "added"

LEMMA InitLog == Init => LogOrdered /\ LogStarts
  BY DEF Init, LogOrdered, LogStarts

LEMMA NextLog ==
    ASSUME TypeOK, LogOrdered, LogStarts, [Next]_vars
    PROVE  LogOrdered' /\ LogStarts'
<1>1. log \in Seq(Event) /\ Len(log) \in Nat
  BY DEF TypeOK, StoreType
<1>2. ASSUME NEW t \in Txs, PlaidEvent(t)
      PROVE  LogOrdered' /\ LogStarts'
  <2> DEFINE last == Upto(t, Len(log))
             n == Len(log) + 1
  <2>1. PICK ev \in Event :
            /\ ev.tx = t
            /\ ev.op = "added" <=> last = 0
            /\ last # 0 => log[last].op # "removed"
            /\ log' = Append(log, ev)
    BY <1>2 DEF PlaidEvent, Event
  <2>2. /\ last \in 0..Len(log)
        /\ last # 0 => log[last].tx = t
        /\ \A e \in 1..Len(log) : log[e].tx = t => e <= last
    BY <1>1, UptoIsLast
  <2> HIDE DEF last
  <2>3. /\ Len(log') = n /\ log'[n] = ev
        /\ \A e \in 1..Len(log) : log'[e] = log[e]
    BY <1>1, <2>1
  <2>4. LogOrdered'
    <3> SUFFICES ASSUME NEW e \in 1..n, NEW f \in 1..n,
                        log'[e].tx = log'[f].tx, e < f
                 PROVE  log'[e].op # "removed" /\ log'[f].op # "added"
      BY <2>3 DEF LogOrdered
    <3>1. e \in 1..Len(log)
      BY <1>1
    <3>2. CASE f \in 1..Len(log)
      BY <2>3, <3>1, <3>2 DEF LogOrdered
    <3>3. CASE f = n
      <4>1. log[e].tx = t /\ e <= last
        BY <2>1, <2>2, <2>3, <3>1, <3>3
      <4>2. last # 0 /\ last \in 1..Len(log) /\ log[last].tx = t
        BY <2>2, <3>1, <4>1
      <4>3. log[e].op # "removed"
        BY <2>1, <3>1, <4>1, <4>2 DEF LogOrdered
      <4> QED
        BY <2>1, <2>3, <3>1, <3>3, <4>2, <4>3
    <3> QED
      BY <1>1, <3>2, <3>3
  <2>5. LogStarts'
    <3> SUFFICES ASSUME NEW e \in 1..n
                 PROVE  \E a \in 1..e : /\ log'[a].tx = log'[e].tx
                                        /\ log'[a].op = "added"
      BY <2>3 DEF LogStarts
    <3>1. CASE e \in 1..Len(log)
      <4>1. PICK a \in 1..e : log[a].tx = log[e].tx /\ log[a].op = "added"
        BY <3>1 DEF LogStarts
      <4> QED
        BY <2>3, <3>1, <4>1
    <3>2. CASE e = n /\ last = 0
      BY <2>1, <2>3, <3>2
    <3>3. CASE e = n /\ last # 0
      <4>1. last \in 1..Len(log) /\ log[last].tx = t
        BY <2>2, <3>3
      <4>2. PICK a \in 1..last : log[a].tx = t /\ log[a].op = "added"
        BY <4>1 DEF LogStarts
      <4>3. a \in 1..Len(log) /\ a \in 1..e
        BY <1>1, <3>3, <4>1
      <4> QED
        BY <2>1, <2>3, <3>3, <4>2, <4>3
    <3> QED
      BY <1>1, <3>1, <3>2, <3>3
  <2> QED
    BY <2>4, <2>5
<1>3. CASE log' = log
  BY <1>3 DEF LogOrdered, LogStarts
<1> QED
  BY <1>2, <1>3
     DEF Next, Progress, Fault, ProcessEvent, SyncItemTransactions, GetCursor,
         CreateCursor, Fetch, AddTransaction, ModifyTransaction,
         RemoveTransaction, RunEngine, RowFails, FinishPage, GetAccounts,
         UpdateAccounts, BalancesFail, RecordSuccess, QueryFailures,
         RecordError, CallFails, Fail, RecordFails, Crash, vars

-----------------------------------------------------------------------------
(* The cursor of a sync that is alone.  It may start behind the stored     *)
(* one, from the cache, but catches up with it before it is saved.         *)

CursorsGrow ==
    /\ \A row \in cache : row # None => row.cursor <= cursorRow.cursor
    /\ \A p \in Syncs :
          /\ pc[p] \in {"idle", "cursor", "create"} => cur[p] = 0
          /\ pc[p] \in {"row", "engine"} =>
                more[p] \/ cursorRow.cursor <= end[p]
          /\ pc[p] \in {"balances", "accounts", "success"} =>
                cursorRow.cursor <= cur[p]

(* A page lies in the log, and what was dealt with came before what is     *)
(* left: the lists are processed in order, each in the order of the log.   *)
Precedes(e, f) ==
    \/ Rank(log[e].op) < Rank(log[f].op)
    \/ Rank(log[e].op) = Rank(log[f].op) /\ e < f

PageInOrder ==
    \A p \in Syncs : pc[p] \in {"row", "engine"} =>
        /\ cur[p] <= end[p] /\ end[p] <= Len(log)
        /\ \A e \in ((cur[p] + 1)..end[p]) \ todo[p], f \in todo[p] :
              Precedes(e, f)

(* The events the table shows: those behind the cursor and those of the    *)
(* page that are done with, or whose row is written.                       *)
Applied(p) ==
    CASE pc[p] = "row" -> (1..end[p]) \ todo[p]
      [] pc[p] = "engine" -> (1..end[p]) \ {e \in todo[p] : ~IsNext(p, e)}
      [] OTHER -> 1..cur[p]

Removed(t) == \E e \in 1..Len(log) : log[e].tx = t /\ log[e].op = "removed"

(* An event is shown by a row not older, by a row that savings keep though *)
(* its transaction is removed, or by no row: Plaid has removed it by now.  *)
Shown(e) ==
    LET row == rows[log[e].tx] IN
    IF row = None THEN Removed(log[e].tx)
    ELSE IF log[e].op = "removed" THEN Referenced(row) ELSE row.event >= e

Reading == {"fetch", "row", "engine", "balances", "accounts", "success"}

TableShows ==
    /\ \A p \in Syncs : pc[p] \in Reading => \A e \in Applied(p) : Shown(e)
    /\ cursorRow # None /\ (\A p \in Syncs : pc[p] \notin Reading) =>
          \A e \in 1..cursorRow.cursor : Shown(e)

AloneInv ==
    /\ LogOrdered /\ LogStarts
    /\ CursorsGrow
    /\ PageInOrder
    /\ TableShows

(* What interrupts a sync between its first page and its cursor is left    *)
(* out: a death, an answer Plaid does not give, a row that is not written. *)
Uninterrupted == Faults \subseteq {"database"} /\ MaxCrashes = 0

LEMMA InitAlone == Init => AloneInv
  BY InitLog
     DEF Init, AloneInv, CursorsGrow, PageInOrder, TableShows, Reading

LEMMA NoInterruption ==
    ASSUME Uninterrupted, TypeOK
    PROVE  /\ ~Crash
           /\ \A p \in Syncs : \A e \in todo[p] : ~RowFails(p, e)
           /\ \A p \in Syncs : CallFails(p) => pc[p] \in {"cursor", "create"}
  BY DEF Uninterrupted, TypeOK, StoreType, Crash, RowFails, CallFails

(* What the processing of an event does to the sync.                       *)
LEMMA EventDone ==
    ASSUME TypeOK, NEW p \in Syncs, NEW e \in todo[p],
           \/ AddTransaction(p, e) \/ ModifyTransaction(p, e)
           \/ RemoveTransaction(p, e) \/ RunEngine(p, e)
    PROVE  /\ UNCHANGED <<log, cursorRow, cache, cur, end, more>>
           /\ pc[p] \in {"row", "engine"} /\ IsNext(p, e)
           /\ \/ pc'[p] = "row" /\ todo'[p] = todo[p] \ {e}
              \/ pc'[p] = "engine" /\ todo'[p] = todo[p] /\ pc[p] = "row"
<1>1. /\ UNCHANGED <<log, cursorRow, cache, cur, end, more>>
      /\ pc[p] \in {"row", "engine"} /\ IsNext(p, e)
      /\ Done(p, e) \/ (ThenEngine(p, e) /\ pc[p] = "row")
  BY DEF AddTransaction, ModifyTransaction, RemoveTransaction, RunEngine
<1>2. \/ Done(p, e)
      \/ /\ pc' = [pc EXCEPT ![p] = "engine"] /\ UNCHANGED todo
         /\ pc[p] = "row"
  BY <1>1, Zenon DEF ThenEngine, Goto
<1> QED
  BY <1>1, <1>2 DEF Done, Goto, TypeOK, LocalsType

LEMMA NextCursors ==
    ASSUME IInv, OneSync, Uninterrupted, CursorsGrow, PageInOrder, [Next]_vars
    PROVE  CursorsGrow'
<1> USE DEF Goto
<1>1. TypeOK
  BY DEF IInv
<1>2. ASSUME NEW p \in Syncs, GetCursor(p)
      PROVE  CursorsGrow'
  <2>1. /\ cache' \subseteq {cursorRow} \cup cache /\ UNCHANGED cursorRow
        /\ (pc'[p] = "create" /\ cur'[p] = cur[p]) \/ pc'[p] = "fetch"
        /\ pc[p] = "cursor"
    BY <1>1, <1>2 DEF GetCursor, store, TypeOK, LocalsType
  <2>2. cursorRow # None => cursorRow.cursor <= cursorRow.cursor
    BY Positions
  <2> QED
    BY <2>1, <2>2 DEF CursorsGrow, OneSync
<1>3. ASSUME NEW p \in Syncs, CreateCursor(p)
      PROVE  CursorsGrow'
  <2>1. /\ UNCHANGED <<cache, cur>> /\ pc[p] = "create"
        /\ \/ cursorRow = None /\ pc'[p] = "fetch"
           \/ UNCHANGED cursorRow /\ pc'[p] = "error"
        /\ cursorRow = None => cache \subseteq {None}
    BY <1>1, <1>3 DEF CreateCursor, TypeOK, LocalsType, StoreType
  <2> QED
    BY <2>1 DEF CursorsGrow, OneSync
<1>4. ASSUME NEW p \in Syncs, Fetch(p)
      PROVE  CursorsGrow'
  <2> DEFINE k == Min({cur[p] + PageSize, Len(log)})
  <2>1. /\ UNCHANGED <<cache, cursorRow>> /\ pc[p] = "fetch"
        /\ pc'[p] = "row" /\ end'[p] = k /\ more'[p] = (k < Len(log))
    BY <1>1, <1>4 DEF Fetch, store, TypeOK, LocalsType
  <2>2. k \in {cur[p] + PageSize, Len(log)} /\ cur[p] + PageSize \in Nat
    <3>1. cur[p] + PageSize \in Nat /\ Len(log) \in Nat
      BY <1>1, BoundsAssumption DEF TypeOK, StoreType, LocalsType
    <3> QED
      BY <3>1, MinOfTwo
  <2>3. /\ cursorRow # None
        /\ cursorRow.cursor \in 0..Len(log) /\ Len(log) \in Nat
    BY <1>1, <2>1, Positions DEF TypeOK, LocalsInScope
  <2> HIDE DEF k
  <2>4. more'[p] \/ cursorRow.cursor <= end'[p]
    <3>1. k < Len(log) \/ cursorRow.cursor <= k
      BY <2>2, <2>3
    <3> QED
      BY <2>1, <3>1
  <2> QED
    BY <2>1, <2>4 DEF CursorsGrow, OneSync
<1>5. ASSUME NEW p \in Syncs, ProcessEvent(p)
      PROVE  CursorsGrow'
  <2>1. /\ UNCHANGED <<cursorRow, cache, cur, end, more>>
        /\ pc[p] \in {"row", "engine"} /\ pc'[p] \in {"row", "engine"}
    BY <1>1, <1>5, EventDone DEF ProcessEvent
  <2> QED
    BY <2>1 DEF CursorsGrow, OneSync
<1>6. ASSUME NEW p \in Syncs, FinishPage(p)
      PROVE  CursorsGrow'
  <2>1. /\ UNCHANGED <<cursorRow, cache>> /\ pc[p] = "row"
        /\ cur'[p] = end[p]
        /\ pc'[p] = IF more[p] THEN "fetch" ELSE "balances"
    BY <1>1, <1>6 DEF FinishPage, store, TypeOK, LocalsType
  <2> QED
    BY <2>1 DEF CursorsGrow, OneSync
<1>7. ASSUME NEW p \in Syncs,
             GetAccounts(p) \/ UpdateAccounts(p) \/ BalancesFail(p)
      PROVE  CursorsGrow'
  <2>1. /\ UNCHANGED <<cursorRow, cache, cur>>
        /\ pc[p] \in {"balances", "accounts"}
        /\ pc'[p] \in {"accounts", "success"}
    BY <1>1, <1>7
       DEF GetAccounts, UpdateAccounts, BalancesFail, store, TypeOK, LocalsType
  <2> QED
    BY <2>1 DEF CursorsGrow, OneSync
<1>8. ASSUME NEW p \in Syncs, RecordSuccess(p)
      PROVE  CursorsGrow'
  <2>1. /\ UNCHANGED cache /\ pc[p] = "success"
        /\ cursorRow'.cursor = cur[p] /\ pc'[p] = "idle" /\ cur'[p] = 0
    BY <1>1, <1>8 DEF RecordSuccess, Return, TypeOK, LocalsType
  <2>2. cursorRow # None /\ cursorRow.cursor \in Nat /\ cur[p] \in Nat
    BY <1>1, <2>1, Positions DEF TypeOK, LocalsInScope
  <2>3. ASSUME NEW row \in cache, row # None
        PROVE  row.cursor \in Nat
    BY <1>1, <2>3 DEF TypeOK, StoreType, CursorRow
  <2>4. cursorRow.cursor <= cur[p]
    BY <2>1 DEF CursorsGrow
  <2>5. \A row \in cache : row # None => row.cursor <= cursorRow'.cursor
    BY <2>1, <2>2, <2>3, <2>4 DEF CursorsGrow
  <2> QED
    BY <2>1, <2>5 DEF CursorsGrow, OneSync
<1>9. ASSUME NEW p \in Syncs, QueryFailures(p)
      PROVE  CursorsGrow'
  <2>1. /\ cache' \subseteq {cursorRow} \cup cache /\ UNCHANGED cursorRow
        /\ (pc'[p] = "idle" /\ cur'[p] = 0) \/ pc'[p] = "failure"
    BY <1>1, <1>9 DEF QueryFailures, Return, store, TypeOK, LocalsType
  <2>2. cursorRow # None => cursorRow.cursor <= cursorRow.cursor
    BY Positions
  <2> QED
    BY <2>1, <2>2 DEF CursorsGrow, OneSync
<1>10. ASSUME NEW p \in Syncs, RecordError(p) \/ RecordFails(p)
       PROVE  CursorsGrow'
  <2>1. /\ UNCHANGED cache /\ pc'[p] = "idle" /\ cur'[p] = 0
        /\ \/ UNCHANGED cursorRow
           \/ cursorRow'.cursor = cursorRow.cursor
    <3>1. CASE RecordError(p)
      <4>1. cursorRow \in CursorRow
        BY <1>1, <3>1, Positions DEF RecordError, TypeOK, LocalsInScope
      <4> QED
        BY <1>1, <3>1, <4>1
           DEF RecordError, Return, TypeOK, LocalsType, CursorRow
    <3>2. CASE RecordFails(p)
      BY <1>1, <3>2 DEF RecordFails, Return, store, TypeOK, LocalsType
    <3> QED
      BY <1>10, <3>1, <3>2
  <2> QED
    BY <2>1 DEF CursorsGrow, OneSync
<1>11. ASSUME NEW p \in Syncs, SyncItemTransactions(p) \/ CallFails(p)
       PROVE  CursorsGrow'
  <2>1. /\ UNCHANGED <<cursorRow, cache, cur>>
        /\ \/ pc[p] = "idle" /\ pc'[p] = "cursor"
           \/ pc'[p] = "error"
    BY <1>1, <1>11
       DEF SyncItemTransactions, CallFails, Fail, store, TypeOK, LocalsType
  <2> QED
    BY <2>1 DEF CursorsGrow, OneSync
<1>12. CASE (\E t \in Txs : PlaidEvent(t)) \/ UNCHANGED vars
  BY <1>12 DEF PlaidEvent, vars, store, locals, CursorsGrow
<1> QED
  BY <1>1, <1>2, <1>3, <1>4, <1>5, <1>6, <1>7, <1>8, <1>9, <1>10, <1>11,
     <1>12, NoInterruption DEF Next, Progress, Fault
LEMMA NextPages ==
    ASSUME IInv, OneSync, Uninterrupted, PageInOrder, [Next]_vars
    PROVE  PageInOrder'
<1> USE DEF Goto
<1>1. TypeOK
  BY DEF IInv
<1>2. ASSUME NEW p \in Syncs, Fetch(p)
      PROVE  PageInOrder'
  <2> DEFINE k == Min({cur[p] + PageSize, Len(log)})
  <2>1. /\ UNCHANGED <<log, cur>>
        /\ end'[p] = k /\ todo'[p] = (cur[p] + 1)..k
    BY <1>1, <1>2 DEF Fetch, TypeOK, LocalsType
  <2>2. cur[p] <= k /\ k <= Len(log)
    <3>1. cur[p] \in Nat /\ Len(log) \in Nat /\ cur[p] <= Len(log)
      BY Positions
    <3>2. cur[p] + PageSize \in Nat /\ cur[p] <= cur[p] + PageSize
      BY <3>1, BoundsAssumption
    <3> QED
      BY <3>1, <3>2, MinOfTwo
  <2> HIDE DEF k
  <2> QED
    BY <2>1, <2>2 DEF PageInOrder, OneSync
<1>3. ASSUME NEW p \in Syncs, ProcessEvent(p)
      PROVE  PageInOrder'
  <2>1. PICK e \in todo[p] :
            \/ AddTransaction(p, e) \/ ModifyTransaction(p, e)
            \/ RemoveTransaction(p, e) \/ RunEngine(p, e)
    BY <1>3 DEF ProcessEvent
  <2>2. /\ UNCHANGED <<log, cur, end>>
        /\ pc[p] \in {"row", "engine"} /\ IsNext(p, e)
        /\ todo'[p] = todo[p] \ {e} \/ todo'[p] = todo[p]
    BY <1>1, <2>1, EventDone
  <2>3. \A f \in todo[p] \ {e} : Precedes(e, f)
    <3>1. todo[p] \subseteq Nat
      BY <1>1 DEF TypeOK, LocalsType
    <3> QED
      BY <2>2, <3>1 DEF IsNext, Precedes
  <2>4. ASSUME NEW x \in ((cur'[p] + 1)..end'[p]) \ todo'[p],
               NEW f \in todo'[p]
        PROVE  Precedes(x, f)
    BY <2>2, <2>3 DEF PageInOrder
  <2>5. \A x, f : Precedes(x, f)' <=> Precedes(x, f)
    BY <2>2 DEF Precedes
  <2> QED
    BY <2>2, <2>4, <2>5 DEF PageInOrder, OneSync
<1>4. ASSUME NEW p \in Syncs,
             \/ SyncItemTransactions(p) \/ GetCursor(p) \/ CreateCursor(p)
             \/ FinishPage(p) \/ GetAccounts(p) \/ UpdateAccounts(p)
             \/ BalancesFail(p) \/ RecordSuccess(p) \/ QueryFailures(p)
             \/ RecordError(p) \/ CallFails(p) \/ RecordFails(p)
      PROVE  PageInOrder'
  <2>1. pc'[p] \notin {"row", "engine"}
    BY <1>1, <1>4
       DEF SyncItemTransactions, GetCursor, CreateCursor, FinishPage,
           GetAccounts, UpdateAccounts, BalancesFail, RecordSuccess,
           QueryFailures, RecordError, CallFails, Fail, RecordFails, Return,
           TypeOK, LocalsType
  <2> QED
    BY <2>1 DEF PageInOrder, OneSync
<1>5. CASE (\E t \in Txs : PlaidEvent(t)) \/ UNCHANGED vars
  <2>1. UNCHANGED <<pc, cur, end, todo>>
    BY <1>5 DEF PlaidEvent, vars, locals
  <2>2. /\ Len(log) \in Nat /\ Len(log') \in Nat /\ Len(log) <= Len(log')
        /\ \A e \in 1..Len(log) : log'[e] = log[e]
    BY <1>1, LogGrows
  <2> SUFFICES ASSUME NEW p \in Syncs, pc[p] \in {"row", "engine"}
               PROVE  /\ cur[p] <= end[p] /\ end[p] <= Len(log')
                      /\ \A e \in ((cur[p] + 1)..end[p]) \ todo[p],
                            f \in todo[p] : Precedes(e, f)'
    BY <2>1 DEF PageInOrder
  <2>3. /\ cur[p] \in Nat /\ end[p] \in Nat /\ todo[p] \subseteq 1..Len(log)
        /\ cur[p] <= end[p] /\ end[p] <= Len(log)
    BY <1>1 DEF TypeOK, LocalsType, PageInOrder
  <2>4. ASSUME NEW e \in ((cur[p] + 1)..end[p]) \ todo[p], NEW f \in todo[p]
        PROVE  Precedes(e, f)'
    <3>1. Precedes(e, f)
      BY DEF PageInOrder
    <3>2. e \in 1..Len(log) /\ f \in 1..Len(log)
      BY <2>2, <2>3
    <3> QED
      BY <2>2, <3>1, <3>2 DEF Precedes
  <2> QED
    BY <2>2, <2>3, <2>4
<1> QED
  BY <1>1, <1>2, <1>3, <1>4, <1>5, NoInterruption DEF Next, Progress, Fault

(* What keeps an event shown.                                              *)
LEMMA ShownStays ==
    ASSUME NEW e \in 1..Len(log), Shown(e),
           Len(log) \in Nat, Len(log') \in Nat, Len(log) <= Len(log'),
           \A f \in 1..Len(log) : log'[f] = log[f],
           rows'[log[e].tx] = rows[log[e].tx], executions \subseteq executions'
    PROVE  Shown(e)'
<1> DEFINE t == log[e].tx
<1>1. t' = t /\ log'[e].op = log[e].op
  OBVIOUS
<1>2. Removed(t) => Removed(t)'
  <2>1. SUFFICES ASSUME NEW f \in 1..Len(log), log[f].tx = t,
                        log[f].op = "removed"
                 PROVE  Removed(t)'
    BY DEF Removed
  <2>2. f \in 1..Len(log') /\ log'[f] = log[f]
    OBVIOUS
  <2> QED
    BY <1>1, <2>1, <2>2 DEF Removed
<1>3. rows'[t'] = rows[t]
  BY <1>1
<1>4. Referenced(rows[t]) => Referenced(rows[t])'
  BY <1>3 DEF Referenced
<1> QED
  BY <1>1, <1>2, <1>3, <1>4 DEF Shown

(* The row of an event is written: the event is shown, and so are those    *)
(* that were.                                                              *)
LEMMA RowWritten ==
    ASSUME IInv, AloneInv, NEW p \in Syncs, NEW e \in todo[p],
           \/ AddTransaction(p, e) \/ ModifyTransaction(p, e)
           \/ RemoveTransaction(p, e)
    PROVE  \A x \in ((1..end[p]) \ todo[p]) \cup {e} : Shown(x)'
<1> DEFINE t == log[e].tx
           E == (1..end[p]) \ todo[p]
<1>1. /\ pc[p] = "row" /\ IsNext(p, e) /\ UNCHANGED <<log, executions>>
      /\ log \in Seq(Event) /\ Len(log) \in Nat
      /\ rows \in [Txs -> {None} \cup Row]
      /\ cur[p] \in Nat /\ end[p] \in Nat /\ cur[p] <= end[p]
      /\ end[p] <= Len(log)
      /\ todo[p] \subseteq (cur[p] + 1)..end[p]
  BY DEF AddTransaction, ModifyTransaction, RemoveTransaction, IInv, TypeOK,
         StoreType, LocalsType, LocalsInScope, AloneInv, PageInOrder
<1>2. /\ e \in 1..Len(log) /\ e \in Nat /\ e > cur[p]
      /\ E \subseteq 1..Len(log) /\ E \subseteq Nat
      /\ e \notin E
  BY <1>1
<1>3. /\ log[e] \in Event /\ t \in Txs
      /\ \A x \in 1..Len(log) :
            log[x].tx \in Txs /\ log[x].op \in {"added", "modified", "removed"}
  <2>1. \A x \in 1..Len(log) : log[x] \in Event
    BY <1>1
  <2> QED
    BY <1>2, <2>1 DEF Event
<1>4. \A x \in E : Shown(x)
  BY <1>1 DEF AloneInv, TableShows, Reading, Applied
<1>5. ASSUME NEW x \in E, log[x].tx = t
      PROVE  /\ x < e => log[x].op # "removed" /\ log[e].op # "added"
             /\ x > e => /\ log[e].op # "removed" /\ log[x].op # "added"
                         /\ Precedes(x, e)
  <2>1. x < e => log[x].op # "removed" /\ log[e].op # "added"
    BY <1>2, <1>5 DEF AloneInv, LogOrdered
  <2>2. x > e => log[e].op # "removed" /\ log[x].op # "added"
    BY <1>2, <1>5 DEF AloneInv, LogOrdered
  <2>3. x > e => x \in ((cur[p] + 1)..end[p]) \ todo[p]
    BY <1>1, <1>2
  <2> QED
    BY <1>1, <2>1, <2>2, <2>3 DEF AloneInv, PageInOrder
<1>6. ASSUME NEW x \in E, rows'[log[x].tx] = rows[log[x].tx]
      PROVE  Shown(x)'
  BY <1>1, <1>2, <1>4, <1>6, ShownStays
<1> HIDE DEF t, E
<1>7. CASE AddTransaction(p, e)
  <2>1. PICK id \in RowIds \cup {rows[t].id} :
            /\ rows' = [rows EXCEPT ![t] = [id |-> id, event |-> e]]
            /\ [id |-> id, event |-> e] \in Row
    <3>1. PICK id \in IF rows[t] = None THEN UnusedRowIds ELSE {rows[t].id} :
              rows' = [rows EXCEPT ![t] = [id |-> id, event |-> e]]
      BY <1>7 DEF AddTransaction, t
    <3>2. id \in RowIds
      BY <1>1, <1>3, <3>1 DEF UnusedRowIds, Row
    <3> QED
      BY <1>2, <3>1, <3>2 DEF Row
  <2>2. log[e].op = "added"
    BY <1>7 DEF AddTransaction
  <2>3. rows'[t] # None /\ rows'[t].event = e
    BY <1>1, <1>3, <2>1, MarkerAssumption
  <2>4. Shown(e)'
    BY <1>1, <1>2, <2>2, <2>3 DEF Shown, t
  <2>5. ASSUME NEW x \in E
        PROVE  log[x].tx # t
    <3>1. SUFFICES ASSUME log[x].tx = t PROVE FALSE
      OBVIOUS
    <3>2. x > e /\ Precedes(x, e) /\ log[x].op # "added"
      BY <1>2, <1>5, <2>2, <3>1
    <3>3. log[x].op \in {"modified", "removed"}
      BY <1>2, <1>3, <3>2
    <3> QED
      BY <2>2, <3>2, <3>3 DEF Precedes, Rank
  <2>6. ASSUME NEW x \in E
        PROVE  Shown(x)'
    <3>1. rows'[log[x].tx] = rows[log[x].tx]
      BY <1>1, <1>2, <1>3, <2>1, <2>5
    <3> QED
      BY <1>6, <3>1
  <2> QED
    BY <2>4, <2>6 DEF E
<1>8. CASE ModifyTransaction(p, e)
  <2>1. /\ log[e].op = "modified"
        /\ rows' = IF rows[t] = None THEN rows
                   ELSE [rows EXCEPT ![t] = [rows[t] EXCEPT !.event = e]]
    BY <1>8 DEF ModifyTransaction, t
  <2>2. CASE rows[t] = None
    <3>1. rows' = rows
      BY <2>1, <2>2
    <3>2. PICK a \in 1..e : log[a].tx = t /\ log[a].op = "added"
      BY <1>2 DEF AloneInv, LogStarts, t
    <3>3. a \in E
      <4>1. a \notin todo[p]
        <5>1. SUFFICES ASSUME a \in todo[p] PROVE FALSE
          OBVIOUS
        <5>2. Rank(log[e].op) <= Rank(log[a].op)
          BY <1>1, <5>1, <2>1, <3>2 DEF IsNext, Rank
        <5> QED
          BY <2>1, <3>2, <5>2 DEF Rank
      <4> QED
        BY <1>1, <1>2, <3>2, <4>1 DEF E
    <3>4. Removed(t)
      BY <1>4, <2>2, <3>2, <3>3 DEF Shown
    <3>5. Shown(e)
      BY <2>2, <3>4 DEF Shown, t
    <3>6. Shown(e)'
      BY <1>1, <1>2, <3>1, <3>5, ShownStays
    <3> QED
      BY <1>6, <3>1, <3>6 DEF E
  <2>3. CASE rows[t] # None
    <3>1. rows[t] \in Row
      BY <1>1, <1>3, <2>3
    <3>2. /\ [rows[t] EXCEPT !.event = e] \in Row
          /\ [rows[t] EXCEPT !.event = e].event = e
      BY <1>2, <3>1 DEF Row
    <3>3. /\ rows'[t] # None /\ rows'[t].event = e
          /\ \A s \in Txs : s # t => rows'[s] = rows[s]
      BY <1>1, <1>3, <2>1, <2>3, <3>2, MarkerAssumption
    <3>4. Shown(e)'
      BY <1>1, <1>2, <2>1, <3>3 DEF Shown, t
    <3>5. ASSUME NEW x \in E, log[x].tx = t
          PROVE  Shown(x)'
      <4>1. ~(x > e)
        <5>1. SUFFICES ASSUME x > e PROVE FALSE
          OBVIOUS
        <5>2. Precedes(x, e) /\ log[x].op \in {"modified", "removed"}
          BY <1>2, <1>3, <1>5, <3>5, <5>1
        <5> QED
          BY <1>2, <2>1, <5>1, <5>2 DEF Precedes, Rank
      <4>2. x # e /\ x \in Nat
        BY <1>2
      <4>3. log[x].op # "removed" /\ e >= x
        BY <1>2, <1>5, <3>5, <4>1, <4>2
      <4> QED
        BY <1>1, <3>3, <3>5, <4>3 DEF Shown
    <3>6. ASSUME NEW x \in E
          PROVE  Shown(x)'
      <4>1. CASE log[x].tx = t
        BY <3>5, <4>1
      <4>2. CASE log[x].tx # t
        BY <1>2, <1>3, <1>6, <3>3, <4>2
      <4> QED
        BY <4>1, <4>2
    <3> QED
      BY <3>4, <3>6 DEF E
  <2> QED
    BY <2>2, <2>3
<1>9. CASE RemoveTransaction(p, e)
  <2>1. /\ log[e].op = "removed"
        /\ rows' = IF rows[t] # None /\ Referenced(rows[t]) THEN rows
                   ELSE [rows EXCEPT ![t] = None]
    BY <1>9 DEF RemoveTransaction, t
  <2>2. CASE rows[t] # None /\ Referenced(rows[t])
    <3>1. rows' = rows
      BY <2>1, <2>2
    <3>2. Shown(e)
      BY <2>1, <2>2 DEF Shown, t
    <3>3. Shown(e)'
      BY <1>1, <1>2, <3>1, <3>2, ShownStays
    <3> QED
      BY <1>6, <3>1, <3>3 DEF E
  <2>3. CASE ~(rows[t] # None /\ Referenced(rows[t]))
    <3>1. /\ rows'[t] = None
          /\ \A s \in Txs : s # t => rows'[s] = rows[s]
      BY <1>1, <1>3, <2>1, <2>3
    <3>2. ASSUME NEW x, log[x].tx = t
          PROVE  Shown(x)'
      <4>1. \E f \in 1..Len(log) : log[f].tx = t /\ log[f].op = "removed"
        BY <1>2, <2>1 DEF t
      <4> QED
        BY <1>1, <3>1, <3>2, <4>1 DEF Shown, Removed
    <3>3. ASSUME NEW x \in E
          PROVE  Shown(x)'
      BY <1>2, <1>3, <1>6, <3>1, <3>2
    <3> QED
      BY <3>2, <3>3 DEF E, t
  <2> QED
    BY <2>2, <2>3
<1> QED
  BY <1>7, <1>8, <1>9 DEF E
LEMMA ProcessShows ==
    ASSUME IInv, AloneInv, NEW p \in Syncs, ProcessEvent(p)
    PROVE  pc'[p] \in {"row", "engine"} /\ \A x \in Applied(p)' : Shown(x)'
<1>1. PICK e \in todo[p] :
          \/ AddTransaction(p, e) \/ ModifyTransaction(p, e)
          \/ RemoveTransaction(p, e) \/ RunEngine(p, e)
  BY DEF ProcessEvent
<1>2. /\ UNCHANGED <<log, end>>
      /\ pc[p] \in {"row", "engine"} /\ IsNext(p, e)
      /\ \/ pc'[p] = "row" /\ todo'[p] = todo[p] \ {e}
         \/ pc'[p] = "engine" /\ todo'[p] = todo[p] /\ pc[p] = "row"
  BY <1>1, EventDone DEF IInv
<1>3. todo[p] \subseteq 1..Len(log) /\ todo[p] \subseteq Nat
  BY DEF IInv, TypeOK, LocalsType
<1>4. ASSUME NEW f \in todo[p], IsNext(p, f)
      PROVE  f = e
  <2>1. log[e] \in Event /\ log[f] \in Event
    BY <1>3 DEF IInv, TypeOK, StoreType
  <2>2. /\ log[e].op \in {"added", "modified", "removed"}
        /\ log[f].op \in {"added", "modified", "removed"}
    BY <2>1 DEF Event
  <2>3. e <= f /\ f <= e
    BY <1>2, <1>4, <2>2 DEF IsNext, Rank
  <2> QED
    BY <1>3, <2>3
<1>5. Applied(p)' \subseteq ((1..end[p]) \ todo[p]) \cup {e}
  <2>1. CASE pc'[p] = "row"
    BY <1>2, <2>1 DEF Applied
  <2>2. CASE pc'[p] = "engine"
    <3>1. \A f \in todo[p] : IsNext(p, f)' <=> IsNext(p, f)
      BY <1>2, <2>2 DEF IsNext
    <3> QED
      BY <1>2, <1>4, <2>2, <3>1 DEF Applied
  <2> QED
    BY <1>2, <2>1, <2>2
<1>6. CASE \/ AddTransaction(p, e) \/ ModifyTransaction(p, e)
           \/ RemoveTransaction(p, e)
  BY <1>2, <1>5, <1>6, RowWritten
<1>7. CASE RunEngine(p, e)
  <2>1. pc[p] = "engine" /\ rows' = rows /\ executions \subseteq executions'
    BY <1>7 DEF RunEngine
  <2>2. pc'[p] = "row" /\ todo'[p] = todo[p] \ {e}
    BY <1>2, <2>1
  <2>3. Applied(p)' \subseteq Applied(p)
    BY <1>2, <2>1, <2>2 DEF Applied
  <2>4. \A x \in Applied(p) : Shown(x)
    BY <2>1 DEF AloneInv, TableShows, Reading
  <2>5. Applied(p) \subseteq 1..Len(log) /\ Len(log) \in Nat
    <3>1. end[p] <= Len(log) /\ Len(log) \in Nat /\ end[p] \in Nat
      BY <2>1
         DEF AloneInv, PageInOrder, IInv, TypeOK, StoreType, LocalsType
    <3> QED
      BY <2>1, <3>1 DEF Applied
  <2>6. ASSUME NEW x \in Applied(p)
        PROVE  Shown(x)'
    BY <1>2, <2>1, <2>4, <2>5, ShownStays
  <2> QED
    BY <2>2, <2>3, <2>6
<1> QED
  BY <1>1, <1>2, <1>6, <1>7

(* The steps that write no row: what they take for applied was shown.      *)
LEMMA NextShows ==
    ASSUME IInv, OneSync, Uninterrupted, AloneInv, [Next]_vars
    PROVE  TableShows'
<1> USE DEF Goto
<1>1. TypeOK /\ LogOrdered /\ CursorsGrow /\ PageInOrder /\ TableShows
  BY DEF IInv, AloneInv
<1>2. /\ Len(log) \in Nat /\ Len(log') \in Nat /\ Len(log) <= Len(log')
      /\ \A e \in 1..Len(log) : log'[e] = log[e]
  BY <1>1, LogGrows
<1>3. ASSUME rows' = rows, executions' = executions,
             NEW e \in 1..Len(log), Shown(e)
      PROVE  Shown(e)'
  BY <1>2, <1>3, ShownStays
<1>4. ASSUME NEW p \in Syncs, GetCursor(p)
      PROVE  TableShows'
  <2>1. /\ UNCHANGED <<cursorRow, rows, executions>> /\ pc[p] = "cursor"
        /\ \/ pc'[p] = "create"
           \/ /\ pc'[p] = "fetch"
              /\ \E row \in {cursorRow} \cup cache :
                    row # None /\ cur'[p] = row.cursor
    BY <1>1, <1>4 DEF GetCursor, store, TypeOK, LocalsType
  <2>2. \A q \in Syncs : pc[q] \notin Reading
    BY <2>1 DEF OneSync, Reading
  <2>3. cursorRow # None => /\ cursorRow.cursor \in 0..Len(log)
                            /\ \A e \in 1..cursorRow.cursor : Shown(e)
    BY <1>1, <2>2, Positions DEF TableShows
  <2>4. cursorRow # None => \A e \in 1..cursorRow.cursor : Shown(e)'
    BY <1>2, <1>3, <2>1, <2>3
  <2>5. CASE pc'[p] = "create"
    BY <2>1, <2>4, <2>5 DEF TableShows, OneSync, Reading
  <2>6. CASE pc'[p] = "fetch"
    <3>1. PICK row \in {cursorRow} \cup cache :
             row # None /\ cur'[p] = row.cursor
      BY <2>1, <2>6
    <3>2. cursorRow # None /\ row.cursor \in Nat
      BY <1>1, <3>1 DEF TypeOK, StoreType, CursorRow
    <3>3. row.cursor <= cursorRow.cursor
      BY <1>1, <2>3, <3>1, <3>2 DEF CursorsGrow
    <3>4. Applied(p)' \subseteq 1..cursorRow.cursor
      BY <2>3, <2>6, <3>1, <3>2, <3>3 DEF Applied
    <3> QED
      BY <2>4, <2>6, <3>2, <3>4 DEF TableShows, OneSync, Reading
  <2> QED
    BY <2>1, <2>5, <2>6
<1>5. ASSUME NEW p \in Syncs, CreateCursor(p)
      PROVE  TableShows'
  <2>1. /\ UNCHANGED <<cur, rows, executions>> /\ pc[p] = "create"
        /\ \/ pc'[p] = "fetch"
           \/ pc'[p] = "error" /\ UNCHANGED cursorRow
    BY <1>1, <1>5 DEF CreateCursor, TypeOK, LocalsType
  <2>2. CASE pc'[p] = "fetch"
    <3>1. Applied(p)' = {}
      BY <1>1, <2>1, <2>2 DEF Applied, CursorsGrow
    <3> QED
      BY <2>2, <3>1 DEF TableShows, OneSync, Reading
  <2>3. CASE pc'[p] = "error" /\ UNCHANGED cursorRow
    <3>1. cursorRow # None =>
             \A e \in 1..cursorRow.cursor : Shown(e) /\ e \in 1..Len(log)
      BY <1>1, <1>2, <2>1, Positions DEF TableShows, OneSync, Reading
    <3> QED
      BY <1>3, <2>1, <2>3, <3>1 DEF TableShows, OneSync, Reading
  <2> QED
    BY <2>1, <2>2, <2>3
<1>6. ASSUME NEW p \in Syncs, Fetch(p)
      PROVE  TableShows'
  <2> DEFINE k == Min({cur[p] + PageSize, Len(log)})
  <2>1. /\ UNCHANGED <<rows, executions>> /\ pc[p] = "fetch"
        /\ pc'[p] = "row" /\ end'[p] = k /\ todo'[p] = (cur[p] + 1)..k
    BY <1>1, <1>6 DEF Fetch, store, TypeOK, LocalsType
  <2>2. cur[p] \in 0..Len(log)
    BY Positions
  <2>3. k \in Nat
    <3>1. cur[p] + PageSize \in Nat
      BY <2>2, BoundsAssumption
    <3> QED
      BY <1>2, <3>1, MinOfTwo
  <2> HIDE DEF k
  <2>4. Applied(p)' \subseteq 1..cur[p]
    BY <2>1, <2>2, <2>3 DEF Applied
  <2>5. \A e \in 1..cur[p] : Shown(e) /\ e \in 1..Len(log)
    BY <1>1, <2>1, <2>2 DEF TableShows, Reading, Applied
  <2> QED
    BY <1>3, <2>1, <2>4, <2>5 DEF TableShows, OneSync, Reading
<1>7. ASSUME NEW p \in Syncs, ProcessEvent(p)
      PROVE  TableShows'
  BY <1>7, ProcessShows DEF TableShows, OneSync, Reading
<1>8. ASSUME NEW p \in Syncs,
             \/ FinishPage(p) \/ GetAccounts(p) \/ UpdateAccounts(p)
             \/ BalancesFail(p)
      PROVE  TableShows'
  <2>1. /\ UNCHANGED <<rows, executions>>
        /\ pc[p] \in {"row", "balances", "accounts"}
        /\ pc[p] = "row" => todo[p] = {} /\ cur'[p] = end[p]
        /\ pc[p] # "row" => cur'[p] = cur[p]
        /\ pc'[p] \in {"fetch", "balances", "accounts", "success"}
    BY <1>1, <1>8 DEF FinishPage, GetAccounts, UpdateAccounts, BalancesFail,
                      store, TypeOK, LocalsType
  <2>2. Applied(p)' \subseteq Applied(p)
    BY <2>1 DEF Applied
  <2>3. Applied(p) \subseteq 1..Len(log)
    <3>1. /\ cur[p] \in 0..Len(log) /\ end[p] \in Nat
          /\ pc[p] = "row" => end[p] <= Len(log)
      BY <1>1, Positions DEF PageInOrder, TypeOK, LocalsType
    <3> QED
      BY <1>2, <2>1, <3>1 DEF Applied
  <2>4. \A e \in Applied(p) : Shown(e)
    BY <1>1, <2>1 DEF TableShows, Reading
  <2>5. \A e \in Applied(p)' : Shown(e)'
    BY <1>3, <2>1, <2>2, <2>3, <2>4
  <2> QED
    BY <2>1, <2>5 DEF TableShows, OneSync, Reading
<1>9. ASSUME NEW p \in Syncs, RecordSuccess(p) \/ RecordFails(p)
      PROVE  TableShows'
  <2>1. /\ UNCHANGED <<rows, executions>> /\ pc'[p] = "idle"
        /\ pc[p] \in {"success", "error", "failure"}
        /\ \/ pc[p] = "success" /\ cursorRow'.cursor = cur[p]
           \/ UNCHANGED cursorRow
    BY <1>1, <1>9
       DEF RecordSuccess, RecordFails, Return, store, TypeOK, LocalsType
  <2>2. CASE pc[p] = "success"
    <3>1. /\ cursorRow # None /\ cursorRow.cursor <= cur[p]
          /\ cursorRow.cursor \in Nat /\ cur[p] \in 0..Len(log)
      BY <1>1, <2>2, Positions DEF CursorsGrow, TypeOK, LocalsInScope
    <3>2. \A e \in 1..cur[p] : Shown(e) /\ e \in 1..Len(log)
      BY <1>1, <2>2, <3>1 DEF TableShows, Reading, Applied
    <3>3. \A e \in 1..cur[p] : Shown(e)'
      BY <1>3, <2>1, <3>2
    <3>4. 1..cursorRow'.cursor \subseteq 1..cur[p]
      BY <2>1, <3>1
    <3> QED
      BY <2>1, <3>3, <3>4 DEF TableShows, OneSync, Reading
  <2>3. CASE pc[p] \in {"error", "failure"} /\ UNCHANGED cursorRow
    <3>1. cursorRow # None =>
             \A e \in 1..cursorRow.cursor : Shown(e) /\ e \in 1..Len(log)
      BY <1>1, <1>2, <2>3, Positions DEF TableShows, OneSync, Reading
    <3> QED
      BY <1>3, <2>1, <2>3, <3>1 DEF TableShows, OneSync, Reading
  <2> QED
    BY <2>1, <2>2, <2>3
<1>10. ASSUME NEW p \in Syncs,
              \/ SyncItemTransactions(p) \/ CallFails(p) \/ QueryFailures(p)
              \/ RecordError(p)
       PROVE  TableShows'
  <2>1. /\ UNCHANGED <<rows, executions>>
        /\ pc[p] \notin Reading /\ pc'[p] \notin Reading
    BY <1>1, <1>10, NoInterruption
       DEF SyncItemTransactions, CallFails, Fail, QueryFailures, RecordError,
           Return, store, TypeOK, LocalsType, Reading
  <2>2. /\ cursorRow' # None => cursorRow # None
        /\ cursorRow # None => cursorRow'.cursor = cursorRow.cursor
    <3>1. CASE UNCHANGED cursorRow
      BY <3>1
    <3>2. CASE RecordError(p)
      <4>1. cursorRow # None /\ cursorRow \in CursorRow
        BY <1>1, <3>2, Positions DEF RecordError, TypeOK, LocalsInScope
      <4> QED
        BY <3>2, <4>1 DEF RecordError, CursorRow
    <3> QED
      BY <1>10, <3>1, <3>2
         DEF SyncItemTransactions, CallFails, Fail, QueryFailures, store
  <2>3. cursorRow # None =>
           \A e \in 1..cursorRow.cursor : Shown(e) /\ e \in 1..Len(log)
    BY <1>1, <1>2, <2>1, Positions DEF TableShows, OneSync
  <2> QED
    BY <1>3, <2>1, <2>2, <2>3 DEF TableShows, OneSync
<1>11. CASE (\E t \in Txs : PlaidEvent(t)) \/ UNCHANGED vars
  <2>1. UNCHANGED <<pc, cur, end, todo, cursorRow, rows, executions>>
    BY <1>11 DEF PlaidEvent, vars, locals, store
  <2>2. ASSUME NEW p \in Syncs, pc[p] \in Reading
        PROVE  \A e \in Applied(p)' : Shown(e)'
    <3>1. /\ cur[p] \in 0..Len(log) /\ end[p] \in Nat
          /\ pc[p] \in {"row", "engine"} => end[p] <= Len(log)
          /\ todo[p] \subseteq 1..Len(log)
      BY <1>1, Positions DEF PageInOrder, TypeOK, LocalsType
    <3>2. Applied(p) \subseteq 1..Len(log)
      BY <1>2, <2>2, <3>1 DEF Applied, Reading
    <3>3. \A e \in todo[p] : IsNext(p, e)' <=> IsNext(p, e)
      BY <1>2, <2>1, <3>1 DEF IsNext
    <3>4. Applied(p)' = Applied(p)
      BY <2>1, <3>3 DEF Applied
    <3> QED
      BY <1>1, <1>3, <2>1, <2>2, <3>2, <3>4 DEF TableShows
  <2>3. ASSUME cursorRow # None, \A p \in Syncs : pc[p] \notin Reading
        PROVE  \A e \in 1..cursorRow.cursor : Shown(e)'
    BY <1>1, <1>2, <1>3, <2>1, <2>3, Positions DEF TableShows
  <2> QED
    BY <2>1, <2>2, <2>3 DEF TableShows
<1> QED
  BY <1>1, <1>4, <1>5, <1>6, <1>7, <1>8, <1>9, <1>10, <1>11, NoInterruption
     DEF Next, Progress, Fault

LEMMA NextAlone ==
    ASSUME IInv, OneSync, Uninterrupted, AloneInv, [Next]_vars
    PROVE  AloneInv'
BY NextLog, NextCursors, NextPages, NextShows DEF IInv, AloneInv
(* While one sync at a time works on a link, and Plaid and the database    *)
(* answer, the stored balances include every transaction behind the        *)
(* cursor, whichever rows fail to be written and wherever the process dies *)
(* (sync_service.go:105).                                                  *)
THEOREM BalancesFollow ==
    ASSUME OneSync, Faults \subseteq {"row"}
    PROVE  Spec => []BalancesCurrent
<1>1. Init => Balanced
  BY InitBalanced
<1>2. IInv /\ Balanced /\ [Next]_vars => Balanced'
  BY NextBalanced
<1>3. Balanced => BalancesCurrent
  <2> SUFFICES ASSUME Balanced, cursorRow # None
               PROVE  balance >= cursorRow.cursor
    BY DEF BalancesCurrent
  <2> QED
    BY DEF Balanced
<1> QED
  BY <1>1, <1>2, <1>3, Inductive, PTL DEF Spec

LEMMA NotBehind ==
    ASSUME IInv, AloneInv
    PROVE  NeverBehind
<1> SUFFICES ASSUME Idle, cursorRow # None, NEW t \in Txs
             PROVE  UpToDate(t)
  BY DEF NeverBehind
<1> DEFINE c == cursorRow.cursor
           last == Upto(t, c)
           now == Upto(t, Len(log))
<1>1. c \in 0..Len(log) /\ c \in Nat /\ Len(log) \in Nat
  BY Positions
<1>2. /\ last \in 0..c
      /\ last # 0 => log[last].tx = t
      /\ now \in 0..Len(log)
      /\ now # 0 => log[now].tx = t
      /\ \A e \in 1..Len(log) : log[e].tx = t => e <= now
  BY <1>1, UptoIsLast
<1>3. \A e \in 1..c : Shown(e)
  BY DEF Idle, AloneInv, TableShows, Reading
<1> HIDE DEF c, last, now
<1>4. SUFFICES ASSUME last # 0
               PROVE  IF log[last].op = "removed"
                      THEN rows[t] # None => Referenced(rows[t])
                      ELSE IF rows[t] = None
                           THEN log[now].op = "removed"
                           ELSE rows[t].event >= last
  BY DEF UpToDate, c, last, now
<1>5. last \in 1..c /\ log[last].tx = t /\ Shown(last)
  BY <1>1, <1>2, <1>3, <1>4
<1>6. rows[t] = None => log[now].op = "removed"
  <2>1. SUFFICES ASSUME rows[t] = None PROVE log[now].op = "removed"
    OBVIOUS
  <2>2. PICK e \in 1..Len(log) : log[e].tx = t /\ log[e].op = "removed"
    BY <1>5, <2>1 DEF Shown, Removed
  <2>3. e <= now /\ now \in 1..Len(log) /\ log[now].tx = t
    BY <1>1, <1>2, <2>2
  <2>4. ~(e < now)
    BY <2>2, <2>3 DEF AloneInv, LogOrdered
  <2> QED
    BY <2>2, <2>3, <2>4
<1> QED
  BY <1>5, <1>6 DEF Shown

(* While one sync at a time works on a link, and nothing interrupts it     *)
(* between its first page and its cursor, the table is never behind the    *)
(* cursor: a sync that starts from an older, cached cursor replays what    *)
(* was processed before, takes rows back to older events on the way, and   *)
(* has caught up when it saves its own (sync_service.go:39).  The database *)
(* may fail to answer for the cursor or to save it.                        *)
THEOREM TableFollows ==
    ASSUME OneSync, Uninterrupted
    PROVE  Spec => []NeverBehind
<1>1. Init => AloneInv
  BY InitAlone
<1>2. IInv /\ AloneInv /\ [Next]_vars => AloneInv'
  BY NextAlone
<1>3. IInv /\ AloneInv => NeverBehind
  BY NotBehind
<1> QED
  BY <1>1, <1>2, <1>3, Inductive, PTL DEF Spec

-----------------------------------------------------------------------------
(* Every sync comes to an end.                                             *)

(* What a sync does one after the other: it looks for its cursor, works    *)
(* with it, and records an error, if there is one.                         *)
Phase(label) ==
    CASE label = "cursor"    -> 5
      [] label = "create"    -> 4
      [] label \in Reading   -> 3
      [] label = "error"     -> 2
      [] label = "failure"   -> 1
      [] OTHER               -> 0

(* How many statements and requests a sync that works with its cursor can  *)
(* have before it: at most four for each event of the log, to fetch its    *)
(* page, to write its row, to run the engine and to finish the page.       *)
PagesLeft(p) == IF more[p] THEN 4 * (Len(log) - end[p]) + 2 ELSE 0

StepsLeft(p) ==
    CASE pc[p] = "fetch"    -> 4 * (Len(log) - cur[p]) + 5
      [] pc[p] = "row"      -> 2 * Cardinality(todo[p]) + PagesLeft(p) + 4
      [] pc[p] = "engine"   -> 2 * Cardinality(todo[p]) + PagesLeft(p) + 3
      [] pc[p] = "balances" -> 2
      [] pc[p] = "accounts" -> 1
      [] OTHER              -> 0

(* A sync comes nearer to its end with each of its steps, and no step of   *)
(* another sync takes it back.  Only an event that Plaid adds to the log   *)
(* gives it more to do.                                                    *)
NearsItsEnd(p) ==
    \/ UNCHANGED <<pc[p], cur[p], todo[p], end[p], more[p]>>
    \/ pc[p] = "idle" /\ pc'[p] \in {"idle", "cursor"}
    \/ Phase(pc'[p]) < Phase(pc[p])
    \/ /\ pc[p] \in Reading /\ pc'[p] \in Reading
       /\ UNCHANGED log
       /\ StepsLeft(p) \in Nat /\ StepsLeft(p)' < StepsLeft(p)

SyncsNearTheirEnd == [][\A p \in Syncs : NearsItsEnd(p)]_vars

LEMMA PhasesDescend ==
    /\ Phase("cursor") = 5 /\ Phase("create") = 4
    /\ \A label \in Reading : Phase(label) = 3
    /\ Phase("error") = 2 /\ Phase("failure") = 1 /\ Phase("idle") = 0
BY DEF Phase, Reading

(* No sync works behind the end of the log.                                *)
LEMMA InsideLog ==
    ASSUME IInv, NEW p \in Syncs
    PROVE  /\ Len(log) \in Nat /\ cur[p] \in 0..Len(log)
           /\ end[p] \in Nat /\ more[p] \in BOOLEAN
           /\ IsFiniteSet(todo[p]) /\ Cardinality(todo[p]) \in Nat
           /\ pc[p] \in {"row", "engine"} => end[p] <= Len(log)
<1>1. /\ Len(log) \in Nat /\ cur[p] \in Nat /\ end[p] \in Nat
      /\ more[p] \in BOOLEAN /\ todo[p] \subseteq 1..Len(log)
      /\ handled \subseteq 1..Len(log)
  BY DEF IInv, TypeOK, StoreType, LocalsType
<1>2. 1..cur[p] \subseteq handled
  BY DEF IInv, WorkCovered, LocalsCovered, Covered
<1>3. cur[p] <= Len(log)
  <2>1. cur[p] # 0 => cur[p] \in 1..cur[p]
    BY <1>1
  <2> QED
    BY <1>1, <1>2, <2>1
<1>4. ASSUME pc[p] \in {"row", "engine"}
      PROVE  end[p] <= Len(log)
  <2>1. (cur[p] + 1)..end[p] \subseteq 1..Len(log)
    BY <1>1, <1>4 DEF IInv, WorkCovered, LocalsCovered
  <2>2. end[p] > cur[p] => end[p] \in (cur[p] + 1)..end[p]
    BY <1>1
  <2> QED
    BY <1>1, <1>3, <2>1, <2>2
<1>5. IsFiniteSet(todo[p]) /\ Cardinality(todo[p]) \in Nat
  <2>1. IsFiniteSet(1..Len(log))
    BY <1>1, FS_Interval
  <2>2. IsFiniteSet(todo[p])
    BY <1>1, <2>1, FS_Subset
  <2> QED
    BY <2>2, FS_CardinalityType
<1> QED
  BY <1>1, <1>3, <1>4, <1>5

LEMMA StepsLeftType ==
    ASSUME IInv, NEW p \in Syncs
    PROVE  PagesLeft(p) \in Int /\ StepsLeft(p) \in Nat
<1>1. /\ Len(log) \in Nat /\ cur[p] \in 0..Len(log) /\ end[p] \in Nat
      /\ Cardinality(todo[p]) \in Nat
      /\ pc[p] \in {"row", "engine"} => end[p] <= Len(log)
  BY InsideLog
<1>2. /\ PagesLeft(p) \in Int
      /\ pc[p] \in {"row", "engine"} => PagesLeft(p) \in Nat
  BY <1>1 DEF PagesLeft
<1>3. 4 * (Len(log) - cur[p]) + 5 \in Nat
  BY <1>1
<1>4. pc[p] \in {"row", "engine"} =>
          /\ 2 * Cardinality(todo[p]) + PagesLeft(p) + 4 \in Nat
          /\ 2 * Cardinality(todo[p]) + PagesLeft(p) + 3 \in Nat
  BY <1>1, <1>2
<1> QED
  BY <1>2, <1>3, <1>4 DEF StepsLeft

(* A page is not empty if another one follows, so that four steps per      *)
(* event suffice.                                                          *)
LEMMA FetchNears ==
    ASSUME IInv, NEW p \in Syncs, Fetch(p)
    PROVE  NearsItsEnd(p)
<1> DEFINE k == Min({cur[p] + PageSize, Len(log)})
           n == k - cur[p]
<1>1. /\ Len(log) \in Nat /\ cur[p] \in 0..Len(log)
      /\ PageSize \in Nat \ {0}
  BY InsideLog, BoundsAssumption
<1>2. /\ k \in cur[p]..Len(log)
      /\ k < Len(log) => k > cur[p]
  BY <1>1, MinOfTwo
<1>3. /\ pc[p] = "fetch" /\ pc'[p] = "row" /\ UNCHANGED log
      /\ end'[p] = k /\ more'[p] = (k < Len(log))
      /\ todo'[p] = (cur[p] + 1)..k
  BY DEF Fetch, Goto, IInv, TypeOK, LocalsType
<1> HIDE DEF k
<1>4. n \in Nat
  BY <1>1, <1>2
<1>5. Cardinality(todo'[p]) = n
  <2>1. cur[p] + 1 \in Int /\ k \in Int
    BY <1>1, <1>2
  <2>2. Cardinality((cur[p] + 1)..k) =
            IF cur[p] + 1 > k THEN 0 ELSE k - (cur[p] + 1) + 1
    BY <2>1, FS_Interval
  <2> QED
    BY <1>1, <1>2, <1>3, <2>2
<1>6. PagesLeft(p)' = IF k < Len(log) THEN 4 * (Len(log) - k) + 2 ELSE 0
  BY <1>3 DEF PagesLeft
<1>7. StepsLeft(p)' = 2 * n + PagesLeft(p)' + 4
  BY <1>3, <1>5 DEF StepsLeft
<1>8. StepsLeft(p) = 4 * (Len(log) - cur[p]) + 5
  BY <1>3 DEF StepsLeft
<1>9. StepsLeft(p)' < StepsLeft(p)
  BY <1>1, <1>2, <1>4, <1>6, <1>7, <1>8
<1> QED
  BY <1>3, <1>9, StepsLeftType DEF NearsItsEnd, Reading

(* The list of the page gets shorter, or its first event is handed to the  *)
(* rule engine.                                                            *)
LEMMA ProcessNears ==
    ASSUME IInv, NEW p \in Syncs, NEW e \in todo[p],
           pc[p] \in {"row", "engine"}, UNCHANGED <<log, end, more>>,
           \/ pc'[p] = "row" /\ todo'[p] = todo[p] \ {e}
           \/ pc'[p] = "engine" /\ todo'[p] = todo[p] /\ pc[p] = "row"
    PROVE  NearsItsEnd(p)
<1>1. /\ IsFiniteSet(todo[p]) /\ Cardinality(todo[p]) \in Nat
      /\ PagesLeft(p) \in Int /\ StepsLeft(p) \in Nat
  BY InsideLog, StepsLeftType
<1>2. Cardinality(todo[p] \ {e}) = Cardinality(todo[p]) - 1
  BY <1>1, FS_RemoveElement
<1>3. PagesLeft(p)' = PagesLeft(p)
  BY DEF PagesLeft
<1>4. CASE pc'[p] = "row" /\ todo'[p] = todo[p] \ {e}
  <2>1. StepsLeft(p)' = 2 * (Cardinality(todo[p]) - 1) + PagesLeft(p) + 4
    BY <1>2, <1>3, <1>4 DEF StepsLeft
  <2>2. StepsLeft(p)' < StepsLeft(p)
    BY <1>1, <2>1 DEF StepsLeft
  <2> QED
    BY <1>1, <1>4, <2>2 DEF NearsItsEnd, Reading
<1>5. CASE pc'[p] = "engine" /\ todo'[p] = todo[p] /\ pc[p] = "row"
  <2>1. StepsLeft(p)' = 2 * Cardinality(todo[p]) + PagesLeft(p) + 3
    BY <1>3, <1>5 DEF StepsLeft
  <2>2. StepsLeft(p)' < StepsLeft(p)
    BY <1>1, <1>5, <2>1 DEF StepsLeft
  <2> QED
    BY <1>1, <1>5, <2>2 DEF NearsItsEnd, Reading
<1> QED
  BY <1>4, <1>5

LEMMA FinishPageNears ==
    ASSUME IInv, NEW p \in Syncs, FinishPage(p)
    PROVE  NearsItsEnd(p)
<1>1. /\ Len(log) \in Nat /\ end[p] \in Nat /\ more[p] \in BOOLEAN
      /\ StepsLeft(p) \in Nat
  BY InsideLog, StepsLeftType
<1>2. /\ pc[p] = "row" /\ todo[p] = {} /\ UNCHANGED <<log, end, more>>
      /\ cur'[p] = end[p]
      /\ pc'[p] = IF more[p] THEN "fetch" ELSE "balances"
  BY DEF FinishPage, Goto, IInv, TypeOK, LocalsType
<1>3. StepsLeft(p) = PagesLeft(p) + 4
  BY <1>1, <1>2, FS_EmptySet DEF StepsLeft, PagesLeft
<1>4. StepsLeft(p)' < StepsLeft(p)
  BY <1>1, <1>2, <1>3 DEF StepsLeft, PagesLeft
<1> QED
  BY <1>1, <1>2, <1>4 DEF NearsItsEnd, Reading

(* A step of a sync is a step of its call only.                            *)
LEMMA StepOfSync ==
    ASSUME IInv, NEW p \in Syncs,
           SyncItemTransactions(p) \/ Progress(p) \/ Fault(p)
    PROVE  /\ NearsItsEnd(p)
           /\ \A q \in Syncs \ {p} :
                 UNCHANGED <<pc[q], cur[q], todo[q], end[q], more[q]>>
<1> USE DEF Goto
<1>0. /\ pc \in [Syncs -> Labels] /\ cur \in [Syncs -> Nat]
      /\ todo \in [Syncs -> SUBSET (1..Len(log))]
      /\ end \in [Syncs -> Nat] /\ more \in [Syncs -> BOOLEAN]
  BY DEF IInv, TypeOK, LocalsType
<1>1. CASE SyncItemTransactions(p)
  BY <1>0, <1>1 DEF SyncItemTransactions, NearsItsEnd
<1>2. CASE GetCursor(p)
  <2>1. PICK answer \in {cursorRow} \cup cache :
           \/ pc' = [pc EXCEPT ![p] = "create"] /\ UNCHANGED cur
           \/ /\ pc' = [pc EXCEPT ![p] = "fetch"]
              /\ cur' = [cur EXCEPT ![p] = answer.cursor]
    BY <1>2, Zenon DEF GetCursor
  <2>2. pc[p] = "cursor" /\ UNCHANGED <<todo, end, more>>
    BY <1>2 DEF GetCursor
  <2> QED
    BY <1>0, <2>1, <2>2, PhasesDescend DEF NearsItsEnd, Reading
<1>3. CASE CreateCursor(p)
  <2>1. /\ pc[p] = "create" /\ UNCHANGED <<cur, todo, end, more>>
        /\ \/ pc' = [pc EXCEPT ![p] = "fetch"]
           \/ pc' = [pc EXCEPT ![p] = "error"]
    BY <1>3 DEF CreateCursor
  <2> QED
    BY <1>0, <2>1, PhasesDescend DEF NearsItsEnd, Reading
<1>4. CASE Fetch(p)
  BY <1>0, <1>4, FetchNears DEF Fetch
<1>5. ASSUME NEW e \in todo[p],
             \/ AddTransaction(p, e) \/ ModifyTransaction(p, e)
             \/ RemoveTransaction(p, e) \/ RunEngine(p, e)
             \/ RowFails(p, e)
      PROVE  /\ NearsItsEnd(p)
             /\ \A q \in Syncs \ {p} :
                   UNCHANGED <<pc[q], cur[q], todo[q], end[q], more[q]>>
  <2>1. /\ UNCHANGED <<log, cur, end, more>>
        /\ pc[p] \in {"row", "engine"}
        /\ Done(p, e) \/ (ThenEngine(p, e) /\ pc[p] = "row")
    BY <1>5 DEF AddTransaction, ModifyTransaction, RemoveTransaction,
       RunEngine, RowFails
  <2>2. \/ Done(p, e)
        \/ /\ pc' = [pc EXCEPT ![p] = "engine"] /\ UNCHANGED todo
           /\ pc[p] = "row"
    BY <2>1, Zenon DEF ThenEngine
  <2>3. \/ pc'[p] = "row" /\ todo'[p] = todo[p] \ {e}
        \/ pc'[p] = "engine" /\ todo'[p] = todo[p] /\ pc[p] = "row"
    BY <1>0, <2>2 DEF Done
  <2>4. NearsItsEnd(p)
    BY <2>1, <2>3, ProcessNears
  <2>5. \A q \in Syncs \ {p} : UNCHANGED <<pc[q], todo[q]>>
    BY <1>0, <2>2 DEF Done
  <2> QED
    BY <2>1, <2>4, <2>5
<1>6. CASE FinishPage(p)
  BY <1>0, <1>6, FinishPageNears DEF FinishPage
<1>7. CASE GetAccounts(p) \/ UpdateAccounts(p) \/ BalancesFail(p)
  <2>1. /\ UNCHANGED <<log, cur, todo, end, more>>
        /\ \/ pc[p] = "balances" /\ pc' = [pc EXCEPT ![p] = "accounts"]
           \/ /\ pc[p] \in {"balances", "accounts"}
              /\ pc' = [pc EXCEPT ![p] = "success"]
    BY <1>7 DEF GetAccounts, UpdateAccounts, BalancesFail
  <2>2. StepsLeft(p) \in Nat /\ StepsLeft(p)' < StepsLeft(p)
    BY <1>0, <2>1 DEF StepsLeft
  <2> QED
    BY <1>0, <2>1, <2>2 DEF NearsItsEnd, Reading
<1>8. ASSUME Return(p), pc[p] \in {"success", "error", "failure"}
      PROVE  /\ NearsItsEnd(p)
             /\ \A q \in Syncs \ {p} :
                   UNCHANGED <<pc[q], cur[q], todo[q], end[q], more[q]>>
  <2>1. pc'[p] = "idle"
    BY <1>0, <1>8 DEF Return
  <2>2. Phase(pc[p]) > 0
    BY <1>8, PhasesDescend DEF Reading
  <2>3. NearsItsEnd(p)
    BY <2>1, <2>2, PhasesDescend DEF NearsItsEnd
  <2>4. \A q \in Syncs \ {p} :
           UNCHANGED <<pc[q], cur[q], todo[q], end[q], more[q]>>
    BY <1>0, <1>8 DEF Return
  <2> QED
    BY <2>3, <2>4
<1>9. CASE RecordSuccess(p) \/ RecordError(p) \/ RecordFails(p)
  BY <1>8, <1>9 DEF RecordSuccess, RecordError, RecordFails
<1>10. CASE QueryFailures(p)
  <2>1. /\ pc[p] = "error"
        /\ \/ Return(p)
           \/ /\ pc' = [pc EXCEPT ![p] = "failure"]
              /\ UNCHANGED <<cur, todo, end, more>>
    BY <1>10, Zenon DEF QueryFailures
  <2> QED
    BY <1>0, <1>8, <2>1, PhasesDescend DEF NearsItsEnd, Reading
<1>11. CASE CallFails(p)
  <2>1. /\ pc[p] \in {"cursor", "create", "fetch"}
        /\ pc' = [pc EXCEPT ![p] = "error"]
        /\ UNCHANGED <<cur, todo, end, more>>
    BY <1>11 DEF CallFails, Fail
  <2> QED
    BY <1>0, <2>1, PhasesDescend DEF NearsItsEnd, Reading
<1> QED
  BY <1>1, <1>2, <1>3, <1>4, <1>5, <1>6, <1>7, <1>9, <1>10, <1>11
     DEF Progress, ProcessEvent, Fault

(* The loop over the pages ends (sync_service.go:63): whatever other syncs *)
(* write, whatever fails and however a sync that starts from an old cursor *)
(* has to replay, each of its steps brings it nearer to its end, unless    *)
(* Plaid goes on to report more while it works.                            *)
THEOREM SyncsRunOut == Spec => SyncsNearTheirEnd
<1>1. ASSUME IInv, [Next]_vars
      PROVE  \A p \in Syncs : NearsItsEnd(p)
  <2>1. CASE UNCHANGED vars \/ \E t \in Txs : PlaidEvent(t)
    BY <2>1 DEF PlaidEvent, vars, locals, NearsItsEnd
  <2>2. ASSUME NEW p \in Syncs,
               SyncItemTransactions(p) \/ Progress(p) \/ Fault(p)
        PROVE  \A q \in Syncs : NearsItsEnd(q)
    BY <1>1, <2>2, StepOfSync DEF NearsItsEnd
  <2>3. CASE Crash
    <3> SUFFICES ASSUME NEW p \in Syncs PROVE NearsItsEnd(p)
      OBVIOUS
    <3>1. pc[p] \in Labels /\ pc'[p] = "idle"
      BY <1>1, <2>3 DEF Crash, IInv, TypeOK, LocalsType
    <3>2. pc[p] # "idle" => Phase(pc[p]) > 0
      BY <3>1, PhasesDescend DEF Labels, Reading
    <3> QED
      BY <3>1, <3>2, PhasesDescend DEF NearsItsEnd
  <2> QED
    BY <1>1, <2>1, <2>2, <2>3 DEF Next
<1> QED
  BY <1>1, Inductive, PTL DEF Spec, SyncsNearTheirEnd
=============================================================================
