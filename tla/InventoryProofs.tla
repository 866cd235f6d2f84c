--------------------------- MODULE InventoryProofs ---------------------------
(***************************************************************************)
(* Theorems about the inventory service, for any orders, products,         *)
(* requests, time to live and bounds.                                      *)
(***************************************************************************)
EXTENDS Inventory, TLAPS, FiniteSetTheorems

USE RequestAssumption, TTLAssumption, NullAssumption

-----------------------------------------------------------------------------
(* Type correctness.                                                       *)

(* The program counter of a Reserve transaction agrees with its data.      *)
ProgressInv ==
  \A o \in Order :
    /\ pc[o] \in {"lock", "check", "insert"} => lines[o] # <<>> /\ next[o] <= Len(lines[o])
    /\ pc[o] \notin Active => writes[o] = {} /\ next[o] = 1

LEMMA CurrentType ==
  ASSUME TypeOK, NEW o \in Order, lines[o] # <<>>, next[o] <= Len(lines[o])
  PROVE  Current(o) \in Line
BY DEF TypeOK, Current

(* What a statement may do to one row: set one of its outcome columns.     *)
Marks(r) == {r, [r EXCEPT !.confirmedAt = now], [r EXCEPT !.released = TRUE],
             [r EXCEPT !.expired = TRUE], [r EXCEPT !.cancelled = TRUE]}

LEMMA MarkType ==
  ASSUME TypeOK, NEW r \in Row, NEW s \in Marks(r)
  PROVE  /\ s \in Row
         /\ s.order = r.order /\ s.line = r.line /\ s.product = r.product
         /\ s.quantity = r.quantity /\ s.createdAt = r.createdAt
<1>1. [r EXCEPT !.confirmedAt = now] \in Row
  BY DEF Row, TypeOK
<1>2. [r EXCEPT !.released = TRUE] \in Row
  BY DEF Row
<1>3. [r EXCEPT !.expired = TRUE] \in Row
  BY DEF Row
<1>4. [r EXCEPT !.cancelled = TRUE] \in Row
  BY DEF Row
<1> QED
  BY <1>1, <1>2, <1>3, <1>4 DEF Marks, Row

(* A step that does to each committed row what f says.                     *)
MarkedBy(f) ==
  /\ DOMAIN f = reservations
  /\ \A r \in reservations : f[r] \in Marks(r)
  /\ reservations' = {f[r] : r \in reservations}
  /\ UNCHANGED <<now, stock, reserveVars>>

ConfirmOf(o) == [r \in reservations |->
  IF r \in PendingOf(o) THEN [r EXCEPT !.confirmedAt = now] ELSE r]
ReleaseOf(o) == [r \in reservations |->
  IF r \in PendingOf(o) THEN [r EXCEPT !.released = TRUE] ELSE r]
ExpireAll == [r \in reservations |->
  IF r \in LapsedRows THEN [r EXCEPT !.expired = TRUE] ELSE r]
CompensateOf(o) == [r \in reservations |->
  CASE r \in releasing[o] -> [r EXCEPT !.released = TRUE]
    [] r.order = o /\ Sold(r) -> [r EXCEPT !.cancelled = TRUE]
    [] OTHER -> r]

LEMMA OutcomeStatements ==
  ASSUME NEW o \in Order
  PROVE  /\ ConfirmReservationsByOrder(o) => MarkedBy(ConfirmOf(o))
         /\ ReleaseReservationsByOrder(o) => MarkedBy(ReleaseOf(o))
         /\ CompensateCancel(o) => MarkedBy(CompensateOf(o))
<1>1. ConfirmReservationsByOrder(o) => MarkedBy(ConfirmOf(o))
  BY DEF ConfirmReservationsByOrder, MarkedBy, ConfirmOf, Marks
<1>2. ReleaseReservationsByOrder(o) => MarkedBy(ReleaseOf(o))
  BY DEF ReleaseReservationsByOrder, MarkedBy, ReleaseOf, Marks
<1>3. CompensateCancel(o) => MarkedBy(CompensateOf(o))
  BY DEF CompensateCancel, MarkedBy, CompensateOf, Marks
<1> QED BY <1>1, <1>2, <1>3

LEMMA ExpireStatement == ExpireReservations => MarkedBy(ExpireAll)
BY DEF ExpireReservations, MarkedBy, ExpireAll, Marks

LEMMA MarkedType ==
  ASSUME TypeOK, NEW f, MarkedBy(f)
  PROVE  reservations' \subseteq Row
BY MarkType DEF MarkedBy, TypeOK

LEMMA EndReserveType ==
  ASSUME TypeOK, NEW o \in Order, NEW outcome \in Ended, EndReserve(o, outcome),
         reservations' \subseteq Row
  PROVE  TypeOK'
BY DEF TypeOK, EndReserve, Ended, compVars, Active

LEMMA TypeStep == TypeOK /\ ProgressInv /\ [Next]_vars => TypeOK'
<1> SUFFICES ASSUME TypeOK, ProgressInv, [Next]_vars PROVE TypeOK'
  OBVIOUS
<1>1. CASE Tick
  BY <1>1 DEF TypeOK, Tick, reserveVars, compVars
<1>2. CASE ExpireReservations
  <2>1. reservations' \subseteq Row
    BY <1>2, ExpireStatement, MarkedType
  <2> QED BY <1>2, <2>1 DEF TypeOK, ExpireReservations, reserveVars, compVars
<1>3. ASSUME NEW p \in Product, NEW q \in 1..MaxStock, StockIn(p, q) PROVE TypeOK'
  BY <1>3 DEF TypeOK, StockIn, reserveVars, compVars
<1>4. ASSUME NEW o \in Order, NEW req \in Request, BeginReserve(o, req) PROVE TypeOK'
  BY <1>4 DEF TypeOK, BeginReserve, compVars, Active
<1>5. ASSUME NEW o \in Order, LockProduct(o) PROVE TypeOK'
  <2>1. Current(o).product \in Product
    BY <1>5, CurrentType DEF LockProduct, ProgressInv, Line
  <2> QED BY <1>5, <2>1 DEF TypeOK, LockProduct, compVars, Active
<1>6. ASSUME NEW o \in Order, CheckAvailable(o) PROVE TypeOK'
  BY <1>6 DEF TypeOK, CheckAvailable, compVars, Active
<1>7. ASSUME NEW o \in Order, Refuse(o) PROVE TypeOK'
  BY <1>7, EndReserveType DEF Refuse, TypeOK, Ended
<1>8. ASSUME NEW o \in Order, InsertReservation(o) PROVE TypeOK'
  <2>1. NewRow(o) \in Row
    BY <1>8, CurrentType DEF InsertReservation, ProgressInv, NewRow, Row, Line, TypeOK
  <2> QED BY <1>8, <2>1 DEF TypeOK, InsertReservation, compVars, Active
<1>9. ASSUME NEW o \in Order, CommitReserve(o) PROVE TypeOK'
  <2>1. reservations' \subseteq Row
    BY <1>9 DEF CommitReserve, TypeOK
  <2> QED BY <1>9, <2>1, EndReserveType DEF CommitReserve, Ended
<1>10. ASSUME NEW o \in Order, BreakDeadlock(o) \/ FailReserve(o) PROVE TypeOK'
  BY <1>10, EndReserveType DEF BreakDeadlock, FailReserve, TypeOK, Ended
<1>11. ASSUME NEW o \in Order, ConfirmReservationsByOrder(o) PROVE TypeOK'
  <2>1. reservations' \subseteq Row
    BY <1>11, OutcomeStatements, MarkedType
  <2> QED BY <1>11, <2>1 DEF TypeOK, ConfirmReservationsByOrder, reserveVars, compVars
<1>12. ASSUME NEW o \in Order, ReleaseReservationsByOrder(o) PROVE TypeOK'
  <2>1. reservations' \subseteq Row
    BY <1>12, OutcomeStatements, MarkedType
  <2> QED BY <1>12, <2>1 DEF TypeOK, ReleaseReservationsByOrder, reserveVars, compVars
<1>13. ASSUME NEW o \in Order, CompensateRelease(o) PROVE TypeOK'
  BY <1>13 DEF TypeOK, CompensateRelease, reserveVars, PendingOf
<1>14. ASSUME NEW o \in Order, CompensateCancel(o) PROVE TypeOK'
  <2>1. reservations' \subseteq Row
    BY <1>14, OutcomeStatements, MarkedType
  <2> QED BY <1>14, <2>1 DEF TypeOK, CompensateCancel, reserveVars
<1>15. ASSUME NEW o \in Order, CompensateFail(o) PROVE TypeOK'
  BY <1>15 DEF TypeOK, CompensateFail, reserveVars
<1>16. CASE UNCHANGED vars
  BY <1>16 DEF TypeOK, vars, reserveVars, compVars
<1> QED
  BY <1>1, <1>2, <1>3, <1>4, <1>5, <1>6, <1>7, <1>8, <1>9, <1>10, <1>11, <1>12, <1>13,
     <1>14, <1>15, <1>16 DEF Next, Reserve

LEMMA EndReserveProgress ==
  ASSUME TypeOK, ProgressInv, NEW o \in Order, NEW outcome \in Ended, EndReserve(o, outcome)
  PROVE  ProgressInv'
BY DEF TypeOK, ProgressInv, EndReserve, Ended, Active, compVars

LEMMA ProgressStep == TypeOK /\ ProgressInv /\ [Next]_vars => ProgressInv'
<1> SUFFICES ASSUME TypeOK, ProgressInv, [Next]_vars PROVE ProgressInv'
  OBVIOUS
<1>1. CASE UNCHANGED reserveVars
  BY <1>1 DEF ProgressInv, reserveVars
<1>2. ASSUME NEW o \in Order, NEW req \in Request, BeginReserve(o, req) PROVE ProgressInv'
  <2>1. req # <<>> /\ 1 <= Len(req)
    BY DEF Line
  <2> QED BY <1>2, <2>1 DEF TypeOK, ProgressInv, BeginReserve, Active
<1>3. ASSUME NEW o \in Order, LockProduct(o) \/ CheckAvailable(o) PROVE ProgressInv'
  BY <1>3 DEF TypeOK, ProgressInv, LockProduct, CheckAvailable, Active
<1>4. ASSUME NEW o \in Order, InsertReservation(o) PROVE ProgressInv'
  <2>1. Len(lines[o]) \in Nat /\ next[o] \in Nat
    BY DEF TypeOK
  <2> QED BY <1>4, <2>1 DEF TypeOK, ProgressInv, InsertReservation, Active
<1>5. ASSUME NEW o \in Order, Refuse(o) \/ CommitReserve(o) \/ BreakDeadlock(o) \/ FailReserve(o)
      PROVE ProgressInv'
  BY <1>5, EndReserveProgress DEF Refuse, CommitReserve, BreakDeadlock, FailReserve, Ended
<1>6. CASE Tick \/ ExpireReservations \/ \E p \in Product, q \in 1..MaxStock : StockIn(p, q)
  BY <1>6, <1>1 DEF Tick, ExpireReservations, StockIn
<1>7. ASSUME NEW o \in Order,
             \/ ConfirmReservationsByOrder(o) \/ ReleaseReservationsByOrder(o)
             \/ CompensateRelease(o) \/ CompensateCancel(o) \/ CompensateFail(o)
      PROVE ProgressInv'
  BY <1>7, <1>1 DEF ConfirmReservationsByOrder, ReleaseReservationsByOrder, CompensateRelease,
                   CompensateCancel, CompensateFail
<1>8. CASE UNCHANGED vars
  BY <1>8, <1>1 DEF vars
<1> QED
  BY <1>2, <1>3, <1>4, <1>5, <1>6, <1>7, <1>8 DEF Next, Reserve

LEMMA TypeInit == Init => TypeOK /\ ProgressInv
BY DEF Init, TypeOK, ProgressInv, Active

(* Every variable keeps its type: rows keep well-formed columns, a counter *)
(* of lines never leaves the request.                                      *)
THEOREM TypeCorrect == Spec => [](TypeOK /\ ProgressInv)
<1>1. Init => TypeOK /\ ProgressInv
  BY TypeInit
<1>2. TypeOK /\ ProgressInv /\ [Next]_vars => (TypeOK /\ ProgressInv)'
  BY TypeStep, ProgressStep
<1> QED
  BY <1>1, <1>2, PTL DEF Spec

-----------------------------------------------------------------------------
(* One outcome for each row, and rows only for the reservations that       *)
(* succeeded.                                                              *)

(* A compensation has locked rows that are still pending: the statements   *)
(* that would change them wait.                                            *)
ReleasingInv == \A o \in Order : releasing[o] \subseteq PendingOf(o)

(* What a transaction has inserted so far: rows of its order, for lines it *)
(* is past, that nobody else has seen yet.                                 *)
WritesInv ==
  \A o \in Order : \A r \in writes[o] :
    /\ r.order = o
    /\ r.line < next[o]
    /\ r.createdAt = began[o]
    /\ Pending(r)
    /\ ~r.cancelled

CommittedInv == \A r \in reservations : pc[r.order] = "reserved"

RowInv == OneOutcome /\ ReleasingInv /\ WritesInv /\ CommittedInv

(* The statements that leave all rows and locks of rows alone.             *)
LEMMA RowsUnchanged ==
  ASSUME RowInv, UNCHANGED <<reservations, pc, next, began, writes, releasing>>
  PROVE  RowInv'
BY DEF RowInv, OneOutcome, ReleasingInv, WritesInv, CommittedInv, PendingOf, Pending

(* The end of a transaction that does not commit.                          *)
LEMMA RollbackRows ==
  ASSUME TypeOK, RowInv, NEW o \in Order, NEW outcome \in Ended,
         EndReserve(o, outcome), pc[o] \in Active, UNCHANGED reservations
  PROVE  RowInv'
<1>1. OneOutcome' /\ ReleasingInv'
  BY DEF RowInv, OneOutcome, ReleasingInv, EndReserve, compVars, PendingOf, Pending
<1>2. WritesInv'
  BY DEF RowInv, WritesInv, EndReserve, TypeOK, Pending
<1>3. CommittedInv'
  BY DEF RowInv, CommittedInv, EndReserve, TypeOK, Active, Row
<1> QED BY <1>1, <1>2, <1>3 DEF RowInv

LEMMA InsertRows ==
  ASSUME TypeOK, ProgressInv, RowInv, NEW o \in Order, InsertReservation(o)
  PROVE  RowInv'
<1>1. OneOutcome' /\ ReleasingInv'
  BY DEF RowInv, OneOutcome, ReleasingInv, InsertReservation, compVars, PendingOf, Pending
<1>2. NewRow(o).order = o /\ NewRow(o).line = next[o] /\ NewRow(o).createdAt = began[o]
      /\ Pending(NewRow(o)) /\ ~NewRow(o).cancelled
  BY DEF NewRow, Pending
<1>3. WritesInv'
  <2> SUFFICES ASSUME NEW w \in Order, NEW r \in writes'[w]
               PROVE  r.order = w /\ r.line < next'[w] /\ r.createdAt = began'[w]
                      /\ Pending(r) /\ ~r.cancelled
    BY DEF WritesInv, Pending
  <2>1. next[o] \in Nat /\ next'[o] = next[o] + 1 /\ began' = began
        /\ writes' = [writes EXCEPT ![o] = @ \cup {NewRow(o)}]
        /\ (w # o => next'[w] = next[w])
    BY DEF InsertReservation, TypeOK
  <2>2. CASE w = o /\ r = NewRow(o)
    BY <1>2, <2>1, <2>2
  <2>3. CASE r \in writes[w]
    <3>1. r.line \in Nat
      BY <2>3 DEF TypeOK, Row
    <3> QED BY <2>1, <2>3, <3>1 DEF RowInv, WritesInv
  <2> QED BY <2>1, <2>2, <2>3 DEF TypeOK
<1>4. CommittedInv'
  BY DEF RowInv, CommittedInv, InsertReservation, TypeOK, Row
<1> QED BY <1>1, <1>3, <1>4 DEF RowInv

LEMMA CommitRows ==
  ASSUME TypeOK, ProgressInv, RowInv, NEW o \in Order, CommitReserve(o)
  PROVE  RowInv'
<1>1. reservations' = reservations \cup writes[o] /\ EndReserve(o, "reserved") /\ pc[o] = "commit"
  BY DEF CommitReserve
<1>2. OneOutcome'
  <2> SUFFICES ASSUME NEW r \in reservations \cup writes[o]
               PROVE  /\ ~(r.released /\ r.expired)
                      /\ r.confirmedAt # NULL => ~r.released /\ ~r.expired
                      /\ r.cancelled => r.confirmedAt # NULL
    BY <1>1 DEF OneOutcome
  <2> QED BY DEF RowInv, OneOutcome, WritesInv, Pending
<1>3. ReleasingInv'
  BY <1>1 DEF RowInv, ReleasingInv, EndReserve, compVars, PendingOf, Pending
<1>4. WritesInv'
  BY <1>1 DEF RowInv, WritesInv, EndReserve, TypeOK, Pending
<1>5. CommittedInv'
  <2> SUFFICES ASSUME NEW r \in reservations \cup writes[o] PROVE pc'[r.order] = "reserved"
    BY <1>1 DEF CommittedInv
  <2>1. pc' = [pc EXCEPT ![o] = "reserved"]
    BY <1>1 DEF EndReserve
  <2> QED BY <2>1 DEF RowInv, CommittedInv, WritesInv, TypeOK, Row
<1> QED BY <1>2, <1>3, <1>4, <1>5 DEF RowInv

(* A statement that marks rows, given what it does to a row, and that it   *)
(* leaves the rows a compensation still holds alone.                       *)
LEMMA MarkedRows ==
  ASSUME TypeOK, RowInv, NEW f, MarkedBy(f),
         \A r \in reservations : f[r] # r => (Pending(r) \/ (Sold(r) /\ f[r] = [r EXCEPT !.cancelled = TRUE])),
         \A r \in reservations : Pending(r) /\ f[r] # r => f[r] # [r EXCEPT !.cancelled = TRUE],
         \A o \in Order : releasing'[o] \subseteq releasing[o],
         \A o \in Order : \A r \in releasing'[o] : f[r] = r
  PROVE  RowInv'
<1>1. \A r \in reservations : r \in Row /\ f[r] \in Marks(r)
  BY DEF TypeOK, MarkedBy
<1>2. OneOutcome'
  <2> SUFFICES ASSUME NEW r \in reservations
               PROVE  /\ ~(f[r].released /\ f[r].expired)
                      /\ f[r].confirmedAt # NULL => ~f[r].released /\ ~f[r].expired
                      /\ f[r].cancelled => f[r].confirmedAt # NULL
    BY DEF OneOutcome, MarkedBy
  <2>1. CASE f[r] = r
    BY <2>1 DEF RowInv, OneOutcome
  <2>2. CASE Pending(r) /\ f[r] # r
    BY <1>1, <2>2 DEF RowInv, OneOutcome, Pending, Marks, Row
  <2>3. CASE Sold(r) /\ f[r] = [r EXCEPT !.cancelled = TRUE]
    BY <1>1, <2>3 DEF RowInv, OneOutcome, Sold, Row
  <2> QED BY <2>1, <2>2, <2>3
<1>3. ReleasingInv'
  <2> SUFFICES ASSUME NEW o \in Order, NEW r \in releasing'[o]
               PROVE  r \in reservations' /\ r.order = o /\ Pending(r)
    BY DEF ReleasingInv, PendingOf, Pending
  <2>1. r \in reservations /\ r.order = o /\ Pending(r) /\ f[r] = r
    BY DEF RowInv, ReleasingInv, PendingOf
  <2> QED BY <2>1 DEF MarkedBy
<1>4. WritesInv'
  BY DEF RowInv, WritesInv, MarkedBy, reserveVars, Pending
<1>5. CommittedInv'
  <2>1. \A r \in reservations : f[r].order = r.order
    BY <1>1, MarkType
  <2> QED BY <2>1 DEF RowInv, CommittedInv, MarkedBy, reserveVars
<1> QED BY <1>2, <1>3, <1>4, <1>5 DEF RowInv

LEMMA ReleasingRows ==
  ASSUME RowInv, NEW o \in Order, NEW r \in releasing[o]
  PROVE  r \in reservations /\ r.order = o /\ Pending(r) /\ r \in Locked
<1>1. r \in PendingOf(o)
  BY DEF RowInv, ReleasingInv
<1>2. r \in Locked
  BY DEF Locked
<1> QED BY <1>1, <1>2 DEF PendingOf

(* What the commit of a compensation does to a row.                        *)
LEMMA CompensateRow ==
  ASSUME RowInv, NEW o \in Order, NEW r \in reservations
  PROVE  /\ r \in releasing[o] => CompensateOf(o)[r] = [r EXCEPT !.released = TRUE]
         /\ r \notin releasing[o] /\ r.order = o /\ Sold(r)
              => CompensateOf(o)[r] = [r EXCEPT !.cancelled = TRUE]
         /\ r \notin releasing[o] /\ ~(r.order = o /\ Sold(r)) => CompensateOf(o)[r] = r
<1>1. CASE r \in releasing[o]
  BY <1>1, ReleasingRows DEF CompensateOf, Pending, Sold
<1>2. CASE r \notin releasing[o] /\ r.order = o /\ Sold(r)
  BY <1>2 DEF CompensateOf
<1>3. CASE r \notin releasing[o] /\ ~(r.order = o /\ Sold(r))
  BY <1>3 DEF CompensateOf
<1> QED BY <1>1, <1>2, <1>3

LEMMA RowStep == TypeOK /\ ProgressInv /\ RowInv /\ [Next]_vars => RowInv'
<1> SUFFICES ASSUME TypeOK, ProgressInv, RowInv, [Next]_vars PROVE RowInv'
  OBVIOUS
<1>1. CASE Tick \/ \E p \in Product, q \in 1..MaxStock : StockIn(p, q)
  BY <1>1, RowsUnchanged DEF Tick, StockIn, reserveVars, compVars
<1>2. CASE UNCHANGED vars
  BY <1>2, RowsUnchanged DEF vars, reserveVars, compVars
<1>3. ASSUME NEW o \in Order, NEW req \in Request, BeginReserve(o, req) PROVE RowInv'
  <2>1. OneOutcome' /\ ReleasingInv'
    BY <1>3 DEF RowInv, OneOutcome, ReleasingInv, BeginReserve, compVars, PendingOf, Pending
  <2>2. writes[o] = {}
    BY <1>3 DEF BeginReserve, ProgressInv, Active
  <2>3. WritesInv'
    BY <1>3, <2>2 DEF RowInv, WritesInv, BeginReserve, TypeOK, Pending
  <2>4. CommittedInv'
    BY <1>3 DEF RowInv, CommittedInv, BeginReserve, TypeOK, Row
  <2> QED BY <2>1, <2>3, <2>4 DEF RowInv
<1>4. ASSUME NEW o \in Order, LockProduct(o) \/ CheckAvailable(o) PROVE RowInv'
  <2>1. OneOutcome' /\ ReleasingInv' /\ WritesInv'
    BY <1>4 DEF RowInv, OneOutcome, ReleasingInv, WritesInv, LockProduct, CheckAvailable,
                compVars, PendingOf, Pending
  <2>2. CommittedInv'
    BY <1>4 DEF RowInv, CommittedInv, LockProduct, CheckAvailable, TypeOK, Row
  <2> QED BY <2>1, <2>2 DEF RowInv
<1>5. ASSUME NEW o \in Order, InsertReservation(o) PROVE RowInv'
  BY <1>5, InsertRows
<1>6. ASSUME NEW o \in Order, CommitReserve(o) PROVE RowInv'
  BY <1>6, CommitRows
<1>7. ASSUME NEW o \in Order, Refuse(o) \/ BreakDeadlock(o) \/ FailReserve(o) PROVE RowInv'
  <2>1. BreakDeadlock(o) => pc[o] \in Active
    <3> SUFFICES ASSUME BreakDeadlock(o), pc[o] # "lock" PROVE FALSE
      BY DEF Active
    <3>1. PICK S \in SUBSET Order : o \in S /\ {Blocker(w) : w \in S} = S
      BY DEF BreakDeadlock, InDeadlock
    <3>2. Blocker(o) = NULL
      BY DEF Blocker
    <3> QED BY <3>1, <3>2
  <2> QED BY <1>7, <2>1, RollbackRows DEF Refuse, BreakDeadlock, FailReserve, Active, Ended
<1>8. CASE ExpireReservations
  <2>1. MarkedBy(ExpireAll)
    BY <1>8, ExpireStatement
  <2>2. \A r \in reservations : ExpireAll[r] # r =>
          Pending(r) /\ r \notin Locked /\ ExpireAll[r] = [r EXCEPT !.expired = TRUE]
    BY <1>8 DEF ExpireReservations, ExpireAll, LapsedRows, Free
  <2>3. \A r \in reservations : ExpireAll[r] # r => ExpireAll[r] # [r EXCEPT !.cancelled = TRUE]
    BY <2>2 DEF Pending, TypeOK, Row
  <2>4. releasing' = releasing
    BY <1>8 DEF ExpireReservations, compVars
  <2>5. \A w \in Order : \A r \in releasing[w] : ExpireAll[r] = r
    BY <2>2, ReleasingRows
  <2> QED BY <2>1, <2>2, <2>3, <2>4, <2>5, MarkedRows
<1>9. ASSUME NEW o \in Order, ConfirmReservationsByOrder(o) PROVE RowInv'
  <2>1. MarkedBy(ConfirmOf(o))
    BY <1>9, OutcomeStatements
  <2>2. \A r \in reservations : ConfirmOf(o)[r] # r =>
          Pending(r) /\ r \notin Locked /\ ConfirmOf(o)[r] = [r EXCEPT !.confirmedAt = now]
    BY <1>9 DEF ConfirmReservationsByOrder, ConfirmOf, PendingOf, Free
  <2>3. \A r \in reservations : ConfirmOf(o)[r] # r => ConfirmOf(o)[r] # [r EXCEPT !.cancelled = TRUE]
    BY <2>2 DEF Pending, TypeOK, Row
  <2>4. releasing' = releasing
    BY <1>9 DEF ConfirmReservationsByOrder, compVars
  <2>5. \A w \in Order : \A r \in releasing[w] : ConfirmOf(o)[r] = r
    BY <2>2, ReleasingRows
  <2> QED BY <2>1, <2>2, <2>3, <2>4, <2>5, MarkedRows
<1>10. ASSUME NEW o \in Order, ReleaseReservationsByOrder(o) PROVE RowInv'
  <2>1. MarkedBy(ReleaseOf(o))
    BY <1>10, OutcomeStatements
  <2>2. \A r \in reservations : ReleaseOf(o)[r] # r =>
          Pending(r) /\ r \notin Locked /\ ReleaseOf(o)[r] = [r EXCEPT !.released = TRUE]
    BY <1>10 DEF ReleaseReservationsByOrder, ReleaseOf, PendingOf, Free
  <2>3. \A r \in reservations : ReleaseOf(o)[r] # r => ReleaseOf(o)[r] # [r EXCEPT !.cancelled = TRUE]
    BY <2>2 DEF Pending, TypeOK, Row
  <2>4. releasing' = releasing
    BY <1>10 DEF ReleaseReservationsByOrder, compVars
  <2>5. \A w \in Order : \A r \in releasing[w] : ReleaseOf(o)[r] = r
    BY <2>2, ReleasingRows
  <2> QED BY <2>1, <2>2, <2>3, <2>4, <2>5, MarkedRows
<1>11. ASSUME NEW o \in Order, CompensateCancel(o) PROVE RowInv'
  <2>1. MarkedBy(CompensateOf(o))
    BY <1>11, OutcomeStatements
  <2>3. \A r \in releasing[o] : r \in reservations /\ Pending(r) /\ r.order = o
    BY ReleasingRows
  <2>4. \A r \in reservations : CompensateOf(o)[r] # r =>
          Pending(r) \/ (Sold(r) /\ CompensateOf(o)[r] = [r EXCEPT !.cancelled = TRUE])
    BY <2>3, CompensateRow
  <2>5. \A r \in reservations : Pending(r) /\ CompensateOf(o)[r] # r
          => CompensateOf(o)[r] # [r EXCEPT !.cancelled = TRUE]
    <3> SUFFICES ASSUME NEW r \in reservations, Pending(r), CompensateOf(o)[r] # r
                 PROVE  CompensateOf(o)[r] # [r EXCEPT !.cancelled = TRUE]
      OBVIOUS
    <3>1. ~Sold(r)
      BY DEF Pending, Sold
    <3>2. CompensateOf(o)[r] = [r EXCEPT !.released = TRUE]
      BY <3>1, CompensateRow
    <3> QED BY <3>2 DEF Pending, TypeOK, Row
  <2>6. releasing' = [releasing EXCEPT ![o] = {}]
    BY <1>11 DEF CompensateCancel
  <2>7. \A w \in Order : releasing'[w] \subseteq releasing[w]
    BY <2>6 DEF TypeOK
  <2>8. \A w \in Order : \A r \in releasing'[w] : CompensateOf(o)[r] = r
    <3> SUFFICES ASSUME NEW w \in Order, NEW r \in releasing'[w] PROVE CompensateOf(o)[r] = r
      OBVIOUS
    <3>1. w # o /\ r \in releasing[w]
      BY <2>6 DEF TypeOK
    <3>2. r \in reservations /\ r.order = w
      BY <3>1, ReleasingRows
    <3> QED BY <2>3, <3>1, <3>2, CompensateRow
  <2> QED BY <2>1, <2>4, <2>5, <2>7, <2>8, MarkedRows
<1>12. ASSUME NEW o \in Order, CompensateRelease(o) \/ CompensateFail(o) PROVE RowInv'
  <2>1. OneOutcome' /\ WritesInv' /\ CommittedInv'
    BY <1>12 DEF RowInv, OneOutcome, WritesInv, CommittedInv, CompensateRelease, CompensateFail,
                 reserveVars, Pending
  <2>2. ReleasingInv'
    <3> SUFFICES ASSUME NEW w \in Order PROVE releasing'[w] \subseteq PendingOf(w)'
      BY DEF ReleasingInv
    <3>1. PendingOf(w)' = PendingOf(w)
      BY <1>12 DEF CompensateRelease, CompensateFail, PendingOf, Pending
    <3>2. releasing'[w] \in {releasing[w], PendingOf(w), {}}
      BY <1>12 DEF CompensateRelease, CompensateFail, TypeOK
    <3> QED BY <3>1, <3>2 DEF RowInv, ReleasingInv
  <2> QED BY <2>1, <2>2 DEF RowInv
<1> QED
  BY <1>1, <1>2, <1>3, <1>4, <1>5, <1>6, <1>7, <1>8, <1>9, <1>10, <1>11, <1>12 DEF Next, Reserve

(* However the API, the consumers and the reaper interleave, each row gets *)
(* one outcome, and rows held by a compensation stay pending until it ends.*)
THEOREM RowsCorrect == Spec => []RowInv
<1>1. Init => RowInv
  BY DEF Init, RowInv, OneOutcome, ReleasingInv, WritesInv, CommittedInv
<1> QED
  BY <1>1, RowStep, TypeCorrect, PTL DEF Spec

(* The CHECK constraints on the outcome columns never fail.                *)
THEOREM OneOutcomeHolds == Spec => []OneOutcome
BY RowsCorrect, PTL DEF RowInv

(* A Reserve call that was refused or failed leaves no row behind.         *)
THEOREM RefusedLeavesNothing == Spec => []OnlyReservedHasRows
<1>1. RowInv => OnlyReservedHasRows
  BY DEF RowInv, CommittedInv, OnlyReservedHasRows, OfOrder
<1> QED
  BY <1>1, RowsCorrect, PTL

(* When a cancellation is acked, no row of its order is sold.              *)
THEOREM CompensationComplete == Spec => NothingSoldAtAck
<1>1. TypeOK /\ RowInv /\ [Next]_vars
        => [\A o \in acked' \ acked : \A r \in OfOrder(o, reservations') : ~Sold(r)]_vars
  <2> SUFFICES ASSUME TypeOK, RowInv, Next, NEW o \in acked' \ acked,
                      NEW s \in reservations', s.order = o
               PROVE  ~Sold(s)
    BY DEF OfOrder
  <2>1. o \in Order /\ CompensateCancel(o)
    <3>1. acked' = acked \/ \E w \in Order : CompensateCancel(w)
      BY DEF Next, Tick, ExpireReservations, StockIn, BeginReserve, Reserve, LockProduct,
             CheckAvailable, Refuse, InsertReservation, CommitReserve, BreakDeadlock, FailReserve,
             EndReserve, ConfirmReservationsByOrder, ReleaseReservationsByOrder,
             CompensateRelease, CompensateFail, compVars
    <3> QED BY <3>1 DEF CompensateCancel
  <2>2. PICK r \in reservations : s = CompensateOf(o)[r]
    BY <2>1, OutcomeStatements DEF MarkedBy
  <2>3. r \in Row /\ r.order = o
    BY <2>1, <2>2, OutcomeStatements, MarkType DEF MarkedBy, TypeOK
  <2>4. CASE r \in releasing[o]
    <3>1. Pending(r) /\ s = [r EXCEPT !.released = TRUE]
      BY <2>1, <2>2, <2>4, ReleasingRows, CompensateRow
    <3> QED BY <2>3, <3>1 DEF Pending, Sold, Row
  <2>5. CASE r \notin releasing[o] /\ Sold(r)
    <3>1. s = [r EXCEPT !.cancelled = TRUE]
      BY <2>1, <2>2, <2>3, <2>5, CompensateRow
    <3> QED BY <2>3, <3>1 DEF Sold, Row
  <2>6. CASE r \notin releasing[o] /\ ~Sold(r)
    <3>1. s = r
      BY <2>1, <2>2, <2>3, <2>6, CompensateRow
    <3> QED BY <2>6, <3>1
  <2> QED BY <2>4, <2>5, <2>6
<1> QED
  BY <1>1, TypeCorrect, RowsCorrect, PTL DEF Spec, NothingSoldAtAck
-----------------------------------------------------------------------------
(* Capacity: the theorem the advisory locks and the availability sum are   *)
(* there for: no interleaving oversells a product, late confirmations      *)
(* apart.                                                                  *)


(* Rows committed or still to be committed, and those that have a claim on *)
(* the stock which was granted within its time to live.                    *)
AllRows == reservations \cup UNION {writes[o] : o \in Order}

Held(r) ==
  \/ Pending(r) /\ ~Lapsed(r, now)
  \/ Sold(r) /\ ~Lapsed(r, r.confirmedAt)

HeldUnits(p) == Units({r \in OfProduct(p, AllRows) : Held(r)})

(* The locks: the transaction that has read the availability of a product  *)
(* holds its lock, and so does one that has inserted rows of it.           *)
LockInv ==
  \A o \in Order :
    /\ pc[o] \in {"check", "insert"} => holder[Current(o).product] = o
    /\ \A r \in writes[o] : holder[r.product] = o
    /\ began[o] <= now

(* The claims on a product fit its stock, and between the check and the    *)
(* insert of a line there is still room for it.                            *)
CapacityInv ==
  /\ IsFiniteSet(Units(AllRows))
  /\ \A p \in Product : Cardinality(HeldUnits(p)) <= stock[p]
  /\ \A o \in Order : pc[o] = "insert" =>
       Cardinality(HeldUnits(Current(o).product)) + Current(o).quantity <= stock[Current(o).product]

-----------------------------------------------------------------------------
LEMMA LockEnd ==
  ASSUME TypeOK, ProgressInv, LockInv, NEW o \in Order, NEW outcome \in Ended, EndReserve(o, outcome)
  PROVE  LockInv'
<1> SUFFICES ASSUME NEW w \in Order
             PROVE  /\ pc'[w] \in {"check", "insert"} => holder'[Current(w)'.product] = w
                    /\ \A r \in writes'[w] : holder'[r.product] = w
                    /\ began'[w] <= now'
  BY DEF LockInv
<1>1. CASE w = o
  BY <1>1 DEF EndReserve, TypeOK, Ended
<1>2. CASE w # o
  <2>1. /\ pc'[w] = pc[w] /\ writes'[w] = writes[w] /\ began'[w] = began[w] /\ now' = now
        /\ Current(w)' = Current(w)
    BY <1>2 DEF EndReserve, TypeOK, Current
  <2>2. \A p \in Product : holder[p] = w => holder'[p] = w
    BY <1>2 DEF EndReserve, TypeOK
  <2>4. \A r \in writes[w] : r.product \in Product
    BY DEF TypeOK, Row
  <2>5. pc[w] \in {"check", "insert"} => Current(w).product \in Product
    BY CurrentType DEF ProgressInv, Line
  <2> QED BY <2>1, <2>2, <2>4, <2>5 DEF LockInv
<1> QED BY <1>1, <1>2

LEMMA LockStep == TypeOK /\ ProgressInv /\ LockInv /\ [Next]_vars => LockInv'
<1> SUFFICES ASSUME TypeOK, ProgressInv, LockInv, [Next]_vars PROVE LockInv'
  OBVIOUS
<1>1. CASE UNCHANGED <<pc, lines, next, began, writes, holder, now>>
  BY <1>1 DEF LockInv, Current
<1>2. CASE Tick
  <2>1. now <= now' /\ now \in Nat
    BY <1>2 DEF Tick, TypeOK
  <2> QED BY <1>2, <2>1 DEF Tick, reserveVars, LockInv, Current, TypeOK
<1>3. ASSUME NEW o \in Order, NEW req \in Request, BeginReserve(o, req) PROVE LockInv'
  <2>1. writes[o] = {}
    BY <1>3 DEF BeginReserve, ProgressInv, Active
  <2> QED BY <1>3, <2>1 DEF BeginReserve, LockInv, Current, TypeOK
<1>4. ASSUME NEW o \in Order, LockProduct(o) PROVE LockInv'
  <2> DEFINE q == Current(o).product
  <2>1. /\ holder' = [holder EXCEPT ![q] = o] /\ holder[q] \in {NULL, o} /\ q \in Product
    BY <1>4, CurrentType DEF LockProduct, ProgressInv, Line
  <2>2. \A w \in Order, p \in Product : holder[p] = w => holder'[p] = w
    BY <2>1 DEF TypeOK
  <2>3. Current(o)' = Current(o) /\ \A w \in Order : Current(w)' = Current(w)
    BY <1>4 DEF LockProduct, Current
  <2>4. holder'[q] = o
    BY <2>1 DEF TypeOK
  <2> SUFFICES ASSUME NEW w \in Order
               PROVE  /\ pc'[w] \in {"check", "insert"} => holder'[Current(w)'.product] = w
                      /\ \A r \in writes'[w] : holder'[r.product] = w
                      /\ began'[w] <= now'
    BY DEF LockInv
  <2>5. writes' = writes /\ began' = began /\ now' = now /\ pc' = [pc EXCEPT ![o] = "check"]
    BY <1>4 DEF LockProduct
  <2>6. \A r \in writes[w] : r.product \in Product
    BY DEF TypeOK, Row
  <2>7. pc[w] \in {"check", "insert"} => Current(w).product \in Product
    BY CurrentType DEF ProgressInv, Line
  <2>8. w # o => pc'[w] = pc[w]
    BY <2>5 DEF TypeOK
  <2> QED BY <2>2, <2>3, <2>4, <2>5, <2>6, <2>7, <2>8 DEF LockInv
<1>5. ASSUME NEW o \in Order, CheckAvailable(o) PROVE LockInv'
  BY <1>5 DEF CheckAvailable, LockInv, Current, TypeOK
<1>6. ASSUME NEW o \in Order, InsertReservation(o) PROVE LockInv'
  <2> SUFFICES ASSUME NEW w \in Order
               PROVE  /\ pc'[w] \in {"check", "insert"} => holder'[Current(w)'.product] = w
                      /\ \A r \in writes'[w] : holder'[r.product] = w
                      /\ began'[w] <= now'
    BY DEF LockInv
  <2>1. CASE w = o
    <3>1. holder[NewRow(o).product] = o
      BY <1>6 DEF InsertReservation, NewRow, LockInv
    <3> QED BY <1>6, <2>1, <3>1 DEF InsertReservation, LockInv, TypeOK
  <2>2. CASE w # o
    BY <1>6, <2>2 DEF InsertReservation, LockInv, Current, TypeOK
  <2> QED BY <2>1, <2>2
<1>7. ASSUME NEW o \in Order, Refuse(o) \/ CommitReserve(o) \/ BreakDeadlock(o) \/ FailReserve(o)
      PROVE LockInv'
  BY <1>7, LockEnd DEF Refuse, CommitReserve, BreakDeadlock, FailReserve, Ended
<1>8. ASSUME \/ ExpireReservations
             \/ \E p \in Product, q \in 1..MaxStock : StockIn(p, q)
             \/ \E o \in Order :
                  \/ ConfirmReservationsByOrder(o) \/ ReleaseReservationsByOrder(o)
                  \/ CompensateRelease(o) \/ CompensateCancel(o) \/ CompensateFail(o)
      PROVE LockInv'
  <2>1. UNCHANGED <<now, reserveVars>>
    BY <1>8 DEF ExpireReservations, StockIn, ConfirmReservationsByOrder, ReleaseReservationsByOrder,
                CompensateRelease, CompensateCancel, CompensateFail
  <2> QED BY <1>1, <2>1 DEF reserveVars
<1>9. CASE UNCHANGED vars
  BY <1>1, <1>9 DEF vars, reserveVars
<1> QED
  BY <1>2, <1>3, <1>4, <1>5, <1>6, <1>7, <1>8, <1>9 DEF Next, Reserve

-----------------------------------------------------------------------------
(* Facts about Units.                                                      *)

(* Rows with the same keys and quantities take the same units.             *)
LEMMA UnitsCovered ==
  ASSUME NEW S, NEW T,
         \A s \in S : \E t \in T : s.order = t.order /\ s.line = t.line /\ s.quantity = t.quantity
  PROVE  Units(S) \subseteq Units(T)
<1> SUFFICES ASSUME NEW u \in Units(S) PROVE u \in Units(T)
  OBVIOUS
<1>1. PICK s \in S : u \in {<<s.order, s.line, k>> : k \in 1..s.quantity}
  BY DEF Units
<1>2. PICK t \in T : s.order = t.order /\ s.line = t.line /\ s.quantity = t.quantity
  OBVIOUS
<1>3. u \in {<<t.order, t.line, k>> : k \in 1..t.quantity}
  BY <1>1, <1>2
<1> QED BY <1>3 DEF Units

LEMMA UnitsOfRow ==
  ASSUME NEW r \in Row
  PROVE  IsFiniteSet(Units({r})) /\ Cardinality(Units({r})) <= r.quantity
<1> DEFINE f == [k \in 1..r.quantity |-> <<r.order, r.line, k>>]
<1>1. r.quantity \in Int /\ 1 <= r.quantity /\ 1 \in Int
  BY DEF Row
<1>2. IsFiniteSet(1..r.quantity)
      /\ Cardinality(1..r.quantity) = IF 1 > r.quantity THEN 0 ELSE r.quantity - 1 + 1
  BY <1>1, FS_Interval, Zenon
<1>3. Units({r}) = {<<r.order, r.line, k>> : k \in 1..r.quantity}
  BY DEF Units
<1>4. f \in Surjection(1..r.quantity, Units({r}))
  BY <1>3 DEF Surjection
<1>5. IsFiniteSet(Units({r})) /\ Cardinality(Units({r})) <= Cardinality(1..r.quantity)
  BY <1>2, <1>4, FS_Surjection
<1> QED BY <1>1, <1>2, <1>5

LEMMA HeldFinite ==
  ASSUME IsFiniteSet(Units(AllRows)), NEW p
  PROVE  IsFiniteSet(HeldUnits(p)) /\ Cardinality(HeldUnits(p)) \in Nat
<1>1. HeldUnits(p) \subseteq Units(AllRows)
  BY UnitsCovered DEF HeldUnits, OfProduct
<1> QED BY <1>1, FS_Subset, FS_CardinalityType

-----------------------------------------------------------------------------
(* Every step but an insert leaves each product's claims as they are, or   *)
(* fewer.                                                                  *)
Shrinks ==
  \A s \in AllRows' : \E t \in AllRows :
    /\ s.order = t.order /\ s.line = t.line /\ s.product = t.product /\ s.quantity = t.quantity
    /\ Held(s)' => Held(t)

LEMMA ShrinkUnits ==
  ASSUME Shrinks
  PROVE  Units(AllRows)' \subseteq Units(AllRows) /\ \A p : HeldUnits(p)' \subseteq HeldUnits(p)
<1>1. Units(AllRows') \subseteq Units(AllRows)
  BY UnitsCovered DEF Shrinks
<1>2. ASSUME NEW p PROVE HeldUnits(p)' \subseteq HeldUnits(p)
  <2> DEFINE S == {r \in OfProduct(p, AllRows') : Held(r)'}
             T == {r \in OfProduct(p, AllRows) : Held(r)}
  <2>1. \A s \in S : \E t \in T : s.order = t.order /\ s.line = t.line /\ s.quantity = t.quantity
    BY DEF Shrinks, OfProduct
  <2>2. Units(S) \subseteq Units(T)
    BY <2>1, UnitsCovered
  <2>3. HeldUnits(p)' = Units(S)
    BY DEF HeldUnits, OfProduct, Units
  <2> QED BY <2>2, <2>3 DEF HeldUnits
<1>3. Units(AllRows)' = Units(AllRows')
  BY DEF Units
<1> QED BY <1>1, <1>2, <1>3

LEMMA ShrinkCapacity ==
  ASSUME TypeOK, TypeOK', ProgressInv, CapacityInv, Shrinks,
         \A p \in Product : stock[p] <= stock'[p],
         \A o \in Order : pc'[o] = "insert" => pc[o] = "insert" /\ Current(o)' = Current(o)
  PROVE  CapacityInv'
<1>1. IsFiniteSet(Units(AllRows))'
  <2>1. IsFiniteSet(Units(AllRows)')
    BY ShrinkUnits, FS_Subset DEF CapacityInv
  <2> QED BY <2>1
<1>2. \A p : Cardinality(HeldUnits(p)') <= Cardinality(HeldUnits(p))
  BY ShrinkUnits, HeldFinite, FS_Subset DEF CapacityInv
<1>3. \A p : Cardinality(HeldUnits(p)') \in Nat /\ Cardinality(HeldUnits(p)) \in Nat
  BY ShrinkUnits, HeldFinite, FS_Subset, FS_CardinalityType DEF CapacityInv
<1>4. \A p \in Product : stock[p] \in Nat /\ stock'[p] \in Nat
  BY DEF TypeOK
<1>5. ASSUME NEW p \in Product PROVE Cardinality(HeldUnits(p)') <= stock'[p]
  BY <1>2, <1>3, <1>4 DEF CapacityInv
<1>6. ASSUME NEW o \in Order, pc'[o] = "insert"
      PROVE  (Cardinality(HeldUnits(Current(o).product)) + Current(o).quantity
                <= stock[Current(o).product])'
  <2>1. /\ pc[o] = "insert" /\ Current(o)' = Current(o)
        /\ Current(o).product \in Product /\ Current(o).quantity \in Nat
    BY <1>6, CurrentType DEF ProgressInv, Line
  <2> DEFINE p == Current(o).product
  <2>2. HeldUnits(Current(o).product)' = HeldUnits(p)'
    BY <2>1 DEF HeldUnits, OfProduct
  <2>3. Cardinality(HeldUnits(p)') + Current(o).quantity <= stock'[p]
    BY <1>2, <1>3, <1>4, <2>1 DEF CapacityInv
  <2> QED BY <2>1, <2>2, <2>3
<1> QED BY <1>1, <1>5, <1>6 DEF CapacityInv

-----------------------------------------------------------------------------
(* A row left alone holds no more than it did when the clock goes on.      *)
LEMMA SubsetShrinks ==
  ASSUME TypeOK, AllRows' \subseteq AllRows, now' \in Nat, now <= now'
  PROVE  Shrinks
<1> SUFFICES ASSUME NEW s \in AllRows', Held(s)' PROVE Held(s)
  BY DEF Shrinks
<1>1. s.createdAt \in Nat
  BY DEF AllRows, TypeOK, Row
<1>2. Lapsed(s, now) => Lapsed(s, now')
  BY <1>1 DEF Lapsed, TypeOK
<1> QED BY <1>2 DEF Held, Pending, Sold, Lapsed

(* Setting an outcome gives up a claim or, when it confirms, keeps it.     *)
LEMMA MarkHeld ==
  ASSUME TypeOK, NEW r \in Row, NEW s \in Marks(r),
         s = r \/ Pending(r) \/ s = [r EXCEPT !.cancelled = TRUE], Held(s)
  PROVE  Held(r)
<1>1. CASE s = r
  BY <1>1
<1>2. CASE Pending(r) /\ s = [r EXCEPT !.confirmedAt = now]
  BY <1>2 DEF Held, Pending, Sold, Lapsed, Row, TypeOK
<1>3. CASE Pending(r) /\ s \in {[r EXCEPT !.released = TRUE], [r EXCEPT !.expired = TRUE]}
  BY <1>3 DEF Held, Pending, Sold, Lapsed, Row
<1>4. CASE s = [r EXCEPT !.cancelled = TRUE]
  BY <1>4 DEF Held, Pending, Sold, Lapsed, Row
<1> QED BY <1>1, <1>2, <1>3, <1>4 DEF Marks

LEMMA MarkedShrinks ==
  ASSUME TypeOK, NEW f, MarkedBy(f),
         \A r \in reservations :
           f[r] = r \/ Pending(r) \/ f[r] = [r EXCEPT !.cancelled = TRUE]
  PROVE  Shrinks
<1> SUFFICES ASSUME NEW s \in AllRows'
             PROVE  \E t \in AllRows :
                      /\ s.order = t.order /\ s.line = t.line
                      /\ s.product = t.product /\ s.quantity = t.quantity
                      /\ Held(s)' => Held(t)
  BY DEF Shrinks
<1>1. Held(s)' <=> Held(s)
  BY DEF MarkedBy, Held, Pending, Sold, Lapsed
<1>2. CASE s \in reservations'
  <2>1. PICK r \in reservations : s = f[r]
    BY <1>2 DEF MarkedBy
  <2>2. r \in Row /\ s \in Marks(r) /\ r \in AllRows
    BY <2>1 DEF TypeOK, MarkedBy, AllRows
  <2>3. Held(s) => Held(r)
    BY <2>1, <2>2, MarkHeld
  <2> QED BY <1>1, <2>2, <2>3, MarkType
<1>3. CASE s \in UNION {writes'[o] : o \in Order}
  <2>1. s \in AllRows
    BY <1>3 DEF MarkedBy, reserveVars, AllRows
  <2> QED BY <1>1, <2>1
<1> QED BY <1>2, <1>3 DEF AllRows

LEMMA EndCapacity ==
  ASSUME TypeOK, TypeOK', ProgressInv, CapacityInv, NEW o \in Order, NEW outcome \in Ended,
         EndReserve(o, outcome),
         reservations' = reservations \/ reservations' = reservations \cup writes[o]
  PROVE  CapacityInv'
<1>1. AllRows' \subseteq AllRows
  BY DEF AllRows, EndReserve, TypeOK
<1>2. \A w \in Order : pc'[w] = "insert" => pc[w] = "insert" /\ Current(w)' = Current(w)
  BY DEF EndReserve, TypeOK, Ended, Current
<1>3. stock' = stock /\ now' = now /\ now \in Nat /\ \A p \in Product : stock[p] \in Nat
  BY DEF EndReserve, TypeOK
<1>4. Shrinks
  BY <1>1, <1>3, SubsetShrinks
<1> QED BY <1>2, <1>3, <1>4, ShrinkCapacity

(* The check of a line: what the transaction sees at its own time covers   *)
(* every claim on the product, because it holds the lock.                  *)
LEMMA CheckCovers ==
  ASSUME TypeOK, ProgressInv, RowInv, LockInv, CapacityInv, NEW o \in Order, CheckAvailable(o)
  PROVE  Cardinality(HeldUnits(Current(o).product)) + Current(o).quantity
           <= stock[Current(o).product]
<1> DEFINE p == Current(o).product
           seen == {r \in OfProduct(p, reservations \cup writes[o]) : Counts(r, began[o])}
<1>1. p \in Product /\ Current(o).quantity \in Nat /\ holder[p] = o
  BY CurrentType DEF CheckAvailable, ProgressInv, LockInv, Line
<1>2. \A r \in OfProduct(p, AllRows) : Held(r) => r \in seen
  <2> SUFFICES ASSUME NEW r \in AllRows, r.product = p, Held(r)
               PROVE  r \in reservations \cup writes[o] /\ Counts(r, began[o])
    BY DEF OfProduct
  <2>1. r \in reservations \cup writes[o]
    <3> SUFFICES ASSUME NEW w \in Order, r \in writes[w] PROVE w = o
      BY DEF AllRows
    <3> QED BY <1>1 DEF LockInv
  <2>2. r \in Row
    BY <2>1 DEF TypeOK
  <2>3. r.createdAt \in Nat /\ began[o] \in Nat /\ now \in Nat /\ began[o] <= now
    BY <2>2 DEF TypeOK, Row, LockInv
  <2>4. CASE Sold(r)
    BY <2>1, <2>4 DEF Counts
  <2>5. CASE Pending(r) /\ ~Lapsed(r, now)
    BY <2>1, <2>3, <2>5 DEF Counts, Lapsed
  <2> QED BY <2>1, <2>4, <2>5 DEF Held
<1>3. HeldUnits(p) \subseteq Units(seen)
  BY <1>2, UnitsCovered DEF HeldUnits
<1>4. Units(seen) \subseteq Units(AllRows)
  <2>1. seen \subseteq AllRows
    BY DEF AllRows, OfProduct
  <2> QED BY <2>1, UnitsCovered
<1>5. IsFiniteSet(Units(seen)) /\ Cardinality(Units(seen)) \in Nat
  BY <1>4, FS_Subset, FS_CardinalityType DEF CapacityInv
<1>6. Cardinality(HeldUnits(p)) <= Cardinality(Units(seen)) /\ Cardinality(HeldUnits(p)) \in Nat
  BY <1>3, <1>5, FS_Subset, FS_CardinalityType
<1>7. stock[p] - Cardinality(Units(seen)) >= Current(o).quantity
  BY DEF CheckAvailable, Enough, AvailableQty
<1>8. stock[p] \in Nat
  BY <1>1 DEF TypeOK
<1> HIDE DEF seen
<1> QED BY <1>1, <1>5, <1>6, <1>7, <1>8

(* The insert of a line takes the room the check found, and no other       *)
(* transaction is between check and insert for the same product.           *)
LEMMA InsertCapacity ==
  ASSUME TypeOK, TypeOK', ProgressInv, RowInv, LockInv, CapacityInv,
         NEW o \in Order, InsertReservation(o)
  PROVE  CapacityInv'
<1> PICK n, q : n = NewRow(o) /\ q = n.product
  OBVIOUS
<1>1. /\ Current(o) \in Line /\ n \in Row /\ q \in Product
      /\ q = Current(o).product /\ n.quantity = Current(o).quantity
  BY CurrentType DEF InsertReservation, ProgressInv, NewRow, Row, Line, TypeOK
<1>2. AllRows' = AllRows \cup {n}
  BY DEF InsertReservation, AllRows, TypeOK
<1>3. /\ \A r : Held(r)' = Held(r)
      /\ stock' = stock /\ \A p \in Product : stock[p] \in Nat
  BY DEF InsertReservation, Held, Pending, Sold, Lapsed, TypeOK
<1>4. Units(AllRows') \subseteq Units(AllRows) \cup Units({n})
  BY <1>2 DEF Units
<1>5. IsFiniteSet(Units({n})) /\ Cardinality(Units({n})) <= n.quantity
      /\ Cardinality(Units({n})) \in Nat /\ n.quantity \in Nat
  BY <1>1, UnitsOfRow, FS_CardinalityType DEF Row
<1>6. IsFiniteSet(Units(AllRows))'
  <2>1. IsFiniteSet(Units(AllRows'))
    BY <1>4, <1>5, FS_Union, FS_Subset DEF CapacityInv
  <2> QED BY <2>1 DEF Units
<1>7. \A p : /\ HeldUnits(p)' \subseteq HeldUnits(p) \cup Units({n})
             /\ p # q => HeldUnits(p)' \subseteq HeldUnits(p)
  <2> SUFFICES ASSUME NEW p
               PROVE  /\ HeldUnits(p)' \subseteq HeldUnits(p) \cup Units({n})
                      /\ p # q => HeldUnits(p)' \subseteq HeldUnits(p)
    OBVIOUS
  <2> DEFINE S == {r \in OfProduct(p, AllRows) : Held(r)}
             T == {r \in OfProduct(p, AllRows') : Held(r)}
  <2>1. T \subseteq S \cup {n} /\ (p # q => T \subseteq S)
    BY <1>2 DEF OfProduct
  <2>2. HeldUnits(p)' = Units(T)
    BY <1>3 DEF HeldUnits, OfProduct, Units
  <2>3. HeldUnits(p) = Units(S)
    BY DEF HeldUnits
  <2> HIDE DEF S, T
  <2> QED BY <2>1, <2>2, <2>3 DEF Units
<1>8. \A p : Cardinality(HeldUnits(p)) \in Nat /\ IsFiniteSet(HeldUnits(p))
  BY HeldFinite DEF CapacityInv
<1>9. \A p : p # q => Cardinality(HeldUnits(p)') <= Cardinality(HeldUnits(p))
  BY <1>7, <1>8, FS_Subset
<1>10. Cardinality(HeldUnits(q)') <= Cardinality(HeldUnits(q)) + n.quantity
  <2>1. IsFiniteSet(HeldUnits(q) \cup Units({n}))
        /\ Cardinality(HeldUnits(q) \cup Units({n}))
             = Cardinality(HeldUnits(q)) + Cardinality(Units({n}))
               - Cardinality(HeldUnits(q) \cap Units({n}))
    BY <1>5, <1>8, FS_Union
  <2>2. Cardinality(HeldUnits(q) \cap Units({n})) \in Nat
    BY <1>5, FS_Intersection, FS_Subset, FS_CardinalityType
  <2>3. HeldUnits(q)' \subseteq HeldUnits(q) \cup Units({n})
    BY <1>7
  <2>4. Cardinality(HeldUnits(q)') <= Cardinality(HeldUnits(q) \cup Units({n}))
        /\ Cardinality(HeldUnits(q)') \in Nat
    BY <2>1, <2>3, FS_Subset, FS_CardinalityType
  <2> QED BY <1>5, <1>8, <2>1, <2>2, <2>4
<1>11. \A p : Cardinality(HeldUnits(p)') \in Nat
  <2>1. IsFiniteSet(Units(AllRows)')
    BY <1>6
  <2> SUFFICES ASSUME NEW p PROVE HeldUnits(p)' \subseteq Units(AllRows)'
    BY <2>1, FS_Subset, FS_CardinalityType
  <2> QED BY DEF HeldUnits, Units, OfProduct
<1>12. Cardinality(HeldUnits(q)) + n.quantity <= stock[q]
  BY <1>1 DEF CapacityInv, InsertReservation
<1>13. ASSUME NEW p \in Product PROVE Cardinality(HeldUnits(p)') <= stock'[p]
  BY <1>1, <1>3, <1>5, <1>8, <1>9, <1>10, <1>11, <1>12 DEF CapacityInv
<1>14. ASSUME NEW w \in Order, pc'[w] = "insert"
       PROVE  (Cardinality(HeldUnits(Current(w).product)) + Current(w).quantity
                 <= stock[Current(w).product])'
  <2>1. w # o /\ pc[w] = "insert" /\ Current(w)' = Current(w)
    BY <1>14 DEF InsertReservation, TypeOK, Current
  <2> PICK p : p = Current(w).product
    OBVIOUS
  <2>2. p \in Product /\ Current(w).quantity \in Nat /\ holder[p] = w
    BY <2>1, CurrentType DEF ProgressInv, LockInv, Line
  <2>3. holder[q] = o
    BY <1>1 DEF InsertReservation, LockInv
  <2>4. Cardinality(HeldUnits(p)') <= Cardinality(HeldUnits(p))
    BY <1>9, <2>1, <2>2, <2>3
  <2>5. HeldUnits(Current(w).product)' = HeldUnits(p)'
    BY <2>1 DEF HeldUnits, OfProduct
  <2>6. Cardinality(HeldUnits(p)') + Current(w).quantity <= stock'[p]
    BY <1>3, <1>8, <1>11, <2>1, <2>2, <2>4 DEF CapacityInv
  <2> QED BY <2>1, <2>5, <2>6
<1> QED BY <1>6, <1>13, <1>14 DEF CapacityInv

LEMMA CapacityStep ==
  TypeOK /\ TypeOK' /\ ProgressInv /\ RowInv /\ LockInv /\ CapacityInv /\ [Next]_vars
    => CapacityInv'
<1> SUFFICES ASSUME TypeOK, TypeOK', ProgressInv, RowInv, LockInv, CapacityInv, [Next]_vars
             PROVE  CapacityInv'
  OBVIOUS
<1>0. now \in Nat /\ \A p \in Product : stock[p] \in Nat
  BY DEF TypeOK
<1>1. ASSUME UNCHANGED <<reservations, writes>>, now <= now', now' \in Nat,
             \A p \in Product : stock[p] <= stock'[p],
             \A o \in Order : pc'[o] = "insert" => pc[o] = "insert" /\ Current(o)' = Current(o)
      PROVE  CapacityInv'
  <2>1. AllRows' = AllRows
    BY <1>1 DEF AllRows
  <2>2. Shrinks
    BY <1>1, <2>1, SubsetShrinks
  <2> QED BY <1>1, <2>2, ShrinkCapacity
<1>2. CASE Tick
  BY <1>0, <1>1, <1>2 DEF Tick, reserveVars, Current
<1>3. ASSUME NEW p \in Product, NEW q \in 1..MaxStock, StockIn(p, q) PROVE CapacityInv'
  <2>1. stock' = [stock EXCEPT ![p] = @ + q] /\ q \in Int /\ 0 <= q /\ UNCHANGED <<now, reservations, reserveVars>>
    BY <1>3 DEF StockIn
  <2>2. \A s \in Product : stock[s] <= stock'[s]
    BY <1>0, <2>1 DEF TypeOK
  <2> QED BY <1>0, <1>1, <2>1, <2>2 DEF reserveVars, Current
<1>4. ASSUME NEW o \in Order, NEW req \in Request, BeginReserve(o, req) PROVE CapacityInv'
  <2>1. \A w \in Order : pc'[w] = "insert" => pc[w] = "insert" /\ Current(w)' = Current(w)
    BY <1>4 DEF BeginReserve, TypeOK, Current
  <2> QED BY <1>0, <1>1, <1>4, <2>1 DEF BeginReserve
<1>5. ASSUME NEW o \in Order, LockProduct(o) PROVE CapacityInv'
  <2>1. \A w \in Order : pc'[w] = "insert" => pc[w] = "insert" /\ Current(w)' = Current(w)
    BY <1>5 DEF LockProduct, TypeOK, Current
  <2> QED BY <1>0, <1>1, <1>5, <2>1 DEF LockProduct
<1>6. ASSUME NEW o \in Order, CheckAvailable(o) PROVE CapacityInv'
  <2>1. /\ UNCHANGED <<now, stock, reservations, writes>> /\ pc' = [pc EXCEPT ![o] = "insert"]
        /\ \A w \in Order : Current(w)' = Current(w)
    BY <1>6 DEF CheckAvailable, Current
  <2>2. \A p : HeldUnits(p)' = HeldUnits(p)
    BY <2>1 DEF HeldUnits, OfProduct, AllRows, Held, Pending, Sold, Lapsed
  <2>3. Units(AllRows)' = Units(AllRows)
    BY <2>1 DEF AllRows
  <2>4. ASSUME NEW w \in Order, pc'[w] = "insert"
        PROVE  (Cardinality(HeldUnits(Current(w).product)) + Current(w).quantity
                  <= stock[Current(w).product])'
    <3>1. Cardinality(HeldUnits(Current(w).product)) + Current(w).quantity
            <= stock[Current(w).product]
      BY <1>6, <2>1, <2>4, CheckCovers DEF CapacityInv, TypeOK
    <3>2. HeldUnits(Current(w).product)' = HeldUnits(Current(w).product)
      BY <2>1 DEF HeldUnits, OfProduct, AllRows, Held, Pending, Sold, Lapsed
    <3> QED BY <2>1, <3>1, <3>2
  <2> QED BY <2>1, <2>2, <2>3, <2>4 DEF CapacityInv
<1>7. ASSUME NEW o \in Order, InsertReservation(o) PROVE CapacityInv'
  BY <1>7, InsertCapacity
<1>8. ASSUME NEW o \in Order, Refuse(o) \/ CommitReserve(o) \/ BreakDeadlock(o) \/ FailReserve(o)
      PROVE CapacityInv'
  BY <1>8, EndCapacity DEF Refuse, CommitReserve, BreakDeadlock, FailReserve, Ended
<1>9. ASSUME NEW f, MarkedBy(f),
             \A r \in reservations :
               f[r] = r \/ Pending(r) \/ f[r] = [r EXCEPT !.cancelled = TRUE]
      PROVE  CapacityInv'
  <2>1. Shrinks
    BY <1>9, MarkedShrinks
  <2>2. /\ \A p \in Product : stock[p] <= stock'[p]
        /\ \A w \in Order : pc'[w] = "insert" => pc[w] = "insert" /\ Current(w)' = Current(w)
    BY <1>0, <1>9 DEF MarkedBy, reserveVars, Current
  <2> QED BY <2>1, <2>2, ShrinkCapacity
<1>10. CASE ExpireReservations
  <2>1. \A r \in reservations : ExpireAll[r] = r \/ Pending(r)
    BY DEF ExpireAll, LapsedRows
  <2> QED BY <1>9, <1>10, <2>1, ExpireStatement
<1>11. ASSUME NEW o \in Order, ConfirmReservationsByOrder(o) PROVE CapacityInv'
  <2>1. \A r \in reservations : ConfirmOf(o)[r] = r \/ Pending(r)
    BY DEF ConfirmOf, PendingOf
  <2> QED BY <1>9, <1>11, <2>1, OutcomeStatements
<1>12. ASSUME NEW o \in Order, ReleaseReservationsByOrder(o) PROVE CapacityInv'
  <2>1. \A r \in reservations : ReleaseOf(o)[r] = r \/ Pending(r)
    BY DEF ReleaseOf, PendingOf
  <2> QED BY <1>9, <1>12, <2>1, OutcomeStatements
<1>13. ASSUME NEW o \in Order, CompensateCancel(o) PROVE CapacityInv'
  <2>1. \A r \in reservations :
          \/ CompensateOf(o)[r] = r \/ Pending(r)
          \/ CompensateOf(o)[r] = [r EXCEPT !.cancelled = TRUE]
    BY CompensateRow, ReleasingRows
  <2> QED BY <1>9, <1>13, <2>1, OutcomeStatements
<1>14. ASSUME NEW o \in Order, CompensateRelease(o) \/ CompensateFail(o) PROVE CapacityInv'
  BY <1>0, <1>1, <1>14 DEF CompensateRelease, CompensateFail, reserveVars, Current
<1>15. CASE UNCHANGED vars
  BY <1>0, <1>1, <1>15 DEF vars, reserveVars, Current
<1> QED
  BY <1>2, <1>3, <1>4, <1>5, <1>6, <1>7, <1>8, <1>10, <1>11, <1>12, <1>13, <1>14, <1>15
     DEF Next, Reserve

LEMMA CapacityInit == Init => LockInv /\ CapacityInv
<1> SUFFICES ASSUME Init PROVE LockInv /\ CapacityInv
  OBVIOUS
<1>1. AllRows = {} /\ \A p \in Product : stock[p] = 0
  BY DEF Init, AllRows
<1>2. Units(AllRows) = {} /\ \A p : HeldUnits(p) = {}
  BY <1>1 DEF HeldUnits, OfProduct, Units
<1>3. IsFiniteSet({}) /\ Cardinality({}) = 0
  BY FS_EmptySet
<1>4. LockInv
  BY DEF Init, LockInv
<1>5. CapacityInv
  <2>1. \A o \in Order : pc[o] # "insert"
    BY DEF Init
  <2>2. IsFiniteSet(Units(AllRows)) /\ \A p : Cardinality(HeldUnits(p)) = 0
    BY <1>2, <1>3
  <2> QED BY <1>1, <2>1, <2>2 DEF CapacityInv
<1> QED BY <1>4, <1>5

(* The inductive invariant behind the capacity of the stock.               *)
THEOREM CapacityCorrect == Spec => [](LockInv /\ CapacityInv)
<1>1. TypeOK /\ ProgressInv /\ LockInv /\ [Next]_vars => LockInv'
  BY LockStep
<1> QED
  BY <1>1, CapacityInit, CapacityStep, TypeCorrect, RowsCorrect, PTL DEF Spec

(* Late confirmations are the only way to oversell: what counts against a  *)
(* product and was not confirmed late is held, and what is held fits.      *)
THEOREM OversellBound == Spec => []OversoldOnlyByLateConfirm
<1>1. TypeOK /\ CapacityInv => OversoldOnlyByLateConfirm
  <2> SUFFICES ASSUME TypeOK, CapacityInv, NEW p \in Product
               PROVE  Available(p) + Cardinality(LateUnits(p)) >= 0
    BY DEF OversoldOnlyByLateConfirm
  <2> DEFINE counting == {r \in OfProduct(p, reservations) : Counts(r, now)}
  <2>1. Units(counting) \subseteq HeldUnits(p) \cup LateUnits(p)
    <3> DEFINE H == {r \in OfProduct(p, AllRows) : Held(r)}
               T == {r \in OfProduct(p, reservations) : Sold(r) /\ Lapsed(r, r.confirmedAt)}
    <3>1. counting \subseteq H \cup T
      <4> SUFFICES ASSUME NEW r \in reservations, r.product = p, Counts(r, now), r \notin T
                   PROVE  r \in AllRows /\ Held(r)
        BY DEF OfProduct
      <4> QED BY DEF Counts, Held, OfProduct, AllRows
    <3>2. HeldUnits(p) = Units(H) /\ LateUnits(p) = Units(T)
      BY DEF HeldUnits, LateUnits
    <3> HIDE DEF counting, H, T
    <3> QED BY <3>1, <3>2 DEF Units
  <2>2. LateUnits(p) \subseteq Units(AllRows)
    BY UnitsCovered DEF LateUnits, OfProduct, AllRows
  <2>3. IsFiniteSet(LateUnits(p)) /\ Cardinality(LateUnits(p)) \in Nat
    BY <2>2, FS_Subset, FS_CardinalityType DEF CapacityInv
  <2>4. IsFiniteSet(HeldUnits(p)) /\ Cardinality(HeldUnits(p)) \in Nat
    BY HeldFinite DEF CapacityInv
  <2>5. /\ IsFiniteSet(HeldUnits(p) \cup LateUnits(p))
        /\ Cardinality(HeldUnits(p) \cup LateUnits(p))
             = Cardinality(HeldUnits(p)) + Cardinality(LateUnits(p))
               - Cardinality(HeldUnits(p) \cap LateUnits(p))
    BY <2>3, <2>4, FS_Union
  <2>6. Cardinality(HeldUnits(p) \cap LateUnits(p)) \in Nat
    BY <2>4, FS_Intersection, FS_CardinalityType
  <2>7. Cardinality(Units(counting)) <= Cardinality(HeldUnits(p) \cup LateUnits(p))
        /\ Cardinality(Units(counting)) \in Nat
    BY <2>1, <2>5, FS_Subset, FS_CardinalityType
  <2>8. Cardinality(HeldUnits(p)) <= stock[p] /\ stock[p] \in Nat
    BY DEF CapacityInv, TypeOK
  <2>9. Available(p) = stock[p] - Cardinality(Units(counting))
    BY DEF Available, AvailableQty
  <2> HIDE DEF counting
  <2> QED BY <2>3, <2>4, <2>5, <2>6, <2>7, <2>8, <2>9
<1> QED
  BY <1>1, TypeCorrect, CapacityCorrect, PTL

-----------------------------------------------------------------------------
(* The rows of an order live and die together.                             *)

(* They share their state and their time, and a compensation holds all of  *)
(* them or none.                                                           *)
Alike(R) == \A r, s \in R : r.order = s.order => StateOf(r) = StateOf(s) /\ r.createdAt = s.createdAt

TogetherInv ==
  /\ Alike(reservations)
  /\ \A o \in Order : releasing[o] \in {{}, OfOrder(o, reservations)}

LEMMA RowStates ==
  ASSUME TypeOK, OneOutcome, NEW r \in reservations
  PROVE  /\ r \in Row /\ StateOf(r) \in Lifecycle!State \ {"none"}
         /\ Pending(r) <=> StateOf(r) = "pending"
         /\ Sold(r) <=> StateOf(r) = "confirmed"
         /\ Pending(r) =>
              /\ StateOf([r EXCEPT !.confirmedAt = now]) = "confirmed"
              /\ StateOf([r EXCEPT !.released = TRUE]) = "released"
              /\ StateOf([r EXCEPT !.expired = TRUE]) = "expired"
         /\ Sold(r) => StateOf([r EXCEPT !.cancelled = TRUE]) = "cancelled"
<1>1. /\ r \in Row /\ now \in Nat
      /\ r.cancelled \in BOOLEAN /\ r.released \in BOOLEAN /\ r.expired \in BOOLEAN
  BY DEF TypeOK, Row
<1>2. /\ ~(r.released /\ r.expired)
      /\ r.confirmedAt # NULL => ~r.released /\ ~r.expired
      /\ r.cancelled => r.confirmedAt # NULL
  BY DEF OneOutcome
<1>3. StateOf(r) \in Lifecycle!State \ {"none"}
  BY <1>1, <1>2 DEF StateOf, Lifecycle!State
<1>4. (Pending(r) <=> StateOf(r) = "pending") /\ (Sold(r) <=> StateOf(r) = "confirmed")
  BY <1>1, <1>2 DEF StateOf, Pending, Sold
<1>5. ASSUME Pending(r)
      PROVE  /\ StateOf([r EXCEPT !.confirmedAt = now]) = "confirmed"
             /\ StateOf([r EXCEPT !.released = TRUE]) = "released"
             /\ StateOf([r EXCEPT !.expired = TRUE]) = "expired"
  <2>1. ~r.cancelled /\ r.confirmedAt = NULL /\ ~r.released /\ ~r.expired
    BY <1>2, <1>5 DEF Pending
  <2>2. StateOf([r EXCEPT !.confirmedAt = now]) = "confirmed"
    BY <1>1, <2>1 DEF StateOf, Row
  <2>3. StateOf([r EXCEPT !.released = TRUE]) = "released"
    BY <1>1, <2>1 DEF StateOf, Row
  <2>4. StateOf([r EXCEPT !.expired = TRUE]) = "expired"
    BY <1>1, <2>1 DEF StateOf, Row
  <2> QED
    BY <2>2, <2>3, <2>4
<1>6. ASSUME Sold(r) PROVE StateOf([r EXCEPT !.cancelled = TRUE]) = "cancelled"
  BY <1>1, <1>6 DEF StateOf, Row, Sold
<1> QED
  BY <1>1, <1>3, <1>4, <1>5, <1>6

(* What the statements make of a state.                                    *)
LEMMA StatementStates ==
  ASSUME TypeOK, RowInv, TogetherInv, NEW o \in Order, NEW r \in reservations
  PROVE  /\ StateOf(ConfirmOf(o)[r]) =
              IF r.order = o /\ StateOf(r) = "pending" THEN "confirmed" ELSE StateOf(r)
         /\ StateOf(ReleaseOf(o)[r]) =
              IF r.order = o /\ StateOf(r) = "pending" THEN "released" ELSE StateOf(r)
         /\ StateOf(CompensateOf(o)[r]) =
              IF r.order # o THEN StateOf(r)
              ELSE IF StateOf(r) = "confirmed" THEN "cancelled"
              ELSE IF releasing[o] # {} THEN "released" ELSE StateOf(r)
<1>1. OneOutcome
  BY DEF RowInv
<1>2. StateOf(ConfirmOf(o)[r]) =
        IF r.order = o /\ StateOf(r) = "pending" THEN "confirmed" ELSE StateOf(r)
  BY <1>1, RowStates DEF ConfirmOf, PendingOf
<1>3. StateOf(ReleaseOf(o)[r]) =
        IF r.order = o /\ StateOf(r) = "pending" THEN "released" ELSE StateOf(r)
  BY <1>1, RowStates DEF ReleaseOf, PendingOf
<1>4. StateOf(CompensateOf(o)[r]) =
        IF r.order # o THEN StateOf(r)
        ELSE IF StateOf(r) = "confirmed" THEN "cancelled"
        ELSE IF releasing[o] # {} THEN "released" ELSE StateOf(r)
  <2>1. CASE r.order # o
    BY <2>1, ReleasingRows, CompensateRow
  <2>2. CASE r.order = o /\ Sold(r)
    <3>1. r \notin releasing[o]
      BY <2>2, ReleasingRows DEF Pending, Sold
    <3> QED
      BY <1>1, <2>2, <3>1, RowStates, CompensateRow
  <2>3. CASE r.order = o /\ ~Sold(r) /\ releasing[o] # {}
    <3>1. r \in releasing[o]
      BY <2>3 DEF TogetherInv, OfOrder
    <3>2. Pending(r) /\ CompensateOf(o)[r] = [r EXCEPT !.released = TRUE]
      BY <3>1, ReleasingRows, CompensateRow
    <3>3. StateOf(r) = "pending" /\ StateOf(CompensateOf(o)[r]) = "released"
      BY <1>1, <3>2, RowStates
    <3> QED
      BY <2>3, <3>3
  <2>4. CASE r.order = o /\ ~Sold(r) /\ releasing[o] = {}
    BY <1>1, <2>4, RowStates, CompensateRow
  <2> QED
    BY <1>1, <2>1, <2>2, <2>3, <2>4, RowStates
<1> QED
  BY <1>2, <1>3, <1>4

LEMMA ExpireStates ==
  ASSUME TypeOK, RowInv, NEW r \in reservations
  PROVE  StateOf(ExpireAll[r]) =
           IF StateOf(r) = "pending" /\ Lapsed(r, now) THEN "expired" ELSE StateOf(r)
<1>1. OneOutcome
  BY DEF RowInv
<1> QED
  BY <1>1, RowStates DEF ExpireAll, LapsedRows

(* A statement that does the same to rows that are alike keeps them alike. *)
LEMMA MarkedTogether ==
  ASSUME TypeOK, RowInv, TogetherInv, NEW f, MarkedBy(f),
         \A r, s \in reservations : r.order = s.order => StateOf(f[r]) = StateOf(f[s]),
         \A o \in Order : releasing'[o] \in {releasing[o], {}},
         \A o \in Order : \A r \in releasing'[o] : f[r] = r
  PROVE  TogetherInv'
<1>1. \A r \in reservations : f[r].order = r.order /\ f[r].createdAt = r.createdAt
  BY MarkType DEF TypeOK, MarkedBy
<1>2. Alike(reservations')
  BY <1>1 DEF MarkedBy, Alike, TogetherInv
<1>3. ASSUME NEW o \in Order, releasing'[o] # {}
      PROVE  releasing'[o] = OfOrder(o, reservations')
  <2>1. releasing'[o] = OfOrder(o, reservations)
    BY <1>3 DEF TogetherInv
  <2>2. OfOrder(o, reservations') = {f[r] : r \in OfOrder(o, reservations)}
    BY <1>1 DEF MarkedBy, OfOrder
  <2>3. \A r \in OfOrder(o, reservations) : f[r] = r
    BY <2>1
  <2> QED
    BY <2>1, <2>2, <2>3
<1> QED
  BY <1>2, <1>3 DEF TogetherInv, Alike

LEMMA CommitTogether ==
  ASSUME TypeOK, RowInv, TogetherInv, NEW o \in Order, CommitReserve(o)
  PROVE  /\ TogetherInv'
         /\ OfOrder(o, reservations) = {}
         /\ \A r \in writes[o] : StateOf(r) = "pending" /\ r.order = o
<1>1. reservations' = reservations \cup writes[o] /\ releasing' = releasing /\ pc[o] = "commit"
  BY DEF CommitReserve, EndReserve, compVars
<1>2. OfOrder(o, reservations) = {}
  BY <1>1 DEF RowInv, CommittedInv, OfOrder
<1>3. \A r \in writes[o] : StateOf(r) = "pending" /\ r.order = o /\ r.createdAt = began[o]
  BY DEF RowInv, WritesInv, Pending, StateOf
<1>4. Alike(reservations')
  BY <1>1, <1>2, <1>3 DEF TogetherInv, Alike, OfOrder
<1>5. releasing[o] = {}
  BY <1>2, ReleasingRows DEF OfOrder
<1>6. \A p \in Order \ {o} : OfOrder(p, reservations') = OfOrder(p, reservations)
  BY <1>1, <1>3 DEF OfOrder
<1>7. \A p \in Order : releasing'[p] \in {{}, OfOrder(p, reservations')}
  BY <1>1, <1>5, <1>6 DEF TogetherInv
<1> QED
  BY <1>2, <1>3, <1>4, <1>7 DEF TogetherInv, Alike

(* The state of the reservation is that of any of its rows.                *)
StatusIn(o, R) ==
  LET states == {StateOf(r) : r \in OfOrder(o, R)} IN
  IF states = {} THEN "none"
  ELSE IF \E s \in states : states = {s} THEN CHOOSE s \in states : TRUE
  ELSE "mixed"

LEMMA StatusOfRows ==
  ASSUME NEW R, Alike(R), NEW o
  PROVE  /\ OfOrder(o, R) = {} => StatusIn(o, R) = "none"
         /\ \A r \in R : r.order = o => StatusIn(o, R) = StateOf(r)
<1> DEFINE states == {StateOf(r) : r \in OfOrder(o, R)}
<1>1. CASE OfOrder(o, R) = {}
  <2>1. states = {}
    BY <1>1
  <2> QED
    BY <1>1, <2>1 DEF StatusIn, OfOrder
<1>2. ASSUME NEW r \in R, r.order = o PROVE StatusIn(o, R) = StateOf(r)
  <2>1. states = {StateOf(r)}
    BY <1>2 DEF Alike, OfOrder
  <2>2. (CHOOSE s \in {StateOf(r)} : TRUE) = StateOf(r)
    OBVIOUS
  <2> QED
    BY <2>1, <2>2 DEF StatusIn
<1> QED
  BY <1>1, <1>2

LEMMA StatusIsStatusIn ==
  \A o \in Order : Status(o) = StatusIn(o, reservations) /\ Status(o)' = StatusIn(o, reservations')
BY DEF Status, StatusIn, StatesOf

LEMMA MarkedStatus ==
  ASSUME TypeOK, TogetherInv, TogetherInv', NEW f, MarkedBy(f), NEW o \in Order
  PROVE  /\ OfOrder(o, reservations) = {} => Status(o) = "none" /\ Status(o)' = "none"
         /\ \A r \in reservations : r.order = o =>
              Status(o) = StateOf(r) /\ Status(o)' = StateOf(f[r])
<1>1. Alike(reservations) /\ Alike(reservations')
  BY DEF TogetherInv, Alike
<1>2. \A r \in reservations : f[r].order = r.order /\ f[r] \in reservations'
  BY MarkType DEF TypeOK, MarkedBy
<1>3. OfOrder(o, reservations) = {} => OfOrder(o, reservations') = {}
  BY <1>2 DEF MarkedBy, OfOrder
<1>4. ASSUME OfOrder(o, reservations) = {} PROVE Status(o) = "none" /\ Status(o)' = "none"
  BY <1>1, <1>3, <1>4, StatusOfRows, StatusIsStatusIn
<1>5. ASSUME NEW r \in reservations, r.order = o
      PROVE  Status(o) = StateOf(r) /\ Status(o)' = StateOf(f[r])
  BY <1>1, <1>2, <1>5, StatusOfRows, StatusIsStatusIn
<1> QED
  BY <1>4, <1>5

(* The steps of the life cycle.                                            *)
LEMMA StatusMoves ==
  ASSUME NEW o \in Order, NEW to \in Lifecycle!State,
         <<Status(o), to>> \in Lifecycle!Edge, Status(o)' = to,
         \A p \in Order \ {o} : Status(p)' = Status(p)
  PROVE  Lifecycle!Next
<1>1. [p \in Order |-> Status(p)]' = [[p \in Order |-> Status(p)] EXCEPT ![o] = to]
  OBVIOUS
<1>2. Lifecycle!Move(o, to)
  BY <1>1 DEF Lifecycle!Move
<1> QED
  BY <1>2 DEF Lifecycle!Next

LEMMA StatusStays ==
  ASSUME \A p \in Order : Status(p)' = Status(p)
  PROVE  UNCHANGED [p \in Order |-> Status(p)]
OBVIOUS

LEMMA StatusExpires ==
  ASSUME NEW lapsed \in SUBSET Order, \A p \in lapsed : Status(p) = "pending",
         \A p \in Order : Status(p)' = IF p \in lapsed THEN "expired" ELSE Status(p)
  PROVE  Lifecycle!Next
<1>1. Lifecycle!Expire(lapsed)
  BY DEF Lifecycle!Expire
<1> QED
  BY <1>1 DEF Lifecycle!Next

(* One statement of an order moves its reservation or leaves it.           *)
LEMMA OrderStatement ==
  ASSUME TypeOK, RowInv, TogetherInv, NEW o \in Order, NEW f, MarkedBy(f),
         NEW from \in Lifecycle!State, NEW to \in Lifecycle!State,
         <<from, to>> \in Lifecycle!Edge,
         \A r \in reservations : StateOf(f[r]) =
           IF r.order = o /\ StateOf(r) = from THEN to ELSE StateOf(r),
         TogetherInv'
  PROVE  Lifecycle!Next \/ UNCHANGED [p \in Order |-> Status(p)]
<1>1. \A p \in Order \ {o} : Status(p)' = Status(p)
  <2> SUFFICES ASSUME NEW p \in Order \ {o} PROVE Status(p)' = Status(p)
    OBVIOUS
  <2>1. CASE OfOrder(p, reservations) = {}
    BY <2>1, MarkedStatus
  <2>2. ASSUME NEW r \in reservations, r.order = p PROVE Status(p)' = Status(p)
    BY <2>2, MarkedStatus
  <2> QED
    BY <2>1, <2>2 DEF OfOrder
<1>2. Status(o)' = Status(o) \/ (Status(o) = from /\ Status(o)' = to)
  <2>1. CASE OfOrder(o, reservations) = {}
    BY <2>1, MarkedStatus
  <2>2. ASSUME NEW r \in reservations, r.order = o
        PROVE  Status(o)' = Status(o) \/ (Status(o) = from /\ Status(o)' = to)
    BY <2>2, MarkedStatus
  <2> QED
    BY <2>1, <2>2 DEF OfOrder
<1>3. CASE Status(o)' = Status(o)
  BY <1>1, <1>3, StatusStays
<1>4. CASE Status(o) = from /\ Status(o)' = to
  BY <1>1, <1>4, StatusMoves
<1> QED
  BY <1>2, <1>3, <1>4

LEMMA Edges ==
  /\ <<"none", "pending">> \in Lifecycle!Edge
  /\ <<"pending", "confirmed">> \in Lifecycle!Edge
  /\ <<"pending", "released">> \in Lifecycle!Edge
  /\ <<"confirmed", "cancelled">> \in Lifecycle!Edge
  /\ {"none", "pending", "confirmed", "released", "cancelled"} \subseteq Lifecycle!State
BY DEF Lifecycle!Edge, Lifecycle!State

LEMMA ConfirmLife ==
  ASSUME TypeOK, RowInv, TogetherInv, NEW o \in Order, ConfirmReservationsByOrder(o)
  PROVE  TogetherInv' /\ (Lifecycle!Next \/ UNCHANGED [p \in Order |-> Status(p)])
<1>1. MarkedBy(ConfirmOf(o)) /\ releasing' = releasing /\ Free(PendingOf(o))
  BY OutcomeStatements DEF ConfirmReservationsByOrder, compVars
<1>2. \A r \in reservations : StateOf(ConfirmOf(o)[r]) =
        IF r.order = o /\ StateOf(r) = "pending" THEN "confirmed" ELSE StateOf(r)
  BY StatementStates
<1>3. \A w \in Order : \A r \in releasing[w] : ConfirmOf(o)[r] = r
  BY <1>1, ReleasingRows DEF ConfirmOf, Free
<1>4. \A r, s \in reservations :
        r.order = s.order => StateOf(ConfirmOf(o)[r]) = StateOf(ConfirmOf(o)[s])
  BY <1>2 DEF TogetherInv, Alike
<1>5. TogetherInv'
  BY <1>1, <1>3, <1>4, MarkedTogether
<1> QED
  BY <1>1, <1>2, <1>5, Edges, OrderStatement

LEMMA ReleaseLife ==
  ASSUME TypeOK, RowInv, TogetherInv, NEW o \in Order, ReleaseReservationsByOrder(o)
  PROVE  TogetherInv' /\ (Lifecycle!Next \/ UNCHANGED [p \in Order |-> Status(p)])
<1>1. MarkedBy(ReleaseOf(o)) /\ releasing' = releasing /\ Free(PendingOf(o))
  BY OutcomeStatements DEF ReleaseReservationsByOrder, compVars
<1>2. \A r \in reservations : StateOf(ReleaseOf(o)[r]) =
        IF r.order = o /\ StateOf(r) = "pending" THEN "released" ELSE StateOf(r)
  BY StatementStates
<1>3. \A w \in Order : \A r \in releasing[w] : ReleaseOf(o)[r] = r
  BY <1>1, ReleasingRows DEF ReleaseOf, Free
<1>4. \A r, s \in reservations :
        r.order = s.order => StateOf(ReleaseOf(o)[r]) = StateOf(ReleaseOf(o)[s])
  BY <1>2 DEF TogetherInv, Alike
<1>5. TogetherInv'
  BY <1>1, <1>3, <1>4, MarkedTogether
<1> QED
  BY <1>1, <1>2, <1>5, Edges, OrderStatement

(* The commit of a compensation: released if it held the rows, cancelled if*)
(* they are sold, or nothing.                                              *)
LEMMA CompensateLife ==
  ASSUME TypeOK, RowInv, TogetherInv, NEW o \in Order, CompensateCancel(o)
  PROVE  TogetherInv' /\ (Lifecycle!Next \/ UNCHANGED [p \in Order |-> Status(p)])
<1>1. MarkedBy(CompensateOf(o)) /\ releasing' = [releasing EXCEPT ![o] = {}]
  BY OutcomeStatements DEF CompensateCancel
<1>2. \A r \in reservations : StateOf(CompensateOf(o)[r]) =
        IF r.order # o THEN StateOf(r)
        ELSE IF StateOf(r) = "confirmed" THEN "cancelled"
        ELSE IF releasing[o] # {} THEN "released" ELSE StateOf(r)
  BY StatementStates
<1>3. \A w \in Order : releasing'[w] \in {releasing[w], {}}
  BY <1>1 DEF TypeOK
<1>4. \A w \in Order : \A r \in releasing'[w] : CompensateOf(o)[r] = r
  <2> SUFFICES ASSUME NEW w \in Order, NEW r \in releasing'[w] PROVE CompensateOf(o)[r] = r
    OBVIOUS
  <2>1. w # o /\ r \in releasing[w]
    BY <1>1 DEF TypeOK
  <2>2. r \in reservations /\ r.order = w /\ r \notin releasing[o]
    BY <2>1, ReleasingRows
  <2> QED
    BY <2>1, <2>2, CompensateRow
<1>5. \A r, s \in reservations :
        r.order = s.order => StateOf(CompensateOf(o)[r]) = StateOf(CompensateOf(o)[s])
  BY <1>2 DEF TogetherInv, Alike
<1>6. TogetherInv'
  BY <1>1, <1>3, <1>4, <1>5, MarkedTogether
<1>7. CASE releasing[o] = {}
  <2>1. \A r \in reservations : StateOf(CompensateOf(o)[r]) =
          IF r.order = o /\ StateOf(r) = "confirmed" THEN "cancelled" ELSE StateOf(r)
    BY <1>2, <1>7
  <2> QED
    BY <1>1, <1>6, <2>1, Edges, OrderStatement
<1>8. CASE releasing[o] # {}
  <2>1. \A r \in reservations : r.order = o => StateOf(r) = "pending"
    <3>1. OneOutcome
      BY DEF RowInv
    <3>2. \A r \in reservations : r.order = o => r \in releasing[o]
      BY <1>8 DEF TogetherInv, OfOrder
    <3> QED
      BY <3>1, <3>2, ReleasingRows, RowStates
  <2>2. \A r \in reservations : StateOf(CompensateOf(o)[r]) =
          IF r.order = o /\ StateOf(r) = "pending" THEN "released" ELSE StateOf(r)
    BY <1>2, <1>8, <2>1
  <2> QED
    BY <1>1, <1>6, <2>2, Edges, OrderStatement
<1> QED
  BY <1>6, <1>7, <1>8

LEMMA ExpireLife ==
  ASSUME TypeOK, RowInv, TogetherInv, ExpireReservations
  PROVE  TogetherInv' /\ (Lifecycle!Next \/ UNCHANGED [p \in Order |-> Status(p)])
<1>1. MarkedBy(ExpireAll) /\ releasing' = releasing /\ Free(LapsedRows)
  BY ExpireStatement DEF ExpireReservations, compVars
<1>2. \A r \in reservations : StateOf(ExpireAll[r]) =
        IF StateOf(r) = "pending" /\ Lapsed(r, now) THEN "expired" ELSE StateOf(r)
  BY ExpireStates
<1>3. \A w \in Order : \A r \in releasing[w] : ExpireAll[r] = r
  BY <1>1, ReleasingRows DEF ExpireAll, Free
<1>4. \A r, s \in reservations :
        r.order = s.order => StateOf(ExpireAll[r]) = StateOf(ExpireAll[s])
  BY <1>2 DEF TogetherInv, Alike, Lapsed
<1>5. TogetherInv'
  BY <1>1, <1>3, <1>4, MarkedTogether
<1> DEFINE lapsed == {p \in Order : \E r \in reservations :
                        r.order = p /\ StateOf(r) = "pending" /\ Lapsed(r, now)}
<1>6. \A p \in lapsed : Status(p) = "pending"
  BY <1>1, <1>5, MarkedStatus
<1>7. ASSUME NEW p \in Order
      PROVE  Status(p)' = IF p \in lapsed THEN "expired" ELSE Status(p)
  <2>1. CASE OfOrder(p, reservations) = {}
    BY <1>1, <1>5, <2>1, MarkedStatus DEF OfOrder
  <2>2. ASSUME NEW r \in reservations, r.order = p
        PROVE  Status(p)' = IF p \in lapsed THEN "expired" ELSE Status(p)
    <3>1. p \in lapsed <=> StateOf(r) = "pending" /\ Lapsed(r, now)
      BY <2>2 DEF TogetherInv, Alike, Lapsed
    <3>2. Status(p) = StateOf(r) /\ Status(p)' = StateOf(ExpireAll[r])
      BY <1>1, <1>5, <2>2, MarkedStatus
    <3> HIDE DEF lapsed
    <3> QED
      BY <1>2, <3>1, <3>2
  <2> QED
    BY <2>1, <2>2 DEF OfOrder
<1> HIDE DEF lapsed
<1>8. lapsed \in SUBSET Order
  BY DEF lapsed
<1> QED
  BY <1>5, <1>6, <1>7, <1>8, StatusExpires

LEMMA CommitLife ==
  ASSUME TypeOK, RowInv, TogetherInv, NEW o \in Order, CommitReserve(o)
  PROVE  TogetherInv' /\ (Lifecycle!Next \/ UNCHANGED [p \in Order |-> Status(p)])
<1>1. /\ TogetherInv' /\ OfOrder(o, reservations) = {}
      /\ \A r \in writes[o] : StateOf(r) = "pending" /\ r.order = o
  BY CommitTogether
<1>2. reservations' = reservations \cup writes[o]
  BY DEF CommitReserve
<1>3. Alike(reservations) /\ Alike(reservations')
  BY <1>1 DEF TogetherInv, Alike
<1>4. Status(o) = "none"
  BY <1>1, <1>3, StatusOfRows, StatusIsStatusIn
<1>5. \A p \in Order \ {o} : Status(p)' = Status(p)
  <2> SUFFICES ASSUME NEW p \in Order \ {o} PROVE Status(p)' = Status(p)
    OBVIOUS
  <2>1. OfOrder(p, reservations') = OfOrder(p, reservations)
    BY <1>1, <1>2 DEF OfOrder
  <2> QED
    BY <2>1, StatusIsStatusIn DEF StatusIn
<1>6. CASE writes[o] = {}
  <2>1. reservations' = reservations
    BY <1>2, <1>6
  <2>2. Status(o)' = Status(o)
    BY <2>1, StatusIsStatusIn
  <2> QED
    BY <1>1, <1>5, <2>2, StatusStays
<1>7. ASSUME NEW r \in writes[o] PROVE TogetherInv' /\ Lifecycle!Next
  <2>1. r \in reservations' /\ r.order = o /\ StateOf(r) = "pending"
    BY <1>1, <1>2, <1>7
  <2>2. StatusIn(o, reservations') = StateOf(r)
    BY <1>3, <2>1, StatusOfRows
  <2>3. Status(o)' = "pending"
    BY <2>1, <2>2, StatusIsStatusIn
  <2> QED
    BY <1>1, <1>4, <1>5, <2>3, Edges, StatusMoves
<1> QED
  BY <1>1, <1>6, <1>7

(* The other steps change no row.                                          *)
LEMMA StillLife ==
  ASSUME TogetherInv, UNCHANGED reservations,
         \A o \in Order : releasing'[o] \in {{}, OfOrder(o, reservations)}
  PROVE  TogetherInv' /\ UNCHANGED [p \in Order |-> Status(p)]
<1>1. TogetherInv'
  BY DEF TogetherInv, Alike
<1>2. \A p \in Order : Status(p)' = Status(p)
  BY StatusIsStatusIn
<1> QED
  BY <1>1, <1>2, StatusStays

LEMMA LifeStep ==
  TypeOK /\ RowInv /\ TogetherInv /\ [Next]_vars
    => TogetherInv' /\ (Lifecycle!Next \/ UNCHANGED [p \in Order |-> Status(p)])
<1> SUFFICES ASSUME TypeOK, RowInv, TogetherInv, [Next]_vars
             PROVE  TogetherInv' /\ (Lifecycle!Next \/ UNCHANGED [p \in Order |-> Status(p)])
  OBVIOUS
<1> DEFINE Goal == TogetherInv' /\ (Lifecycle!Next \/ UNCHANGED [p \in Order |-> Status(p)])
<1>1. CASE UNCHANGED <<reservations, releasing>>
  <2>1. \A o \in Order : releasing'[o] \in {{}, OfOrder(o, reservations)}
    BY <1>1 DEF TogetherInv
  <2> QED
    BY <1>1, <2>1, StillLife
<1>2. ASSUME NEW o \in Order, CompensateRelease(o) PROVE Goal
  <2>1. PendingOf(o) \in {{}, OfOrder(o, reservations)}
    <3>1. OneOutcome
      BY DEF RowInv
    <3>2. \A r \in reservations : Pending(r) <=> StateOf(r) = "pending"
      BY <3>1, RowStates
    <3>3. \A r, s \in OfOrder(o, reservations) : Pending(r) <=> Pending(s)
      BY <3>2 DEF TogetherInv, Alike, OfOrder
    <3>4. PendingOf(o) = {r \in OfOrder(o, reservations) : Pending(r)}
      BY DEF PendingOf, OfOrder
    <3> QED
      BY <3>3, <3>4
  <2>2. \A p \in Order : releasing'[p] \in {{}, OfOrder(p, reservations)}
    BY <1>2, <2>1 DEF CompensateRelease, TogetherInv, TypeOK
  <2> QED
    BY <1>2, <2>2, StillLife DEF CompensateRelease
<1>3. ASSUME NEW o \in Order, CompensateFail(o) PROVE Goal
  <2>1. \A p \in Order : releasing'[p] \in {{}, OfOrder(p, reservations)}
    BY <1>3 DEF CompensateFail, TogetherInv, TypeOK
  <2> QED
    BY <1>3, <2>1, StillLife DEF CompensateFail
<1>4. CASE ExpireReservations
  BY <1>4, ExpireLife
<1>5. ASSUME NEW o \in Order,
             \/ CommitReserve(o) \/ ConfirmReservationsByOrder(o)
             \/ ReleaseReservationsByOrder(o) \/ CompensateCancel(o)
      PROVE  Goal
  BY <1>5, CommitLife, ConfirmLife, ReleaseLife, CompensateLife
<1>6. \/ UNCHANGED <<reservations, releasing>>
      \/ ExpireReservations
      \/ \E o \in Order :
           \/ CompensateRelease(o) \/ CompensateFail(o) \/ CompensateCancel(o)
           \/ CommitReserve(o) \/ ConfirmReservationsByOrder(o) \/ ReleaseReservationsByOrder(o)
  BY DEF Next, vars, compVars, Tick, StockIn, BeginReserve, Reserve, LockProduct, CheckAvailable,
         Refuse, InsertReservation, BreakDeadlock, FailReserve, EndReserve
<1> QED
  BY <1>1, <1>2, <1>3, <1>4, <1>5, <1>6

(* However Reserve, the consumers, the API and the reaper interleave, the  *)
(* rows of an order move together along the life cycle the service shows.  *)
THEOREM ImplementsLifecycle == Spec => LifecycleSpec
<1>1. Init => TogetherInv /\ Lifecycle!Init
  <2> SUFFICES ASSUME Init PROVE TogetherInv /\ Lifecycle!Init
    OBVIOUS
  <2>1. TogetherInv
    BY DEF Init, TogetherInv, Alike
  <2>2. \A o \in Order : Status(o) = "none"
    BY DEF Init, Status, StatesOf, OfOrder
  <2> QED
    BY <2>1, <2>2 DEF Lifecycle!Init
<1>2. TypeOK /\ RowInv /\ TogetherInv /\ [Next]_vars => TogetherInv'
  BY LifeStep
<1>3. TypeOK /\ RowInv /\ TogetherInv /\ [Next]_vars
        => [Lifecycle!Next]_[o \in Order |-> Status(o)]
  BY LifeStep
<1> QED
  BY <1>1, <1>2, <1>3, TypeCorrect, RowsCorrect, PTL DEF Spec, LifecycleSpec, Lifecycle!Spec

-----------------------------------------------------------------------------
(* The reaper records what the availability sum knows.                     *)

(* Nobody else expires a row, nor takes an expired one away.               *)
LEMMA MarkedExpired ==
  ASSUME TypeOK, NEW f, MarkedBy(f), \A r \in reservations : f[r].expired = r.expired
  PROVE  Expired' = Expired
<1>1. \A r \in reservations : f[r].order = r.order /\ f[r].line = r.line
  BY MarkType DEF TypeOK, MarkedBy
<1>2. {x \in reservations' : x.expired} = {f[r] : r \in {x \in reservations : x.expired}}
  BY DEF MarkedBy
<1> QED
  BY <1>1, <1>2 DEF Expired

LEMMA OnlyReaperExpires ==
  ASSUME TypeOK, RowInv, Next, ~ExpireReservations
  PROVE  Expired' = Expired
<1>1. CASE UNCHANGED reservations
  BY <1>1 DEF Expired
<1>2. ASSUME NEW o \in Order, CommitReserve(o) PROVE Expired' = Expired
  <2>1. reservations' = reservations \cup writes[o] /\ \A r \in writes[o] : ~r.expired
    BY <1>2 DEF CommitReserve, RowInv, WritesInv, Pending
  <2>2. {x \in reservations' : x.expired} = {x \in reservations : x.expired}
    BY <2>1
  <2> QED
    BY <2>2 DEF Expired
<1>3. ASSUME NEW o \in Order,
             ConfirmReservationsByOrder(o) \/ ReleaseReservationsByOrder(o) \/ CompensateCancel(o)
      PROVE  Expired' = Expired
  <2>1. \A r \in reservations : r \in Row
    BY DEF TypeOK
  <2>2. \A r \in reservations :
          /\ ConfirmOf(o)[r].expired = r.expired
          /\ ReleaseOf(o)[r].expired = r.expired
    BY <2>1 DEF ConfirmOf, ReleaseOf, Row
  <2>3. \A r \in reservations : CompensateOf(o)[r].expired = r.expired
    <3> SUFFICES ASSUME NEW r \in reservations PROVE CompensateOf(o)[r].expired = r.expired
      OBVIOUS
    <3>1. CompensateOf(o)[r] \in {r, [r EXCEPT !.released = TRUE], [r EXCEPT !.cancelled = TRUE]}
      BY CompensateRow
    <3>2. /\ [r EXCEPT !.released = TRUE].expired = r.expired
          /\ [r EXCEPT !.cancelled = TRUE].expired = r.expired
      BY <2>1 DEF Row
    <3> QED
      BY <3>1, <3>2
  <2> QED
    BY <1>3, <2>2, <2>3, OutcomeStatements, MarkedExpired
<1>4. \/ UNCHANGED reservations
      \/ \E o \in Order :
           \/ CommitReserve(o) \/ ConfirmReservationsByOrder(o)
           \/ ReleaseReservationsByOrder(o) \/ CompensateCancel(o)
  BY DEF Next, Tick, StockIn, BeginReserve, Reserve, LockProduct, CheckAvailable, Refuse,
         InsertReservation, BreakDeadlock, FailReserve, CompensateRelease, CompensateFail
<1> QED
  BY <1>1, <1>2, <1>3, <1>4

LEMMA ReaperStep ==
  ASSUME TypeOK, ExpireReservations, NEW p \in Product
  PROVE  Available(p)' = Available(p)
<1>1. MarkedBy(ExpireAll) /\ stock' = stock /\ now' = now
  BY ExpireStatement DEF MarkedBy
<1>2. \A r \in reservations : r \in Row
  BY DEF TypeOK
<1>3. \A r \in reservations : Counts(r, now) => ExpireAll[r] = r
  BY DEF ExpireAll, LapsedRows, Counts, Sold, Pending
<1>4. \A r \in reservations : ExpireAll[r] # r => ~Counts(ExpireAll[r], now)
  BY <1>2 DEF ExpireAll, LapsedRows, Counts, Sold, Pending, Row
<1>5. {r \in OfProduct(p, reservations') : Counts(r, now)}
        = {r \in OfProduct(p, reservations) : Counts(r, now)}
  BY <1>1, <1>3, <1>4 DEF MarkedBy, OfProduct
<1> QED
  BY <1>1, <1>5 DEF Available, AvailableQty

(* No availability changes when rows expire: what the reaper collects was  *)
(* already free, and what was taken it does not collect.                   *)
THEOREM ReaperIsInvisibleHolds == Spec => ReaperIsInvisible
<1>1. TypeOK /\ RowInv /\ [Next]_vars
        => [Expired' # Expired => \A p \in Product : Available(p)' = Available(p)]_vars
  BY OnlyReaperExpires, ReaperStep
<1> QED
  BY <1>1, TypeCorrect, RowsCorrect, PTL DEF Spec, ReaperIsInvisible
=============================================================================
