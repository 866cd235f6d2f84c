------------------------------ MODULE Inventory ------------------------------
(***************************************************************************)
(* The inventory service: a ledger of stock receipts and reservations in   *)
(* PostgreSQL, written by the HTTP API (stock in, reserve, release), by    *)
(* the two event consumers (payment.settled confirms, order.cancelled      *)
(* compensates) and by the reaper that marks reservations whose time to    *)
(* live has passed.                                                        *)
(*                                                                         *)
(* Every action is one SQL statement or one commit/rollback, so that the   *)
(* interleavings of concurrent transactions are those of READ COMMITTED.   *)
(* Uncommitted inserts of order o are in writes[o] and rows an uncommitted *)
(* UPDATE has locked are in releasing[o]; other transactions see neither.  *)
(***************************************************************************)
EXTENDS Integers, FiniteSets, Sequences

CONSTANTS
  Order,      \* orders; the order service calls Reserve once for each
  Product,    \* products
  Request,    \* the bodies a Reserve call may carry: sequences of lines
  TTL,        \* inventory.reservation_ttl(), in clock ticks
  MaxTime,    \* bound on the clock
  MaxStock,   \* bound on the receipts of one product
  NULL        \* SQL NULL, and "nobody holds this lock"

Line == [product : Product, quantity : Nat \ {0}]

ASSUME RequestAssumption ==
  Request \subseteq Seq(Line) /\ \A req \in Request : Len(req) > 0
ASSUME TTLAssumption  == TTL \in Nat \ {0}
ASSUME NullAssumption == NULL \notin Nat /\ NULL \notin Order

VARIABLES
  now,           \* the database clock
  stock,         \* sum of stock_ins.quantity of each product
  reservations,  \* the committed rows of the reservations table
  pc,            \* where the Reserve transaction of each order stands
  lines,         \* the lines that transaction was asked for
  next,          \* index of the line it is working on
  began,         \* now() inside it: the time the transaction started
  writes,        \* the rows it has inserted and not yet committed
  holder,        \* the order whose transaction holds a product's advisory lock
  compPc,        \* where the compensation of a cancelled order stands
  releasing,     \* the rows its first UPDATE has locked
  acked          \* orders whose order.cancelled has been handled and acked

reserveVars == <<pc, lines, next, began, writes, holder>>
compVars    == <<compPc, releasing, acked>>
vars        == <<now, stock, reservations, reserveVars, compVars>>

Active == {"lock", "check", "insert", "commit"}
Ended  == {"reserved", "refused", "failed"}

(* A row, identified by its order and the index of its line.  confirmed_at *)
(* keeps its time, which tells a timely confirmation from a late one; the  *)
(* other columns are only ever tested for NULL.                            *)
Row == [order : Order, line : Nat, product : Product, quantity : Nat \ {0},
        createdAt : Nat, confirmedAt : Nat \cup {NULL},
        released : BOOLEAN, expired : BOOLEAN, cancelled : BOOLEAN]

TypeOK ==
  /\ now \in Nat
  /\ stock \in [Product -> Nat]
  /\ reservations \subseteq Row
  /\ pc \in [Order -> {"new"} \cup Active \cup Ended]
  /\ lines \in [Order -> Request \cup {<<>>}]
  /\ next \in [Order -> Nat \ {0}]
  /\ began \in [Order -> Nat]
  /\ writes \in [Order -> SUBSET Row]
  /\ holder \in [Product -> Order \cup {NULL}]
  /\ compPc \in [Order -> {"idle", "cancel"}]
  /\ releasing \in [Order -> SUBSET Row]
  /\ acked \subseteq Order

Init ==
  /\ now = 0
  /\ stock = [p \in Product |-> 0]
  /\ reservations = {}
  /\ pc = [o \in Order |-> "new"]
  /\ lines = [o \in Order |-> <<>>]
  /\ next = [o \in Order |-> 1]
  /\ began = [o \in Order |-> 0]
  /\ writes = [o \in Order |-> {}]
  /\ holder = [p \in Product |-> NULL]
  /\ compPc = [o \in Order |-> "idle"]
  /\ releasing = [o \in Order |-> {}]
  /\ acked = {}

-----------------------------------------------------------------------------
(* The columns of a row read together.                                     *)

\* BUG: the statements forget "released_at IS NULL".
ReleasedIsPending(r) == r.confirmedAt = NULL /\ ~r.expired

Pending(r) == r.confirmedAt = NULL /\ ~r.released /\ ~r.expired
Lapsed(r, t) == r.createdAt + TTL <= t
Sold(r) == r.confirmedAt # NULL /\ ~r.cancelled

(* The rows the availability sum subtracts at time t.                      *)
Counts(r, t) == Sold(r) \/ (Pending(r) /\ ~Lapsed(r, t))

(* One element for each unit a set of rows takes: SUM(quantity) over rows  *)
(* with distinct keys is the number of these.                              *)
Units(rows) == UNION {{<<r.order, r.line, k>> : k \in 1..r.quantity} : r \in rows}

OfProduct(p, rows) == {r \in rows : r.product = p}
OfOrder(o, rows)   == {r \in rows : r.order = o}

(* The availability of p to a reader that sees these rows at time t.       *)
AvailableQty(p, rows, t) ==
  stock[p] - Cardinality(Units({r \in OfProduct(p, rows) : Counts(r, t)}))

(* UPDATE reservations SET ... WHERE ... waits while another transaction   *)
(* has one of the rows it would change.                                    *)
Locked == UNION {releasing[o] : o \in Order}
Free(rows) == rows \cap Locked = {}

PendingOf(o) == {r \in reservations : r.order = o /\ Pending(r)}
\* BUG: the reaper collects one tick early.
LapsingRows == {r \in reservations : Pending(r) /\ Lapsed(r, now + 1)}

LapsedRows   == {r \in reservations : Pending(r) /\ Lapsed(r, now)}

(* The line a Reserve transaction is working on.                           *)
Current(o) == lines[o][next[o]]

-----------------------------------------------------------------------------
(* POST /stock-ins.                                                        *)
StockIn(p, q) ==
  /\ stock[p] + q <= MaxStock
  /\ stock' = [stock EXCEPT ![p] = @ + q]
  /\ UNCHANGED <<now, reservations, reserveVars, compVars>>

(* POST /reservations.  BEGIN fixes now() for the whole transaction.       *)
BeginReserve(o, req) ==
  /\ pc[o] = "new"
  /\ pc' = [pc EXCEPT ![o] = "lock"]
  /\ lines' = [lines EXCEPT ![o] = req]
  /\ began' = [began EXCEPT ![o] = now]
  /\ UNCHANGED <<now, stock, reservations, next, writes, holder, compVars>>

\* BUG: no lock is taken before the availability is read.
SkipLock(o) ==
  /\ pc[o] = "lock"
  /\ pc' = [pc EXCEPT ![o] = "check"]
  /\ UNCHANGED <<now, stock, reservations, lines, next, began, writes, holder, compVars>>

(* pg_advisory_xact_lock: waits while another transaction holds it.        *)
LockProduct(o) ==
  /\ pc[o] = "lock"
  /\ holder[Current(o).product] \in {NULL, o}
  /\ holder' = [holder EXCEPT ![Current(o).product] = o]
  /\ pc' = [pc EXCEPT ![o] = "check"]
  /\ UNCHANGED <<now, stock, reservations, lines, next, began, writes, compVars>>

\* BUG: pg_advisory_lock, which survives the transaction.
EndReserveKeepingLocks(o, outcome) ==
  /\ pc' = [pc EXCEPT ![o] = outcome]
  /\ writes' = [writes EXCEPT ![o] = {}]
  /\ lines' = [lines EXCEPT ![o] = <<>>]
  /\ next' = [next EXCEPT ![o] = 1]
  /\ began' = [began EXCEPT ![o] = 0]
  /\ UNCHANGED <<now, stock, holder, compVars>>

(* The end of a transaction, whatever its outcome: its advisory locks go   *)
(* and its uncommitted rows are either committed or forgotten.             *)
EndReserve(o, outcome) ==
  /\ pc' = [pc EXCEPT ![o] = outcome]
  /\ holder' = [p \in Product |-> IF holder[p] = o THEN NULL ELSE holder[p]]
  /\ writes' = [writes EXCEPT ![o] = {}]
  /\ lines' = [lines EXCEPT ![o] = <<>>]
  /\ next' = [next EXCEPT ![o] = 1]
  /\ began' = [began EXCEPT ![o] = 0]
  /\ UNCHANGED <<now, stock, compVars>>

Enough(o) ==
  AvailableQty(Current(o).product, reservations \cup writes[o], began[o])
    >= Current(o).quantity

CheckAvailable(o) ==
  /\ pc[o] = "check"
  /\ Enough(o)
  /\ pc' = [pc EXCEPT ![o] = "insert"]
  /\ UNCHANGED <<now, stock, reservations, lines, next, began, writes, holder, compVars>>

\* BUG: no transaction around the lines: the earlier ones stay.
RefuseLine(o) ==
  /\ pc[o] = "check"
  /\ ~Enough(o)
  /\ EndReserve(o, "refused")
  /\ reservations' = reservations \cup writes[o]

(* ErrInsufficientStock: the deferred rollback undoes the earlier lines.   *)
Refuse(o) ==
  /\ pc[o] = "check"
  /\ ~Enough(o)
  /\ EndReserve(o, "refused")
  /\ UNCHANGED reservations

NewRow(o) ==
  [order |-> o, line |-> next[o],
   product |-> Current(o).product, quantity |-> Current(o).quantity,
   createdAt |-> began[o], confirmedAt |-> NULL,
   released |-> FALSE, expired |-> FALSE, cancelled |-> FALSE]

InsertReservation(o) ==
  /\ pc[o] = "insert"
  /\ writes' = [writes EXCEPT ![o] = @ \cup {NewRow(o)}]
  /\ next' = [next EXCEPT ![o] = @ + 1]
  /\ pc' = [pc EXCEPT ![o] = IF next[o] < Len(lines[o]) THEN "lock" ELSE "commit"]
  /\ UNCHANGED <<now, stock, reservations, lines, began, holder, compVars>>

CommitReserve(o) ==
  /\ pc[o] = "commit"
  /\ reservations' = reservations \cup writes[o]
  /\ EndReserve(o, "reserved")

(* A statement fails, the client goes away and cancels the context, or the *)
(* server dies: nothing of the transaction remains.                        *)
FailReserve(o) ==
  /\ pc[o] \in Active
  /\ EndReserve(o, "failed")
  /\ UNCHANGED reservations

(* PostgreSQL breaks a cycle of waits by failing one transaction of it.    *)
Blocker(o) ==
  IF pc[o] = "lock" /\ holder[Current(o).product] # o
    THEN holder[Current(o).product] ELSE NULL

InDeadlock(o) ==
  \E S \in SUBSET Order : o \in S /\ {Blocker(w) : w \in S} = S

BreakDeadlock(o) ==
  /\ InDeadlock(o)
  /\ EndReserve(o, "failed")
  /\ UNCHANGED reservations

-----------------------------------------------------------------------------
(* The statements that set the outcome of committed rows.                  *)

\* BUG: only one row of the order is confirmed.
ConfirmOneReservation(o) ==
  /\ Free(PendingOf(o))
  /\ \E r \in PendingOf(o) :
       reservations' = (reservations \ {r}) \cup {[r EXCEPT !.confirmedAt = now]}
  /\ UNCHANGED <<now, stock, reserveVars, compVars>>

(* payment.settled, delivered any number of times.                         *)
ConfirmReservationsByOrder(o) ==
  /\ Free(PendingOf(o))
  /\ reservations' =
       {IF r \in PendingOf(o) THEN [r EXCEPT !.confirmedAt = now] ELSE r : r \in reservations}
  /\ UNCHANGED <<now, stock, reserveVars, compVars>>

(* DELETE /reservations/{orderId}: the order service abandons a checkout.  *)
ReleaseReservationsByOrder(o) ==
  /\ Free(PendingOf(o))
  /\ reservations' =
       {IF r \in PendingOf(o) THEN [r EXCEPT !.released = TRUE] ELSE r : r \in reservations}
  /\ UNCHANGED <<now, stock, reserveVars, compVars>>

(* The reaper's statement, run every minute.                               *)
ExpireReservations ==
  /\ Free(LapsedRows)
  /\ reservations' =
       {IF r \in LapsedRows THEN [r EXCEPT !.expired = TRUE] ELSE r : r \in reservations}
  /\ UNCHANGED <<now, stock, reserveVars, compVars>>

(* order.cancelled, delivered any number of times: CompensateByOrder is a  *)
(* transaction of two UPDATEs.  The first releases what is pending; its    *)
(* rows stay locked until the commit.                                      *)
CompensateRelease(o) ==
  /\ compPc[o] = "idle"
  /\ Free(PendingOf(o))
  /\ compPc' = [compPc EXCEPT ![o] = "cancel"]
  /\ releasing' = [releasing EXCEPT ![o] = PendingOf(o)]
  /\ UNCHANGED <<now, stock, reservations, reserveVars, acked>>

\* BUG: the second UPDATE is missing.
CompensateOnlyPending(o) ==
  /\ compPc[o] = "cancel"
  /\ reservations' =
       {IF r \in releasing[o] THEN [r EXCEPT !.released = TRUE] ELSE r : r \in reservations}
  /\ compPc' = [compPc EXCEPT ![o] = "idle"]
  /\ releasing' = [releasing EXCEPT ![o] = {}]
  /\ acked' = acked \cup {o}
  /\ UNCHANGED <<now, stock, reserveVars>>

(* The second cancels what is confirmed by now; then the commit, and the   *)
(* consumer acks the message.                                              *)
CompensateCancel(o) ==
  /\ compPc[o] = "cancel"
  /\ reservations' =
       {CASE r \in releasing[o] -> [r EXCEPT !.released = TRUE]
          [] r.order = o /\ Sold(r) -> [r EXCEPT !.cancelled = TRUE]
          [] OTHER -> r : r \in reservations}
  /\ compPc' = [compPc EXCEPT ![o] = "idle"]
  /\ releasing' = [releasing EXCEPT ![o] = {}]
  /\ acked' = acked \cup {o}
  /\ UNCHANGED <<now, stock, reserveVars>>

\* BUG: the error path returns without a rollback.
CompensateFailHoldingRows(o) ==
  /\ compPc[o] = "cancel"
  /\ compPc' = [compPc EXCEPT ![o] = "idle"]
  /\ UNCHANGED <<now, stock, reservations, reserveVars, releasing, acked>>

(* The transaction rolls back; the message is not acked and comes again.   *)
CompensateFail(o) ==
  /\ compPc[o] = "cancel"
  /\ compPc' = [compPc EXCEPT ![o] = "idle"]
  /\ releasing' = [releasing EXCEPT ![o] = {}]
  /\ UNCHANGED <<now, stock, reservations, reserveVars, acked>>

Tick ==
  /\ now < MaxTime
  /\ now' = now + 1
  /\ UNCHANGED <<stock, reservations, reserveVars, compVars>>

-----------------------------------------------------------------------------
Reserve(o) ==
  \/ LockProduct(o)
  \/ CheckAvailable(o)
  \/ Refuse(o)
  \/ InsertReservation(o)
  \/ CommitReserve(o)
  \/ BreakDeadlock(o)

Next ==
  \/ Tick
  \/ ExpireReservations
  \/ \E p \in Product, q \in 1..MaxStock : StockIn(p, q)
  \/ \E o \in Order :
       \/ \E req \in Request : BeginReserve(o, req)
       \/ Reserve(o)
       \/ FailReserve(o)
       \/ ConfirmReservationsByOrder(o)
       \/ ReleaseReservationsByOrder(o)
       \/ CompensateRelease(o)
       \/ CompensateCancel(o)
       \/ CompensateFail(o)

Spec == Init /\ [][Next]_vars

(* What runs to its end once started.  A request the server has accepted   *)
(* and a compensation transaction take their next step; the worker restarts*)
(* the reaper.  The reaper's UPDATE queues on the row locks it meets, so it*)
(* gets them although others take them again: strong fairness.  So does a  *)
(* compensation: redelivery outlasts a transient fault (sqsx.go,           *)
(* maxReceiveCount), it does not fail every time.                          *)
Fairness ==
  /\ SF_vars(ExpireReservations)
  /\ \A o \in Order : WF_vars(Reserve(o)) /\ SF_vars(CompensateCancel(o))

FairSpec == Spec /\ Fairness

-----------------------------------------------------------------------------
(* GET /availability/{productId}.                                          *)
Available(p) == AvailableQty(p, reservations, now)

(* Reservation.state as ListReservationsByOrder derives it.                *)
StateOf(r) ==
  CASE r.cancelled -> "cancelled"
    [] ~r.cancelled /\ r.confirmedAt # NULL -> "confirmed"
    [] r.confirmedAt = NULL /\ r.released -> "released"
    [] r.confirmedAt = NULL /\ ~r.released /\ r.expired -> "expired"
    [] OTHER -> "pending"

StatesOf(o) == {StateOf(r) : r \in OfOrder(o, reservations)}

(* The state of the order's reservation as a whole.                        *)
Status(o) ==
  IF StatesOf(o) = {} THEN "none"
  ELSE IF \E s \in StatesOf(o) : StatesOf(o) = {s} THEN CHOOSE s \in StatesOf(o) : TRUE
  ELSE "mixed"

Lifecycle == INSTANCE ReservationLifecycle WITH status <- [o \in Order |-> Status(o)]

(* The rows of an order live and die together, each order once: the        *)
(* statements of the API, the consumers and the reaper, in any order and   *)
(* repeated, implement the life cycle of a reservation.                    *)
LifecycleSpec == Lifecycle!Spec

(* The CHECK constraints reservations_one_outcome and                      *)
(* reservations_cancel_after_confirm never have to refuse a statement.     *)
OneOutcome ==
  \A r \in reservations :
    /\ ~(r.released /\ r.expired)
    /\ r.confirmedAt # NULL => ~r.released /\ ~r.expired
    /\ r.cancelled => r.confirmedAt # NULL

(* A Reserve call that did not succeed leaves no row behind, so that the   *)
(* order service need not release after a 409 ("rollback で確保が残らない  *)
(* ため解放は不要", order_write.go).                                       *)
OnlyReservedHasRows ==
  \A o \in Order : OfOrder(o, reservations) # {} => pc[o] = "reserved"

(* The units of p sold by confirmations that came after the time to live.  *)
LateUnits(p) ==
  Units({r \in OfProduct(p, reservations) : Sold(r) /\ Lapsed(r, r.confirmedAt)})

(* However Reserve calls, events and the reaper interleave, stock is       *)
(* oversold at most by the units of late confirmations: the advisory locks *)
(* and the availability sum leave no other way.                            *)
OversoldOnlyByLateConfirm ==
  \A p \in Product : Available(p) + Cardinality(LateUnits(p)) >= 0

(* Stock is never sold twice (ADR 202606262000; reaper.go: "台帳追記が遅れ *)
(* ても売り越しはしない").                                                 *)
NoOversell == \A p \in Product : Available(p) >= 0

(* The reaper only records what the availability sum already knows: when   *)
(* rows expire no availability changes.                                    *)
Expired == {<<r.order, r.line>> : r \in {x \in reservations : x.expired}}
ReaperIsInvisible ==
  [][Expired' # Expired => \A p \in Product : Available(p)' = Available(p)]_vars

(* When the cancellation of an order is acked none of its rows is sold,    *)
(* also when the payment's confirmation ran between the two UPDATEs.       *)
NothingSoldAtAck ==
  [][\A o \in acked' \ acked : \A r \in OfOrder(o, reservations') : ~Sold(r)]_vars

(* Every accepted Reserve call ends, also when two calls lock the same     *)
(* products in opposite orders.                                            *)
ReserveEnds == \A o \in Order : pc[o] \in Active ~> pc[o] \in Ended

(* A reservation whose time to live has passed does not stay pending.      *)
LapsedIsReaped ==
  \A o \in Order :
    (\E r \in PendingOf(o) : Lapsed(r, now)) ~> ~(\E r \in PendingOf(o) : Lapsed(r, now))
=============================================================================
