------------------------------- MODULE Orders -------------------------------
(***************************************************************************)
(* The order service, statement by statement: concurrent requests over the *)
(* tables orders, order_items and outbox, and the products the checkout    *)
(* reads from the product service while their prices change.               *)
(*                                                                         *)
(* Every action is one SQL statement, one commit or one call to another    *)
(* service.  A request that fails, or whose process crashes, rolls its     *)
(* transaction back: in PostgreSQL its locks and its uncommitted rows are  *)
(* gone.  What the reservation and the payment of a checkout do in their   *)
(* services is in OrderSaga; here they answer.                             *)
(***************************************************************************)
EXTENDS Catalog, FiniteSets, Sequences

CONSTANTS
  Request,   \* requests; each is served once, by a goroutine of its own
  Cart,      \* the lines POST /checkout may carry
  Status,    \* the statuses PUT /orders/{id} and POST /orders may carry
  MaxOrder,  \* bound on orders.id
  MaxCheckout, \* bound on the checkouts that run at a time
  Half32,    \* int32 holds -Half32 .. Half32 - 1
  Half64     \* int64 holds -Half64 .. Half64 - 1

Id    == 1..MaxOrder
Line  == [product : Product, quantity : Nat \ {0}]
Int32 == -Half32 .. Half32 - 1
Int64 == -Half64 .. Half64 - 1
Stored == Status \cup {"confirmed", "cancelled"}
Item  == [product : Product, price : Int, quantity : Int32]

ASSUME OrdersAssumption ==
  /\ Cart \subseteq Seq(Line) /\ \A cart \in Cart : cart # <<>>
  /\ MaxOrder \in Nat /\ Half32 \in Nat \ {0} /\ Half64 \in Nat \ {0}
  /\ NULL \notin Request /\ NULL \notin Stored

VARIABLES
  orders,    \* orders.status of each row, NULL without a row
  items,     \* order_items of each order
  lastId,    \* the last value the identity column has given out
  outbox,    \* how many order.cancelled rows each order has in the outbox
  forced,    \* history: the orders PUT or POST has given the status "cancelled"
  lock,      \* who holds the row lock of each order
  pc,        \* where each request stands
  id,        \* the order it works on
  cart,      \* checkout: the lines of its body
  lines,     \* checkout: the lines priced so far
  total,     \* checkout: totalCents
  seen,      \* cancel: the order row it has read
  answer     \* GET: the items it has answered with

tableVars    == <<orders, items, lastId, outbox>>
checkoutVars == <<cart, lines, total>>
readVars     == <<seen, answer>>
vars == <<prices, tableVars, forced, lock, pc, id, checkoutVars, readVars>>

Waiting == {"fetch", "insert", "items", "reserve", "pay", "release", "refuse",
            "abandon", "get", "cancel", "check"}
Answers == {"created", "read", "updated", "cancelled", "refused", "failed"}

TypeOK ==
  /\ CatalogTypeOK
  /\ orders \in [Id -> Stored \cup {NULL}]
  /\ items \in [Id -> Seq(Item)]
  /\ lastId \in 0..MaxOrder
  /\ outbox \in [Id -> Nat]
  /\ forced \subseteq Id
  /\ lock \in [Id -> Request \cup {NULL}]
  /\ pc \in [Request -> {"new"} \cup Waiting \cup Answers]
  /\ id \in [Request -> Id \cup {0}]
  /\ cart \in [Request -> Cart \cup {<<>>}]
  /\ lines \in [Request -> Seq(Item)]
  /\ total \in [Request -> Int64]
  /\ seen \in [Request -> Stored \cup {NULL}]
  /\ answer \in [Request -> Seq(Item)]

Init ==
  /\ CatalogInit
  /\ orders = [o \in Id |-> NULL]
  /\ items = [o \in Id |-> <<>>]
  /\ lastId = 0
  /\ outbox = [o \in Id |-> 0]
  /\ forced = {}
  /\ lock = [o \in Id |-> NULL]
  /\ pc = [r \in Request |-> "new"]
  /\ id = [r \in Request |-> 0]
  /\ cart = [r \in Request |-> <<>>]
  /\ lines = [r \in Request |-> <<>>]
  /\ total = [r \in Request |-> 0]
  /\ seen = [r \in Request |-> NULL]
  /\ answer = [r \in Request |-> <<>>]

-----------------------------------------------------------------------------
(* Go's conversions to a narrower integer, and the overflow of a sum.      *)
Wrap(n, half) == ((n + half) % (2 * half)) - half

Goes(r, from, to) ==
  /\ pc[r] = from
  /\ pc' = [pc EXCEPT ![r] = to]

Free(o) == lock[o] = NULL

(* What the goroutine of a request that ends without success knew is gone. *)
Forget(r) ==
  /\ cart' = [cart EXCEPT ![r] = <<>>]
  /\ lines' = [lines EXCEPT ![r] = <<>>]
  /\ total' = [total EXCEPT ![r] = 0]
  /\ seen' = [seen EXCEPT ![r] = NULL]

(* An error, a lost connection or a crash ends the request; the deferred   *)
(* Rollback, or the server closing the connection, frees the row it locked.*)
Fail(r) ==
  /\ pc[r] \in Waiting
  /\ pc' = [pc EXCEPT ![r] = "failed"]
  /\ lock' = [o \in Id |-> IF lock[o] = r THEN NULL ELSE lock[o]]
  /\ Forget(r)
  /\ UNCHANGED <<prices, tableVars, forced, id, answer>>

-----------------------------------------------------------------------------
(* POST /orders: a row without items.                                      *)
CreateOrder(r, status) ==
  /\ lastId < MaxOrder
  /\ Goes(r, "new", "created")
  /\ lastId' = lastId + 1
  /\ orders' = [orders EXCEPT ![lastId + 1] = status]
  /\ id' = [id EXCEPT ![r] = lastId + 1]
  /\ forced' = IF status = "cancelled" THEN forced \cup {lastId + 1} ELSE forced
  /\ UNCHANGED <<prices, items, outbox, lock, checkoutVars, readVars>>

(* PUT /orders/{id}: one UPDATE, which waits for the row lock.             *)
UpdateOrder(r, o, status) ==
  /\ Free(o)
  /\ \/ /\ orders[o] # NULL
        /\ Goes(r, "new", "updated")
        /\ orders' = [orders EXCEPT ![o] = status]
        /\ forced' = IF status = "cancelled" THEN forced \cup {o} ELSE forced
     \/ /\ orders[o] = NULL
        /\ Goes(r, "new", "refused")
        /\ UNCHANGED <<orders, forced>>
  /\ UNCHANGED <<prices, items, lastId, outbox, lock, id, checkoutVars, readVars>>

-----------------------------------------------------------------------------
(* GET /orders/{id}: the row, then its items, in two statements without a  *)
(* transaction.                                                            *)
GetOrder(r, o) ==
  /\ id' = [id EXCEPT ![r] = o]
  /\ Goes(r, "new", IF orders[o] = NULL THEN "refused" ELSE "get")
  /\ UNCHANGED <<prices, tableVars, forced, lock, checkoutVars, readVars>>

GetOrderItems(r) ==
  /\ Goes(r, "get", "read")
  /\ answer' = [answer EXCEPT ![r] = items[id[r]]]
  /\ UNCHANGED <<prices, tableVars, forced, lock, id, checkoutVars, seen>>

-----------------------------------------------------------------------------
(* POST /orders/{id}/cancel: it reads the row FOR UPDATE ...               *)
BeginCancel(r, o) ==
  /\ Goes(r, "new", "cancel")
  /\ id' = [id EXCEPT ![r] = o]
  /\ UNCHANGED <<prices, tableVars, forced, lock, checkoutVars, readVars>>

\* BUG: the row is read without FOR UPDATE.
GetOrderUnlocked(r) ==
  /\ Goes(r, "cancel", "check")
  /\ orders[id[r]] # NULL
  /\ seen' = [seen EXCEPT ![r] = orders[id[r]]]
  /\ UNCHANGED <<prices, tableVars, forced, lock, id, checkoutVars, answer>>

GetOrderForUpdate(r) ==
  LET o == id[r] IN
  /\ pc[r] = "cancel" /\ Free(o)
  /\ \/ /\ Goes(r, "cancel", "refused")
        /\ orders[o] = NULL
        /\ UNCHANGED <<lock, seen>>
     \/ /\ Goes(r, "cancel", "check")
        /\ orders[o] # NULL
        /\ lock' = [lock EXCEPT ![o] = r]
        /\ seen' = [seen EXCEPT ![r] = orders[o]]
  /\ UNCHANGED <<prices, tableVars, forced, id, checkoutVars, answer>>

Cancellable(status) == status \notin {"shipped", "cancelled"}

\* BUG: the event is dispatched outside the transaction, and its error dropped.
CancelOrderThenDispatch(r) ==
  LET o == id[r] IN
  /\ Goes(r, "check", "cancelled")
  /\ orders' = [orders EXCEPT ![o] = "cancelled"]
  /\ outbox' \in {outbox, [outbox EXCEPT ![o] = @ + 1]}
  /\ lock' = [lock EXCEPT ![o] = NULL]
  /\ UNCHANGED <<prices, forced, items, lastId, id, checkoutVars, readVars>>

\* BUG: an order that is cancelled already is answered without the Rollback.
CancelOrderKeepingLock(r) ==
  LET o == id[r] IN
  /\ \/ /\ Goes(r, "check", "cancelled")
        /\ Cancellable(seen[r])
        /\ orders' = [orders EXCEPT ![o] = "cancelled"]
        /\ outbox' = [outbox EXCEPT ![o] = @ + 1]
        /\ lock' = [lock EXCEPT ![o] = NULL]
     \/ /\ Goes(r, "check", IF seen[r] = "shipped" THEN "refused" ELSE "cancelled")
        /\ ~Cancellable(seen[r])
        /\ UNCHANGED <<orders, outbox, lock>>
  /\ UNCHANGED <<prices, forced, items, lastId, id, checkoutVars, readVars>>

(* ... and decides on what it read: the transition and its event commit    *)
(* together, and every return ends the transaction.                        *)
CancelOrder(r) ==
  LET o == id[r] IN
  /\ \/ /\ Goes(r, "check", "cancelled")
        /\ Cancellable(seen[r])
        /\ orders' = [orders EXCEPT ![o] = "cancelled"]
        /\ outbox' = [outbox EXCEPT ![o] = @ + 1]
     \/ /\ Goes(r, "check", IF seen[r] = "shipped" THEN "refused" ELSE "cancelled")
        /\ ~Cancellable(seen[r])
        /\ UNCHANGED <<orders, outbox>>
  /\ lock' = [lock EXCEPT ![o] = IF @ = r THEN NULL ELSE @]
  /\ UNCHANGED <<prices, forced, items, lastId, id, checkoutVars, readVars>>

-----------------------------------------------------------------------------
(* POST /checkout.  The price of each line is fetched on its own, so two   *)
(* lines may see prices of two moments.                                    *)
BeginCheckout(r, body) ==
  /\ Cardinality({q \in Request : cart[q] # <<>>}) < MaxCheckout
  /\ Goes(r, "new", "fetch")
  /\ cart' = [cart EXCEPT ![r] = body]
  /\ UNCHANGED <<prices, tableVars, forced, lock, id, lines, total, readVars>>

\* BUG: the quantity of a line is stored as it came.
PricedWide(line) == [product |-> line.product, price |-> GetProduct(line.product),
                     quantity |-> line.quantity]

(* The quantity is narrowed to 32 bits for the line and for the            *)
(* reservation, and multiplied into the total with 64.                     *)
Priced(line) == [product |-> line.product, price |-> GetProduct(line.product),
                 quantity |-> Wrap(line.quantity, Half32)]

\* BUG: the total is computed in 32 bits.
TotalWith32(sum, line) == Wrap(sum + GetProduct(line.product) * line.quantity, Half32)

TotalWith(sum, line) == Wrap(sum + GetProduct(line.product) * line.quantity, Half64)

FetchProduct(r) ==
  LET line == cart[r][Len(lines[r]) + 1] IN
  /\ \/ /\ Goes(r, "fetch", IF Len(lines[r]) + 1 = Len(cart[r]) THEN "insert" ELSE "fetch")
        /\ line.product \in ListProducts
        /\ lines' = [lines EXCEPT ![r] = Append(@, Priced(line))]
        /\ total' = [total EXCEPT ![r] = TotalWith(@, line)]
        /\ UNCHANGED <<cart, seen>>
     \/ /\ Goes(r, "fetch", "refused")
        /\ line.product \notin ListProducts
        /\ Forget(r)
  /\ UNCHANGED <<prices, tableVars, forced, lock, id, answer>>

\* BUG: the row is inserted through the pool instead of the transaction.
InsertOrderOutside(r) ==
  /\ lastId < MaxOrder
  /\ Goes(r, "insert", "items")
  /\ lastId' = lastId + 1
  /\ id' = [id EXCEPT ![r] = lastId + 1]
  /\ orders' = [orders EXCEPT ![lastId + 1] = "confirmed"]
  /\ UNCHANGED <<prices, forced, items, outbox, lock, checkoutVars, readVars>>

\* BUG: the id is counted from the rows instead of taken from a sequence.
InsertOrderCounted(r) ==
  LET next == Cardinality({o \in Id : orders[o] # NULL}) + 1 IN
  /\ next \in Id
  /\ Goes(r, "insert", "items")
  /\ lastId' = next
  /\ id' = [id EXCEPT ![r] = next]
  /\ UNCHANGED <<prices, forced, orders, items, outbox, lock, checkoutVars, readVars>>

(* The transaction of the checkout: the order row, whose id is taken from  *)
(* the sequence for good, then its items and the commit.                   *)
InsertOrder(r) ==
  /\ lastId < MaxOrder
  /\ Goes(r, "insert", "items")
  /\ lastId' = lastId + 1
  /\ id' = [id EXCEPT ![r] = lastId + 1]
  /\ UNCHANGED <<prices, forced, orders, items, outbox, lock, checkoutVars, readVars>>

(* An INSERT fails when the sequence has reached its end, here MaxOrder.   *)
OutOfIds(r) == pc[r] = "insert" /\ lastId = MaxOrder /\ Fail(r)

CommitCheckout(r) ==
  /\ Goes(r, "items", "reserve")
  /\ orders' = [orders EXCEPT ![id[r]] = "confirmed"]
  /\ items' = [items EXCEPT ![id[r]] = lines[r]]
  /\ UNCHANGED <<prices, forced, lastId, outbox, lock, id, checkoutVars, readVars>>

(* The inventory service refuses a quantity that is not positive (400),    *)
(* which the checkout takes for an error; so is everything but 201 and 409.*)
Reservable(r) == \A i \in 1..Len(lines[r]) : lines[r][i].quantity > 0

Reserve(r) ==
  /\ \/ Goes(r, "reserve", "pay") /\ Reservable(r)
     \/ Goes(r, "reserve", "refuse")
     \/ Goes(r, "reserve", "release")
  /\ UNCHANGED <<prices, tableVars, forced, lock, id, checkoutVars, readVars>>

(* The payment service refuses a negative amount (422).                    *)
CreatePayment(r) ==
  /\ \/ Goes(r, "pay", "created") /\ total[r] >= 0
     \/ Goes(r, "pay", "release")
  /\ UNCHANGED <<prices, tableVars, forced, lock, id, checkoutVars, readVars>>

(* abandonCheckout: the reservation is released, or the order is kept and  *)
(* the error returned (Fail); then the order is deleted.                   *)
Release(r) ==
  /\ Goes(r, "release", "abandon")
  /\ UNCHANGED <<prices, tableVars, forced, lock, id, checkoutVars, readVars>>

(* DELETE of the row and, by ON DELETE CASCADE, of its items.              *)
DeleteOrder(r) ==
  LET o == id[r] IN
  /\ pc[r] \in {"refuse", "abandon"} /\ Free(o)
  /\ Goes(r, "refuse", "refused") \/ Goes(r, "abandon", "failed")
  /\ orders' = [orders EXCEPT ![o] = NULL]
  /\ items' = [items EXCEPT ![o] = <<>>]
  /\ Forget(r)
  /\ UNCHANGED <<prices, forced, lastId, outbox, lock, id, answer>>

-----------------------------------------------------------------------------
CatalogStep ==
  /\ \E p \in Product, c \in Cents : CreateProduct(p, c) \/ UpdateProduct(p, c)
  /\ UNCHANGED <<tableVars, forced, lock, pc, id, checkoutVars, readVars>>

Arrive(r) ==
  \/ \E s \in Status : CreateOrder(r, s)
  \/ \E o \in Id, s \in Status : UpdateOrder(r, o, s)
  \/ \E o \in Id : BeginCancel(r, o) \/ GetOrder(r, o)
  \/ \E body \in Cart : BeginCheckout(r, body)

Serve(r) ==
  \/ GetOrderItems(r)
  \/ GetOrderForUpdate(r) \/ CancelOrder(r)
  \/ FetchProduct(r) \/ InsertOrder(r) \/ OutOfIds(r) \/ CommitCheckout(r)
  \/ Reserve(r) \/ CreatePayment(r) \/ Release(r) \/ DeleteOrder(r)

Next ==
  \/ CatalogStep
  \/ \E r \in Request : Arrive(r) \/ Serve(r) \/ Fail(r)

Spec == Init /\ [][Next]_vars

(* A request is a goroutine: it goes on while its next step can be taken.  *)
FairSpec == Spec /\ \A r \in Request : WF_vars(Serve(r))

-----------------------------------------------------------------------------
(* Two cancellations of one order that run at the same time emit one       *)
(* order.cancelled between them: an event is committed only together with  *)
(* the change of an order that could be cancelled (GetOrderForUpdate).     *)
CancelOnce ==
  [][\A o \in Id : outbox'[o] # outbox[o] =>
       /\ outbox'[o] = outbox[o] + 1
       /\ orders[o] # NULL /\ Cancellable(orders[o])
       /\ orders' = [orders EXCEPT ![o] = "cancelled"]]_vars

(* A cancellation that was answered with 200 has its event in the outbox,  *)
(* whoever emitted it, unless PUT or POST /orders wrote the status and the *)
(* cancellation found it cancelled already (CancelOrder's early return).   *)
CancelAnswered ==
  \A r \in Request : pc[r] = "cancelled" => outbox[id[r]] > 0 \/ id[r] \in forced

(* A GET that found the row answers with all the items of the order,       *)
(* although it reads them in a second statement; only an order deleted in  *)
(* between is answered without them (GetOrder, Checkout's transaction).    *)
ReadIsWhole ==
  \A r \in Request :
    pc[r] = "read" /\ orders[id[r]] # NULL => answer[r] = items[id[r]]

(* A checkout is accepted only with positive quantities on its lines and a *)
(* total that is not negative, whatever the widths of the integers did to  *)
(* the quantities that were asked for; and the total is the sum of the     *)
(* lines as long as every quantity asked for fits 32 bits.                 *)
LineSum(s) ==
  LET sum[n \in 0..Len(s)] == IF n = 0 THEN 0 ELSE sum[n - 1] + s[n].price * s[n].quantity
  IN  sum[Len(s)]

AcceptedIsConsistent ==
  \A r \in Request : pc[r] = "created" /\ cart[r] # <<>> =>
    /\ total[r] >= 0
    /\ \A i \in 1..Len(lines[r]) : lines[r][i].quantity > 0
    /\ (\A i \in 1..Len(cart[r]) : cart[r][i].quantity \in Int32)
       => total[r] = Wrap(LineSum(lines[r]), Half64)

(* The service keeps the promises of OrderLifecycle: whatever rolls back or*)
(* is deleted between other requests' statements, an id names one order for*)
(* ever, an order answered with 201 stays, and only the cancellation of an *)
(* order that can be cancelled tells the topic of it.                      *)
Gone == {o \in 1..lastId : orders[o] = NULL /\ \A r \in Request : pc[r] = "items" => id[r] # o}

Life == INSTANCE OrderLifecycle WITH
  Order <- Id, Status <- Stored, status <- orders, gone <- Gone,
  accepted <- {id[r] : r \in {q \in Request : pc[q] = "created"}},
  told <- {o \in Id : outbox[o] > 0}

ImplementsLifecycle == Life!Spec

(* Every request is answered: no transaction keeps a row lock that another *)
(* request is waiting for.                                                 *)
EveryRequestEnds == \A r \in Request : pc[r] \in Waiting ~> pc[r] \in Answers
=============================================================================
