---------------------------- MODULE OrdersProofs ----------------------------
(***************************************************************************)
(* Proofs about Orders for every number of requests, products, orders and  *)
(* every width of the integers.  The argument: the row lock that   *)
(* GetOrderForUpdate takes keeps what a cancellation has read true until   *)
(* it commits, and an id of the sequence belongs to one transaction, so    *)
(* that the row of a checkout appears once, with its items, and never      *)
(* again after its DELETE.                                                 *)
(***************************************************************************)
EXTENDS Orders, TLAPS, WellFoundedInduction

(* A cancellation that has read its row holds the lock, and the row is     *)
(* still what it read.                                                     *)
CheckHolds == \A r \in Request : pc[r] = "check" =>
  /\ id[r] \in Id
  /\ lock[id[r]] = r
  /\ orders[id[r]] = seen[r]
  /\ seen[r] # NULL

(* An id that a running checkout has taken has no row yet, and one that has *)
(* a row, or was read, has been given out.                                 *)
RowsAreGivenOut == \A o \in Id : orders[o] # NULL => o <= lastId

TakenHasNoRow == \A r \in Request : pc[r] = "items" =>
  id[r] \in 1..lastId /\ orders[id[r]] = NULL

ReadIsGivenOut == \A r \in Request : pc[r] \in {"get", "read"} => id[r] \in 1..lastId

TakenOnce == \A r, q \in Request :
  r # q /\ pc[q] = "items" /\ pc[r] \in {"items", "get", "read"} => id[r] # id[q]

IdsOnce == RowsAreGivenOut /\ TakenHasNoRow /\ ReadIsGivenOut /\ TakenOnce

(* A request that reads or cancels an order was sent for one.              *)
Targets == \A r \in Request :
  pc[r] \in {"get", "read", "cancel", "check", "cancelled"} => id[r] \in Id

(* A row that is cancelled has its event, or PUT or POST wrote the status. *)
CancelledHasEvent == \A o \in Id : orders[o] = "cancelled" => outbox[o] > 0 \/ o \in forced

(* The lines of a checkout are priced from the first to the last.          *)
Pricing == \A r \in Request :
  /\ pc[r] = "new" => lines[r] = <<>>
  /\ pc[r] = "fetch" => cart[r] \in Cart /\ Len(lines[r]) < Len(cart[r])

IInv == TypeOK /\ Pricing /\ CheckHolds /\ IdsOnce /\ Targets /\ CancelledHasEvent
          /\ CancelAnswered /\ ReadIsWhole

-----------------------------------------------------------------------------
LEMMA NullIsNobody == NULL \notin Request /\ NULL # "cancelled"
  BY OrdersAssumption DEF Stored

(* Narrowing an integer gives one of that width.                           *)
LEMMA WrapType ==
  ASSUME NEW n \in Int, NEW half \in Nat \ {0}
  PROVE  Wrap(n, half) \in -half .. half - 1
  <1>1. (n + half) % (2 * half) \in 0 .. 2 * half - 1  OBVIOUS
  <1> QED  BY <1>1 DEF Wrap

(* A line is priced with a price of the catalogue and a 32 bit quantity.   *)
LEMMA PricedType ==
  ASSUME CatalogTypeOK, NEW line \in Line, line.product \in ListProducts, NEW sum \in Int
  PROVE  Priced(line) \in Item /\ TotalWith(sum, line) \in Int64
  <1>1. prices[line.product] \in Int
    BY CatalogAssumption DEF CatalogTypeOK, ListProducts, Line
  <1>2. line.quantity \in Int  BY DEF Line
  <1>3. Wrap(line.quantity, Half32) \in Int32
    BY <1>2, WrapType, OrdersAssumption DEF Int32
  <1>4. Priced(line) \in Item
    BY <1>1, <1>3 DEF Priced, Item, GetProduct, Line
  <1>5. prices[line.product] * line.quantity \in Int  BY <1>1, <1>2
  <1>6. sum + prices[line.product] * line.quantity \in Int  BY <1>5
  <1>7. TotalWith(sum, line) \in Int64
    BY <1>6, WrapType, OrdersAssumption DEF TotalWith, Int64, GetProduct
  <1> QED  BY <1>4, <1>7

(* No step breaks a type; the step that prices a line finds it in the cart.*)
LEMMA TypeStep == TypeOK /\ Pricing /\ Targets /\ [Next]_vars => TypeOK' /\ Pricing' /\ Targets'
  <1> SUFFICES ASSUME TypeOK, Pricing, Targets, [Next]_vars  PROVE TypeOK' /\ Pricing' /\ Targets'
    OBVIOUS
  <1> USE DEF TypeOK, Pricing, Targets, Goes, Forget
  <1>0. Half64 \in Nat \ {0} /\ 0 \in Int64 /\ Cart \subseteq Seq(Line) /\ \A c \in Cart : c # <<>>
    BY OrdersAssumption DEF Int64
  <1>a. <<>> \in Seq(Item)  OBVIOUS
  <1>b. lastId < MaxOrder => lastId + 1 \in Id /\ lastId + 1 \in 0..MaxOrder
    BY OrdersAssumption DEF Id
  <1>1. CASE UNCHANGED vars
    BY <1>1 DEF vars, tableVars, checkoutVars, readVars, CatalogTypeOK
  <1>2. CASE CatalogStep
    <2>1. PICK p \in Product, c \in Cents : c >= 0 /\ prices' = [prices EXCEPT ![p] = c]
      BY <1>2 DEF CatalogStep, CreateProduct, UpdateProduct
    <2>2. CatalogTypeOK'
      BY <2>1, CatalogAssumption DEF CatalogTypeOK
    <2> QED  BY <1>2, <2>2 DEF CatalogStep, tableVars, checkoutVars, readVars
  <1>F. ASSUME NEW r \in Request, Fail(r)  PROVE TypeOK' /\ Pricing' /\ Targets'
    BY <1>0, <1>F DEF Fail, tableVars, CatalogTypeOK, Waiting, Answers
  <1>3. ASSUME NEW r \in Request, Arrive(r)  PROVE TypeOK' /\ Pricing' /\ Targets'
    <2>1. ASSUME NEW s \in Status, CreateOrder(r, s)  PROVE TypeOK' /\ Pricing' /\ Targets'
      <3>1. orders' \in [Id -> Stored \cup {NULL}] /\ forced' \subseteq Id /\ lastId' \in 0..MaxOrder
        BY <1>b, <2>1 DEF CreateOrder, Stored
      <3>2. id' \in [Request -> Id \cup {0}] /\ \A q \in Request \ {r} : id'[q] = id[q]
        BY <1>b, <2>1 DEF CreateOrder
      <3> QED  BY <2>1, <3>1, <3>2 DEF CreateOrder, checkoutVars, readVars, CatalogTypeOK, Answers
    <2>2. ASSUME NEW o \in Id, NEW s \in Status, UpdateOrder(r, o, s)  PROVE TypeOK' /\ Pricing' /\ Targets'
      <3>1. /\ orders' = orders \/ orders' = [orders EXCEPT ![o] = s]
            /\ forced' = forced \/ forced' = forced \cup {o}
        BY <2>2 DEF UpdateOrder
      <3>3. orders' \in [Id -> Stored \cup {NULL}]  BY <3>1 DEF Stored
      <3>4. forced' \subseteq Id  BY <3>1
      <3>2. \E a \in {"updated", "refused"} : pc' = [pc EXCEPT ![r] = a]
        BY <2>2 DEF UpdateOrder
      <3> QED  BY <2>2, <3>2, <3>3, <3>4 DEF UpdateOrder, checkoutVars, readVars, CatalogTypeOK, Answers
    <2>3. ASSUME NEW o \in Id, BeginCancel(r, o)  PROVE TypeOK' /\ Pricing' /\ Targets'
      BY <2>3 DEF BeginCancel, tableVars, checkoutVars, readVars, CatalogTypeOK, Waiting
    <2>4. ASSUME NEW o \in Id, GetOrder(r, o)  PROVE TypeOK' /\ Pricing' /\ Targets'
      BY <2>4 DEF GetOrder, tableVars, checkoutVars, readVars, CatalogTypeOK, Waiting, Answers
    <2>5. ASSUME NEW body \in Cart, BeginCheckout(r, body)  PROVE TypeOK' /\ Pricing' /\ Targets'
      <3>1. Len(lines[r]) < Len(body)
        BY <1>0, <2>5 DEF BeginCheckout
      <3> QED  BY <1>0, <2>5, <3>1 DEF BeginCheckout, tableVars, readVars, CatalogTypeOK, Waiting
    <2> QED  BY <1>3, <2>1, <2>2, <2>3, <2>4, <2>5 DEF Arrive
  <1>4. ASSUME NEW r \in Request, Serve(r)  PROVE TypeOK' /\ Pricing' /\ Targets'
    <2>1. CASE GetOrderItems(r)
      BY <2>1 DEF GetOrderItems, tableVars, checkoutVars, CatalogTypeOK, Answers
    <2>2. CASE GetOrderForUpdate(r)
      <3>1. /\ id[r] \in Id
            /\ lock' = lock \/ lock' = [lock EXCEPT ![id[r]] = r]
            /\ seen' = seen \/ seen' = [seen EXCEPT ![r] = orders[id[r]]]
        BY <2>2 DEF GetOrderForUpdate
      <3>4. lock' \in [Id -> Request \cup {NULL}] /\ seen' \in [Request -> Stored \cup {NULL}]
        BY <3>1
      <3>2. \E a \in {"refused", "check"} : pc' = [pc EXCEPT ![r] = a]
        BY <2>2 DEF GetOrderForUpdate
      <3>3. pc[r] = "cancel"  BY <2>2 DEF GetOrderForUpdate
      <3> QED  BY <2>2, <3>2, <3>3, <3>4 DEF GetOrderForUpdate, tableVars, checkoutVars, CatalogTypeOK,
        Waiting, Answers
    <2>3. CASE CancelOrder(r)
      <3>1. /\ id[r] \in Id
            /\ orders' = orders \/ orders' = [orders EXCEPT ![id[r]] = "cancelled"]
            /\ outbox' = outbox \/ outbox' = [outbox EXCEPT ![id[r]] = @ + 1]
            /\ lock' = [lock EXCEPT ![id[r]] = IF @ = r THEN NULL ELSE @]
        BY <2>3 DEF CancelOrder
      <3>3. orders' \in [Id -> Stored \cup {NULL}]  BY <3>1 DEF Stored
      <3>6. outbox[id[r]] + 1 \in Nat  BY <3>1
      <3>4. outbox' \in [Id -> Nat]  BY <3>1, <3>6, Zenon
      <3>5. lock' \in [Id -> Request \cup {NULL}]  BY <3>1
      <3>2. \E a \in {"refused", "cancelled"} : pc' = [pc EXCEPT ![r] = a]
        BY <2>3 DEF CancelOrder
      <3> QED  BY <2>3, <3>2, <3>3, <3>4, <3>5 DEF CancelOrder, checkoutVars, readVars, CatalogTypeOK, Answers
    <2>4. CASE FetchProduct(r)
      <3> DEFINE line == cart[r][Len(lines[r]) + 1]
      <3>1. cart[r] \in Seq(Line) /\ Len(lines[r]) < Len(cart[r]) /\ Len(lines[r]) \in Nat
        BY <1>0, <2>4 DEF FetchProduct
      <3>2. line \in Line  BY <3>1
      <3>3. CASE /\ pc' = [pc EXCEPT ![r] = IF Len(lines[r]) + 1 = Len(cart[r]) THEN "insert" ELSE "fetch"]
                 /\ line.product \in ListProducts
                 /\ lines' = [lines EXCEPT ![r] = Append(@, Priced(line))]
                 /\ total' = [total EXCEPT ![r] = TotalWith(@, line)]
                 /\ UNCHANGED <<cart, seen>>
        <4>1. Priced(line) \in Item /\ TotalWith(total[r], line) \in Int64
          BY <3>2, <3>3, PricedType DEF Int64
        <4> HIDE DEF line
        <4>2. lines' \in [Request -> Seq(Item)] /\ total' \in [Request -> Int64]
          BY <3>3, <4>1
        <4>3. lines'[r] = Append(lines[r], Priced(line)) /\ \A q \in Request \ {r} : lines'[q] = lines[q]
          BY <3>3
        <4>4. Len(lines'[r]) = Len(lines[r]) + 1
          BY <4>1, <4>3
        <4>5. Pricing'
          <5>1. pc'[r] = "fetch" => Len(lines'[r]) < Len(cart'[r]) /\ cart'[r] \in Cart
            BY <2>4, <3>1, <3>3, <4>4 DEF FetchProduct
          <5>2. pc'[r] # "new"  BY <3>3
          <5> QED  BY <3>3, <4>3, <5>1, <5>2
        <4> QED  BY <2>4, <3>3, <4>2, <4>5 DEF FetchProduct, tableVars, CatalogTypeOK, Waiting, Answers
      <3>4. CASE pc' = [pc EXCEPT ![r] = "refused"] /\ Forget(r)
        BY <1>0, <2>4, <3>4 DEF FetchProduct, tableVars, CatalogTypeOK, Waiting, Answers
      <3> QED  BY <2>4, <3>3, <3>4 DEF FetchProduct
    <2>5. CASE InsertOrder(r)
      <3>1. id' \in [Request -> Id \cup {0}] /\ lastId' \in 0..MaxOrder
        BY <1>b, <2>5 DEF InsertOrder
      <3> QED  BY <2>5, <3>1 DEF InsertOrder, checkoutVars, readVars, CatalogTypeOK, Waiting
    <2>6. CASE OutOfIds(r)
      BY <2>6, <1>F DEF OutOfIds
    <2>7. CASE CommitCheckout(r)
      BY <2>7 DEF CommitCheckout, checkoutVars, readVars, CatalogTypeOK, Waiting, Stored
    <2>8. CASE Reserve(r) \/ CreatePayment(r) \/ Release(r)
      BY <2>8 DEF Reserve, CreatePayment, Release, tableVars, checkoutVars, readVars, CatalogTypeOK,
        Waiting, Answers
    <2>9. CASE DeleteOrder(r)
      <3>1. orders' \in [Id -> Stored \cup {NULL}] /\ items' \in [Id -> Seq(Item)]
        BY <1>a, <2>9 DEF DeleteOrder
      <3>2. \E a \in {"refused", "failed"} : pc' = [pc EXCEPT ![r] = a]
        BY <2>9 DEF DeleteOrder
      <3>3. Forget(r)  BY <2>9 DEF DeleteOrder
      <3> QED  BY <1>0, <2>9, <3>1, <3>2, <3>3 DEF DeleteOrder, CatalogTypeOK, Answers
    <2> QED  BY <1>4, <2>1, <2>2, <2>3, <2>4, <2>5, <2>6, <2>7, <2>8, <2>9 DEF Serve
  <1> QED  BY <1>1, <1>2, <1>F, <1>3, <1>4 DEF Next

-----------------------------------------------------------------------------
Rest == CheckHolds /\ IdsOnce /\ CancelledHasEvent /\ CancelAnswered /\ ReadIsWhole

LEMMA InitIInv == Init => IInv
  <1> SUFFICES ASSUME Init  PROVE IInv
    OBVIOUS
  <1>0. <<>> \in Seq(Item) /\ 0 \in Int64 /\ 0 \in 0..MaxOrder
    BY OrdersAssumption DEF Int64
  <1>1. TypeOK
    BY <1>0 DEF Init, CatalogInit, CatalogTypeOK, TypeOK
  <1>2. Pricing /\ Targets /\ CheckHolds /\ IdsOnce
    BY DEF Init, Pricing, Targets, CheckHolds, IdsOnce, RowsAreGivenOut, TakenHasNoRow,
      ReadIsGivenOut, TakenOnce
  <1>3. CancelledHasEvent /\ CancelAnswered /\ ReadIsWhole
    BY NullIsNobody DEF Init, CancelledHasEvent, CancelAnswered, ReadIsWhole
  <1> QED  BY <1>1, <1>2, <1>3 DEF IInv

(* Requests that touch no table keep what the others rely on.              *)
LEMMA RestStep ==
  ASSUME IInv, Next, TypeOK', Targets'
  PROVE  Rest'
  <1> USE DEF IInv, Rest, TypeOK, Targets, Goes, CheckHolds, IdsOnce, CancelledHasEvent, CancelAnswered,
        ReadIsWhole, RowsAreGivenOut, TakenHasNoRow, ReadIsGivenOut, TakenOnce
  <1>0. NULL \notin Request /\ NULL # "cancelled" /\ Id = 1..MaxOrder /\ lastId \in Nat
    BY NullIsNobody, OrdersAssumption DEF Id
  <1>1. CASE CatalogStep
    BY <1>1 DEF CatalogStep, tableVars, readVars
  <1>2. ASSUME NEW r \in Request, Fail(r)  PROVE Rest'
    BY <1>0, <1>2 DEF Fail, Forget, tableVars, Waiting
  <1>3. ASSUME NEW r \in Request, NEW s \in Status, CreateOrder(r, s)  PROVE Rest'
    BY <1>0, <1>3 DEF CreateOrder, readVars
  <1>4. ASSUME NEW r \in Request, NEW o \in Id, NEW s \in Status, UpdateOrder(r, o, s)  PROVE Rest'
    <2>1. CheckHolds'  BY <1>0, <1>4 DEF UpdateOrder, readVars, Free
    <2>2. IdsOnce'
      <3>1. RowsAreGivenOut'  BY <1>0, <1>4 DEF UpdateOrder, readVars, Free
      <3>2. TakenHasNoRow'  BY <1>0, <1>4 DEF UpdateOrder, readVars, Free
      <3>3. ReadIsGivenOut'  BY <1>0, <1>4 DEF UpdateOrder, readVars, Free
      <3>4. TakenOnce'
        <4>1. \A q \in Request :
                /\ pc'[q] = "items" => pc[q] = "items"
                /\ pc'[q] \in {"items", "get", "read"} => pc[q] \in {"items", "get", "read"}
          BY <1>0, <1>4 DEF UpdateOrder, readVars, Free
        <4>2. id' = id  BY <1>0, <1>4 DEF UpdateOrder, readVars, Free
        <4> QED  BY <4>1, <4>2
      <3> QED  BY <3>1, <3>2, <3>3, <3>4
    <2>3. CancelledHasEvent'
      <3>1. outbox' = outbox  BY <1>4 DEF UpdateOrder
      <3>2. \/ orders' = orders /\ forced' = forced
            \/ /\ orders' = [orders EXCEPT ![o] = s]
               /\ forced' = IF s = "cancelled" THEN forced \cup {o} ELSE forced
        BY <1>4 DEF UpdateOrder
      <3> QED  BY <3>1, <3>2
    <2>4. CancelAnswered'  BY <1>0, <1>4 DEF UpdateOrder, readVars, Free
    <2>5. ReadIsWhole'  BY <1>0, <1>4 DEF UpdateOrder, readVars, Free
    <2> QED  BY <2>1, <2>2, <2>3, <2>4, <2>5
  <1>5. ASSUME NEW r \in Request, NEW o \in Id, BeginCancel(r, o)  PROVE Rest'
    BY <1>0, <1>5 DEF BeginCancel, readVars, tableVars
  <1>6. ASSUME NEW r \in Request, NEW o \in Id, GetOrder(r, o)  PROVE Rest'
    <2>1. CheckHolds' /\ ReadIsWhole'  BY <1>0, <1>6 DEF GetOrder, readVars, tableVars
    <2>2. IdsOnce'  BY <1>0, <1>6 DEF GetOrder, readVars, tableVars
    <2>3. CancelledHasEvent' /\ CancelAnswered'  BY <1>0, <1>6 DEF GetOrder, readVars, tableVars
    <2> QED  BY <2>1, <2>2, <2>3
  <1>7. ASSUME NEW r \in Request, NEW body \in Cart, BeginCheckout(r, body)  PROVE Rest'
    BY <1>0, <1>7 DEF BeginCheckout, readVars, tableVars
  <1>8. ASSUME NEW r \in Request, GetOrderItems(r)  PROVE Rest'
    BY <1>0, <1>8 DEF GetOrderItems, tableVars
  <1>9. ASSUME NEW r \in Request, GetOrderForUpdate(r)  PROVE Rest'
    <2>1. CheckHolds'  BY <1>0, <1>9 DEF GetOrderForUpdate, tableVars, Free
    <2>2. IdsOnce'
      <3>1. RowsAreGivenOut'  BY <1>0, <1>9 DEF GetOrderForUpdate, tableVars, Free
      <3>2. TakenHasNoRow'  BY <1>0, <1>9 DEF GetOrderForUpdate, tableVars, Free
      <3>3. ReadIsGivenOut'  BY <1>0, <1>9 DEF GetOrderForUpdate, tableVars, Free
      <3>4. TakenOnce'
        <4>1. \A q \in Request :
                /\ pc'[q] = "items" => pc[q] = "items"
                /\ pc'[q] \in {"items", "get", "read"} => pc[q] \in {"items", "get", "read"}
          BY <1>0, <1>9 DEF GetOrderForUpdate, tableVars, Free
        <4>2. id' = id  BY <1>0, <1>9 DEF GetOrderForUpdate, tableVars, Free
        <4> QED  BY <4>1, <4>2
      <3> QED  BY <3>1, <3>2, <3>3, <3>4
    <2>3. CancelledHasEvent'  BY <1>0, <1>9 DEF GetOrderForUpdate, tableVars, Free
    <2>4. CancelAnswered'  BY <1>0, <1>9 DEF GetOrderForUpdate, tableVars, Free
    <2>5. ReadIsWhole'  BY <1>0, <1>9 DEF GetOrderForUpdate, tableVars, Free
    <2> QED  BY <2>1, <2>2, <2>3, <2>4, <2>5
  <1>10. ASSUME NEW r \in Request, CancelOrder(r)  PROVE Rest'
    <2>1. CheckHolds'  BY <1>0, <1>10 DEF CancelOrder, readVars, Cancellable
    <2>2. IdsOnce'
      <3>1. RowsAreGivenOut'
        <4>1. /\ orders' = orders \/ orders' = [orders EXCEPT ![id[r]] = "cancelled"]
              /\ orders[id[r]] # NULL /\ lastId' = lastId
          BY <1>10 DEF CancelOrder
        <4>2. orders \in [Id -> Stored \cup {NULL}] /\ RowsAreGivenOut
          OBVIOUS
        <4>3. \A o \in Id : orders'[o] # NULL => orders[o] # NULL  BY <4>1, <4>2, Zenon
        <4> QED  BY <4>1, <4>2, <4>3
      <3>2. TakenHasNoRow'  BY <1>0, <1>10 DEF CancelOrder, readVars, Cancellable
      <3>3. ReadIsGivenOut'  BY <1>0, <1>10 DEF CancelOrder, readVars, Cancellable
      <3>4. TakenOnce'
        <4>1. \A q \in Request :
                /\ pc'[q] = "items" => pc[q] = "items"
                /\ pc'[q] \in {"items", "get", "read"} => pc[q] \in {"items", "get", "read"}
          BY <1>0, <1>10 DEF CancelOrder, readVars, Cancellable
        <4>2. id' = id  BY <1>0, <1>10 DEF CancelOrder, readVars, Cancellable
        <4> QED  BY <4>1, <4>2
      <3> QED  BY <3>1, <3>2, <3>3, <3>4
    <2>3. CancelledHasEvent'  BY <1>0, <1>10 DEF CancelOrder, readVars, Cancellable
    <2>4. CancelAnswered'
      <3>1. id[r] \in Id /\ id' = id /\ forced' = forced  BY <1>10 DEF CancelOrder
      <3>6. outbox' = outbox \/ outbox' = [outbox EXCEPT ![id[r]] = @ + 1]
        BY <1>10 DEF CancelOrder
      <3>7. outbox \in [Id -> Nat]  OBVIOUS
      <3>2. \A o \in Id : outbox[o] > 0 => outbox'[o] > 0
        <4> TAKE o \in Id
        <4>1. outbox[o] \in Nat  BY <3>7
        <4>2. outbox'[o] = outbox[o] \/ outbox'[o] = outbox[o] + 1  BY <3>6, <3>7
        <4> QED  BY <4>1, <4>2
      <3>3. \A q \in Request \ {r} : pc'[q] = pc[q]  BY <1>10 DEF CancelOrder
      <3>4. pc'[r] = "cancelled" => orders'[id[r]] = "cancelled"
        BY <1>0, <1>10, <3>1 DEF CancelOrder, Cancellable
      <3>5. pc'[r] = "cancelled" => outbox'[id[r]] > 0 \/ id[r] \in forced
        BY <2>3, <3>1, <3>4
      <3>8. \A q \in Request : q # r /\ pc'[q] = "cancelled" => pc[q] = "cancelled" /\ id[q] \in Id
        BY <3>3
      <3> QED  BY <3>1, <3>2, <3>5, <3>8
    <2>5. ReadIsWhole'  BY <1>0, <1>10 DEF CancelOrder, readVars, Cancellable
    <2> QED  BY <2>1, <2>2, <2>3, <2>4, <2>5
  <1>11. ASSUME NEW r \in Request, FetchProduct(r)  PROVE Rest'
    <2>1. CheckHolds'  BY <1>0, <1>11 DEF FetchProduct, Forget, tableVars
    <2>2. IdsOnce'
      <3>1. RowsAreGivenOut'  BY <1>0, <1>11 DEF FetchProduct, Forget, tableVars
      <3>2. TakenHasNoRow'  BY <1>0, <1>11 DEF FetchProduct, Forget, tableVars
      <3>3. ReadIsGivenOut'  BY <1>0, <1>11 DEF FetchProduct, Forget, tableVars
      <3>4. TakenOnce'
        <4>1. \A q \in Request :
                /\ pc'[q] = "items" => pc[q] = "items"
                /\ pc'[q] \in {"items", "get", "read"} => pc[q] \in {"items", "get", "read"}
          BY <1>0, <1>11 DEF FetchProduct, Forget, tableVars
        <4>2. id' = id  BY <1>0, <1>11 DEF FetchProduct, Forget, tableVars
        <4> QED  BY <4>1, <4>2
      <3> QED  BY <3>1, <3>2, <3>3, <3>4
    <2>3. CancelledHasEvent'  BY <1>0, <1>11 DEF FetchProduct, Forget, tableVars
    <2>4. CancelAnswered'  BY <1>0, <1>11 DEF FetchProduct, Forget, tableVars
    <2>5. ReadIsWhole'  BY <1>0, <1>11 DEF FetchProduct, Forget, tableVars
    <2> QED  BY <2>1, <2>2, <2>3, <2>4, <2>5
  <1>12. ASSUME NEW r \in Request, InsertOrder(r)  PROVE Rest'
    BY <1>0, <1>12 DEF InsertOrder, readVars
  <1>13. ASSUME NEW r \in Request, CommitCheckout(r)  PROVE Rest'
    BY <1>0, <1>13 DEF CommitCheckout, readVars
  <1>14. ASSUME NEW r \in Request, Reserve(r) \/ CreatePayment(r) \/ Release(r)  PROVE Rest'
    <2>1. CheckHolds'  BY <1>0, <1>14 DEF Reserve, CreatePayment, Release, readVars, tableVars
    <2>2. IdsOnce'
      <3>1. RowsAreGivenOut'  BY <1>0, <1>14 DEF Reserve, CreatePayment, Release, readVars, tableVars
      <3>2. TakenHasNoRow'  BY <1>0, <1>14 DEF Reserve, CreatePayment, Release, readVars, tableVars
      <3>3. ReadIsGivenOut'  BY <1>0, <1>14 DEF Reserve, CreatePayment, Release, readVars, tableVars
      <3>4. TakenOnce'
        <4>1. \A q \in Request :
                /\ pc'[q] = "items" => pc[q] = "items"
                /\ pc'[q] \in {"items", "get", "read"} => pc[q] \in {"items", "get", "read"}
          BY <1>0, <1>14 DEF Reserve, CreatePayment, Release, readVars, tableVars
        <4>2. id' = id  BY <1>0, <1>14 DEF Reserve, CreatePayment, Release, readVars, tableVars
        <4> QED  BY <4>1, <4>2
      <3> QED  BY <3>1, <3>2, <3>3, <3>4
    <2>3. CancelledHasEvent'  BY <1>0, <1>14 DEF Reserve, CreatePayment, Release, readVars, tableVars
    <2>4. CancelAnswered'  BY <1>0, <1>14 DEF Reserve, CreatePayment, Release, readVars, tableVars
    <2>5. ReadIsWhole'  BY <1>0, <1>14 DEF Reserve, CreatePayment, Release, readVars, tableVars
    <2> QED  BY <2>1, <2>2, <2>3, <2>4, <2>5
  <1>15. ASSUME NEW r \in Request, DeleteOrder(r)  PROVE Rest'
    <2>1. CheckHolds'  BY <1>0, <1>15 DEF DeleteOrder, Forget, Free
    <2>2. IdsOnce'
      <3>1. RowsAreGivenOut'  BY <1>0, <1>15 DEF DeleteOrder, Forget, Free
      <3>2. TakenHasNoRow'  BY <1>0, <1>15 DEF DeleteOrder, Forget, Free
      <3>3. ReadIsGivenOut'  BY <1>0, <1>15 DEF DeleteOrder, Forget, Free
      <3>4. TakenOnce'
        <4>1. \A q \in Request :
                /\ pc'[q] = "items" => pc[q] = "items"
                /\ pc'[q] \in {"items", "get", "read"} => pc[q] \in {"items", "get", "read"}
          BY <1>0, <1>15 DEF DeleteOrder, Forget, Free
        <4>2. id' = id  BY <1>0, <1>15 DEF DeleteOrder, Forget, Free
        <4> QED  BY <4>1, <4>2
      <3> QED  BY <3>1, <3>2, <3>3, <3>4
    <2>3. CancelledHasEvent'  BY <1>0, <1>15 DEF DeleteOrder, Forget, Free
    <2>4. CancelAnswered'  BY <1>0, <1>15 DEF DeleteOrder, Forget, Free
    <2>5. ReadIsWhole'  BY <1>0, <1>15 DEF DeleteOrder, Forget, Free
    <2> QED  BY <2>1, <2>2, <2>3, <2>4, <2>5
  <1> QED
    BY <1>1, <1>2, <1>3, <1>4, <1>5, <1>6, <1>7, <1>8, <1>9, <1>10, <1>11, <1>12, <1>13, <1>14, <1>15
      DEF Next, Arrive, Serve, OutOfIds

LEMMA Inductive == Spec => []IInv
  <1>1. IInv /\ [Next]_vars => IInv'
    <2> SUFFICES ASSUME IInv, [Next]_vars  PROVE IInv'
      OBVIOUS
    <2>1. TypeOK' /\ Pricing' /\ Targets'  BY TypeStep DEF IInv
    <2>2. CASE UNCHANGED vars
      BY <2>1, <2>2 DEF vars, tableVars, checkoutVars, readVars, IInv, CheckHolds, IdsOnce, RowsAreGivenOut,
        TakenHasNoRow, ReadIsGivenOut, TakenOnce, CancelledHasEvent, CancelAnswered, ReadIsWhole
    <2>3. CASE Next
      BY <2>1, <2>3, RestStep DEF IInv, Rest
    <2> QED  BY <2>2, <2>3
  <1> QED  BY <1>1, InitIInv, PTL DEF Spec

(* Every variable keeps its type: what is stored fits the columns, and the *)
(* total fits 64 bits, whatever quantities and prices are asked for.       *)
THEOREM TypeCorrect == Spec => []TypeOK
  BY Inductive, PTL DEF IInv

(* Any number of cancellations of one order at the same time commit one    *)
(* event for each change of the order to "cancelled" (FOR UPDATE).         *)
THEOREM OneEventPerCancellation == Spec => CancelOnce
  <1>1. IInv /\ [Next]_vars =>
          [\A o \in Id : outbox'[o] # outbox[o] =>
             /\ outbox'[o] = outbox[o] + 1
             /\ orders[o] # NULL /\ Cancellable(orders[o])
             /\ orders' = [orders EXCEPT ![o] = "cancelled"]]_vars
    <2> SUFFICES ASSUME IInv, Next, NEW o \in Id, outbox'[o] # outbox[o]
                 PROVE  /\ outbox'[o] = outbox[o] + 1
                        /\ orders[o] # NULL /\ Cancellable(orders[o])
                        /\ orders' = [orders EXCEPT ![o] = "cancelled"]
      OBVIOUS
    <2>1. PICK r \in Request : CancelOrder(r)
      BY DEF Next, CatalogStep, Arrive, Serve, Fail, OutOfIds, CreateOrder, UpdateOrder, BeginCancel, GetOrder,
        BeginCheckout, GetOrderItems, GetOrderForUpdate, FetchProduct, InsertOrder, CommitCheckout, Reserve,
        CreatePayment, Release, DeleteOrder, tableVars
    <2>2. outbox \in [Id -> Nat]  BY DEF IInv, TypeOK
    <2>3. /\ pc[r] = "check" /\ Cancellable(seen[r])
          /\ outbox' = [outbox EXCEPT ![id[r]] = @ + 1]
          /\ orders' = [orders EXCEPT ![id[r]] = "cancelled"]
      BY <2>1 DEF CancelOrder, Goes
    <2>4. o = id[r]  BY <2>2, <2>3
    <2> QED  BY <2>2, <2>3, <2>4 DEF IInv, CheckHolds
  <1> QED  BY <1>1, Inductive, PTL DEF Spec, CancelOnce

(* A cancellation is not answered with 200 without its event, unless PUT   *)
(* or POST /orders had written "cancelled" before.                         *)
THEOREM CancelAnsweredHolds == Spec => []CancelAnswered
  BY Inductive, PTL DEF IInv

(* GET /orders/{id} never shows a checkout without its items while the     *)
(* order exists, although it reads the two tables in two statements.       *)
THEOREM ReadIsWholeHolds == Spec => []ReadIsWhole
  BY Inductive, PTL DEF IInv

-----------------------------------------------------------------------------
(* A set of naturals that holds 0 and the successor of each of its members *)
(* is the set of all.                                                      *)
LEMMA Induction ==
  ASSUME NEW S \in SUBSET Nat, 0 \in S, \A n \in S : n + 1 \in S
  PROVE  S = Nat
  <1> SUFFICES ASSUME Nat \ S # {}  PROVE FALSE
    OBVIOUS
  <1>1. PICK m \in Nat \ S : \A k \in Nat \ S : ~ (<<k, m>> \in OpToRel(<, Nat))
    BY NatLessThanWellFounded, WFMin
  <1>2. m - 1 \in S
    <2>1. m # 0 /\ m \in Nat  OBVIOUS
    <2>2. m - 1 \in Nat /\ m - 1 < m  BY <2>1
    <2>3. <<m - 1, m>> \in OpToRel(<, Nat)  BY <2>1, <2>2 DEF OpToRel
    <2> QED  BY <1>1, <2>2, <2>3
  <1>3. (m - 1) + 1 \in S  BY <1>2
  <1> QED  BY <1>3

-----------------------------------------------------------------------------
(* The arithmetic of a total that overflows.                               *)
LEMMA SmallMultiple ==
  ASSUME NEW m \in Nat \ {0}, NEW d \in Int, -m < m * d, m * d < m
  PROVE  d = 0
  <1>1. ASSUME d >= 1  PROVE FALSE
    <2>1. m * d = m * (d - 1) + m  OBVIOUS
    <2>2. m * (d - 1) >= 0  BY <1>1
    <2> QED  BY <2>1, <2>2
  <1>2. ASSUME d <= -1  PROVE FALSE
    <2>1. m * d = m * (d + 1) - m  OBVIOUS
    <2>2. m * (d + 1) <= 0
      <3>1. m * (- (d + 1)) >= 0  BY <1>2
      <3>2. m * (d + 1) = - (m * (- (d + 1)))  OBVIOUS
      <3> QED  BY <3>1, <3>2
    <2> QED  BY <2>1, <2>2
  <1> QED  BY <1>1, <1>2

LEMMA DivMod ==
  ASSUME NEW a \in Int, NEW m \in Nat \ {0}
  PROVE  \E q \in Int : a = m * q + (a % m)
  <1>1. a = m * (a \div m) + (a % m)  OBVIOUS
  <1>2. a \div m \in Int  OBVIOUS
  <1> QED  BY <1>1, <1>2

LEMMA ModIsUnique ==
  ASSUME NEW a \in Int, NEW m \in Nat \ {0}, NEW q \in Int, NEW x \in 0..m - 1, a = m * q + x
  PROVE  a % m = x
  <1>1. PICK p \in Int : a = m * p + (a % m)  BY DivMod
  <1>2. a % m \in 0..m - 1  OBVIOUS
  <1>3. m * (q - p) = m * q - m * p  OBVIOUS
  <1>4. q - p = 0
    <2>1. m * q \in Int /\ m * p \in Int  OBVIOUS
    <2>2. -m < m * (q - p) /\ m * (q - p) < m  BY <1>1, <1>2, <1>3, <2>1
    <2>3. q - p \in Int  OBVIOUS
    <2> QED  BY <2>2, <2>3, SmallMultiple
  <1>5. q = p  BY <1>4
  <1> QED  BY <1>1, <1>2, <1>5

LEMMA ModOfSum ==
  ASSUME NEW a \in Int, NEW b \in Int, NEW m \in Nat \ {0}
  PROVE  ((a % m) + b) % m = (a + b) % m
  <1>1. PICK p \in Int : a = m * p + (a % m)  BY DivMod
  <1>2. a % m \in Int /\ (a % m) + b \in Int  OBVIOUS
  <1>3. PICK q \in Int : (a % m) + b = m * q + (((a % m) + b) % m)  BY <1>2, DivMod
  <1>4. ((a % m) + b) % m \in 0..m - 1  BY <1>2
  <1>5. a + b = m * (p + q) + (((a % m) + b) % m)
    <2> DEFINE x == ((a % m) + b) % m
    <2>1. m * (p + q) = m * p + m * q  OBVIOUS
    <2>2. m * p \in Int /\ m * q \in Int /\ x \in Int  BY <1>4
    <2>3. a = m * p + (a % m) /\ (a % m) + b = m * q + x  BY <1>1, <1>3
    <2> HIDE DEF x
    <2>4. a + b = m * p + m * q + x  BY <1>2, <2>2, <2>3
    <2>5. a + b = m * (p + q) + x  BY <2>1, <2>4
    <2> QED  BY <2>5 DEF x
  <1>6. a + b \in Int /\ p + q \in Int  OBVIOUS
  <1> QED  BY <1>4, <1>5, <1>6, ModIsUnique

(* Wrapping an addend first makes no difference ...                        *)
LEMMA WrapOfSum ==
  ASSUME NEW a \in Int, NEW b \in Int, NEW half \in Nat \ {0}
  PROVE  Wrap(Wrap(a, half) + b, half) = Wrap(a + b, half)
  <1>1. 2 * half \in Nat \ {0} /\ a + half \in Int  OBVIOUS
  <1>2. (((a + half) % (2 * half)) + b) % (2 * half) = ((a + half) + b) % (2 * half)
    BY <1>1, ModOfSum
  <1>3. (a + half) % (2 * half) \in Int  BY <1>1
  <1>4. Wrap(a, half) + b + half = ((a + half) % (2 * half)) + b  BY <1>3 DEF Wrap
  <1>5. (a + half) + b = a + b + half  OBVIOUS
  <1> QED  BY <1>2, <1>4, <1>5 DEF Wrap

(* ... and a number that fits stays what it is.                            *)
LEMMA WrapOfFitting ==
  ASSUME NEW half \in Nat \ {0}, NEW n \in -half .. half - 1
  PROVE  Wrap(n, half) = n
  <1>1. 2 * half \in Nat \ {0} /\ n + half \in 0 .. (2 * half) - 1 /\ n + half \in Int  OBVIOUS
  <1>2. n + half = (2 * half) * 0 + (n + half)  BY <1>1
  <1>3. (n + half) % (2 * half) = n + half  BY <1>1, <1>2, ModIsUnique
  <1> QED  BY <1>1, <1>3 DEF Wrap

-----------------------------------------------------------------------------
(* The sum of the lines is a recursive function; that it exists, that it   *)
(* depends on the lines it adds only, and its type, by induction on the    *)
(* number of lines.                                                        *)
LineValue(s, n) == s[n].price * s[n].quantity

IsSum(s, n, f) ==
  f = [k \in 0..n |-> IF k = 0 THEN 0 ELSE f[k - 1] + LineValue(s, k)]

LEMMA IsSumPointwise ==
  ASSUME NEW s, NEW n \in Nat, NEW f, IsSum(s, n, f)
  PROVE  /\ f[0] = 0
         /\ \A k \in 0..n : k # 0 => f[k] = f[k - 1] + LineValue(s, k)
  BY DEF IsSum

HasSum(s, n) == \E f : IsSum(s, n, f)

LEMMA SumExists ==
  ASSUME NEW s, NEW n \in Nat
  PROVE  HasSum(s, n)
  <1> DEFINE N == {k \in Nat : HasSum(s, k)}
  <1>1. 0 \in N
    <2> DEFINE f == [k \in 0..0 |-> 0]
    <2>1. \A k \in 0..0 : k = 0  OBVIOUS
    <2>2. IsSum(s, 0, f)  BY <2>1 DEF IsSum
    <2> QED  BY <2>2 DEF HasSum
  <1>2. ASSUME NEW k \in N  PROVE k + 1 \in N
    <2>1. PICK f : IsSum(s, k, f)  BY DEF HasSum
    <2> DEFINE g == [j \in 0..k + 1 |-> IF j = k + 1 THEN f[k] + LineValue(s, k + 1) ELSE f[j]]
    <2>2. k \in Nat  OBVIOUS
    <2>3. ASSUME NEW j \in 0..k + 1
          PROVE  g[j] = IF j = 0 THEN 0 ELSE g[j - 1] + LineValue(s, j)
      <3>1. CASE j = k + 1
        <4>1. g[j] = f[k] + LineValue(s, k + 1)  BY <3>1
        <4>2. j - 1 = k /\ j - 1 \in 0..k + 1 /\ k # k + 1 /\ j # 0  BY <2>2, <3>1
        <4>3. g[j - 1] = f[k]  BY <4>2
        <4> QED  BY <3>1, <4>1, <4>2, <4>3
      <3>2. CASE j # k + 1
        <4>1. j \in 0..k  BY <2>2, <3>2
        <4>2. g[j] = f[j]  BY <3>2
        <4>3. CASE j = 0  BY <2>1, <2>2, <4>2, <4>3, IsSumPointwise
        <4>4. CASE j # 0
          <5>1. j - 1 \in 0..k + 1 /\ j - 1 # k + 1  BY <2>2, <4>1, <4>4
          <5>2. g[j - 1] = f[j - 1]  BY <5>1
          <5> HIDE DEF g
          <5> QED  BY <2>1, <2>2, <4>1, <4>2, <4>4, <5>2, IsSumPointwise
        <4> QED  BY <4>3, <4>4
      <3> QED  BY <3>1, <3>2
    <2>4. g = [j \in 0..k + 1 |-> g[j]]  OBVIOUS
    <2> HIDE DEF g
    <2>5. IsSum(s, k + 1, g)  BY <2>3, <2>4 DEF IsSum
    <2> QED  BY <2>2, <2>5 DEF HasSum
  <1> HIDE DEF N
  <1>3. N = Nat
    <2>1. N \in SUBSET Nat  BY DEF N
    <2> QED  BY <1>1, <1>2, <2>1, Induction
  <1> QED  BY <1>3 DEF N

LEMMA SumIsUnique ==
  ASSUME NEW s, NEW t, NEW n \in Nat, NEW m \in Nat, n <= m,
         \A k \in 1..n : s[k] = t[k],
         NEW f, IsSum(s, n, f), NEW g, IsSum(t, m, g)
  PROVE  f[n] = g[n]
  <1> DEFINE N == {k \in Nat : k <= n => f[k] = g[k]}
  <1>1. 0 \in N  BY IsSumPointwise
  <1>2. ASSUME NEW k \in N  PROVE k + 1 \in N
    <2> SUFFICES ASSUME k + 1 <= n  PROVE f[k + 1] = g[k + 1]
      OBVIOUS
    <2>1. k + 1 \in 0..n /\ k + 1 \in 0..m /\ k + 1 # 0 /\ (k + 1) - 1 = k /\ k + 1 \in 1..n
      OBVIOUS
    <2>2. f[k] = g[k]  OBVIOUS
    <2>3. LineValue(s, k + 1) = LineValue(t, k + 1)  BY <2>1 DEF LineValue
    <2>4. f[k + 1] = f[k] + LineValue(s, k + 1)
      <3>1. f[k + 1] = f[(k + 1) - 1] + LineValue(s, k + 1)  BY <2>1, IsSumPointwise
      <3> QED  BY <2>1, <3>1
    <2>5. g[k + 1] = g[k] + LineValue(t, k + 1)
      <3>1. g[k + 1] = g[(k + 1) - 1] + LineValue(t, k + 1)  BY <2>1, IsSumPointwise
      <3> QED  BY <2>1, <3>1
    <2> QED  BY <2>2, <2>3, <2>4, <2>5
  <1> HIDE DEF N
  <1>3. N = Nat
    <2>1. N \in SUBSET Nat  BY DEF N
    <2> QED  BY <1>1, <1>2, <2>1, Induction
  <1> QED  BY <1>3 DEF N

LEMMA LineSumIs ==
  ASSUME NEW s, Len(s) \in Nat
  PROVE  \E f : IsSum(s, Len(s), f) /\ LineSum(s) = f[Len(s)]
  <1> DEFINE F == CHOOSE f : IsSum(s, Len(s), f)
  <1>1. IsSum(s, Len(s), F)  BY SumExists DEF HasSum
  <1>2. LineSum(s) = F[Len(s)]
    BY DEF LineSum, IsSum, LineValue
  <1> QED  BY <1>1, <1>2

LEMMA LineSumOfNone == LineSum(<<>>) = 0
  <1>1. Len(<<>>) = 0  OBVIOUS
  <1>2. PICK f : IsSum(<<>>, 0, f) /\ LineSum(<<>>) = f[0]  BY <1>1, LineSumIs
  <1> QED  BY <1>2, IsSumPointwise

(* One line more adds its price times its quantity.                        *)
LEMMA LineSumOfAppend ==
  ASSUME NEW s \in Seq(Item), NEW x \in Item
  PROVE  LineSum(Append(s, x)) = LineSum(s) + x.price * x.quantity
  <1> DEFINE t == Append(s, x)
             n == Len(s)
  <1>1. n \in Nat /\ Len(t) = n + 1 /\ t[n + 1] = x /\ \A k \in 1..n : s[k] = t[k]
    OBVIOUS
  <1> HIDE DEF t
  <1>2. PICK f : IsSum(s, n, f) /\ LineSum(s) = f[n]  BY <1>1, LineSumIs
  <1>3. PICK g : IsSum(t, n + 1, g) /\ LineSum(t) = g[n + 1]  BY <1>1, LineSumIs
  <1>4. n + 1 \in Nat /\ n <= n + 1 /\ n + 1 \in 0..n + 1 /\ n + 1 # 0 /\ (n + 1) - 1 = n  BY <1>1
  <1> HIDE DEF n
  <1>5. f[n] = g[n]  BY <1>1, <1>2, <1>3, <1>4, SumIsUnique
  <1>6. g[n + 1] = g[(n + 1) - 1] + LineValue(t, n + 1)  BY <1>3, <1>4, IsSumPointwise
  <1>7. g[n + 1] = g[n] + LineValue(t, n + 1)  BY <1>4, <1>6
  <1>8. LineValue(t, n + 1) = x.price * x.quantity  BY <1>1 DEF LineValue
  <1> QED  BY <1>2, <1>3, <1>5, <1>7, <1>8 DEF t

LEMMA LineSumType ==
  ASSUME NEW s \in Seq(Item)
  PROVE  LineSum(s) \in Int
  <1> DEFINE n == Len(s)
  <1>1. n \in Nat /\ \A k \in 1..n : s[k] \in Item  OBVIOUS
  <1>2. PICK f : IsSum(s, n, f) /\ LineSum(s) = f[n]  BY <1>1, LineSumIs
  <1> HIDE DEF n
  <1> DEFINE N == {k \in Nat : k <= n => f[k] \in Int}
  <1>3. 0 \in N
    <2>1. f[0] = 0  BY <1>1, <1>2, IsSumPointwise
    <2> QED  BY <2>1
  <1>4. ASSUME NEW k \in N  PROVE k + 1 \in N
    <2> SUFFICES ASSUME k + 1 <= n  PROVE f[k + 1] \in Int
      OBVIOUS
    <2>1. k + 1 \in 0..n /\ k + 1 # 0 /\ (k + 1) - 1 = k /\ k + 1 \in 1..n  BY <1>1
    <2>2. f[k] \in Int  BY <1>1
    <2>3. LineValue(s, k + 1) \in Int
      <3>1. s[k + 1].price \in Int /\ s[k + 1].quantity \in Int
        BY <1>1, <2>1 DEF Item, Int32
      <3> QED  BY <3>1 DEF LineValue
    <2>4. f[k + 1] = f[(k + 1) - 1] + LineValue(s, k + 1)  BY <1>1, <1>2, <2>1, IsSumPointwise
    <2> QED  BY <2>1, <2>2, <2>3, <2>4
  <1> HIDE DEF N
  <1>5. N = Nat
    <2>1. N \in SUBSET Nat  BY DEF N
    <2> QED  BY <1>3, <1>4, <2>1, Induction
  <1> QED  BY <1>1, <1>2, <1>5 DEF N

-----------------------------------------------------------------------------
(* What a checkout knows of its lines: a request starts with nothing, the  *)
(* total is the sum of the lines priced so far while the quantities asked  *)
(* for fit, and beyond the reservation every quantity is positive.         *)
CartFits(r) == \A i \in 1..Len(cart[r]) : cart[r][i].quantity \in Int32

Accounts == \A r \in Request :
  /\ pc[r] = "new" => cart[r] = <<>> /\ total[r] = 0
  /\ pc[r] = "pay" => Reservable(r)
  /\ pc[r] = "created" /\ cart[r] # <<>> => total[r] >= 0 /\ Reservable(r)
  /\ CartFits(r) => total[r] = Wrap(LineSum(lines[r]), Half64)

LEMMA WrapZero == Wrap(0, Half64) = 0
  <1>1. 0 \in -Half64 .. Half64 - 1  BY OrdersAssumption
  <1> QED  BY <1>1, WrapOfFitting, OrdersAssumption

(* The total of a checkout keeps up with its lines.                        *)
LEMMA PricedSum ==
  ASSUME CatalogTypeOK, NEW line \in Line, line.product \in ListProducts, line.quantity \in Int32,
         NEW s \in Seq(Item), NEW sum, sum = Wrap(LineSum(s), Half64)
  PROVE  TotalWith(sum, line) = Wrap(LineSum(Append(s, Priced(line))), Half64)
  <1>1. prices[line.product] \in Int
    BY CatalogAssumption DEF CatalogTypeOK, ListProducts, Line
  <1>2. line.quantity \in Int  BY DEF Line
  <1>3. Wrap(line.quantity, Half32) = line.quantity
    BY WrapOfFitting, OrdersAssumption DEF Int32
  <1>4. Priced(line) \in Item  BY PricedType
  <1>5. LineSum(Append(s, Priced(line))) = LineSum(s) + Priced(line).price * Priced(line).quantity
    BY <1>4, LineSumOfAppend
  <1>6. Priced(line).price = prices[line.product] /\ Priced(line).quantity = line.quantity
    BY <1>3 DEF Priced, GetProduct
  <1>7. LineSum(s) \in Int  BY LineSumType
  <1>8. prices[line.product] * line.quantity \in Int  BY <1>1, <1>2
  <1>9. Half64 \in Nat \ {0}  BY OrdersAssumption
  <1>10. Wrap(Wrap(LineSum(s), Half64) + prices[line.product] * line.quantity, Half64)
           = Wrap(LineSum(s) + prices[line.product] * line.quantity, Half64)
    BY <1>7, <1>8, <1>9, WrapOfSum
  <1> QED  BY <1>5, <1>6, <1>10 DEF TotalWith, GetProduct

LEMMA InitAccounts == Init => Accounts
  BY WrapZero, LineSumOfNone DEF Init, Accounts, Waiting

LEMMA AccountsStep == TypeOK /\ Pricing /\ Accounts /\ [Next]_vars => Accounts'
  <1> SUFFICES ASSUME TypeOK, Pricing, Accounts, [Next]_vars  PROVE Accounts'
    OBVIOUS
  <1> USE DEF TypeOK, Accounts, Goes, Reservable, CartFits
  <1>0. Wrap(LineSum(<<>>), Half64) = 0  BY WrapZero, LineSumOfNone
  <1>F. ASSUME NEW r \in Request, Forget(r), NEW a \in Answers \ {"created"}, pc' = [pc EXCEPT ![r] = a]
        PROVE Accounts'
    BY <1>0, <1>F DEF Forget, Answers
  <1>1. CASE UNCHANGED vars
    BY <1>1 DEF vars, checkoutVars
  <1>2. CASE CatalogStep
    BY <1>2 DEF CatalogStep, checkoutVars
  <1>3. ASSUME NEW r \in Request, Fail(r)  PROVE Accounts'
    BY <1>3, <1>F DEF Fail, Answers
  <1>4. ASSUME NEW r \in Request, Arrive(r)  PROVE Accounts'
    <2>1. ASSUME NEW s \in Status, CreateOrder(r, s)  PROVE Accounts'
      BY <2>1 DEF CreateOrder, checkoutVars
    <2>2. ASSUME NEW o \in Id, NEW s \in Status, UpdateOrder(r, o, s)  PROVE Accounts'
      BY <2>2 DEF UpdateOrder, checkoutVars
    <2>3. ASSUME NEW o \in Id, BeginCancel(r, o) \/ GetOrder(r, o)  PROVE Accounts'
      BY <2>3 DEF BeginCancel, GetOrder, checkoutVars
    <2>4. ASSUME NEW body \in Cart, BeginCheckout(r, body)  PROVE Accounts'
      <3>1. lines[r] = <<>> /\ total[r] = 0 /\ lines' = lines /\ total' = total
        BY <2>4 DEF BeginCheckout, Pricing
      <3>2. /\ cart' = [cart EXCEPT ![r] = body] /\ pc' = [pc EXCEPT ![r] = "fetch"]
        BY <2>4 DEF BeginCheckout
      <3> QED  BY <1>0, <3>1, <3>2
    <2> QED  BY <1>4, <2>1, <2>2, <2>3, <2>4 DEF Arrive
  <1>5. ASSUME NEW r \in Request, Serve(r)  PROVE Accounts'
    <2>1. CASE GetOrderItems(r) \/ GetOrderForUpdate(r) \/ CancelOrder(r) \/ InsertOrder(r)
               \/ CommitCheckout(r) \/ Release(r)
      <3>1. /\ checkoutVars' = checkoutVars
            /\ \E a \in {"read", "refused", "check", "cancelled", "items", "reserve", "abandon"} :
                 pc' = [pc EXCEPT ![r] = a]
        BY <2>1 DEF GetOrderItems, GetOrderForUpdate, CancelOrder, InsertOrder, CommitCheckout, Release
      <3> QED  BY <3>1 DEF checkoutVars
    <2>2. CASE FetchProduct(r)
      <3> DEFINE line == cart[r][Len(lines[r]) + 1]
      <3>1. pc[r] = "fetch"  BY <2>2 DEF FetchProduct
      <3>2. CASE Forget(r) /\ pc' = [pc EXCEPT ![r] = "refused"]
        BY <3>2, <1>F DEF Answers
      <3>3. CASE /\ pc' = [pc EXCEPT ![r] = IF Len(lines[r]) + 1 = Len(cart[r]) THEN "insert" ELSE "fetch"]
                 /\ line.product \in ListProducts
                 /\ lines' = [lines EXCEPT ![r] = Append(@, Priced(line))]
                 /\ total' = [total EXCEPT ![r] = TotalWith(@, line)]
                 /\ UNCHANGED <<cart, seen>>
        <4>1. cart[r] \in Seq(Line) /\ Len(lines[r]) < Len(cart[r]) /\ Len(lines[r]) \in Nat
          BY <3>1, OrdersAssumption DEF Pricing
        <4>2. Len(lines[r]) + 1 \in 1..Len(cart[r]) /\ line \in Line  BY <4>1
        <4>3. CartFits(r) => line.quantity \in Int32  BY <4>2
        <4>4. CartFits(r)' = CartFits(r)  BY <3>3
        <4>5. ASSUME CartFits(r)  PROVE total'[r] = Wrap(LineSum(lines'[r]), Half64)
          <5>1. total[r] = Wrap(LineSum(lines[r]), Half64)  BY <4>5
          <5>2. lines[r] \in Seq(Item) /\ CatalogTypeOK  OBVIOUS
          <5>3. line.quantity \in Int32 /\ line.product \in ListProducts  BY <3>3, <4>3, <4>5
          <5> HIDE DEF line
          <5>4. TotalWith(total[r], line) = Wrap(LineSum(Append(lines[r], Priced(line))), Half64)
            BY <4>2, <5>1, <5>2, <5>3, PricedSum
          <5>5. total'[r] = TotalWith(total[r], line) /\ lines'[r] = Append(lines[r], Priced(line))
            BY <3>3
          <5> QED  BY <5>4, <5>5
        <4>6. \A q \in Request \ {r} :
                pc'[q] = pc[q] /\ total'[q] = total[q] /\ lines'[q] = lines[q] /\ cart'[q] = cart[q]
          BY <3>3
        <4>7. pc'[r] \in {"insert", "fetch"}  BY <3>3
        <4> HIDE DEF line
        <4> QED  BY <4>4, <4>5, <4>6, <4>7
      <3> QED  BY <2>2, <3>2, <3>3 DEF FetchProduct
    <2>3. CASE OutOfIds(r)
      BY <2>3, <1>3 DEF OutOfIds
    <2>4. CASE Reserve(r)
      BY <2>4 DEF Reserve, checkoutVars
    <2>5. CASE CreatePayment(r)
      BY <2>5 DEF CreatePayment, checkoutVars
    <2>6. CASE DeleteOrder(r)
      <3>1. Forget(r) /\ \E a \in {"refused", "failed"} : pc' = [pc EXCEPT ![r] = a]
        BY <2>6 DEF DeleteOrder
      <3> QED  BY <3>1, <1>F DEF Answers
    <2> QED  BY <1>5, <2>1, <2>2, <2>3, <2>4, <2>5, <2>6 DEF Serve
  <1> QED  BY <1>1, <1>2, <1>3, <1>4, <1>5 DEF Next

(* A checkout answered with 201 has positive quantities, a total that is   *)
(* not negative and, while the quantities asked for fit 32 bits, the sum of *)
(* its lines modulo the width of the total: for carts of every length.     *)
THEOREM AcceptedIsConsistentHolds == Spec => []AcceptedIsConsistent
  <1>1. TypeOK /\ Pricing /\ Accounts /\ [Next]_vars => Accounts'
    BY AccountsStep
  <1>2. Init => Accounts  BY InitAccounts
  <1>3. Accounts => AcceptedIsConsistent
    BY DEF Accounts, AcceptedIsConsistent, Reservable, CartFits
  <1>4. IInv => TypeOK /\ Pricing  BY DEF IInv
  <1> QED  BY <1>1, <1>2, <1>3, <1>4, Inductive, PTL DEF Spec
-----------------------------------------------------------------------------
(* Who has taken an id: a checkout from its INSERT to its end, and a       *)
(* request that was answered 201.  An id is taken once, and its row is     *)
(* there from the commit on.                                               *)
Committed == {"reserve", "pay", "release", "refuse", "abandon", "created"}

Taking(r) == pc[r] \in {"items"} \cup Committed

Owners ==
  /\ \A r \in Request : Taking(r) => id[r] \in 1..lastId
  /\ \A r \in Request : pc[r] \in Committed => orders[id[r]] # NULL
  /\ \A r, q \in Request : r # q /\ Taking(r) /\ Taking(q) => id[r] # id[q]

LEMMA InitOwners == Init => Owners
  BY DEF Init, Owners, Taking, Committed

(* A step that takes no id, leaves no new state behind and keeps the rows. *)
LEMMA OwnersKept ==
  ASSUME TypeOK, Owners, NEW r \in Request, NEW to,
         pc' = [pc EXCEPT ![r] = to],
         to \in {"items"} \cup Committed => pc[r] \in {"items"} \cup Committed,
         to \in Committed => pc[r] \in Committed,
         lastId' = lastId,
         \A q \in Request : Taking(q) => id'[q] = id[q],
         \A o \in Id : orders[o] # NULL => orders'[o] # NULL
  PROVE  Owners'
  <1>1. \A q \in Request : Taking(q)' => Taking(q) /\ id'[q] = id[q]
    BY DEF TypeOK, Taking
  <1>2. \A q \in Request : pc'[q] \in Committed => pc[q] \in Committed
    BY DEF TypeOK
  <1>3. \A q \in Request : Taking(q) => id[q] \in Id
    <2>1. 1..lastId \subseteq Id
      BY OrdersAssumption DEF TypeOK, Id
    <2> QED  BY <2>1 DEF Owners
  <1>4. \A q \in Request : pc[q] \in Committed => Taking(q)  BY DEF Taking
  <1> QED  BY <1>1, <1>2, <1>3, <1>4 DEF Owners

LEMMA OwnersStep == IInv /\ Owners /\ [Next]_vars => Owners'
  <1> SUFFICES ASSUME IInv, Owners, [Next]_vars  PROVE Owners'
    OBVIOUS
  <1>0. TypeOK /\ IdsOnce /\ CheckHolds  BY DEF IInv
  <1>K. 1..lastId \subseteq Id /\ lastId \in Nat
    BY <1>0, OrdersAssumption DEF TypeOK, Id
  <1>1. CASE UNCHANGED vars \/ CatalogStep
    BY <1>1 DEF vars, CatalogStep, tableVars, Owners, Taking
  <1>2. ASSUME NEW r \in Request, Fail(r)  PROVE Owners'
    BY <1>0, <1>2, OwnersKept DEF Fail, tableVars, Committed
  <1>3. ASSUME NEW r \in Request, NEW s \in Status, CreateOrder(r, s)  PROVE Owners'
    <2>1. /\ pc[r] = "new" /\ pc' = [pc EXCEPT ![r] = "created"]
          /\ lastId' = lastId + 1 /\ id' = [id EXCEPT ![r] = lastId + 1]
          /\ orders' = [orders EXCEPT ![lastId + 1] = s] /\ lastId + 1 \in Id
      BY <1>0, <1>3, OrdersAssumption DEF CreateOrder, Goes, TypeOK, Id
    <2>2. s # NULL  BY OrdersAssumption DEF Stored
    <2>3. \A q \in Request \ {r} : (Taking(q)' <=> Taking(q)) /\ pc'[q] = pc[q] /\ id'[q] = id[q]
      BY <1>0, <2>1 DEF TypeOK, Taking
    <2>4. id'[r] = lastId + 1 /\ orders'[lastId + 1] = s
      BY <1>0, <2>1 DEF TypeOK
    <2>5. \A q \in Request : Taking(q) => id[q] \in 1..lastId /\ id[q] \in Id /\ id[q] # lastId + 1
      BY <1>K DEF Owners
    <2>6. \A o \in Id : orders[o] # NULL => orders'[o] # NULL
      BY <1>0, <2>1, <2>2 DEF TypeOK
    <2>7. \A q \in Request : pc[q] \in Committed => Taking(q)  BY DEF Taking
    <2>8. 1..lastId \subseteq 1..lastId' /\ lastId + 1 \in 1..lastId'
      BY <1>K, <2>1
    <2>9. \A q \in Request : Taking(q)' => id'[q] \in 1..lastId'
      BY <2>3, <2>4, <2>5, <2>8
    <2>10. \A q \in Request : pc'[q] \in Committed => orders'[id'[q]] # NULL
      BY <2>2, <2>3, <2>4, <2>5, <2>6, <2>7 DEF Owners
    <2>11. \A p, q \in Request : p # q /\ Taking(p)' /\ Taking(q)' => id'[p] # id'[q]
      BY <2>3, <2>4, <2>5 DEF Owners
    <2> QED  BY <2>9, <2>10, <2>11 DEF Owners
  <1>4. ASSUME NEW r \in Request, NEW o \in Id, NEW s \in Status, UpdateOrder(r, o, s)  PROVE Owners'
    <2>1. /\ \E to \in {"updated", "refused"} : pc' = [pc EXCEPT ![r] = to]
          /\ orders' = orders \/ orders' = [orders EXCEPT ![o] = s]
          /\ lastId' = lastId /\ id' = id
      BY <1>4 DEF UpdateOrder, Goes
    <2>2. s # NULL  BY OrdersAssumption DEF Stored
    <2>3. \A p \in Id : orders[p] # NULL => orders'[p] # NULL
      BY <1>0, <2>1, <2>2 DEF TypeOK
    <2> QED  BY <1>0, <2>1, <2>3, OwnersKept DEF Committed
  <1>5. ASSUME NEW r \in Request, NEW o \in Id, BeginCancel(r, o) \/ GetOrder(r, o)  PROVE Owners'
    <2>1. /\ pc[r] = "new" /\ \E to \in {"cancel", "get", "refused"} : pc' = [pc EXCEPT ![r] = to]
          /\ id' = [id EXCEPT ![r] = o] /\ UNCHANGED <<orders, lastId>>
      BY <1>5 DEF BeginCancel, GetOrder, Goes, tableVars
    <2>2. \A q \in Request : Taking(q) => id'[q] = id[q]
      BY <1>0, <2>1 DEF TypeOK, Taking, Committed
    <2> QED  BY <1>0, <2>1, <2>2, OwnersKept DEF Committed
  <1>6. ASSUME NEW r \in Request, NEW body \in Cart, BeginCheckout(r, body)  PROVE Owners'
    BY <1>0, <1>6, OwnersKept DEF BeginCheckout, Goes, tableVars, Committed
  <1>7. ASSUME NEW r \in Request, GetOrderItems(r) \/ GetOrderForUpdate(r) \/ FetchProduct(r)
        PROVE Owners'
    <2>1. /\ \E to \in {"read", "refused", "check", "insert", "fetch"} : pc' = [pc EXCEPT ![r] = to]
          /\ UNCHANGED <<orders, lastId, id>>
      BY <1>7 DEF GetOrderItems, GetOrderForUpdate, FetchProduct, Goes, tableVars
    <2> QED  BY <1>0, <2>1, OwnersKept DEF Committed
  <1>8. ASSUME NEW r \in Request, CancelOrder(r)  PROVE Owners'
    <2>1. /\ \E to \in {"cancelled", "refused"} : pc' = [pc EXCEPT ![r] = to]
          /\ orders' = orders \/ orders' = [orders EXCEPT ![id[r]] = "cancelled"]
          /\ UNCHANGED <<lastId, id>>
      BY <1>8 DEF CancelOrder, Goes
    <2>2. \A p \in Id : orders[p] # NULL => orders'[p] # NULL
      BY <1>0, <2>1, NullIsNobody DEF TypeOK
    <2> QED  BY <1>0, <2>1, <2>2, OwnersKept DEF Committed
  <1>9. ASSUME NEW r \in Request, InsertOrder(r)  PROVE Owners'
    <2>1. /\ pc' = [pc EXCEPT ![r] = "items"]
          /\ lastId' = lastId + 1 /\ id' = [id EXCEPT ![r] = lastId + 1] /\ orders' = orders
      BY <1>9 DEF InsertOrder, Goes
    <2>2. \A q \in Request \ {r} : (Taking(q)' <=> Taking(q)) /\ pc'[q] = pc[q] /\ id'[q] = id[q]
      BY <1>0, <2>1 DEF TypeOK, Taking
    <2>3. id'[r] = lastId + 1 /\ pc'[r] \notin Committed
      BY <1>0, <2>1 DEF TypeOK, Committed
    <2>4. \A q \in Request : Taking(q) => id[q] \in 1..lastId /\ id[q] # lastId + 1
      BY <1>K DEF Owners
    <2>5. 1..lastId \subseteq 1..lastId' /\ lastId + 1 \in 1..lastId'
      BY <1>K, <2>1
    <2>6. \A q \in Request : Taking(q)' => id'[q] \in 1..lastId'
      BY <2>2, <2>3, <2>4, <2>5
    <2>7. \A q \in Request : pc'[q] \in Committed => orders'[id'[q]] # NULL
      BY <2>1, <2>2, <2>3 DEF Owners
    <2>8. \A p, q \in Request : p # q /\ Taking(p)' /\ Taking(q)' => id'[p] # id'[q]
      BY <2>2, <2>3, <2>4 DEF Owners
    <2> QED  BY <2>6, <2>7, <2>8 DEF Owners
  <1>10. ASSUME NEW r \in Request, OutOfIds(r)  PROVE Owners'
    BY <1>2, <1>10 DEF OutOfIds
  <1>11. ASSUME NEW r \in Request, CommitCheckout(r)  PROVE Owners'
    <2>1. /\ pc[r] = "items" /\ pc' = [pc EXCEPT ![r] = "reserve"]
          /\ orders' = [orders EXCEPT ![id[r]] = "confirmed"] /\ UNCHANGED <<lastId, id>>
      BY <1>11 DEF CommitCheckout, Goes
    <2>2. id[r] \in Id /\ NULL # "confirmed" /\ Taking(r)
      BY <1>K, <2>1, OrdersAssumption DEF Owners, Taking, Stored
    <2>3. orders'[id[r]] # NULL /\ \A o \in Id : orders[o] # NULL => orders'[o] # NULL
      BY <1>0, <2>1, <2>2 DEF TypeOK
    <2>4. \A q \in Request \ {r} : (Taking(q)' <=> Taking(q)) /\ pc'[q] = pc[q]
      BY <1>0, <2>1 DEF TypeOK, Taking
    <2>5. \A q \in Request : Taking(q) => id[q] \in Id
      BY <1>K DEF Owners
    <2>6. \A q \in Request : pc[q] \in Committed => Taking(q)  BY DEF Taking
    <2>7. \A q \in Request : pc'[q] \in Committed => orders'[id'[q]] # NULL
      BY <2>1, <2>3, <2>4, <2>5, <2>6 DEF Owners
    <2> QED  BY <2>1, <2>2, <2>4, <2>7 DEF Owners
  <1>12. ASSUME NEW r \in Request, Reserve(r) \/ CreatePayment(r) \/ Release(r)  PROVE Owners'
    <2>1. /\ pc[r] \in Committed
          /\ \E to \in Committed : pc' = [pc EXCEPT ![r] = to]
          /\ UNCHANGED <<orders, lastId, id>>
      BY <1>12 DEF Reserve, CreatePayment, Release, Goes, tableVars, Committed
    <2> QED  BY <1>0, <2>1, OwnersKept
  <1>13. ASSUME NEW r \in Request, DeleteOrder(r)  PROVE Owners'
    <2>1. /\ pc[r] \in Committed /\ \E to \in {"refused", "failed"} : pc' = [pc EXCEPT ![r] = to]
          /\ orders' = [orders EXCEPT ![id[r]] = NULL] /\ UNCHANGED <<lastId, id>>
      BY <1>13 DEF DeleteOrder, Goes, Committed
    <2>2. ~ Taking(r)' /\ pc'[r] \notin Committed /\ Taking(r)
      BY <1>0, <2>1 DEF TypeOK, Taking, Committed
    <2>3. \A q \in Request \ {r} : (Taking(q)' <=> Taking(q)) /\ pc'[q] = pc[q]
      BY <1>0, <2>1 DEF TypeOK, Taking
    <2>4. \A q \in Request \ {r} : pc[q] \in Committed => id[q] # id[r] /\ id[q] \in Id
      BY <1>K, <2>2 DEF Owners, Taking
    <2>5. \A q \in Request : pc'[q] \in Committed => orders'[id'[q]] # NULL
      BY <1>0, <2>1, <2>2, <2>3, <2>4 DEF Owners, TypeOK
    <2> QED  BY <2>1, <2>2, <2>3, <2>5 DEF Owners
  <1> QED
    BY <1>1, <1>2, <1>3, <1>4, <1>5, <1>6, <1>7, <1>8, <1>9, <1>10, <1>11, <1>12, <1>13
      DEF Next, Arrive, Serve

-----------------------------------------------------------------------------
(* What a state of the service is in OrderLifecycle, besides the rows and  *)
(* the ids that are gone.                                                  *)
LifeAccepted == {id[r] : r \in {q \in Request : pc[q] = "created"}}
LifeTold     == {o \in Id : outbox[o] > 0}

LEMMA OneAccepted ==
  ASSUME TypeOK, NEW r \in Request, NEW to, pc' = [pc EXCEPT ![r] = to], pc[r] # "created",
         \A q \in Request : pc[q] = "created" => id'[q] = id[q]
  PROVE  /\ to # "created" => LifeAccepted' = LifeAccepted
         /\ to = "created" => LifeAccepted' = LifeAccepted \cup {id'[r]}
  <1>1. \A q \in Request \ {r} : pc'[q] = pc[q]
    BY DEF TypeOK
  <1>2. pc'[r] = to
    BY DEF TypeOK
  <1>3. CASE to # "created"
    BY <1>1, <1>2, <1>3 DEF LifeAccepted
  <1>4. CASE to = "created"
    BY <1>1, <1>2, <1>4 DEF LifeAccepted
  <1> QED  BY <1>3, <1>4

LEMMA NoneAccepted ==
  ASSUME TypeOK, NEW r \in Request, NEW to, pc' = [pc EXCEPT ![r] = to],
         pc[r] # "created", to # "created",
         \A q \in Request \ {r} : id'[q] = id[q]
  PROVE  LifeAccepted' = LifeAccepted
  <1>1. \A q \in Request : pc[q] = "created" => id'[q] = id[q]
    OBVIOUS
  <1> QED  BY <1>1, OneAccepted

LEMMA GoneKept ==
  ASSUME TypeOK, NEW r \in Request, NEW to, pc' = [pc EXCEPT ![r] = to],
         pc[r] # "items", to # "items", lastId' = lastId,
         \A q \in Request : pc[q] = "items" => id'[q] = id[q],
         \A o \in 1..lastId : orders'[o] = NULL <=> orders[o] = NULL
  PROVE  Gone' = Gone
  <1>1. \A q \in Request : (pc'[q] = "items" <=> pc[q] = "items")
    BY DEF TypeOK
  <1> QED  BY <1>1 DEF Gone

LEMMA LifeStutters ==
  ASSUME UNCHANGED <<orders, Gone, LifeAccepted, LifeTold>>
  PROVE  UNCHANGED Life!vars
  BY DEF Life!vars, LifeAccepted, LifeTold

(* The requests that arrive.                                               *)
LEMMA ArrivalLives ==
  ASSUME IInv, Owners, NEW r \in Request, Arrive(r)
  PROVE  [Life!Next]_(Life!vars)
  <1>0. TypeOK /\ IdsOnce  BY DEF IInv
  <1>K. 1..lastId \subseteq Id /\ lastId \in Nat
    BY <1>0, OrdersAssumption DEF TypeOK, Id
  <1>1. ASSUME NEW s \in Status, CreateOrder(r, s)  PROVE Life!Next
    <2>1. /\ pc[r] = "new" /\ pc' = [pc EXCEPT ![r] = "created"]
          /\ lastId' = lastId + 1 /\ id' = [id EXCEPT ![r] = lastId + 1]
          /\ orders' = [orders EXCEPT ![lastId + 1] = s] /\ lastId + 1 \in Id
          /\ outbox' = outbox
      BY <1>0, <1>1, OrdersAssumption DEF CreateOrder, Goes, TypeOK, Id
    <2>2. s # NULL /\ s \in Stored  BY OrdersAssumption DEF Stored
    <2>3. id'[r] = lastId + 1 /\ \A q \in Request \ {r} : id'[q] = id[q] /\ pc'[q] = pc[q]
      BY <1>0, <2>1 DEF TypeOK
    <2>4. LifeAccepted' = LifeAccepted \cup {lastId + 1}
      BY <1>0, <2>1, <2>3, OneAccepted
    <2>5. orders[lastId + 1] = NULL
      BY <1>0, <1>K, <2>1 DEF IdsOnce, RowsAreGivenOut
    <2>6. lastId + 1 \notin Gone
      BY <1>K DEF Gone
    <2>7. Gone' = Gone
      <3>1. \A q \in Request : pc'[q] = "items" <=> pc[q] = "items"
        BY <1>0, <2>1, <2>3 DEF TypeOK
      <3>2. \A q \in Request : pc[q] = "items" => id'[q] = id[q]
        BY <2>1, <2>3
      <3>3. orders'[lastId + 1] = s /\ \A o \in 1..lastId : orders'[o] = orders[o]
        BY <1>0, <1>K, <2>1 DEF TypeOK
      <3>4. 1..lastId' = (1..lastId) \cup {lastId + 1}
        BY <1>K, <2>1
      <3> QED  BY <2>2, <3>1, <3>2, <3>3, <3>4 DEF Gone
    <2>8. LifeTold' = LifeTold  BY <2>1 DEF LifeTold
    <2>9. Life!Place(lastId + 1, s)
      BY <2>1, <2>4, <2>5, <2>6, <2>7, <2>8 DEF Life!Place, Life!Exists, LifeAccepted, LifeTold
    <2> QED  BY <2>1, <2>2, <2>9 DEF Life!Next
  <1>2. ASSUME NEW o \in Id, NEW s \in Status, UpdateOrder(r, o, s)
        PROVE  [Life!Next]_(Life!vars)
    <2>1. PICK to \in {"updated", "refused"} :
          /\ pc[r] = "new" /\ pc' = [pc EXCEPT ![r] = to]
          /\ orders' = orders \/ (orders[o] # NULL /\ orders' = [orders EXCEPT ![o] = s])
          /\ UNCHANGED <<lastId, id, outbox>>
      BY <1>2 DEF UpdateOrder, Goes
    <2>2. s # NULL /\ s \in Stored  BY OrdersAssumption DEF Stored
    <2>3. LifeAccepted' = LifeAccepted
      BY <1>0, <2>1, OneAccepted
    <2>4. LifeTold' = LifeTold  BY <2>1 DEF LifeTold
    <2>5. \A p \in Id : orders'[p] = NULL <=> orders[p] = NULL
      BY <1>0, <2>1, <2>2 DEF TypeOK
    <2>6. Gone' = Gone
      BY <1>0, <1>K, <2>1, <2>5, GoneKept
    <2>7. CASE orders' = orders
      BY <2>3, <2>4, <2>6, <2>7, LifeStutters
    <2>8. CASE orders[o] # NULL /\ orders' = [orders EXCEPT ![o] = s]
      <3>1. Life!Write(o, s)
        BY <2>3, <2>4, <2>6, <2>8 DEF Life!Write, Life!Exists, LifeAccepted, LifeTold
      <3> QED  BY <2>2, <3>1 DEF Life!Next
    <2> QED  BY <2>1, <2>7, <2>8
  <1>3. CASE \/ \E o \in Id : BeginCancel(r, o) \/ GetOrder(r, o)
             \/ \E body \in Cart : BeginCheckout(r, body)
    <2>1. PICK to \in {"cancel", "get", "refused", "fetch"} :
          /\ pc[r] = "new" /\ pc' = [pc EXCEPT ![r] = to]
          /\ id' = id \/ (\E o \in Id : id' = [id EXCEPT ![r] = o])
          /\ UNCHANGED <<orders, lastId, outbox>>
      BY <1>3 DEF BeginCancel, GetOrder, BeginCheckout, Goes, tableVars
    <2>2. \A q \in Request : pc[q] # "new" => id'[q] = id[q]
      BY <1>0, <2>1 DEF TypeOK
    <2>3. LifeAccepted' = LifeAccepted
      BY <1>0, <2>1, <2>2, OneAccepted
    <2>4. Gone' = Gone
      BY <1>0, <2>1, <2>2, GoneKept
    <2>5. LifeTold' = LifeTold  BY <2>1 DEF LifeTold
    <2> QED  BY <2>1, <2>3, <2>4, <2>5, LifeStutters
  <1> QED  BY <1>1, <1>2, <1>3 DEF Arrive

(* The statements and calls of the requests that are served.               *)
LEMMA ServiceLives ==
  ASSUME IInv, Owners, NEW r \in Request, Serve(r) \/ Fail(r)
  PROVE  [Life!Next]_(Life!vars)
  <1>0. TypeOK /\ IdsOnce /\ CheckHolds  BY DEF IInv
  <1>K. 1..lastId \subseteq Id /\ lastId \in Nat
    BY <1>0, OrdersAssumption DEF TypeOK, Id
  <1>1. CASE Fail(r)
    <2>1. /\ pc[r] \in Waiting /\ pc' = [pc EXCEPT ![r] = "failed"]
          /\ UNCHANGED <<orders, lastId, id, outbox>>
      BY <1>1 DEF Fail, tableVars
    <2>2. LifeAccepted' = LifeAccepted
      <3>1. pc[r] # "created"  BY <2>1 DEF Waiting
      <3> QED  BY <1>0, <2>1, <3>1, NoneAccepted
    <2>3. LifeTold' = LifeTold  BY <2>1 DEF LifeTold
    <2>4. CASE pc[r] # "items"
      <3>1. Gone' = Gone
        BY <1>0, <2>1, <2>4, GoneKept
      <3> QED  BY <2>1, <2>2, <2>3, <3>1, LifeStutters
    <2>5. CASE pc[r] = "items"
      <3>1. id[r] \in 1..lastId /\ id[r] \in Id /\ orders[id[r]] = NULL
        BY <1>0, <1>K, <2>5 DEF Owners, Taking, IdsOnce, TakenHasNoRow
      <3>2. \A q \in Request \ {r} : (pc'[q] = "items" <=> pc[q] = "items")
              /\ (pc[q] = "items" => id[q] # id[r])
        BY <1>0, <2>1, <2>5 DEF Owners, Taking, TypeOK
      <3>3. pc'[r] = "failed"  BY <1>0, <2>1 DEF TypeOK
      <3>4. Gone' = Gone \cup {id[r]}
        BY <2>1, <2>5, <3>1, <3>2, <3>3 DEF Gone
      <3>5. Life!Discard(id[r])
        BY <2>1, <2>2, <2>3, <3>1, <3>4 DEF Life!Discard, Life!Exists, LifeAccepted, LifeTold
      <3> QED  BY <3>1, <3>5 DEF Life!Next
    <2> QED  BY <2>4, <2>5
  <1>2. CASE GetOrderItems(r) \/ GetOrderForUpdate(r) \/ FetchProduct(r) \/ Reserve(r) \/ Release(r)
    <2>1. PICK to \in {"read", "refused", "check", "fetch", "insert", "pay", "refuse", "release", "abandon"} :
          /\ pc[r] \in {"get", "cancel", "fetch", "reserve", "release"} /\ pc' = [pc EXCEPT ![r] = to]
          /\ UNCHANGED <<orders, lastId, id, outbox>>
      BY <1>2 DEF GetOrderItems, GetOrderForUpdate, FetchProduct, Reserve, Release, Goes, tableVars
    <2>2. LifeAccepted' = LifeAccepted
      BY <1>0, <2>1, OneAccepted
    <2>3. Gone' = Gone
      BY <1>0, <2>1, GoneKept
    <2>4. LifeTold' = LifeTold  BY <2>1 DEF LifeTold
    <2> QED  BY <2>1, <2>2, <2>3, <2>4, LifeStutters
  <1>3. CASE CancelOrder(r)
    <2>1. /\ pc[r] = "check"
          /\ pc' = [pc EXCEPT ![r] = "cancelled"] \/ pc' = [pc EXCEPT ![r] = "refused"]
          /\ \/ /\ Cancellable(seen[r]) /\ orders' = [orders EXCEPT ![id[r]] = "cancelled"]
                /\ outbox' = [outbox EXCEPT ![id[r]] = @ + 1]
             \/ UNCHANGED <<orders, outbox>>
          /\ UNCHANGED <<lastId, id>>
      BY <1>3 DEF CancelOrder, Goes
    <2>2. id[r] \in Id /\ orders[id[r]] = seen[r] /\ seen[r] # NULL
      BY <1>0, <2>1 DEF CheckHolds
    <2>3. LifeAccepted' = LifeAccepted
      BY <1>0, <2>1, NoneAccepted
    <2>4. \A o \in Id : orders'[o] = NULL <=> orders[o] = NULL
      BY <1>0, <2>1, <2>2, NullIsNobody DEF TypeOK
    <2>5. Gone' = Gone
      BY <1>0, <1>K, <2>1, <2>4, GoneKept
    <2>6. CASE UNCHANGED <<orders, outbox>>
      BY <2>3, <2>5, <2>6, LifeStutters DEF LifeTold
    <2>7. CASE /\ Cancellable(seen[r]) /\ orders' = [orders EXCEPT ![id[r]] = "cancelled"]
               /\ outbox' = [outbox EXCEPT ![id[r]] = @ + 1]
      <3>1. LifeTold' = LifeTold \cup {id[r]}
        BY <1>0, <2>2, <2>7 DEF TypeOK, LifeTold
      <3>2. PICK o \in Id : o = id[r]
        BY <2>2
      <3>3. Life!Cancel(o)
        BY <2>2, <2>3, <2>5, <2>7, <3>1, <3>2
          DEF Life!Cancel, Life!Exists, LifeAccepted, LifeTold, Cancellable
      <3> QED  BY <3>3 DEF Life!Next
    <2> QED  BY <2>1, <2>6, <2>7
  <1>4. CASE InsertOrder(r)
    <2>1. /\ pc[r] = "insert" /\ pc' = [pc EXCEPT ![r] = "items"]
          /\ lastId' = lastId + 1 /\ id' = [id EXCEPT ![r] = lastId + 1]
          /\ UNCHANGED <<orders, outbox>>
      BY <1>4 DEF InsertOrder, Goes
    <2>2. \A q \in Request \ {r} : pc'[q] = pc[q] /\ id'[q] = id[q]
      BY <1>0, <2>1 DEF TypeOK
    <2>3. pc'[r] = "items" /\ id'[r] = lastId + 1
      BY <1>0, <2>1 DEF TypeOK
    <2>4. LifeAccepted' = LifeAccepted
      BY <1>0, <2>1, <2>2, NoneAccepted
    <2>5. 1..lastId' = (1..lastId) \cup {lastId + 1} /\ lastId + 1 \notin 1..lastId
      BY <1>K, <2>1
    <2>6. Gone' = Gone
      BY <2>1, <2>2, <2>3, <2>5 DEF Gone
    <2>7. LifeTold' = LifeTold  BY <2>1 DEF LifeTold
    <2> QED  BY <2>1, <2>4, <2>6, <2>7, LifeStutters
  <1>5. CASE CommitCheckout(r)
    <2>1. /\ pc[r] = "items" /\ pc' = [pc EXCEPT ![r] = "reserve"]
          /\ orders' = [orders EXCEPT ![id[r]] = "confirmed"]
          /\ UNCHANGED <<lastId, id, outbox>>
      BY <1>5 DEF CommitCheckout, Goes
    <2>2. id[r] \in 1..lastId /\ id[r] \in Id /\ orders[id[r]] = NULL
      BY <1>0, <1>K, <2>1 DEF Owners, Taking, IdsOnce, TakenHasNoRow
    <2>3. "confirmed" \in Stored /\ NULL # "confirmed"
      BY OrdersAssumption DEF Stored
    <2>4. id[r] \notin Gone  BY <2>1 DEF Gone
    <2>5. LifeAccepted' = LifeAccepted
      BY <1>0, <2>1, NoneAccepted
    <2>6. Gone' = Gone
      <3>1. pc'[r] = "reserve" /\ \A q \in Request \ {r} : pc'[q] = pc[q]
        BY <1>0, <2>1 DEF TypeOK
      <3>2. orders'[id[r]] = "confirmed" /\ \A o \in Id \ {id[r]} : orders'[o] = orders[o]
        BY <1>0, <2>1, <2>2 DEF TypeOK
      <3> QED  BY <1>K, <2>1, <2>2, <2>3, <3>1, <3>2 DEF Gone
    <2>7. LifeTold' = LifeTold  BY <2>1 DEF LifeTold
    <2>8. Life!Place(id[r], "confirmed")
      BY <2>1, <2>2, <2>4, <2>5, <2>6, <2>7 DEF Life!Place, Life!Exists, LifeAccepted, LifeTold
    <2> QED  BY <2>2, <2>3, <2>8 DEF Life!Next
  <1>6. CASE CreatePayment(r)
    <2>1. /\ pc[r] = "pay"
          /\ pc' = [pc EXCEPT ![r] = "created"] \/ pc' = [pc EXCEPT ![r] = "release"]
          /\ UNCHANGED <<orders, lastId, id, outbox>>
      BY <1>6 DEF CreatePayment, Goes, tableVars
    <2>2. Gone' = Gone
      BY <1>0, <2>1, GoneKept
    <2>3. LifeTold' = LifeTold  BY <2>1 DEF LifeTold
    <2>4. CASE pc' = [pc EXCEPT ![r] = "release"]
      <3>1. LifeAccepted' = LifeAccepted
        BY <1>0, <2>1, <2>4, NoneAccepted
      <3> QED  BY <2>1, <2>2, <2>3, <3>1, LifeStutters
    <2>5. CASE pc' = [pc EXCEPT ![r] = "created"]
      <3>1. LifeAccepted' = LifeAccepted \cup {id[r]}
        BY <1>0, <2>1, <2>5, OneAccepted
      <3>2. PICK o \in Id : o = id[r] /\ orders[o] # NULL
        BY <1>K, <2>1 DEF Owners, Taking, Committed
      <3>3. Life!Accept(o)
        BY <2>1, <2>2, <2>3, <3>1, <3>2 DEF Life!Accept, Life!Exists, LifeAccepted, LifeTold
      <3> QED  BY <3>3 DEF Life!Next
    <2> QED  BY <2>1, <2>4, <2>5
  <1>7. CASE DeleteOrder(r)
    <2>1. PICK to \in {"refused", "failed"} :
          /\ pc[r] \in {"refuse", "abandon"} /\ pc' = [pc EXCEPT ![r] = to]
          /\ orders' = [orders EXCEPT ![id[r]] = NULL]
          /\ UNCHANGED <<lastId, id, outbox>>
      BY <1>7 DEF DeleteOrder, Goes
    <2>2. Taking(r) /\ pc[r] \in Committed  BY <2>1 DEF Taking, Committed
    <2>3. id[r] \in 1..lastId /\ id[r] \in Id /\ orders[id[r]] # NULL
      BY <1>K, <2>2 DEF Owners
    <2>4. \A q \in Request : q # r /\ Taking(q) => id[q] # id[r]
      BY <2>2 DEF Owners
    <2>5. id[r] \notin LifeAccepted
      BY <2>1, <2>4 DEF LifeAccepted, Taking, Committed
    <2>6. LifeAccepted' = LifeAccepted
      BY <1>0, <2>1, OneAccepted
    <2>7. Gone' = Gone \cup {id[r]}
      <3>1. \A q \in Request : (pc'[q] = "items" <=> pc[q] = "items") /\ (pc[q] = "items" => id[q] # id[r])
        BY <1>0, <2>1, <2>4 DEF TypeOK, Taking
      <3>2. orders'[id[r]] = NULL /\ \A o \in Id \ {id[r]} : orders'[o] = orders[o]
        BY <1>0, <2>1, <2>3 DEF TypeOK
      <3> QED  BY <1>K, <2>1, <2>3, <3>1, <3>2 DEF Gone
    <2>8. LifeTold' = LifeTold  BY <2>1 DEF LifeTold
    <2>9. Life!Remove(id[r])
      BY <2>1, <2>3, <2>5, <2>6, <2>7, <2>8 DEF Life!Remove, Life!Exists, LifeAccepted, LifeTold
    <2> QED  BY <2>3, <2>9 DEF Life!Next
  <1> QED
    BY <1>1, <1>2, <1>3, <1>4, <1>5, <1>6, <1>7 DEF Serve, OutOfIds

(* The service keeps the promises of OrderLifecycle to any number of       *)
(* concurrent requests, for every number of orders they can create:        *)
(* whatever is rolled back or deleted between their statements, an id      *)
(* names one order for ever and an accepted order stays.                   *)
THEOREM OrdersImplementLifecycle == Spec => ImplementsLifecycle
  <1>1. Init => Life!Init
    <2> SUFFICES ASSUME Init PROVE Life!Init
      OBVIOUS
    <2>1. lastId = 0 /\ LifeAccepted = {} /\ LifeTold = {}
      BY DEF Init, LifeAccepted, LifeTold
    <2>2. Gone = {}
      BY <2>1 DEF Gone
    <2> QED  BY <2>1, <2>2 DEF Init, Life!Init, LifeAccepted, LifeTold
  <1>2. IInv /\ Owners /\ [Next]_vars => [Life!Next]_(Life!vars)
    <2> SUFFICES ASSUME IInv, Owners, [Next]_vars PROVE [Life!Next]_(Life!vars)
      OBVIOUS
    <2>1. CASE UNCHANGED vars \/ CatalogStep
      <3>1. UNCHANGED <<orders, lastId, id, pc, outbox>>
        BY <2>1 DEF vars, CatalogStep, tableVars
      <3>2. UNCHANGED <<Gone, LifeAccepted, LifeTold>>
        BY <3>1 DEF Gone, LifeAccepted, LifeTold
      <3> QED  BY <3>1, <3>2, LifeStutters
    <2>2. ASSUME NEW r \in Request, Arrive(r)  PROVE [Life!Next]_(Life!vars)
      BY <2>2, ArrivalLives
    <2>3. ASSUME NEW r \in Request, Serve(r) \/ Fail(r)  PROVE [Life!Next]_(Life!vars)
      BY <2>3, ServiceLives
    <2> QED  BY <2>1, <2>2, <2>3 DEF Next
  <1>3. Spec => []Owners
    BY InitOwners, OwnersStep, Inductive, PTL DEF Spec
  <1> QED
    BY <1>1, <1>2, <1>3, Inductive, PTL DEF Spec, ImplementsLifecycle, Life!Spec

-----------------------------------------------------------------------------
(* What keeps the requests from waiting for each other for ever: whoever    *)
(* holds the lock of a row is a cancellation that has read it and has only  *)
(* its last step to take, which waits for nothing; and it holds no other    *)
(* row.  Whether that step is taken is the fairness of FairSpec.            *)
LocksAreBrief == \A o \in Id : lock[o] # NULL =>
  pc[lock[o]] = "check" /\ id[lock[o]] = o

LEMMA LocksStep == IInv /\ LocksAreBrief /\ [Next]_vars => LocksAreBrief'
  <1> SUFFICES ASSUME IInv, LocksAreBrief, [Next]_vars, NEW o \in Id, lock'[o] # NULL
               PROVE  pc'[lock'[o]] = "check" /\ id'[lock'[o]] = o
    BY DEF LocksAreBrief
  <1> USE DEF IInv, TypeOK, LocksAreBrief, Goes
  <1>1. CASE UNCHANGED vars
    BY <1>1 DEF vars
  <1>2. CASE CatalogStep
    BY <1>2 DEF CatalogStep
  <1>3. ASSUME NEW r \in Request, Fail(r)  PROVE pc'[lock'[o]] = "check" /\ id'[lock'[o]] = o
    BY <1>3 DEF Fail
  <1>4. ASSUME NEW r \in Request, UNCHANGED lock, pc[r] # "check", pc' = [pc EXCEPT ![r] = pc'[r]],
               \A q \in Request \ {r} : id'[q] = id[q]
        PROVE  pc'[lock'[o]] = "check" /\ id'[lock'[o]] = o
    <2>1. lock[o] \in Request \ {r}  BY <1>4
    <2> QED  BY <2>1, <1>4
  <1>5. ASSUME NEW r \in Request, Arrive(r)  PROVE pc'[lock'[o]] = "check" /\ id'[lock'[o]] = o
    <2>1. UNCHANGED lock /\ pc[r] = "new" /\ pc' = [pc EXCEPT ![r] = pc'[r]]
      BY <1>5 DEF Arrive, CreateOrder, UpdateOrder, BeginCancel, GetOrder, BeginCheckout
    <2>2. \A q \in Request \ {r} : id'[q] = id[q]
      BY <1>5 DEF Arrive, CreateOrder, UpdateOrder, BeginCancel, GetOrder, BeginCheckout
    <2> QED  BY <1>4, <2>1, <2>2
  <1>6. ASSUME NEW r \in Request, Serve(r)  PROVE pc'[lock'[o]] = "check" /\ id'[lock'[o]] = o
    <2>1. CASE GetOrderForUpdate(r)
      BY <2>1, NullIsNobody DEF GetOrderForUpdate, Free
    <2>2. CASE CancelOrder(r)
      BY <2>2, NullIsNobody DEF CancelOrder, CheckHolds
    <2>3. CASE OutOfIds(r)
      BY <2>3, <1>3 DEF OutOfIds
    <2>4. CASE \/ GetOrderItems(r) \/ FetchProduct(r) \/ InsertOrder(r) \/ CommitCheckout(r)
               \/ Reserve(r) \/ CreatePayment(r) \/ Release(r) \/ DeleteOrder(r)
      <3>1. UNCHANGED lock /\ pc[r] # "check" /\ pc' = [pc EXCEPT ![r] = pc'[r]]
        BY <2>4 DEF GetOrderItems, FetchProduct, InsertOrder, CommitCheckout, Reserve,
          CreatePayment, Release, DeleteOrder
      <3>2. \A q \in Request \ {r} : id'[q] = id[q]
        BY <2>4 DEF GetOrderItems, FetchProduct, InsertOrder, CommitCheckout, Reserve,
          CreatePayment, Release, DeleteOrder
      <3> QED  BY <1>4, <3>1, <3>2
    <2> QED  BY <1>6, <2>1, <2>2, <2>3, <2>4 DEF Serve
  <1> QED  BY <1>1, <1>2, <1>3, <1>5, <1>6 DEF Next

(* No request ever holds two row locks, nor one while it waits for another  *)
(* row, a price, a reservation or a payment: in the order service a row     *)
(* lock is never part of a circle of requests that wait (GetOrderForUpdate, *)
(* CancelOrder, the deferred Rollback).                                     *)
THEOREM LocksAreBriefHolds == Spec => []LocksAreBrief
  <1>1. Init => LocksAreBrief
    BY DEF Init, LocksAreBrief
  <1> QED  BY <1>1, Inductive, LocksStep, PTL DEF Spec
=============================================================================
