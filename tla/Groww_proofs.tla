---------------------------- MODULE Groww_proofs ----------------------------
(***************************************************************************)
(* What the adapter keeps for every number of ids, orders and units: an id *)
(* is placed once unless a lookup missed it, receipts are backed, and the  *)
(* account is never short.                                                 *)
(***************************************************************************)
EXTENDS Groww, Induction

(* The call between the lookup and its order: nothing of its id is placed  *)
(* yet, unless the lookup was blind.  No other step places an order.       *)
FreshToPlace ==
  At("position") \/ At("place") =>
    call.id \in blind \/ ~Placed(call.id)

(* The order just placed is of the quantity the call asked for.            *)
PlacedAsAsked ==
  At("confirm") => orders[call.order].quantity = call.quantity

IInv ==
  TypeOK /\ OneOrderPerId /\ ReceiptsBacked /\ FreshToPlace /\ PlacedAsAsked

LEMMA InitHolds == Init => IInv
<1>. SUFFICES ASSUME Init PROVE IInv
  OBVIOUS
<1>1. TypeOK
  <2>1. orders = <<>> /\ orders \in Seq(Orders) /\ Len(orders) = 0
        /\ DOMAIN orders = {}
    BY DEF Init
  <2>2. receipts \in [Ids -> Receipts \cup {None}]
    BY DEF Init
  <2>3. Len(orders) <= MaxOrders
    BY <2>1, GrowwAssumption
  <2>4. \A i \in DOMAIN orders : orders[i].filled <= orders[i].quantity
    BY <2>1
  <2>5. call = None /\ ~At("detail") /\ ~At("confirm")
    BY DEF Init, At
  <2>6. blind \subseteq Ids /\ overlapped \in BOOLEAN
    BY DEF Init
  <2>. QED  BY <2>1, <2>2, <2>3, <2>4, <2>5, <2>6 DEF TypeOK
<1>2. OneOrderPerId /\ ReceiptsBacked /\ FreshToPlace /\ PlacedAsAsked
  BY DEF Init, OneOrderPerId, ReceiptsBacked, FreshToPlace, PlacedAsAsked, At
<1>. QED  BY <1>1, <1>2 DEF IInv

(* Steps that only read: orders and receipts stay, a lookup that misses an *)
(* order is blind from then on.                                            *)
LEMMA NotFoundHolds ==
  ASSUME IInv, call # None, NotFound, UNCHANGED <<orders, receipts, overlapped>>
  PROVE  IInv'
<1>1. call \in Calls /\ call.id \in Ids
  BY DEF IInv, TypeOK, Calls
<1>2. blind \subseteq blind' /\ blind' \subseteq Ids
  BY <1>1 DEF NotFound, IInv, TypeOK
<1>3. Placed(call.id) => call.id \in blind'
  BY DEF NotFound
<1>4. \/ call' = None
      \/ call' = [call EXCEPT !.step = "place"]
      \/ call' = [call EXCEPT !.step = "position"]
  <2>1. call.op \in {"submit", "close", "find"}
    BY <1>1 DEF Calls
  <2>. QED  BY <2>1 DEF NotFound
<1>5. call' = None \/ (/\ call' \in Calls /\ call'.id = call.id
                       /\ call'.step \in {"place", "position"})
  BY <1>1, <1>4 DEF Calls
<1>6. TypeOK'
  BY <1>2, <1>5 DEF IInv, TypeOK, At
<1>7. OneOrderPerId' /\ ReceiptsBacked'
  BY <1>2 DEF IInv, OneOrderPerId, ReceiptsBacked, Claimable
<1>8. FreshToPlace' /\ PlacedAsAsked'
  BY <1>3, <1>5 DEF FreshToPlace, PlacedAsAsked, At, Placed
<1>. QED  BY <1>6, <1>7, <1>8 DEF IInv

(* A receipt of an order of the call's own id ends the call.               *)
LEMMA AcceptHolds ==
  ASSUME IInv, call # None, At("detail") \/ At("confirm"),
         NEW n \in Nat, NEW told \in BOOLEAN, Accept(n, told),
         told => n <= orders[call.order].filled,
         ~told => n <= orders[call.order].quantity
  PROVE  IInv'
<1>1. call \in Calls /\ call.order \in DOMAIN orders
      /\ orders[call.order].id = call.id
  BY DEF IInv, TypeOK, At
<1>n. PICK r : r = [order |-> call.order, quantity |-> n, told |-> told]
  OBVIOUS
<1>2. r \in Receipts /\ r.order = call.order /\ r.quantity <= Claimable(r)
  BY <1>1, <1>n DEF Receipts, Claimable, Calls
<1>3. call.id \in Ids
  BY <1>1 DEF Calls
<1>4. receipts' = [receipts EXCEPT ![call.id] = r]
      /\ call' = None /\ UNCHANGED <<orders, blind, overlapped>>
  BY <1>n DEF Accept
<1>5. TypeOK'
  BY <1>2, <1>3, <1>4 DEF IInv, TypeOK, At
<1>6. ReceiptsBacked'
  <2>. SUFFICES ASSUME NEW id \in Ids, receipts'[id] # None
                PROVE  /\ receipts'[id].order \in DOMAIN orders
                       /\ orders[receipts'[id].order].id = id
                       /\ receipts'[id].quantity <= Claimable(receipts'[id])
    BY <1>4 DEF ReceiptsBacked, Claimable
  <2>1. CASE id = call.id
    <3>1. receipts'[id] = r
      BY <1>4, <2>1 DEF IInv, TypeOK
    <3>. QED  BY <1>1, <1>2, <2>1, <3>1
  <2>2. CASE id # call.id
    <3>1. receipts'[id] = receipts[id]
      BY <1>4, <2>2 DEF IInv, TypeOK
    <3>. QED  BY <3>1 DEF IInv, ReceiptsBacked
  <2>. QED  BY <2>1, <2>2
<1>7. OneOrderPerId' /\ FreshToPlace' /\ PlacedAsAsked'
  BY <1>4 DEF IInv, OneOrderPerId, FreshToPlace, PlacedAsAsked, At
<1>. QED  BY <1>5, <1>6, <1>7 DEF IInv

(* What the three ways to a receipt claim.                                 *)
LEMMA ReceiptHolds ==
  ASSUME IInv, DetailOfFound \/ Confirm \/ ConfirmUntold
  PROVE  IInv'
<1>1. call # None /\ (At("detail") \/ At("confirm"))
  BY DEF DetailOfFound, Confirm, ConfirmUntold, At
<1>2. call \in Calls /\ orders[call.order] \in Orders
  BY <1>1 DEF IInv, TypeOK
<1>3. orders[call.order].filled \in Nat /\ call.quantity \in Nat
  BY <1>2 DEF Orders, Calls
<1>4. CASE DetailOfFound \/ Confirm
  <2>1. Accept(orders[call.order].filled, TRUE)
    BY <1>4 DEF DetailOfFound, Confirm
  <2>2. orders[call.order].filled <= orders[call.order].filled
    BY <1>3
  <2>. QED  BY <1>1, <1>3, <2>1, <2>2, AcceptHolds
<1>5. CASE ConfirmUntold
  <2>1. CASE \E n \in 0 .. orders[call.order].filled : Accept(n, TRUE)
    <3>1. PICK n \in 0 .. orders[call.order].filled : Accept(n, TRUE)
      BY <2>1
    <3>2. n \in Nat /\ n <= orders[call.order].filled
      BY <1>3
    <3>. QED  BY <1>1, <3>1, <3>2, AcceptHolds
  <2>2. CASE Accept(call.quantity, FALSE)
    <3>1. call.quantity <= orders[call.order].quantity
      BY <1>3, <1>5 DEF ConfirmUntold, IInv, PlacedAsAsked
    <3>. QED  BY <1>1, <1>3, <2>2, <3>1, AcceptHolds
  <2>. QED  BY <1>5, <2>1, <2>2 DEF ConfirmUntold
<1>. QED  BY <1>4, <1>5

(* A new call starts with a lookup, so it has nothing to place yet.        *)
LEMMA CallHolds == IInv /\ Call => IInv'
<1>. SUFFICES ASSUME IInv, Call PROVE IInv'
  OBVIOUS
<1>1. PICK id \in Ids, op \in {"submit", "close", "find"}, q \in 1 .. MaxQuantity :
        call' = [op |-> op, id |-> id, step |-> "lookup", quantity |-> q,
                 order |-> 0]
  BY DEF Call, FirstStep
<1>2. q \in Nat \ {0}
  BY GrowwAssumption DEF GrowwAssumption
<1>3. call' \in Calls /\ call'.step = "lookup"
  BY <1>1, <1>2 DEF Calls
<1>4. TypeOK'
  BY <1>3 DEF Call, IInv, TypeOK, At
<1>5. OneOrderPerId' /\ ReceiptsBacked' /\ FreshToPlace' /\ PlacedAsAsked'
  BY <1>3 DEF Call, IInv, OneOrderPerId, ReceiptsBacked, Claimable,
              FreshToPlace, PlacedAsAsked, At
<1>. QED  BY <1>4, <1>5 DEF IInv

LEMMA LookupFindsHolds == IInv /\ LookupFinds => IInv'
<1>. SUFFICES ASSUME IInv, LookupFinds PROVE IInv'
  OBVIOUS
<1>1. call \in Calls
  BY DEF LookupFinds, At, IInv, TypeOK
<1>2. PICK i \in DOMAIN orders :
        orders[i].id = call.id
        /\ call' = [call EXCEPT !.step = "detail", !.order = i]
  BY DEF LookupFinds
<1>3. i \in Nat
  BY <1>2 DEF IInv, TypeOK
<1>4. /\ call' \in Calls /\ call'.step = "detail" /\ call'.id = call.id
      /\ call'.order = i
  BY <1>1, <1>2, <1>3 DEF Calls
<1>5. TypeOK'
  BY <1>2, <1>4 DEF LookupFinds, IInv, TypeOK, At
<1>6. OneOrderPerId' /\ ReceiptsBacked' /\ FreshToPlace' /\ PlacedAsAsked'
  BY <1>4 DEF LookupFinds, IInv, OneOrderPerId, ReceiptsBacked, Claimable,
              FreshToPlace, PlacedAsAsked, At
<1>. QED  BY <1>5, <1>6 DEF IInv

LEMMA ReadPositionHolds == IInv /\ ReadPosition => IInv'
<1>. SUFFICES ASSUME IInv, ReadPosition PROVE IInv'
  OBVIOUS
<1>1. call \in Calls /\ At("position")
  BY DEF ReadPosition, At, IInv, TypeOK
<1>2. call' = None \/ (/\ call' \in Calls /\ call'.id = call.id
                       /\ call'.step = "place")
  BY <1>1 DEF ReadPosition, Calls
<1>3. TypeOK'
  BY <1>2 DEF ReadPosition, SellsOpen, IInv, TypeOK, At
<1>4. OneOrderPerId' /\ ReceiptsBacked'
  BY DEF ReadPosition, IInv, OneOrderPerId, ReceiptsBacked, Claimable
<1>5. FreshToPlace' /\ PlacedAsAsked'
  BY <1>1, <1>2 DEF ReadPosition, IInv, FreshToPlace, PlacedAsAsked, At, Placed
<1>. QED  BY <1>3, <1>4, <1>5 DEF IInv

(* The one step that places an order: the first of its id, or a blind one. *)
LEMMA PlaceOrderHolds == IInv /\ PlaceOrder => IInv'
<1>. SUFFICES ASSUME IInv, PlaceOrder PROVE IInv'
  OBVIOUS
<1>1. call \in Calls /\ At("place") /\ orders \in Seq(Orders)
      /\ UNCHANGED <<receipts, blind, overlapped>>
  BY DEF PlaceOrder, At, IInv, TypeOK
<1>. DEFINE new == [id |-> call.id, quantity |-> call.quantity, filled |-> 0]
<1>2. /\ new \in Orders /\ new.id = call.id /\ new.filled <= new.quantity
      /\ new.quantity = call.quantity
  BY <1>1 DEF Calls, Orders
<1>3. orders' = Append(orders, new)
  BY DEF PlaceOrder
<1>. HIDE DEF new
<1>4. /\ orders' \in Seq(Orders) /\ Len(orders') = Len(orders) + 1
      /\ Len(orders') \in DOMAIN orders' /\ orders'[Len(orders')] = new
      /\ \A i \in DOMAIN orders' : i # Len(orders') =>
           i \in DOMAIN orders /\ orders'[i] = orders[i]
      /\ \A i \in DOMAIN orders : i \in DOMAIN orders' /\ orders'[i] = orders[i]
  BY <1>1, <1>2, <1>3
<1>5. call' = None \/ (/\ call' \in Calls /\ call'.step = "confirm"
                       /\ call'.id = call.id /\ call'.order = Len(orders')
                       /\ call'.quantity = call.quantity)
  <2>1. Len(orders') \in Nat
    BY <1>4
  <2>. QED  BY <1>1, <2>1 DEF PlaceOrder, Calls
<1>6. TypeOK'
  <2>1. Len(orders') <= MaxOrders
    BY <1>1, <1>4, GrowwAssumption DEF PlaceOrder, GrowwAssumption
  <2>2. \A i \in DOMAIN orders' : orders'[i].filled <= orders'[i].quantity
    BY <1>2, <1>4 DEF IInv, TypeOK
  <2>3. At("detail")' \/ At("confirm")' =>
          call'.order \in DOMAIN orders' /\ orders'[call'.order].id = call'.id
    BY <1>2, <1>4, <1>5 DEF At
  <2>. QED  BY <1>1, <1>4, <1>5, <2>1, <2>2, <2>3 DEF IInv, TypeOK
<1>7. OneOrderPerId'
  <2>. SUFFICES ASSUME NEW i \in DOMAIN orders', NEW j \in DOMAIN orders',
                       orders'[i].id = orders'[j].id, orders'[i].id \notin blind
                PROVE  i = j
    BY <1>1 DEF OneOrderPerId
  <2>1. call.id \notin blind => \A k \in DOMAIN orders : orders[k].id # call.id
    BY <1>1 DEF IInv, FreshToPlace, Placed
  <2>2. CASE i # Len(orders') /\ j # Len(orders')
    BY <1>4, <2>2 DEF IInv, OneOrderPerId
  <2>3. CASE i = Len(orders') \/ j = Len(orders')
    BY <1>2, <1>4, <2>1, <2>3
  <2>. QED  BY <2>2, <2>3
<1>8. ReceiptsBacked'
  BY <1>1, <1>4 DEF IInv, ReceiptsBacked, Claimable
<1>9. FreshToPlace' /\ PlacedAsAsked'
  BY <1>2, <1>4, <1>5 DEF FreshToPlace, PlacedAsAsked, At
<1>. QED  BY <1>6, <1>7, <1>8, <1>9 DEF IInv

LEMMA CallRaisesHolds == IInv /\ CallRaises => IInv'
  BY DEF CallRaises, IInv, TypeOK, OneOrderPerId, ReceiptsBacked, Claimable,
         FreshToPlace, PlacedAsAsked, At

(* More of an order is filled: receipts claim no more than before.         *)
LEMMA FillHolds == IInv /\ Fill => IInv'
<1>. SUFFICES ASSUME IInv, Fill PROVE IInv'
  OBVIOUS
<1>0. PICK i \in DOMAIN orders :
        \E n \in orders[i].filled + 1 .. orders[i].quantity :
          orders' = [orders EXCEPT ![i].filled = n]
  BY DEF Fill
<1>1. PICK n \in orders[i].filled + 1 .. orders[i].quantity :
        orders' = [orders EXCEPT ![i].filled = n]
  BY <1>0
<1>2. orders \in Seq(Orders) /\ orders[i] \in Orders
  BY <1>1 DEF IInv, TypeOK
<1>3. n \in Nat /\ orders[i].filled <= n /\ n <= orders[i].quantity
  BY <1>2 DEF Orders
<1>4. /\ orders' \in Seq(Orders) /\ Len(orders') = Len(orders)
      /\ DOMAIN orders' = DOMAIN orders
      /\ \A k \in DOMAIN orders :
           /\ orders'[k].id = orders[k].id
           /\ orders'[k].quantity = orders[k].quantity
           /\ orders[k].filled <= orders'[k].filled
           /\ orders'[k].filled <= orders'[k].quantity
  <2>1. \A k \in DOMAIN orders : orders[k] \in Orders
    BY DEF IInv, TypeOK
  <2>2. [orders[i] EXCEPT !.filled = n] \in Orders
    BY <1>2, <1>3 DEF Orders
  <2>3. orders' = [orders EXCEPT ![i] = [orders[i] EXCEPT !.filled = n]]
    BY <1>1
  <2>4. orders' \in Seq(Orders) /\ Len(orders') = Len(orders)
        /\ DOMAIN orders' = DOMAIN orders
    BY <1>2, <2>2, <2>3
  <2>5. ASSUME NEW k \in DOMAIN orders
        PROVE  /\ orders'[k].id = orders[k].id
               /\ orders'[k].quantity = orders[k].quantity
               /\ orders[k].filled <= orders'[k].filled
               /\ orders'[k].filled <= orders'[k].quantity
    <3>1. CASE k = i
      BY <1>2, <1>3, <2>3, <3>1 DEF Orders
    <3>2. CASE k # i
      <4>1. orders'[k] = orders[k]
        BY <2>3, <3>2
      <4>. QED  BY <2>1, <4>1 DEF IInv, TypeOK, Orders
    <3>. QED  BY <3>1, <3>2
  <2>. QED  BY <2>4, <2>5
<1>5. UNCHANGED <<receipts, call, blind, overlapped>>
  BY DEF Fill
<1>6. TypeOK'
  BY <1>4, <1>5 DEF IInv, TypeOK, At
<1>7. OneOrderPerId'
  BY <1>4, <1>5 DEF IInv, OneOrderPerId
<1>8. ReceiptsBacked'
  <2>. SUFFICES ASSUME NEW id \in Ids, receipts[id] # None
                PROVE  /\ receipts[id].order \in DOMAIN orders'
                       /\ orders'[receipts[id].order].id = id
                       /\ receipts[id].quantity <= Claimable(receipts[id])'
    BY <1>5 DEF ReceiptsBacked, Claimable
  <2>1. /\ receipts[id].order \in DOMAIN orders
        /\ orders[receipts[id].order].id = id
        /\ receipts[id].quantity <= Claimable(receipts[id])
    BY DEF IInv, ReceiptsBacked
  <2>2. receipts[id].quantity \in Nat /\ orders[receipts[id].order] \in Orders
        /\ orders'[receipts[id].order] \in Orders
    BY <1>4, <2>1 DEF IInv, TypeOK, Receipts
  <2>3. orders[receipts[id].order].filled \in Nat
        /\ orders'[receipts[id].order].filled \in Nat
    BY <2>2 DEF Orders
  <2>4. /\ receipts[id].order \in DOMAIN orders'
        /\ orders'[receipts[id].order].id = id
        /\ orders[receipts[id].order].filled <= orders'[receipts[id].order].filled
        /\ orders'[receipts[id].order].quantity = orders[receipts[id].order].quantity
    BY <1>4, <2>1
  <2>5. receipts' = receipts
    BY <1>5
  <2>6. CASE receipts[id].told
    <3>1. receipts[id].quantity <= orders[receipts[id].order].filled
      BY <2>1, <2>6 DEF Claimable
    <3>2. receipts[id].quantity <= orders'[receipts[id].order].filled
      BY <2>2, <2>3, <2>4, <3>1
    <3>. QED  BY <2>4, <2>5, <2>6, <3>2 DEF Claimable
  <2>7. CASE ~receipts[id].told
    <3>1. receipts[id].quantity <= orders[receipts[id].order].quantity
      BY <2>1, <2>7 DEF Claimable
    <3>. QED  BY <2>4, <2>5, <2>7, <3>1 DEF Claimable
  <2>. QED  BY <2>6, <2>7
<1>9. FreshToPlace' /\ PlacedAsAsked'
  <2>1. At("confirm") => call.order \in DOMAIN orders
    BY DEF IInv, TypeOK
  <2>. QED  BY <1>4, <1>5, <2>1 DEF IInv, FreshToPlace, PlacedAsAsked, At, Placed
<1>. QED  BY <1>6, <1>7, <1>8, <1>9 DEF IInv

LEMMA RestartHolds == IInv /\ Restart => IInv'
  BY DEF Restart, IInv, TypeOK, OneOrderPerId, ReceiptsBacked, FreshToPlace,
         PlacedAsAsked, At

LEMMA StepHolds == IInv /\ [Next]_vars => IInv'
<1>. SUFFICES ASSUME IInv, [Next]_vars PROVE IInv'
  OBVIOUS
<1>1. CASE LookupFails
  BY <1>1, NotFoundHolds DEF LookupFails, At
<1>2. CASE DetailUnfilled
  BY <1>2, NotFoundHolds DEF DetailUnfilled, At
<1>3. CASE DetailOfFound \/ Confirm \/ ConfirmUntold
  BY <1>3, ReceiptHolds
<1>5. CASE Call \/ LookupFinds \/ ReadPosition \/ PlaceOrder
  BY <1>5, CallHolds, LookupFindsHolds, ReadPositionHolds, PlaceOrderHolds
<1>6. CASE CallRaises \/ Fill \/ Restart
  BY <1>6, CallRaisesHolds, FillHolds, RestartHolds
<1>7. CASE UNCHANGED vars
  BY <1>7 DEF vars, IInv, TypeOK, OneOrderPerId, ReceiptsBacked, Claimable,
              FreshToPlace, PlacedAsAsked, At, Placed
<1>. QED  BY <1>1, <1>2, <1>3, <1>5, <1>6, <1>7 DEF Next

(* Every reachable state of the adapter is well typed (groww.py:30-252).   *)
THEOREM GrowwTypeCorrect == Spec => []TypeOK
<1>1. IInv => TypeOK
  BY DEF IInv
<1>. QED  BY <1>1, InitHolds, StepHolds, PTL DEF Spec

(* However many ids, orders, restarts and exceptions: a second order of a  *)
(* client id follows a lookup that missed the first (groww.py:54-71,       *)
(* 154-178).                                                               *)
THEOREM PlacedOnce == Spec => []OneOrderPerId
<1>1. IInv => OneOrderPerId
  BY DEF IInv
<1>. QED  BY <1>1, InitHolds, StepHolds, PTL DEF Spec

(* A receipt is of an order of its own id and claims no more than Groww    *)
(* has filled of it, or than was ordered when Groww's answers to the call  *)
(* that placed it did not say what is filled (groww.py:72-97, 122-139,     *)
(* 182-198, 222-240).                                                      *)
THEOREM ReceiptsAreBacked == Spec => []ReceiptsBacked
<1>1. IInv => ReceiptsBacked
  BY DEF IInv
<1>. QED  BY <1>1, InitHolds, StepHolds, PTL DEF Spec

-----------------------------------------------------------------------------
(* The quantity of the account as a total over the orders.                 *)

Part(ids, o) == IF o.id \in ids THEN o.filled ELSE 0
Parts(ids) == [i \in DOMAIN orders |-> Part(ids, orders[i])]

(* The total runs over as many integers as there are orders.               *)
LEMMA PartsType ==
  ASSUME TypeOK, NEW ids
  PROVE  /\ Parts(ids) \in Seq(Int) /\ Len(Parts(ids)) = Len(orders)
         /\ FilledOf(ids) = Total(Parts(ids)) /\ FilledOf(ids) \in Int
  <1>1. orders \in Seq(Orders)
    BY DEF TypeOK
  <1>2. \A i \in DOMAIN orders : Part(ids, orders[i]) \in Int
    <2> TAKE i \in DOMAIN orders
    <2>1. orders[i] \in Orders
      BY <1>1
    <2>2. orders[i].filled \in Int
      BY <2>1 DEF Orders
    <2> QED
      BY <2>2 DEF Part
  <1>3. Parts(ids) \in Seq(Int) /\ Len(Parts(ids)) = Len(orders)
    BY <1>1, <1>2 DEF Parts
  <1>4. FilledOf(ids) = Total(Parts(ids))
    BY DEF FilledOf, Parts, Part
  <1> QED
    BY <1>3, <1>4, TotalType

(* A new order has nothing filled: it adds nothing to the account.         *)
LEMMA PlacingFillsNothing ==
  ASSUME TypeOK, TypeOK', NEW o \in Orders, o.filled = 0,
         orders' = Append(orders, o), NEW ids
  PROVE  FilledOf(ids)' = FilledOf(ids)
  <1>1. orders \in Seq(Orders)
    BY DEF TypeOK
  <1>2. /\ Parts(ids) \in Seq(Int) /\ Len(Parts(ids)) = Len(orders)
        /\ FilledOf(ids) = Total(Parts(ids)) /\ FilledOf(ids) \in Int
    BY PartsType
  <1>3. Part(ids, o) = 0
    BY DEF Part
  <1>4. Parts(ids)' = Append(Parts(ids), Part(ids, o))
    BY <1>1, <1>2 DEF Parts
  <1>5. FilledOf(ids)' = Total(Parts(ids)')
    BY DEF FilledOf, Parts, Part
  <1>6. Total(Append(Parts(ids), Part(ids, o))) = Total(Parts(ids)) + Part(ids, o)
    BY <1>2, <1>3, TotalAppend
  <1> QED
    BY <1>2, <1>3, <1>4, <1>5, <1>6

(* What is filled of an order is added on its own side of the account.     *)
LEMMA FillingAdds ==
  ASSUME TypeOK, NEW i \in DOMAIN orders,
         NEW n \in orders[i].filled + 1 .. orders[i].quantity,
         orders' = [orders EXCEPT ![i].filled = n], NEW ids
  PROVE  FilledOf(ids)' = FilledOf(ids) +
           (IF orders[i].id \in ids THEN n - orders[i].filled ELSE 0)
  <1> DEFINE d == IF orders[i].id \in ids THEN n - orders[i].filled ELSE 0
             o == [orders[i] EXCEPT !.filled = n]
  <1>1. /\ orders \in Seq(Orders) /\ orders[i] \in Orders /\ i \in 1 .. Len(orders)
        /\ DOMAIN orders = 1 .. Len(orders)
    BY DEF TypeOK
  <1>2. n \in Int /\ orders[i].filled \in Int /\ d \in Int
    BY <1>1 DEF Orders
  <1>3. o \in Orders /\ o.id = orders[i].id /\ o.filled = n
    <2>1. n \in Nat
      BY <1>1 DEF Orders
    <2> QED
      BY <1>1, <2>1 DEF Orders
  <1>4. orders' = [orders EXCEPT ![i] = o]
    OBVIOUS
  <1> HIDE DEF o
  <1>5. /\ DOMAIN orders' = DOMAIN orders /\ orders'[i] = o
        /\ \A k \in DOMAIN orders : k # i => orders'[k] = orders[k]
    BY <1>4
  <1>6. /\ Parts(ids) \in Seq(Int) /\ Len(Parts(ids)) = Len(orders)
        /\ FilledOf(ids) = Total(Parts(ids)) /\ FilledOf(ids) \in Int
    BY PartsType
  <1>7. /\ Parts(ids)' \in Seq(Int) /\ Len(Parts(ids)') = Len(orders)
        /\ Parts(ids)'[i] = Parts(ids)[i] + d
        /\ \A k \in 1 .. Len(orders) : k # i => Parts(ids)'[k] = Parts(ids)[k]
    <2>1. Part(ids, o) = Part(ids, orders[i]) + d /\ Part(ids, o) \in Int
      BY <1>2, <1>3 DEF Part
    <2>2. Parts(ids)' = [Parts(ids) EXCEPT ![i] = Part(ids, o)]
      BY <1>1, <1>5 DEF Parts
    <2>3. Parts(ids)[i] = Part(ids, orders[i])
      BY DEF Parts
    <2> QED
      BY <1>1, <1>6, <2>1, <2>2, <2>3
  <1>8. FilledOf(ids)' = Total(Parts(ids)')
    BY DEF FilledOf, Parts, Part
  <1>9. Total(Parts(ids)') = Total(Parts(ids)) + d
    <2> HIDE DEF d
    <2>1. PICK s : s = Parts(ids)
      OBVIOUS
    <2>2. PICK t : t = Parts(ids)'
      OBVIOUS
    <2>3. /\ s \in Seq(Int) /\ t \in Seq(Int) /\ Len(t) = Len(s)
          /\ i \in 1 .. Len(s) /\ d \in Int /\ t[i] = s[i] + d
      BY <1>1, <1>2, <1>6, <1>7, <2>1, <2>2
    <2>4. \A k \in 1 .. Len(s) : k # i => t[k] = s[k]
      BY <1>6, <1>7, <2>1, <2>2
    <2>5. Total(t) = Total(s) + d
      BY <2>3, <2>4, TotalDiffers
    <2> QED
      BY <2>1, <2>2, <2>5
  <1> QED
    BY <1>6, <1>8, <1>9

-----------------------------------------------------------------------------
(* The account: a SELL order that can still fill, and what covers it.      *)
Selling(i) == orders[i].id \in CloseIds /\ orders[i].filled < orders[i].quantity

(* Only a BUY is submitted.  Unless position() was read while a SELL was   *)
(* being filled, at most one SELL is open, the account covers what is left *)
(* of it, and a SELL about to be placed finds none open and is covered.    *)
SideInv == call # None /\ call.op = "submit" => call.id \in BuyIds

Covered ==
  /\ Held >= 0
  /\ \A i, j \in DOMAIN orders : Selling(i) /\ Selling(j) => i = j
  /\ \A i \in DOMAIN orders :
       Selling(i) => orders[i].quantity - orders[i].filled <= Held
  /\ At("place") /\ call.id \in CloseIds => ~SellsOpen /\ call.quantity <= Held

AccountInv == SideInv /\ (~overlapped => Covered)

(* The account holds an integer.                                           *)
LEMMA HeldType == TypeOK => Held \in Int
  BY PartsType DEF Held

(* A step that leaves the orders alone and has no SELL to place.           *)
LEMMA OrdersStay ==
  ASSUME AccountInv, UNCHANGED <<orders, overlapped>>, SideInv',
         At("place")' /\ call'.id \in CloseIds => At("place") /\ call' = call
  PROVE  AccountInv'
  <1>1. Held' = Held
    BY DEF Held, FilledOf
  <1>2. SellsOpen' = SellsOpen /\ \A i : Selling(i)' = Selling(i)
    BY DEF SellsOpen, Selling
  <1> QED
    BY <1>1, <1>2 DEF AccountInv, Covered

(* A lookup that finds nothing sends a BUY to be placed, a SELL to         *)
(* position().                                                             *)
LEMMA NotFoundAccount ==
  ASSUME TypeOK, AccountInv, call # None, NotFound,
         UNCHANGED <<orders, receipts, overlapped>>
  PROVE  AccountInv'
  <1>1. call \in Calls
    BY DEF TypeOK
  <1>2. CASE call.op = "find"
    <2>1. call' = None
      BY <1>2 DEF NotFound
    <2> QED
      BY <2>1, OrdersStay DEF At, SideInv
  <1>3. CASE call.op = "submit"
    <2>1. call' = [call EXCEPT !.step = "place"]
      BY <1>3 DEF NotFound
    <2>2. call'.op = "submit" /\ call'.id = call.id /\ call.id \in BuyIds
      BY <1>1, <1>3, <2>1 DEF Calls, AccountInv, SideInv
    <2> QED
      BY <2>2, OrdersStay, GrowwAssumption DEF SideInv
  <1>4. CASE call.op = "close"
    <2>1. call' = [call EXCEPT !.step = "position"]
      BY <1>4 DEF NotFound
    <2>2. call'.op = "close" /\ call'.step = "position"
      BY <1>1, <1>4, <2>1 DEF Calls
    <2> QED
      BY <2>2, OrdersStay DEF At, SideInv
  <1> QED
    BY <1>1, <1>2, <1>3, <1>4 DEF Calls

(* position(): what it reports covers the SELL, and no SELL is open unless *)
(* the read overlaps one.                                                  *)
LEMMA ReadPositionAccount ==
  ASSUME TypeOK, AccountInv, ReadPosition
  PROVE  AccountInv'
  <1>1. call \in Calls /\ UNCHANGED orders
    BY DEF ReadPosition, At, TypeOK
  <1>2. Held' = Held /\ SellsOpen' = SellsOpen /\ \A i : Selling(i)' = Selling(i)
    BY <1>1 DEF Held, FilledOf, SellsOpen, Selling
  <1>3. SideInv'
    <2>1. call' = None \/ (call'.op = call.op /\ call'.id = call.id /\ call # None)
      BY <1>1 DEF ReadPosition, At, Calls
    <2> QED
      BY <2>1 DEF AccountInv, SideInv
  <1>4. ~overlapped' => ~overlapped /\ ~SellsOpen
    BY DEF ReadPosition
  <1>5. At("place")' => call'.quantity = Held
    BY <1>1 DEF ReadPosition, At, Calls
  <1>6. Held \in Int
    BY HeldType
  <1> QED
    BY <1>1, <1>2, <1>3, <1>4, <1>5, <1>6 DEF AccountInv, Covered

(* A SELL is placed when none is open: it is the only one, and covered.    *)
LEMMA PlaceOrderAccount ==
  ASSUME TypeOK, TypeOK', AccountInv, PlaceOrder
  PROVE  AccountInv'
  <1>1. call \in Calls /\ At("place") /\ orders \in Seq(Orders)
        /\ overlapped' = overlapped
    BY DEF PlaceOrder, At, TypeOK
  <1> DEFINE new == [id |-> call.id, quantity |-> call.quantity, filled |-> 0]
  <1>2. /\ new \in Orders /\ new.id = call.id /\ new.filled = 0
        /\ new.quantity = call.quantity
    BY <1>1 DEF Calls, Orders
  <1>3. orders' = Append(orders, new)
    BY DEF PlaceOrder
  <1> HIDE DEF new
  <1>4. Held' = Held /\ Held \in Int
    BY <1>2, <1>3, PlacingFillsNothing, HeldType DEF Held
  <1>5. ~At("place")' /\ SideInv'
    BY <1>1 DEF PlaceOrder, At, AccountInv, SideInv, Calls
  <1>k. PICK k \in Nat : k = Len(orders) + 1
    BY <1>1
  <1>6. /\ \A i \in DOMAIN orders' : i # k =>
             i \in DOMAIN orders /\ orders'[i] = orders[i]
        /\ k \in DOMAIN orders' /\ orders'[k] = new
    BY <1>k, <1>1, <1>2, <1>3
  <1>7. /\ \A i \in DOMAIN orders' : Selling(i)' /\ i # k =>
             i \in DOMAIN orders /\ Selling(i) /\ orders'[i] = orders[i]
        /\ Selling(k)' => call.id \in CloseIds
    BY <1>2, <1>6 DEF Selling
  <1>8. ASSUME ~overlapped, call.id \in CloseIds, NEW i \in DOMAIN orders',
               Selling(i)'
        PROVE  i = k
    BY <1>1, <1>7, <1>8 DEF AccountInv, Covered, SellsOpen, Selling
  <1>9. ASSUME ~overlapped PROVE Covered'
    <2>1. CASE call.id \in CloseIds
      <3>1. call.quantity <= Held /\ call.quantity \in Nat
        BY <1>1, <1>9, <2>1 DEF AccountInv, Covered, Calls
      <3>2. orders'[k].quantity - orders'[k].filled <= Held
        BY <1>2, <1>6, <3>1
      <3> QED
        BY <1>4, <1>5, <1>8, <1>9, <2>1, <3>2 DEF AccountInv, Covered
    <2>2. CASE call.id \notin CloseIds
      BY <1>4, <1>5, <1>7, <1>9, <2>2 DEF AccountInv, Covered
    <2> QED
      BY <2>1, <2>2
  <1> QED
    BY <1>1, <1>5, <1>9 DEF AccountInv

(* A fill of a BUY adds to the account; a fill of the one open SELL takes  *)
(* from it what it takes from the rest of that SELL.                       *)
LEMMA FillAccount ==
  ASSUME TypeOK, AccountInv, Fill
  PROVE  AccountInv'
  <1>0. PICK i \in DOMAIN orders :
          \E n \in orders[i].filled + 1 .. orders[i].quantity :
            orders' = [orders EXCEPT ![i].filled = n]
    BY DEF Fill
  <1>1. PICK n \in orders[i].filled + 1 .. orders[i].quantity :
          orders' = [orders EXCEPT ![i].filled = n]
    BY <1>0
  <1>2. orders \in Seq(Orders) /\ orders[i] \in Orders
        /\ UNCHANGED <<call, overlapped>>
    BY DEF TypeOK, Fill
  <1>3. /\ n \in Nat /\ orders[i].filled \in Nat /\ orders[i].filled < n
        /\ orders[i].quantity \in Nat /\ n <= orders[i].quantity
    BY <1>2 DEF Orders
  <1>4. /\ DOMAIN orders' = DOMAIN orders
        /\ \A k \in DOMAIN orders : k # i => orders'[k] = orders[k]
        /\ orders'[i].id = orders[i].id /\ orders'[i].filled = n
        /\ orders'[i].quantity = orders[i].quantity
    BY <1>1, <1>2 DEF Orders
  <1> DEFINE d == n - orders[i].filled
  <1>5. /\ FilledOf(BuyIds)' = FilledOf(BuyIds)
                                 + (IF orders[i].id \in BuyIds THEN d ELSE 0)
        /\ FilledOf(CloseIds)' = FilledOf(CloseIds)
                                 + (IF orders[i].id \in CloseIds THEN d ELSE 0)
        /\ FilledOf(BuyIds) \in Int /\ FilledOf(CloseIds) \in Int
    BY <1>1, FillingAdds, PartsType
  <1>6. d \in Nat \ {0}
    BY <1>3
  <1>7. orders[i].id \in BuyIds \cup CloseIds
    BY <1>2 DEF Orders, Ids
  <1>8. /\ Held \in Int
        /\ orders[i].id \in CloseIds => Held' = Held - d
        /\ orders[i].id \notin CloseIds => Held' = Held + d
    <2> HIDE DEF d
    <2> QED
      BY <1>5, <1>6, <1>7, GrowwAssumption DEF Held
  <1>9. \A k \in DOMAIN orders : Selling(k)' => Selling(k)
    BY <1>3, <1>4 DEF Selling
  <1>10. SellsOpen' => SellsOpen
    BY <1>4, <1>9 DEF SellsOpen, Selling
  <1>11. ASSUME Covered PROVE Covered'
    <2>1. CASE orders[i].id \in CloseIds
      <3>1. Selling(i)
        BY <1>3, <2>1 DEF Selling
      <3>2. orders[i].quantity - orders[i].filled <= Held
        BY <1>11, <3>1 DEF Covered
      <3>3. Held' >= 0 /\ orders'[i].quantity - orders'[i].filled <= Held'
        BY <1>3, <1>4, <1>8, <2>1, <3>2
      <3>4. \A k \in DOMAIN orders : Selling(k)' => k = i
        BY <1>9, <1>11, <3>1 DEF Covered
      <3>5. SellsOpen
        BY <3>1 DEF SellsOpen, Selling
      <3> QED
        BY <1>2, <1>4, <1>11, <3>3, <3>4, <3>5 DEF Covered, At
    <2>2. CASE orders[i].id \notin CloseIds
      <3>1. Held' >= Held /\ Held' \in Int
        BY <1>6, <1>8, <2>2
      <3>2. \A k \in DOMAIN orders :
              Selling(k)' => k # i /\ orders'[k] = orders[k]
        BY <1>4, <2>2 DEF Selling
      <3>3. \A k \in DOMAIN orders : orders[k].quantity \in Nat
              /\ orders[k].filled \in Nat
        <4> TAKE k \in DOMAIN orders
        <4>1. orders[k] \in Orders
          BY <1>2
        <4> QED
          BY <4>1 DEF Orders
      <3>4. ASSUME NEW k \in DOMAIN orders, Selling(k)'
            PROVE  orders'[k].quantity - orders'[k].filled <= Held'
        <4>1. orders[k].quantity - orders[k].filled <= Held
          BY <1>9, <1>11, <3>4 DEF Covered
        <4> QED
          BY <1>8, <3>1, <3>2, <3>3, <3>4, <4>1
      <3>5. At("place")' /\ call'.id \in CloseIds =>
              ~SellsOpen' /\ call'.quantity <= Held'
        <4> SUFFICES ASSUME At("place"), call.id \in CloseIds
                     PROVE  ~SellsOpen' /\ call.quantity <= Held'
          BY <1>2 DEF At
        <4>1. ~SellsOpen /\ call.quantity <= Held
          BY <1>11 DEF Covered
        <4>2. call.quantity \in Nat
          BY DEF TypeOK, At, Calls
        <4> QED
          BY <1>8, <1>10, <3>1, <4>1, <4>2
      <3>6. Held' >= 0
        BY <1>8, <1>11, <3>1 DEF Covered
      <3> QED
        BY <1>4, <1>9, <1>11, <3>4, <3>5, <3>6 DEF Covered
    <2> QED
      BY <2>1, <2>2
  <1> QED
    BY <1>2, <1>11 DEF AccountInv, SideInv

(* Every step keeps an account that no SELL can drive short.               *)
LEMMA AccountStep ==
  ASSUME IInv, IInv', AccountInv, [Next]_vars
  PROVE  AccountInv'
  <1> USE DEF IInv
  <1>1. CASE Call
    <2>1. PICK id \in Ids, op \in {"submit", "close", "find"}, q \in 1 .. MaxQuantity :
            /\ op = "submit" => id \in BuyIds
            /\ call' = [op |-> op, id |-> id, step |-> "lookup", quantity |-> q,
                        order |-> 0]
      BY <1>1 DEF Call, FirstStep
    <2>2. SideInv' /\ ~At("place")'
      BY <2>1 DEF SideInv, At
    <2> QED
      BY <1>1, <2>2, OrdersStay DEF Call
  <1>2. CASE LookupFinds
    <2>1. call \in Calls
      BY <1>2 DEF LookupFinds, At, TypeOK
    <2>2. SideInv' /\ ~At("place")'
      BY <1>2, <2>1 DEF LookupFinds, AccountInv, SideInv, At, Calls
    <2> QED
      BY <1>2, <2>2, OrdersStay DEF LookupFinds
  <1>3. CASE LookupFails \/ DetailUnfilled
    BY <1>3, NotFoundAccount DEF LookupFails, DetailUnfilled, At
  <1>4. CASE DetailOfFound \/ Confirm \/ ConfirmUntold \/ CallRaises \/ Restart
    <2>1. call' = None /\ UNCHANGED <<orders, overlapped>>
      BY <1>4 DEF DetailOfFound, Confirm, ConfirmUntold, Accept, CallRaises, Restart
    <2>2. SideInv' /\ ~At("place")'
      BY <2>1 DEF SideInv, At
    <2> QED
      BY <2>1, <2>2, OrdersStay
  <1>5. CASE ReadPosition \/ PlaceOrder \/ Fill
    BY <1>5, ReadPositionAccount, PlaceOrderAccount, FillAccount
  <1>6. CASE UNCHANGED vars
    BY <1>6, OrdersStay DEF vars, AccountInv, SideInv, At
  <1> QED
    BY <1>1, <1>2, <1>3, <1>4, <1>5, <1>6 DEF Next

(* Whatever fills between two API calls, and over any restarts, the        *)
(* account is never short, unless position() was read while an earlier     *)
(* SELL was being filled (groww.py:157-178).                               *)
THEOREM NeverSellsShort == Spec => []NeverShort
  <1>1. Init => AccountInv
    <2> SUFFICES ASSUME Init PROVE AccountInv
      OBVIOUS
    <2>1. orders = <<>> /\ call = None /\ DOMAIN orders = {}
      BY DEF Init
    <2>2. \A ids : FilledOf(ids) = Total(<<>>)
      BY <2>1 DEF FilledOf
    <2>3. Held = 0
      BY <2>2, TotalType DEF Held
    <2> QED
      BY <2>1, <2>3 DEF AccountInv, SideInv, Covered, At
  <1>2. AccountInv => NeverShort
    BY DEF AccountInv, Covered, NeverShort
  <1> QED
    BY <1>1, <1>2, InitHolds, StepHolds, AccountStep, PTL DEF Spec
=============================================================================
