------------------------------- MODULE Groww --------------------------------
(***************************************************************************)
(* GrowwExecution (groww.py): the adapter between the execution port and   *)
(* the Groww API, for one instrument.  A port call is several API calls;   *)
(* each API call is a step, so orders fill, calls raise and the process    *)
(* dies between any two of them.                                           *)
(***************************************************************************)
EXTENDS Totals

CONSTANTS
  BuyIds, CloseIds,  \* client order ids; a reference id stands for each
  MaxQuantity,       \* bound: units of a BUY
  MaxOrders,         \* bound: orders the API accepts
  None

Ids == BuyIds \cup CloseIds

ASSUME GrowwAssumption ==
  /\ BuyIds \cap CloseIds = {} /\ None \notin Ids
  /\ MaxQuantity \in Nat \ {0} /\ MaxOrders \in Nat

VARIABLES
  orders,    \* at Groww: reference, quantity and filled quantity, as placed
  receipts,  \* _buy_receipts and _close_receipts; told: the quantity is an
             \* answer of Groww's, for the properties
  call,      \* the port call under way, or None
  blind,     \* history: ids a lookup did not find although placed
  overlapped \* history: position() was read while a SELL was being filled

vars == <<orders, receipts, call, blind, overlapped>>

Orders == [id : Ids, quantity : Nat \ {0}, filled : Nat]
Placed(id) == \E i \in DOMAIN orders : orders[i].id = id

FilledOf(ids) ==
  Total([i \in DOMAIN orders |->
           IF orders[i].id \in ids THEN orders[i].filled ELSE 0])

(* The quantity of the account.                                            *)
Held == FilledOf(BuyIds) - FilledOf(CloseIds)

Init ==
  /\ orders = <<>> /\ receipts = [id \in Ids |-> None] /\ call = None
  /\ blind = {} /\ overlapped = FALSE

-----------------------------------------------------------------------------
(* submit_buy, close_long, find_buy_order, find_close_order.  An id with a *)
(* receipt in memory is answered without a step.                           *)

At(step) == call # None /\ call.step = step
Goto(step) == call' = [call EXCEPT !.step = step]

FirstStep_NoLookup(op) == IF op = "submit" THEN "place" ELSE "lookup"
FirstStep(op) == "lookup"

Call ==
  /\ call = None
  /\ \E id \in Ids, op \in {"submit", "close", "find"}, q \in 1 .. MaxQuantity :
       /\ receipts[id] = None
       /\ op = "submit" => id \in BuyIds
       /\ op = "close" => id \in CloseIds
       /\ op # "submit" => q = 1
       /\ call' = [op |-> op, id |-> id, step |-> FirstStep(op),
                   quantity |-> q, order |-> 0]
  /\ UNCHANGED <<orders, receipts, blind, overlapped>>

(* The lookup answers None: a find ends with it, the others go on.         *)
NotFound ==
  /\ blind' = IF Placed(call.id) THEN blind \cup {call.id} ELSE blind
  /\ call' = CASE call.op = "find"   -> None
               [] call.op = "submit" -> [call EXCEPT !.step = "place"]
               [] call.op = "close"  -> [call EXCEPT !.step = "position"]

LookupFinds_Any ==
  /\ At("lookup")
  /\ \E i \in DOMAIN orders :
       call' = [call EXCEPT !.step = "detail", !.order = i]
  /\ UNCHANGED <<orders, receipts, blind, overlapped>>

(* get_order_status_by_reference_id: whatever it raises is an absent order *)
LookupFinds ==
  /\ At("lookup")
  /\ \E i \in DOMAIN orders :
       /\ orders[i].id = call.id
       /\ call' = [call EXCEPT !.step = "detail", !.order = i]
  /\ UNCHANGED <<orders, receipts, blind, overlapped>>

LookupFails ==
  /\ At("lookup") /\ NotFound
  /\ UNCHANGED <<orders, receipts, overlapped>>

Accept(n, told) ==
  /\ receipts' = [receipts EXCEPT ![call.id] =
                    [order |-> call.order, quantity |-> n, told |-> told]]
  /\ call' = None
  /\ UNCHANGED <<orders, blind, overlapped>>

DetailOfFound_Ordered ==
  /\ At("detail") /\ orders[call.order].filled > 0
  /\ Accept(orders[call.order].quantity, TRUE)

(* get_order_detail, of an order the lookup found.                         *)
DetailOfFound ==
  /\ At("detail") /\ orders[call.order].filled > 0
  /\ Accept(orders[call.order].filled, TRUE)

(* A found order is absent too when nothing of it is filled yet, or when   *)
(* the detail does not say how much.                                       *)
DetailUnfilled ==
  /\ At("detail")
  /\ NotFound
  /\ UNCHANGED <<orders, receipts, overlapped>>

SellsOpen ==
  \E i \in DOMAIN orders :
    orders[i].id \in CloseIds /\ orders[i].filled < orders[i].quantity

ReadPosition_Bought ==
  /\ At("position")
  /\ call' = IF Held > 0 THEN [call EXCEPT !.step = "place",
                                !.quantity = FilledOf(BuyIds)] ELSE None
  /\ overlapped' = (overlapped \/ SellsOpen)
  /\ UNCHANGED <<orders, receipts, blind>>

(* position(): without a long close_long raises.                           *)
ReadPosition ==
  /\ At("position")
  /\ call' = IF Held \in Nat \ {0}
              THEN [call EXCEPT !.step = "place", !.quantity = Held]
              ELSE None
  /\ overlapped' = (overlapped \/ SellsOpen)
  /\ UNCHANGED <<orders, receipts, blind>>

(* place_order: accepted, and the answer comes back or is lost.            *)
PlaceOrder ==
  /\ At("place") /\ Len(orders) < MaxOrders
  /\ orders' = Append(orders, [id |-> call.id, quantity |-> call.quantity,
                               filled |-> 0])
  /\ call' \in {[call EXCEPT !.step = "confirm", !.order = Len(orders')], None}
  /\ UNCHANGED <<receipts, blind, overlapped>>

(* get_order_detail of the order just placed: its fill so far is a receipt *)
Confirm == At("confirm") /\ Accept(orders[call.order].filled, TRUE)

(* The detail does not say how much is filled: submit_buy takes what the   *)
(* answer to place_order said, and where that does not say it either, and  *)
(* in close_long, the whole order counts as filled.                        *)
ConfirmUntold ==
  /\ At("confirm")
  /\ \/ call.op = "submit" /\ \E n \in 0 .. orders[call.order].filled : Accept(n, TRUE)
     \/ Accept(call.quantity, FALSE)

(* Any other API call raises, or an answer without an order id or a time.  *)
CallRaises ==
  /\ call # None /\ call.step # "lookup"
  /\ call' = None
  /\ UNCHANGED <<orders, receipts, blind, overlapped>>

Fill ==
  /\ \E i \in DOMAIN orders :
       \E n \in orders[i].filled + 1 .. orders[i].quantity :
         orders' = [orders EXCEPT ![i].filled = n]
  /\ UNCHANGED <<receipts, call, blind, overlapped>>

Restart ==
  /\ receipts' = [id \in Ids |-> None] /\ call' = None
  /\ UNCHANGED <<orders, blind, overlapped>>

Next ==
  \/ Call \/ LookupFinds \/ LookupFails \/ DetailOfFound \/ DetailUnfilled
  \/ ReadPosition \/ PlaceOrder \/ Confirm \/ ConfirmUntold
  \/ CallRaises \/ Fill \/ Restart

Spec == Init /\ [][Next]_vars

-----------------------------------------------------------------------------
Calls ==
  [op : {"submit", "close", "find"}, id : Ids, order : Nat, quantity : Nat \ {0},
   step : {"lookup", "detail", "position", "place", "confirm"}]

Receipts == [order : Nat, quantity : Nat, told : BOOLEAN]

(* Every variable has a value the code can give it, and a call that works  *)
(* on an order works on one of its own id.                                 *)
TypeOK ==
  /\ orders \in Seq(Orders) /\ Len(orders) <= MaxOrders
  /\ \A i \in DOMAIN orders : orders[i].filled <= orders[i].quantity
  /\ receipts \in [Ids -> Receipts \cup {None}]
  /\ call = None \/ call \in Calls
  /\ At("detail") \/ At("confirm") =>
       call.order \in DOMAIN orders /\ orders[call.order].id = call.id
  /\ blind \subseteq Ids /\ overlapped \in BOOLEAN

(* The only way to a second order of one client id is a lookup that did    *)
(* not find the first: over lost answers, exceptions and restarts an id is *)
(* placed once as long as every lookup finds what was placed               *)
(* (groww.py:54-71, 154-178).                                              *)
OneOrderPerId ==
  \A i, j \in DOMAIN orders :
    orders[i].id = orders[j].id /\ orders[i].id \notin blind => i = j

(* What a receipt may claim of its order: what Groww has filled of it, or  *)
(* all of it when Groww did not say (groww.py:87-89, 183).                 *)
Claimable(r) ==
  IF r.told THEN orders[r.order].filled ELSE orders[r.order].quantity

(* A receipt names an order of its own client id and claims no more than   *)
(* Groww has filled of it, unless Groww's answers to submit_buy or         *)
(* close_long did not say how much: then the code takes the order for      *)
(* filled, and the receipt claims no more than was ordered                 *)
(* (groww.py:72-97, 122-139, 182-198, 222-240).                            *)
ReceiptsBacked ==
  \A id \in Ids : receipts[id] # None =>
    /\ receipts[id].order \in DOMAIN orders
    /\ orders[receipts[id].order].id = id
    /\ receipts[id].quantity <= Claimable(receipts[id])

(* close_long sells what position() reports, two API calls before: the     *)
(* account never goes short, whatever fills in between, unless position()  *)
(* was read while an earlier SELL was being filled (groww.py:157-178).     *)
NeverShort == Held >= 0 \/ overlapped

(* ports.py:49, "Submit idempotently by client_order_id."  An order Groww  *)
(* accepted but has not filled yet is placed again (groww.py:122-123).     *)
SubmitsOnce ==
  \A i, j \in DOMAIN orders :
    orders[i].id = orders[j].id /\ orders[i].id \in BuyIds => i = j

(* ports.py:53, "Return an accepted/fill receipt": submit_buy also returns *)
(* one with nothing filled (groww.py:82-97), which the coordinator records *)
(* as BUY_FILLED, and one of a fill it only assumed.  Not checked by a run.*)
ReceiptsAreFills ==
  \A id \in Ids :
    receipts[id] # None => receipts[id].told /\ receipts[id].quantity > 0
=============================================================================
