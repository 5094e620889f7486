------------------------------- MODULE MCTpcc -------------------------------
(* Logs of NewOrders and Payments that conflict in some rows and are       *)
(* independent in others.                                                  *)
EXTENDS Tpcc

NewOrder(w, d, c, lines) ==
  [type |-> "NewOrder", w_id |-> w, d_id |-> d, c_id |-> c, lines |-> lines, h_amount |-> 0]

Payment(w, d, c, amount) ==
  [type |-> "Payment", w_id |-> w, d_id |-> d, c_id |-> c, lines |-> <<>>,
   h_amount |-> amount]

Line(w, i, qty) == [i_w_id |-> w, i_id |-> i, qty |-> qty]

(* Two warehouses of one district, with an item from the other warehouse. *)
TwoWarehouses ==
  << NewOrder(1, 1, 1, <<Line(1, 1, 10), Line(2, 2, 1)>>),
     Payment(2, 1, 1, 3),
     NewOrder(2, 1, 1, <<Line(2, 2, 9)>>),
     NewOrder(1, 1, 2, <<Line(1, 1, 10)>>) >>

(* One warehouse, whose two districts run in parallel; the first one's     *)
(* new orders have nothing but the district in common.  Both districts     *)
(* receive a payment, the first one's after its orders.                    *)
TwoDistricts ==
  << NewOrder(1, 1, 1, <<Line(1, 1, 1)>>),
     NewOrder(1, 2, 1, <<Line(1, 2, 1)>>),
     NewOrder(1, 1, 2, <<Line(1, 2, 1)>>),
     Payment(1, 2, 2, 5),
     Payment(1, 1, 1, 3) >>

=============================================================================
