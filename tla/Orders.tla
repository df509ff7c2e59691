------------------------------- MODULE Orders -------------------------------
(***************************************************************************)
(* Orders as the core crates read them (openmatch-types/src/order.rs).     *)
(* Decimals are small naturals; DecMax stands for Decimal::MAX, the        *)
(* sentinel effective price of a market buy, larger than every limit       *)
(* price of a model.  An order is a record                                 *)
(*   [id, user, side, otype, price, qty, rem, seq]                         *)
(* with rem = remaining_qty and seq the buffer-assigned sequence; a market *)
(* or cancel order has price 0 (Option::None).                             *)
(***************************************************************************)
EXTENDS Integers

CONSTANT DecMax

OrderSides == {"Buy", "Sell"}
OrderTypes == {"Limit", "Market", "Cancel"}

(* the fields of struct Order the core reads; market, status, sr_id,      *)
(* epoch_id, origin_node and the timestamps are not read by matching      *)
OrderRecords(Ids, Users) ==
  [id : Ids, user : Users, side : OrderSides, otype : OrderTypes,
   price : Nat, qty : Nat, rem : Nat, seq : Nat]

(* Order::effective_price *)
EffectivePrice(o) ==
  CASE o.otype = "Limit"                      -> o.price
    [] o.otype = "Market" /\ o.side = "Buy"   -> DecMax
    [] OTHER                                  -> 0
=============================================================================
