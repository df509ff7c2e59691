------------------------------ MODULE OrderBook ------------------------------
(***************************************************************************)
(* The OrderBook of openmatch-matchcore (orderbook.rs, price_level.rs) as  *)
(* a component of its own: insert_order, insert_batch, cancel_order and    *)
(* drain_all on one market, with the queries the matcher and callers read. *)
(*                                                                         *)
(* bids and asks are the two BTreeMaps: a function from the prices that    *)
(* have a PriceLevel to that level's VecDeque of orders.  index is the     *)
(* HashMap OrderId -> (side, price).  The matcher's in-place fills         *)
(* (bid_levels_mut) are modelled in Matchcore; here orders keep their      *)
(* quantities.                                                             *)
(***************************************************************************)
EXTENDS Orders, Sequences, SequencesExt, FiniteSets

CONSTANTS
  BookOrders,    \* the orders callers may insert (records of module Orders)
  MaxInserts     \* bound: successful insert_order calls in a behaviour

VARIABLES
  bids,          \* price -> Seq of orders, one entry per PriceLevel
  asks,
  index,         \* order id -> [side, price]
  result,        \* what the last call returned
  inserted,      \* history: number of successful insert_order calls
  stamp          \* history: id -> the value of `inserted` when it was added

vars == <<bids, asks, index, result, inserted, stamp>>

BookResults == {"Ok", "DuplicateOrder", "OrderNotFound"}

(* OrderBook::new *)
Init ==
  /\ bids = <<>> /\ asks = <<>>
  /\ index = <<>>
  /\ result = "Ok"
  /\ inserted = 0
  /\ stamp = <<>>

(* f with key k set to v, the key added when absent (BTreeMap::entry) *)
Put(f, k, v) == [x \in DOMAIN f \cup {k} |-> IF x = k THEN v ELSE f[x]]

(* f without key k (BTreeMap::remove, HashMap::remove) *)
Drop(f, k) == [x \in DOMAIN f \ {k} |-> f[x]]

(* PriceLevel::push_back on the level at p, created when absent *)
PushBack(side, p, o) ==
  LET lvl == IF p \in DOMAIN side THEN side[p] ELSE <<>>
  IN Put(side, p, Append(lvl, o))

-----------------------------------------------------------------------------
(* The book as a record, so that insert_batch can run insert_order on it  *)
(* one order after another.                                                *)
Book == [bids |-> bids, asks |-> asks, index |-> index, result |-> "Ok",
         inserted |-> inserted, stamp |-> stamp]

(* mutant: push_front instead of push_back                                 *)
InsertOrderOnFront(b, o) ==
  IF o.id \in DOMAIN b.index THEN [b EXCEPT !.result = "DuplicateOrder"]
  ELSE LET p == EffectivePrice(o)
           AtFront(side) == Put(side, p, <<o>> \o (IF p \in DOMAIN side THEN side[p] ELSE <<>>))
       IN [b EXCEPT !.index = Put(@, o.id, [side |-> o.side, price |-> p]),
                    !.bids  = IF o.side = "Buy"  THEN AtFront(@) ELSE @,
                    !.asks  = IF o.side = "Sell" THEN AtFront(@) ELSE @,
                    !.result = "Ok",
                    !.inserted = @ + 1,
                    !.stamp = Put(@, o.id, b.inserted + 1)]

(* mutant: no DuplicateOrder check                                          *)
InsertOrderOnNoDupCheck(b, o) ==
  LET p == EffectivePrice(o)
  IN [b EXCEPT !.index = Put(@, o.id, [side |-> o.side, price |-> p]),
               !.bids  = IF o.side = "Buy"  THEN PushBack(@, p, o) ELSE @,
               !.asks  = IF o.side = "Sell" THEN PushBack(@, p, o) ELSE @,
               !.result = "Ok",
               !.inserted = @ + 1,
               !.stamp = Put(@, o.id, b.inserted + 1)]

(* OrderBook::insert_order: reject a known id, else index the order at its *)
(* effective price and push it to the back of that price's level           *)
InsertOrderOn(b, o) ==
  IF o.id \in DOMAIN b.index THEN [b EXCEPT !.result = "DuplicateOrder"]
  ELSE LET p == EffectivePrice(o)
       IN [b EXCEPT !.index = Put(@, o.id, [side |-> o.side, price |-> p]),
                    !.bids  = IF o.side = "Buy"  THEN PushBack(@, p, o) ELSE @,
                    !.asks  = IF o.side = "Sell" THEN PushBack(@, p, o) ELSE @,
                    !.result = "Ok",
                    !.inserted = @ + 1,
                    !.stamp = Put(@, o.id, b.inserted + 1)]

(* OrderBook::insert_batch: insert_order on each order in turn; the `?`    *)
(* returns at the first error, keeping the orders inserted before it       *)
RECURSIVE InsertBatchOn(_, _)
InsertBatchOn(b, os) ==
  IF os = <<>> THEN b
  ELSE LET b1 == InsertOrderOn(b, Head(os))
       IN IF b1.result # "Ok" THEN b1 ELSE InsertBatchOn(b1, Tail(os))

SetBook(b) ==
  /\ bids' = b.bids /\ asks' = b.asks /\ index' = b.index
  /\ result' = b.result /\ inserted' = b.inserted /\ stamp' = b.stamp

InsertOrder(o) ==
  /\ inserted < MaxInserts
  /\ SetBook(InsertOrderOn(Book, o))

InsertBatch(os) ==
  /\ inserted + Len(os) <= MaxInserts
  /\ SetBook(InsertBatchOn(Book, os))

-----------------------------------------------------------------------------
(* PriceLevel::remove_order: the level without the order of that id       *)
RemoveFromLevel(lvl, id) == SelectSeq(lvl, LAMBDA o : o.id # id)

InLevel(lvl, id) == \E k \in 1..Len(lvl) : lvl[k].id = id

(* mutant: the emptied level is kept                                        *)
CancelSideKeepEmpty(side, p, id) == Put(side, p, RemoveFromLevel(side[p], id))

(* the level map after removing the order: a level left empty is removed   *)
CancelSide(side, p, id) ==
  LET lvl == RemoveFromLevel(side[p], id)
  IN IF lvl = <<>> THEN Drop(side, p) ELSE Put(side, p, lvl)

(* OrderBook::cancel_order.  The index entry is removed first; when the   *)
(* level or the order in it is then missing, OrderNotFound is returned     *)
(* with the index entry already gone.                                      *)
CancelOrder(id) ==
  IF id \notin DOMAIN index
  THEN /\ result' = "OrderNotFound"
       /\ UNCHANGED <<bids, asks, index, inserted, stamp>>
  ELSE LET e    == index[id]
           side == IF e.side = "Buy" THEN bids ELSE asks
       IN /\ index' = Drop(index, id)
          /\ IF e.price \in DOMAIN side /\ InLevel(side[e.price], id)
             THEN /\ result' = "Ok"
                  /\ bids' = IF e.side = "Buy"  THEN CancelSide(bids, e.price, id) ELSE bids
                  /\ asks' = IF e.side = "Sell" THEN CancelSide(asks, e.price, id) ELSE asks
             ELSE /\ result' = "OrderNotFound"
                  /\ UNCHANGED <<bids, asks>>
          /\ UNCHANGED <<inserted, stamp>>

(* mutant: the asks are drained into the result but asks.clear() is       *)
(* missing                                                                 *)
DrainAllKeepAsks ==
  /\ bids' = <<>> /\ index' = <<>>
  /\ result' = "Ok"
  /\ UNCHANGED <<asks, inserted, stamp>>

(* OrderBook::drain_all: clear the index and both sides *)
DrainAll ==
  /\ bids' = <<>> /\ asks' = <<>> /\ index' = <<>>
  /\ result' = "Ok"
  /\ UNCHANGED <<inserted, stamp>>

-----------------------------------------------------------------------------
(* mutant: the bid map iterated lowest price first (Reverse key dropped)  *)
BestBidLowest == IF DOMAIN bids = {} THEN -1 ELSE Min(DOMAIN bids)

(* Queries.  A BTreeMap iterates its keys in order: best_bid is the       *)
(* highest bid price (Reverse key), best_ask the lowest ask price; None    *)
(* is -1.                                                                  *)
BestBid == IF DOMAIN bids = {} THEN -1 ELSE Max(DOMAIN bids)
BestAsk == IF DOMAIN asks = {} THEN -1 ELSE Min(DOMAIN asks)

(* mid_price = (bid + ask) / 2, kept doubled; the Decimal add panics when *)
(* the sum passes Decimal::MAX (a market buy sits at Decimal::MAX)         *)
MidPrice2 ==
  CASE BestBid = -1 \/ BestAsk = -1  -> [panic |-> FALSE, value |-> -1]
    [] BestBid + BestAsk > DecMax    -> [panic |-> TRUE,  value |-> -1]
    [] OTHER                         -> [panic |-> FALSE, value |-> BestBid + BestAsk]

(* spread = best_ask - best_bid; None (-1) if either side is empty        *)
Spread == IF BestBid = -1 \/ BestAsk = -1 THEN -1 ELSE BestAsk - BestBid

OrderCount == Cardinality(DOMAIN index)
BidDepth   == Cardinality(DOMAIN bids)
AskDepth   == Cardinality(DOMAIN asks)
IsEmpty    == DOMAIN index = {}

(* PriceLevel::total_quantity: the remaining quantities of its orders      *)
LevelTotalQuantity(lvl) == FoldLeft(LAMBDA acc, o : acc + o.rem, 0, lvl)
ContainsOrder(id) == id \in DOMAIN index

(* all orders resting in the levels *)
RestingOrders ==
  UNION {ToSet(bids[p]) : p \in DOMAIN bids} \cup UNION {ToSet(asks[p]) : p \in DOMAIN asks}

-----------------------------------------------------------------------------
Next ==
  \/ \E o \in BookOrders : InsertOrder(o)
  \/ \E o1, o2 \in BookOrders : InsertBatch(<<o1, o2>>)
  \/ \E o \in BookOrders : CancelOrder(o.id)
  \/ DrainAll

Spec == Init /\ [][Next]_vars

-----------------------------------------------------------------------------
BookPrices == {EffectivePrice(o) : o \in BookOrders}

(* Every PriceLevel in the two maps holds at least one order: cancel_order *)
(* removes a level it empties, and drain_all clears the maps.               *)
TypeOK ==
  /\ \A side \in {bids, asks} :
       /\ DOMAIN side \subseteq BookPrices
       /\ \A p \in DOMAIN side : side[p] \in Seq(BookOrders) \ {<<>>}
  /\ DOMAIN index \subseteq {o.id : o \in BookOrders}
  /\ \A id \in DOMAIN index : index[id] \in [side : OrderSides, price : BookPrices]
  /\ result \in BookResults
  /\ inserted \in 0..MaxInserts

(* The places an order id occurs in the levels: side, price, position     *)
SideOccurrences(sname, side, id) ==
  UNION {{<<sname, p, k>> : k \in {j \in DOMAIN side[p] : side[p][j].id = id}} : p \in DOMAIN side}

Occurrences(id) == SideOccurrences("Buy", bids, id) \cup SideOccurrences("Sell", asks, id)

(* The cancel index and the levels agree after any sequence of inserts,   *)
(* batch inserts, cancels and drains: an id is in the index exactly when   *)
(* it rests in exactly one level, on the side and at the price the index   *)
(* names.  cancel_order trusts the index to find the order.                *)
IndexMatchesLevels ==
  \A id \in {o.id : o \in BookOrders} :
     IF id \in DOMAIN index
     THEN /\ Cardinality(Occurrences(id)) = 1
          /\ \A x \in Occurrences(id) : x[1] = index[id].side /\ x[2] = index[id].price
     ELSE Occurrences(id) = {}

(* Time priority: within a level, orders sit in the order in which        *)
(* insert_order accepted them, whatever was cancelled in between.          *)
TimePriority ==
  \A side \in {bids, asks} : \A p \in DOMAIN side :
     \A j, k \in DOMAIN side[p] : j < k => stamp[side[p][j].id] < stamp[side[p][k].id]

(* The queries read the structure, not the orders: best_bid and best_ask  *)
(* (the first keys of the maps) are the best effective prices among the    *)
(* resting orders, spread is their difference, order_count (the index      *)
(* size) is their number, bid_depth and ask_depth (the map sizes) count    *)
(* the distinct prices resting on each side, and a level's total_quantity  *)
(* is the remaining quantity resting at its price.                         *)
PricesOf(s) == {EffectivePrice(o) : o \in {x \in RestingOrders : x.side = s}}
RestingAt(s, p) == {o \in RestingOrders : o.side = s /\ EffectivePrice(o) = p}

QueriesMatchBook ==
  /\ BestBid = IF PricesOf("Buy") = {} THEN -1 ELSE Max(PricesOf("Buy"))
  /\ BestAsk = IF PricesOf("Sell") = {} THEN -1 ELSE Min(PricesOf("Sell"))
  /\ Spread = IF PricesOf("Buy") = {} \/ PricesOf("Sell") = {} THEN -1
              ELSE Min(PricesOf("Sell")) - Max(PricesOf("Buy"))
  /\ OrderCount = Cardinality(RestingOrders)
  /\ BidDepth = Cardinality(PricesOf("Buy")) /\ AskDepth = Cardinality(PricesOf("Sell"))
  /\ \A p \in DOMAIN bids :
       LevelTotalQuantity(bids[p]) = MapThenSumSet(LAMBDA o : o.rem, RestingAt("Buy", p))
  /\ \A p \in DOMAIN asks :
       LevelTotalQuantity(asks[p]) = MapThenSumSet(LAMBDA o : o.rem, RestingAt("Sell", p))

(* The book implements AbstractBook: the resting orders only grow by      *)
(* orders under fresh ids, shrink one cancelled order at a time, or are    *)
(* all drained. A rejected call leaves them as they were, except           *)
(* insert_batch: the orders before its DuplicateOrder stay inserted, and   *)
(* the mapping admits that kept prefix as Add steps, so this property      *)
(* cannot tell a partial batch from a complete one.                        *)
AB == INSTANCE AbstractBook WITH Orders <- BookOrders, resting <- RestingOrders

RefinesAbstractBook == AB!AbstractSpec
=============================================================================
