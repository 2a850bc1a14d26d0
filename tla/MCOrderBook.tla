---------------------------- MODULE MCOrderBook ----------------------------
(***************************************************************************)
(* Small instances of OrderBook for TLC: every kind of order at every      *)
(* price, quantities up to MaxQuantity, a book and taker of at most        *)
(* Cardinality(OrderIds) orders (cancelled leftovers count).               *)
(***************************************************************************)
EXTENDS OrderBook

CONSTANTS MaxQuantity, MCTypes, MCTimesInForce

\* Zero and out-of-range prices are there to be refused.
MCOrders ==
    {o \in [id : OrderIds, owner : Owners, action : Actions, type : MCTypes,
            tif : MCTimesInForce, quantity : 0..MaxQuantity,
            price : Prices \cup {NullPrice}] :
        /\ o.type = "market" => o.price = NullPrice
        /\ ~ValidOrder(o) => o.type = "limit" /\ o.tif = "gtc" /\ o.action = "buy"
                                /\ o.owner = CHOOSE w \in Owners : TRUE}

Symmetry == Permutations(OrderIds) \cup Permutations(Owners)
============================================================================
