----------------------- MODULE MCOrderBookRefinement -----------------------
(***************************************************************************)
(* The instances of MCOrderBook with the history variable, for checking    *)
(* that OrderBook implements AtomicBook.                                   *)
(***************************************************************************)
EXTENDS MCOrderBook, OrderBookRefinement
============================================================================
