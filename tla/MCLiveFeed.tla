----------------------------- MODULE MCLiveFeed -----------------------------
(***************************************************************************)
(* A small instance of LiveFeed for TLC.                                   *)
(***************************************************************************)
EXTENDS LiveFeed

CONSTANTS ann, ben, eve, s1, s2, r1, r2

Request(kind, user, makers) == [kind |-> kind, user |-> user, makers |-> makers]

\* An order that rests, and the cancellation of another, an order that is killed, or
\* a ticker update; an order that trades, and the resolution of the market.
MCWatched ==
    {r1 :> Request("order", ann, <<>>) @@ r2 :> Request(kind, ben, <<>>) :
        kind \in {"cancel", "killed", "ticker"}}
    \cup {r1 :> Request("order", ann, <<ben>>) @@ r2 :> Request("resolve", ben, <<>>)}

\* Two orders that trade, each on the other's account: both draw two numbers, and
\* they may race for the first.
MCTrades ==
    {r1 :> Request("order", ann, <<ben>>) @@ r2 :> Request("order", ben, <<ann>>)}

MCLoads == MCWatched \cup MCTrades

\* Nobody is connected any more when the two orders trade: the workers number
\* messages whoever listens.
MCPast == [load \in MCLoads |-> IF load \in MCTrades THEN Sockets ELSE {}]

MCOwner == [s \in Sockets |-> eve]
=============================================================================
