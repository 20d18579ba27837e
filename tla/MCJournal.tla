----------------------------- MODULE MCJournal -----------------------------
(* Two wins, two losses and a break-even trade over two strategies. *)
EXTENDS Journal
CONSTANTS t1, t2, t3, t4, t5, momentum, grid
MCTrades == {t1, t2, t3, t4, t5}
MCPnL == t1 :> 4 @@ t2 :> -1 @@ t3 :> 0 @@ t4 :> -3 @@ t5 :> 1
MCStrategies == {momentum, grid}
MCStrategyOf == t1 :> momentum @@ t2 :> grid @@ t3 :> momentum @@ t4 :> momentum @@ t5 :> grid
=============================================================================
