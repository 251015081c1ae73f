------------------------------ MODULE MCMarket ------------------------------
(* SubscriptionService with the requests about one purchase at a time, for   *)
(* TLC: purchases share no row and no event, so all that requests about two  *)
(* of them could do together is take up handlers.                            *)
EXTENDS MCService

VARIABLE market   \* the purchase of this behaviour

MarketSpec ==
  /\ RepositoryInit /\ market \in Purchases
  /\ [][/\ ServiceNext
        /\ \A h \in Handlers : job'[h].purchase \in {market, Nil}
        /\ market' = market]_<<vars, market>>
=============================================================================
