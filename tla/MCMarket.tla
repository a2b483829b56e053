------------------------------ MODULE MCMarket ------------------------------
(* Small markets for TLC. *)
EXTENDS Market, TLC

\* Any policy: four participants whose roles do not matter.
AnyFour == 1..4
NoRoles == [p \in AnyFour |-> "broker"]
\* The heuristic policies: every role that trades.
TradingRoles == 1 :> "buyer" @@ 2 :> "buyer" @@ 3 :> "investor" @@ 4 :> "landlord"

\* Moves of both signs, the smallest that count as a trend, and one below.
CoarseMoves == {-50, 0, 50}
FineMoves == {-50, -20, -2, -1, 0, 1, 2, 20, 50}
=============================================================================
