------------------------------ MODULE MCPrices ------------------------------
(***************************************************************************)
(* Two users with a common holding, a foreign one that is sold and bought, *)
(* and a fund, over three days of the daily job.                           *)
(***************************************************************************)
EXTENDS PriceHistory

MCKinds == [s \in Symbols |->
    CASE s = "toyota" -> "jp" [] s = "apple" -> "us" [] s = "emaxis" -> "fund"]

MCHeld == [u \in Users |->
    IF u = "ann" THEN {"toyota", "apple"} ELSE {"toyota", "emaxis"}]

MCTrades == {<<"ann", "apple">>}

=============================================================================
