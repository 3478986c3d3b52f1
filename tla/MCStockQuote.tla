---------------------------- MODULE MCStockQuote ----------------------------
(***************************************************************************)
(* Instances of StockQuote for TLC: every ticker of up to four tokens.     *)
(***************************************************************************)
EXTENDS StockQuote, SequencesExt

MCTickerTexts == BoundedSeq({Word("AAPL"), Num(1), Sep}, 4) \ {<<>>}
MCTimes == {-1, 0, 1, 2}
=============================================================================
