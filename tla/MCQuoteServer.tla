---------------------------- MODULE MCQuoteServer ----------------------------
(***************************************************************************)
(* Instances of QuoteServer for TLC.  The config file lists one ticker in  *)
(* upper case and one in lower case, and a blank line.                     *)
(***************************************************************************)
EXTENDS QuoteServer

MCNames == {"AAPL", "MSFT", "msft", "XYZ", ""}
MCUpper == [n \in MCNames |-> IF n = "msft" THEN "MSFT" ELSE n]
MCConfigLines == {"AAPL", "msft", ""}

\* Both served tickers, so that a pass can be torn, and one that is not served.
MCMixed == {<<"AAPL", "MSFT">>, <<"XYZ", "AAPL">>}

MCTwoNames == {"AAPL", "MSFT"}
MCTwoUpper == [n \in MCTwoNames |-> n]
MCOneSub == {<<"AAPL">>}
=============================================================================
