----------------------------- MODULE MCEndToEnd -----------------------------
(***************************************************************************)
(* Instances of EndToEnd for TLC: one ticker, and what the user types.     *)
(***************************************************************************)
EXTENDS EndToEnd, TLC

MCNames == {"AAPL"}
MCUpper == [n \in MCNames |-> n]
MCSubscriptions == {<<"AAPL">>}

\* A subscription that is ended, a command that fails before a STOP, and an unknown one.
MCScripts == {<<"STREAM", "STOP">>, <<"BAD STREAM", "STOP">>, <<"OTHER">>}
MCSubscribeOnce == {<<"STREAM", "STOP">>}

\* The handlers of the connections are interchangeable.
HandlerSymmetry == Permutations(Handlers)
=============================================================================
