----------------------------- MODULE MCTcpServer -----------------------------
(***************************************************************************)
(* Instances of TcpServer for TLC, with one ticker.                        *)
(***************************************************************************)
EXTENDS TcpServer, TLC

MCNames == {"AAPL"}
MCUpper == [n \in MCNames |-> n]
MCSubscriptions == {<<"AAPL">>}

\* The handlers of the connections are interchangeable.
HandlerSymmetry == Permutations(Handlers)
=============================================================================
