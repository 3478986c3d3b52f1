---------------------------- MODULE MCQuoteClient ----------------------------
(***************************************************************************)
(* Instances of QuoteClient for TLC: users who type every short sequence   *)
(* of commands.                                                            *)
(***************************************************************************)
EXTENDS QuoteClient, SequencesExt

MCScripts == BoundedSeq(UserCommands, 3)
=============================================================================
