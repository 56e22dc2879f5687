------------------------- MODULE MCEtherscanHistory -------------------------
(***************************************************************************)
(* EtherscanHistory on small chains.                                       *)
(***************************************************************************)
EXTENDS EtherscanHistory

\* Two streams, one of which fills its pages, and a block that fills a page on
\* its own.
Uneven == ({"normal"} \X {0, 1, MaxHeight} \X {1}) \cup {<<"internal", MaxHeight, 1>>}
Crowd  == Streams \X {FirstHeight} \X (1 .. PageSize)
MCChains == {Uneven, Crowd}
=============================================================================
