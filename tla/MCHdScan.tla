------------------------------ MODULE MCHdScan ------------------------------
(***************************************************************************)
(* HdScan for TLC: how deep the owner uses each chain.                     *)
(***************************************************************************)
EXTENDS HdScan, TLC

ExternalOnly == [c \in Chains |-> IF c = 0 THEN 2 ELSE 0]
BothChains   == [c \in Chains |-> IF c = 0 THEN 2 ELSE 1]
FirstOfEach  == [c \in Chains |-> 1]
=============================================================================
