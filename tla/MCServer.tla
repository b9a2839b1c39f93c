------------------------------ MODULE MCServer ------------------------------
(***************************************************************************)
(* Two pushtxs requests, with bodies that overlap in one transaction,      *)
(* bring one twice, bring one that pays too little, and exceed MaxTerms    *)
(* (2), beside two info requests, whose addresses the transactions pay.    *)
(***************************************************************************)
EXTENDS Server

CONSTANTS c1, c2, i1, i2, will, heir, cheap, alice

MCTxs    == {will, heir, cheap}
MCBodies == {<<will>>, <<cheap, will, heir>>, <<Junk, heir, will, heir>>}
MCPays   == [t \in MCTxs |-> IF t = heir THEN 0 ELSE 1]
MCFee    == [t \in MCTxs |-> IF t = cheap THEN 1 ELSE 2]
=============================================================================
