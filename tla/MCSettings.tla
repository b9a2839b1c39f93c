------------------------------ MODULE MCSettings ------------------------------
(***************************************************************************)
(* Two workers and three forms, with addresses that may be left empty.  A  *)
(* text with more than one field set is longer than the others, so that a  *)
(* shorter one can be written over the rest of a longer one, and only its  *)
(* beginning may reach the disk.                                           *)
(***************************************************************************)
EXTENDS Settings, FiniteSets

CONSTANTS w1, w2, ours

MCWorkers   == {w1, w2}
MCAddresses == {ours}
MCFees      == {1, 2}
MCEnvFile   == [address |-> NoAddress, fee |-> 2, t4address |-> NoAddress, t4fee |-> 2]
MCLength(s) == IF Cardinality({k \in DOMAIN s : s[k] # Blank[k]}) > 1 THEN 2 ELSE 1
=============================================================================
