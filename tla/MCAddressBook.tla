---------------------------- MODULE MCAddressBook ----------------------------
(***************************************************************************)
(* Three requests of two clients, so that one client can race with itself  *)
(* and with the other, and an index can be lost before it is saved.        *)
(***************************************************************************)
EXTENDS AddressBook

CONSTANTS c1, c2, c3, alice, bob

MCCalls   == {c1, c2, c3}
MCClients == {alice, bob}

MCUploads ==
  {{[address |-> 1,         xpub |-> OwnId, client |-> bob, date |-> 0]},
   {[address |-> Error - 1, xpub |-> OwnId, client |-> bob, date |-> MaxSecond]}}
=============================================================================
