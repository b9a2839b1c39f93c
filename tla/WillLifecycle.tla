---------------------------- MODULE WillLifecycle ----------------------------
(***************************************************************************)
(* What the executor promises of each will transaction, in the words of    *)
(* the dashboard (resolveState): it waits, it is broadcast only once its   *)
(* locktime has passed, and from then on its fate only moves forward.      *)
(***************************************************************************)
EXTENDS Naturals

CONSTANTS
  Txs, Locktime, Threshold,
  Durable    \* a confirmation, once shown, is never taken back

VARIABLES
  now,       \* best height and median time past of the chain
  fate       \* the state shown of each transaction

Fates == {"unknown", "waiting", "mempool", "confirmed", "elsewhere"}

vars == <<now, fate>>

Mature(t) ==
  \/ Locktime[t] < now.height
  \/ Locktime[t] > Threshold /\ Locktime[t] < now.mtp

Init ==
  /\ now \in [height : Nat, mtp : Nat]
  /\ fate = [t \in Txs |-> "unknown"]

Becomes(t, from, to) ==
  /\ fate[t] = from
  /\ fate' = [fate EXCEPT ![t] = to]
  /\ UNCHANGED now

Tick ==
  /\ now' \in [height : Nat, mtp : Nat]
  /\ now.height <= now'.height /\ now.mtp <= now'.mtp
  /\ UNCHANGED fate

Store(t)     == Becomes(t, "unknown", "waiting")
Broadcast(t) == Mature(t) /\ Becomes(t, "waiting", "mempool")
Refuse(t)    == Mature(t) /\ Becomes(t, "waiting", "elsewhere")
Confirm(t)   == Becomes(t, "mempool", "confirmed")
Displace(t)  == Becomes(t, "mempool", "elsewhere")
TakeBack(t)  == ~Durable /\ Becomes(t, "confirmed", "elsewhere")

Next ==
  \/ Tick
  \/ \E t \in Txs :
       \/ Store(t) \/ Broadcast(t) \/ Refuse(t)
       \/ Confirm(t) \/ Displace(t) \/ TakeBack(t)

Spec == Init /\ [][Next]_vars
=============================================================================
