----------------------------- MODULE BitcoinNode -----------------------------
(***************************************************************************)
(* The Bitcoin Core node a pusher talks to, as far as bal-pusher.rs uses   *)
(* it: getblockchaininfo, sendrawtransaction, getrawtransaction and        *)
(* getmempoolentry.  The node is not part of the repository (external).    *)
(*                                                                         *)
(* Blocks are never disconnected: chain reorganisations are left out.      *)
(* Heights and times saturate at MaxHeight and MaxTime: a block found at   *)
(* the cap is still announced but moves neither any further.               *)
(***************************************************************************)
EXTENDS Naturals

CONSTANTS
  Txs,        \* the will transactions one network's executor may be given
  Locktime,   \* nLockTime of each of them
  Threshold,  \* LOCKTIME_THRESHOLD: heights below, UNIX times from there on
  MinHeight, MaxHeight,   \* first and last height of the chain
  MinTime, MaxTime,       \* first and last median time past
  TxIndex,    \* the node runs with txindex=1
  Faults,     \* the kinds of fault that may occur in a behaviour ...
  MaxFaults   \* ... and how many of them, all kinds together

FaultKinds == {"outage", "lostReply", "refuse", "evict", "relay",
               "unheard", "crash", "busy", "badKey"}

ASSUME LocktimeAssumption  == Locktime \in [Txs -> Nat]
ASSUME ThresholdAssumption == Threshold \in Nat
ASSUME BoundsAssumption ==
  /\ MinHeight \in Nat /\ MaxHeight \in Nat
  /\ MinTime \in Nat /\ MaxTime \in Nat
  /\ MinHeight <= MaxHeight
  /\ MaxHeight <= Threshold   \* no block height is as large as a UNIX time
ASSUME FaultsAssumption ==
  Faults \subseteq FaultKinds /\ MaxFaults \in Nat /\ TxIndex \in BOOLEAN

VARIABLES
  height,    \* height of the best block
  mtp,       \* its median time past
  mempool,   \* the transactions in the node's mempool
  minedAt,   \* the height of the block a transaction is in, 0 if in none
  rivals,    \* transactions an input of which another confirmed one spent
  up,        \* the node answers RPC calls
  faults     \* how many faults have occurred

nodeVars == <<height, mtp, mempool, minedAt, rivals, up, faults>>

Fault(kind) == kind \in Faults /\ faults < MaxFaults /\ faults' = faults + 1

Bump(n, cap) == IF n < cap THEN n + 1 ELSE n

Mined(t) == minedAt[t] # 0

Confirmations(t) == (height - minedAt[t]) + 1

\* Consensus rule (BIP-113): may t be in the block that follows the best one?
Final(t) ==
  IF Locktime[t] < Threshold THEN Locktime[t] <= height
                             ELSE Locktime[t] < mtp

\* What sendrawtransaction answers; a transaction the mempool already holds is
\* accepted again.  "refused" is the node's relay policy (fees too low, ...).
Answers(t) ==
  IF Mined(t) THEN {"known"}
  ELSE IF t \in rivals THEN {"spent"}
  ELSE IF ~Final(t) THEN {"premature"}
  ELSE IF t \in mempool THEN {"accepted"}
  ELSE {"accepted", "refused"}

\* getrawtransaction finds the mempool, and the chain only with an index.
HasRaw(t) == up /\ (t \in mempool \/ (TxIndex /\ Mined(t)))

HasMempoolEntry(t) == up /\ t \in mempool

NodeInit ==
  /\ height = MinHeight /\ mtp = MinTime
  /\ mempool = {}
  /\ minedAt = [t \in Txs |-> 0]
  /\ rivals = {}
  /\ up = TRUE
  /\ faults = 0

\* A block confirms some of the mempool and transactions in conflict with some
\* other ones: another executor's, or the owner's who moves the coins.
MineBlock ==
  /\ up
  /\ height' = Bump(height, MaxHeight)
  /\ height' > 0
  /\ mtp' \in {mtp, Bump(mtp, MaxTime)}
  /\ \E confirmed \in SUBSET mempool :
     \E lost \in SUBSET {t \in Txs \ confirmed : ~Mined(t)} :
       /\ minedAt' = [t \in Txs |->
                        IF t \in confirmed THEN height' ELSE minedAt[t]]
       /\ rivals' = rivals \cup lost
       /\ mempool' = mempool \ (confirmed \cup lost)
  /\ UNCHANGED up

\* The mempool drops a transaction: fee pressure, or its expiry of two weeks.
Evict(t) ==
  /\ Fault("evict")
  /\ t \in mempool
  /\ mempool' = mempool \ {t}
  /\ UNCHANGED <<height, mtp, minedAt, rivals, up>>

\* Another holder of the signed transaction broadcasts it, or this executor had
\* done so before its database was restored from an older snapshot.
Relay(t) ==
  /\ Fault("relay")
  /\ up /\ Final(t)
  /\ ~Mined(t) /\ t \notin rivals /\ t \notin mempool
  /\ mempool' = mempool \cup {t}
  /\ UNCHANGED <<height, mtp, minedAt, rivals, up>>

NodeStop ==
  /\ Fault("outage")
  /\ up /\ up' = FALSE
  /\ UNCHANGED <<height, mtp, mempool, minedAt, rivals>>

NodeStart ==
  /\ ~up /\ up' = TRUE
  /\ UNCHANGED <<height, mtp, mempool, minedAt, rivals, faults>>
=============================================================================
